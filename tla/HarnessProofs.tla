---------------------------- MODULE HarnessProofs ---------------------------
(***************************************************************************)
(* Proof that the harness counts every replay once, for all sequences of   *)
(* benchmarks and modes and all bounds on the runs: CountedOnce of Harness *)
(* is an invariant of HSpec, in which the frame may hold any page that     *)
(* reports as the runner does, storage may be missing or fill up, and the  *)
(* user may reload at any time.                                            *)
(***************************************************************************)
EXTENDS Harness, TLAPS

\* The rounds the counters run, b and m have entered for s.
Rounds(run, b, m, s) == run + IF s[1] < b \/ (s[1] = b /\ s[2] < m) THEN 1 ELSE 0

\* The types of the results and counters, in memory or saved.
Counts(res, drop, run, b, m) ==
    /\ res \in [Slot -> Seq(Times)] /\ drop \in [Slot -> Nat]
    /\ run \in Nat /\ b \in Nat /\ m \in Nat
    /\ <<b, m>> \in Slot

\* Every timed slot outside waiting has all its results, one inside lacks one.
Even(res, drop, run, b, m, waiting) ==
    \A s \in Slot : ~Verifies(s) =>
        Rounds(run, b, m, s) = Len(res[s]) + drop[s] + IF s \in waiting THEN 1 ELSE 0

Waiting == IF awaiting THEN {receiver} ELSE {}

CountsNow == Counts(results, dropped, curRun, curBenchmark, curMode)

EvenNow == Even(results, dropped, curRun, curBenchmark, curMode, Waiting)

CountsSaved(st) == Counts(st.results, st.dropped, st.curRun, st.curBenchmark, st.curMode)

EvenSaved(st) == Even(st.results, st.dropped, st.curRun, st.curBenchmark, st.curMode, {})

HType ==
    /\ CountsNow
    /\ harnessState # NoState => CountsSaved(harnessState)
    /\ replay \in Slot \cup {NoSlot} /\ src \in Slot \cup {NoSlot, BlankPage}
    /\ awaiting \in BOOLEAN /\ alive \in BOOLEAN /\ strayed \in BOOLEAN
    /\ timer \in BOOLEAN /\ button \in BOOLEAN
    /\ replay \in Slot \/ src \in Slot \/ awaiting => receiver \in Slot

\* The inductive invariant.  Apart from the balance itself it says where the
\* frame is: a page that may still report is the one the receiver was made
\* for, and one that is timed has not reported yet; and the timer is due, or
\* the button shown, only while nothing is in the frame.
HInv ==
    /\ HType
    /\ ~(timer /\ button)
    /\ timer \/ button => ~awaiting /\ replay = NoSlot /\ src = NoSlot
    /\ ~strayed =>
         /\ EvenNow
         /\ harnessState # NoState => EvenSaved(harnessState)
         /\ src \in Slot => awaiting /\ receiver = src
         /\ alive /\ src = NoSlot => receiver = replay /\ (~Verifies(replay) => awaiting)

-----------------------------------------------------------------------------
\* Slots, and how the counters go through them.

\* A slot is a benchmark with one of its modes.
LEMMA SlotPair ==
    ASSUME NEW b, NEW m
    PROVE  <<b, m>> \in Slot <=>
             /\ b \in 0 .. Len(benchmarks) - 1
             /\ m \in 0 .. Len(ModesAt(b)) - 1
<1>1. <<b, m>> \in Slot <=>
        \E c \in 0 .. Len(benchmarks) - 1 : <<b, m>> \in {c} \X (0 .. Len(ModesAt(c)) - 1)
    BY DEF Slot
<1> QED
    BY <1>1

\* Slots are pairs.
LEMMA SlotIsPair ==
    ASSUME NEW s \in Slot
    PROVE  s = <<s[1], s[2]>>
<1>1. PICK c \in 0 .. Len(benchmarks) - 1 : s \in {c} \X (0 .. Len(ModesAt(c)) - 1)
    BY DEF Slot
<1> QED
    BY <1>1

\* There is a benchmark, and every benchmark has a mode.
LEMMA Lengths ==
    /\ Len(benchmarks) \in Nat \ {0}
    /\ \A b \in 0 .. Len(benchmarks) - 1 : Len(ModesAt(b)) \in Nat \ {0}
<1>1. Len(benchmarks) \in Nat \ {0}
    BY HarnessAssumption
<1>2. ASSUME NEW b \in 0 .. Len(benchmarks) - 1
      PROVE  Len(ModesAt(b)) \in Nat \ {0}
    BY HarnessAssumption
<1> QED
    BY <1>1, <1>2

\* Where LoadNext moves the counters.
Last(b, m) == m + 1 >= Len(ModesAt(b))
Wrap(b, m) == Last(b, m) /\ b + 1 >= Len(benchmarks)
NextMode(b, m) == IF Last(b, m) THEN 0 ELSE m + 1
NextBenchmark(b, m) == IF Wrap(b, m) THEN 0 ELSE IF Last(b, m) THEN b + 1 ELSE b
NextRun(run, b, m) == IF Wrap(b, m) THEN run + 1 ELSE run

\* Moving the counters on enters a round of the slot they were at, and of no
\* other: the arithmetic of LoadNext.
LEMMA Advance ==
    ASSUME NEW run \in Nat, NEW b \in Nat, NEW m \in Nat, <<b, m>> \in Slot
    PROVE  /\ NextRun(run, b, m) \in Nat /\ NextBenchmark(b, m) \in Nat /\ NextMode(b, m) \in Nat
           /\ <<NextBenchmark(b, m), NextMode(b, m)>> \in Slot
           /\ \A s \in Slot : Rounds(NextRun(run, b, m), NextBenchmark(b, m), NextMode(b, m), s)
                                = Rounds(run, b, m, s) + IF s = <<b, m>> THEN 1 ELSE 0
<1> USE DEF NextRun, NextBenchmark, NextMode, Wrap, Last
<1>1. b \in 0 .. Len(benchmarks) - 1 /\ m \in 0 .. Len(ModesAt(b)) - 1
    BY SlotPair
<1>2. Len(benchmarks) \in Nat \ {0} /\ Len(ModesAt(b)) \in Nat \ {0}
    BY <1>1, Lengths
<1>3. NextRun(run, b, m) \in Nat /\ NextBenchmark(b, m) \in Nat /\ NextMode(b, m) \in Nat
    OBVIOUS
<1>4. NextBenchmark(b, m) \in 0 .. Len(benchmarks) - 1
    BY <1>1, <1>2
<1>5. NextMode(b, m) \in 0 .. Len(ModesAt(NextBenchmark(b, m))) - 1
    <2>1. CASE Last(b, m)
        BY <2>1, <1>4, Lengths
    <2>2. CASE ~Last(b, m)
        BY <2>2, <1>1, <1>2
    <2> QED
        BY <2>1, <2>2
<1>6. ASSUME NEW s \in Slot
      PROVE  Rounds(NextRun(run, b, m), NextBenchmark(b, m), NextMode(b, m), s)
             = Rounds(run, b, m, s) + IF s = <<b, m>> THEN 1 ELSE 0
    <2>1. s = <<s[1], s[2]>>
        BY SlotIsPair
    <2>2. s[1] \in 0 .. Len(benchmarks) - 1 /\ s[2] \in 0 .. Len(ModesAt(s[1])) - 1
        BY <2>1, SlotPair
    <2>3. Len(ModesAt(s[1])) \in Nat
        BY <2>2, Lengths
    <2>4. s[1] \in Nat /\ s[2] \in Nat /\ s[2] < Len(ModesAt(s[1])) /\ s[1] < Len(benchmarks)
        BY <2>2, <2>3, <1>2
    <2>5. (s = <<b, m>>) <=> (s[1] = b /\ s[2] = m)
        BY <2>1
    <2>6. s[1] = b => s[2] < Len(ModesAt(b))
        BY <2>4
    <2>7. CASE ~Last(b, m)
        BY <2>7, <2>4, <2>5, <1>1, <1>2 DEF Rounds
    <2>8. CASE Last(b, m) /\ ~Wrap(b, m)
        BY <2>8, <2>4, <2>5, <2>6, <1>1, <1>2 DEF Rounds
    <2>9. CASE Wrap(b, m)
        BY <2>9, <2>4, <2>5, <2>6, <1>1, <1>2 DEF Rounds
    <2> QED
        BY <2>7, <2>8, <2>9
<1> QED
    BY <1>3, <1>4, <1>5, <1>6, SlotPair, Zenon

-----------------------------------------------------------------------------
\* The balance, as results are booked and the counters move.

\* Before the first run nothing is booked and nothing entered.
LEMMA FreshEven ==
    CountsSaved(FreshState) /\ EvenSaved(FreshState)
<1>1. <<0, 0>> \in Slot
    BY SlotPair, Lengths
<1>2. CountsSaved(FreshState)
    BY <1>1 DEF CountsSaved, Counts, FreshState
<1>3. ASSUME NEW s \in Slot
      PROVE  Rounds(0, 0, 0, s) = Len(FreshState.results[s]) + FreshState.dropped[s] + 0
    <2>1. s[1] \in Nat /\ s[2] \in Nat
        BY SlotIsPair, SlotPair, Lengths
    <2>2. Len(FreshState.results[s]) = 0 /\ FreshState.dropped[s] = 0
        BY DEF FreshState
    <2> QED
        BY <2>1, <2>2 DEF Rounds
<1> QED
    BY <1>2, <1>3 DEF EvenSaved, Even, FreshState

\* A result more for the one slot that lacks one balances it.
LEMMA EvenAfter ==
    ASSUME NEW res, NEW drop, NEW run, NEW b, NEW m, Counts(res, drop, run, b, m),
           NEW r \in Slot, Even(res, drop, run, b, m, {r}),
           NEW res2, NEW drop2,
           \A s \in Slot : Len(res2[s]) \in Nat /\ drop2[s] \in Nat,
           Len(res2[r]) + drop2[r] = Len(res[r]) + drop[r] + 1,
           \A s \in Slot \ {r} : Len(res2[s]) = Len(res[s]) /\ drop2[s] = drop[s]
    PROVE  Even(res2, drop2, run, b, m, {})
<1>1. ASSUME NEW s \in Slot, ~Verifies(s)
      PROVE  Rounds(run, b, m, s) = Len(res2[s]) + drop2[s] + 0
    <2>1. Rounds(run, b, m, s) = Len(res[s]) + drop[s] + IF s \in {r} THEN 1 ELSE 0
        BY <1>1 DEF Even
    <2>2. Len(res[s]) \in Nat /\ drop[s] \in Nat
        BY DEF Counts
    <2> QED
        BY <2>1, <2>2
<1> QED
    BY <1>1 DEF Even

\* A time booked for the slot that is waiting balances it.
LEMMA BookTime ==
    ASSUME NEW res, NEW drop, NEW run, NEW b, NEW m, Counts(res, drop, run, b, m),
           NEW r \in Slot, NEW t \in Times
    PROVE  /\ Counts([res EXCEPT ![r] = Append(@, t)], drop, run, b, m)
           /\ Even(res, drop, run, b, m, {r}) =>
                Even([res EXCEPT ![r] = Append(@, t)], drop, run, b, m, {})
<1> DEFINE res2 == [res EXCEPT ![r] = Append(@, t)]
<1>1. res2 \in [Slot -> Seq(Times)]
    BY DEF Counts
<1>2. res2[r] = Append(res[r], t) /\ \A s \in Slot \ {r} : res2[s] = res[s]
    BY DEF Counts
<1>3. Len(Append(res[r], t)) = Len(res[r]) + 1 /\ Len(res[r]) \in Nat /\ drop[r] \in Nat
    BY DEF Counts
<1>4. \A s \in Slot : Len(res2[s]) \in Nat /\ drop[s] \in Nat
    BY <1>1 DEF Counts
<1> HIDE DEF res2
<1>5. Len(res2[r]) + drop[r] = Len(res[r]) + drop[r] + 1
    BY <1>2, <1>3
<1>6. Even(res, drop, run, b, m, {r}) => Even(res2, drop, run, b, m, {})
    BY <1>2, <1>4, <1>5, EvenAfter
<1>7. Counts(res2, drop, run, b, m)
    BY <1>1 DEF Counts
<1> QED
    BY <1>6, <1>7 DEF res2

\* So does a failed run, which is dropped.
LEMMA BookError ==
    ASSUME NEW res, NEW drop, NEW run, NEW b, NEW m, Counts(res, drop, run, b, m),
           NEW r \in Slot
    PROVE  /\ Counts(res, [drop EXCEPT ![r] = @ + 1], run, b, m)
           /\ Even(res, drop, run, b, m, {r}) =>
                Even(res, [drop EXCEPT ![r] = @ + 1], run, b, m, {})
<1> DEFINE drop2 == [drop EXCEPT ![r] = @ + 1]
<1>1. drop2 \in [Slot -> Nat]
    BY DEF Counts
<1>2. drop2[r] = drop[r] + 1 /\ \A s \in Slot \ {r} : drop2[s] = drop[s]
    BY DEF Counts
<1>3. \A s \in Slot : Len(res[s]) \in Nat /\ drop2[s] \in Nat /\ drop[s] \in Nat
    BY <1>1 DEF Counts
<1> HIDE DEF drop2
<1>4. Len(res[r]) + drop2[r] = Len(res[r]) + drop[r] + 1
    BY <1>2, <1>3
<1>5. Even(res, drop, run, b, m, {r}) => Even(res, drop2, run, b, m, {})
    BY <1>2, <1>3, <1>4, EvenAfter
<1>6. Counts(res, drop2, run, b, m)
    BY <1>1 DEF Counts
<1> QED
    BY <1>5, <1>6 DEF drop2

\* A slot of a verifying mode is not timed.
LEMMA EvenVerifying ==
    ASSUME NEW res, NEW drop, NEW run, NEW b, NEW m, NEW r,
           Verifies(r), Even(res, drop, run, b, m, {r})
    PROVE  Even(res, drop, run, b, m, {})
    BY DEF Even

\* Moving the counters on leaves the slot they were at waiting.
LEMMA AdvanceEven ==
    ASSUME NEW res, NEW drop, NEW run, NEW b, NEW m, Counts(res, drop, run, b, m)
    PROVE  /\ Counts(res, drop, NextRun(run, b, m), NextBenchmark(b, m), NextMode(b, m))
           /\ Even(res, drop, run, b, m, {}) =>
                Even(res, drop, NextRun(run, b, m), NextBenchmark(b, m), NextMode(b, m), {<<b, m>>})
<1>1. run \in Nat /\ b \in Nat /\ m \in Nat /\ <<b, m>> \in Slot
    BY DEF Counts
<1>2. /\ NextRun(run, b, m) \in Nat /\ NextBenchmark(b, m) \in Nat /\ NextMode(b, m) \in Nat
      /\ <<NextBenchmark(b, m), NextMode(b, m)>> \in Slot
      /\ \A s \in Slot : Rounds(NextRun(run, b, m), NextBenchmark(b, m), NextMode(b, m), s)
                           = Rounds(run, b, m, s) + IF s = <<b, m>> THEN 1 ELSE 0
    BY ONLY <1>1, Advance, SMTT(30)
<1>3. ASSUME NEW s \in Slot
      PROVE  Len(res[s]) \in Nat /\ drop[s] \in Nat
    BY DEF Counts
<1>4. Even(res, drop, run, b, m, {}) =>
        Even(res, drop, NextRun(run, b, m), NextBenchmark(b, m), NextMode(b, m), {<<b, m>>})
    BY <1>2, <1>3 DEF Even
<1> QED
    BY <1>2, <1>4 DEF Counts

\* The values that stand for no page are not slots.
LEMMA NotSlots ==
    NoSlot \notin Slot /\ BlankPage \notin Slot /\ NoSlot # BlankPage
<1>1. \A s \in Slot : Len(s) = 2
    BY SlotIsPair
<1> QED
    BY <1>1 DEF NoSlot, BlankPage

-----------------------------------------------------------------------------
\* The steps of the harness.

\* The invariant holds at first.
LEMMA HInitInv ==
    HInit => HInv
<1> SUFFICES ASSUME HInit PROVE HInv
    OBVIOUS
<1>1. CountsNow /\ EvenNow
    BY FreshEven DEF HInit, CountsNow, EvenNow, CountsSaved, EvenSaved, FreshState, Waiting
<1>2. src \notin Slot
    BY NotSlots DEF HInit
<1> QED
    BY <1>1, <1>2, NotSlots, Zenon DEF HInit, HInv, HType

\* A balanced state stays so when it is restored.
LEMMA SetStateInv ==
    ASSUME NEW st, SetState(st), CountsSaved(st), awaiting' = FALSE
    PROVE  CountsNow' /\ (EvenSaved(st) => EvenNow')
    BY DEF SetState, CountsSaved, CountsNow, EvenSaved, EvenNow, Waiting

\* Each kind of step keeps the invariant: the load of the page,
LEMMA onloadInv ==
    HInv /\ onload => HInv'
<1> SUFFICES ASSUME HInv, onload PROVE HInv'
    OBVIOUS
<1> USE DEF HInv, HType
<1>1. awaiting' = FALSE /\ replay' = NoSlot /\ src' = NoSlot /\ alive' = FALSE /\ receiver' = NoSlot
    BY DEF onload, FreshPage
<1>2. harnessState' = harnessState /\ strayed' = strayed
      /\ timer' \in BOOLEAN /\ button' \in BOOLEAN /\ ~(timer' /\ button')
    BY Zenon DEF onload
<1>3. CountsNow' /\ (~strayed => EvenNow')
    <2>1. CASE harnessState # NoState
        BY <2>1, <1>1, SetStateInv, Zenon DEF onload
    <2>2. CASE harnessState = NoState
        BY <2>2, <1>1, SetStateInv, FreshEven, Zenon DEF onload
    <2> QED
        BY <2>1, <2>2
<1> QED
    BY <1>1, <1>2, <1>3, NotSlots, Zenon

\* What runBenchmark does, when no result is outstanding.
LEMMA RunBenchmarkStep ==
    ASSUME NEW res, runBenchmark(res),
           Counts(results', dropped', curRun, curBenchmark, curMode)
    PROVE  /\ CountsNow'
           /\ Even(results', dropped', curRun, curBenchmark, curMode, {}) => EvenNow'
           /\ awaiting' \in BOOLEAN
           /\ src' \in Slot \cup {BlankPage} /\ src' # NoSlot
           /\ src' \in Slot => awaiting' /\ receiver' = src'
           /\ awaiting' => receiver' \in Slot
           /\ receiver' \in Slot \/ receiver' = receiver
           /\ harnessState' \in {NoState, harnessState}
<1>1. CASE Stop(res)
    <2>1. /\ curRun' = curRun /\ curBenchmark' = curBenchmark /\ curMode' = curMode
          /\ awaiting' = FALSE /\ src' = BlankPage /\ harnessState' = NoState /\ receiver' = receiver
        BY <1>1 DEF Stop
    <2> QED
        BY <2>1, NotSlots, Zenon DEF CountsNow, EvenNow, Waiting
<1>2. CASE LoadNext(res)
    <2>1. <<curBenchmark, curMode>> \in Slot
        BY DEF Counts
    <2>2. /\ curRun' = NextRun(curRun, curBenchmark, curMode)
          /\ curBenchmark' = NextBenchmark(curBenchmark, curMode)
          /\ curMode' = NextMode(curBenchmark, curMode)
        BY <1>2 DEF LoadNext, NextRun, NextBenchmark, NextMode, Wrap, Last
    <2>3. /\ receiver' = <<curBenchmark, curMode>> /\ src' = <<curBenchmark, curMode>>
          /\ awaiting' = TRUE /\ harnessState' = harnessState
        BY <1>2 DEF LoadNext
    <2>4. CountsNow'
        BY <2>2, AdvanceEven, Zenon DEF CountsNow
    <2>5. Even(results', dropped', curRun, curBenchmark, curMode, {}) => EvenNow'
        BY <2>2, <2>3, AdvanceEven DEF EvenNow, Waiting
    <2> QED
        BY <2>1, <2>3, <2>4, <2>5, NotSlots
<1> QED
    BY <1>1, <1>2 DEF runBenchmark

\* the timer,
LEMMA TimerFiresInv ==
    HInv /\ TimerFires => HInv'
<1> SUFFICES ASSUME HInv, TimerFires PROVE HInv'
    OBVIOUS
<1> USE DEF HInv, HType
<1>1. /\ runBenchmark(results) /\ results' = results /\ dropped' = dropped
      /\ timer' = FALSE /\ button' = button /\ timer
      /\ replay' = replay /\ alive' = alive /\ strayed' = strayed
    BY DEF TimerFires
<1>2. ~awaiting /\ replay = NoSlot /\ src = NoSlot
    BY DEF TimerFires
<1>3. Counts(results', dropped', curRun, curBenchmark, curMode)
    BY <1>1 DEF CountsNow
<1>4. ~strayed => Even(results', dropped', curRun, curBenchmark, curMode, {})
    BY <1>1, <1>2 DEF EvenNow, Waiting
<1>5. /\ CountsNow'
      /\ ~strayed => EvenNow'
      /\ awaiting' \in BOOLEAN
      /\ src' \in Slot \cup {BlankPage} /\ src' # NoSlot
      /\ src' \in Slot => awaiting' /\ receiver' = src'
      /\ awaiting' => receiver' \in Slot
      /\ harnessState' \in {NoState, harnessState}
    BY <1>1, <1>3, <1>4, RunBenchmarkStep
<1> QED
    BY <1>1, <1>2, <1>5, NotSlots, Zenon

\* What the receiver books, before rerun.
LEMMA BookStep ==
    ASSUME HInv, NEW res, NEW goesOn, handleResult(res, goesOn),
           res.error \in BOOLEAN, ~res.error => res.time \in Times
    PROVE  /\ Counts(results', dropped', curRun, curBenchmark, curMode)
           /\ ~strayed /\ src = NoSlot => Even(results', dropped', curRun, curBenchmark, curMode, {})
<1> USE DEF HInv, HType
<1>1. receiver \in Slot /\ alive
    BY DEF handleResult
<1>2. Counts(results, dropped, curRun, curBenchmark, curMode)
    BY DEF CountsNow
<1>3. CASE Verifies(receiver)
    <2>1. results' = results /\ dropped' = dropped
        BY <1>3 DEF handleResult
    <2>2. ~strayed => Even(results, dropped, curRun, curBenchmark, curMode, {})
        BY <1>3, EvenVerifying DEF EvenNow, Waiting
    <2> QED
        BY <2>1, <2>2, <1>2
<1>4. CASE ~Verifies(receiver)
    <2>1. ~strayed /\ src = NoSlot => Even(results, dropped, curRun, curBenchmark, curMode, {receiver})
        BY <1>1, <1>4 DEF EvenNow, Waiting
    <2>2. CASE res.error
        <3>1. results' = results /\ dropped' = [dropped EXCEPT ![receiver] = @ + 1]
            BY <1>4, <2>2 DEF handleResult
        <3> QED
            BY <3>1, <2>1, <1>1, <1>2, BookError, Zenon
    <2>3. CASE ~res.error
        <3>1. results' = [results EXCEPT ![receiver] = Append(@, res.time)] /\ dropped' = dropped
            BY <1>4, <2>3 DEF handleResult
        <3> QED
            BY <3>1, <2>1, <2>3, <1>1, <1>2, BookTime, Zenon
    <2> QED
        BY <2>2, <2>3
<1> QED
    BY <1>3, <1>4

\* a result for the receiver,
LEMMA handleResultInv ==
    ASSUME HInv, NEW res, NEW goesOn \in BOOLEAN, handleResult(res, goesOn),
           res.error \in BOOLEAN, ~res.error => res.time \in Times,
           goesOn => Verifies(replay)
    PROVE  HInv'
<1>1. /\ Counts(results', dropped', curRun, curBenchmark, curMode)
      /\ ~strayed /\ src = NoSlot => Even(results', dropped', curRun, curBenchmark, curMode, {})
    BY BookStep
<1> USE DEF HInv, HType
<1>2. /\ rerun /\ alive' = goesOn /\ strayed' = (strayed \/ src # NoSlot)
      /\ timer' = timer /\ button' = button /\ replay' = replay /\ replay # NoSlot /\ alive
    BY DEF handleResult
<1>3. replay \in Slot /\ receiver \in Slot /\ ~timer /\ ~button
    BY <1>2
<1>4. ~strayed' => ~strayed /\ src = NoSlot /\ receiver = replay
    BY <1>2, Zenon
<1>5. CASE going' = TRUE /\ awaiting' = FALSE
             /\ UNCHANGED <<curRun, curBenchmark, curMode, src, receiver, report>> /\ harnessState' = State'
    <2>1. CountsNow' /\ (~strayed' => EvenNow')
        BY <1>1, <1>4, <1>5 DEF CountsNow, EvenNow, Waiting
    <2>2. /\ harnessState'.results = results' /\ harnessState'.dropped = dropped'
          /\ harnessState'.curRun = curRun /\ harnessState'.curBenchmark = curBenchmark
          /\ harnessState'.curMode = curMode
        BY <1>5 DEF State
    <2>3. CountsSaved(harnessState') /\ (~strayed' => EvenSaved(harnessState'))
        BY <2>2, <1>1, <1>4 DEF CountsSaved, EvenSaved
    <2>4. receiver' = receiver /\ src' = src
        BY <1>5
    <2>5. ~strayed' => (alive' => Verifies(replay'))
        BY <1>2
    <2>6. strayed' \in BOOLEAN /\ alive' \in BOOLEAN /\ awaiting' \in BOOLEAN
        BY <1>2, <1>5, Zenon
    <2> QED
        BY <2>1, <2>3, <2>4, <2>5, <2>6, <1>2, <1>3, <1>4, <1>5, NotSlots
<1>6. CASE runBenchmark(results')
    <2>1. /\ CountsNow'
          /\ ~strayed' => EvenNow'
          /\ awaiting' \in BOOLEAN
          /\ src' \in Slot \cup {BlankPage} /\ src' # NoSlot
          /\ src' \in Slot => awaiting' /\ receiver' = src'
          /\ receiver' \in Slot
          /\ harnessState' \in {NoState, harnessState}
        BY <1>1, <1>3, <1>4, <1>6, RunBenchmarkStep
    <2>2. strayed' \in BOOLEAN /\ alive' \in BOOLEAN
        BY <1>2
    <2> QED
        BY <2>1, <2>2, <1>2, <1>3, <1>4
<1> QED
    BY <1>2, <1>5, <1>6, Zenon DEF rerun

\* whatever the page in the frame reports,
LEMMA ReplayReportsInv ==
    HInv /\ ReplayReports => HInv'
<1> SUFFICES ASSUME HInv, ReplayReports PROVE HInv'
    OBVIOUS
<1>1. ASSUME NEW t \in Times, handleResult([error |-> FALSE, time |-> t], FALSE)
      PROVE  HInv'
    BY <1>1, handleResultInv, Zenon
<1>2. ASSUME NEW goesOn \in {FALSE, replay # NoSlot /\ Verifies(replay)},
             handleResult([error |-> TRUE], goesOn)
      PROVE  HInv'
    BY <1>2, handleResultInv, Zenon
<1> QED
    BY <1>1, <1>2, Zenon DEF ReplayReports

\* the load of the frame,
LEMMA LoadFrameInv ==
    HInv /\ LoadFrame => HInv'
<1> SUFFICES ASSUME HInv, LoadFrame PROVE HInv'
    OBVIOUS
<1> USE DEF HInv, HType
<1>1. /\ src # NoSlot /\ src' = NoSlot
      /\ replay' = IF src = BlankPage THEN NoSlot ELSE src
      /\ alive' = (src # BlankPage)
      /\ UNCHANGED <<harnessState, results, dropped, curRun, curBenchmark, curMode,
                     timer, button, receiver, awaiting, strayed>>
    BY DEF LoadFrame, counters
<1>2. CountsNow' = CountsNow /\ EvenNow' = EvenNow
    BY <1>1 DEF CountsNow, EvenNow, Waiting
<1> QED
    BY <1>1, <1>2, NotSlots

\* Steps that change neither the results nor where the frame is.
LEMMA UnchangedInv ==
    ASSUME HInv, alive' \in BOOLEAN, alive' => alive, timer' \in BOOLEAN, button' \in BOOLEAN,
           timer' \/ button' => timer \/ button, ~(timer' /\ button'),
           UNCHANGED <<harnessState, results, dropped, curRun, curBenchmark, curMode,
                       receiver, awaiting, src, replay, strayed>>
    PROVE  HInv'
<1>1. CountsNow' = CountsNow /\ EvenNow' = EvenNow
    BY DEF CountsNow, EvenNow, Waiting
<1> QED
    BY <1>1 DEF HInv, HType

\* the navigation away from the page.
LEMMA LeaveInv ==
    HInv /\ Leave => HInv'
<1> SUFFICES ASSUME HInv, Leave PROVE HInv'
    OBVIOUS
<1> USE DEF HInv, HType
<1>1. /\ awaiting' = FALSE /\ replay' = NoSlot /\ src' = NoSlot /\ alive' = FALSE
      /\ harnessState' = harnessState /\ strayed' = strayed
      /\ timer' = FALSE /\ button' = FALSE /\ SetState(FreshState)
    BY DEF Leave, FreshPage
<1>2. CountsNow' /\ EvenNow'
    BY <1>1, SetStateInv, FreshEven, Zenon
<1> QED
    BY <1>1, <1>2, NotSlots, Zenon

\* So every step does.
LEMMA HNextInv ==
    HInv /\ [HNext]_hvars => HInv'
<1> SUFFICES ASSUME HInv, [HNext]_hvars PROVE HInv'
    OBVIOUS
<1>1. CASE EnterHarness
    BY <1>1, onloadInv DEF EnterHarness
<1>2. CASE Refuse
    BY <1>2, UnchangedInv DEF Refuse, pageVars, counters, HInv, HType
<1>3. CASE ClickGo
    BY <1>3, UnchangedInv, Zenon DEF ClickGo, counters, HInv, HType
<1>4. CASE TimerFires
    BY <1>4, TimerFiresInv
<1>5. CASE LoadFrame
    BY <1>5, LoadFrameInv
<1>6. CASE ReplayReports
    BY <1>6, ReplayReportsInv
<1>7. CASE ReplayDies
    BY <1>7, UnchangedInv, Zenon DEF ReplayDies, counters, HInv, HType
<1>8. CASE Leave
    BY <1>8, LeaveInv
<1>9. CASE Return
    BY <1>9, onloadInv DEF Return
<1>10. CASE UserReload
    BY <1>10, onloadInv DEF UserReload
<1>11. CASE UNCHANGED hvars
    BY <1>11, UnchangedInv DEF hvars, counters, pageVars, HInv, HType
<1> QED
    BY <1>1, <1>2, <1>3, <1>4, <1>5, <1>6, <1>7, <1>8, <1>9, <1>10, <1>11 DEF HNext

\* HInv is an invariant of the harness.
THEOREM HarnessInvariant ==
    HSpec => []HInv
<1>1. HInit => HInv
    BY HInitInv
<1>2. HInv /\ [HNext]_hvars => HInv'
    BY HNextInv
<1> QED
    BY <1>1, <1>2, PTL DEF HSpec

\* The harness books every replay once, for all benchmarks, modes and bounds:
\* runBenchmark moves the counters before a replay starts, rerun saves them
\* with the results, and no order of reports, timers, page loads, reloads and
\* failing writes makes the two disagree.
THEOREM HarnessCountsOnce ==
    HSpec => []CountedOnce
<1>1. HInv => CountedOnce
    <2> SUFFICES ASSUME HInv, ~strayed, NEW s \in Slot, ~Verifies(s)
                 PROVE  /\ Entered(State, s) = Booked(State, s) + IF awaiting /\ receiver = s THEN 1 ELSE 0
                        /\ harnessState # NoState => Entered(harnessState, s) = Booked(harnessState, s)
        BY DEF CountedOnce
    <2> USE DEF HInv, HType
    <2>1. Rounds(curRun, curBenchmark, curMode, s)
          = Len(results[s]) + dropped[s] + IF s \in Waiting THEN 1 ELSE 0
        BY DEF EvenNow, Even
    <2>2. (s \in Waiting) <=> (awaiting /\ receiver = s)
        BY DEF Waiting
    <2>3. Entered(State, s) = Rounds(curRun, curBenchmark, curMode, s)
        BY DEF Entered, Rounds, State
    <2>4. Booked(State, s) = Len(results[s]) + dropped[s]
        BY DEF Booked, State
    <2>5. Entered(State, s) = Booked(State, s) + IF awaiting /\ receiver = s THEN 1 ELSE 0
        BY <2>1, <2>2, <2>3, <2>4
    <2>6. ASSUME harnessState # NoState
          PROVE  Entered(harnessState, s) = Booked(harnessState, s)
        <3>1. EvenSaved(harnessState) /\ CountsSaved(harnessState)
            BY <2>6
        <3> HIDE DEF HInv, HType
        <3>2. Rounds(harnessState.curRun, harnessState.curBenchmark, harnessState.curMode, s)
              = Len(harnessState.results[s]) + harnessState.dropped[s] + 0
            BY <3>1 DEF EvenSaved, Even
        <3>3. Len(harnessState.results[s]) \in Nat /\ harnessState.dropped[s] \in Nat
            BY <3>1 DEF CountsSaved, Counts
        <3>4. Entered(harnessState, s)
              = Rounds(harnessState.curRun, harnessState.curBenchmark, harnessState.curMode, s)
            BY DEF Entered, Rounds
        <3>5. Booked(harnessState, s) = Len(harnessState.results[s]) + harnessState.dropped[s]
            BY DEF Booked
        <3> QED
            BY ONLY <3>2, <3>3, <3>4, <3>5
    <2> QED
        BY <2>5, <2>6
<1> QED
    BY <1>1, HarnessInvariant, PTL
=============================================================================
