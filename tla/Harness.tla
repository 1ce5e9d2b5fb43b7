------------------------------- MODULE Harness ------------------------------
(***************************************************************************)
(* The browser harness of jsbench-2013.1: harness.js, run by harness.html, *)
(* loads one recorded page after the other into a frame, takes the time    *)
(* each replay reports, and between two replays writes what it knows to    *)
(* the session storage and goes round by reload.html, so that every        *)
(* replay starts in a page whose memory is gone.  What runs in the frame   *)
(* is any page that reports as the replay runner does; Replay.tla says     *)
(* how the runner comes to report.                                         *)
(*                                                                         *)
(* A slot is a benchmark and one of its modes, both counted from 0 as the  *)
(* code does.  A time is a natural number of milliseconds.                 *)
(***************************************************************************)
EXTENDS Naturals, Sequences

CONSTANTS
    benchmarks, \* the sequence of recordings
    modes,      \* the modes of some recordings, and of "*", as sequences
    Verifying,  \* the modes whose name has a v
    minRuns, keepRuns, maxRuns,
    Times,      \* the times a replay can take
    MaxReloads  \* bound on the reloads the user makes

getModes(bm) == IF bm \in DOMAIN modes THEN modes[bm] ELSE modes["*"]

ModesAt(b) == getModes(benchmarks[b + 1])

Slot == UNION {{b} \X (0 .. Len(ModesAt(b)) - 1) : b \in 0 .. Len(benchmarks) - 1}

Verifies(s) == ModesAt(s[1])[s[2] + 1] \in Verifying

ASSUME HarnessAssumption ==
    /\ benchmarks \in Seq(STRING) /\ benchmarks # <<>>
    /\ \A b \in 0 .. Len(benchmarks) - 1 : ModesAt(b) \in Seq(STRING) /\ ModesAt(b) # <<>>
    /\ minRuns \in Nat \ {0} /\ keepRuns \in Nat \ {0} /\ maxRuns \in Nat
    /\ Times \subseteq Nat
    /\ MaxReloads \in Nat

NoSlot == <<>>
BlankPage == <<"about:blank">>
NoState == <<>>
NoReport == <<>>

VARIABLES
    page,         \* the document of the window: "index", "refused", "harness" or "reload"
    going,        \* location.href has been set and the page not yet left
    storage,      \* "works", or "fails" once writes to it throw: there is none, or it is full
    harnessState, \* sessionStorage.JSBNG_harnessState
    results,      \* the times of every slot
    errors,       \* the slots results.errors has an entry for
    curRun, curBenchmark, curMode,
    dropped,      \* auxiliary: the reports of an error a slot has made
    button,       \* the go button is shown
    timer,        \* setTimeout(runBenchmark, 200) is due
    receiver,     \* the slot JSBNG_handleResult was made for
    awaiting,     \* auxiliary: it has not been called yet
    src,          \* the slot, or the blank page, the frame is about to load
    replay,       \* the slot whose page is in the frame
    alive,        \* that page may still report
    report,       \* what handleResults(true) printed
    reloads,      \* number of reloads by the user
    strayed       \* auxiliary: a page has reported to the receiver of another

counters == <<results, errors, curRun, curBenchmark, curMode, dropped>>
pageVars == <<button, timer, receiver, awaiting, src, replay, alive, report>>
hvars == <<page, going, storage, harnessState, counters, pageVars, reloads, strayed>>

State == [results |-> results, errors |-> errors, curRun |-> curRun,
          curBenchmark |-> curBenchmark, curMode |-> curMode, dropped |-> dropped]

FreshState == [results |-> [s \in Slot |-> <<>>], errors |-> {}, curRun |-> 0,
               curBenchmark |-> 0, curMode |-> 0, dropped |-> [s \in Slot |-> 0]]

SetState(st) ==
    /\ results' = st.results
    /\ errors' = st.errors
    /\ curRun' = st.curRun
    /\ curBenchmark' = st.curBenchmark
    /\ curMode' = st.curMode
    /\ dropped' = st.dropped

\* A page without a frame, a receiver or a report.
FreshPage ==
    /\ receiver' = NoSlot
    /\ awaiting' = FALSE
    /\ src' = NoSlot
    /\ replay' = NoSlot
    /\ alive' = FALSE
    /\ report' = NoReport

HInit ==
    /\ page = "index"
    /\ going = FALSE
    /\ storage \in {"works", "fails"}
    /\ harnessState = NoState
    /\ results = FreshState.results /\ errors = {}
    /\ curRun = 0 /\ curBenchmark = 0 /\ curMode = 0
    /\ dropped = FreshState.dropped
    /\ button = FALSE /\ timer = FALSE
    /\ receiver = NoSlot /\ awaiting = FALSE
    /\ src = NoSlot /\ replay = NoSlot /\ alive = FALSE
    /\ report = NoReport
    /\ reloads = 0
    /\ strayed = FALSE

\* Mutant: the mode is not restored.
onload_NoMode ==
    /\ page' = "harness"
    /\ going' = FALSE
    /\ FreshPage
    /\ IF harnessState # NoState
       THEN SetState([harnessState EXCEPT !.curMode = 0]) /\ timer' = TRUE /\ button' = FALSE
       ELSE SetState(FreshState) /\ timer' \in BOOLEAN /\ button' = ~timer'
    /\ UNCHANGED <<storage, harnessState, strayed>>

\* Mutant: a restored session is not started.
onload_NoTimer ==
    /\ page' = "harness"
    /\ going' = FALSE
    /\ FreshPage
    /\ IF harnessState # NoState
       THEN SetState(harnessState) /\ timer' = FALSE /\ button' = FALSE
       ELSE SetState(FreshState) /\ timer' \in BOOLEAN /\ button' = ~timer'
    /\ UNCHANGED <<storage, harnessState, strayed>>

\* The load of harness.html: a saved state is taken up at once, and without
\* one the harness waits for its button, or starts by itself on #run.
onload ==
    /\ page' = "harness"
    /\ going' = FALSE
    /\ FreshPage
    /\ IF harnessState # NoState
       THEN SetState(harnessState) /\ timer' = TRUE /\ button' = FALSE
       ELSE /\ SetState(FreshState)
            /\ timer' \in BOOLEAN
            /\ button' = ~timer'
    /\ UNCHANGED <<storage, harnessState, strayed>>

\* gob.onclick
ClickGo ==
    /\ page = "harness" /\ button
    /\ button' = FALSE
    /\ timer' = TRUE
    /\ UNCHANGED <<page, going, storage, harnessState, counters, receiver, awaiting,
                   src, replay, alive, report, reloads, strayed>>

\* The samples handleResults computes with: results[benchmark][mode].slice(-keepRuns).
Samples(res, s) ==
    SubSeq(res[s], IF Len(res[s]) > keepRuns THEN Len(res[s]) - keepRuns + 1 ELSE 1, Len(res[s]))

Constant(samples) == \A i, j \in DOMAIN samples : samples[i] = samples[j]

Measured(res) == {s \in Slot : Samples(res, s) # <<>>}

\* What totals.cim can be, the product over the slots of their confidence
\* intervals over that of their means: not a number when no slot has a
\* sample (a power of 1/0), when one has a single sample (a division by
\* n - 1) or the mean 0; zero when the samples of one are all the same; and
\* else below maxCIM or not.
Cim(res) ==
    LET nan == \/ Measured(res) = {}
               \/ \E s \in Measured(res) : Len(Samples(res, s)) = 1
               \/ \E s \in Measured(res) : \A i \in DOMAIN Samples(res, s) : Samples(res, s)[i] = 0
        zero == \E s \in Measured(res) : Constant(Samples(res, s))
    IN  IF nan THEN {"NaN"} ELSE IF zero THEN {"zero"} ELSE {"low", "high"}

\* The comparisons with maxCIM are false of what is not a number.
BelowMaxCIM(cim) == cim \in {"zero", "low"}
AtLeastMaxCIM(cim) == cim = "high"

handleResults(cim) == [cim |-> cim, warning |-> AtLeastMaxCIM(cim), runs |-> curRun]

\* The part of runBenchmark that ends the session.
Stop(res) ==
    /\ curRun >= minRuns
    /\ \E cim \in Cim(res) :
          /\ curRun >= maxRuns \/ BelowMaxCIM(cim)
          /\ report' = handleResults(cim)
    /\ src' = BlankPage
    /\ harnessState' = NoState
    /\ awaiting' = FALSE
    /\ UNCHANGED <<curRun, curBenchmark, curMode, receiver>>

\* Mutant: the receiver looks its slot up when the counters have moved on.
LoadNext_Late(res) ==
    LET last == curMode + 1 >= Len(ModesAt(curBenchmark))
        wrap == last /\ curBenchmark + 1 >= Len(benchmarks)
    IN  /\ curRun < minRuns
        /\ curMode' = IF last THEN 0 ELSE curMode + 1
        /\ curBenchmark' = IF wrap THEN 0 ELSE IF last THEN curBenchmark + 1 ELSE curBenchmark
        /\ curRun' = IF wrap THEN curRun + 1 ELSE curRun
        /\ receiver' = <<curBenchmark', curMode'>>
        /\ awaiting' = TRUE
        /\ src' = <<curBenchmark, curMode>>
        /\ UNCHANGED <<harnessState, report>>

\* The part that takes the next slot: the counters move on before it loads.
LoadNext(res) ==
    LET last == curMode + 1 >= Len(ModesAt(curBenchmark))
        wrap == last /\ curBenchmark + 1 >= Len(benchmarks)
    IN  /\ curRun < minRuns \/ (curRun < maxRuns /\ \E cim \in Cim(res) : ~BelowMaxCIM(cim))
        /\ curMode' = IF last THEN 0 ELSE curMode + 1
        /\ curBenchmark' = IF wrap THEN 0 ELSE IF last THEN curBenchmark + 1 ELSE curBenchmark
        /\ curRun' = IF wrap THEN curRun + 1 ELSE curRun
        /\ receiver' = <<curBenchmark, curMode>>
        /\ awaiting' = TRUE
        /\ src' = <<curBenchmark, curMode>>
        /\ UNCHANGED <<harnessState, report>>

runBenchmark(res) == Stop(res) \/ LoadNext(res)

\* The timer of onload or of the button fires.
TimerFires ==
    /\ page = "harness" /\ timer
    /\ timer' = FALSE
    /\ runBenchmark(results)
    /\ UNCHANGED <<page, going, storage, results, errors, dropped, button, replay, alive, reloads, strayed>>

\* The frame replaces the page of the last replay by that of the next.
LoadFrame ==
    /\ page = "harness" /\ src # NoSlot
    /\ src' = NoSlot
    /\ replay' = IF src = BlankPage THEN NoSlot ELSE src
    /\ alive' = (src # BlankPage)
    /\ UNCHANGED <<page, going, storage, harnessState, counters, button, timer, receiver,
                   awaiting, report, reloads, strayed>>

\* Mutant: the state is written as it was before the result came.
rerun_Stale ==
    \/ /\ storage = "works"
       /\ going' = TRUE
       /\ awaiting' = FALSE
       /\ harnessState' = State
       /\ UNCHANGED <<curRun, curBenchmark, curMode, src, receiver, report, storage>>
    \/ /\ storage' = "fails"
       /\ runBenchmark(results')
       /\ UNCHANGED going

\* rerun: save everything and leave for reload.html; where the storage is
\* missing or throws, go on in this page.
rerun ==
    \/ /\ storage = "works"
       /\ going' = TRUE
       /\ awaiting' = FALSE
       /\ UNCHANGED <<curRun, curBenchmark, curMode, src, receiver, report>>
       /\ harnessState' = State'
       /\ UNCHANGED storage
    \/ /\ storage' = "fails"
       /\ runBenchmark(results')
       /\ UNCHANGED going

\* JSBNG_handleResult, called by the page in the frame; goesOn says that the
\* page catches the error its runner throws after reporting one.
handleResult(res, goesOn) ==
    /\ page = "harness" /\ replay # NoSlot /\ alive
    /\ IF Verifies(receiver)
       THEN /\ errors' = IF res.error THEN errors \cup {receiver} ELSE errors
            /\ UNCHANGED <<results, dropped>>
       ELSE /\ results' = IF res.error THEN results
                          ELSE [results EXCEPT ![receiver] = Append(@, res.time)]
            /\ dropped' = IF res.error THEN [dropped EXCEPT ![receiver] = @ + 1] ELSE dropped
            /\ UNCHANGED errors
    /\ rerun
    /\ alive' = goesOn
    /\ strayed' = (strayed \/ src # NoSlot)
    /\ UNCHANGED <<page, button, timer, replay, reloads>>

\* The page in the frame ends without reporting: an exception nobody caught.
ReplayDies ==
    /\ page = "harness" /\ alive
    /\ alive' = FALSE
    /\ UNCHANGED <<page, going, storage, harnessState, counters, button, timer, receiver,
                   awaiting, src, replay, report, reloads, strayed>>

\* index.html has let the browser in, or the user has gone on regardless.
EnterHarness ==
    /\ page \in {"index", "refused"}
    /\ onload
    /\ UNCHANGED reloads

\* index.html turns the browser away.
Refuse ==
    /\ page = "index"
    /\ page' = "refused"
    /\ UNCHANGED <<going, storage, harnessState, counters, pageVars, reloads, strayed>>

\* The browser leaves the page for reload.html ...
Leave ==
    /\ page = "harness" /\ going
    /\ page' = "reload"
    /\ going' = FALSE
    /\ SetState(FreshState)
    /\ FreshPage
    /\ button' = FALSE /\ timer' = FALSE
    /\ UNCHANGED <<storage, harnessState, reloads, strayed>>

\* ... which sends it straight back.
Return ==
    /\ page = "reload"
    /\ onload
    /\ UNCHANGED reloads

\* The user reloads harness.html, at any time.
UserReload ==
    /\ page = "harness" /\ reloads < MaxReloads
    /\ reloads' = reloads + 1
    /\ onload

\* The reports a replay makes: one time at its end, or an error, which only
\* the page of a verifying mode can survive.
ReplayReports ==
    \/ \E t \in Times : handleResult([error |-> FALSE, time |-> t], FALSE)
    \/ \E goesOn \in {FALSE, replay # NoSlot /\ Verifies(replay)} :
          handleResult([error |-> TRUE], goesOn)

HNext ==
    \/ EnterHarness \/ Refuse \/ ClickGo \/ TimerFires \/ LoadFrame
    \/ ReplayReports \/ ReplayDies
    \/ Leave \/ Return \/ UserReload

HSpec == HInit /\ [][HNext]_hvars

-----------------------------------------------------------------------------
\* The rounds of slot s that the counters of st have entered.
Entered(st, s) ==
    st.curRun + IF \/ s[1] < st.curBenchmark
                   \/ s[1] = st.curBenchmark /\ s[2] < st.curMode THEN 1 ELSE 0

Booked(st, s) == Len(st.results[s]) + st.dropped[s]

\* However often the page is left, reloaded or run on without storage, every
\* slot that is timed has one result, a time or an error, for each round the
\* counters have entered: none is lost and none counted twice, neither in
\* the page's memory, where the replay in the frame is still to report, nor
\* in the state saved for the next page.  (strayed: see ResultsBelong.)
CountedOnce ==
    ~strayed => \A s \in Slot : ~Verifies(s) =>
        /\ Entered(State, s) = Booked(State, s) + IF awaiting /\ receiver = s THEN 1 ELSE 0
        /\ harnessState # NoState => Entered(harnessState, s) = Booked(harnessState, s)
=============================================================================
