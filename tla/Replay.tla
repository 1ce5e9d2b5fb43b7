-------------------------------- MODULE Replay ------------------------------
(***************************************************************************)
(* The replay runner at the head of every recorded page (the same in all   *)
(* of them, read here in twitter/firefox/urem.js), in the frame of the     *)
(* harness.  A recording is data: for each recorded function the values    *)
(* its calls returned, and the script of what the page did.  Values and    *)
(* handlers are named by the numbers the recorder gave them.  The script   *)
(* runs to its end in one task of the browser, so that nothing else of the *)
(* browser happens between two of its steps.                               *)
(***************************************************************************)
EXTENDS Harness, StableSort

CONSTANTS
    script,   \* the script of each recording
    returns,  \* the values the recorded functions of each recording return
    weight,   \* what the comparator of a page's sort looks at
    Getters   \* recordings that define getters

\* What the code run by a script does, one step at a time.
CallStep(f) == [op |-> "call", f |-> f]
RegisterStep(list, keys, boolean) == [op |-> "register", list |-> list, keys |-> keys, boolean |-> boolean]
EventStep(list, i) == [op |-> "event", list |-> list, i |-> i]
ModernStep == [op |-> "modern"]
\* A check, and how many steps a failure skips in the page's code, which
\* catches everything there, or 0 when it is not in a try block.
CheckStep(kind, rec, try) == [op |-> "check", kind |-> kind, rec |-> rec, try |-> try]

\* The recording twitter/firefox: four scripts of the page, a mouse event and
\* a timeout, with the calls they make of setTimeout (16), getAttribute
\* (388), addEventListener (389), createElement (390), setAttribute (392) and
\* getElementsByTagName (393).
twitter_firefox ==
    [script |-> <<CallStep(388),
                  RegisterStep("s_1", {820}, FALSE), RegisterStep("s_4", {821}, FALSE), CallStep(16),
                  CallStep(389), CallStep(389),
                  CallStep(390), CallStep(392), CallStep(393), CallStep(393), CallStep(390), CallStep(390),
                  EventStep("s_1", 0), CallStep(388),
                  EventStep("s_4", 0)>>,
     returns |-> [f \in {16, 388, 389, 390, 392, 393} |->
                    CASE f = 16 -> <<825>> [] f = 388 -> <<818, 870>> [] f = 389 -> <<830, 832>>
                      [] f = 390 -> <<839, 856, 860>> [] f = 392 -> <<842>> [] f = 393 -> <<847, 850>>]]

VARIABLES
    engine, \* "good", "nogetters" when it cannot define a getter, or "throws"
            \* when code of some pages throws in it
    runner  \* the state of the page in the frame

NoRunner == [phase |-> "none"]

\* Only the build of a page for a verifying mode has checks in it.
Scripts == [s \in Slot |->
    SelectSeq(script[benchmarks[s[1] + 1]], LAMBDA st : st.op = "check" => Verifies(s))]

Script(s) == Scripts[s]

Returns(s) == returns[benchmarks[s[1] + 1]]

\* A page before its script element has run.
NewRunner(s) ==
    [phase |-> "build", pc |-> 1, inst |-> [f \in DOMAIN Returns(s) |-> 0],
     lists |-> [l \in {st.list : st \in {x \in Range(Script(s)) : x.op \in {"register", "event"}}} |-> <<>>],
     trace |-> <<>>, failed |-> FALSE]

\* The engine gives the keys of an object in some order, and forInKeys sorts them.
Orders(keys) == SetToSeqs(keys)

\* Mutant: the keys are taken as the engine gives them.
forInKeys_Unsorted(order) == order

forInKeys(order) == stable(order, byString)

\* The comparators of page code: three-way, or as stable.js allows, a > b.
ThreeWay == [a, b \in DOMAIN weight |-> weight[a] - weight[b]]
Greater == [a, b \in DOMAIN weight |-> IF weight[a] > weight[b] THEN 1 ELSE 0]

arrsort(arr, boolean) == stable(arr, IF boolean THEN Greater ELSE ThreeWay)

\* verify(rep, rec): the types of the values that are not plain ones are
\* told by their first component.
IsNaN(v) == v = <<"NaN">>
TypeOf(v) == IF IsNaN(v) THEN "number" ELSE v[1]
verify(rep, rec) ==
    \/ rep = rec
    \/ rep[1] = "function" /\ rec[1] = "function"
    \/ rec[1] = "object" /\ rec[2] = TypeOf(rep)

\* The values a replayed expression can have in an engine.
Replayed(rec) == {rec, <<"NaN">>, <<"function", 0>>, <<"number", 1>>}

\* verifySet, which skips properties named on..., verifyCall and verifyPath.
Verified(step, rep) ==
    CASE step.kind = "seton" -> TRUE
      [] step.kind \in {"set", "call"} -> verify(rep, step.rec)
      [] step.kind = "path" -> rep = step.rec

Step == Script(replay)[runner.pc]

AtStep(op) ==
    /\ runner.phase = "run"
    /\ runner.pc <= Len(Script(replay))
    /\ Step.op = op

Goes(r) == runner' = [r EXCEPT !.pc = @ + 1]

\* The page's script element: the recorded objects are built, and the
\* runner queued.  On an engine without getters the first one fails.
BuildPage ==
    /\ runner.phase = "build"
    /\ benchmarks[replay[1] + 1] \in Getters => engine # "nogetters"
    /\ runner' = [runner EXCEPT !.phase = "queued"]
    /\ UNCHANGED <<hvars, engine>>

\* Mutant: the script goes on without the getter.
BuildFails_GoesOn ==
    /\ runner.phase = "build"
    /\ benchmarks[replay[1] + 1] \in Getters /\ engine = "nogetters"
    /\ handleResult([error |-> TRUE], TRUE)
    /\ runner' = [runner EXCEPT !.phase = "queued"]
    /\ UNCHANGED engine

BuildFails ==
    /\ runner.phase = "build"
    /\ benchmarks[replay[1] + 1] \in Getters /\ engine = "nogetters"
    /\ handleResult([error |-> TRUE], FALSE)
    /\ runner' = [runner EXCEPT !.phase = "over"]
    /\ UNCHANGED engine

\* onload of the runner: enter the script once, which jr(false) leaves at
\* once, read the clock and start it.
RunnerOnload ==
    /\ runner.phase = "queued"
    /\ runner' = [runner EXCEPT !.phase = "run"]
    /\ UNCHANGED <<hvars, engine>>

\* A recorded function returns the next value of its tape.
Call ==
    /\ AtStep("call")
    /\ LET f == Step.f
           n == runner.inst[f] + 1
           value == IF n <= Len(Returns(replay)[f]) THEN Returns(replay)[f][n] ELSE 0
       IN  Goes([runner EXCEPT !.inst[f] = n, !.trace = Append(@, value)])
    /\ UNCHANGED <<hvars, engine>>

\* Code that walks an object, sorts what it found and pushes a handler for
\* each on a list of JSBNG_Replay: the orders it may push them in.
Pushes ==
    [st \in {x \in UNION {Range(Script(s)) : s \in Slot} : x.op = "register"} |->
        {arrsort(forInKeys(order), st.boolean) : order \in Orders(st.keys)}]

Register ==
    /\ AtStep("register")
    /\ \E handlers \in Pushes[Step] : Goes([runner EXCEPT !.lists[Step.list] = @ \o handlers])
    /\ UNCHANGED <<hvars, engine>>

\* The script calls a recorded handler; one that nobody registered throws, below.
Event ==
    /\ AtStep("event")
    /\ Step.i < Len(runner.lists[Step.list])
    /\ Goes([runner EXCEPT !.trace = Append(@, runner.lists[Step.list][Step.i + 1])])
    /\ UNCHANGED <<hvars, engine>>

\* Code every engine index.html lets in can run.
Modern ==
    /\ AtStep("modern")
    /\ engine # "throws"
    /\ Goes(runner)
    /\ UNCHANGED <<hvars, engine>>

\* An exception nobody catches ends the script, and no one is told.
Throws ==
    /\ \/ AtStep("event") /\ Step.i >= Len(runner.lists[Step.list])
       \/ AtStep("modern") /\ engine = "throws"
    /\ ReplayDies
    /\ runner' = [runner EXCEPT !.phase = "over"]
    /\ UNCHANGED engine

CheckPasses ==
    /\ AtStep("check")
    /\ \E rep \in Replayed(Step.rec) : Verified(Step, rep)
    /\ Goes(runner)
    /\ UNCHANGED <<hvars, engine>>

\* verificationError: report, then throw, which the page's code may catch.
CheckFails ==
    /\ AtStep("check")
    /\ \E rep \in Replayed(Step.rec) : ~Verified(Step, rep)
    /\ handleResult([error |-> TRUE], Step.try > 0)
    /\ IF Step.try > 0
       THEN Goes([runner EXCEPT !.failed = TRUE, !.pc = @ + Step.try])
       ELSE runner' = [runner EXCEPT !.phase = "over", !.failed = TRUE]
    /\ UNCHANGED engine

\* cb, the last thing a script does.
Callback ==
    /\ runner.phase = "run"
    /\ runner.pc > Len(Script(replay))
    /\ \E t \in Times : handleResult([error |-> FALSE, time |-> t], FALSE)
    /\ runner' = [runner EXCEPT !.phase = "over"]
    /\ UNCHANGED engine

ReplayNext ==
    \/ BuildPage \/ BuildFails \/ RunnerOnload
    \/ Call \/ Register \/ Event \/ Modern \/ Throws \/ CheckPasses \/ CheckFails
    \/ Callback

\* No other task of the browser runs while a script does.
Idle == runner.phase # "run"

\* The tasks the browser runs for the harness page, and what they make of
\* the frame.
BrowserTask ==
    /\ Idle
    /\ \/ TimerFires /\ UNCHANGED runner
       \/ LoadFrame /\ runner' = IF src = BlankPage THEN NoRunner ELSE NewRunner(src)
       \/ (Leave \/ Return) /\ runner' = NoRunner
    /\ UNCHANGED engine

\* What the user does.
UserTask ==
    /\ Idle
    /\ \/ ClickGo /\ UNCHANGED runner
       \/ UserReload /\ runner' = NoRunner
    /\ UNCHANGED engine
=============================================================================
