------------------------------- MODULE JsBench ------------------------------
(***************************************************************************)
(* A whole session of jsbench-2013.1 in a browser: index.html checks the   *)
(* browser, harness.html loads the recorded pages in its frame round after *)
(* round, going by reload.html between two of them, and their runner       *)
(* replays them and reports to the harness.                                *)
(***************************************************************************)
EXTENDS Replay, BrowserCheck, FiniteSets

CONSTANT Browsers \* the browsers that may open index.html

VARIABLE browser \* the browser, until index.html has looked at it

NoBrowser == <<>>

vars == <<hvars, engine, runner, browser>>

\* Version a is older than version b: the numbers, with zeros after the
\* last, compared from the left.
Older(a, b) ==
    \E i \in 1 .. Len(a) + Len(b) :
        /\ Component(a, i) < Component(b, i)
        /\ \A j \in 1 .. i - 1 : Component(a, j) = Component(b, j)

\* The browser is an engine too old to be supported.
Unsupported(b) ==
    IF b.chrome # NoVersion THEN Older(b.chrome, browserMin["v8"])
    ELSE \E e \in b.engines : Older(b.version, browserMin[e])

\* The engine of a supported browser can run every recording.
JsInit ==
    /\ HInit
    /\ browser \in Browsers
    /\ engine \in IF Unsupported(browser) THEN {"good", "nogetters", "throws"} ELSE {"good"}
    /\ runner = NoRunner

\* window.onload of browsercheck.js; from its message the user may go on.
CheckBrowser ==
    /\ page = "index"
    /\ IF badBrowser(browser) THEN Refuse ELSE EnterHarness
    /\ browser' = NoBrowser
    /\ UNCHANGED <<engine, runner>>

GoOnAnyway ==
    /\ page = "refused"
    /\ EnterHarness
    /\ UNCHANGED <<engine, runner, browser>>

JsNext ==
    \/ CheckBrowser \/ GoOnAnyway
    \/ BrowserTask /\ UNCHANGED browser
    \/ UserTask /\ UNCHANGED browser
    \/ ReplayNext /\ UNCHANGED browser

\* The browser runs its tasks: it checks, fires timers, loads frames, runs
\* scripts and leaves a page it was told to leave.  Users need not do
\* anything.
JsFairness ==
    /\ WF_vars(CheckBrowser)
    /\ WF_vars(BrowserTask /\ UNCHANGED browser)
    /\ WF_vars(ReplayNext /\ UNCHANGED browser)

JsSpec == JsInit /\ [][JsNext]_vars /\ JsFairness

-----------------------------------------------------------------------------
\* What the session is about.

\* A time is booked under the slot whose replay measured it.  The exception
\* is a page of a verifying mode that catches the error its runner throws
\* after reporting it and goes on, when there is no session storage: by then
\* JSBNG_handleResult is the receiver of the next slot.
ResultsBelong ==
    [][page = "harness" /\ page' = "harness" /\ reloads' = reloads =>
          \A s \in Slot : results'[s] # results[s] => s = replay \/ strayed']_vars

\* A slot whose replay in a verifying mode went wrong is among the errors by
\* the time the harness goes on to another replay.
FailuresKept ==
    runner.phase # "none" /\ runner.failed /\ ~strayed =>
        /\ replay \in errors
        /\ going /\ harnessState # NoState => replay \in harnessState.errors

\* What the replay of slot s meets, if it meets what was recorded: the
\* values of the tapes in their order, and the handlers in the order in
\* which sorted keys with a stable sort by weight register them.
Handlers(st) ==
    LET arr == SetToSortSeq(st.keys, <)
    IN  CHOOSE out \in SetToSeqs(st.keys) : IsStableSortOf(out, arr, ThreeWay)

Recorded == [s \in Slot |->
    LET sc == Script(s)
        Nth(i) == Cardinality({j \in 1 .. i : sc[j].op = "call" /\ sc[j].f = sc[i].f})
        Registered(i) == FlattenSeq([j \in 1 .. i |->
            IF sc[j].op = "register" /\ sc[j].list = sc[i].list THEN Handlers(sc[j]) ELSE <<>>])
    IN  FlattenSeq([i \in DOMAIN sc |->
            CASE sc[i].op = "call" -> <<Returns(s)[sc[i].f][Nth(i)]>>
              [] sc[i].op = "event" -> <<Registered(i)[sc[i].i + 1]>>
              [] OTHER -> <<>>])]

\* Whatever order the engine walks objects in and whatever comparator the
\* page sorts with, a replay no check has failed in gets the recorded values
\* and calls the recorded handlers.
AsRecorded ==
    runner.phase \in {"run", "over"} /\ ~runner.failed =>
        IsPrefix(runner.trace, Recorded[replay])

\* In an engine that can run the recordings, as those of the supported
\* browsers can, every session ends with a report, at the go button or with
\* the refusal of the browser: no timer, result or page is lost on the way.
Finishes ==
    engine = "good" => <>[](report # NoReport \/ button \/ page = "refused")

\* The harness implements the harness that knows nothing of the runner.
HarnessSpec == HSpec
=============================================================================
