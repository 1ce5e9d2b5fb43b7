----------------------------- MODULE EpochClock -----------------------------
(***************************************************************************)
(* What silo/ticker.h promises its clients: a clock whose tick is declared *)
(* done only when no guard of that tick is open, and whose value a core    *)
(* never sees go back.  Ticker implements it; the logger is built on it.   *)
(***************************************************************************)
EXTENDS Integers

CONSTANTS
    NMAXCORES,   \* ticks_.size()
    MaxTick      \* bound on the clock

Cores == 0 .. NMAXCORES - 1
NoGuard == 0

VARIABLES
    tick,    \* global_current_tick()
    done,    \* global_last_tick_inclusive()
    guard,   \* tick of the guard open on each core, or NoGuard
    seen,    \* newest tick a load on that core is bound to return
    held     \* cores whose lock_for() spinlock the persister holds

clockvars == <<tick, done, guard, seen, held>>

ClockInit ==
    /\ tick = 1 /\ done = 0
    /\ guard = [c \in Cores |-> NoGuard]
    /\ seen = [c \in Cores |-> 1]
    /\ held = {}

\* The values an acquire load of the clock may return to core c.
Visible(c) == seen[c] .. tick

Advance ==
    /\ done = tick - 1 /\ tick < MaxTick
    /\ tick' = tick + 1
    /\ UNCHANGED <<done, guard, seen, held>>

Complete ==
    /\ done = tick - 2
    /\ \A c \in Cores : guard[c] \in {NoGuard, tick}
    /\ done' = tick - 1
    /\ UNCHANGED <<tick, guard, seen, held>>

Enter(c) ==
    /\ guard[c] = NoGuard /\ c \notin held
    /\ \E t \in Visible(c) :
         /\ t > done
         /\ guard' = [guard EXCEPT ![c] = t]
         /\ seen' = [seen EXCEPT ![c] = t]
    /\ UNCHANGED <<tick, done, held>>

Exit(c) ==
    /\ guard[c] # NoGuard
    /\ guard' = [guard EXCEPT ![c] = NoGuard]
    /\ UNCHANGED <<tick, done, seen, held>>

\* The core loads the clock, or synchronises with a thread that has.
Learn(c) ==
    /\ \E t \in Visible(c) : seen' = [seen EXCEPT ![c] = t]
    /\ UNCHANGED <<tick, done, guard, held>>

Borrow(c) ==
    /\ guard[c] = NoGuard /\ c \notin held
    /\ held' = held \cup {c}
    /\ UNCHANGED <<tick, done, guard, seen>>

\* Unlocking hands the core what the persister knew of the clock.
Return(c, known) ==
    /\ c \in held
    /\ held' = held \ {c}
    /\ seen' = [seen EXCEPT ![c] = IF known > @ THEN known ELSE @]
    /\ UNCHANGED <<tick, done, guard>>

ClockNext ==
    \/ Advance \/ Complete
    \/ \E c \in Cores :
         \/ Enter(c) \/ Exit(c) \/ Learn(c) \/ Borrow(c)
         \/ \E known \in 0 .. tick : Return(c, known)

ClockSpec == ClockInit /\ [][ClockNext]_clockvars

=============================================================================
