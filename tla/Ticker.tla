------------------------------- MODULE Ticker -------------------------------
(***************************************************************************)
(* silo/ticker.h: the epoch clock.  A daemon bumps current_tick_, visits   *)
(* every core's tickinfo under that core's spinlock, and then publishes    *)
(* last_tick_inclusive_.  A worker opens a (re-entrant) guard by taking    *)
(* its own core's spinlock, which pins its core to one tick until the      *)
(* outermost guard closes.  The log persister borrows the same spinlock.   *)
(*                                                                         *)
(* global_current_tick() is an acquire load: it may return any value       *)
(* written since the one the thread must already see.  seen[c] is that     *)
(* floor, ti_view[c] the floor handed over through core c's spinlock.      *)
(***************************************************************************)
EXTENDS Integers

CONSTANTS
    NMAXCORES,        \* ticks_.size()
    MaxTick,          \* bound on current_tick_
    MaxDepth,         \* bound on guard nesting
    VolatileRelease   \* does the volatile store in spinlock::unlock release?

ASSUME TickerAssumption ==
    /\ NMAXCORES \in Nat \ {0}
    /\ MaxTick \in Nat /\ MaxDepth \in Nat \ {0}
    /\ VolatileRelease \in BOOLEAN

Cores == 0 .. NMAXCORES - 1
NoCore == -1

VARIABLES
    current_tick_,          \* which tick are we currently on
    last_tick_inclusive_,   \* every thread has completed these ticks
    ti_lock,                \* tickinfo::lock_, by holder
    ti_view,                \* the current_tick_ its last unlock released
    ti_tick,                \* tickinfo::current_tick_
    ti_depth,               \* tickinfo::depth_
    gpc, gtick,             \* each worker's place in guard, and guard::tick_
    seen,                   \* newest current_tick_ each worker must see
    tpc, ti_i,              \* tickerloop: place and loop index
    pcore                   \* core whose lock the persister holds

tickvars == <<current_tick_, last_tick_inclusive_, tpc, ti_i>>
corevars == <<ti_lock, ti_view, ti_tick, ti_depth, gpc, gtick, seen>>
tvars == <<tickvars, corevars, pcore>>

TypeOK ==
    /\ current_tick_ \in Nat \ {0} /\ last_tick_inclusive_ \in Nat
    /\ ti_lock \in [Cores -> {"free", "core", "ticker", "persister"}]
    /\ ti_view \in [Cores -> Nat] /\ ti_tick \in [Cores -> Nat]
    /\ ti_depth \in [Cores -> Nat]
    /\ gpc \in [Cores -> {"out", "lock", "load", "store", "in", "unlock"}]
    /\ gtick \in [Cores -> Nat] /\ seen \in [Cores -> Nat]
    /\ tpc \in {"sleep", "scan", "lock", "store", "unlock"}
    /\ ti_i \in 0 .. NMAXCORES
    /\ pcore \in Cores \cup {NoCore}

TickerInit ==
    /\ current_tick_ = 1 /\ last_tick_inclusive_ = 0
    /\ ti_lock = [c \in Cores |-> "free"]
    /\ ti_view = [c \in Cores |-> 1]
    /\ ti_tick = [c \in Cores |-> 1]
    /\ ti_depth = [c \in Cores |-> 0]
    /\ gpc = [c \in Cores |-> "out"]
    /\ gtick = [c \in Cores |-> 0]
    /\ seen = [c \in Cores |-> 1]
    /\ tpc = "sleep" /\ ti_i = 0
    /\ pcore = NoCore

(***************************************************************************)
(* spinlock: test-and-set, and a plain volatile store to release.          *)
(***************************************************************************)
lock(c, who) == ti_lock[c] = "free" /\ ti_lock' = [ti_lock EXCEPT ![c] = who]

\* Mutant: the store that frees the lock publishes nothing.
unlock_NoRelease(c, known) ==
    /\ ti_lock' = [ti_lock EXCEPT ![c] = "free"]
    /\ UNCHANGED ti_view

unlock(c, known) ==
    /\ ti_lock' = [ti_lock EXCEPT ![c] = "free"]
    /\ ti_view' = [ti_view EXCEPT ![c] =
                     IF VolatileRelease /\ known > @ THEN known ELSE @]

(***************************************************************************)
(* Readers of the clock.                                                   *)
(***************************************************************************)
global_current_tick(c) == seen[c] .. current_tick_

global_last_tick_exclusive == last_tick_inclusive_ + 1

compute_global_last_tick_exclusive ==
    CHOOSE e \in {ti_tick[c] : c \in Cores} : \A c \in Cores : e <= ti_tick[c]

(***************************************************************************)
(* guard::guard and guard::~guard.                                         *)
(***************************************************************************)
GuardBump(c) ==
    /\ gpc[c] = "out"
    /\ ti_depth' = [ti_depth EXCEPT ![c] = @ + 1]
    /\ gpc' = [gpc EXCEPT ![c] = "lock"]
    /\ UNCHANGED <<tickvars, ti_lock, ti_view, ti_tick, gtick, seen, pcore>>

GuardLock(c) ==
    /\ gpc[c] = "lock" /\ lock(c, "core")
    /\ seen' = [seen EXCEPT ![c] = IF ti_view[c] > @ THEN ti_view[c] ELSE @]
    /\ gpc' = [gpc EXCEPT ![c] = "load"]
    /\ UNCHANGED <<tickvars, ti_view, ti_tick, ti_depth, gtick, pcore>>

GuardLoad(c) ==
    /\ gpc[c] = "load"
    /\ \E t \in global_current_tick(c) :
         /\ gtick' = [gtick EXCEPT ![c] = t]
         /\ seen' = [seen EXCEPT ![c] = t]
    /\ gpc' = [gpc EXCEPT ![c] = "store"]
    /\ UNCHANGED <<tickvars, ti_lock, ti_view, ti_tick, ti_depth, pcore>>

GuardStore(c) ==
    /\ gpc[c] = "store"
    /\ ti_tick' = [ti_tick EXCEPT ![c] = gtick[c]]
    /\ gpc' = [gpc EXCEPT ![c] = "in"]
    /\ UNCHANGED <<tickvars, ti_lock, ti_view, ti_depth, gtick, seen, pcore>>

GuardNest(c) ==
    /\ gpc[c] = "in" /\ ti_depth[c] < MaxDepth
    /\ ti_depth' = [ti_depth EXCEPT ![c] = @ + 1]
    /\ gtick' = [gtick EXCEPT ![c] = ti_tick[c]]
    /\ UNCHANGED <<tickvars, ti_lock, ti_view, ti_tick, gpc, seen, pcore>>

GuardExit(c) ==
    /\ gpc[c] = "in"
    /\ ti_depth' = [ti_depth EXCEPT ![c] = @ - 1]
    /\ gpc' = [gpc EXCEPT ![c] = IF ti_depth[c] = 1 THEN "unlock" ELSE @]
    /\ UNCHANGED <<tickvars, ti_lock, ti_view, ti_tick, gtick, seen, pcore>>

GuardUnlock(c) ==
    /\ gpc[c] = "unlock" /\ unlock(c, seen[c])
    /\ gpc' = [gpc EXCEPT ![c] = "out"]
    /\ UNCHANGED <<tickvars, ti_tick, ti_depth, gtick, seen, pcore>>

(***************************************************************************)
(* tickerloop, one pass: bump, visit cores 0 .. NMAXCORES - 1, publish.    *)
(***************************************************************************)
TickBump ==
    /\ tpc = "sleep" /\ current_tick_ < MaxTick
    /\ current_tick_' = current_tick_ + 1
    /\ tpc' = "scan" /\ ti_i' = 0
    /\ UNCHANGED <<last_tick_inclusive_, corevars, pcore>>

\* Mutant: skips a core whose lock is taken instead of waiting for it.
TickScan_SkipBusy ==
    /\ tpc = "scan" /\ ti_i < NMAXCORES
    /\ IF ti_tick[ti_i] = current_tick_ \/ ti_lock[ti_i] # "free"
         THEN ti_i' = ti_i + 1 /\ UNCHANGED tpc
         ELSE tpc' = "lock" /\ UNCHANGED ti_i
    /\ UNCHANGED <<current_tick_, last_tick_inclusive_, corevars, pcore>>

TickScan ==
    /\ tpc = "scan" /\ ti_i < NMAXCORES
    /\ IF ti_tick[ti_i] = current_tick_
         THEN ti_i' = ti_i + 1 /\ UNCHANGED tpc
         ELSE tpc' = "lock" /\ UNCHANGED ti_i
    /\ UNCHANGED <<current_tick_, last_tick_inclusive_, corevars, pcore>>

TickLock ==
    /\ tpc = "lock" /\ lock(ti_i, "ticker")
    /\ tpc' = "store"
    /\ UNCHANGED <<current_tick_, last_tick_inclusive_, ti_i, ti_view, ti_tick,
                   ti_depth, gpc, gtick, seen, pcore>>

TickStore ==
    /\ tpc = "store"
    /\ ti_tick' = [ti_tick EXCEPT ![ti_i] = current_tick_]
    /\ tpc' = "unlock"
    /\ UNCHANGED <<current_tick_, last_tick_inclusive_, ti_i, ti_lock, ti_view,
                   ti_depth, gpc, gtick, seen, pcore>>

\* Mutant: moves on without dropping the lock_guard.
TickUnlock_Leak ==
    /\ tpc = "unlock"
    /\ tpc' = "scan" /\ ti_i' = ti_i + 1
    /\ UNCHANGED <<current_tick_, last_tick_inclusive_, ti_lock, ti_view, ti_tick,
                   ti_depth, gpc, gtick, seen, pcore>>

TickUnlock ==
    /\ tpc = "unlock" /\ unlock(ti_i, current_tick_)
    /\ tpc' = "scan" /\ ti_i' = ti_i + 1
    /\ UNCHANGED <<current_tick_, last_tick_inclusive_, ti_tick, ti_depth,
                   gpc, gtick, seen, pcore>>

\* Mutant: publishes the tick just begun.
TickPublish_Current ==
    /\ tpc = "scan" /\ ti_i = NMAXCORES
    /\ last_tick_inclusive_' = current_tick_
    /\ tpc' = "sleep"
    /\ UNCHANGED <<current_tick_, ti_i, corevars, pcore>>

TickPublish ==
    /\ tpc = "scan" /\ ti_i = NMAXCORES
    /\ last_tick_inclusive_' = current_tick_ - 1
    /\ tpc' = "sleep"
    /\ UNCHANGED <<current_tick_, ti_i, corevars, pcore>>

(***************************************************************************)
(* lock_for(core): advance_system_sync_epoch try_locks a core it believes  *)
(* idle, and releases it with what it knows of the clock.                  *)
(***************************************************************************)
PersisterTryLock(c) ==
    /\ pcore = NoCore /\ lock(c, "persister")
    /\ pcore' = c
    /\ UNCHANGED <<tickvars, ti_view, ti_tick, ti_depth, gpc, gtick, seen>>

PersisterUnlock(known) ==
    /\ pcore # NoCore /\ unlock(pcore, known)
    /\ pcore' = NoCore
    /\ UNCHANGED <<tickvars, ti_tick, ti_depth, gpc, gtick, seen>>

tickerloop ==
    TickBump \/ TickScan \/ TickLock \/ TickStore \/ TickUnlock \/ TickPublish

GuardStep(c) ==
    \/ GuardBump(c) \/ GuardLock(c) \/ GuardLoad(c) \/ GuardStore(c)
    \/ GuardNest(c) \/ GuardExit(c) \/ GuardUnlock(c)

TickerNext ==
    \/ tickerloop
    \/ \E c \in Cores : GuardStep(c) \/ PersisterTryLock(c)
    \/ \E known \in 0 .. current_tick_ : PersisterUnlock(known)

TickerSpec == TickerInit /\ [][TickerNext]_tvars

\* The daemon keeps running, and the persister releases what it locked.
TickerFairSpec ==
    /\ TickerSpec
    /\ WF_tvars(tickerloop)
    /\ WF_tvars(\E known \in 0 .. current_tick_ : PersisterUnlock(known))

(***************************************************************************)
(* Properties.                                                             *)
(***************************************************************************)
\* ticker.h:100.  A guard never moves its core's tick backwards, although the
\* clock is read with a load that may be stale.
GuardTickForward ==
    \A c \in Cores : gpc[c] = "store" => ti_tick[c] <= gtick[c]

\* ticker.h:208.  Whenever the daemon inspects a core, that core is at the
\* tick just ended or at the one just begun.
CoreTickWindow ==
    tpc = "scan" /\ ti_i < NMAXCORES =>
        ti_tick[ti_i] \in {current_tick_ - 1, current_tick_}

\* ticker.h:123, 239.  No thread is inside a guard of a tick that has been
\* published as completed by all threads.
GuardAfterGrace ==
    \A c \in Cores : gpc[c] = "in" =>
        /\ gtick[c] = ti_tick[c]
        /\ gtick[c] > last_tick_inclusive_

\* ticker.h:46.  The minimum over all cores, which the garbage collector
\* compares with the published value, is never below the published value.
ComputedNotBehind ==
    compute_global_last_tick_exclusive >= global_last_tick_exclusive

\* rcu.cc:264 and is_locally_guarded.  While a worker stays inside its guard
\* nobody moves its core's tick, so a tick read there stays valid.
TickPinned ==
    [][\A c \in Cores : gpc[c] = "in" => ti_tick'[c] = ti_tick[c]]_tvars

\* tickerloop.  If from some point on no worker or persister holds a core's
\* lock, the daemon gets through every tick and publishes it.
EpochsComplete ==
    (\A c \in Cores : <>[](ti_lock[c] \in {"free", "ticker"}))
        => <>[](last_tick_inclusive_ = MaxTick - 1)

(***************************************************************************)
(* The clock as its clients see it.  A guard is open once its tick is      *)
(* stored; the floor of a core's loads is what it saw itself or what its   *)
(* spinlock hands over.                                                    *)
(***************************************************************************)
OpenGuard == [c \in Cores |-> IF gpc[c] = "in" THEN gtick[c] ELSE 0]
Higher(v, s) == [c \in Cores |-> IF v[c] > s[c] THEN v[c] ELSE s[c]]
Floor == Higher(ti_view, seen)
Borrowed == {c \in Cores : ti_lock[c] = "persister"}

Clock == INSTANCE EpochClock
           WITH tick <- current_tick_, done <- last_tick_inclusive_,
                guard <- OpenGuard, seen <- Floor, held <- Borrowed

\* ticker.h:238-240.  The locks, the per-core ticks and the daemon's scan
\* implement the abstract clock: a tick is published only when no guard of it
\* is open, guards open only in unpublished ticks, and no core sees the clock
\* go back.
ImplementsClock == Clock!ClockSpec

=============================================================================
