----------------------------- MODULE RcuProofs ------------------------------
(***************************************************************************)
(* The epoch clock is correct for any number of cores, any bound on ticks  *)
(* and any nesting, when unlocking a spinlock releases, and it implements  *)
(* the abstract clock, EpochClock. Deferred reclamation on top of it is    *)
(* safe for any set of blocks and any length of an rcu tick.               *)
(***************************************************************************)
EXTENDS Rcu, TLAPS

(***************************************************************************)
(* The inductive invariant: who holds each spinlock, which cores the       *)
(* daemon has already moved to the current tick, and which clock value the *)
(* next holder of a spinlock is bound to see.                              *)
(***************************************************************************)
InGuard == {"load", "store", "in", "unlock"}

\* The holder recorded in a lock is the thread that is in its critical section.
LockInv ==
    /\ \A c \in Cores :
         /\ ti_lock[c] = "core" <=> gpc[c] \in InGuard
         /\ ti_lock[c] = "ticker" <=> tpc \in {"store", "unlock"} /\ ti_i = c
         /\ ti_lock[c] = "persister" <=> pcore = c
         /\ ti_depth[c] = 0 <=> gpc[c] \in {"out", "unlock"}
    /\ tpc \in {"lock", "store", "unlock"} => ti_i < NMAXCORES

\* The daemon is done with core c in this pass.
Visited(c) == tpc = "sleep" \/ c < ti_i \/ (tpc = "unlock" /\ c = ti_i)

ClockInv ==
    /\ last_tick_inclusive_ = IF tpc = "sleep" THEN current_tick_ - 1
                                               ELSE current_tick_ - 2
    /\ \A c \in Cores :
         /\ ti_tick[c] \in {current_tick_ - 1, current_tick_}
         /\ Visited(c) => ti_tick[c] = current_tick_
         /\ seen[c] <= current_tick_ /\ ti_view[c] <= current_tick_

\* Whoever takes the lock next must see a clock at least as new as ti_tick.
ViewInv ==
    \A c \in Cores :
       /\ gpc[c] \in InGuard => ti_tick[c] <= seen[c]
       /\ gpc[c] \in InGuard => ti_view[c] <= seen[c]
       /\ gpc[c] = "store" => gtick[c] = seen[c]
       /\ gpc[c] = "in" => gtick[c] = ti_tick[c]
       /\ ti_lock[c] \in {"free", "persister"} => ti_tick[c] <= ti_view[c]
       /\ ti_lock[c] = "ticker" /\ tpc = "store" => ti_tick[c] <= ti_view[c]

TickerInv == TypeOK /\ LockInv /\ ClockInv /\ ViewInv

LEMMA CoresFacts ==
    /\ Cores \subseteq Nat /\ 0 \in Cores /\ NoCore \notin Cores
    /\ \A c \in Cores : c < NMAXCORES
    /\ \A i \in 0 .. NMAXCORES : i < NMAXCORES => i \in Cores
  BY TickerAssumption, SMTT(20) DEF Cores, NoCore

\* Typing and lock ownership do not depend on what unlocking releases.
LEMMA TypeInductive ==
    ASSUME TypeOK, LockInv, [TickerNext]_tvars
    PROVE  TypeOK' /\ LockInv'
<1> USE CoresFacts, TickerAssumption DEF TypeOK, LockInv, InGuard, NoCore
<1>1. ASSUME NEW c \in Cores, GuardBump(c) PROVE TypeOK' /\ LockInv'
  BY <1>1 DEF GuardBump, tickvars
<1>2. ASSUME NEW c \in Cores, GuardLock(c) PROVE TypeOK' /\ LockInv'
  BY <1>2, ZenonT(60) DEF GuardLock, lock, tickvars
<1>3. ASSUME NEW c \in Cores, GuardLoad(c) PROVE TypeOK' /\ LockInv'
  BY <1>3 DEF GuardLoad, global_current_tick, tickvars
<1>4. ASSUME NEW c \in Cores, GuardStore(c) PROVE TypeOK' /\ LockInv'
  BY <1>4, Zenon DEF GuardStore, tickvars
<1>5. ASSUME NEW c \in Cores, GuardNest(c) PROVE TypeOK' /\ LockInv'
  BY <1>5 DEF GuardNest, tickvars
<1>6. ASSUME NEW c \in Cores, GuardExit(c) PROVE TypeOK' /\ LockInv'
  BY <1>6 DEF GuardExit, tickvars
<1>7. ASSUME NEW c \in Cores, GuardUnlock(c) PROVE TypeOK' /\ LockInv'
  BY <1>7, Zenon DEF GuardUnlock, unlock, tickvars
<1>8. CASE TickBump
  BY <1>8 DEF TickBump, corevars
<1>9. CASE TickScan
  BY <1>9 DEF TickScan, corevars
<1>10. CASE TickLock
  BY <1>10, Zenon DEF TickLock, lock
<1>11. CASE TickStore
  BY <1>11, Zenon DEF TickStore
<1>12. CASE TickUnlock
  BY <1>12 DEF TickUnlock, unlock
<1>13. CASE TickPublish
  BY <1>13 DEF TickPublish, corevars
<1>14. ASSUME NEW c \in Cores, PersisterTryLock(c) PROVE TypeOK' /\ LockInv'
  BY <1>14, Zenon DEF PersisterTryLock, lock, tickvars
<1>15. ASSUME NEW known \in 0 .. current_tick_, PersisterUnlock(known)
       PROVE  TypeOK' /\ LockInv'
  BY <1>15 DEF PersisterUnlock, unlock, tickvars
<1>16. CASE UNCHANGED tvars
  BY <1>16, Zenon DEF tvars, tickvars, corevars
<1> QED
  BY <1>1, <1>2, <1>3, <1>4, <1>5, <1>6, <1>7, <1>8, <1>9, <1>10, <1>11,
     <1>12, <1>13, <1>14, <1>15, <1>16, Zenon DEF TickerNext, tickerloop, GuardStep

\* The clock and the views are preserved by every step of every thread.
LEMMA ClockInductive ==
    ASSUME VolatileRelease, TickerInv, [TickerNext]_tvars
    PROVE  ClockInv' /\ ViewInv'
<1> USE CoresFacts, TickerAssumption
    DEF TickerInv, TypeOK, LockInv, ClockInv, ViewInv, InGuard, Visited, NoCore
<1>1. ASSUME NEW c \in Cores, GuardBump(c) PROVE ClockInv' /\ ViewInv'
  BY <1>1, Zenon DEF GuardBump, tickvars
<1>2. ASSUME NEW c \in Cores, GuardLock(c) PROVE ClockInv' /\ ViewInv'
  BY <1>2 DEF GuardLock, lock, tickvars
<1>3. ASSUME NEW c \in Cores, GuardLoad(c) PROVE ClockInv' /\ ViewInv'
  BY <1>3 DEF GuardLoad, global_current_tick, tickvars
<1>4. ASSUME NEW c \in Cores, GuardStore(c) PROVE ClockInv' /\ ViewInv'
  BY <1>4 DEF GuardStore, tickvars
<1>5. ASSUME NEW c \in Cores, GuardNest(c) PROVE ClockInv' /\ ViewInv'
  BY <1>5, ZenonT(60) DEF GuardNest, tickvars
<1>6. ASSUME NEW c \in Cores, GuardExit(c) PROVE ClockInv' /\ ViewInv'
  BY <1>6 DEF GuardExit, tickvars
<1>7. ASSUME NEW c \in Cores, GuardUnlock(c) PROVE ClockInv' /\ ViewInv'
  BY <1>7 DEF GuardUnlock, unlock, tickvars
<1>8. CASE TickBump
  BY <1>8 DEF TickBump, corevars
<1>9. CASE TickScan
  BY <1>9 DEF TickScan, corevars
<1>10. CASE TickLock
  BY <1>10, ZenonT(60) DEF TickLock, lock
<1>11. CASE TickStore
  BY <1>11 DEF TickStore
<1>12. CASE TickUnlock
  BY <1>12 DEF TickUnlock, unlock
<1>13. CASE TickPublish
  BY <1>13, Zenon DEF TickPublish, corevars
<1>14. ASSUME NEW c \in Cores, PersisterTryLock(c) PROVE ClockInv' /\ ViewInv'
  BY <1>14 DEF PersisterTryLock, lock, tickvars
<1>15. ASSUME NEW known \in 0 .. current_tick_, PersisterUnlock(known)
       PROVE  ClockInv' /\ ViewInv'
  BY <1>15 DEF PersisterUnlock, unlock, tickvars
<1>16. CASE UNCHANGED tvars
  BY <1>16, Zenon DEF tvars, tickvars, corevars
<1> QED
  BY <1>1, <1>2, <1>3, <1>4, <1>5, <1>6, <1>7, <1>8, <1>9, <1>10, <1>11,
     <1>12, <1>13, <1>14, <1>15, <1>16, Zenon DEF TickerNext, tickerloop, GuardStep

LEMMA InitEstablishes == ASSUME TickerInit PROVE TickerInv
  BY TickerAssumption, CoresFacts
  DEF TickerInit, TickerInv, TypeOK, LockInv, ClockInv, ViewInv, InGuard,
      Visited, NoCore

\* Every variable of the ticker keeps its type, whatever unlock releases.
THEOREM TickerTypeCorrect == TickerSpec => []TypeOK
<1>1. TickerInit => TypeOK /\ LockInv
  BY InitEstablishes, Zenon DEF TickerInv
<1>2. TypeOK /\ LockInv /\ [TickerNext]_tvars => (TypeOK /\ LockInv)'
  BY TypeInductive, Zenon
<1> QED
  BY <1>1, <1>2, PTL DEF TickerSpec

\* The inductive invariant holds in every behaviour.
THEOREM TickerInvariant ==
    ASSUME VolatileRelease PROVE TickerSpec => []TickerInv
<1>1. TickerInit => TickerInv
  BY InitEstablishes, Zenon
<1>2. TickerInv /\ [TickerNext]_tvars => TickerInv'
  BY VolatileRelease, TypeInductive, ClockInductive, Zenon DEF TickerInv
<1> QED
  BY <1>1, <1>2, PTL DEF TickerSpec

\* ticker.h:100: a guard never moves its core's tick backwards.
THEOREM GuardTicksForward ==
    ASSUME VolatileRelease PROVE TickerSpec => []GuardTickForward
<1>1. TickerInv => GuardTickForward
  BY Zenon DEF TickerInv, ViewInv, InGuard, GuardTickForward
<1> QED
  BY <1>1, TickerInvariant, VolatileRelease, PTL

\* ticker.h:208: the daemon finds every core at the old or the new tick.
THEOREM CoresInWindow ==
    ASSUME VolatileRelease PROVE TickerSpec => []CoreTickWindow
<1>1. TickerInv => CoreTickWindow
  BY CoresFacts, Zenon DEF TickerInv, TypeOK, ClockInv, CoreTickWindow
<1> QED
  BY <1>1, TickerInvariant, VolatileRelease, PTL

\* ticker.h:123 and 239: a published tick has no guard left in it.
THEOREM GracePeriod ==
    ASSUME VolatileRelease PROVE TickerSpec => []GuardAfterGrace
<1>1. TickerInv => GuardAfterGrace
  <2> SUFFICES ASSUME TickerInv, NEW c \in Cores, gpc[c] = "in"
               PROVE  gtick[c] = ti_tick[c] /\ gtick[c] > last_tick_inclusive_
    BY Zenon DEF GuardAfterGrace
  <2>1. gtick[c] = ti_tick[c]
    BY Zenon DEF TickerInv, ViewInv
  <2>2. ti_tick[c] > last_tick_inclusive_
    BY DEF TickerInv, TypeOK, ClockInv, Visited
  <2> QED
    BY <2>1, <2>2, Zenon
<1> QED
  BY <1>1, TickerInvariant, VolatileRelease, PTL

\* ticker.h:46: the computed minimum is never behind the published tick.
THEOREM ComputedAhead ==
    ASSUME VolatileRelease PROVE TickerSpec => []ComputedNotBehind
<1>1. TickerInv => ComputedNotBehind
  <2> SUFFICES ASSUME TickerInv PROVE ComputedNotBehind
    BY Zenon
  <2> DEFINE S == {ti_tick[c] : c \in Cores}
             least(e) == \A c \in Cores : e <= ti_tick[c]
  <2>1. \A c \in Cores :
          /\ ti_tick[c] \in {current_tick_ - 1, current_tick_}
          /\ ti_tick[c] >= last_tick_inclusive_ + 1
    BY DEF TickerInv, TypeOK, ClockInv, Visited
  <2>2. \E e \in S : least(e)
    <3>1. CASE \E c \in Cores : ti_tick[c] = current_tick_ - 1
      BY <2>1, <3>1 DEF TickerInv, TypeOK
    <3>2. CASE \A c \in Cores : ti_tick[c] = current_tick_
      BY <3>2, CoresFacts DEF TickerInv, TypeOK
    <3> QED
      BY <2>1, <3>1, <3>2, Zenon
  <2>3. compute_global_last_tick_exclusive \in S
    BY <2>2, Zenon DEF compute_global_last_tick_exclusive
  <2> QED
    BY <2>1, <2>3, Zenon DEF ComputedNotBehind, global_last_tick_exclusive
<1> QED
  BY <1>1, TickerInvariant, VolatileRelease, PTL

\* A core's tick stays put while its worker is inside a guard: the daemon
\* cannot be between lock and unlock of that core.
THEOREM TicksPinned == TickerSpec => TickPinned
<1> DEFINE A == \A c \in Cores : gpc[c] = "in" => ti_tick'[c] = ti_tick[c]
<1>1. TypeOK /\ LockInv /\ [TickerNext]_tvars => [A]_tvars
  <2> SUFFICES ASSUME TypeOK, LockInv, [TickerNext]_tvars,
                      NEW c \in Cores, gpc[c] = "in"
               PROVE  ti_tick'[c] = ti_tick[c]
    BY Zenon
  <2>1. ti_lock[c] = "core" /\ ~(tpc = "store" /\ ti_i = c)
    BY Zenon DEF TypeOK, LockInv, InGuard
  <2> QED
    BY <2>1, Zenon DEF TypeOK, TickerNext, tickerloop, GuardStep, GuardBump, GuardLock,
       GuardLoad, GuardStore, GuardNest, GuardExit, GuardUnlock, TickBump,
       TickScan, TickLock, TickStore, TickUnlock, TickPublish,
       PersisterTryLock, PersisterUnlock, lock, unlock, tvars, corevars, tickvars
<1>2. TickerInit => TypeOK /\ LockInv
  BY InitEstablishes, Zenon DEF TickerInv
<1>3. TypeOK /\ LockInv /\ [TickerNext]_tvars => (TypeOK /\ LockInv)'
  BY TypeInductive, Zenon
<1> QED
  BY <1>1, <1>2, <1>3, PTL DEF TickerSpec, TickPinned

-----------------------------------------------------------------------------
\* The ticker implements EpochClock.

LEMMA CoresAgree == Clock!Cores = Cores
  BY Zenon DEF Clock!Cores, Cores

\* A floor that changes at one core only.
LEMMA FloorUpdate ==
    ASSUME NEW v, NEW s, NEW f, NEW c \in Cores, NEW t,
           f = Higher(v, s),
           f[c] = t, \A d \in Cores : d # c => f[d] = Floor[d]
    PROVE  f = [Floor EXCEPT ![c] = t]
<1>1. f = [d \in Cores |-> f[d]]
  BY Zenon DEF Higher
<1>2. [Floor EXCEPT ![c] = t] = [d \in Cores |-> IF d = c THEN t ELSE Floor[d]]
  BY Zenon DEF Floor, Higher
<1> QED
  BY <1>1, <1>2, Zenon

LEMMA FloorType ==
    ASSUME TickerInv
    PROVE  \A c \in Cores :
             /\ Floor[c] \in Nat /\ seen[c] <= Floor[c] /\ ti_view[c] <= Floor[c]
             /\ Floor[c] <= current_tick_
             /\ gpc[c] \in InGuard => Floor[c] = seen[c]
  BY DEF Floor, Higher, TickerInv, TypeOK, ClockInv, ViewInv

LEMMA GuardStepImplements ==
    ASSUME TickerInv, TickerInv', NEW c \in Cores, GuardStep(c)
    PROVE  [Clock!ClockNext]_Clock!clockvars
<1> USE CoresFacts, CoresAgree, FloorType
    DEF TickerInv, TypeOK, LockInv, ClockInv, ViewInv, InGuard,
        OpenGuard, Borrowed, Clock!clockvars
<1>1. CASE GuardBump(c)
  BY <1>1 DEF GuardBump, tickvars, Floor
<1>2. CASE GuardLock(c)
  <2>1. UNCHANGED <<current_tick_, last_tick_inclusive_, OpenGuard, Borrowed>>
    BY <1>2 DEF GuardLock, lock, tickvars
  <2>2. Floor' = Floor
    BY <1>2, ZenonT(60) DEF GuardLock, Floor, Higher
  <2> QED
    BY <2>1, <2>2, ZenonT(60)
<1>3. CASE GuardLoad(c)
  <2>1. PICK t \in seen[c] .. current_tick_ : seen' = [seen EXCEPT ![c] = t]
    BY <1>3, Zenon DEF GuardLoad, global_current_tick
  <2>2. t \in Floor[c] .. current_tick_ /\ ti_view[c] <= t /\ t \in Nat
    BY <1>3, <2>1 DEF GuardLoad
  <2>3. Floor' = [Floor EXCEPT ![c] = t]
    <3>1. ti_view' = ti_view /\ seen' = [seen EXCEPT ![c] = t]
      BY <1>3, <2>1, Zenon DEF GuardLoad
    <3>2. Floor'[c] = t
      BY <2>2, <3>1, SMTT(30) DEF Floor, Higher
    <3>3. \A d \in Cores : d # c => Floor'[d] = Floor[d]
      BY <3>1 DEF Floor, Higher
    <3>4. Floor' = Higher(ti_view', seen')
      BY ZenonT(60) DEF Floor
    <3> QED
      BY ONLY c \in Cores, <3>2, <3>3, <3>4, FloorUpdate
  <2>4. UNCHANGED <<current_tick_, last_tick_inclusive_, OpenGuard, Borrowed>>
    BY <1>3 DEF GuardLoad, tickvars
  <2>5. Clock!Learn(c)
    BY <2>2, <2>3, <2>4, Zenon DEF Clock!Learn, Clock!Visible
  <2> QED
    BY <2>5, Zenon DEF Clock!ClockNext
<1>4. CASE GuardStore(c)
  <2>1. /\ gtick[c] \in Floor[c] .. current_tick_
        /\ gtick[c] > last_tick_inclusive_ /\ gtick[c] = Floor[c]
    <3>1. gtick[c] = seen[c] /\ seen[c] >= ti_view[c]
      BY <1>4, ZenonT(60) DEF GuardStore
    <3>2. ti_tick[c] >= last_tick_inclusive_ + 1 /\ ti_tick[c] <= seen[c]
      BY <1>4 DEF GuardStore, Visited
    <3>3. Floor[c] = seen[c] /\ seen[c] <= current_tick_ /\ seen[c] \in Nat
      BY <1>4, Zenon DEF GuardStore
    <3> QED
      BY <3>1, <3>2, <3>3
  <2>2. OpenGuard[c] = 0 /\ c \notin Borrowed
    BY <1>4, Zenon DEF GuardStore
  <2>3. OpenGuard' = [OpenGuard EXCEPT ![c] = gtick[c]]
    BY <1>4, ZenonT(60) DEF GuardStore
  <2>4. Floor' = [Floor EXCEPT ![c] = gtick[c]]
    BY <1>4, <2>1, SMTT(30) DEF GuardStore, Floor, Higher
  <2>5. UNCHANGED <<current_tick_, last_tick_inclusive_, Borrowed>>
    BY <1>4 DEF GuardStore, tickvars
  <2>6. Clock!Enter(c)
    BY <2>1, <2>2, <2>3, <2>4, <2>5, Zenon DEF Clock!Enter, Clock!Visible, Clock!NoGuard
  <2> QED
    BY <2>6, Zenon DEF Clock!ClockNext
<1>5. CASE GuardNest(c)
  BY <1>5 DEF GuardNest, tickvars, Floor
<1>6. CASE GuardExit(c)
  <2>1. CASE ti_depth[c] = 1
    <3>1. OpenGuard[c] # 0
      BY <1>6 DEF GuardExit, Visited
    <3>2. OpenGuard' = [OpenGuard EXCEPT ![c] = 0]
      BY <1>6, <2>1, ZenonT(60) DEF GuardExit
    <3>3. UNCHANGED <<current_tick_, last_tick_inclusive_, Floor, Borrowed>>
      BY <1>6 DEF GuardExit, tickvars, Floor
    <3>4. Clock!Exit(c)
      BY <3>1, <3>2, <3>3, Zenon DEF Clock!Exit, Clock!NoGuard
    <3> QED
      BY <3>4, Zenon DEF Clock!ClockNext
  <2>2. CASE ti_depth[c] # 1
    BY <1>6, <2>2 DEF GuardExit, tickvars, Floor
  <2> QED
    BY <2>1, <2>2, Zenon
<1>7. CASE GuardUnlock(c)
  <2>1. UNCHANGED <<current_tick_, last_tick_inclusive_, OpenGuard, Borrowed>>
    BY <1>7, SMTT(30) DEF GuardUnlock, unlock, tickvars
  <2>2. Floor' = Floor
    BY <1>7 DEF GuardUnlock, unlock, Floor, Higher
  <2> QED
    BY <2>1, <2>2, Zenon
<1> QED
  BY <1>1, <1>2, <1>3, <1>4, <1>5, <1>6, <1>7, ZenonT(60) DEF GuardStep

LEMMA DaemonStepImplements ==
    ASSUME VolatileRelease, TickerInv, TickerInv', tickerloop
    PROVE  [Clock!ClockNext]_Clock!clockvars
<1> USE CoresFacts, CoresAgree, FloorType
    DEF TickerInv, TypeOK, LockInv, ClockInv, ViewInv, InGuard, Visited,
        OpenGuard, Borrowed, Clock!clockvars
<1>1. CASE TickBump
  <2>1. Clock!Advance
    BY <1>1, SMTT(30) DEF TickBump, corevars, Clock!Advance, Floor
  <2> QED
    BY <2>1, Zenon DEF Clock!ClockNext
<1>2. CASE TickScan
  BY <1>2, SMTT(30) DEF TickScan, corevars, Floor
<1>3. CASE TickLock
  BY <1>3 DEF TickLock, lock, Floor
<1>4. CASE TickStore
  BY <1>4 DEF TickStore, Floor
<1>5. CASE TickUnlock
  <2>1. ti_i \in Cores /\ current_tick_ \in Floor[ti_i] .. current_tick_
    BY <1>5 DEF TickUnlock
  <2>2. \E t \in Floor[ti_i] .. current_tick_ : Floor' = [Floor EXCEPT ![ti_i] = t]
    <3> DEFINE k == current_tick_
               t == IF k > Floor[ti_i] THEN k ELSE Floor[ti_i]
    <3>1. ti_view' = [ti_view EXCEPT ![ti_i] = IF k > @ THEN k ELSE @] /\ seen' = seen
      BY <1>5, VolatileRelease, Zenon DEF TickUnlock, unlock
    <3>2. Floor'[ti_i] = t /\ t \in Floor[ti_i] .. current_tick_
      BY <2>1, <3>1 DEF Floor, Higher
    <3>3. \A d \in Cores : d # ti_i => Floor'[d] = Floor[d]
      BY <3>1 DEF Floor, Higher
    <3>4. Floor' = Higher(ti_view', seen')
      BY Zenon DEF Floor
    <3> HIDE DEF t
    <3> QED
      BY ONLY <2>1, <3>2, <3>3, <3>4, FloorUpdate
  <2>3. UNCHANGED <<current_tick_, last_tick_inclusive_, OpenGuard, Borrowed>>
    BY <1>5 DEF TickUnlock, unlock
  <2>4. Clock!Learn(ti_i)
    BY <2>1, <2>2, <2>3, Zenon DEF Clock!Learn, Clock!Visible
  <2> QED
    BY <2>1, <2>4, Zenon DEF Clock!ClockNext
<1>6. CASE TickPublish
  <2>1. Clock!Complete
    BY <1>6 DEF TickPublish, corevars, Clock!Complete, Clock!NoGuard, Floor
  <2> QED
    BY <2>1, Zenon DEF Clock!ClockNext
<1> QED
  BY <1>1, <1>2, <1>3, <1>4, <1>5, <1>6, Zenon DEF tickerloop

LEMMA PersisterStepImplements ==
    ASSUME VolatileRelease, TickerInv, TickerInv',
           \/ \E c \in Cores : PersisterTryLock(c)
           \/ \E known \in 0 .. current_tick_ : PersisterUnlock(known)
    PROVE  [Clock!ClockNext]_Clock!clockvars
<1> USE CoresFacts, CoresAgree, FloorType
    DEF TickerInv, TypeOK, LockInv, ClockInv, ViewInv, InGuard,
        OpenGuard, Borrowed, Clock!clockvars
<1>1. ASSUME NEW c \in Cores, PersisterTryLock(c)
      PROVE  Clock!Borrow(c)
  BY <1>1 DEF PersisterTryLock, lock, tickvars, Floor, Clock!Borrow, Clock!NoGuard
<1>2. ASSUME NEW known \in 0 .. current_tick_, PersisterUnlock(known)
      PROVE  pcore \in Cores /\ Clock!Return(pcore, known)
  <2>1. pcore \in Borrowed /\ pcore \in Cores
    BY <1>2, Zenon DEF PersisterUnlock, unlock
  <2>2. Borrowed' = Borrowed \ {pcore}
    BY <1>2, ZenonT(60) DEF PersisterUnlock, unlock
  <2>3. Floor' = [Floor EXCEPT ![pcore] = IF known > @ THEN known ELSE @]
    <3>1. /\ ti_view' = [ti_view EXCEPT ![pcore] = IF known > @ THEN known ELSE @]
          /\ seen' = seen
      BY <1>2, VolatileRelease, Zenon DEF PersisterUnlock, unlock
    <3>2. Floor'[pcore] = IF known > Floor[pcore] THEN known ELSE Floor[pcore]
      BY <2>1, <3>1, SMTT(30) DEF Floor, Higher
    <3>3. \A d \in Cores : d # pcore => Floor'[d] = Floor[d]
      BY <3>1 DEF Floor, Higher
    <3>4. Floor' = Higher(ti_view', seen')
      BY ZenonT(60) DEF Floor
    <3> QED
      BY ONLY <2>1, <3>2, <3>3, <3>4, FloorUpdate
  <2>4. UNCHANGED <<current_tick_, last_tick_inclusive_, OpenGuard>>
    BY <1>2 DEF PersisterUnlock, tickvars
  <2> QED
    BY <2>1, <2>2, <2>3, <2>4, Zenon DEF Clock!Return
<1> QED
  BY <1>1, <1>2, Zenon DEF Clock!ClockNext

\* ticker.h:238-240: the daemon, the guards and the spinlocks implement the
\* abstract clock the rest of the system relies on.
THEOREM TickerImplementsClock ==
    ASSUME VolatileRelease PROVE TickerSpec => ImplementsClock
<1>1. TickerInit => Clock!ClockInit
  BY CoresAgree, Zenon DEF TickerInit, Clock!ClockInit, Clock!NoGuard, OpenGuard, Floor, Higher,
     Borrowed
<1>2. TickerInv /\ TickerInv' /\ [TickerNext]_tvars
        => [Clock!ClockNext]_Clock!clockvars
  <2> SUFFICES ASSUME TickerInv, TickerInv', [TickerNext]_tvars
               PROVE  [Clock!ClockNext]_Clock!clockvars
    BY Zenon
  <2>1. CASE UNCHANGED tvars
    BY <2>1, Zenon DEF tvars, tickvars, corevars, OpenGuard, Floor, Borrowed, Clock!clockvars
  <2> QED
    BY <2>1, VolatileRelease, GuardStepImplements, DaemonStepImplements,
       PersisterStepImplements, Zenon DEF TickerNext
<1> QED
  BY <1>1, <1>2, TickerInvariant, VolatileRelease, PTL
  DEF TickerSpec, ImplementsClock, Clock!ClockSpec

-----------------------------------------------------------------------------
\* How steps of the clock and of the workers preserve the invariant.


LEMMA RcuTicksNat == \A t \in Nat : to_rcu_ticks(t) \in Nat
  BY RcuAssumption DEF to_rcu_ticks

LEMMA RcuTicksMonotone ==
    ASSUME NEW a \in Nat, NEW b \in Nat, a <= b
    PROVE  to_rcu_ticks(a) <= to_rcu_ticks(b)
<1> DEFINE M == EpochTimeMultiplier  q == a \div M  r == b \div M
<1>1. /\ M \in Nat /\ M > 0 /\ q \in Int /\ r \in Int
      /\ M * q <= a /\ b < M * r + M
  BY RcuAssumption, Z3
<1>2. ASSUME q > r PROVE FALSE
  <2>1. q >= r + 1
    BY <1>1, <1>2
  <2> HIDE DEF q, r, M
  <2>2. M * q >= M * (r + 1)
    BY <1>1, <2>1, Z3
  <2>3. M * (r + 1) = M * r + M
    BY <1>1, Z3
  <2> QED
    BY <1>1, <2>2, <2>3
<1> QED
  BY <1>1, <1>2 DEF to_rcu_ticks

LEMMA NextRcuTick ==
    ASSUME NEW a \in Nat, NEW b \in Nat, a <= b
    PROVE  /\ to_rcu_ticks(a + 1) <= to_rcu_ticks(b + 1)
           /\ to_rcu_ticks(a + 1) \in Nat
  BY RcuTicksMonotone, RcuTicksNat

\* The clock and the cores only move forward; a guarded core does not move.
LEMMA ClockMonotone ==
    ASSUME TickerInv, [TickerNext]_tvars
    PROVE  /\ last_tick_inclusive_ <= last_tick_inclusive_'
           /\ \A c \in Cores : ti_tick[c] <= ti_tick'[c]
           /\ \A c \in Cores : gpc[c] = "in" => ti_tick'[c] = ti_tick[c]
<1> USE CoresFacts, TickerAssumption
    DEF TickerInv, TypeOK, LockInv, ClockInv, ViewInv, InGuard
<1>1. ASSUME NEW c \in Cores, GuardStep(c) \/ PersisterTryLock(c)
      PROVE  /\ last_tick_inclusive_ <= last_tick_inclusive_'
             /\ \A d \in Cores : ti_tick[d] <= ti_tick'[d]
             /\ \A d \in Cores : gpc[d] = "in" => ti_tick'[d] = ti_tick[d]
  BY <1>1 DEF GuardStep, GuardBump, GuardLock, GuardLoad, GuardStore, GuardNest,
     GuardExit, GuardUnlock, PersisterTryLock, tickvars
<1>2. CASE tickerloop
  BY <1>2 DEF tickerloop, TickBump, TickScan, TickLock, TickStore, TickUnlock,
     TickPublish, corevars
<1>3. ASSUME NEW known \in 0 .. current_tick_, PersisterUnlock(known)
      PROVE  /\ last_tick_inclusive_ <= last_tick_inclusive_'
             /\ \A d \in Cores : ti_tick[d] <= ti_tick'[d]
             /\ \A d \in Cores : gpc[d] = "in" => ti_tick'[d] = ti_tick[d]
  BY <1>3 DEF PersisterUnlock, tickvars
<1>4. CASE UNCHANGED tvars
  BY <1>4 DEF tvars, tickvars, corevars
<1> QED
  BY <1>1, <1>2, <1>3, <1>4, Zenon DEF TickerNext

(***************************************************************************)
(* The inductive invariant.  Its heart is RetireInv: a reader that may     *)
(* hold a retired block entered no later than the tick the block waits     *)
(* for, while a block in scratch_ waits for a tick all readers have left.  *)
(***************************************************************************)
PhaseInv ==
    \A c \in Cores :
       /\ refs[c] # {} => InRegion(c)
       /\ pend[c] # nullptr => InRegion(c)
       /\ scratch_[c] # {} => cl[c] = "reap" /\ gpc[c] # "unlock"
       /\ cl[c] = "check" => gpc[c] = "out"

RetireInv ==
    \A c, d \in Cores : \A e \in Waiting(d) :
       e.p \in refs[c] => to_rcu_ticks(ti_tick[c]) <= e.tick

ReapInv ==
    \A c \in Cores :
       /\ \A e \in scratch_[c] : e.tick < cleaning_rcu_tick_exclusive
       /\ \A e \in queue_[c] : e.tick <= to_rcu_ticks(ti_tick[c] + 1)
       /\ last_reaped_epoch_[c] = 0
            \/ last_reaped_epoch_[c] < cleaning_rcu_tick_exclusive

RcuInv ==
    /\ TickerInv /\ RcuTypeOK
    /\ PhaseInv /\ RetireInv /\ ReapInv
    /\ NoDoubleFree /\ NoUseAfterFree

LEMMA RcuStepIsTickerStep == ASSUME [RcuNext]_rvars PROVE [TickerNext]_tvars
  BY ZenonT(60) DEF RcuNext, rvars, TickerNext, GuardStep, ReadSlot, SwapOut, free_with_fn,
     Publish, RegionBegin, RegionEnd, RegionUnlock, do_cleanup, RunDeleter

\* NoDoubleFree is about where the blocks are, and nothing else.
LEMMA SamePlaces ==
    ASSUME NoDoubleFree, UNCHANGED <<slot, pend, queue_, scratch_, freed>>
    PROVE  NoDoubleFree'
<1>1. /\ slot' = slot /\ pend' = pend /\ queue_' = queue_ /\ scratch_' = scratch_ /\ freed' = freed
      /\ \A d : Waiting(d)' = Waiting(d)
  BY Zenon DEF Waiting
<1> QED
  BY ONLY NoDoubleFree, <1>1, SMTT(30) DEF NoDoubleFree

\* A step that only moves the clock or a guard keeps the rcu invariant.
LEMMA ClockStepKeepsRcu ==
    ASSUME RcuInv, TickerInv', [TickerNext]_tvars, UNCHANGED svars,
           \A c \in Cores : gpc[c] = "in" => gpc'[c] = "in",
           \A c \in Cores : gpc'[c] = "unlock" => gpc[c] = "unlock",
           \A c \in Cores : cl[c] = "check" => gpc'[c] = "out"
    PROVE  RcuInv'
<1>0. /\ TickerInv
      /\ last_tick_inclusive_ <= last_tick_inclusive_'
      /\ \A c \in Cores : ti_tick[c] <= ti_tick'[c]
      /\ \A c \in Cores : gpc[c] = "in" => ti_tick'[c] = ti_tick[c]
  <2>1. TickerInv
    BY Zenon DEF RcuInv
  <2> QED
    BY <2>1, ClockMonotone, Zenon
<1>1. RcuTypeOK' /\ NoUseAfterFree'
  BY Zenon DEF RcuInv, RcuTypeOK, NoUseAfterFree, svars
<1>5. NoDoubleFree'
  BY SamePlaces, Zenon DEF RcuInv, svars
<1>2. PhaseInv'
  BY Zenon DEF RcuInv, PhaseInv, InRegion, svars
<1>3. RetireInv'
  <2> SUFFICES ASSUME NEW c \in Cores, NEW d \in Cores, NEW e \in Waiting(d)',
                      e.p \in refs'[c]
               PROVE  to_rcu_ticks(ti_tick'[c]) <= e.tick
    BY Zenon DEF RetireInv
  <2>1. e \in Waiting(d) /\ e.p \in refs[c]
    BY Zenon DEF svars, Waiting
  <2>2. ti_tick'[c] = ti_tick[c]
    BY <1>0, <2>1, Zenon DEF RcuInv, PhaseInv, InRegion
  <2> QED
    BY <2>1, <2>2, Zenon DEF RcuInv, RetireInv
<1>4. ReapInv'
  <2>1. cleaning_rcu_tick_exclusive <= cleaning_rcu_tick_exclusive'
    <3>1. /\ last_tick_inclusive_ \in Nat /\ last_tick_inclusive_' \in Nat
          /\ last_tick_inclusive_ <= last_tick_inclusive_'
      BY <1>0, Zenon DEF TickerInv, TypeOK
    <3> QED
      BY <3>1, NextRcuTick, Zenon
      DEF cleaning_rcu_tick_exclusive, global_last_tick_exclusive, to_rcu_ticks
  <2>2. cleaning_rcu_tick_exclusive \in Nat /\ cleaning_rcu_tick_exclusive' \in Nat
    BY RcuTicksNat
    DEF RcuInv, TickerInv, TypeOK, cleaning_rcu_tick_exclusive,
        global_last_tick_exclusive, to_rcu_ticks
  <2>3. ASSUME NEW c \in Cores
        PROVE  /\ to_rcu_ticks(ti_tick[c] + 1) <= to_rcu_ticks(ti_tick'[c] + 1)
               /\ to_rcu_ticks(ti_tick[c] + 1) \in Nat
               /\ to_rcu_ticks(ti_tick'[c] + 1) \in Nat
    <3>1. /\ ti_tick[c] + 1 \in Nat /\ ti_tick'[c] + 1 \in Nat
          /\ ti_tick[c] + 1 <= ti_tick'[c] + 1
      BY <1>0 DEF TickerInv, TypeOK
    <3> QED
      BY <3>1, RcuTicksMonotone, RcuTicksNat, Zenon
  <2>4. ASSUME NEW c \in Cores
        PROVE  /\ \A e \in queue_[c] \cup scratch_[c] : e.tick \in Nat
               /\ last_reaped_epoch_[c] \in Nat
    BY DEF RcuInv, RcuTypeOK, Entry
  <2>5. ASSUME NEW c \in Cores, NEW e \in queue_[c]
        PROVE  e.tick <= to_rcu_ticks(ti_tick'[c] + 1)
    BY <2>3, <2>4 DEF RcuInv, ReapInv
  <2>6. ASSUME NEW c \in Cores, NEW e \in scratch_[c]
        PROVE  e.tick < cleaning_rcu_tick_exclusive'
    BY <2>1, <2>2, <2>4 DEF RcuInv, ReapInv
  <2>7. ASSUME NEW c \in Cores
        PROVE  last_reaped_epoch_[c] = 0
                 \/ last_reaped_epoch_[c] < cleaning_rcu_tick_exclusive'
    BY <2>1, <2>2, <2>4 DEF RcuInv, ReapInv
  <2>8. \A c \in Cores : to_rcu_ticks(ti_tick[c] + 1)' = to_rcu_ticks(ti_tick'[c] + 1)
    BY Zenon DEF to_rcu_ticks
  <2> QED
    BY <2>5, <2>6, <2>7, <2>8, Zenon DEF ReapInv, svars
<1> QED
  BY <1>1, <1>2, <1>3, <1>4, <1>5, Zenon DEF RcuInv

\* When the ticker stands still, so do the ticks the invariant mentions.
LEMMA StillClock ==
    ASSUME TickerInv, UNCHANGED tvars
    PROVE  /\ TickerInv'
           /\ ti_tick' = ti_tick /\ gpc' = gpc /\ ti_depth' = ti_depth
           /\ last_tick_inclusive_' = last_tick_inclusive_
           /\ cleaning_rcu_tick_exclusive' = cleaning_rcu_tick_exclusive
<1>1. /\ ti_tick' = ti_tick /\ gpc' = gpc /\ ti_depth' = ti_depth
      /\ last_tick_inclusive_' = last_tick_inclusive_
  BY Zenon DEF tvars, tickvars, corevars
<1>2. cleaning_rcu_tick_exclusive' = cleaning_rcu_tick_exclusive
  BY <1>1, Zenon DEF cleaning_rcu_tick_exclusive, global_last_tick_exclusive, to_rcu_ticks
<1>3. TickerInv'
  BY Zenon DEF TickerInv, TypeOK, LockInv, ClockInv, ViewInv, Visited, InGuard,
         tvars, tickvars, corevars
<1> QED
  BY <1>1, <1>2, <1>3, Zenon

LEMMA CleaningNat == TickerInv => cleaning_rcu_tick_exclusive \in Nat
<1> SUFFICES ASSUME TickerInv PROVE cleaning_rcu_tick_exclusive \in Nat
  BY Zenon
<1>1. last_tick_inclusive_ \in Nat
  BY Zenon DEF TickerInv, TypeOK
<1> QED
  BY <1>1, NextRcuTick DEF cleaning_rcu_tick_exclusive, global_last_tick_exclusive

\* A reader is never at an rcu tick that is already being cleaned.
LEMMA ReadersNotCleaned ==
    ASSUME TickerInv, NEW c \in Cores
    PROVE  /\ to_rcu_ticks(ti_tick[c]) \in Nat
           /\ cleaning_rcu_tick_exclusive <= to_rcu_ticks(ti_tick[c])
<1>1. /\ last_tick_inclusive_ + 1 \in Nat /\ ti_tick[c] \in Nat
      /\ last_tick_inclusive_ + 1 <= ti_tick[c]
  BY DEF TickerInv, TypeOK, ClockInv, Visited
<1> QED
  BY <1>1, RcuTicksMonotone, RcuTicksNat, Zenon
  DEF cleaning_rcu_tick_exclusive, global_last_tick_exclusive

\* The worker's own operations, with the clock standing still.
LEMMA WorkerStepKeepsRcu ==
    ASSUME RcuInv, NEW c \in Cores,
           \/ \E d \in Cores : ReadSlot(c, d)
           \/ SwapOut(c) \/ free_with_fn(c)
           \/ \E o \in Objects : Publish(c, o)
    PROVE  RcuInv'
<1>0. /\ UNCHANGED tvars /\ InRegion(c)
      /\ TickerInv /\ TickerInv'
      /\ ti_tick' = ti_tick /\ gpc' = gpc
      /\ last_tick_inclusive_' = last_tick_inclusive_
      /\ cleaning_rcu_tick_exclusive' = cleaning_rcu_tick_exclusive
  <2>1. UNCHANGED tvars /\ InRegion(c) /\ TickerInv
    BY Zenon DEF RcuInv, ReadSlot, SwapOut, free_with_fn, Publish
  <2> QED
    BY <2>1, StillClock, Zenon
<1> USE RcuAssumption
<1>i. RcuTypeOK /\ PhaseInv /\ RetireInv /\ ReapInv /\ NoDoubleFree /\ NoUseAfterFree
  BY Zenon DEF RcuInv
<1>1. ASSUME NEW d \in Cores, ReadSlot(c, d) PROVE RcuInv'
  <2>0. /\ slot[d] # nullptr /\ refs' = [refs EXCEPT ![c] = @ \cup {slot[d]}]
        /\ UNCHANGED <<slot, pend, queue_, scratch_, last_reaped_epoch_, cl, freed>>
    BY <1>1, Zenon DEF ReadSlot
  <2>1. RcuTypeOK'
    BY ONLY c \in Cores, d \in Cores, <1>i, <2>0, Zenon DEF RcuTypeOK
  <2>2. PhaseInv'
    BY ONLY c \in Cores, <1>0, <1>i, <2>0, Zenon DEF RcuTypeOK, PhaseInv, InRegion
  <2>3. RetireInv'
    BY ONLY c \in Cores, d \in Cores, <1>0, <1>i, <2>0, SMTT(30)
    DEF RcuTypeOK, RetireInv, NoDoubleFree, Waiting, to_rcu_ticks
  <2>4. ReapInv'
    BY ONLY <1>0, <1>i, <2>0, Zenon DEF ReapInv, to_rcu_ticks
  <2>5. NoDoubleFree'
    BY <1>i, <2>0, SamePlaces, Zenon
  <2>6. NoUseAfterFree'
    BY ONLY c \in Cores, d \in Cores, <1>i, <2>0, SMTT(30)
    DEF RcuTypeOK, NoDoubleFree, NoUseAfterFree
  <2> QED
    BY <1>0, <2>1, <2>2, <2>3, <2>4, <2>5, <2>6, Zenon DEF RcuInv
<1>2. CASE SwapOut(c)
  <2>0. /\ slot[c] # nullptr /\ pend[c] = nullptr
        /\ slot' = [slot EXCEPT ![c] = nullptr] /\ pend' = [pend EXCEPT ![c] = slot[c]]
        /\ UNCHANGED <<refs, queue_, scratch_, last_reaped_epoch_, cl, freed>>
    BY <1>2, Zenon DEF SwapOut
  <2>1. RcuTypeOK'
    BY ONLY c \in Cores, <1>i, <2>0, Zenon DEF RcuTypeOK
  <2>2. PhaseInv'
    BY ONLY c \in Cores, <1>0, <1>i, <2>0, Zenon DEF RcuTypeOK, PhaseInv, InRegion
  <2>3. RetireInv' /\ NoUseAfterFree'
    BY ONLY <1>0, <1>i, <2>0, Zenon DEF RetireInv, NoUseAfterFree, Waiting, to_rcu_ticks
  <2>4. ReapInv'
    BY ONLY <1>0, <1>i, <2>0, Zenon DEF ReapInv, to_rcu_ticks
  <2>5. NoDoubleFree'
    BY ONLY c \in Cores, RcuAssumption, <1>i, <2>0, SMTT(30)
    DEF RcuTypeOK, Entry, NoDoubleFree, Waiting
  <2> QED
    BY <1>0, <2>1, <2>2, <2>3, <2>4, <2>5, Zenon DEF RcuInv
<1>3. CASE free_with_fn(c)
  <2> DEFINE t == to_rcu_ticks(ti_tick[c] + 1)
             new == [p |-> pend[c], tick |-> t]
  <2>1. /\ pend[c] \in Objects /\ t \in Nat /\ new \in Entry
        /\ new.p = pend[c] /\ new.tick = t
    <3>1. ti_tick[c] \in Nat
      BY <1>0, Zenon DEF TickerInv, TypeOK
    <3>2. t \in Nat
      BY <3>1, NextRcuTick
    <3> HIDE DEF t
    <3>3. pend[c] \in Objects
      BY <1>3, Zenon DEF RcuInv, RcuTypeOK, free_with_fn
    <3> QED
      BY <3>2, <3>3, Zenon DEF Entry
  <2>2. /\ queue_' = [queue_ EXCEPT ![c] = @ \cup {new}]
        /\ pend' = [pend EXCEPT ![c] = nullptr]
        /\ UNCHANGED <<slot, refs, scratch_, last_reaped_epoch_, cl, freed>>
    BY <1>3, Zenon DEF free_with_fn
  \* Everybody in a region is at most one tick ahead of the retiring worker.
  <2>3. ASSUME NEW d \in Cores PROVE to_rcu_ticks(ti_tick[d]) <= t
    <3>1. /\ ti_tick[d] \in Nat /\ ti_tick[c] + 1 \in Nat
          /\ ti_tick[d] <= ti_tick[c] + 1
      BY <1>0 DEF TickerInv, TypeOK, ClockInv
    <3> QED
      BY <3>1, RcuTicksMonotone, Zenon
  <2>4. t' = t
    BY <1>0, Zenon DEF to_rcu_ticks
  <2> HIDE DEF t, new
  <2>5. RcuTypeOK'
    BY <2>1, <2>2, Zenon DEF RcuInv, RcuTypeOK
  <2>6. PhaseInv'
    BY <1>0, <2>2, Zenon DEF RcuInv, RcuTypeOK, PhaseInv, InRegion
  <2>7. RetireInv'
    BY <1>0, <2>1, <2>2, <2>3, Zenon DEF RcuInv, RcuTypeOK, RetireInv, Waiting, to_rcu_ticks
  <2>8. ReapInv'
    <3>1. ASSUME NEW d \in Cores, NEW e \in queue_'[d]
          PROVE  e.tick <= to_rcu_ticks(ti_tick[d] + 1)
      BY <2>1, <2>2, SMTT(30) DEF RcuInv, RcuTypeOK, ReapInv, t
    <3> QED
      BY <1>0, <2>2, <3>1, Zenon DEF RcuInv, ReapInv, to_rcu_ticks
  <2>9. NoDoubleFree'
    <3>1. \A d \in Cores : \A e \in Waiting(d)' :
             e \in Waiting(d) \/ (d = c /\ e = new)
      BY <2>2, Zenon DEF RcuInv, RcuTypeOK, Waiting
    <3>2. /\ pend'[c] = nullptr /\ \A d \in Cores : d # c => pend'[d] = pend[d]
          /\ slot' = slot /\ freed' = freed
          /\ nullptr \notin freed /\ pend[c] # nullptr
      BY <2>1, <2>2, Zenon DEF RcuInv, RcuTypeOK
    <3>3. ASSUME NEW a \in Cores, NEW d \in Cores, NEW e \in Waiting(a)'
          PROVE  /\ e.p \notin freed' /\ e.p # slot'[d] /\ e.p # pend'[d]
                 /\ \A f \in Waiting(d)' : e.p = f.p => a = d /\ e = f
      <4>1. e.p \in Objects
        BY <2>1, <3>1, SMTT(30) DEF RcuInv, RcuTypeOK, Waiting, Entry
      <4>2. CASE e \in Waiting(a)
        <5>1. /\ e.p \notin freed /\ e.p # slot[d] /\ e.p # pend[d] /\ e.p # pend[c]
              /\ \A f \in Waiting(d) : e.p = f.p => a = d /\ e = f
          BY <4>2, SMTT(30) DEF RcuInv, NoDoubleFree
        <5>2. e.p # pend'[d]
          BY <2>1, <3>2, <4>1, <5>1, Zenon DEF RcuInv, RcuTypeOK
        <5>3. ASSUME NEW f \in Waiting(d)', e.p = f.p PROVE a = d /\ e = f
          BY <2>1, <3>1, <5>1, <5>3, Zenon
        <5> QED
          BY <3>2, <5>1, <5>2, <5>3, Zenon
      <4>3. CASE a = c /\ e = new
        BY <2>1, <3>1, <3>2, <4>1, <4>3, SMTT(30) DEF RcuInv, NoDoubleFree
      <4> QED
        BY <3>1, <4>2, <4>3, Zenon
    <3>4. \A d \in Cores : queue_'[d] \cap scratch_'[d] = {}
      <4>1. new \notin scratch_[c]
        BY <2>1, Zenon DEF RcuInv, NoDoubleFree, Waiting
      <4> QED
        BY <2>2, <4>1, SMTT(30) DEF RcuInv, RcuTypeOK, NoDoubleFree
    <3>5. ASSUME NEW a \in Cores, NEW d \in Cores
          PROVE  /\ slot'[a] \notin freed' /\ pend'[a] \notin freed'
                 /\ slot'[a] = slot'[d] => a = d \/ slot'[a] = nullptr
                 /\ pend'[a] = pend'[d] => a = d \/ pend'[a] = nullptr
                 /\ pend'[a] = slot'[d] => pend'[a] = nullptr
      BY ONLY a \in Cores, d \in Cores, <1>i, <3>2, SMTT(30) DEF NoDoubleFree
    <3> QED
      BY ONLY <3>3, <3>4, <3>5, Zenon DEF NoDoubleFree
  <2>10. NoUseAfterFree'
    BY <2>2, Zenon DEF RcuInv, NoUseAfterFree
  <2> QED
    BY <1>0, <2>5, <2>6, <2>7, <2>8, <2>9, <2>10, Zenon DEF RcuInv
<1>4. ASSUME NEW o \in Objects, Publish(c, o) PROVE RcuInv'
  <2>0. /\ slot[c] = nullptr /\ o \in freed /\ freed' = freed \ {o}
        /\ slot' = [slot EXCEPT ![c] = o]
        /\ UNCHANGED <<refs, pend, queue_, scratch_, last_reaped_epoch_, cl>>
    BY <1>4, Zenon DEF Publish
  <2>1. RcuTypeOK'
    BY ONLY c \in Cores, o \in Objects, <1>i, <2>0, Zenon DEF RcuTypeOK
  <2>2. PhaseInv'
    BY ONLY <1>0, <1>i, <2>0, Zenon DEF PhaseInv, InRegion
  <2>3. RetireInv' /\ ReapInv'
    BY ONLY <1>0, <1>i, <2>0, Zenon DEF RetireInv, ReapInv, Waiting, to_rcu_ticks
  <2>4. NoDoubleFree'
    BY ONLY c \in Cores, RcuAssumption, <1>i, <2>0, SMTT(30)
    DEF RcuTypeOK, NoDoubleFree, Waiting
  <2>5. NoUseAfterFree'
    BY ONLY <1>i, <2>0, Zenon DEF NoUseAfterFree
  <2> QED
    BY <1>0, <2>1, <2>2, <2>3, <2>4, <2>5, Zenon DEF RcuInv
<1> QED
  BY <1>1, <1>2, <1>3, <1>4, Zenon

-----------------------------------------------------------------------------
\* Leaving a region, and do_cleanup with the deleters it runs.
LEMMA CleanupStepKeepsRcu ==
    ASSUME RcuInv, NEW c \in Cores,
           do_cleanup(c) \/ \E e \in scratch_[c] : RunDeleter(c, e)
    PROVE  RcuInv'
<1>0. /\ TickerInv /\ TickerInv'
      /\ ti_tick' = ti_tick /\ gpc' = gpc
      /\ cleaning_rcu_tick_exclusive' = cleaning_rcu_tick_exclusive
      /\ cleaning_rcu_tick_exclusive \in Nat
  <2>1. UNCHANGED tvars /\ TickerInv
    BY Zenon DEF RcuInv, do_cleanup, RunDeleter
  <2> QED
    BY <2>1, StillClock, CleaningNat, Zenon
<1> USE RcuAssumption
<1>1. CASE do_cleanup(c)
  <2> DEFINE clean == cleaning_rcu_tick_exclusive - 1
             due == {e \in queue_[c] : e.tick <= clean}
  <2>1. CASE UNCHANGED <<queue_, scratch_, last_reaped_epoch_>>
    <3> QED
      <4>1. UNCHANGED <<slot, refs, pend, freed>> /\ cl[c] = "check"
        BY <1>1, Zenon DEF do_cleanup
      <4>2. cl' = [cl EXCEPT ![c] = "idle"] \/ cl' = [cl EXCEPT ![c] = "reap"]
        BY <1>1, Zenon DEF do_cleanup
      <4>3. RcuTypeOK' /\ NoUseAfterFree'
        BY <2>1, <4>1, <4>2, Zenon DEF RcuInv, RcuTypeOK, NoUseAfterFree
      <4>4. PhaseInv'
        BY <1>0, <2>1, <4>1, <4>2, Zenon DEF RcuInv, RcuTypeOK, PhaseInv, InRegion
      <4>5. RetireInv' /\ ReapInv'
        BY <1>0, <2>1, <4>1, Zenon DEF RcuInv, RetireInv, ReapInv, Waiting, to_rcu_ticks
      <4>6. NoDoubleFree'
        BY <2>1, <4>1 DEF RcuInv, NoDoubleFree, Waiting
      <4> QED
        BY <1>0, <4>3, <4>4, <4>5, <4>6, Zenon DEF RcuInv
  <2>2. CASE /\ cleaning_rcu_tick_exclusive # 0
             /\ last_reaped_epoch_' = [last_reaped_epoch_ EXCEPT ![c] = clean]
             /\ scratch_' = [scratch_ EXCEPT ![c] = due]
             /\ queue_' = [queue_ EXCEPT ![c] = @ \ due]
             /\ cl' = [cl EXCEPT ![c] = IF due = {} THEN "idle" ELSE "reap"]
    <3>1. /\ cl[c] = "check" /\ scratch_[c] = {}
          /\ UNCHANGED <<slot, refs, pend, freed>>
      BY <1>1, Zenon DEF do_cleanup, RcuInv, PhaseInv
    <3>2. /\ due \subseteq queue_[c] /\ due \in SUBSET Entry
          /\ \A e \in due : e.tick < cleaning_rcu_tick_exclusive
          /\ clean \in Nat /\ clean < cleaning_rcu_tick_exclusive
      BY <1>0, <2>2 DEF RcuInv, RcuTypeOK, Entry
    <3> HIDE DEF due, clean
    <3>3. \A d \in Cores : /\ Waiting(d)' = Waiting(d)
                           /\ queue_'[d] \subseteq queue_[d]
      BY <2>2, <3>1, <3>2, Zenon DEF RcuInv, RcuTypeOK, Waiting
    <3>4. RcuTypeOK'
      BY <2>2, <3>1, <3>2, Zenon DEF RcuInv, RcuTypeOK
    <3>5. PhaseInv'
      BY <1>0, <2>2, <3>1, Zenon DEF RcuInv, RcuTypeOK, PhaseInv, InRegion
    <3>6. RetireInv' /\ NoUseAfterFree'
      BY <1>0, <3>1, <3>3, Zenon DEF RcuInv, RetireInv, NoUseAfterFree, to_rcu_ticks
    <3>8. \A d \in Cores : queue_'[d] \cap scratch_'[d] = {}
      BY <2>2, <3>2 DEF RcuInv, RcuTypeOK, NoDoubleFree
    <3>9. NoDoubleFree'
      BY <3>1, <3>3, <3>8 DEF RcuInv, NoDoubleFree
    <3>7. ReapInv'
      BY <1>0, <2>2, <3>2, <3>3, Zenon DEF RcuInv, RcuTypeOK, ReapInv, to_rcu_ticks
    <3> QED
      BY <1>0, <3>4, <3>5, <3>6, <3>7, <3>9, Zenon DEF RcuInv
  <2> QED
    BY <1>1, <2>1, <2>2, Zenon DEF do_cleanup
<1>2. ASSUME NEW e \in scratch_[c], RunDeleter(c, e) PROVE RcuInv'
  <2>1. RcuTypeOK'
    BY <1>2 DEF RcuInv, RcuTypeOK, Entry, RunDeleter
  <2>2. PhaseInv'
    BY <1>0, <1>2, Zenon DEF RcuInv, RcuTypeOK, PhaseInv, InRegion, RunDeleter
  <2>3. \A d \in Cores : /\ Waiting(d)' \subseteq Waiting(d)
                         /\ scratch_'[d] \subseteq scratch_[d]
                         /\ queue_'[d] = queue_[d]
    BY <1>2, Zenon DEF RcuInv, RcuTypeOK, RunDeleter, Waiting
  <2>4. RetireInv' /\ ReapInv'
    BY <1>0, <1>2, <2>3, Zenon DEF RcuInv, RetireInv, ReapInv, to_rcu_ticks, RunDeleter
  \* No reader can hold e.p: it would be at an rcu tick already cleaned.
  <2>5. \A d \in Cores : e.p \notin refs[d]
    <3> SUFFICES ASSUME NEW d \in Cores, e.p \in refs[d] PROVE FALSE
      BY Zenon
    <3>1. to_rcu_ticks(ti_tick[d]) <= e.tick /\ e.tick < cleaning_rcu_tick_exclusive
      BY Zenon DEF RcuInv, RetireInv, ReapInv, Waiting
    <3>2. e.tick \in Nat
      BY DEF RcuInv, RcuTypeOK, Entry
    <3> QED
      BY <1>0, <3>1, <3>2, ReadersNotCleaned
  <2>6. NoUseAfterFree'
    BY <1>2, <2>5, Zenon DEF RcuInv, NoUseAfterFree, RunDeleter
  <2>7. NoDoubleFree'
    <3>1. e \in Waiting(c) /\ e \notin Waiting(c)' /\ freed' = freed \cup {e.p}
          /\ UNCHANGED <<slot, pend>>
      <4>1. e \notin queue_[c]
        BY Zenon DEF RcuInv, NoDoubleFree
      <4> QED
        BY <1>2, <4>1, Zenon DEF RunDeleter, RcuInv, RcuTypeOK, Waiting
    <3> QED
      BY <2>3, <3>1 DEF RcuInv, NoDoubleFree
  <2> QED
    BY <1>0, <2>1, <2>2, <2>4, <2>6, <2>7, Zenon DEF RcuInv
<1> QED
  BY <1>1, <1>2, Zenon

LEMMA RcuInductive ==
    ASSUME VolatileRelease, RcuInv, [RcuNext]_rvars
    PROVE  RcuInv'
<1>0. TickerInv /\ TickerInv' /\ [TickerNext]_tvars
  <2>1. TickerInv /\ [TickerNext]_tvars
    BY RcuStepIsTickerStep, Zenon DEF RcuInv
  <2>2. TypeOK' /\ LockInv'
    BY <2>1, TypeInductive, Zenon DEF TickerInv
  <2>3. ClockInv' /\ ViewInv'
    BY VolatileRelease, <2>1, ClockInductive, Zenon
  <2> QED
    BY <2>1, <2>2, <2>3, Zenon DEF TickerInv
<1>1. CASE tickerloop /\ UNCHANGED svars
  <2>1. gpc' = gpc
    BY <1>1, Zenon DEF tickerloop, TickBump, TickScan, TickLock, TickStore, TickUnlock,
       TickPublish, corevars
  <2>2. \A c \in Cores : cl[c] = "check" => gpc'[c] = "out"
    BY <2>1, Zenon DEF RcuInv, PhaseInv
  <2> QED
    BY <1>0, <1>1, <2>1, <2>2, ClockStepKeepsRcu, Zenon
<1>2. ASSUME NEW c \in Cores, RegionBegin(c) PROVE RcuInv'
  <2>1. /\ UNCHANGED svars /\ cl[c] # "check"
        /\ \A d \in Cores : gpc[d] = "in" => gpc'[d] = "in"
        /\ \A d \in Cores : gpc'[d] = "unlock" => gpc[d] = "unlock"
        /\ \A d \in Cores : d # c => gpc'[d] = gpc[d]
    BY <1>0, <1>2 DEF RegionBegin, GuardBump, GuardLock, GuardLoad, GuardStore,
       GuardNest, TickerInv, TypeOK
  <2>2. \A d \in Cores : cl[d] = "check" => gpc'[d] = "out"
    BY <2>1, Zenon DEF RcuInv, PhaseInv
  <2> QED
    BY <1>0, <2>1, <2>2, ClockStepKeepsRcu, Zenon
<1>3. ASSUME NEW c \in Cores, RegionEnd(c) PROVE RcuInv'
  <2>1. /\ gpc[c] = "in" /\ pend[c] = nullptr
        /\ cl[c] = "reap" => scratch_[c] = {}
        /\ ti_tick' = ti_tick /\ last_tick_inclusive_' = last_tick_inclusive_
        /\ UNCHANGED <<slot, pend, queue_, scratch_, last_reaped_epoch_, cl, freed>>
    BY <1>3, Zenon DEF RegionEnd, GuardExit, tickvars
  <2>2. /\ \A d \in Cores : refs'[d] \subseteq refs[d]
        /\ \A d \in Cores : d # c => gpc'[d] = gpc[d]
        /\ gpc'[c] = "in" \/ refs'[c] = {}
    BY <1>0, <1>3 DEF RegionEnd, GuardExit, RcuInv, RcuTypeOK, TickerInv, TypeOK
  <2>3. cleaning_rcu_tick_exclusive' = cleaning_rcu_tick_exclusive
    BY <2>1, Zenon DEF cleaning_rcu_tick_exclusive, global_last_tick_exclusive, to_rcu_ticks
  <2>4. RcuTypeOK'
    BY <1>3, Zenon DEF RegionEnd, RcuInv, RcuTypeOK
  <2>5. PhaseInv'
    BY <2>1, <2>2, Zenon DEF RcuInv, PhaseInv, InRegion
  <2>6. RetireInv' /\ NoUseAfterFree'
    BY <2>1, <2>2, Zenon DEF RcuInv, RetireInv, NoUseAfterFree, Waiting, to_rcu_ticks
  <2>7. ReapInv'
    BY <2>1, <2>3, Zenon DEF RcuInv, ReapInv, to_rcu_ticks
  <2>8. NoDoubleFree'
    BY <2>1, SamePlaces, Zenon DEF RcuInv
  <2> QED
    BY <1>0, <2>4, <2>5, <2>6, <2>7, <2>8, Zenon DEF RcuInv
<1>4. ASSUME NEW c \in Cores, RegionUnlock(c) PROVE RcuInv'
  <2>1. /\ gpc[c] = "unlock" /\ gpc' = [gpc EXCEPT ![c] = "out"]
        /\ cl' = [cl EXCEPT ![c] = "check"]
        /\ ti_tick' = ti_tick /\ last_tick_inclusive_' = last_tick_inclusive_
        /\ UNCHANGED <<slot, refs, pend, queue_, scratch_, last_reaped_epoch_, freed>>
    BY <1>4, Zenon DEF RegionUnlock, GuardUnlock, tickvars
  <2>2. cleaning_rcu_tick_exclusive' = cleaning_rcu_tick_exclusive
    BY <2>1, Zenon DEF cleaning_rcu_tick_exclusive, global_last_tick_exclusive, to_rcu_ticks
  <2>3. RcuTypeOK'
    BY <2>1, Zenon DEF RcuInv, RcuTypeOK
  <2>4. PhaseInv'
    BY <1>0, <2>1 DEF RcuInv, RcuTypeOK, PhaseInv, InRegion, TickerInv, TypeOK
  <2>5. RetireInv' /\ NoUseAfterFree'
    BY <2>1, Zenon DEF RcuInv, RetireInv, NoUseAfterFree, Waiting, to_rcu_ticks
  <2>6. ReapInv'
    BY <2>1, <2>2, Zenon DEF RcuInv, ReapInv, to_rcu_ticks
  <2>7. NoDoubleFree'
    BY <2>1, SamePlaces, Zenon DEF RcuInv
  <2> QED
    BY <1>0, <2>3, <2>4, <2>5, <2>6, <2>7, Zenon DEF RcuInv
<1>5. CASE UNCHANGED rvars
  <2>1. UNCHANGED svars /\ gpc' = gpc
    BY <1>5, Zenon DEF rvars, tvars, corevars
  <2>2. \A c \in Cores : cl[c] = "check" => gpc'[c] = "out"
    BY <2>1, Zenon DEF RcuInv, PhaseInv
  <2> QED
    BY <1>0, <2>1, <2>2, ClockStepKeepsRcu, Zenon
<1> QED
  BY <1>1, <1>2, <1>3, <1>4, <1>5, WorkerStepKeepsRcu, CleanupStepKeepsRcu, Zenon
  DEF RcuNext

LEMMA RcuInitEstablishes == ASSUME RcuInit PROVE RcuInv
<1>1. TickerInv
  BY InitEstablishes, Zenon DEF RcuInit
<1>2. RcuTypeOK /\ PhaseInv /\ RetireInv /\ ReapInv
  BY Zenon DEF RcuInit, RcuTypeOK, PhaseInv, RetireInv, ReapInv, Waiting
<1>3. NoDoubleFree /\ NoUseAfterFree
  BY RcuAssumption, Zenon DEF RcuInit, NoDoubleFree, NoUseAfterFree, Waiting
<1> QED
  BY <1>1, <1>2, <1>3, Zenon DEF RcuInv

THEOREM RcuInvariant ==
    ASSUME VolatileRelease PROVE RcuSpec => []RcuInv
<1>1. RcuInv /\ [RcuNext]_rvars => RcuInv'
  BY VolatileRelease, RcuInductive, Zenon
<1> QED
  BY <1>1, RcuInitEstablishes, PTL DEF RcuSpec

\* rcu.h:32-189: queues, slots and regions keep their shape at every step.
THEOREM RcuTypeCorrect ==
    ASSUME VolatileRelease PROVE RcuSpec => []RcuTypeOK
<1>1. RcuInv => RcuTypeOK
  BY Zenon DEF RcuInv
<1> QED
  BY <1>1, RcuInvariant, VolatileRelease, PTL

\* rcu.cc:353: whatever a worker read inside its region stays allocated until
\* the region ends.
THEOREM RcuReadersSafe ==
    ASSUME VolatileRelease PROVE RcuSpec => []NoUseAfterFree
<1>1. RcuInv => NoUseAfterFree
  BY Zenon DEF RcuInv
<1> QED
  BY <1>1, RcuInvariant, VolatileRelease, PTL

\* rcu.cc:334: each retired block meets its deleter at most once.
THEOREM RcuFreesOnce ==
    ASSUME VolatileRelease PROVE RcuSpec => []NoDoubleFree
<1>1. RcuInv => NoDoubleFree
  BY Zenon DEF RcuInv
<1> QED
  BY <1>1, RcuInvariant, VolatileRelease, PTL

\* pxqueue.h:158: enqueued ticks only go up.
THEOREM RcuQueuesInOrder ==
    ASSUME VolatileRelease PROVE RcuSpec => []QueueInOrder
<1>1. RcuInv => QueueInOrder
  BY Zenon DEF RcuInv, ReapInv, QueueInOrder
<1> QED
  BY <1>1, RcuInvariant, VolatileRelease, PTL

\* rcu.cc:209-210: cleanups follow one another in epoch order.
THEOREM RcuCleanupsInOrder ==
    ASSUME VolatileRelease PROVE RcuSpec => []CleanupInOrder
<1>1. RcuInv => CleanupInOrder
  <2> SUFFICES ASSUME RcuInv PROVE CleanupInOrder
    BY Zenon
  <2>1. cleaning_rcu_tick_exclusive \in Nat
    BY CleaningNat, Zenon DEF RcuInv
  <2> QED
    BY <2>1 DEF RcuInv, RcuTypeOK, PhaseInv, ReapInv, CleanupInOrder
<1> QED
  BY <1>1, RcuInvariant, VolatileRelease, PTL
=============================================================================
