------------------------------ MODULE CdsBench ------------------------------
(***************************************************************************)
(* The benchmarks of McsLock, LinuxRwLocks, MpmcQueue and SpinningBarrier, *)
(* one test program at a time, and what holds of them whatever their loads *)
(* read.                                                                   *)
(***************************************************************************)
EXTENDS McsLock, LinuxRwLocks, MpmcQueue, SpinningBarrier

Objects(x) ==
    CASE x.bench = "mcs" -> McsObjects(x.threads)
      [] x.bench = "rw" -> RwObjects
      [] x.bench = "mpmc" -> MpmcObjects
      [] x.bench = "barrier" -> BarrierObjects

Start(x, t) ==
    CASE x.bench = "mcs" -> "mcs_lock"
      [] x.bench = "rw" -> "rw_lock"
      [] x.bench = "mpmc" -> "mpmc_begin"
      [] x.bench = "barrier" -> IF t = "A" THEN "bar_var" ELSE "bar_wait"

\* user_main, up to the threads it creates.
CdsInit ==
    /\ scen \in Scenarios
    /\ MemInit(Objects(scen), scen.threads)
    /\ pc = [t \in scen.threads |-> Start(scen, t)]
    /\ reg = [t \in scen.threads |-> NULL]
    /\ round = [t \in scen.threads |-> IF t \in scen.once THEN 1 ELSE 0]
    /\ weak = FALSE

CdsStep(t) == McsStep(t) \/ RwStep(t) \/ MpmcStep(t) \/ BarrierStep(t)

CdsNext == \E t \in scen.threads : CdsStep(t)

\* Threads run, and do not load the same old value for ever.
CdsSpec ==
    /\ CdsInit /\ [][CdsNext]_bvars
    /\ \A t \in UNION {x.threads : x \in Scenarios} :
          WF_bvars(t \in scen.threads /\ CdsStep(t))

-----------------------------------------------------------------------------
In(t, places) == pc[t] \in places

\* Sections exclude each other: the MCS lock has one holder, a writer of the
\* reader-writer lock is alone, and a bin is used by one thread at a time,
\* whatever old values the spinning loads read.
Exclusive ==
    \A t, u \in scen.threads : t # u =>
        /\ ~(In(t, {"mcs_section"}) /\ In(u, {"mcs_section"}))
        /\ ~(In(t, {"rw_section"}) /\ In(u, {"rw_section"})
             /\ (round[t] = 1 \/ round[u] = 1))
        /\ ~(In(t, {"mpmc_bin", "mpmc_end"}) /\ In(u, {"mpmc_bin", "mpmc_end"})
             /\ BinOf(t) = BinOf(u))

\* Nobody is past the barrier before everybody has arrived.
BarrierHolds ==
    (\E t \in scen.threads : In(t, {"bar_open", "bar_after"}))
        => \A u \in scen.threads : round[u] = 1

\* Whoever is in a section sees the last write made in any section before, as
\* long as everybody entered by an operation with acquire order.  Only the
\* relaxed load of the gate, the relaxed retry of the lock and the relaxed
\* step of the barrier can leave a thread with an old value, a data race.
AcquiredSees ==
    ~weak => \A t \in scen.threads :
        /\ In(t, {"mcs_section"}) => Sees(t, shared)
        /\ In(t, {"rw_section"}) => Sees(t, shareddata)
        /\ In(t, {"bar_after"}) => Sees(t, var)

\* Every thread gets to its end: no wake-up is lost and no two threads wait
\* for each other.
AllEnd == <>(\A t \in scen.threads : pc[t] = "done")

=============================================================================
