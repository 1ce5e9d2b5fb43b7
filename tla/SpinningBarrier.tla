-------------------------- MODULE SpinningBarrier --------------------------
(***************************************************************************)
(* barrier/barrier.h with the threads of barrier.cc: "A" writes var before *)
(* it waits, the others read it afterwards.                                *)
(***************************************************************************)
EXTENDS CdsThreads

nwait_ == Obj("nwait_")
step_ == Obj("step_")
var == Obj("var")

BarrierObjects == [l \in {nwait_, step_, var} |-> 0]

n_ == Cardinality(scen.threads)

bar_var(t) ==
    /\ pc[t] = "bar_var"
    /\ WriteData(t, var)
    /\ Go(t, "bar_wait")
    /\ UNCHANGED <<reg, lvars>>

\* step = step_.load()
bar_wait(t) ==
    /\ pc[t] = "bar_wait"
    /\ \E i \in Visible(t, step_) :
          Load(t, step_, i, "acquire") /\ Keep(t, Val(step_, i))
    /\ Go(t, "bar_arrive")
    /\ UNCHANGED lvars

\* The barrier opens one thread too early.
bar_arrive_Early(t) ==
    /\ pc[t] = "bar_arrive"
    /\ \E i \in Visible(t, nwait_) :
          /\ RMW(t, nwait_, i, Val(nwait_, i) + 1, "acq_rel")
          /\ Go(t, IF Val(nwait_, i) + 1 >= n_ - 1 THEN "bar_reset" ELSE "bar_spin")
    /\ round' = [round EXCEPT ![t] = 1]
    /\ UNCHANGED <<reg, scen, weak>>

\* nwait_.fetch_add(1) == n_ - 1
bar_arrive(t) ==
    /\ pc[t] = "bar_arrive"
    /\ \E i \in Visible(t, nwait_) :
          /\ RMW(t, nwait_, i, Val(nwait_, i) + 1, "acq_rel")
          /\ Go(t, IF Val(nwait_, i) = n_ - 1 THEN "bar_reset" ELSE "bar_spin")
    /\ round' = [round EXCEPT ![t] = 1]
    /\ UNCHANGED <<reg, scen, weak>>

\* nwait_.store(0)
bar_reset(t) ==
    /\ pc[t] = "bar_reset"
    /\ Store(t, nwait_, 0, "release")
    /\ Go(t, "bar_open")
    /\ UNCHANGED <<reg, lvars>>

\* step_.fetch_add(1, relaxed)
bar_open(t) ==
    /\ pc[t] = "bar_open"
    /\ \E i \in Visible(t, step_) :
          RMW(t, step_, i, Val(step_, i) + 1, "relaxed")
    /\ Go(t, "bar_after")
    /\ UNCHANGED <<reg, lvars>>

\* while (step_.load() == step)
bar_spin(t) ==
    /\ pc[t] = "bar_spin"
    /\ \E i \in Visible(t, step_) :
          /\ Load(t, step_, i, "acquire")
          /\ IF Val(step_, i) = reg[t]
             THEN UNCHANGED <<pc, weak>>
             ELSE Go(t, "bar_after") /\ Entered("relaxed")
    /\ UNCHANGED <<reg, scen, round>>

bar_after(t) ==
    /\ pc[t] = "bar_after"
    /\ IF t = "A" THEN UNCHANGED memvars ELSE ReadData(t, var)
    /\ Go(t, "done")
    /\ UNCHANGED <<reg, lvars>>

BarrierStep(t) ==
    \/ bar_var(t) \/ bar_wait(t) \/ bar_arrive(t) \/ bar_reset(t) \/ bar_open(t)
    \/ bar_spin(t) \/ bar_after(t)

=============================================================================
