------------------------------- MODULE McsLock -------------------------------
(***************************************************************************)
(* mcs-lock/mcs-lock.h with the two threads of mcs-lock.cc, each of which  *)
(* takes the lock twice with the same guard, that is the same node.        *)
(***************************************************************************)
EXTENDS CdsThreads

m_tail == Obj("m_tail")
next(t) == <<"next", t>>
gate(t) == <<"gate", t>>
shared == Obj("shared")

McsObjects(threads) ==
    [l \in {m_tail, shared} \cup ({"next", "gate"} \X threads) |->
        IF l[1] \in {"m_tail", "next"} THEN NULL ELSE 0]

\* me->next.store(NULL); me->gate.store(1)
mcs_setup(t) ==
    \/ /\ pc[t] = "mcs_lock" /\ Store(t, next(t), NULL, "relaxed")
       /\ Go(t, "mcs_gate") /\ UNCHANGED <<reg, lvars>>
    \/ /\ pc[t] = "mcs_gate" /\ Store(t, gate(t), 1, "relaxed")
       /\ Go(t, "mcs_publish") /\ UNCHANGED <<reg, lvars>>

\* pred = m_tail.exchange(me, acq_rel)
mcs_exchange(t) ==
    /\ pc[t] = "mcs_publish"
    /\ \E i \in Visible(t, m_tail) :
          /\ RMW(t, m_tail, i, t, "acq_rel")
          /\ Keep(t, Val(m_tail, i))
          /\ IF Val(m_tail, i) = NULL
             THEN Go(t, "mcs_section") /\ Entered("acquire")
             ELSE Go(t, "mcs_link") /\ UNCHANGED weak
    /\ UNCHANGED <<scen, round>>

\* pred->next.store(me, release)
mcs_link(t) ==
    /\ pc[t] = "mcs_link"
    /\ Store(t, next(reg[t]), t, "release")
    /\ Go(t, "mcs_spin")
    /\ UNCHANGED <<reg, lvars>>

\* while (me->gate.load(relaxed))
mcs_spin(t) ==
    /\ pc[t] = "mcs_spin"
    /\ \E i \in Visible(t, gate(t)) :
          /\ Load(t, gate(t), i, "relaxed")
          /\ IF Val(gate(t), i) = 0
             THEN Go(t, "mcs_section") /\ Entered("relaxed")
             ELSE UNCHANGED <<pc, weak>>
    /\ UNCHANGED <<reg, scen, round>>

\* threadA stores in its first section and loads in its second, threadB the
\* other way round.
mcs_section(t) ==
    /\ pc[t] = "mcs_section"
    /\ IF (t = "A") = (round[t] = 0) THEN WriteData(t, shared) ELSE ReadData(t, shared)
    /\ Go(t, "mcs_unlock")
    /\ UNCHANGED <<reg, lvars>>

AfterMcs(t) ==
    /\ round' = [round EXCEPT ![t] = @ + 1]
    /\ Go(t, IF round[t] = 0 THEN "mcs_lock" ELSE "done")
    /\ Keep(t, NULL)
    /\ UNCHANGED <<scen, weak>>

\* next = me->next.load(acquire)
mcs_unlock(t) ==
    /\ pc[t] = "mcs_unlock"
    /\ \E i \in Visible(t, next(t)) :
          /\ Load(t, next(t), i, "acquire")
          /\ Keep(t, Val(next(t), i))
          /\ Go(t, IF Val(next(t), i) = NULL THEN "mcs_swing" ELSE "mcs_pass")
    /\ UNCHANGED lvars

\* The failed exchange of the tail is taken for a success.
mcs_swing_Weak(t) ==
    /\ pc[t] = "mcs_swing"
    /\ \E i \in Visible(t, m_tail) : RMW(t, m_tail, i, NULL, "acq_rel")
    /\ AfterMcs(t)

\* m_tail.compare_exchange_strong(me, NULL, acq_rel)
mcs_swing(t) ==
    /\ pc[t] = "mcs_swing"
    /\ \E i \in Visible(t, m_tail) :
          \/ /\ Val(m_tail, i) = t
             /\ RMW(t, m_tail, i, NULL, "acq_rel")
             /\ AfterMcs(t)
          \/ /\ Val(m_tail, i) # t
             /\ Load(t, m_tail, i, "acquire")
             /\ Go(t, "mcs_race") /\ UNCHANGED <<reg, lvars>>

\* next = me->next.load(relaxed) until the successor has linked itself.
mcs_race(t) ==
    /\ pc[t] = "mcs_race"
    /\ \E i \in Visible(t, next(t)) :
          /\ Load(t, next(t), i, "relaxed")
          /\ IF Val(next(t), i) = NULL
             THEN UNCHANGED <<pc, reg>>
             ELSE Go(t, "mcs_pass") /\ Keep(t, Val(next(t), i))
    /\ UNCHANGED lvars

\* next->gate.store(0, release)
mcs_pass(t) ==
    /\ pc[t] = "mcs_pass"
    /\ Store(t, gate(reg[t]), 0, "release")
    /\ AfterMcs(t)

McsStep(t) ==
    \/ mcs_setup(t) \/ mcs_exchange(t) \/ mcs_link(t) \/ mcs_spin(t) \/ mcs_section(t)
    \/ mcs_unlock(t) \/ mcs_swing(t) \/ mcs_race(t) \/ mcs_pass(t)

=============================================================================
