---------------------------- MODULE LinuxRwLocks ----------------------------
(***************************************************************************)
(* linuxrwlocks/linuxrwlocks.cc: a thread of the test program a() reads    *)
(* under the read lock and then writes under the write lock; a third one,  *)
(* "C", uses the trylock operations instead and skips the section          *)
(* when they fail.                                                         *)
(***************************************************************************)
EXTENDS CdsThreads

RW_LOCK_BIAS == 1048576
lock == Obj("lock")
shareddata == Obj("shareddata")

RwObjects == [l \in {lock, shareddata} |-> IF l = lock THEN RW_LOCK_BIAS ELSE 0]

\* The first operation of each thread is for reading, the second for writing.
Amount(t) == IF round[t] = 0 THEN 1 ELSE RW_LOCK_BIAS
Free(t, v) == IF round[t] = 0 THEN v > 0 ELSE v = RW_LOCK_BIAS

\* priorvalue = fetch_sub(amount): acquire at first, relaxed in the loop
rw_lock(t, at, order) ==
    /\ pc[t] = at
    /\ \E i \in Visible(t, lock) :
          /\ RMW(t, lock, i, Val(lock, i) - Amount(t), order)
          /\ IF Free(t, Val(lock, i))
             THEN Go(t, "rw_section") /\ Entered(order)
             ELSE Go(t, "rw_undo") /\ UNCHANGED weak
    /\ UNCHANGED <<reg, scen, round>>

AfterRw(t) ==
    /\ round' = [round EXCEPT ![t] = @ + 1]
    /\ Go(t, IF round[t] = 0 THEN "rw_lock" ELSE "done")

\* fetch_add(amount, relaxed) after a failure
rw_undo(t) ==
    /\ pc[t] = "rw_undo"
    /\ \E i \in Visible(t, lock) :
          RMW(t, lock, i, Val(lock, i) + Amount(t), "relaxed")
    /\ IF t = "C" THEN AfterRw(t) ELSE Go(t, "rw_spin") /\ UNCHANGED round
    /\ UNCHANGED <<reg, scen, weak>>

\* while (load(relaxed) <= 0), or != RW_LOCK_BIAS
rw_spin(t) ==
    /\ pc[t] = "rw_spin"
    /\ \E i \in Visible(t, lock) :
          /\ Load(t, lock, i, "relaxed")
          /\ IF Free(t, Val(lock, i)) THEN Go(t, "rw_again") ELSE UNCHANGED pc
    /\ UNCHANGED <<reg, lvars>>

rw_section(t) ==
    /\ pc[t] = "rw_section"
    /\ IF round[t] = 0 THEN ReadData(t, shareddata) ELSE WriteData(t, shareddata)
    /\ Go(t, "rw_unlock")
    /\ UNCHANGED <<reg, lvars>>

\* The lock is released by a relaxed operation.
rw_unlock_Relaxed(t) ==
    /\ pc[t] = "rw_unlock"
    /\ \E i \in Visible(t, lock) :
          RMW(t, lock, i, Val(lock, i) + Amount(t), "relaxed")
    /\ AfterRw(t)
    /\ UNCHANGED <<reg, scen, weak>>

\* fetch_add(amount, release)
rw_unlock(t) ==
    /\ pc[t] = "rw_unlock"
    /\ \E i \in Visible(t, lock) :
          RMW(t, lock, i, Val(lock, i) + Amount(t), "release")
    /\ AfterRw(t)
    /\ UNCHANGED <<reg, scen, weak>>

RwStep(t) ==
    \/ rw_lock(t, "rw_lock", "acquire") \/ rw_undo(t) \/ rw_spin(t)
    \/ rw_lock(t, "rw_again", "relaxed") \/ rw_section(t) \/ rw_unlock(t)

=============================================================================
