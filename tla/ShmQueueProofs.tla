--------------------------- MODULE ShmQueueProofs ---------------------------
(***************************************************************************)
(* The slots of mabain's shared-memory queue: one thread at a time in each *)
(* of them, and every published entry kept until it is taken, for any      *)
(* number of readers, slots, crashes and indexes, when a living thread     *)
(* holds a mutex for less than the writer's timeout (Prompt).              *)
(***************************************************************************)
EXTENDS ShmQueue, FiniteSetTheorems, TLAPS

Entries == [owner : Threads \cup {NoThread}, in_use : BOOLEAN,
            type : {"NONE", "UPDATE", "BACKUP", "RC"},
            key : Threads \cup {NoThread}, data : Threads \cup {NoThread}]

Calling == {"acquire", "wait", "fill", "prepare", "unlock"}

\* What the variables hold.  The writer neither waits for a caller nor dies.
ShmType ==
    /\ scen \in Scenarios
    /\ queue_index \in Nat /\ writer_index \in Nat
    /\ node \in [Slots -> Entries]
    /\ pc \in [Threads -> Calling \cup {"idle", "dead", "lock", "cond", "scan", "process",
                                        "collect", "task", "taskrun", "stopped"}]
    /\ pc[Writer] \notin {"idle", "dead"}
    /\ at \in [Threads -> Slots]
    /\ kind \in [Threads -> {"UPDATE", "BACKUP", "RC"}]
    /\ scan \in [w : Nat, q : Nat, cnt : Nat]

\* A slot somebody is filling is not in use, and carries the key already when
\* the data is due; a slot the writer is about to take is in use; an entry in
\* use is whole.
SlotInv ==
    /\ \A t \in Threads : pc[t] \in {"fill", "prepare"} => ~node[at[t]].in_use
    /\ \A t \in Threads : pc[t] = "prepare" => node[at[t]].key = t
    /\ pc[Writer] \in {"process", "taskrun"} => node[wslot].in_use
    /\ \A s \in Slots : node[s].in_use => node[s].key \in Threads /\ node[s].data = node[s].key

ShmInv == ShmType /\ SlotExclusive /\ SlotInv

LEMMA IndexFacts ==
    /\ \A n \in Nat : Slot(n) \in Slots /\ Next1(n) \in Nat
    /\ 0 \in Slots
    /\ Writer \in Threads /\ NoThread \notin Threads /\ Writer \notin Readers
    /\ Readers \subseteq Threads
<1>1. async_queue_size \in Nat \ {0} /\ IndexMod \in Nat
  BY ShmAssumption
<1>2. \A n \in Nat : Slot(n) \in Slots
  BY <1>1 DEF Slot, Slots
<1>3. 0 \in Slots
  BY <1>1 DEF Slots
<1>4. IndexMod # 0
  BY ShmAssumption
<1>5. \A n \in Nat : Next1(n) \in Nat
  BY <1>1, <1>4 DEF Next1
<1> QED
  BY <1>2, <1>3, <1>5, ShmAssumption DEF Threads, Writer, NoThread

LEMMA InitInv == ShmInit => ShmInv
  BY IndexFacts, ShmAssumption DEF ShmInit, ShmInv, ShmType, SlotInv, SlotExclusive, Inside, Entries, Empty,
     Calling, NoScan, wslot, Writer

\* What locking or unlocking the mutex of a slot changes.
LEMMA OwnFacts ==
    ASSUME NEW f \in [Slots -> Entries], NEW s \in Slots, NEW u \in Threads \cup {NoThread},
           NEW g, g = [f EXCEPT ![s].owner = u]
    PROVE  /\ g \in [Slots -> Entries]
           /\ \A x \in Slots : g[x].owner = IF x = s THEN u ELSE f[x].owner
           /\ \A x \in Slots : /\ g[x].in_use = f[x].in_use
                               /\ g[x].key = f[x].key /\ g[x].data = f[x].data
  BY DEF Entries

\* What the first half of filling a slot changes.
LEMMA KeyFacts ==
    ASSUME NEW f \in [Slots -> Entries], NEW s \in Slots, NEW u \in Threads,
           NEW g, g = [f EXCEPT ![s].key = u]
    PROVE  /\ g \in [Slots -> Entries]
           /\ \A x \in Slots : g[x].key = IF x = s THEN u ELSE f[x].key
           /\ \A x \in Slots : /\ g[x].owner = f[x].owner /\ g[x].in_use = f[x].in_use
                               /\ g[x].data = f[x].data
  BY DEF Entries

\* A thread takes the mutex of a slot nobody holds.
LEMMA LockedInv ==
    ASSUME ShmInv, NEW t \in Threads, NEW s \in Slots, Free(s), node' = Own(s, t), ShmType',
           \A u \in Threads : u # t => pc'[u] = pc[u],
           \/ pc'[t] = "fill" /\ at[t] = s /\ ~node[s].in_use
           \/ t = Writer /\ wslot = s /\ pc'[t] \in {"scan", "process", "taskrun"}
              /\ (pc'[t] # "scan" => node[s].in_use),
           UNCHANGED <<at, writer_index>>
    PROVE  ShmInv'
<1>1. /\ node \in [Slots -> Entries] /\ at \in [Threads -> Slots]
      /\ wslot \in Slots /\ wslot' = wslot
  BY IndexFacts DEF ShmInv, ShmType, wslot
<1>2. /\ \A x \in Slots : node'[x].owner = IF x = s THEN t ELSE node[x].owner
      /\ \A x \in Slots : /\ node'[x].in_use = node[x].in_use
                          /\ node'[x].key = node[x].key /\ node'[x].data = node[x].data
  BY <1>1, OwnFacts DEF Own
<1>3. \A u \in Threads, x \in Slots : u # t /\ Inside(u, x)' => Inside(u, x)
  BY <1>1 DEF Inside
<1>4. \A u \in Threads : u # t => ~Inside(u, s)
  BY IndexFacts DEF ShmInv, SlotExclusive, Free
<1>5. \A x \in Slots : Inside(t, x)' => x = s
  BY <1>1 DEF Inside
<1>6. SlotExclusive'
  BY <1>2, <1>3, <1>4, <1>5 DEF ShmInv, SlotExclusive
<1>7. SlotInv'
  <2>1. \A u \in Threads : pc'[u] \in {"fill", "prepare"} => ~node[at[u]].in_use
    BY <1>1 DEF ShmInv, SlotInv
  <2>2. \A u \in Threads : pc'[u] = "prepare" => node[at[u]].key = u
    BY <1>1 DEF ShmInv, SlotInv
  <2>3. pc'[Writer] \in {"process", "taskrun"} => node[wslot].in_use
    BY IndexFacts DEF ShmInv, SlotInv
  <2>4. \A x \in Slots : node[x].in_use => node[x].key \in Threads /\ node[x].data = node[x].key
    BY DEF ShmInv, SlotInv
  <2> QED
    BY <1>1, <1>2, <2>1, <2>2, <2>3, <2>4 DEF SlotInv
<1> QED
  BY <1>6, <1>7 DEF ShmInv

\* A thread leaves its slot, or never was in one; the mutex of slot s is
\* released if only that thread or nobody was in it.
LEMMA LeftInv ==
    ASSUME ShmInv, ShmType', NEW t \in Threads,
           \/ node' = node
           \/ \E s \in Slots : /\ node' = Own(s, NoThread)
                             /\ \A u \in Threads : Inside(u, s) => u = t,
           \A u \in Threads : u # t => pc'[u] = pc[u] /\ at'[u] = at[u],
           pc'[t] \notin {"fill", "prepare", "unlock", "scan", "process", "taskrun"},
           t = Writer \/ writer_index' = writer_index
    PROVE  ShmInv'
<1>1. /\ node \in [Slots -> Entries] /\ at \in [Threads -> Slots] /\ wslot \in Slots
      /\ t # Writer => wslot' = wslot
  BY IndexFacts DEF ShmInv, ShmType, wslot
<1>2. \A x \in Slots : /\ node'[x].in_use = node[x].in_use
                       /\ node'[x].key = node[x].key /\ node'[x].data = node[x].data
  <2>1. CASE node' = node
    BY <2>1
  <2>2. ASSUME NEW s \in Slots, node' = Own(s, NoThread)
        PROVE  \A x \in Slots : /\ node'[x].in_use = node[x].in_use
                                /\ node'[x].key = node[x].key /\ node'[x].data = node[x].data
    BY <1>1, <2>2, OwnFacts DEF Own
  <2> QED
    BY <2>1, <2>2
<1>3. \A u \in Threads, x \in Slots : Inside(u, x)' => u # t /\ Inside(u, x)
  BY <1>1 DEF Inside
<1>4. \A u \in Threads, x \in Slots : Inside(u, x) /\ u # t => node'[x].owner = node[x].owner
  BY <1>1, OwnFacts DEF Own
<1>5. SlotExclusive'
  BY <1>3, <1>4 DEF ShmInv, SlotExclusive
<1>6. SlotInv'
  BY <1>1, <1>2, IndexFacts DEF ShmInv, SlotInv
<1> QED
  BY <1>5, <1>6 DEF ShmInv

\* The steps of a call, by a reader or by the writer.
LEMMA HandoverInv ==
    ASSUME ShmInv, NEW t \in Threads, Handover(t)
    PROVE  ShmInv'
<1>0. /\ ShmType /\ at[t] \in Slots /\ kind[t] \in {"UPDATE", "BACKUP", "RC"}
      /\ node \in [Slots -> Entries]
  BY DEF ShmInv, ShmType
<1>1. ASSUME Return(t), UNCHANGED <<node, queue_index, owed, writervars>> PROVE ShmInv'
  <2>1. ShmType'
    BY <1>0, <1>1, IndexFacts DEF ShmType, Return, Leave, Go, Calling, writervars
  <2> QED
    BY <1>0, <1>1, <2>1, LeftInv DEF ShmType, Return, Leave, Go, writervars
<1>2. ASSUME EnterSlot(t), Free(at[t]), UNCHANGED <<queue_index, owed, writervars>> PROVE ShmInv'
  <2>1. CASE node[at[t]].in_use
    <3>1. ShmType'
      BY <1>0, <1>2, <2>1, IndexFacts DEF ShmType, EnterSlot, Go, Calling, writervars
    <3> QED
      BY <1>0, <1>2, <2>1, <3>1, LeftInv DEF ShmType, EnterSlot, Go, writervars
  <2>2. CASE ~node[at[t]].in_use
    <3>1. node' = Own(at[t], t) /\ pc' = [pc EXCEPT ![t] = "fill"]
          /\ UNCHANGED <<at, kind, writer_index, queue_index, scen, scan>>
      BY <1>2, <2>2 DEF EnterSlot, Go, writervars
    <3>2. node' \in [Slots -> Entries]
      BY <1>0, <3>1, OwnFacts DEF ShmType, Own
    <3>3. ShmType'
      BY <1>0, <3>1, <3>2, IndexFacts DEF ShmType, Calling
    <3> QED
      BY <1>0, <1>2, <2>2, <3>1, <3>3, LockedInv DEF ShmType
  <2> QED
    BY <2>1, <2>2
<1>3. CASE SHMQ_AcquireSlot(t) \/ SlotWait(t)
  BY <1>1, <1>2, <1>3 DEF SHMQ_AcquireSlot, SlotWait
<1>4. CASE Fill(t)
  <2>1. /\ node' = [node EXCEPT ![at[t]].key = t] /\ pc' = [pc EXCEPT ![t] = "prepare"]
        /\ pc[t] = "fill"
        /\ UNCHANGED <<at, kind, writer_index, queue_index, scen, scan, wslot>>
    BY <1>4 DEF Fill, Go, writervars, wslot
  <2>2. /\ node' \in [Slots -> Entries]
        /\ \A x \in Slots : /\ node'[x].owner = node[x].owner
                            /\ node'[x].in_use = node[x].in_use
                            /\ node'[x].key = IF x = at[t] THEN t ELSE node[x].key
                            /\ node'[x].data = node[x].data
    BY ONLY <1>0, <2>1, t \in Threads, KeyFacts
  <2>3. ShmType'
    BY <1>0, <2>1, <2>2, IndexFacts DEF ShmType, Calling
  <2>4. SlotExclusive'
    BY <1>0, <2>1, <2>2 DEF ShmInv, ShmType, SlotExclusive, Inside
  <2>5. SlotInv'
    BY <1>0, <2>1, <2>2, IndexFacts DEF ShmInv, ShmType, SlotInv, wslot, SlotExclusive, Inside
  <2> QED
    BY <2>3, <2>4, <2>5 DEF ShmInv
<1>5. CASE SHMQ_PrepareSlot(t)
  <2>1. /\ node' = [node EXCEPT ![at[t]].data = t, ![at[t]].type = kind[t], ![at[t]].in_use = TRUE]
        /\ pc' = [pc EXCEPT ![t] = "unlock"] /\ pc[t] = "prepare"
        /\ UNCHANGED <<at, kind, writer_index, queue_index, scen, scan, wslot>>
    BY <1>5 DEF SHMQ_PrepareSlot, Go, writervars, wslot
  <2>2. /\ node' \in [Slots -> Entries]
        /\ node'[at[t]].in_use /\ node'[at[t]].data = t
        /\ node'[at[t]].owner = node[at[t]].owner /\ node'[at[t]].key = node[at[t]].key
        /\ \A x \in Slots : x # at[t] => node'[x] = node[x]
    <3> DEFINE d == node[at[t]]
               e == [d EXCEPT !.data = t, !.type = kind[t], !.in_use = TRUE]
    <3>1. /\ e \in Entries
          /\ e.in_use /\ e.data = t /\ e.owner = d.owner /\ e.key = d.key
      <4>1. d \in Entries
        BY <1>0
      <4> HIDE DEF d
      <4> QED
        BY ONLY <1>0, <4>1, t \in Threads DEF Entries
    <3>2. node' = [node EXCEPT ![at[t]] = e]
      BY <2>1, Zenon
    <3> HIDE DEF e
    <3>3. /\ node' \in [Slots -> Entries] /\ node'[at[t]] = e
          /\ \A x \in Slots : x # at[t] => node'[x] = node[x]
      BY ONLY <1>0, <3>1, <3>2
    <3> QED
      BY ONLY <3>1, <3>3, Zenon
  <2>3. ShmType'
    BY <1>0, <2>1, <2>2, IndexFacts DEF ShmType, Calling
  <2>4. SlotExclusive'
    BY <1>0, <2>1, <2>2 DEF ShmInv, ShmType, SlotExclusive, Inside
  <2>5. SlotInv'
    BY <1>0, <2>1, <2>2, IndexFacts DEF ShmInv, ShmType, SlotInv, wslot, SlotExclusive, Inside
  <2> QED
    BY <2>3, <2>4, <2>5 DEF ShmInv
<1>6. CASE Unlock(t)
  <2>1. /\ node' = Own(at[t], NoThread) /\ pc[t] = "unlock" /\ Return(t)
        /\ UNCHANGED <<writer_index, queue_index, scen, scan>>
    BY <1>6 DEF Unlock, writervars
  <2>2. node' \in [Slots -> Entries]
    BY <1>0, <2>1, OwnFacts DEF ShmType, Own
  <2>3. ShmType'
    BY <1>0, <2>1, <2>2, IndexFacts DEF ShmType, Calling, Return, Leave, Go
  <2>4. \A u \in Threads : Inside(u, at[t]) => u = t
    BY <1>0, <2>1, IndexFacts DEF ShmInv, SlotExclusive, Inside
  <2>5. /\ \A u \in Threads : u # t => pc'[u] = pc[u] /\ at'[u] = at[u]
        /\ pc'[t] \in {"lock", "idle"}
    BY <1>0, <2>1 DEF ShmType, Return, Leave, Go
  <2> QED
    BY <1>0, <2>1, <2>3, <2>4, <2>5, LeftInv
<1> QED
  BY <1>3, <1>4, <1>5, <1>6 DEF Handover

\* The writer takes the entry of its slot.
LEMMA TakenInv ==
    ASSUME ShmInv, Take, pc[Writer] \in {"process", "taskrun"},
           NEW l \in {"collect", "lock", "task"}, pc' = [pc EXCEPT ![Writer] = l],
           UNCHANGED <<scen, queue_index, at, kind, scan>>
    PROVE  ShmInv'
<1>1. /\ node \in [Slots -> Entries] /\ at \in [Threads -> Slots] /\ wslot \in Slots
      /\ ShmType /\ writer_index' \in Nat
  BY IndexFacts DEF ShmInv, ShmType, wslot, Take
<1>2. node' = [node EXCEPT ![wslot] = Empty] /\ Empty \in Entries
      /\ ~Empty.in_use
  BY DEF Take, Empty, Entries
<1>3. /\ node' \in [Slots -> Entries] /\ node'[wslot] = Empty
      /\ \A x \in Slots : x # wslot => node'[x] = node[x]
  BY <1>1, <1>2
<1>4. ShmType'
  BY <1>1, <1>3, IndexFacts DEF ShmType, Calling
<1>5. \A u \in Threads : Inside(u, wslot) => u = Writer
  BY <1>1, IndexFacts DEF ShmInv, SlotExclusive, Inside
<1>6. \A u \in Threads, x \in Slots : Inside(u, x)' => Inside(u, x) /\ u # Writer
  BY <1>1 DEF Inside, ShmType
<1>7. SlotExclusive'
  BY <1>3, <1>5, <1>6 DEF ShmInv, SlotExclusive
<1>8. \A u \in Threads : pc'[u] \in {"fill", "prepare"} =>
         u # Writer /\ pc[u] = pc'[u] /\ Inside(u, at[u]) /\ at[u] # wslot
  BY <1>1, <1>5 DEF Inside, ShmType
<1>9. SlotInv'
  <2>1. \A u \in Threads : pc'[u] \in {"fill", "prepare"} => ~node'[at[u]].in_use
    BY <1>1, <1>3, <1>8 DEF ShmInv, SlotInv
  <2>2. \A u \in Threads : pc'[u] = "prepare" => node'[at[u]].key = u
    BY <1>1, <1>3, <1>8 DEF ShmInv, SlotInv
  <2>3. pc'[Writer] = l
    BY <1>1, IndexFacts DEF ShmType
  <2>4. \A x \in Slots : node'[x].in_use => node'[x].key \in Threads /\ node'[x].data = node'[x].key
    BY <1>2, <1>3 DEF ShmInv, SlotInv
  <2> QED
    BY <2>1, <2>2, <2>3, <2>4 DEF SlotInv
<1> QED
  BY <1>4, <1>7, <1>9 DEF ShmInv

\* A mutex whose owner is dead has nobody in its slot.
LEMMA NobodyInside ==
    ASSUME Prompt, ShmInv, TimedOut(wslot)
    PROVE  /\ \A u \in Threads : ~Inside(u, wslot)
           /\ node' = Own(wslot, NoThread) => node' \in [Slots -> Entries]
<1>1. wslot \in Slots /\ node \in [Slots -> Entries]
  BY IndexFacts DEF ShmInv, ShmType, wslot
<1>2. \A u \in Threads : Inside(u, wslot) => pc[u] = "dead"
  BY <1>1, Prompt DEF ShmInv, SlotExclusive, TimedOut
<1>3. \A u \in Threads : ~Inside(u, wslot)
  BY <1>2 DEF Inside
<1> QED
  BY <1>1, <1>3, OwnFacts DEF Own

LEMMA WriterInv ==
    ASSUME Prompt, ShmInv, WriterStep
    PROVE  ShmInv'
<1>0. /\ ShmType /\ wslot \in Slots /\ node \in [Slots -> Entries] /\ Writer \in Threads
      /\ pc \in [Threads -> Calling \cup {"idle", "dead", "lock", "cond", "scan", "process",
                                          "collect", "task", "taskrun", "stopped"}]
  BY IndexFacts DEF ShmInv, ShmType, wslot
<1>1. ASSUME NEW l \in {"lock", "cond", "collect", "task", "stopped"},
             pc' = [pc EXCEPT ![Writer] = l],
             UNCHANGED <<scen, queue_index, node, at, kind, writer_index>>,
             scan' \in [w : Nat, q : Nat, cnt : Nat]
      PROVE  ShmInv'
  <2>1. ShmType'
    BY <1>0, <1>1 DEF ShmType
  <2> QED
    BY <1>0, <1>1, <2>1, LeftInv
<1>2. ASSUME NEW l \in {"scan", "process", "taskrun"},
             pc' = [pc EXCEPT ![Writer] = l], node' = Own(wslot, Writer),
             Free(wslot), l # "scan" => node[wslot].in_use,
             UNCHANGED <<scen, queue_index, at, kind, writer_index>>,
             scan' \in [w : Nat, q : Nat, cnt : Nat]
      PROVE  ShmInv'
  <2>1. node' \in [Slots -> Entries]
    BY <1>0, <1>2, OwnFacts DEF Own
  <2>2. ShmType'
    BY <1>0, <1>2, <2>1 DEF ShmType
  <2> QED
    BY <1>0, <1>2, <2>2, LockedInv
<1>3. ASSUME NEW l \in {"lock", "collect", "stopped"},
             pc' = [pc EXCEPT ![Writer] = l], node' = Own(wslot, NoThread),
             \A u \in Threads : Inside(u, wslot) => u = Writer,
             UNCHANGED <<scen, queue_index, at, kind>>, writer_index' \in Nat,
             scan' \in [w : Nat, q : Nat, cnt : Nat]
      PROVE  ShmInv'
  <2>1. node' \in [Slots -> Entries]
    BY <1>0, <1>3, OwnFacts DEF Own
  <2>2. ShmType'
    BY <1>0, <1>3, <2>1 DEF ShmType
  <2> QED
    BY <1>0, <1>3, <2>2, LeftInv
<1>4. ASSUME Inspect("process"), Free(wslot), UNCHANGED <<callvars, scan, writer_index>>
      PROVE  ShmInv'
  BY <1>0, <1>1, <1>2, <1>4 DEF Inspect, Go, callvars, ShmType
<1>5. CASE WriterLock
  BY <1>4, <1>5 DEF WriterLock, writervars
<1>6. CASE WriterLockTimeout
  <2>1. pc' = [pc EXCEPT ![Writer] = "lock"]
    BY <1>0, <1>6 DEF WriterLockTimeout
  <2> QED
    BY <1>0, <1>3, <1>6, <2>1, NobodyInside, IndexFacts, Prompt DEF WriterLockTimeout, callvars, ShmType
<1>7. CASE WriterWake
  BY <1>0, <1>2, <1>4, <1>7 DEF WriterWake, Go, callvars, ShmType
<1>8. CASE NextShmSlot
  <2>1. CASE ScanEnds
    <3>1. \A u \in Threads : Inside(u, wslot) => u = Writer
      BY <1>0, <1>8, IndexFacts DEF NextShmSlot, ShmInv, SlotExclusive, Inside
    <3> QED
      BY <1>0, <1>3, <1>8, <2>1, <3>1 DEF NextShmSlot, ScanResult, NoScan, Go, callvars, ShmType
  <2>2. CASE ~ScanEnds
    <3>1. /\ scan' = [scan EXCEPT !.w = Next1(@), !.cnt = @ + 1]
          /\ UNCHANGED <<scen, queue_index, node, pc, at, kind, writer_index>>
      BY <1>8, <2>2 DEF NextShmSlot, callvars
    <3>2. scan' \in [w : Nat, q : Nat, cnt : Nat]
      <4>1. scan \in [w : Nat, q : Nat, cnt : Nat]
        BY <1>0 DEF ShmType
      <4>2. Next1(scan.w) \in Nat /\ scan.cnt + 1 \in Nat
        BY <4>1, IndexFacts
      <4> QED
        BY ONLY <3>1, <4>1, <4>2
    <3>3. ShmType'
      BY <1>0, <3>1, <3>2 DEF ShmType
    <3> QED
      BY <3>1, <3>3 DEF ShmInv, SlotExclusive, SlotInv, Inside, wslot
  <2> QED
    BY <2>1, <2>2
<1>9. CASE Process
  BY <1>9, TakenInv DEF Process, Go, callvars
<1>10. CASE Collect
  <2>1. CASE Draw(Writer, "BACKUP")
    <3>1. ShmType'
      BY <1>0, <1>10, <2>1, IndexFacts DEF Collect, Draw, Go, Calling, ShmType
    <3> QED
      BY <1>0, <1>10, <2>1, <3>1, LeftInv DEF Collect, Draw, Go, ShmType
  <2>2. CASE ~Draw(Writer, "BACKUP")
    BY <1>0, <1>1, <1>10, <2>2 DEF Collect, Go, ShmType
  <2> QED
    BY <2>1, <2>2
<1>11. CASE TaskLock
  BY <1>0, <1>1, <1>2, <1>3, <1>11, NobodyInside, Prompt DEF TaskLock, Go, callvars, writervars, ShmType
<1>12. CASE TaskRun
  BY <1>12, TakenInv DEF TaskRun, Go, callvars
<1> QED
  BY <1>0, <1>5, <1>6, <1>7, <1>8, <1>9, <1>10, <1>11, <1>12, HandoverInv DEF WriterStep

LEMMA OtherInv ==
    ASSUME ShmInv,
           \/ \E r \in Readers : Call(r) \/ Crash(r)
           \/ StopAsyncThread \/ Reopen
    PROVE  ShmInv'
<1>0. ShmType
  BY DEF ShmInv
<1>1. ASSUME NEW r \in Readers, Call(r) PROVE ShmInv'
  <2>1. ShmType'
    BY <1>0, <1>1, IndexFacts, ShmAssumption DEF Call, Draw, Go, Calling, ShmType, writervars
  <2> QED
    BY <1>0, <1>1, <2>1, LeftInv, IndexFacts DEF Call, Draw, Go, ShmType, writervars
<1>2. ASSUME NEW r \in Readers, Crash(r) PROVE ShmInv'
  <2>1. ShmType'
    BY <1>0, <1>2, IndexFacts DEF Crash, Leave, Go, Calling, ShmType, writervars
  <2> QED
    BY <1>0, <1>2, <2>1, LeftInv, IndexFacts DEF Crash, Leave, Go, ShmType, writervars
<1>3. CASE StopAsyncThread
  BY <1>3 DEF StopAsyncThread, callvars, ShmInv, ShmType, SlotExclusive, SlotInv, Inside, wslot
<1>4. CASE Reopen
  <2>1. ShmType'
    BY <1>0, <1>4, IndexFacts DEF Reopen, Go, callvars, ShmType
  <2> QED
    BY <1>0, <1>4, <2>1, LeftInv, IndexFacts DEF Reopen, Go, callvars, ShmType
<1> QED
  BY <1>1, <1>2, <1>3, <1>4

\* The inductive invariant of the queue.
THEOREM ShmInvariant == ASSUME Prompt PROVE ShmSpec => []ShmInv
<1>1. ShmInv /\ [ShmNext]_vars => ShmInv'
  <2>1. CASE UNCHANGED vars
    BY <2>1 DEF vars, ShmInv, ShmType, SlotExclusive, SlotInv, Inside, wslot
  <2> QED
    BY <2>1, WriterInv, HandoverInv, OtherInv, IndexFacts, Prompt DEF ShmNext
<1> QED
  BY InitInv, <1>1, PTL DEF ShmSpec

\* A slot is filled or emptied only by the holder of its mutex: neither a dead
\* reader's mutex that the writer initializes, nor a skipped index, nor a
\* collection that takes entries on the way lets two threads into one slot.
THEOREM SlotsExclusive == ASSUME Prompt PROVE ShmSpec => []SlotExclusive
<1>1. ShmInv => SlotExclusive
  BY DEF ShmInv
<1> QED
  BY <1>1, ShmInvariant, Prompt, PTL

-----------------------------------------------------------------------------
\* The entries of thread t that wait to be taken.
Published(t) == {s \in Slots : node[s].in_use /\ node[s].key = t /\ node[s].data = t}

KeptInv ==
    /\ owed \in [Threads -> Nat]
    /\ \A t \in Threads : owed[t] = Cardinality(Published(t))

LEMMA PublishedFinite ==
    ASSUME NEW S \in SUBSET Slots
    PROVE  IsFiniteSet(S) /\ Cardinality(S) \in Nat
<1>1. IsFiniteSet(Slots)
  BY ShmAssumption, FS_Interval DEF Slots
<1> QED
  BY <1>1, FS_Subset, FS_CardinalityType

LEMMA OneMoreOrLess ==
    ASSUME NEW S \in SUBSET Slots, NEW x \in Slots
    PROVE  /\ x \notin S => Cardinality(S \cup {x}) = Cardinality(S) + 1
           /\ x \in S => Cardinality(S \ {x}) = Cardinality(S) - 1
  BY PublishedFinite, FS_AddElement, FS_RemoveElement

\* Steps that touch mutexes only.
LEMMA KeptSame ==
    ASSUME KeptInv, node \in [Slots -> Entries], owed' = owed,
           \/ node' = node
           \/ \E s \in Slots, u \in Threads \cup {NoThread} : node' = Own(s, u)
    PROVE  KeptInv'
<1>1. \A x \in Slots : /\ node'[x].in_use = node[x].in_use
                       /\ node'[x].key = node[x].key /\ node'[x].data = node[x].data
  <2>1. ASSUME NEW s \in Slots, NEW u \in Threads \cup {NoThread}, node' = Own(s, u)
        PROVE  \A x \in Slots : /\ node'[x].in_use = node[x].in_use
                                /\ node'[x].key = node[x].key /\ node'[x].data = node[x].data
    BY <2>1, OwnFacts DEF Own
  <2> QED
    BY <2>1
<1>2. \A t \in Threads : Published(t)' = Published(t)
  BY <1>1 DEF Published
<1> QED
  BY <1>2 DEF KeptInv

LEMMA KeptFill ==
    ASSUME ShmInv, KeptInv, NEW t \in Threads, Fill(t)
    PROVE  KeptInv'
<1>1. node \in [Slots -> Entries] /\ at[t] \in Slots /\ ~node[at[t]].in_use
  BY DEF ShmInv, ShmType, SlotInv, Fill
<1>2. node' = [node EXCEPT ![at[t]].key = t] /\ owed' = owed
  BY DEF Fill
<1>3. /\ \A x \in Slots : node'[x].in_use = node[x].in_use /\ node'[x].data = node[x].data
      /\ \A x \in Slots : x # at[t] => node'[x].key = node[x].key
  BY ONLY <1>1, <1>2, t \in Threads, KeyFacts
<1>4. \A u \in Threads : Published(u)' = Published(u)
  BY <1>1, <1>3 DEF Published
<1> QED
  BY <1>2, <1>4 DEF KeptInv

\* An entry is published in a slot that was not in use.
LEMMA KeptPrepare ==
    ASSUME ShmInv, KeptInv, NEW t \in Threads, SHMQ_PrepareSlot(t)
    PROVE  KeptInv'
<1>1. /\ node \in [Slots -> Entries] /\ at[t] \in Slots
      /\ ~node[at[t]].in_use /\ node[at[t]].key = t
  BY DEF ShmInv, ShmType, SlotInv, SHMQ_PrepareSlot
<1>2. /\ node' = [node EXCEPT ![at[t]].data = t, ![at[t]].type = kind[t], ![at[t]].in_use = TRUE]
      /\ owed' = [owed EXCEPT ![t] = @ + 1]
  BY DEF SHMQ_PrepareSlot
<1> DEFINE e == [node[at[t]] EXCEPT !.data = t, !.type = kind[t], !.in_use = TRUE]
<1>3. e.in_use /\ e.data = t /\ e.key = t
  <2> DEFINE d == node[at[t]]
  <2>1. d \in Entries /\ d.key = t
    BY <1>1
  <2>2. e = [d EXCEPT !.data = t, !.type = kind[t], !.in_use = TRUE]
    OBVIOUS
  <2> HIDE DEF d, e
  <2> QED
    BY ONLY <2>1, <2>2 DEF Entries
<1>4. node' = [node EXCEPT ![at[t]] = e]
  BY <1>2, Zenon
<1> HIDE DEF e
<1>5. node'[at[t]] = e /\ \A x \in Slots : x # at[t] => node'[x] = node[x]
  BY <1>1, <1>4
<1>6. \A u \in Threads : u # t => Published(u)' = Published(u)
  BY <1>1, <1>3, <1>5 DEF Published
<1>7. Published(t)' = Published(t) \cup {at[t]} /\ at[t] \notin Published(t)
  BY <1>1, <1>3, <1>5 DEF Published
<1>8. Cardinality(Published(t)') = Cardinality(Published(t)) + 1
  <2>1. Published(t) \in SUBSET Slots
    BY DEF Published
  <2> QED
    BY <1>1, <1>7, <2>1, OneMoreOrLess
<1>9. \A u \in Threads : owed'[u] = Cardinality(Published(u)')
  BY <1>2, <1>6, <1>8 DEF KeptInv
<1> QED
  BY <1>2, <1>9 DEF KeptInv

\* An entry that is taken leaves the account of the one thread it came from.
LEMMA KeptTake ==
    ASSUME ShmInv, KeptInv, Take, pc[Writer] \in {"process", "taskrun"}
    PROVE  KeptInv'
<1>0. PICK t \in Threads : t = node[wslot].key
  BY IndexFacts DEF ShmInv, ShmType, SlotInv, wslot
<1>1. /\ node \in [Slots -> Entries] /\ wslot \in Slots
      /\ node[wslot].in_use /\ node[wslot].key = t /\ node[wslot].data = t
  BY <1>0, IndexFacts DEF ShmInv, ShmType, SlotInv, wslot
<1>2. /\ node' = [node EXCEPT ![wslot] = Empty] /\ ~Empty.in_use
      /\ owed' = [u \in Threads |-> IF u = t THEN owed[u] - 1 ELSE owed[u]]
  BY <1>1 DEF Take, Empty
<1>3. node'[wslot] = Empty /\ \A x \in Slots : x # wslot => node'[x] = node[x]
  BY <1>1, <1>2
<1>4. \A u \in Threads : u # t => Published(u)' = Published(u)
  BY <1>1, <1>2, <1>3 DEF Published
<1>5. Published(t)' = Published(t) \ {wslot} /\ wslot \in Published(t)
  BY <1>1, <1>2, <1>3 DEF Published
<1>6. /\ Cardinality(Published(t)') = Cardinality(Published(t)) - 1
      /\ Cardinality(Published(t)') \in Nat
  <2>1. Published(t) \in SUBSET Slots /\ Published(t)' \in SUBSET Slots
    BY DEF Published
  <2> QED
    BY <1>1, <1>5, <2>1, OneMoreOrLess, PublishedFinite
<1>7. \A u \in Threads : owed'[u] = Cardinality(Published(u)')
  BY <1>2, <1>4, <1>6 DEF KeptInv
<1>8. \A u \in Threads : owed'[u] \in Nat
  BY <1>2, <1>4, <1>6, <1>7 DEF KeptInv
<1> QED
  BY <1>2, <1>7, <1>8 DEF KeptInv

LEMMA KeptStep ==
    ASSUME ShmInv, KeptInv, [ShmNext]_vars
    PROVE  KeptInv'
<1>0. /\ node \in [Slots -> Entries] /\ wslot \in Slots /\ Writer \in Threads
      /\ \A t \in Threads : at[t] \in Slots
      /\ Readers \subseteq Threads
  BY IndexFacts DEF ShmInv, ShmType, wslot
<1>1. ASSUME NEW t \in Threads, Handover(t) PROVE KeptInv'
  <2>1. CASE SHMQ_AcquireSlot(t) \/ SlotWait(t) \/ Unlock(t)
    BY <1>0, <2>1, KeptSame DEF SHMQ_AcquireSlot, SlotWait, Unlock, EnterSlot
  <2> QED
    BY <1>1, <2>1, KeptFill, KeptPrepare DEF Handover
<1>2. CASE \/ WriterLock \/ WriterLockTimeout \/ WriterWake \/ NextShmSlot \/ Collect \/ TaskLock
  BY <1>0, <1>2, KeptSame DEF WriterLock, WriterLockTimeout, WriterWake, NextShmSlot, Collect,
     TaskLock, Inspect
<1>3. CASE Process \/ TaskRun
  BY <1>3, KeptTake DEF Process, TaskRun
<1>4. CASE \/ \E r \in Readers : Call(r) \/ Crash(r)
           \/ StopAsyncThread \/ Reopen \/ UNCHANGED vars
  BY <1>0, <1>4, KeptSame DEF Call, Crash, StopAsyncThread, Reopen, vars
<1> QED
  BY <1>0, <1>1, <1>2, <1>3, <1>4 DEF ShmNext, WriterStep

\* Every entry a thread publishes is taken once, and whole: no reader that
\* waited writes over it, no index that goes round reaches a slot twice, and
\* no death between the steps of SHMQ_PrepareSlot leaves half an entry in use.
THEOREM EntriesNotLost == ASSUME Prompt PROVE ShmSpec => []EntriesKept
<1>1. ShmInit => KeptInv
  <2> SUFFICES ASSUME ShmInit PROVE KeptInv
    OBVIOUS
  <2>1. \A t \in Threads : Published(t) = {}
    BY DEF ShmInit, Published, Empty
  <2> QED
    BY <2>1, FS_EmptySet DEF ShmInit, KeptInv
<1>2. ShmInv /\ KeptInv /\ [ShmNext]_vars => KeptInv'
  BY KeptStep
<1>3. KeptInv => EntriesKept
  BY DEF KeptInv, Published, EntriesKept
<1> QED
  BY <1>1, <1>2, <1>3, ShmInvariant, Prompt, PTL DEF ShmSpec
=============================================================================
