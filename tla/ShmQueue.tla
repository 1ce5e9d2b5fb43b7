------------------------------ MODULE ShmQueue ------------------------------
(***************************************************************************)
(* mabain/src/shmq_update.cpp and async_writer.cpp, as the Makefile builds *)
(* them (__SHM_QUEUE__): reader processes hand their updates to the one    *)
(* writer thread through slots in shared memory.  A reader draws an index, *)
(* locks the mutex of that slot, waits until the slot is free, fills it    *)
(* and sets in_use; the writer takes the slots in the order of its own     *)
(* index.  Readers may die at any point, also with a mutex held; mutexes   *)
(* are not robust (util/shm_mutex.cpp:44).                                 *)
(*                                                                         *)
(* Both sides wait with a timeout on the condition variable of the slot,   *)
(* and pthread allows a wait to end for no reason, so a wait may end at    *)
(* any time its mutex is free and signals need no modelling.  What is      *)
(* wanted of the dictionary is abstracted: an entry is an update, a backup *)
(* or a request for a resource collection.  Entries carry, in their key    *)
(* and data, the thread they came from.                                    *)
(***************************************************************************)
EXTENDS Naturals, FiniteSets

CONSTANTS
    Readers,           \* threads of reader processes
    async_queue_size,
    IndexMod,          \* indexes are uint32_t: wrap at 2^32
    MaxBehind,         \* bound on drawn indexes the writer has not reached
    MaxTasks,          \* ntasks of ProcessTask
    MaxRcCalls,        \* bound on the calls of ProcessTask by one collection
    Scenarios,         \* the operation each reader calls, how many readers die,
                       \* whether the writer process closes the database
    Prompt             \* a living thread holds a mutex for less than 5 seconds

Writer == "writer"
NoThread == "none"
Threads == Readers \cup {Writer}
Slots == 0 .. async_queue_size - 1

ASSUME ShmAssumption ==
    /\ {Writer, NoThread} \cap Readers = {}
    /\ async_queue_size \in Nat \ {0}
    /\ IndexMod \in Nat /\ MaxBehind + async_queue_size < IndexMod
    /\ {MaxBehind, MaxTasks, MaxRcCalls} \subseteq Nat
    /\ \A x \in Scenarios : x.kinds \in [Readers -> {"UPDATE", "BACKUP", "RC"}]
                              /\ x.crashes \in Nat /\ x.stops \in BOOLEAN
    /\ Prompt \in BOOLEAN

VARIABLES
    scen,       \* the scenario, fixed
    queue_index, writer_index,   \* of the IndexHeader
    node,       \* the AsyncNodes; owner is the holder of the mutex
    pc,         \* where each thread is; "dead" after a crash
    at,         \* node_ptr of SHMQ_AcquireSlot
    kind,       \* the operation a thread is handing over
    scan,       \* windex, qindex and cnt of NextShmSlot
    rc,         \* the running collection: calls made, tasks left in this one
    rc_backup_dir,   \* a backup was asked for during a collection
    stop_processing,
    owed        \* entries each thread published that nobody has taken yet

vars == <<scen, queue_index, writer_index, node, pc, at, kind, scan, rc,
          rc_backup_dir, stop_processing, owed>>

Empty == [owner |-> NoThread, in_use |-> FALSE, type |-> "NONE",
          key |-> NoThread, data |-> NoThread]
NoScan == [w |-> 0, q |-> 0, cnt |-> 0]

\* InitShmObjects and the constructor of AsyncWriter, with an empty queue; the
\* indexes outlive the processes and are about to wrap.
ShmInit ==
    /\ scen \in Scenarios
    /\ queue_index = IndexMod - 1 /\ writer_index = queue_index
    /\ node = [s \in Slots |-> Empty]
    /\ pc = [t \in Threads |-> IF t = Writer THEN "lock" ELSE "idle"]
    /\ at = [t \in Threads |-> 0]
    /\ kind = [t \in Threads |-> "UPDATE"]
    /\ scan = NoScan
    /\ rc = [calls |-> 0, tasks |-> 0]
    /\ rc_backup_dir = FALSE /\ stop_processing = FALSE
    /\ owed = [t \in Threads |-> 0]

Slot(index) == index % async_queue_size
Next1(index) == (index + 1) % IndexMod
Go(t, l) == pc' = [pc EXCEPT ![t] = l]
Free(s) == node[s].owner = NoThread
Own(s, t) == [node EXCEPT ![s].owner = t]
writervars == <<scen, writer_index, scan, rc, rc_backup_dir, stop_processing>>

-----------------------------------------------------------------------------
\* SHMQ_Add, SHMQ_Remove, SHMQ_RemoveAll, SHMQ_Backup, SHMQ_CollectResource:
\* called by readers, and SHMQ_Backup by the writer after a collection.

Behind == (queue_index + IndexMod - writer_index) % IndexMod

\* index = queue_index.fetch_add(1)
Draw(t, k) ==
    /\ at' = [at EXCEPT ![t] = Slot(queue_index)]
    /\ kind' = [kind EXCEPT ![t] = k]
    /\ queue_index' = Next1(queue_index)
    /\ Go(t, "acquire")

Call(r) ==
    /\ pc[r] = "idle" /\ Behind \notin MaxBehind .. IndexMod - async_queue_size - 1
    /\ Draw(r, scen.kinds[r])
    /\ UNCHANGED <<node, owed, writervars>>

\* A call is left, and its local variables with it.
Leave(t, l) ==
    /\ Go(t, l)
    /\ at' = [at EXCEPT ![t] = 0]
    /\ kind' = [kind EXCEPT ![t] = "UPDATE"]

\* A call ends: a reader may call again, the writer goes on with its loop.
Return(t) == Leave(t, IF t = Writer THEN "lock" ELSE "idle")

\* The wait is a single wait: an entry found in use after it is overwritten.
EnterSlot_Once(t) ==
    IF node[at[t]].in_use /\ pc[t] = "acquire"
    THEN Go(t, "wait") /\ UNCHANGED <<node, at, kind>>
    ELSE Go(t, "fill") /\ node' = Own(at[t], t) /\ UNCHANGED <<at, kind>>

\* With the mutex held: wait while the slot is in use.
EnterSlot(t) ==
    IF node[at[t]].in_use
    THEN Go(t, "wait") /\ UNCHANGED <<node, at, kind>>
    ELSE Go(t, "fill") /\ node' = Own(at[t], t) /\ UNCHANGED <<at, kind>>

SHMQ_AcquireSlot(t) ==
    /\ pc[t] = "acquire"
    /\ \/ Free(at[t]) /\ EnterSlot(t)
       \/ ~Free(at[t]) /\ Return(t) /\ UNCHANGED node     \* ETIMEDOUT: NULL
    /\ UNCHANGED <<queue_index, owed, writervars>>

\* pthread_cond_timedwait returns with the mutex: 0, or a timeout that ends
\* the call even if the slot is free by now.
SlotWait(t) ==
    /\ pc[t] = "wait" /\ Free(at[t])
    /\ EnterSlot(t) \/ (Return(t) /\ UNCHANGED node)
    /\ UNCHANGED <<queue_index, owed, writervars>>

Fill(t) ==
    /\ pc[t] = "fill"
    /\ node' = [node EXCEPT ![at[t]].key = t]
    /\ Go(t, "prepare")
    /\ UNCHANGED <<queue_index, at, kind, owed, writervars>>

\* The rest of the entry, and in_use.store(true).
SHMQ_PrepareSlot(t) ==
    /\ pc[t] = "prepare"
    /\ node' = [node EXCEPT ![at[t]].data = t, ![at[t]].type = kind[t],
                            ![at[t]].in_use = TRUE]
    /\ owed' = [owed EXCEPT ![t] = @ + 1]
    /\ Go(t, "unlock")
    /\ UNCHANGED <<queue_index, at, kind, writervars>>

\* Unlocking frees the mutex, whoever holds it.
Unlock(t) ==
    /\ pc[t] = "unlock"
    /\ node' = Own(at[t], NoThread)
    /\ Return(t)
    /\ UNCHANGED <<queue_index, owed, writervars>>

\* A reader process dies in a call; its mutex stays locked.
Crash(r) ==
    /\ pc[r] \notin {"idle", "dead"}
    /\ Cardinality({x \in Readers : pc[x] = "dead"}) < scen.crashes
    /\ Leave(r, "dead")
    /\ UNCHANGED <<queue_index, node, owed, writervars>>

Handover(t) ==
    \/ SHMQ_AcquireSlot(t) \/ SlotWait(t) \/ Fill(t) \/ SHMQ_PrepareSlot(t) \/ Unlock(t)

-----------------------------------------------------------------------------
\* AsyncWriter::async_writer_thread

wslot == Slot(writer_index)
callvars == <<scen, queue_index, at, kind>>

\* pthread_mutex_timedlock may time out: the mutex is not released in 5 s.
TimedOut(s) == ~Free(s) /\ (Prompt => pc[node[s].owner] = "dead")

\* The loop that waits for in_use, and the exit on stop_processing.
Inspect(l) ==
    CASE stop_processing -> Go(Writer, "stopped") /\ UNCHANGED node
      [] ~stop_processing /\ node[wslot].in_use ->
            Go(Writer, l) /\ node' = Own(wslot, Writer)
      [] OTHER -> Go(Writer, "cond") /\ UNCHANGED node

WriterLock ==
    /\ pc[Writer] = "lock"
    /\ Free(wslot) /\ Inspect("process")
    /\ UNCHANGED <<callvars, owed, writervars>>

\* The index is advanced first: the mutex of the next slot is initialized.
WriterLockTimeout_Next ==
    /\ pc[Writer] = "lock" /\ TimedOut(wslot)
    /\ node' = Own(Slot(Next1(writer_index)), NoThread)
    /\ writer_index' = Next1(writer_index)
    /\ UNCHANGED <<callvars, pc, owed, scan, rc, rc_backup_dir, stop_processing>>

\* The wait goes on although an index was drawn that nobody will fill.
WriterWake_Stays ==
    /\ pc[Writer] = "cond" /\ Free(wslot)
    /\ Inspect("process")
    /\ UNCHANGED <<callvars, owed, writervars>>

\* InitShmMutex, and on to the next slot.
WriterLockTimeout ==
    /\ pc[Writer] = "lock" /\ TimedOut(wslot)
    /\ node' = Own(wslot, NoThread)
    /\ writer_index' = Next1(writer_index)
    /\ UNCHANGED <<callvars, pc, owed, scan, rc, rc_backup_dir, stop_processing>>

\* pthread_cond_timedwait returns, whatever the reason; the mutex is locked
\* again without a timeout.  An index drawn meanwhile starts NextShmSlot.
WriterWake ==
    /\ pc[Writer] = "cond" /\ Free(wslot)
    /\ IF writer_index # queue_index
       THEN /\ scan' = [w |-> writer_index, q |-> queue_index, cnt |-> 0]
            /\ Go(Writer, "scan") /\ node' = Own(wslot, Writer)
       ELSE Inspect("process") /\ UNCHANGED scan
    /\ UNCHANGED <<callvars, owed, writer_index, rc, rc_backup_dir, stop_processing>>

\* What the loop of NextShmSlot ends with, once it ends.
ScanResult ==
    CASE scan.w = scan.q \/ node[Slot(scan.w)].in_use -> scan.w
      [] OTHER -> scan.q

\* Slots in use on the way are passed.
ScanEnds_Skips ==
    scan.w = scan.q \/ scan.cnt >= async_queue_size

ScanEnds ==
    scan.w = scan.q \/ node[Slot(scan.w)].in_use \/ scan.cnt >= async_queue_size

\* One turn of the loop; other threads run between two turns.
NextShmSlot ==
    /\ pc[Writer] = "scan"
    /\ IF ScanEnds
       THEN /\ node' = Own(wslot, NoThread)
            /\ writer_index' = ScanResult
            /\ scan' = NoScan
            /\ Go(Writer, IF stop_processing THEN "stopped" ELSE "lock")
       ELSE /\ scan' = [scan EXCEPT !.w = Next1(@), !.cnt = @ + 1]
            /\ UNCHANGED <<node, writer_index, pc>>
    /\ UNCHANGED <<callvars, owed, rc, rc_backup_dir, stop_processing>>

\* The entry of the slot is taken: writer_index++, in_use.store(false),
\* unlock.  Key and data come from one thread unless the entry is torn.
Take ==
    /\ node' = [node EXCEPT ![wslot] = Empty]
    /\ owed' = [t \in Threads |->
                  IF node[wslot].key = t /\ node[wslot].data = t
                  THEN owed[t] - 1 ELSE owed[t]]
    /\ writer_index' = Next1(writer_index)

Process ==
    /\ pc[Writer] = "process"
    /\ Take
    /\ Go(Writer, IF node[wslot].type = "RC" THEN "collect" ELSE "lock")
    /\ rc' = [calls |-> 0, tasks |-> 0]
    /\ UNCHANGED <<callvars, scan, rc_backup_dir, stop_processing>>

\* ReclaimResource calls ProcessTask while it walks the database, or ends.
\* A backup asked for meanwhile is put into the queue, unless the collection
\* was skipped.
Collect ==
    /\ pc[Writer] = "collect"
    /\ \/ /\ rc.calls < MaxRcCalls
          /\ rc' = [calls |-> rc.calls + 1, tasks |-> MaxTasks]
          /\ Go(Writer, "task")
          /\ UNCHANGED <<queue_index, at, kind, rc_backup_dir>>
       \/ /\ rc_backup_dir' = FALSE
          /\ \/ rc_backup_dir /\ Draw(Writer, "BACKUP")
             \/ Go(Writer, "lock") /\ UNCHANGED <<queue_index, at, kind>>
          /\ rc' = [calls |-> 0, tasks |-> 0]
    /\ UNCHANGED <<scen, node, owed, writer_index, scan, stop_processing>>

\* ProcessTask, up to its check of in_use: a mutex that cannot be locked is
\* initialized, and a slot not in use ends the call.
TaskLock ==
    /\ pc[Writer] = "task"
    /\ \/ rc.tasks = 0 /\ Go(Writer, "collect") /\ UNCHANGED node
       \/ /\ rc.tasks > 0 /\ Free(wslot) /\ node[wslot].in_use
          /\ node' = Own(wslot, Writer) /\ Go(Writer, "taskrun")
       \/ /\ rc.tasks > 0 /\ Free(wslot) /\ ~node[wslot].in_use
          /\ Go(Writer, "collect") /\ UNCHANGED node
       \/ /\ rc.tasks > 0 /\ TimedOut(wslot)
          /\ node' = Own(wslot, NoThread) /\ Go(Writer, "collect")
    /\ UNCHANGED <<callvars, owed, writervars>>

TaskRun ==
    /\ pc[Writer] = "taskrun"
    /\ Take
    /\ rc_backup_dir' = (rc_backup_dir \/ node[wslot].type = "BACKUP")
    /\ rc' = [rc EXCEPT !.tasks = @ - 1]
    /\ Go(Writer, "task")
    /\ UNCHANGED <<callvars, scan, stop_processing>>

\* DB::Close in the writer process, and its next start.
StopAsyncThread ==
    /\ scen.stops /\ ~stop_processing /\ stop_processing' = TRUE
    /\ UNCHANGED <<callvars, node, pc, owed, writer_index, scan, rc, rc_backup_dir>>

Reopen ==
    /\ pc[Writer] = "stopped"
    /\ stop_processing' = FALSE /\ rc_backup_dir' = FALSE
    /\ Go(Writer, "lock")
    /\ UNCHANGED <<callvars, node, owed, writer_index, scan, rc>>

WriterStep ==
    \/ WriterLock \/ WriterLockTimeout \/ WriterWake \/ NextShmSlot
    \/ Process \/ Collect \/ TaskLock \/ TaskRun \/ Handover(Writer)

ShmNext ==
    \/ WriterStep
    \/ \E r \in Readers : Call(r) \/ Handover(r) \/ Crash(r)
    \/ StopAsyncThread \/ Reopen

\* The threads run as long as they can; a reader is not bound to leave its
\* wait (its mutex may have been initialized under it) nor to call again, and
\* the writer is not bound to stop or to be started again.
Working(r) == pc[r] # "wait" /\ Handover(r)

ShmSpec ==
    /\ ShmInit /\ [][ShmNext]_vars
    /\ WF_vars(WriterStep)
    /\ \A r \in Readers : WF_vars(Working(r))

-----------------------------------------------------------------------------
\* Every entry a thread has published stays whole in a slot of its own until
\* the writer takes it, and is taken once: no entry is overwritten, torn or
\* taken twice, although readers die with the mutex of a slot held, indexes
\* are skipped, and the writer initializes mutexes.
EntriesKept ==
    \A t \in Threads :
        owed[t] = Cardinality({s \in Slots : node[s].in_use /\ node[s].key = t
                                                            /\ node[s].data = t})

\* A slot is filled or emptied by one thread at a time, and only by the
\* holder of its mutex (SHMQ_AcquireSlot, async_writer_thread, ProcessTask).
Inside(t, s) ==
    \/ pc[t] \in {"fill", "prepare", "unlock"} /\ at[t] = s
    \/ t = Writer /\ pc[t] \in {"scan", "process", "taskrun"} /\ wslot = s

SlotExclusive ==
    \A t \in Threads, s \in Slots : Inside(t, s) => node[s].owner = t

\* The one way the recovery fails: the writer is in a wait, which ends by
\* locking a mutex whose owner is dead.
WriterBlocked ==
    /\ pc[Writer] \in {"cond", "wait"}
    /\ LET s == IF pc[Writer] = "cond" THEN wslot ELSE at[Writer] IN
       ~Free(s) /\ pc[node[s].owner] = "dead"

\* An index that was drawn never holds the writer for ever (nor does it stay
\* ahead of the indexes drawn), whether the reader is slow, gave up or died
\* ("Reader process may have exited unexpectedly. Recover index."), unless
\* the reader died with the mutex of the slot held while the writer waited
\* there.
Recovers ==
    <>[](writer_index # queue_index /\ ~WriterBlocked /\ ~stop_processing)
        => []<><<TRUE>>_writer_index

\* As long as readers keep drawing indexes, every published entry is taken in
\* the end, also one whose index the writer had passed when it was published.
EntriesTaken ==
    ([]<><<\E r \in Readers : Call(r)>>_vars)
        => \A s \in Slots :
              node[s].in_use ~> (~node[s].in_use \/ WriterBlocked \/ stop_processing)

=============================================================================
