----------------------------- MODULE IrisLogger -----------------------------
(***************************************************************************)
(* iris/include/base_logger.h, iris/src/base_logger.cpp and notifier.cpp:  *)
(* threads that log, the lock-free list of their queues, the pipe of       *)
(* notifications, and the output thread that drains the queues, deletes    *)
(* them and stops.                                                         *)
(*                                                                         *)
(* A queue is used through what its parts promise: q is a bounded FIFO     *)
(* queue (BoundedQueue, which SslfQueue implements) and rbuf holds a       *)
(* bounded number of messages (LfRingBuffer).  this_thread_logqueue, in    *)
(* spite of its name, is one global variable (base_logger.cpp:15).         *)
(***************************************************************************)
EXTENDS Integers, Sequences, FiniteSets, SequencesExt

CONSTANTS Users,       \* threads that log
          Closers,     \* those that call sync_and_close when they are done
          MaxLogs,     \* bound on the messages of each user
          MaxQueues,   \* bound on the queues ever created
          QueueSize,   \* capacity of a queue
          RbufSize,    \* messages that fit into a ring buffer
          PipeSize     \* notifications that fit into the pipe

ASSUME IrisAssumption ==
    /\ Closers \subseteq Users
    /\ MaxLogs \in [Users -> Nat]
    /\ {MaxQueues, QueueSize, RbufSize, PipeSize} \subseteq Nat \ {0}

Queues == 1 .. MaxQueues
m_head == 0
nullptr == -1
Nodes == Queues \cup {m_head}

VARIABLES this_thread_logqueue,  \* the holder's q
          next,                  \* the links of the list of queues
          built,                 \* number of queues constructed so far
          deleted,               \* queues destroyed
          q, polled,             \* per queue: messages offered, how many polled
          rbuf,                  \* per queue: messages in its ring buffer
          m_pipe,
          m_stop,
          upc, this_queue, p_ins, logged,   \* per user: control, locals of log
          ipc, p, empty, ntfs,   \* iris_thread: control and locals
          dthis, dq, dp, dnext,  \* ~thread_logqueue: this, q, p, pnext
          out,                   \* messages written
          owned                  \* history: every thread has used its own queue only

(* What only the users write, and what only the output thread writes.      *)
dtor == <<dthis, dq, dp, dnext>>
uservars == <<this_thread_logqueue, built, q, m_stop, upc, this_queue, p_ins, logged,
              owned>>
outvars == <<deleted, polled, ipc, p, empty, ntfs, dtor, out>>
ivars == <<uservars, outvars, next, rbuf, m_pipe>>

IInit ==
    /\ this_thread_logqueue = nullptr
    /\ next = [n \in Nodes |-> nullptr]
    /\ built = 0 /\ deleted = {}
    /\ q = [n \in Queues |-> << >>]
    /\ polled = [n \in Queues |-> 0] /\ rbuf = [n \in Queues |-> 0]
    /\ m_pipe = << >> /\ m_stop = FALSE
    /\ upc = [u \in Users |-> "idle"] /\ logged = [u \in Users |-> 0]
    /\ this_queue = [u \in Users |-> nullptr] /\ p_ins = [u \in Users |-> nullptr]
    /\ ipc = "loop" /\ p = nullptr /\ empty = TRUE /\ ntfs = << >>
    /\ dthis = nullptr /\ dq = nullptr /\ dp = nullptr /\ dnext = nullptr
    /\ out = << >> /\ owned = TRUE

Goto(u, label) == upc' = [upc EXCEPT ![u] = label]

(* The write side of the pipe does not block: what does not fit is lost.   *)
notify(ntf) ==
    m_pipe' = IF Len(m_pipe) < PipeSize THEN Append(m_pipe, ntf) ELSE m_pipe

-----------------------------------------------------------------------------
(* log                                                                     *)

LogStart(u) ==
    /\ upc[u] = "idle" /\ logged[u] < MaxLogs[u]
    /\ IF this_thread_logqueue # nullptr
       THEN /\ this_queue' = [this_queue EXCEPT ![u] = this_thread_logqueue]
            /\ Goto(u, "acquire")
            /\ UNCHANGED built
       ELSE /\ built < MaxQueues
            /\ built' = built + 1
            /\ this_queue' = [this_queue EXCEPT ![u] = built']
            /\ Goto(u, "load")
    /\ owned' = (owned /\ this_thread_logqueue = this_queue[u])
    /\ UNCHANGED <<this_thread_logqueue, next, q, rbuf, m_pipe, m_stop, p_ins,
                   logged, outvars>>

InsertLoad(u) ==
    /\ upc[u] = "load"
    /\ p_ins' = [p_ins EXCEPT ![u] = next[m_head]]
    /\ next' = [next EXCEPT ![this_queue[u]] = next[m_head]]
    /\ Goto(u, "cas")
    /\ UNCHANGED <<this_thread_logqueue, built, q, rbuf, m_pipe, m_stop,
                   this_queue, logged, owned, outvars>>

(* compare_exchange_weak may also fail without a reason.                   *)
\* Mutant: the head of the list is overwritten without a comparison.
InsertCas_Store(u) ==
    /\ upc[u] = "cas"
    /\ \/ /\ TRUE
          /\ next' = [next EXCEPT ![m_head] = this_queue[u]]
          /\ Goto(u, "assign")
       \/ Goto(u, "load") /\ UNCHANGED next
    /\ UNCHANGED <<this_thread_logqueue, built, q, rbuf, m_pipe, m_stop,
                   this_queue, p_ins, logged, owned, outvars>>

InsertCas(u) ==
    /\ upc[u] = "cas"
    /\ \/ /\ next[m_head] = p_ins[u]
          /\ next' = [next EXCEPT ![m_head] = this_queue[u]]
          /\ Goto(u, "assign")
       \/ Goto(u, "load") /\ UNCHANGED next
    /\ UNCHANGED <<this_thread_logqueue, built, q, rbuf, m_pipe, m_stop,
                   this_queue, p_ins, logged, owned, outvars>>

Assign(u) ==
    /\ upc[u] = "assign"
    /\ this_thread_logqueue' = this_queue[u]
    /\ Goto(u, "acquire")
    /\ UNCHANGED <<next, built, q, rbuf, m_pipe, m_stop, this_queue, p_ins,
                   logged, owned, outvars>>

Acquire(u) ==
    /\ upc[u] = "acquire" /\ rbuf[this_queue[u]] < RbufSize
    /\ rbuf' = [rbuf EXCEPT ![this_queue[u]] = @ + 1]
    /\ Goto(u, "offer")
    /\ UNCHANGED <<this_thread_logqueue, next, built, q, m_pipe, m_stop,
                   this_queue, p_ins, logged, owned, outvars>>

(* The first offer; a queue that was ever filled may still look full to a  *)
(* stale load.  Then the output thread is told and offer is repeated.      *)
Offer(u) ==
    /\ upc[u] \in {"offer", "retry"}
    /\ \/ /\ Len(q[this_queue[u]]) - polled[this_queue[u]] < QueueSize
          /\ q' = [q EXCEPT ![this_queue[u]] = Append(@, <<u, logged[u] + 1>>)]
          /\ logged' = [logged EXCEPT ![u] = @ + 1]
          /\ Goto(u, "idle")
          /\ UNCHANGED m_pipe
       \/ /\ upc[u] = "offer" /\ Len(q[this_queue[u]]) >= QueueSize
          /\ notify([queue |-> this_queue[u], type |-> "msg"])
          /\ Goto(u, "retry")
          /\ UNCHANGED <<q, logged>>
    /\ UNCHANGED <<this_thread_logqueue, next, built, rbuf, m_stop,
                   this_queue, p_ins, owned, outvars>>

-----------------------------------------------------------------------------
(* sync_and_close, with notify_and_quit inlined                            *)

Close(u) ==
    /\ upc[u] = "idle" /\ u \in Closers
    /\ IF m_stop THEN Goto(u, "closed") /\ UNCHANGED m_pipe
       ELSE IF this_thread_logqueue = nullptr THEN Goto(u, "stop") /\ UNCHANGED m_pipe
       ELSE /\ notify([queue |-> this_thread_logqueue, type |-> "deletion"])
            /\ Goto(u, "quit")
    /\ owned' = (owned /\ this_thread_logqueue \in {nullptr, this_queue[u]})
    /\ UNCHANGED <<this_thread_logqueue, next, built, q, rbuf, m_stop,
                   this_queue, p_ins, logged, outvars>>

Quit(u) ==
    /\ upc[u] = "quit"
    /\ this_thread_logqueue' = nullptr
    /\ Goto(u, "stop")
    /\ UNCHANGED <<next, built, q, rbuf, m_pipe, m_stop, this_queue, p_ins,
                   logged, owned, outvars>>

Stop(u) ==
    /\ upc[u] = "stop"
    /\ m_stop' = TRUE
    /\ Goto(u, "join")
    /\ UNCHANGED <<this_thread_logqueue, next, built, q, rbuf, m_pipe,
                   this_queue, p_ins, logged, owned, outvars>>

Join(u) ==
    /\ upc[u] = "join" /\ ipc = "done"
    /\ Goto(u, "closed")
    /\ UNCHANGED <<this_thread_logqueue, next, built, q, rbuf, m_pipe, m_stop,
                   this_queue, p_ins, logged, owned, outvars>>

-----------------------------------------------------------------------------
(* iris_thread.  batch_poll takes all there is; do_format_and_flush writes *)
(* the messages and releases their bytes.                                  *)

\* Mutant: logs is not cleared, so the last message of a batch comes again.
PollAndFlush_Again(n) ==
    /\ out' = out \o SubSeq(q[n], IF polled[n] = 0 THEN 1 ELSE polled[n], Len(q[n]))
    /\ polled' = [polled EXCEPT ![n] = Len(q[n])]
    /\ rbuf' = [rbuf EXCEPT ![n] = @ - (Len(q[n]) - polled[n])]

PollAndFlush(n) ==
    /\ out' = out \o SubSeq(q[n], polled[n] + 1, Len(q[n]))
    /\ polled' = [polled EXCEPT ![n] = Len(q[n])]
    /\ rbuf' = [rbuf EXCEPT ![n] = @ - (Len(q[n]) - polled[n])]

\* Mutant: the last collection of lines 117-123 is missing.
OutLoop_NoFinal ==
    /\ ipc = "loop"
    /\ ipc' = IF m_stop THEN "done" ELSE "scan"
    /\ p' = m_head /\ empty' = TRUE
    /\ UNCHANGED <<deleted, polled, ntfs, dtor, out, uservars, next, rbuf, m_pipe>>

OutLoop ==
    /\ ipc = "loop"
    /\ ipc' = IF m_stop THEN "final" ELSE "scan"
    /\ p' = m_head /\ empty' = TRUE
    /\ UNCHANGED <<deleted, polled, ntfs, dtor, out, uservars, next, rbuf, m_pipe>>

(* One queue of a pass over the list, and the step to the next one.        *)
OutScan ==
    /\ ipc \in {"scan", "final"} /\ p # nullptr
    /\ IF p = m_head THEN UNCHANGED <<out, polled, rbuf, empty>>
       ELSE PollAndFlush(p) /\ empty' = (empty /\ polled[p] = Len(q[p]))
    /\ p' = next[p]
    /\ UNCHANGED <<deleted, ipc, ntfs, dtor, uservars, next, m_pipe>>

OutScanEnd ==
    /\ ipc \in {"scan", "final"} /\ p = nullptr
    /\ ipc' = IF ipc = "final" THEN "done" ELSE IF empty THEN "wait" ELSE "loop"
    /\ UNCHANGED <<deleted, polled, p, empty, ntfs, dtor, out, uservars, next, rbuf, m_pipe>>

(* notifier::wait reads what is in the pipe, or times out on an empty one. *)
\* Mutant: the wait for a notification has no timeout.
OutWait_Block ==
    /\ ipc = "wait" /\ m_pipe # << >>
    /\ ntfs' = m_pipe /\ m_pipe' = << >>
    /\ ipc' = "ntf"
    /\ UNCHANGED <<deleted, polled, p, empty, dtor, out, uservars, next, rbuf>>

OutWait ==
    /\ ipc = "wait"
    /\ ntfs' = m_pipe /\ m_pipe' = << >>
    /\ ipc' = "ntf"
    /\ UNCHANGED <<deleted, polled, p, empty, dtor, out, uservars, next, rbuf>>

OutNtf ==
    /\ ipc = "ntf"
    /\ IF ntfs = << >>
       THEN ipc' = "loop" /\ UNCHANGED <<ntfs, dthis, dq, out, polled, rbuf>>
       ELSE /\ PollAndFlush(ntfs[1].queue)
            /\ ntfs' = Tail(ntfs)
            /\ IF ntfs[1].type = "msg" THEN UNCHANGED <<ipc, dthis, dq>>
               ELSE ipc' = "walk" /\ dthis' = ntfs[1].queue /\ dq' = ntfs[1].queue
    /\ UNCHANGED <<deleted, p, empty, dp, dnext, uservars, next, m_pipe>>

(* ~thread_logqueue.  The first walk also reads the next of the queue and  *)
(* marks it.  A queue that is not in the list would be walked past the end *)
(* (a null pointer is read), which the model does not continue.            *)
RECURSIVE From(_)
From(n) == IF n = nullptr THEN {} ELSE {n} \cup From(next[n])

DelWalk ==
    /\ ipc \in {"walk", "rewalk"}
    /\ \E n \in From(m_head) : next[n] = dq /\ dp' = n
    /\ IF ipc = "walk"
       THEN dnext' = next[dthis] /\ next' = [next EXCEPT ![dthis] = nullptr]
       ELSE UNCHANGED <<dnext, next>>
    /\ ipc' = "unlink"
    /\ UNCHANGED <<deleted, polled, p, empty, ntfs, dthis, dq, out, uservars, rbuf, m_pipe>>

(* compare_exchange_weak stores the value it found into q when it fails.   *)
DelUnlink ==
    /\ ipc = "unlink"
    /\ \/ /\ next[dp] = dq
          /\ next' = [next EXCEPT ![dp] = dnext]
          /\ deleted' = deleted \cup {dthis}
          /\ ipc' = "ntf"
          /\ UNCHANGED dq
       \/ dq' = next[dp] /\ ipc' = "rewalk" /\ UNCHANGED <<next, deleted>>
    /\ UNCHANGED <<polled, p, empty, ntfs, dthis, dp, dnext, out, uservars, rbuf, m_pipe>>

-----------------------------------------------------------------------------
log(u) == LogStart(u) \/ InsertLoad(u) \/ InsertCas(u) \/ Assign(u) \/ Acquire(u) \/ Offer(u)
sync_and_close(u) == Close(u) \/ Quit(u) \/ Stop(u) \/ Join(u)
iris_thread == OutLoop \/ OutScan \/ OutScanEnd \/ OutWait \/ OutNtf \/ DelWalk \/ DelUnlink

INext == (\E u \in Users : log(u) \/ sync_and_close(u)) \/ iris_thread

ISpec == IInit /\ [][INext]_ivars

(* Every thread keeps running, and a weak compare-and-swap that could      *)
(* succeed again and again does succeed.                                   *)
IFairSpec ==
    /\ ISpec
    /\ WF_ivars(iris_thread) /\ SF_ivars(DelUnlink /\ ipc' = "ntf")
    /\ \A u \in Users :
         /\ WF_ivars(upc[u] # "idle" /\ (log(u) \/ sync_and_close(u)))
         /\ SF_ivars(InsertCas(u) /\ upc'[u] = "assign")

-----------------------------------------------------------------------------
(* "Every thread which uses logging primitives owns one" queue             *)
(* (base_logger.h:54-55).  The global holder breaks this as soon as two    *)
(* threads log; the properties up to CallsReturn are promised while it    *)
(* has not been broken.                                                    *)

(* sync_and_close returns only when every message the closing thread has    *)
(* logged is written ("this tells logging thread to persist the data into   *)
(* file and waits", iris/README.md:43), even if the notification was lost   *)
(* or the stop flag is seen before it.                                      *)
AllWritten ==
    \A u \in Closers : owned /\ upc[u] = "closed" =>
      \A n \in 1 .. logged[u] : <<u, n>> \in Range(out)

(* A thread's messages are written once each, in the order it logged them,  *)
(* however scans and notifications take turns at its queue.                 *)
WrittenInOrder ==
    \A u \in Closers :
      LET mine == SelectSeq(out, LAMBDA m : m[1] = u)
      IN  owned => \A i \in DOMAIN mine : mine[i] = <<u, i>>

(* A call of log or sync_and_close returns: a full ring buffer or queue is  *)
(* drained even when the notification was lost, and the output thread sees  *)
(* the stop flag.  Once another thread has closed the logger, log need not. *)
CallsReturn ==
    []owned => \A u \in Users :
        upc[u] # "idle" ~> upc[u] \in {"idle", "closed"} \/ (m_stop /\ Closers # {u})

InDestructor == ipc \in {"unlink", "rewalk"}

(* A destroyed queue is not in the list the output thread walks             *)
(* (base_logger.cpp:57-66), in spite of queues inserted meanwhile.          *)
NoDangling == ~InDestructor => From(m_head) \cap deleted = {}

(* "These thread_local queues form a singly-linked list which is polled by  *)
(* a dedicated output thread" (base_logger.h:56-57): a queue that has been  *)
(* inserted and not destroyed is in the list.                               *)
AllListed ==
    ~InDestructor =>
      \A n \in 1 .. built :
        \/ n \in From(m_head) \cup deleted
        \/ \E u \in Users : this_queue[u] = n /\ upc[u] \in {"load", "cas"}
=============================================================================
