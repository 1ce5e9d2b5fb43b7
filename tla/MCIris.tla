--------------------------- MODULE MCIris ---------------------------
(***************************************************************************)
(* iris: the two buffers between a logging thread and the output thread,   *)
(* and the logger that uses them, each checked on its own.  A behaviour    *)
(* runs the queue, the ring or the logger, and the state of the others     *)
(* stays as constructed.                                                   *)
(***************************************************************************)
EXTENDS SslfQueue, IrisLogger

CONSTANTS Capacities, Sizes, Word

ASSUME RingAssumption ==
    /\ Capacities \subseteq Nat /\ Sizes \subseteq Nat \ {0}
    /\ Word \in Nat \ {0}

VARIABLES rcap, rhead, rtail_cache, unseen, want, live,
          part  \* the part of iris this behaviour runs

Ring == INSTANCE LfRingBuffer
            WITH cap <- rcap, head <- rhead, tail_cache <- rtail_cache

ThreeAndOne == [u \in Users |-> IF u \in Closers THEN 3 ELSE 1]

ringvars == <<rcap, rhead, rtail_cache, unseen, want, live>>
irisvars == <<qvars, ringvars, ivars, part>>

IrisInit ==
    /\ part \in {"queue", "ring", "logger"}
    /\ QInit /\ Ring!RingInit /\ IInit
    /\ part # "ring" => rcap = 1
    /\ part # "queue" => LET v == CHOOSE v \in T : TRUE
                         IN  e = v /\ buffer = [i \in 0 .. cap - 1 |-> v]

OfQueue(A) == part = "queue" /\ A /\ UNCHANGED <<ringvars, ivars, part>>

OfRing(A) == part = "ring" /\ A /\ UNCHANGED <<qvars, ivars, part>>

OfLogger(A) == part = "logger" /\ A /\ UNCHANGED <<qvars, ringvars, part>>

IrisNext == OfQueue(QNext) \/ OfRing(Ring!RingNext) \/ OfLogger(INext)

\* The fairness of QFairSpec, RingFairSpec and IFairSpec.  Only one part of the
\* three runs, so a condition on an action of one may be joined with a condition
\* on an action of another; steps one thread takes at different places, too.
IrisSpec ==
    /\ IrisInit /\ [][IrisNext]_irisvars
    /\ WF_irisvars(\/ OfQueue(PollRead \/ PollStore)
                   \/ OfRing(Ring!release)
                   \/ OfLogger(iris_thread))
    /\ SF_irisvars(\/ OfQueue(\E kind \in {"poll", "batch"} :
                                 PollCheck(kind, tail) /\ tail_cache' = tail)
                   \/ OfRing(Ring!acquire(Len(unseen), Len(unseen)))
                   \/ OfLogger(DelUnlink /\ ipc' = "ntf"))
    /\ WF_irisvars(OfQueue(\E kind \in {"poll", "batch"} : PollCheck(kind, tail)))
    /\ \A u \in Users :
         /\ WF_irisvars(OfLogger(upc[u] # "idle" /\ (log(u) \/ sync_and_close(u))))
         /\ SF_irisvars(OfLogger(InsertCas(u) /\ upc'[u] = "assign"))

\* LfRingBuffer: messages that live in the ring at one time lie inside it and do not overlap.
NoOverlap == Ring!NoOverlap

\* Every part gets on: what was offered is polled (sslfqueue.h:71), a request
\* of at most half the ring is granted after finitely many retries
\* (lfringbuffer.h:78), and log and sync_and_close return although
\* notifications are lost (notifier.cpp:39).
Progress == AllPolled /\ Ring!HalfGranted /\ CallsReturn
=============================================================================
