----------------------------- MODULE SslfQueue -----------------------------
(***************************************************************************)
(* iris/include/sslfqueue.h: the single-producer single-consumer lock-free *)
(* ring queue.  One thread calls offer, one calls poll and batch_poll; the *)
(* only shared atomics are head (written by the consumer) and tail         *)
(* (written by the producer).                                              *)
(*                                                                         *)
(* The two acquire loads of the other thread's index may return any value  *)
(* of its modification order that is not older than the last one read.     *)
(* The last value read is exactly head_cache (tail_cache), so a load is a  *)
(* choice from head_cache .. head.  A thread's load of the index it alone  *)
(* writes returns the current value.  Reading an index acquires all cell   *)
(* accesses made before that value was released, so cells are read fresh.  *)
(* The capacity is a power of two, hence i & mask is i % cap.              *)
(***************************************************************************)
EXTENDS Integers, Sequences

CONSTANTS T,          \* element values
          cap,        \* capacity after rounding up
          MaxOffers   \* bound on the number of accepted offers

ASSUME QueueAssumption == cap \in Nat \ {0} /\ MaxOffers \in Nat

VARIABLES buffer,      \* the cells
          head, tail,  \* std::atomic<long>
          head_cache,  \* the producer's copy of head
          tail_cache,  \* the consumer's copy of tail
          opc, e,      \* offer: "idle", "write", "publish", and its argument
          cpc,         \* "idle", or the poll running: "poll", "batch", "store"
          cur_head,    \* the local of poll and batch_poll
          sent, got    \* history: elements accepted, elements read out

prodvars == <<buffer, tail, head_cache, opc, e, sent>>
consvars == <<head, tail_cache, cpc, cur_head, got>>
qvars == <<prodvars, consvars>>

QInit ==
    /\ buffer \in [0 .. cap - 1 -> T]
    /\ head = 0 /\ tail = 0 /\ head_cache = 0 /\ tail_cache = 0
    /\ opc = "idle" /\ e \in T
    /\ cpc = "idle" /\ cur_head = 0
    /\ sent = << >> /\ got = << >>

-----------------------------------------------------------------------------
(* offer.  len is tail - cap; a queue that still looks full after head is  *)
(* loaded again refuses the element.                                       *)

\* Mutant: an off-by-one in the full test of line 43.
OfferCheck_OffByOne(v, h) ==
    /\ opc = "idle" /\ tail < MaxOffers
    /\ e' = v
    /\ head_cache' = IF head_cache < tail - cap THEN h ELSE head_cache
    /\ opc' = IF head_cache' < tail - cap THEN "idle" ELSE "write"
    /\ UNCHANGED <<buffer, tail, sent, consvars>>

OfferCheck(v, h) ==
    /\ opc = "idle" /\ tail < MaxOffers
    /\ e' = v
    /\ head_cache' = IF head_cache <= tail - cap THEN h ELSE head_cache
    /\ opc' = IF head_cache' <= tail - cap THEN "idle" ELSE "write"
    /\ UNCHANGED <<buffer, tail, sent, consvars>>

OfferWrite ==
    /\ opc = "write"
    /\ buffer' = [buffer EXCEPT ![tail % cap] = e]
    /\ opc' = "publish"
    /\ UNCHANGED <<tail, head_cache, e, sent, consvars>>

OfferPublish ==
    /\ opc = "publish"
    /\ tail' = tail + 1
    /\ sent' = Append(sent, e)
    /\ opc' = "idle"
    /\ UNCHANGED <<buffer, head_cache, e, consvars>>

-----------------------------------------------------------------------------
(* poll and batch_poll differ in how many cells they read before head is   *)
(* stored.                                                                 *)
PollCheck(kind, t) ==
    /\ cpc = "idle"
    /\ tail_cache' = IF head >= tail_cache THEN t ELSE tail_cache
    /\ cpc' = IF head >= tail_cache' THEN "idle" ELSE kind
    /\ cur_head' = head
    /\ UNCHANGED <<head, got, prodvars>>

PollRead ==
    /\ cpc \in {"poll", "batch"}
    /\ got' = Append(got, buffer[cur_head % cap])
    /\ cur_head' = cur_head + 1
    /\ cpc' = IF cpc = "batch" /\ cur_head' < tail_cache THEN "batch" ELSE "store"
    /\ UNCHANGED <<head, tail_cache, prodvars>>

\* Mutant: a batch gives back one cell only.
PollStore_One ==
    /\ cpc = "store"
    /\ head' = head + 1
    /\ cpc' = "idle"
    /\ UNCHANGED <<tail_cache, cur_head, got, prodvars>>

PollStore ==
    /\ cpc = "store"
    /\ head' = cur_head
    /\ cpc' = "idle"
    /\ UNCHANGED <<tail_cache, cur_head, got, prodvars>>

-----------------------------------------------------------------------------
offer == (\E v \in T, h \in head_cache .. head : OfferCheck(v, h))
         \/ OfferWrite \/ OfferPublish

poll == (\E kind \in {"poll", "batch"}, t \in tail_cache .. tail : PollCheck(kind, t))
        \/ PollRead \/ PollStore

QNext == offer \/ poll

QSpec == QInit /\ [][QNext]_qvars

(* The output thread polls for ever, and a store becomes visible to it in  *)
(* the end: it cannot load a stale tail in every poll.                     *)
QFairSpec ==
    /\ QSpec
    /\ WF_qvars(PollRead) /\ WF_qvars(PollStore)
    /\ WF_qvars(\E kind \in {"poll", "batch"} : PollCheck(kind, tail))
    /\ SF_qvars(\E kind \in {"poll", "batch"} : PollCheck(kind, tail) /\ tail_cache' = tail)

-----------------------------------------------------------------------------
QTypeOK ==
    /\ buffer \in [0 .. cap - 1 -> T]
    /\ head \in Nat /\ tail \in Nat /\ head_cache \in Nat /\ tail_cache \in Nat
    /\ opc \in {"idle", "write", "publish"} /\ e \in T
    /\ cpc \in {"idle", "poll", "batch", "store"} /\ cur_head \in Nat
    /\ sent \in Seq(T) /\ got \in Seq(T)

(* What poll and batch_poll return (sslfqueue.h:55-85) is exactly what      *)
(* offer accepted, in that order: nothing is lost, repeated, reordered or   *)
(* read before it is written, however stale the two caches are.             *)
DeliveredInOrder ==
    /\ Len(got) <= Len(sent)
    /\ \A i \in 1 .. Len(got) : got[i] = sent[i]

(* The producer never writes a cell while the consumer is reading it        *)
(* (buffer[cur_tail & mask] = e at 49 against the reads at 63 and 78).      *)
NoCellRace ==
    opc = "write" /\ cpc \in {"poll", "batch"} => tail % cap # cur_head % cap

(* The queue seen from outside: the elements between the two indices, and   *)
(* what completed polls returned.  offer takes effect at the store of tail, *)
(* a poll at the store of head.                                             *)
Items == [i \in 1 .. tail - head |-> buffer[(head + i - 1) % cap]]

Out == SubSeq(got, 1, head)

Queue == INSTANCE BoundedQueue WITH items <- Items, out <- Out

(* sslfqueue<T> is a bounded FIFO queue with atomic operations.             *)
ImplementsQueue == Queue!QueueSpec

(* An accepted element is polled in the end: head does not stay behind tail *)
(* without moving.                                                          *)
AllPolled == <>[](head < tail) => []<><<TRUE>>_head
=============================================================================
