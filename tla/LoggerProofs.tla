---------------------------- MODULE LoggerProofs ----------------------------
(***************************************************************************)
(* The inductive invariant of the redo log, for any number of cores,       *)
(* loggers, buffers and transactions; with it type correctness and         *)
(* CommitAfterSync; and, from a second invariant on top of it,             *)
(* PrefixDurable.                                                          *)
(***************************************************************************)
EXTENDS TxnLogger, SequenceTheorems, FiniteSetTheorems, WellFoundedInduction, TLAPS

\* What the clock's variables hold, and every variable but buffers and epochs.
ClockType ==
    /\ tick \in Nat /\ guard \in [Cores -> Nat] /\ seen \in [Cores -> Nat]
    /\ held \subseteq Cores

PlaceType ==
    /\ wk \in [Cores -> {"idle", "finish", "ended"}]
    /\ commit_epoch \in [Cores -> Nat] /\ ntxns \in [Cores -> Nat]
    /\ wpc \in [Loggers -> {"sleep", "collect", "load", "store", "return"}]
    /\ wcore \in [Loggers -> 0 .. NMAXCORES] /\ cur_sync_epoch_ex \in [Loggers -> Nat]
    /\ sense \in [Loggers -> BOOLEAN] /\ x0 \in [Loggers -> Nat]
    /\ \A l \in Loggers : wpc[l] \in {"store", "return"} => wcore[l] < NMAXCORES
    /\ ppc \in {"sleep", "peek", "lock", "recheck", "mark", "load"}
    /\ pcore \in 0 .. NMAXCORES
    /\ ppc \in {"lock", "recheck", "mark", "load"} => pcore < NMAXCORES
    /\ best_tick_inc \in Nat /\ min_so_far \in Nat /\ pseen \in Nat
    /\ system_sync_epoch_ \in Nat

\* Buffers a core may hold when its loads of the clock return at least n, and
\* those it may have pushed.
Fresh(n) == {b \in pbuffer : b.epoch <= n /\ (b.nentries > 0 => b.epoch > 0)}
Filled(n) == {b \in pbuffer : b.epoch <= n /\ b.epoch > 0}

BufferInv ==
    /\ all_buffers_ \in [Cores -> Seq(pbuffer)]
    /\ persist_buffers_ \in [Cores -> Seq(pbuffer)]
    /\ \A c \in Cores :
         /\ all_buffers_[c] \in Seq(Fresh(seen[c]))
         /\ persist_buffers_[c] \in Seq(Filled(seen[c]))
         /\ Len(all_buffers_[c]) + Len(persist_buffers_[c]) = g_perthread_buffers

CountInv == nbufswritten \in [Loggers -> 0 .. IovMax]

\* A core has always seen a later tick than any epoch published, or about to
\* be published, for it.
FloorInv ==
    /\ epochs_ \in [Cores -> Nat]
    /\ epoch_prefixes \in [BOOLEAN -> [Cores -> Nat]]
    /\ \A c \in Cores : epochs_[c] < seen[c]
    /\ \A s \in BOOLEAN, c \in Cores : epoch_prefixes[s][c] < seen[c]

\* While a transaction is being logged its core's guard is open, so nobody
\* else holds the lock, and its epoch is the newest tick the core has seen.
CommitInv ==
    /\ \A c \in Cores : wk[c] = "finish" => guard[c] # NoGuard /\ commit_epoch[c] = seen[c]
    /\ \A c \in held : guard[c] = NoGuard
    /\ ppc \in {"recheck", "mark"} => pcore \in held
    /\ best_tick_inc < pseen

LoggerInv ==
    ClockType /\ PlaceType /\ BufferInv /\ CountInv /\ FloorInv /\ CommitInv

LEMMA CoreFacts ==
    /\ NMAXCORES \in Nat \ {0}
    /\ Cores \subseteq Nat
    /\ \A c : c \in Cores <=> c \in 0 .. NMAXCORES /\ c < NMAXCORES
    /\ \A c \in Cores : c + 1 \in 0 .. NMAXCORES
  BY LoggerAssumption DEF Cores

\* A set of natural numbers has a least element.
LEMMA LeastElement ==
    ASSUME NEW S \in SUBSET Nat, S # {}
    PROVE  \E m \in S : \A n \in S : m <= n
<1> DEFINE R == OpToRel(<, Nat)
<1>1. IsWellFoundedOn(R, Nat)
  BY NatLessThanWellFounded, Zenon
<1>2. \A x, y \in Nat : <<x, y>> \in R <=> x < y
  BY Zenon DEF OpToRel
<1> HIDE DEF R
<1>3. PICK m \in S : \A n \in S : ~(<<n, m>> \in R)
  BY <1>1, WFMin, Zenon
<1>4. \A n \in S : m <= n
  <2> TAKE n \in S
  <2>1. ~(n < m)
    BY <1>2, <1>3, Zenon
  <2> QED
    BY <2>1
<1> QED
  BY <1>4, Zenon

\* Assigned returns a core or the end of the loop.
LEMMA AssignedType ==
    ASSUME NEW l, NEW c \in Nat
    PROVE  Assigned(l, c) \in 0 .. NMAXCORES
<1> DEFINE mine == {d \in Cores : d >= c /\ logger[d] = l}
<1> DEFINE all == mine \cup {NMAXCORES}
<1>1. all \in SUBSET Nat /\ all # {}
  BY CoreFacts, Zenon
<1>2. \E d \in all : \A m \in all : d <= m
  <2> HIDE DEF all
  <2> QED
    BY <1>1, LeastElement, Zenon
<1>3. \E d \in mine \cup {NMAXCORES} : \A m \in mine : d <= m
  BY <1>2, Zenon
<1>4. Assigned(l, c) \in mine \cup {NMAXCORES}
  BY <1>3, Zenon DEF Assigned
<1> QED
  BY <1>4, CoreFacts

\* The size of an interval that starts at one.
LEMMA IntervalSize ==
    ASSUME NEW n \in Nat
    PROVE  IsFiniteSet(1 .. n) /\ Cardinality(1 .. n) = n
<1>1. /\ IsFiniteSet(1 .. n)
      /\ Cardinality(1 .. n) = IF 1 > n THEN 0 ELSE n - 1 + 1
  <2>1. 1 \in Int /\ n \in Int
    OBVIOUS
  <2> QED
    BY ONLY <2>1, FS_Interval, Zenon
<1>2. (IF 1 > n THEN 0 ELSE n - 1 + 1) = n
  OBVIOUS
<1> QED
  BY <1>1, <1>2

\* A pass takes a prefix of the core's buffers that fits the writev limit.
LEMMA TakenType ==
    ASSUME NEW l \in Loggers, NEW k \in Cores, NEW S, persist_buffers_[k] \in Seq(S),
           nbufswritten[l] \in 0 .. IovMax
    PROVE  /\ Taken(l, k) \in 0 .. Len(persist_buffers_[k])
           /\ nbufswritten[l] + Taken(l, k) \in 0 .. IovMax
<1> DEFINE q == persist_buffers_[k]
           room == IovMax - nbufswritten[l]
           T == {n \in 1 .. Len(q) :
                   /\ nbufswritten[l] + n <= IovMax
                   /\ \A i \in 1 .. n : q[i].epoch < cur_sync_epoch_ex[l] + g_max_lag_epochs}
<1>1. Len(q) \in Nat /\ room \in Nat /\ IovMax \in Nat
  BY LenProperties, LoggerAssumption
<1>2. T \in SUBSET (1 .. Len(q)) /\ T \in SUBSET (1 .. room)
  BY <1>1, SMTT(30)
<1>3. Taken(l, k) = Cardinality(T)
  BY Zenon DEF Taken
<1> HIDE DEF T, q, room
<1>4. IsFiniteSet(1 .. Len(q)) /\ Cardinality(1 .. Len(q)) = Len(q)
  BY <1>1, IntervalSize, Zenon
<1>5. IsFiniteSet(1 .. room) /\ Cardinality(1 .. room) = room
  BY <1>1, IntervalSize, Zenon
<1>6. IsFiniteSet(T) /\ Cardinality(T) <= Len(q)
  BY <1>2, <1>4, FS_Subset, Zenon
<1>7. Cardinality(T) <= room
  BY <1>2, <1>5, FS_Subset, ZenonT(60)
<1>8. Cardinality(T) \in Nat
  BY <1>6, FS_CardinalityType, Zenon
<1> QED
  BY <1>1, <1>3, <1>6, <1>7, <1>8 DEF q, room

\* No step of the logger makes a core forget a tick it has seen.
LEMMA SeenStep ==
    ASSUME LoggerInv, [LoggerNext]_lvars
    PROVE  /\ ClockType'
           /\ \A c \in Cores : seen[c] <= seen'[c]
<1> USE DEF ClockType
<1>0. ClockType /\ PlaceType
  BY Zenon DEF LoggerInv
<1>1. CASE clockstep
  BY <1>0, <1>1 DEF clockstep, Advance, Complete
<1>2. ASSUME NEW c \in Cores, Begin(c) PROVE ClockType' /\ \A d \in Cores : seen[d] <= seen'[d]
  BY <1>0, <1>2 DEF Begin, Enter, Visible
<1>3. ASSUME NEW c \in Cores, gen_commit_tid(c) PROVE ClockType' /\ \A d \in Cores : seen[d] <= seen'[d]
  BY <1>0, <1>3 DEF gen_commit_tid, Visible
<1>4. ASSUME NEW c \in Cores, End(c) PROVE ClockType' /\ \A d \in Cores : seen[d] <= seen'[d]
  BY <1>0, <1>4 DEF End, Exit, NoGuard
<1>5. CASE PersisterLocked
  BY <1>0, <1>5, CoreFacts DEF PersisterLocked, Borrow, PlaceType
<1>6. ASSUME Return(pcore, pseen) PROVE ClockType' /\ \A d \in Cores : seen[d] <= seen'[d]
  BY <1>0, <1>6 DEF Return, PlaceType
<1>7. CASE UNCHANGED clockvars
  BY <1>0, <1>7 DEF clockvars
<1>8. CASE PersisterRecheck
  BY <1>6, <1>7, <1>8, Zenon DEF PersisterRecheck
<1>9. CASE PersisterMark
  BY <1>6, <1>9, Zenon DEF PersisterMark
<1>10. ASSUME NEW c \in Cores, worker(c) PROVE ClockType' /\ \A d \in Cores : seen[d] <= seen'[d]
  BY <1>2, <1>3, <1>4, <1>7, <1>10, Zenon DEF worker, FinishPush, write_current_txn_into_buffer, thread_end
<1>11. ASSUME NEW l \in Loggers, writer(l) PROVE UNCHANGED clockvars
  BY <1>11, Zenon DEF writer, WriterStart, WriterCollect, WriterProcess, WriterLoad, WriterStore,
     WriterReturn, WriterEnd
<1>12. CASE persister
  BY <1>5, <1>7, <1>8, <1>9, <1>12, Zenon DEF persister, PersisterStart, PersisterPeek, PersisterBusy,
     PersisterLoad, PersisterStore
<1>13. CASE UNCHANGED lvars
  BY <1>7, <1>13, Zenon DEF lvars
<1> QED
  BY <1>1, <1>7, <1>10, <1>11, <1>12, <1>13, Zenon DEF LoggerNext

\* Program counters and loop indexes stay in range.
LEMMA PlaceStep ==
    ASSUME LoggerInv, [LoggerNext]_lvars
    PROVE  PlaceType'
<1> USE DEF PlaceType
<1>0. ClockType /\ PlaceType /\ FloorInv
  BY Zenon DEF LoggerInv
<1> USE CoreFacts
<1>1. CASE clockstep
  BY <1>0, <1>1, Zenon DEF clockstep, workervars, writervars, persistervars
<1>2. ASSUME NEW c \in Cores, Begin(c) PROVE PlaceType'
  BY <1>0, <1>2, Zenon DEF Begin, workervars, writervars, persistervars
<1>3. ASSUME NEW c \in Cores, gen_commit_tid(c) PROVE PlaceType'
  BY <1>0, <1>3 DEF gen_commit_tid, Visible, ClockType, writervars, persistervars
<1>4. ASSUME NEW c \in Cores, FinishPush(c) PROVE PlaceType'
  BY <1>0, <1>4, Zenon DEF FinishPush, workervars, writervars, persistervars
<1>5. ASSUME NEW c \in Cores, write_current_txn_into_buffer(c) PROVE PlaceType'
  BY <1>0, <1>5, Zenon DEF write_current_txn_into_buffer, writervars, persistervars
<1>6. ASSUME NEW c \in Cores, End(c) PROVE PlaceType'
  BY <1>0, <1>6, Zenon DEF End, workervars, writervars, persistervars
<1>7. ASSUME NEW c \in Cores, thread_end(c) PROVE PlaceType'
  BY <1>0, <1>7, Zenon DEF thread_end, writervars, persistervars
<1>8. ASSUME NEW l \in Loggers, WriterStart(l) PROVE PlaceType'
  <2>1. Assigned(l, 0) \in 0 .. NMAXCORES
    BY AssignedType, Zenon
  <2> QED
    BY <1>0, <1>8, <2>1 DEF WriterStart, workervars, persistervars
<1>9. ASSUME NEW l \in Loggers, WriterCollect(l) PROVE PlaceType'
  <2>1. wcore[l] \in Nat /\ NMAXCORES \in 0 .. NMAXCORES
    BY <1>0
  <2>2. Assigned(l, wcore[l] + 1) \in 0 .. NMAXCORES
    BY <2>1, AssignedType
  <2>3. wpc[l] = "collect" /\ wpc' = wpc /\ wcore' \in [Loggers -> 0 .. NMAXCORES]
    BY <1>0, <1>9, <2>1, <2>2, Zenon DEF WriterCollect
  <2>4. \A m \in Loggers : m # l => wcore'[m] = wcore[m]
    BY <1>0, <1>9, Zenon DEF WriterCollect
  <2>5. \A m \in Loggers : wpc'[m] \in {"store", "return"} => wcore'[m] < NMAXCORES
    BY <1>0, <2>3, <2>4, Zenon
  <2> QED
    BY <1>0, <1>9, <2>3, <2>5, Zenon DEF WriterCollect, workervars, persistervars
<1>10. ASSUME NEW l \in Loggers, WriterProcess(l) PROVE PlaceType'
  <2>1. Assigned(l, 0) \in 0 .. NMAXCORES
    BY AssignedType, Zenon
  <2> QED
    BY <1>0, <1>10, <2>1, Zenon DEF WriterProcess, workervars, persistervars
<1>11. ASSUME NEW l \in Loggers, WriterLoad(l) PROVE PlaceType'
  BY <1>0, <1>11, Zenon DEF WriterLoad, FloorInv, workervars, persistervars
<1>12. ASSUME NEW l \in Loggers, WriterStore(l) PROVE PlaceType'
  BY <1>0, <1>12, Zenon DEF WriterStore, workervars, persistervars
<1>13. ASSUME NEW l \in Loggers, WriterReturn(l) PROVE PlaceType'
  <2>1. Assigned(l, wcore[l] + 1) \in 0 .. NMAXCORES
    BY <1>0, AssignedType
  <2> QED
    BY <1>0, <1>13, <2>1, ZenonT(60) DEF WriterReturn, workervars, persistervars
<1>14. ASSUME NEW l \in Loggers, WriterEnd(l) PROVE PlaceType'
  BY <1>0, <1>14, Zenon DEF WriterEnd, workervars, persistervars
<1>15. ASSUME NEW l \in Loggers, writer(l) PROVE PlaceType'
  BY <1>8, <1>9, <1>10, <1>11, <1>12, <1>13, <1>14, <1>15, Zenon DEF writer
<1>16. ASSUME NEW c \in Cores, worker(c) PROVE PlaceType'
  BY <1>2, <1>3, <1>4, <1>5, <1>6, <1>7, <1>16, Zenon DEF worker
<1>17. CASE PersisterStart
  <2>1. PICK t \in pseen .. tick : best_tick_inc' = t - 1 /\ pseen' = t
    BY <1>17, Zenon DEF PersisterStart
  <2>2. t \in Nat /\ t > 0 /\ Infinity \in Nat
    BY <1>0, <2>1, LoggerAssumption, SMTT(20) DEF ClockType, LoggerInv, CommitInv, Infinity
  <2> QED
    BY <1>0, <1>17, <2>1, <2>2 DEF PersisterStart, workervars, writervars
<1>18. CASE PersisterPeek \/ PersisterLocked \/ PersisterBusy \/ PersisterRecheck
  BY <1>0, <1>18, Zenon DEF PersisterPeek, PersisterLocked, PersisterBusy, PersisterRecheck, workervars, writervars
<1>19. CASE PersisterMark
  BY <1>0, <1>19, Zenon DEF PersisterMark, Lesser, workervars, writervars
<1>20. CASE PersisterLoad
  <2>1. pcore \in Cores
    BY <1>0, <1>20, Zenon DEF PersisterLoad
  <2>2. epochs_[pcore] \in Nat
    BY <1>0, <2>1, Zenon DEF FloorInv
  <2>3. Lesser(epochs_[pcore], min_so_far) \in Nat
    BY <1>0, <2>2, Zenon DEF Lesser
  <2>4. (IF epochs_[pcore] >= pseen THEN epochs_[pcore] + 1 ELSE pseen) \in Nat
    BY <1>0, <2>2
  <2> QED
    BY <1>0, <1>20, <2>1, <2>3, <2>4, Zenon DEF PersisterLoad, workervars, writervars
<1>21. CASE PersisterStore
  BY <1>0, <1>21, Zenon DEF PersisterStore, workervars, writervars
<1>22. CASE UNCHANGED lvars
  BY <1>0, <1>22, Zenon DEF lvars, workervars, writervars, persistervars
<1> QED
  BY <1>1, <1>15, <1>16, <1>17, <1>18, <1>19, <1>20, <1>21, <1>22, Zenon DEF LoggerNext, persister

LEMMA FreshGrows ==
    ASSUME NEW n \in Nat, NEW m \in Nat, n <= m
    PROVE  Fresh(n) \subseteq Fresh(m) /\ Filled(n) \subseteq Filled(m)
  BY DEF Fresh, Filled, pbuffer

\* Buffers that stay where they are stay within what their core has seen.
LEMMA BuffersKept ==
    ASSUME BufferInv, ClockType, ClockType', \A c \in Cores : seen[c] <= seen'[c], UNCHANGED bufs
    PROVE  BufferInv'
<1>1. ASSUME NEW c \in Cores
      PROVE  all_buffers_[c] \in Seq(Fresh(seen'[c])) /\ persist_buffers_[c] \in Seq(Filled(seen'[c]))
  <2>1. seen[c] \in Nat /\ seen'[c] \in Nat /\ seen[c] <= seen'[c]
    BY Zenon DEF ClockType
  <2>2. Fresh(seen[c]) \subseteq Fresh(seen'[c]) /\ Filled(seen[c]) \subseteq Filled(seen'[c])
    BY <2>1, FreshGrows, Zenon
  <2>3. all_buffers_[c] \in Seq(Fresh(seen[c])) /\ persist_buffers_[c] \in Seq(Filled(seen[c]))
    BY Zenon DEF BufferInv
  <2>4. all_buffers_[c] \in Seq(Fresh(seen'[c]))
    BY <2>2, <2>3, SeqMonotonic, Zenon
  <2>5. persist_buffers_[c] \in Seq(Filled(seen'[c]))
    BY <2>2, <2>3, SeqMonotonic, Zenon
  <2> QED
    BY <2>4, <2>5, Zenon
<1>2. all_buffers_' = all_buffers_ /\ persist_buffers_' = persist_buffers_
  BY Zenon DEF bufs
<1> QED
  BY <1>1, <1>2, Zenon DEF BufferInv

\* One core's buffers may be replaced by others of the right kind and number.
LEMMA BuffersReplaced ==
    ASSUME BufferInv, seen' = seen, NEW c \in Cores,
           NEW a \in Seq(Fresh(seen[c])), NEW p \in Seq(Filled(seen[c])),
           Len(a) + Len(p) = g_perthread_buffers,
           all_buffers_' = [all_buffers_ EXCEPT ![c] = a],
           persist_buffers_' = [persist_buffers_ EXCEPT ![c] = p]
    PROVE  BufferInv'
<1>1. a \in Seq(pbuffer) /\ p \in Seq(pbuffer)
  <2>1. Fresh(seen[c]) \subseteq pbuffer /\ Filled(seen[c]) \subseteq pbuffer
    BY Zenon DEF Fresh, Filled
  <2>2. a \in Seq(pbuffer)
    BY <2>1, SeqMonotonic, Zenon
  <2>3. p \in Seq(pbuffer)
    BY <2>1, SeqMonotonic, Zenon
  <2> QED
    BY <2>2, <2>3, Zenon
<1>2. all_buffers_' \in [Cores -> Seq(pbuffer)] /\ persist_buffers_' \in [Cores -> Seq(pbuffer)]
  BY <1>1, Zenon DEF BufferInv
<1>3. \A d \in Cores : d # c => all_buffers_'[d] = all_buffers_[d] /\ persist_buffers_'[d] = persist_buffers_[d]
  BY Zenon DEF BufferInv
<1>4. all_buffers_'[c] = a /\ persist_buffers_'[c] = p
  BY Zenon DEF BufferInv
<1> QED
  BY <1>2, <1>3, <1>4, Zenon DEF BufferInv

\* Pushing a buffer that holds a transaction.
LEMMA BufferPushed ==
    ASSUME BufferInv, seen' = seen, NEW c \in Cores, all_buffers_[c] # <<>>,
           Head(all_buffers_[c]).nentries > 0, PushHead(c)
    PROVE  BufferInv'
<1> DEFINE a == all_buffers_[c]
           p == persist_buffers_[c]
           n == seen[c]
<1>1. a \in Seq(Fresh(n)) /\ p \in Seq(Filled(n)) /\ Len(a) + Len(p) = g_perthread_buffers
  BY Zenon DEF BufferInv
<1>2. /\ all_buffers_' = [all_buffers_ EXCEPT ![c] = Tail(a)]
      /\ persist_buffers_' = [persist_buffers_ EXCEPT ![c] = Append(p, Head(a))]
  BY Zenon DEF PushHead
<1>3. a # <<>> /\ Head(a).nentries > 0
  BY Zenon
<1> HIDE DEF a, p
<1>4. Head(a) \in Fresh(n) /\ Tail(a) \in Seq(Fresh(n)) /\ Len(Tail(a)) = Len(a) - 1
  BY <1>1, <1>3, HeadTailProperties, Zenon
<1>5. Head(a) \in Filled(n)
  BY <1>3, <1>4, Zenon DEF Fresh, Filled
<1>6. Append(p, Head(a)) \in Seq(Filled(n)) /\ Len(Append(p, Head(a))) = Len(p) + 1
  BY <1>1, <1>5, AppendProperties
<1>7. Len(a) \in Nat /\ Len(p) \in Nat
  BY <1>1, LenProperties, Zenon
<1>8. Len(Tail(a)) + Len(Append(p, Head(a))) = g_perthread_buffers
  BY <1>1, <1>4, <1>6, <1>7
<1> QED
  BY <1>2, <1>4, <1>6, <1>8, BuffersReplaced, Zenon

\* What adding a transaction to a buffer, and marking a pushed one, preserve.
LEMMA EntryAdded ==
    ASSUME NEW n \in Nat, n > 0, NEW h \in Fresh(n), h.nentries < BufferTxns
    PROVE  [h EXCEPT !.nentries = @ + 1, !.epoch = n] \in Fresh(n)
<1> DEFINE b == [h EXCEPT !.nentries = @ + 1, !.epoch = n]
<1>1. h \in pbuffer /\ h.nentries \in 0 .. BufferTxns /\ h.io \in BOOLEAN
  BY Zenon DEF Fresh, pbuffer
<1>2. h.nentries + 1 \in 0 .. BufferTxns
  BY <1>1, LoggerAssumption
<1>3. b \in pbuffer
  BY <1>1, <1>2, Zenon DEF pbuffer
<1>4. b.epoch = n
  BY <1>1, Zenon DEF pbuffer
<1> HIDE DEF b
<1>5. b \in Fresh(n)
  BY <1>3, <1>4 DEF Fresh
<1> QED
  BY <1>5, Zenon DEF b

LEMMA Marked ==
    ASSUME NEW n \in Nat, NEW h \in Filled(n), NEW m \in BOOLEAN
    PROVE  [h EXCEPT !.io = m] \in Filled(n)
<1>1. h \in pbuffer /\ h.epoch > 0 /\ h.epoch <= n
  BY Zenon DEF Filled
<1>2. [h EXCEPT !.io = m] \in pbuffer /\ [h EXCEPT !.io = m].epoch = h.epoch
  BY <1>1, Zenon DEF pbuffer
<1> QED
  BY <1>1, <1>2, Zenon DEF Filled

\* Logging a transaction into the head buffer.
LEMMA BufferWritten ==
    ASSUME LoggerInv, NEW c \in Cores, write_current_txn_into_buffer(c)
    PROVE  BufferInv'
<1> DEFINE a == all_buffers_[c]
           p == persist_buffers_[c]
           n == seen[c]
           b == [Head(a) EXCEPT !.nentries = @ + 1, !.epoch = commit_epoch[c]]
<1>1. BufferInv /\ ClockType /\ FloorInv /\ CommitInv /\ PlaceType
  BY Zenon DEF LoggerInv
<1>2. a \in Seq(Fresh(n)) /\ p \in Seq(Filled(n)) /\ Len(a) + Len(p) = g_perthread_buffers
  BY <1>1, Zenon DEF BufferInv
<1>3. n \in Nat /\ n > 0 /\ commit_epoch[c] = n
  BY <1>1 DEF write_current_txn_into_buffer, ClockType, FloorInv, CommitInv
<1>4. a # <<>> /\ Head(a).nentries < BufferTxns /\ seen' = seen
  BY Zenon DEF write_current_txn_into_buffer, clockvars
<1>5. all_buffers_' = [all_buffers_ EXCEPT ![c] = [a EXCEPT ![1] = b]]
  BY <1>1, Zenon DEF write_current_txn_into_buffer, BufferInv
<1>6. persist_buffers_' = [persist_buffers_ EXCEPT ![c] = p]
  BY <1>1, Zenon DEF write_current_txn_into_buffer, BufferInv
<1> HIDE DEF a, p, n
<1>7. Head(a) \in Fresh(n)
  BY <1>2, <1>4, HeadTailProperties, Zenon
<1>8. b \in Fresh(n)
  BY <1>3, <1>4, <1>7, EntryAdded, Zenon
<1> HIDE DEF b
<1>9. 1 \in 1 .. Len(a)
  BY <1>2, <1>4, EmptySeq
<1>10. [a EXCEPT ![1] = b] \in Seq(Fresh(n)) /\ Len([a EXCEPT ![1] = b]) = Len(a)
  BY <1>2, <1>8, <1>9, ExceptSeq
<1>11. Len([a EXCEPT ![1] = b]) + Len(p) = g_perthread_buffers
  BY <1>2, <1>10, Zenon
<1> QED
  BY <1>1, <1>2, <1>4, <1>5, <1>6, <1>10, <1>11, BuffersReplaced, Zenon DEF n

\* The writer's pass marks the buffers it takes.
LEMMA BuffersCollected ==
    ASSUME LoggerInv, NEW l \in Loggers, WriterCollect(l)
    PROVE  BufferInv'
<1> DEFINE k == wcore[l]
           a == all_buffers_[k]
           q == persist_buffers_[k]
           n == seen[k]
           m == Taken(l, k)
           r == [i \in 1 .. Len(q) |-> [q[i] EXCEPT !.io = (i <= m)]]
<1>1. BufferInv /\ PlaceType /\ ClockType
  BY Zenon DEF LoggerInv
<1>2. k \in Cores
  BY <1>1, CoreFacts, Zenon DEF WriterCollect, PlaceType
<1>3. a \in Seq(Fresh(n)) /\ q \in Seq(Filled(n)) /\ Len(a) + Len(q) = g_perthread_buffers /\ n \in Nat
  BY <1>1, <1>2, Zenon DEF BufferInv, ClockType
<1>4. persist_buffers_' = [persist_buffers_ EXCEPT ![k] = r] /\ seen' = seen
  BY Zenon DEF WriterCollect, clockvars
<1>5. all_buffers_' = [all_buffers_ EXCEPT ![k] = a]
  BY <1>1, Zenon DEF WriterCollect, BufferInv
<1> HIDE DEF k, a, q, n, m
<1>6. Len(q) \in Nat /\ \A i \in 1 .. Len(q) : q[i] \in Filled(n)
  BY <1>3, LenProperties, ElementOfSeq, Zenon
<1>7. \A i \in 1 .. Len(q) : [q[i] EXCEPT !.io = (i <= m)] \in Filled(n)
  <2> SUFFICES ASSUME NEW i \in 1 .. Len(q)
               PROVE  [q[i] EXCEPT !.io = (i <= m)] \in Filled(n)
    BY Zenon
  <2>1. (i <= m) \in BOOLEAN
    OBVIOUS
  <2> QED
    BY <1>3, <1>6, <2>1, Marked, Zenon
<1>8. r \in [1 .. Len(q) -> Filled(n)]
  BY <1>7, Zenon
<1> HIDE DEF r
<1>9. r \in Seq(Filled(n)) /\ Len(r) = Len(q)
  BY <1>6, <1>8
<1>10. Len(a) + Len(r) = g_perthread_buffers
  BY <1>3, <1>9, Zenon
<1> QED
  BY <1>1, <1>2, <1>3, <1>4, <1>5, <1>9, <1>10, BuffersReplaced, Zenon DEF n

\* The writer empties a durable buffer and gives it back.
LEMMA BuffersReturned ==
    ASSUME LoggerInv, NEW l \in Loggers, WriterReturn(l)
    PROVE  BufferInv'
<1> DEFINE k == wcore[l]
           a == all_buffers_[k]
           q == persist_buffers_[k]
           n == seen[k]
<1>1. BufferInv /\ PlaceType /\ ClockType
  BY Zenon DEF LoggerInv
<1>2. k \in Cores
  BY <1>1, CoreFacts, Zenon DEF WriterReturn, PlaceType
<1>3. a \in Seq(Fresh(n)) /\ q \in Seq(Filled(n)) /\ Len(a) + Len(q) = g_perthread_buffers /\ n \in Nat
  BY <1>1, <1>2, Zenon DEF BufferInv, ClockType
<1>4. seen' = seen
  BY Zenon DEF WriterReturn, clockvars
<1>5. CASE UNCHANGED bufs
  <2>1. ClockType' /\ \A c \in Cores : seen[c] <= seen'[c]
    BY <1>1 DEF WriterReturn, clockvars, ClockType
  <2> QED
    BY <1>1, <1>5, <2>1, BuffersKept, Zenon
<1>6. CASE q # <<>> /\ Head(q).io
  <2>1. /\ persist_buffers_' = [persist_buffers_ EXCEPT ![k] = Tail(q)]
        /\ all_buffers_' = [all_buffers_ EXCEPT ![k] = Append(a, empty)]
    BY <1>6, Zenon DEF WriterReturn
  <2> HIDE DEF k, a, q, n
  <2>2. empty \in Fresh(n)
    BY <1>3, LoggerAssumption DEF empty, Fresh, pbuffer
  <2>3. Append(a, empty) \in Seq(Fresh(n)) /\ Len(Append(a, empty)) = Len(a) + 1
    BY <1>3, <2>2, AppendProperties, Zenon
  <2>4. Tail(q) \in Seq(Filled(n)) /\ Len(Tail(q)) = Len(q) - 1
    BY <1>3, <1>6, HeadTailProperties, Zenon
  <2>5. Len(a) \in Nat /\ Len(q) \in Nat
    BY <1>3, LenProperties, Zenon
  <2>6. Len(Append(a, empty)) + Len(Tail(q)) = g_perthread_buffers
    BY <1>3, <2>3, <2>4, <2>5
  <2> QED
    BY <1>1, <1>2, <1>4, <2>1, <2>3, <2>4, <2>6, BuffersReplaced, Zenon DEF n
<1> QED
  BY <1>5, <1>6, Zenon DEF WriterReturn

LEMMA BufferStep ==
    ASSUME LoggerInv, [LoggerNext]_lvars
    PROVE  BufferInv'
<1>0. BufferInv /\ ClockType /\ ClockType' /\ \A c \in Cores : seen[c] <= seen'[c]
  BY SeenStep, Zenon DEF LoggerInv
<1>1. CASE UNCHANGED bufs
  BY <1>0, <1>1, BuffersKept, Zenon
<1>2. ASSUME NEW c \in Cores, FinishPush(c) PROVE BufferInv'
  <2>1. all_buffers_[c] # <<>> /\ PushHead(c) /\ seen' = seen
    BY <1>2, Zenon DEF FinishPush, clockvars
  <2>2. Head(all_buffers_[c]) \in pbuffer
    BY <1>0, <2>1, HeadTailProperties, Zenon DEF BufferInv
  <2>3. Head(all_buffers_[c]).nentries = BufferTxns \/ Head(all_buffers_[c]).nentries # 0
    BY <1>2, Zenon DEF FinishPush, can_hold_tid
  <2>4. Head(all_buffers_[c]).nentries > 0
    BY <2>2, <2>3, LoggerAssumption DEF pbuffer
  <2> QED
    BY <1>0, <2>1, <2>4, BufferPushed, Zenon
<1>3. ASSUME NEW c \in Cores, thread_end(c) PROVE BufferInv'
  <2>1. seen' = seen
    BY <1>3, Zenon DEF thread_end, clockvars
  <2>2. CASE all_buffers_[c] # <<>> /\ Head(all_buffers_[c]).nentries > 0
    <3>1. PushHead(c)
      BY <1>3, <2>2, Zenon DEF thread_end
    <3> QED
      BY <1>0, <2>1, <2>2, <3>1, BufferPushed, Zenon
  <2>3. CASE ~(all_buffers_[c] # <<>> /\ Head(all_buffers_[c]).nentries > 0)
    BY <1>1, <1>3, <2>3, Zenon DEF thread_end
  <2> QED
    BY <2>2, <2>3, Zenon
<1>4. ASSUME NEW c \in Cores, worker(c) PROVE BufferInv'
  <2>1. CASE Begin(c) \/ gen_commit_tid(c) \/ End(c)
    BY <1>1, <2>1, Zenon DEF Begin, gen_commit_tid, End
  <2> QED
    BY <1>2, <1>3, <1>4, <2>1, BufferWritten, Zenon DEF worker
<1>5. ASSUME NEW l \in Loggers, writer(l) PROVE BufferInv'
  <2>1. CASE WriterStart(l) \/ WriterProcess(l) \/ WriterLoad(l) \/ WriterStore(l) \/ WriterEnd(l)
    BY <1>1, <2>1, Zenon DEF WriterStart, WriterProcess, WriterLoad, WriterStore, WriterEnd
  <2> QED
    BY <1>5, <2>1, BuffersCollected, BuffersReturned, Zenon DEF writer
<1>6. CASE persister
  BY <1>1, <1>6, Zenon DEF persister, PersisterStart, PersisterPeek, PersisterLocked, PersisterBusy,
     PersisterRecheck, PersisterMark, PersisterLoad, PersisterStore
<1>7. CASE clockstep
  BY <1>1, <1>7, Zenon DEF clockstep
<1>8. CASE UNCHANGED lvars
  BY <1>1, <1>8, Zenon DEF lvars, bufs
<1> QED
  BY <1>4, <1>5, <1>6, <1>7, <1>8, Zenon DEF LoggerNext

LEMMA CountStep ==
    ASSUME LoggerInv, [LoggerNext]_lvars
    PROVE  CountInv'
<1>0. CountInv /\ PlaceType /\ BufferInv /\ 0 \in 0 .. IovMax
  BY LoggerAssumption DEF LoggerInv
<1>1. CASE UNCHANGED nbufswritten
  BY <1>0, <1>1, Zenon DEF CountInv
<1>2. ASSUME NEW l \in Loggers, WriterStart(l) PROVE CountInv'
  BY <1>0, <1>2, Zenon DEF WriterStart, CountInv
<1>3. ASSUME NEW l \in Loggers, WriterCollect(l) PROVE CountInv'
  <2>1. wcore[l] \in Cores
    BY <1>0, <1>3, CoreFacts, Zenon DEF WriterCollect, PlaceType
  <2>2. persist_buffers_[wcore[l]] \in Seq(pbuffer) /\ nbufswritten[l] \in 0 .. IovMax
    BY <1>0, <2>1, Zenon DEF BufferInv, CountInv
  <2>3. nbufswritten[l] + Taken(l, wcore[l]) \in 0 .. IovMax
    BY <2>1, <2>2, TakenType, Zenon
  <2>4. nbufswritten' = [nbufswritten EXCEPT ![l] = nbufswritten[l] + Taken(l, wcore[l])]
    BY <1>0, <1>3, Zenon DEF WriterCollect, CountInv
  <2> QED
    BY <1>0, <2>3, <2>4, Zenon DEF CountInv
<1>4. ASSUME NEW l \in Loggers, writer(l) PROVE CountInv'
  <2>1. CASE WriterProcess(l) \/ WriterLoad(l) \/ WriterStore(l) \/ WriterReturn(l) \/ WriterEnd(l)
    BY <1>1, <2>1, Zenon DEF WriterProcess, WriterLoad, WriterStore, WriterReturn, WriterEnd
  <2> QED
    BY <1>2, <1>3, <1>4, <2>1, Zenon DEF writer
<1>5. ASSUME NEW c \in Cores, worker(c) PROVE CountInv'
  BY <1>1, <1>5, Zenon DEF worker, Begin, gen_commit_tid, FinishPush, write_current_txn_into_buffer,
     End, thread_end, writervars
<1>6. CASE persister
  BY <1>1, <1>6, Zenon DEF persister, PersisterStart, PersisterPeek, PersisterLocked, PersisterBusy,
     PersisterRecheck, PersisterMark, PersisterLoad, PersisterStore, writervars
<1>7. CASE clockstep
  BY <1>1, <1>7, Zenon DEF clockstep, writervars
<1>8. CASE UNCHANGED lvars
  BY <1>1, <1>8, Zenon DEF lvars, writervars
<1> QED
  BY <1>4, <1>5, <1>6, <1>7, <1>8, Zenon DEF LoggerNext

-----------------------------------------------------------------------------
\* CommitAfterSync and type correctness.

\* A floor stays below a clock that does not go back.
LEMMA FloorKept ==
    ASSUME LoggerInv, [LoggerNext]_lvars, UNCHANGED <<epochs_, epoch_prefixes>>
    PROVE  FloorInv'
<1>1. FloorInv /\ ClockType /\ ClockType' /\ \A c \in Cores : seen[c] <= seen'[c]
  BY SeenStep, Zenon DEF LoggerInv
<1>2. \A e, m, n \in Nat : e < m /\ m <= n => e < n
  OBVIOUS
<1>3. \A c \in Cores : epochs_[c] < seen'[c]
  BY <1>1, <1>2, Zenon DEF FloorInv, ClockType
<1>4. \A s \in BOOLEAN, c \in Cores : epoch_prefixes[s][c] < seen'[c]
  <2> SUFFICES ASSUME NEW s \in BOOLEAN, NEW c \in Cores PROVE epoch_prefixes[s][c] < seen'[c]
    BY Zenon
  <2>1. epoch_prefixes[s][c] \in Nat /\ epoch_prefixes[s][c] < seen[c]
    BY <1>1, Zenon DEF FloorInv
  <2>2. seen[c] \in Nat /\ seen'[c] \in Nat /\ seen[c] <= seen'[c]
    BY <1>1, Zenon DEF ClockType
  <2> QED
    BY <1>2, <2>1, <2>2, Zenon
<1> QED
  BY <1>1, <1>3, <1>4, Zenon DEF FloorInv

\* The writer publishes the prefix it has made durable.
LEMMA FloorStored ==
    ASSUME LoggerInv, NEW l \in Loggers, WriterStore(l)
    PROVE  FloorInv'
<1> DEFINE k == wcore[l]
           x1 == epoch_prefixes[sense[l]][k]
           e == IF x1 > x0[l] THEN x1 ELSE epochs_[k]
<1>1. FloorInv /\ PlaceType
  BY Zenon DEF LoggerInv
<1>2. k \in Cores /\ sense[l] \in BOOLEAN
  BY <1>1, CoreFacts, Zenon DEF WriterStore, PlaceType
<1>3. x1 \in Nat /\ x1 < seen[k] /\ epochs_[k] \in Nat /\ epochs_[k] < seen[k]
  BY <1>1, <1>2, Zenon DEF FloorInv
<1>4. e \in Nat /\ e < seen[k]
  BY <1>3, Zenon
<1>5. epochs_' = [epochs_ EXCEPT ![k] = e] /\ seen' = seen /\ epoch_prefixes' = epoch_prefixes
  BY <1>1, Zenon DEF WriterStore, FloorInv, clockvars
<1> HIDE DEF k, e
<1> QED
  BY <1>1, <1>2, <1>4, <1>5, Zenon DEF FloorInv

\* The prefix of a pass ends before the epoch of the last buffer taken.
LEMMA FloorCollected ==
    ASSUME LoggerInv, NEW l \in Loggers, WriterCollect(l)
    PROVE  FloorInv'
<1> DEFINE k == wcore[l]
           s == sense[l]
           q == persist_buffers_[k]
           n == Taken(l, k)
           e == IF n > 0 THEN q[n].epoch - 1 ELSE epoch_prefixes[s][k]
<1>1. FloorInv /\ PlaceType /\ BufferInv /\ CountInv /\ ClockType
  BY Zenon DEF LoggerInv
<1>2. k \in Cores /\ s \in BOOLEAN /\ nbufswritten[l] \in 0 .. IovMax /\ seen[k] \in Nat
  BY <1>1, CoreFacts, Zenon DEF WriterCollect, PlaceType, CountInv, ClockType
<1>3. q \in Seq(Filled(seen[k]))
  BY <1>1, <1>2, Zenon DEF BufferInv
<1>4. n \in 0 .. Len(q)
  BY <1>2, <1>3, TakenType, Zenon
<1>5. epoch_prefixes[s][k] \in Nat /\ epoch_prefixes[s][k] < seen[k]
  BY <1>1, <1>2, Zenon DEF FloorInv
<1>6. epoch_prefixes' = [epoch_prefixes EXCEPT ![s][k] = e] /\ seen' = seen /\ epochs_' = epochs_
  BY <1>1, <1>2, Zenon DEF WriterCollect, FloorInv, clockvars
<1> HIDE DEF k, s, q, n
<1>7. CASE n > 0
  <2>1. n \in 1 .. Len(q)
    BY <1>3, <1>4, <1>7, LenProperties
  <2>2. q[n] \in Filled(seen[k])
    BY <1>3, <2>1, ElementOfSeq, Zenon
  <2>3. q[n].epoch \in Nat /\ q[n].epoch > 0 /\ q[n].epoch <= seen[k]
    BY <2>2, Zenon DEF Filled, pbuffer
  <2>4. q[n].epoch - 1 \in Nat /\ q[n].epoch - 1 < seen[k]
    BY <1>2, <2>3
  <2>5. e = q[n].epoch - 1
    BY <1>7, Zenon
  <2>6. e \in Nat /\ e < seen[k]
    BY <2>4, <2>5, Zenon
  <2> HIDE DEF e
  <2> QED
    BY <1>1, <1>2, <1>6, <2>6, Zenon DEF FloorInv
<1>8. CASE ~(n > 0)
  <2>1. e \in Nat /\ e < seen[k]
    BY <1>5, <1>8, Zenon
  <2> HIDE DEF e
  <2> QED
    BY <1>1, <1>2, <1>6, <2>1, Zenon DEF FloorInv
<1> QED
  BY <1>7, <1>8, Zenon

\* Unlocking an idle core tells it of a later tick than the one marked.
LEMMA FloorMarked ==
    ASSUME LoggerInv, PersisterMark
    PROVE  FloorInv'
<1>1. FloorInv /\ PlaceType /\ ClockType /\ CommitInv
  BY Zenon DEF LoggerInv
<1>2. pcore \in Cores /\ best_tick_inc \in Nat /\ pseen \in Nat /\ best_tick_inc < pseen
  BY <1>1, CoreFacts, Zenon DEF PersisterMark, PlaceType, CommitInv
<1> DEFINE n == IF pseen > seen[pcore] THEN pseen ELSE seen[pcore]
<1>3. /\ epochs_' = [epochs_ EXCEPT ![pcore] = best_tick_inc]
      /\ seen' = [seen EXCEPT ![pcore] = n]
      /\ epoch_prefixes' = epoch_prefixes
  BY <1>1, Zenon DEF PersisterMark, Return, ClockType, writervars
<1>4. n \in Nat /\ best_tick_inc < n /\ n >= seen[pcore] /\ seen[pcore] \in Nat
  BY <1>1, <1>2 DEF ClockType
<1> HIDE DEF n
<1>5. epochs_' \in [Cores -> Nat] /\ \A c \in Cores : epochs_'[c] < seen'[c]
  BY <1>1, <1>2, <1>3, <1>4, Zenon DEF FloorInv, ClockType
<1>6. \A s \in BOOLEAN, c \in Cores : epoch_prefixes[s][c] < seen'[c]
  <2> SUFFICES ASSUME NEW s \in BOOLEAN, NEW c \in Cores PROVE epoch_prefixes[s][c] < seen'[c]
    BY Zenon
  <2>1. epoch_prefixes[s][c] \in Nat /\ epoch_prefixes[s][c] < seen[c] /\ seen[c] \in Nat
    BY <1>1, Zenon DEF FloorInv, ClockType
  <2>2. seen'[c] = IF c = pcore THEN n ELSE seen[c]
    BY <1>1, <1>2, <1>3, Zenon DEF ClockType
  <2> QED
    BY <1>4, <2>1, <2>2
<1> QED
  BY <1>1, <1>3, <1>5, <1>6, Zenon DEF FloorInv

LEMMA FloorStep ==
    ASSUME LoggerInv, [LoggerNext]_lvars
    PROVE  FloorInv'
<1>1. CASE UNCHANGED <<epochs_, epoch_prefixes>>
  BY <1>1, FloorKept, Zenon
<1>2. ASSUME NEW c \in Cores, worker(c) PROVE FloorInv'
  BY <1>1, <1>2, Zenon DEF worker, Begin, gen_commit_tid, FinishPush, write_current_txn_into_buffer,
     End, thread_end, writervars
<1>3. ASSUME NEW l \in Loggers, writer(l) PROVE FloorInv'
  <2>1. CASE WriterStart(l) \/ WriterProcess(l) \/ WriterLoad(l) \/ WriterReturn(l) \/ WriterEnd(l)
    BY <1>1, <2>1, Zenon DEF WriterStart, WriterProcess, WriterLoad, WriterReturn, WriterEnd
  <2> QED
    BY <1>3, <2>1, FloorStored, FloorCollected, Zenon DEF writer
<1>4. CASE persister
  <2>1. CASE \/ PersisterStart \/ PersisterPeek \/ PersisterLocked \/ PersisterBusy
             \/ PersisterRecheck \/ PersisterLoad \/ PersisterStore
    BY <1>1, <2>1, Zenon DEF PersisterStart, PersisterPeek, PersisterLocked, PersisterBusy,
       PersisterRecheck, PersisterLoad, PersisterStore, writervars
  <2> QED
    BY <1>4, <2>1, FloorMarked, Zenon DEF persister
<1>5. CASE clockstep
  BY <1>1, <1>5, Zenon DEF clockstep, writervars
<1>6. CASE UNCHANGED lvars
  BY <1>1, <1>6, Zenon DEF lvars, writervars
<1> QED
  BY <1>2, <1>3, <1>4, <1>5, <1>6, Zenon DEF LoggerNext

LEMMA CommitStep ==
    ASSUME LoggerInv, [LoggerNext]_lvars
    PROVE  CommitInv'
<1>0. CommitInv /\ ClockType /\ PlaceType /\ FloorInv
  BY Zenon DEF LoggerInv
<1> USE DEF CommitInv
<1>1. CASE UNCHANGED <<wk, guard, commit_epoch, seen, held, ppc, pcore, best_tick_inc, pseen>>
  BY <1>0, <1>1, Zenon
<1>2. CASE clockstep
  BY <1>1, <1>2, Zenon DEF clockstep, Advance, Complete, workervars, persistervars
<1>3. ASSUME NEW c \in Cores, Begin(c) PROVE CommitInv'
  BY <1>0, <1>3 DEF Begin, Enter, Visible, ClockType, PlaceType, workervars, persistervars
<1>4. ASSUME NEW c \in Cores, gen_commit_tid(c) PROVE CommitInv'
  BY <1>0, <1>4 DEF gen_commit_tid, Visible, ClockType, PlaceType, persistervars
<1>5. ASSUME NEW c \in Cores, FinishPush(c) PROVE CommitInv'
  BY <1>1, <1>5, Zenon DEF FinishPush, clockvars, workervars, persistervars
<1>6. ASSUME NEW c \in Cores, write_current_txn_into_buffer(c) PROVE CommitInv'
  BY <1>0, <1>6, Zenon DEF write_current_txn_into_buffer, clockvars, PlaceType, persistervars
<1>7. ASSUME NEW c \in Cores, End(c) PROVE CommitInv'
  BY <1>0, <1>7, Zenon DEF End, Exit, ClockType, PlaceType, workervars, persistervars
<1>8. ASSUME NEW c \in Cores, thread_end(c) PROVE CommitInv'
  BY <1>0, <1>8, Zenon DEF thread_end, clockvars, PlaceType, persistervars
<1>9. ASSUME NEW l \in Loggers, writer(l) PROVE CommitInv'
  BY <1>1, <1>9, Zenon DEF writer, WriterStart, WriterCollect, WriterProcess, WriterLoad, WriterStore,
     WriterReturn, WriterEnd, clockvars, workervars, persistervars
<1>10. CASE PersisterStart
  <2>1. PICK t \in pseen .. tick : best_tick_inc' = t - 1 /\ pseen' = t
    BY <1>10, Zenon DEF PersisterStart
  <2>2. t \in Int
    BY <1>0, <2>1 DEF PlaceType, ClockType
  <2>3. best_tick_inc' < pseen'
    BY <2>1, <2>2
  <2> QED
    BY <1>0, <1>10, <2>3, Zenon DEF PersisterStart, clockvars, workervars
<1>11. CASE PersisterPeek \/ PersisterBusy \/ PersisterStore
  BY <1>0, <1>11, Zenon DEF PersisterPeek, PersisterBusy, PersisterStore, clockvars, workervars
<1>12. CASE PersisterLocked
  BY <1>0, <1>12, Zenon DEF PersisterLocked, Borrow, workervars
<1>13. ASSUME Return(pcore, pseen), UNCHANGED <<wk, commit_epoch, best_tick_inc, pseen>>,
              ppc' \notin {"recheck", "mark"}
       PROVE  CommitInv'
  <2>1. pcore \in held /\ held' = held \ {pcore} /\ guard' = guard
    BY <1>13, Zenon DEF Return
  <2>2. \A c \in Cores : wk[c] = "finish" => c # pcore
    BY <1>0, <2>1, Zenon
  <2>3. \A c \in Cores : c # pcore => seen'[c] = seen[c]
    BY <1>0, <1>13, Zenon DEF Return, ClockType
  <2> QED
    BY <1>0, <1>13, <2>1, <2>2, <2>3, Zenon
<1>14. CASE PersisterRecheck
  <2>1. CASE persist_buffers_[pcore] = <<>>
    BY <1>0, <1>14, <2>1, Zenon DEF PersisterRecheck, clockvars, workervars
  <2>2. CASE persist_buffers_[pcore] # <<>>
    BY <1>13, <1>14, <2>2, Zenon DEF PersisterRecheck, workervars
  <2> QED
    BY <2>1, <2>2, Zenon
<1>15. CASE PersisterMark
  BY <1>13, <1>15, Zenon DEF PersisterMark, workervars
<1>16. CASE PersisterLoad
  <2>1. epochs_[pcore] \in Nat /\ pseen \in Nat /\ best_tick_inc \in Nat
    <3>1. pcore \in Cores
      BY <1>0, <1>16, CoreFacts, Zenon DEF PersisterLoad, PlaceType
    <3> QED
      BY <1>0, <3>1, Zenon DEF FloorInv, PlaceType
  <2> DEFINE m == IF epochs_[pcore] >= pseen THEN epochs_[pcore] + 1 ELSE pseen
  <2>2. best_tick_inc < m
    BY <1>0, <2>1
  <2>3. pseen' = m /\ best_tick_inc' = best_tick_inc
    BY <1>16, Zenon DEF PersisterLoad
  <2> HIDE DEF m
  <2> QED
    BY <1>0, <1>16, <2>2, <2>3, Zenon DEF PersisterLoad, clockvars, workervars
<1>17. CASE UNCHANGED lvars
  BY <1>1, <1>17, Zenon DEF lvars, clockvars, workervars, persistervars
<1> QED
  BY <1>2, <1>3, <1>4, <1>5, <1>6, <1>7, <1>8, <1>9, <1>10, <1>11, <1>12, <1>14, <1>15,
     <1>16, <1>17, Zenon DEF LoggerNext, worker, persister

LEMMA LoggerInitially == LoggerInit => LoggerInv
<1> SUFFICES ASSUME LoggerInit PROVE LoggerInv
  BY Zenon
<1>1. ClockType
  BY Zenon DEF LoggerInit, ClockInit, ClockType, NoGuard
<1>2. PlaceType
  BY LoggerAssumption DEF LoggerInit, PlaceType, Infinity
<1>3. BufferInv
  <2> DEFINE a == [i \in 1 .. g_perthread_buffers |-> empty]
  <2>1. empty \in pbuffer /\ \A n \in Nat : empty \in Fresh(n)
    BY LoggerAssumption DEF empty, pbuffer, Fresh
  <2>2. g_perthread_buffers \in Nat
    BY LoggerAssumption, Zenon
  <2>3. a \in Seq(pbuffer) /\ \A n \in Nat : a \in Seq(Fresh(n))
    BY <2>1, <2>2
  <2>4. Len(a) = g_perthread_buffers
    BY <2>1, <2>2
  <2>5. \A S : <<>> \in Seq(S) /\ Len(<<>>) = 0
    BY EmptySeq, Zenon
  <2> HIDE DEF a
  <2>6. \A c \in Cores : all_buffers_[c] = a /\ persist_buffers_[c] = <<>> /\ seen[c] \in Nat
    BY Zenon DEF LoggerInit, ClockInit, a
  <2>7. all_buffers_ = [c \in Cores |-> a] /\ persist_buffers_ = [c \in Cores |-> <<>>]
    BY Zenon DEF LoggerInit, a
  <2>8. Len(a) + Len(<<>>) = g_perthread_buffers
    BY <2>2, <2>4, <2>5
  <2>9. all_buffers_ \in [Cores -> Seq(pbuffer)] /\ persist_buffers_ \in [Cores -> Seq(pbuffer)]
    BY <2>3, <2>5, <2>7, Zenon
  <2> QED
    BY <2>3, <2>5, <2>6, <2>8, <2>9, Zenon DEF BufferInv
<1>4. CountInv
  BY LoggerAssumption DEF LoggerInit, CountInv
<1>5. FloorInv
  BY DEF LoggerInit, ClockInit, FloorInv
<1>6. CommitInv
  BY DEF LoggerInit, ClockInit, CommitInv
<1> QED
  BY <1>1, <1>2, <1>3, <1>4, <1>5, <1>6, Zenon DEF LoggerInv

\* The inductive invariant of the redo log: no core's clock falls behind an
\* epoch published for it, whatever workers, writers and the persister do.
THEOREM LoggerInvariant == LoggerSpec => []LoggerInv
<1>1. LoggerInv /\ [LoggerNext]_lvars => LoggerInv'
  <2> SUFFICES ASSUME LoggerInv, [LoggerNext]_lvars PROVE LoggerInv'
    BY Zenon
  <2>1. ClockType' /\ PlaceType' /\ BufferInv'
    BY SeenStep, PlaceStep, BufferStep, Zenon
  <2>2. CountInv' /\ FloorInv' /\ CommitInv'
    BY CountStep, FloorStep, CommitStep, Zenon
  <2> QED
    BY <2>1, <2>2, Zenon DEF LoggerInv
<1> QED
  BY LoggerInitially, <1>1, PTL DEF LoggerSpec

\* The redo log's variables keep their types; no buffer of a core is lost or
\* duplicated on its way to the logger and back, and a writer never schedules
\* more buffers than one writev() takes.
THEOREM LoggerTypeCorrect == LoggerSpec => []LoggerTypeOK
<1>1. LoggerInv => LoggerTypeOK
  <2> SUFFICES ASSUME LoggerInv PROVE LoggerTypeOK
    BY Zenon
  <2>1. PlaceType /\ BufferInv /\ CountInv /\ FloorInv
    BY Zenon DEF LoggerInv
  <2>2. wcore \in [Loggers -> Nat]
    BY <2>1, LoggerAssumption DEF PlaceType
  <2> QED
    BY <2>1, <2>2, Zenon DEF PlaceType, BufferInv, CountInv, FloorInv, LoggerTypeOK
<1> QED
  BY <1>1, LoggerInvariant, PTL

\* txn_proto2_impl.cc:162-167.  A core the persister marks synced through an
\* epoch never logs a transaction of that epoch or of an older one afterwards.
THEOREM CommitsAfterSync == LoggerSpec => []CommitAfterSync
<1>1. LoggerInv => CommitAfterSync
  BY Zenon DEF LoggerInv, CommitInv, FloorInv, ClockType, CommitAfterSync
<1> QED
  BY <1>1, LoggerInvariant, PTL

-----------------------------------------------------------------------------
\* PrefixDurable.  A core's buffers are in the order of their epochs: the
\* scheduled ones, the rest of those pushed, the one being filled.  Behind the
\* writer's place in a pass nothing is left scheduled.

Ordered(a, q) ==
    /\ \A i \in 1 .. Len(a) : ~a[i].io /\ (i > 1 => a[i].nentries = 0)
    /\ \A i, j \in 1 .. Len(q) : i < j => q[i].epoch <= q[j].epoch /\ (q[j].io => q[i].io)
    /\ Len(a) > 0 /\ a[1].nentries > 0 => \A i \in 1 .. Len(q) : q[i].epoch <= a[1].epoch

\* No buffer that is not scheduled belongs to epoch e or an older one.
Beyond(a, q, e) ==
    /\ \A i \in 1 .. Len(q) : ~q[i].io => q[i].epoch > e
    /\ Len(a) > 0 /\ a[1].nentries > 0 => a[1].epoch > e

Scheduled(q) == \E i \in 1 .. Len(q) : q[i].io

QueueInv ==
    \A c \in Cores :
       /\ Ordered(all_buffers_[c], persist_buffers_[c])
       /\ \A s \in BOOLEAN : Beyond(all_buffers_[c], persist_buffers_[c], epoch_prefixes[s][c])

\* What the pass of logger l has scheduled: collecting, only cores it has been
\* through; publishing and returning, only cores it has still to go through.
PassAt(l) ==
    /\ wpc[l] # "sleep" /\ wcore[l] < NMAXCORES => logger[wcore[l]] = l
    /\ \A c \in Cores : logger[c] = l /\ Scheduled(persist_buffers_[c]) =>
         /\ wpc[l] # "sleep"
         /\ wpc[l] = "collect" => c < wcore[l] /\ nbufswritten[l] > 0
         /\ wpc[l] # "collect" => c >= wcore[l]

PassInv == \A l \in Loggers : PassAt(l)

LEMMA BufferFields ==
    ASSUME NEW h \in pbuffer
    PROVE  h.epoch \in Nat /\ h.nentries \in Nat /\ h.io \in BOOLEAN
  BY LoggerAssumption DEF pbuffer

LEMMA BufferMarked ==
    ASSUME NEW h \in pbuffer, NEW m \in BOOLEAN, NEW g, g = [h EXCEPT !.io = m]
    PROVE  g \in pbuffer /\ g.epoch = h.epoch /\ g.io = m
  BY Zenon DEF pbuffer

\* The head buffer is pushed.
LEMMA OrderPushed ==
    ASSUME NEW a \in Seq(pbuffer), NEW q \in Seq(pbuffer), Ordered(a, q),
           a # <<>>, Head(a).nentries > 0, NEW b, NEW r
    PROVE  b = Tail(a) /\ r = Append(q, Head(a)) =>
           /\ Ordered(b, r)
           /\ \A e \in Nat : Beyond(a, q, e) => Beyond(b, r, e)
           /\ Scheduled(r) => Scheduled(q)
<1>0. SUFFICES ASSUME b = Tail(a), r = Append(q, Head(a))
               PROVE  /\ Ordered(b, r)
                      /\ \A e \in Nat : Beyond(a, q, e) => Beyond(b, r, e)
                      /\ Scheduled(r) => Scheduled(q)
  BY Zenon
<1>1. Len(a) \in Nat \ {0} /\ Len(q) \in Nat /\ a[1] = Head(a)
  OBVIOUS
<1>2. Len(b) = Len(a) - 1 /\ \A i \in 1 .. Len(b) : b[i] = a[i + 1] /\ i + 1 \in 1 .. Len(a)
  BY <1>0, <1>1, HeadTailProperties
<1>3. Len(r) = Len(q) + 1 /\ r[Len(q) + 1] = a[1] /\ \A i \in 1 .. Len(q) : r[i] = q[i]
  BY <1>0, <1>1, AppendProperties
<1>4. \A i \in 1 .. Len(q) : q[i].epoch \in Nat
  BY ElementOfSeq, BufferFields, Zenon
<1>5. ~a[1].io /\ a[1].epoch \in Nat /\ \A i \in 1 .. Len(q) : q[i].epoch <= a[1].epoch
  <2>1. 1 \in 1 .. Len(a) /\ a[1] \in pbuffer
    BY <1>1, ElementOfSeq
  <2> QED
    BY <1>1, <2>1, BufferFields DEF Ordered
<1>6. \A i \in 1 .. Len(b) : ~b[i].io /\ b[i].nentries = 0
  <2>1. \A i \in 1 .. Len(b) : i + 1 > 1
    OBVIOUS
  <2> QED
    BY <1>2, <2>1 DEF Ordered
<1>7. \A i \in 1 .. Len(r) : i \in 1 .. Len(q) \/ i = Len(q) + 1
  BY <1>1, <1>3
<1>8. \A i, j \in 1 .. Len(r) : i < j => r[i].epoch <= r[j].epoch /\ (r[j].io => r[i].io)
  <2> SUFFICES ASSUME NEW i \in 1 .. Len(r), NEW j \in 1 .. Len(r), i < j
               PROVE  r[i].epoch <= r[j].epoch /\ (r[j].io => r[i].io)
    BY Zenon
  <2>1. i \in 1 .. Len(q)
    BY <1>1, <1>3
  <2>2. CASE j \in 1 .. Len(q)
    BY <1>3, <2>1, <2>2, Zenon DEF Ordered
  <2>3. CASE j = Len(q) + 1
    BY <1>3, <1>5, <2>1, <2>3, Zenon
  <2> QED
    BY <1>7, <2>2, <2>3, Zenon
<1>9. Ordered(b, r)
  <2>1. Len(b) > 0 => 1 \in 1 .. Len(b)
    BY <1>1, <1>2
  <2> QED
    BY <1>6, <1>8, <2>1 DEF Ordered
<1>10. ASSUME NEW e \in Nat, Beyond(a, q, e) PROVE Beyond(b, r, e)
  <2>1. a[1].epoch > e
    BY <1>1, <1>10 DEF Beyond
  <2>2. \A i \in 1 .. Len(r) : ~r[i].io => r[i].epoch > e
    BY <1>3, <1>7, <1>10, <2>1, Zenon DEF Beyond
  <2>3. Len(b) > 0 => b[1].nentries = 0
    BY <1>1, <1>2, <1>6
  <2> QED
    BY <2>2, <2>3 DEF Beyond
<1>11. Scheduled(r) => Scheduled(q)
  BY <1>3, <1>5, <1>7, Zenon DEF Scheduled
<1> QED
  BY <1>9, <1>10, <1>11, Zenon

\* A transaction of epoch n is added to the head buffer.
LEMMA OrderWritten ==
    ASSUME NEW n \in Nat, NEW a \in Seq(pbuffer), NEW q \in Seq(Filled(n)), Ordered(a, q),
           Len(a) > 0, NEW h \in pbuffer, ~h.io, h.epoch = n, NEW b, b = [a EXCEPT ![1] = h]
    PROVE  /\ Ordered(b, q)
           /\ \A e \in Nat : Beyond(a, q, e) /\ n > e => Beyond(b, q, e)
<1>1. Len(b) = Len(a) /\ b[1] = h /\ \A i \in 1 .. Len(a) : i > 1 => b[i] = a[i]
  <2>1. 1 \in 1 .. Len(a)
    OBVIOUS
  <2> QED
    BY <2>1, ExceptSeq
<1>2. \A i \in 1 .. Len(q) : q[i].epoch <= n
  BY ElementOfSeq DEF Filled
<1> QED
  BY <1>1, <1>2 DEF Ordered, Beyond

\* The writer schedules the first n of buffers none of which was.
LEMMA OrderCollected ==
    ASSUME NEW a \in Seq(pbuffer), NEW q \in Seq(pbuffer), Ordered(a, q), ~Scheduled(q),
           NEW n \in 0 .. Len(q), NEW r
    PROVE  r = [i \in 1 .. Len(q) |-> [q[i] EXCEPT !.io = (i <= n)]] =>
           /\ Ordered(a, r)
           /\ \A e \in Nat : Beyond(a, q, e) => Beyond(a, r, e)
           /\ n > 0 => Beyond(a, r, q[n].epoch - 1)
           /\ Scheduled(r) => n > 0
<1>0. SUFFICES ASSUME r = [i \in 1 .. Len(q) |-> [q[i] EXCEPT !.io = (i <= n)]]
               PROVE  /\ Ordered(a, r)
                      /\ \A e \in Nat : Beyond(a, q, e) => Beyond(a, r, e)
                      /\ n > 0 => Beyond(a, r, q[n].epoch - 1)
                      /\ Scheduled(r) => n > 0
  BY Zenon
<1>1. Len(q) \in Nat /\ \A i \in 1 .. Len(q) : q[i] \in pbuffer /\ q[i].epoch \in Nat
  BY ElementOfSeq, LenProperties, BufferFields, Zenon
<1>2. \A i \in 1 .. Len(q) : r[i] \in pbuffer /\ r[i].epoch = q[i].epoch /\ (r[i].io <=> i <= n)
  <2> SUFFICES ASSUME NEW i \in 1 .. Len(q)
               PROVE  r[i] \in pbuffer /\ r[i].epoch = q[i].epoch /\ (r[i].io <=> i <= n)
    BY Zenon
  <2> DEFINE m == (i <= n)
  <2>1. r[i] = [q[i] EXCEPT !.io = m] /\ q[i] \in pbuffer /\ m \in BOOLEAN
    BY <1>0, <1>1
  <2> HIDE DEF m
  <2>2. r[i] \in pbuffer /\ r[i].epoch = q[i].epoch /\ r[i].io = m
    BY ONLY <2>1, BufferMarked
  <2> QED
    BY <2>2, Zenon DEF m
<1>3. Len(r) = Len(q)
  BY <1>0, <1>1
<1>4. \A i \in 1 .. Len(q) : r[i].epoch = q[i].epoch /\ (r[i].io <=> i <= n)
  BY <1>2, Zenon
<1>5. \A i \in 1 .. Len(q) : ~q[i].io
  BY Zenon DEF Scheduled
<1>6. Ordered(a, r)
  <2>1. \A i, j \in 1 .. Len(q) : i < j /\ j <= n => i <= n
    BY <1>1
  <2> QED
    BY <1>3, <1>4, <2>1, Zenon DEF Ordered
<1>7. \A e \in Nat : Beyond(a, q, e) => Beyond(a, r, e)
  BY <1>3, <1>4, <1>5, Zenon DEF Beyond
<1>8. ASSUME n > 0 PROVE Beyond(a, r, q[n].epoch - 1)
  <2>1. n \in 1 .. Len(q)
    BY <1>1, <1>8
  <2>2. \A i \in 1 .. Len(q) : ~r[i].io => q[i].epoch > q[n].epoch - 1
    BY <1>1, <1>4, <2>1 DEF Ordered
  <2>3. Len(a) > 0 /\ a[1].nentries > 0 => a[1].epoch > q[n].epoch - 1
    <3>1. Len(a) > 0 => a[1] \in pbuffer
      OBVIOUS
    <3>2. Len(a) > 0 => a[1].epoch \in Nat
      BY <3>1, BufferFields, Zenon
    <3>3. Len(a) > 0 /\ a[1].nentries > 0 => q[n].epoch <= a[1].epoch
      BY <2>1, Zenon DEF Ordered
    <3>4. q[n].epoch \in Nat
      BY <1>1, <2>1, Zenon
    <3> QED
      BY ONLY <3>2, <3>3, <3>4
  <2> QED
    BY <1>3, <1>4, <2>2, <2>3, Zenon DEF Beyond
<1>9. Scheduled(r) => n > 0
  BY <1>1, <1>3, <1>4 DEF Scheduled
<1> QED
  BY <1>6, <1>7, <1>8, <1>9, Zenon

\* A durable buffer goes back, empty.
LEMMA OrderReturned ==
    ASSUME NEW a \in Seq(pbuffer), NEW q \in Seq(pbuffer), Ordered(a, q), q # <<>>,
           NEW b, NEW r
    PROVE  b = Append(a, empty) /\ r = Tail(q) =>
           /\ Ordered(b, r)
           /\ \A e \in Nat : Beyond(a, q, e) => Beyond(b, r, e)
           /\ Scheduled(r) => Scheduled(q)
<1>0. SUFFICES ASSUME b = Append(a, empty), r = Tail(q)
               PROVE  /\ Ordered(b, r)
                      /\ \A e \in Nat : Beyond(a, q, e) => Beyond(b, r, e)
                      /\ Scheduled(r) => Scheduled(q)
  BY Zenon
<1>1. Len(a) \in Nat /\ Len(q) \in Nat \ {0}
  OBVIOUS
<1>2. Len(r) = Len(q) - 1 /\ \A i \in 1 .. Len(r) : r[i] = q[i + 1] /\ i + 1 \in 1 .. Len(q)
  BY <1>0, <1>1
<1>3. Len(b) = Len(a) + 1 /\ b[Len(a) + 1] = empty /\ \A i \in 1 .. Len(a) : b[i] = a[i]
  BY <1>0, <1>1
<1>4. ~empty.io /\ empty.nentries = 0
  BY Zenon DEF empty
<1>5. \A i \in 1 .. Len(b) : i \in 1 .. Len(a) \/ i = Len(a) + 1
  BY <1>1, <1>3
<1>6. \A i \in 1 .. Len(b) : ~b[i].io /\ (i > 1 => b[i].nentries = 0)
  BY <1>3, <1>4, <1>5, Zenon DEF Ordered
<1>7. b[1].nentries > 0 => Len(a) > 0 /\ b[1] = a[1]
  BY <1>1, <1>3, <1>4
<1>8. \A i, j \in 1 .. Len(r) : i < j => r[i].epoch <= r[j].epoch /\ (r[j].io => r[i].io)
  <2> SUFFICES ASSUME NEW i \in 1 .. Len(r), NEW j \in 1 .. Len(r), i < j
               PROVE  r[i].epoch <= r[j].epoch /\ (r[j].io => r[i].io)
    BY Zenon
  <2>1. i + 1 < j + 1 /\ i + 1 \in 1 .. Len(q) /\ j + 1 \in 1 .. Len(q)
    BY <1>1, <1>2
  <2>2. q[i + 1].epoch <= q[j + 1].epoch /\ (q[j + 1].io => q[i + 1].io)
    BY <2>1, Zenon DEF Ordered
  <2>3. r[i] = q[i + 1] /\ r[j] = q[j + 1]
    BY <1>2, Zenon
  <2> QED
    BY <2>2, <2>3, Zenon
<1>9. Ordered(b, r)
  BY <1>2, <1>6, <1>7, <1>8 DEF Ordered
<1>10. \A e \in Nat : Beyond(a, q, e) => Beyond(b, r, e)
  BY <1>2, <1>7, Zenon DEF Beyond
<1>11. Scheduled(r) => Scheduled(q)
  BY <1>2, Zenon DEF Scheduled
<1> QED
  BY <1>9, <1>10, <1>11, Zenon

\* Assigned returns the next core of a logger, or the end of the loop.
LEMMA AssignedFacts ==
    ASSUME NEW l, NEW c \in 0 .. NMAXCORES
    PROVE  /\ Assigned(l, c) \in c .. NMAXCORES
           /\ Assigned(l, c) < NMAXCORES => logger[Assigned(l, c)] = l
           /\ \A d \in Cores : d >= c /\ logger[d] = l => Assigned(l, c) <= d
<1> DEFINE mine == {d \in Cores : d >= c /\ logger[d] = l}
           all == mine \cup {NMAXCORES}
<1>0. NMAXCORES \in Nat /\ c \in Nat /\ Cores \subseteq Nat
  BY CoreFacts
<1>1. all \in SUBSET Nat /\ all # {}
  BY <1>0, Zenon
<1>2. \E d \in all : \A m \in all : d <= m
  <2> HIDE DEF all
  <2> QED
    BY <1>1, LeastElement, Zenon
<1>3. \E d \in mine \cup {NMAXCORES} : \A m \in mine : d <= m
  BY <1>2, Zenon
<1>4. Assigned(l, c) \in mine \cup {NMAXCORES} /\ \A m \in mine : Assigned(l, c) <= m
  BY <1>3, Zenon DEF Assigned
<1> QED
  BY <1>0, <1>4, CoreFacts

LEMMA PassFrame ==
    ASSUME NEW l \in Loggers, PassAt(l),
           wpc'[l] = wpc[l], wcore'[l] = wcore[l], nbufswritten'[l] = nbufswritten[l],
           \A c \in Cores : logger[c] = l /\ Scheduled(persist_buffers_[c])'
                              => Scheduled(persist_buffers_[c])
    PROVE  PassAt(l)'
  BY Zenon DEF PassAt

\* The pass of one logger says nothing about the cores of another.
LEMMA PassOthers ==
    ASSUME PassInv, NEW l \in Loggers, PassAt(l)',
           \A m \in Loggers : m # l => /\ wpc'[m] = wpc[m] /\ wcore'[m] = wcore[m]
                                       /\ nbufswritten'[m] = nbufswritten[m],
           \A c \in Cores : logger[c] # l => persist_buffers_'[c] = persist_buffers_[c]
    PROVE  PassInv'
<1> SUFFICES ASSUME NEW m \in Loggers, m # l PROVE PassAt(m)'
  BY Zenon DEF PassInv
<1>1. \A c \in Cores : logger[c] = m => persist_buffers_'[c] = persist_buffers_[c]
  BY Zenon
<1>2. \A c \in Cores : logger[c] = m /\ Scheduled(persist_buffers_[c])'
                         => Scheduled(persist_buffers_[c])
  BY <1>1, Zenon DEF Scheduled
<1> QED
  BY <1>2, PassFrame, Zenon DEF PassInv

LEMMA QueueKept ==
    ASSUME QueueInv, UNCHANGED <<bufs, epoch_prefixes>>
    PROVE  QueueInv'
  BY Zenon DEF QueueInv, bufs

LEMMA QueueReplaced ==
    ASSUME QueueInv, BufferInv, NEW c \in Cores, NEW a, NEW q, Ordered(a, q),
           \A s \in BOOLEAN : Beyond(a, q, epoch_prefixes[s][c]),
           all_buffers_' = [all_buffers_ EXCEPT ![c] = a],
           persist_buffers_' = [persist_buffers_ EXCEPT ![c] = q],
           epoch_prefixes' = epoch_prefixes
    PROVE  QueueInv'
<1>1. \A d \in Cores : d # c => all_buffers_'[d] = all_buffers_[d] /\ persist_buffers_'[d] = persist_buffers_[d]
  BY Zenon DEF BufferInv
<1>2. all_buffers_'[c] = a /\ persist_buffers_'[c] = q
  BY Zenon DEF BufferInv
<1> QED
  BY <1>1, <1>2, Zenon DEF QueueInv

\* Workers append buffers that are not scheduled.
LEMMA WorkerOrder ==
    ASSUME LoggerInv, QueueInv, PassInv, NEW c \in Cores, worker(c)
    PROVE  QueueInv' /\ PassInv'
<1> DEFINE a == all_buffers_[c]
           q == persist_buffers_[c]
<1>0. /\ BufferInv /\ FloorInv /\ ClockType /\ a \in Seq(pbuffer) /\ q \in Seq(pbuffer) /\ Ordered(a, q)
      /\ \A s \in BOOLEAN : epoch_prefixes[s][c] \in Nat /\ Beyond(a, q, epoch_prefixes[s][c])
  BY Zenon DEF LoggerInv, BufferInv, FloorInv, QueueInv
<1>1. UNCHANGED <<wpc, wcore, nbufswritten, epoch_prefixes>>
  BY Zenon DEF worker, Begin, gen_commit_tid, FinishPush, write_current_txn_into_buffer, End, thread_end,
     writervars
<1>2. ASSUME \A d \in Cores : Scheduled(persist_buffers_[d])' => Scheduled(persist_buffers_[d])
      PROVE  PassInv'
  BY <1>1, <1>2, PassFrame, Zenon DEF PassInv
<1>3. CASE UNCHANGED bufs
  <2>1. QueueInv'
    BY <1>1, <1>3, QueueKept, Zenon
  <2>2. PassInv'
    BY <1>2, <1>3, Zenon DEF bufs
  <2> QED
    BY <2>1, <2>2, Zenon
<1>4. ASSUME a # <<>>, Head(a).nentries > 0, PushHead(c)
      PROVE  QueueInv' /\ PassInv'
  <2> DEFINE b == Tail(a)
             r == Append(q, Head(a))
  <2>1. /\ all_buffers_' = [all_buffers_ EXCEPT ![c] = b]
        /\ persist_buffers_' = [persist_buffers_ EXCEPT ![c] = r]
    BY <1>4, Zenon DEF PushHead
  <2> HIDE DEF a, q
  <2>2. /\ Ordered(b, r) /\ (Scheduled(r) => Scheduled(q))
        /\ \A s \in BOOLEAN : Beyond(b, r, epoch_prefixes[s][c])
    BY <1>0, <1>4, OrderPushed, Zenon
  <2> HIDE DEF b, r
  <2>3. QueueInv'
    BY <1>0, <1>1, <2>1, <2>2, QueueReplaced, Zenon
  <2>4. \A d \in Cores : persist_buffers_'[d] = IF d = c THEN r ELSE persist_buffers_[d]
    BY <1>0, <2>1, Zenon DEF BufferInv
  <2>5. \A d \in Cores : Scheduled(persist_buffers_'[d]) => Scheduled(persist_buffers_[d])
    BY <2>2, <2>4, Zenon DEF q
  <2> QED
    BY <1>2, <2>3, <2>5, Zenon
<1>5. CASE FinishPush(c)
  <2>1. a # <<>> /\ PushHead(c) /\ Head(a) \in pbuffer
    BY <1>0, <1>5, HeadTailProperties, Zenon DEF FinishPush
  <2>2. Head(a).nentries = BufferTxns \/ Head(a).nentries # 0
    BY <1>5, Zenon DEF FinishPush, can_hold_tid
  <2>3. Head(a).nentries > 0
    BY <2>1, <2>2, LoggerAssumption DEF pbuffer
  <2> QED
    BY <1>4, <2>1, <2>3, Zenon
<1>6. CASE thread_end(c)
  <2>1. CASE a # <<>> /\ Head(a).nentries > 0
    BY <1>4, <1>6, <2>1, Zenon DEF thread_end
  <2>2. CASE ~(a # <<>> /\ Head(a).nentries > 0)
    BY <1>3, <1>6, <2>2, Zenon DEF thread_end
  <2> QED
    BY <2>1, <2>2, Zenon
<1>7. CASE write_current_txn_into_buffer(c)
  <2> DEFINE h == [Head(a) EXCEPT !.nentries = @ + 1, !.epoch = commit_epoch[c]]
             b == [a EXCEPT ![1] = h]
             n == seen[c]
  <2>1. /\ a # <<>> /\ Head(a).nentries < BufferTxns
        /\ all_buffers_' = [all_buffers_ EXCEPT ![c] = b] /\ persist_buffers_' = persist_buffers_
    BY <1>0, <1>7, Zenon DEF write_current_txn_into_buffer, BufferInv
  <2>2. n \in Nat /\ commit_epoch[c] = n /\ \A s \in BOOLEAN : epoch_prefixes[s][c] < n
    BY <1>0, <1>7, Zenon DEF write_current_txn_into_buffer, ClockType, FloorInv, CommitInv, LoggerInv
  <2>3. q \in Seq(Filled(n)) /\ persist_buffers_' = [persist_buffers_ EXCEPT ![c] = q]
    BY <1>0, <2>1, Zenon DEF BufferInv
  <2> HIDE DEF a, q, n
  <2>4. Len(a) > 0 /\ Head(a) = a[1] /\ Head(a) \in pbuffer /\ ~Head(a).io /\ 1 \in 1 .. Len(a)
    <3>1. Len(a) > 0 /\ Head(a) = a[1] /\ 1 \in 1 .. Len(a)
      BY <1>0, <2>1, EmptySeq
    <3> QED
      BY <1>0, <3>1, ElementOfSeq, Zenon DEF Ordered
  <2>5. h \in pbuffer /\ ~h.io /\ h.epoch = n
    <3> DEFINE g == Head(a)
    <3>1. g \in pbuffer /\ ~g.io /\ g.nentries < BufferTxns
      BY <2>1, <2>4, Zenon
    <3>2. h = [g EXCEPT !.nentries = @ + 1, !.epoch = n]
      BY <2>2, Zenon
    <3> HIDE DEF g, h
    <3>3. g.nentries + 1 \in 0 .. BufferTxns
      BY <3>1, LoggerAssumption DEF pbuffer
    <3> QED
      BY ONLY <2>2, <3>1, <3>2, <3>3, Zenon DEF pbuffer
  <2> HIDE DEF h
  <2>6. Ordered(b, q) /\ \A s \in BOOLEAN : Beyond(b, q, epoch_prefixes[s][c])
    <3>0. b = [a EXCEPT ![1] = h]
      BY Zenon
    <3> HIDE DEF b
    <3>1. /\ Ordered(b, q)
          /\ \A e \in Nat : Beyond(a, q, e) /\ n > e => Beyond(b, q, e)
      <4>1. n \in Nat /\ a \in Seq(pbuffer) /\ q \in Seq(Filled(n)) /\ Ordered(a, q) /\ Len(a) > 0
        BY <1>0, <2>2, <2>3, <2>4, Zenon
      <4>2. h \in pbuffer /\ ~h.io /\ h.epoch = n
        BY <2>5, Zenon
      <4> QED
        BY ONLY <3>0, <4>1, <4>2, OrderWritten, ZenonT(60)
    <3>2. \A s \in BOOLEAN : n > epoch_prefixes[s][c]
      BY <1>0, <2>2, Zenon
    <3> QED
      BY <1>0, <3>1, <3>2, Zenon
  <2> HIDE DEF b
  <2>7. QueueInv'
    BY <1>0, <1>1, <2>1, <2>3, <2>6, QueueReplaced, Zenon
  <2> QED
    BY <1>2, <2>1, <2>7, Zenon
<1> QED
  BY <1>3, <1>5, <1>6, <1>7, Zenon DEF worker, Begin, gen_commit_tid, End

\* A pass schedules, publishes and returns a prefix of each core's buffers.
LEMMA WriterOrder ==
    ASSUME LoggerInv, QueueInv, PassInv, NEW l \in Loggers, writer(l)
    PROVE  QueueInv' /\ PassInv'
<1> DEFINE k == wcore[l]
           a == all_buffers_[k]
           q == persist_buffers_[k]
<1>0. BufferInv /\ FloorInv /\ CountInv /\ PlaceType /\ PassAt(l)
  BY Zenon DEF LoggerInv, PassInv
<1>1. \A m \in Loggers : m # l => /\ wpc'[m] = wpc[m] /\ wcore'[m] = wcore[m]
                                  /\ nbufswritten'[m] = nbufswritten[m]
  BY <1>0, Zenon DEF PlaceType, CountInv, writer, WriterStart, WriterCollect, WriterProcess, WriterLoad,
     WriterStore, WriterReturn, WriterEnd
<1>2. ASSUME UNCHANGED <<bufs, epoch_prefixes>>, PassAt(l)'
      PROVE  QueueInv' /\ PassInv'
  <2>1. persist_buffers_' = persist_buffers_
    BY <1>2, Zenon DEF bufs
  <2> QED
    BY <1>1, <1>2, <2>1, QueueKept, PassOthers, Zenon
<1>3. k \in 0 .. NMAXCORES /\ (k < NMAXCORES => k \in Cores)
  BY <1>0, CoreFacts, Zenon DEF PlaceType
<1>4. ASSUME k \in Cores
      PROVE  /\ a \in Seq(pbuffer) /\ q \in Seq(pbuffer) /\ Ordered(a, q)
             /\ \A s \in BOOLEAN : /\ epoch_prefixes[s][k] \in Nat
                                   /\ Beyond(a, q, epoch_prefixes[s][k])
  BY <1>0, <1>4, Zenon DEF BufferInv, FloorInv, QueueInv
<1>5. CASE WriterStart(l)
  <2>1. wpc[l] = "sleep" /\ wpc'[l] = "collect" /\ wcore'[l] = Assigned(l, 0)
    BY <1>0, <1>5, Zenon DEF WriterStart, PlaceType
  <2>2. wcore'[l] < NMAXCORES => logger[wcore'[l]] = l
    BY <2>1, AssignedFacts, CoreFacts
  <2>3. persist_buffers_' = persist_buffers_ /\ UNCHANGED <<bufs, epoch_prefixes>>
    BY <1>5, Zenon DEF WriterStart, bufs
  <2>4. PassAt(l)'
    BY <1>0, <2>1, <2>2, <2>3, Zenon DEF PassAt
  <2> QED
    BY <1>2, <2>3, <2>4, Zenon
<1>6. CASE WriterProcess(l)
  <2>1. wpc[l] = "collect" /\ k = NMAXCORES /\ wcore'[l] = Assigned(l, 0)
        /\ wpc'[l] = (IF nbufswritten[l] = 0 THEN "sleep" ELSE "load")
    BY <1>0, <1>6, Zenon DEF WriterProcess, PlaceType
  <2>2. /\ wcore'[l] < NMAXCORES => logger[wcore'[l]] = l
        /\ \A c \in Cores : logger[c] = l => c >= wcore'[l]
    <3>1. 0 \in 0 .. NMAXCORES /\ \A c \in Cores : c >= 0 /\ c \in Nat
      BY CoreFacts
    <3>2. Assigned(l, 0) \in 0 .. NMAXCORES
      BY <3>1, AssignedFacts, Zenon
    <3> QED
      BY <2>1, <3>1, <3>2, AssignedFacts
  <2>3. persist_buffers_' = persist_buffers_ /\ UNCHANGED <<bufs, epoch_prefixes>>
    BY <1>6, Zenon DEF WriterProcess, bufs
  <2>4. PassAt(l)'
    BY <1>0, <2>1, <2>2, <2>3, SMTT(30) DEF PassAt
  <2> QED
    BY <1>2, <2>3, <2>4, Zenon
<1>7. CASE WriterLoad(l) \/ WriterStore(l)
  <2>1. /\ wpc[l] \in {"load", "store"} /\ wpc'[l] \in {"store", "return"} /\ wcore' = wcore
    BY <1>0, <1>7, Zenon DEF WriterLoad, WriterStore, PlaceType
  <2>2. persist_buffers_' = persist_buffers_ /\ UNCHANGED <<bufs, epoch_prefixes>>
    BY <1>7, Zenon DEF WriterLoad, WriterStore, bufs
  <2>3. PassAt(l)'
    BY <1>0, <2>1, <2>2, Zenon DEF PassAt
  <2> QED
    BY <1>2, <2>2, <2>3, Zenon
<1>8. CASE WriterEnd(l)
  <2>1. wpc[l] = "load" /\ k = NMAXCORES /\ wpc'[l] = "sleep"
    BY <1>0, <1>8, Zenon DEF WriterEnd, PlaceType
  <2>2. persist_buffers_' = persist_buffers_ /\ UNCHANGED <<bufs, epoch_prefixes>>
    BY <1>8, Zenon DEF WriterEnd, bufs
  <2>3. \A c \in Cores : ~(c >= NMAXCORES)
    BY CoreFacts
  <2>4. PassAt(l)'
    BY <1>0, <2>1, <2>2, <2>3, Zenon DEF PassAt
  <2> QED
    BY <1>2, <2>2, <2>4, Zenon
<1>9. CASE WriterReturn(l)
  <2>1. wpc[l] = "return" /\ k \in Cores /\ logger[k] = l /\ epoch_prefixes' = epoch_prefixes
    BY <1>0, <1>3, <1>9, Zenon DEF WriterReturn, PlaceType, PassAt
  <2>2. CASE q # <<>> /\ Head(q).io
    <3> DEFINE b == Append(a, empty)
               r == Tail(q)
    <3>1. /\ persist_buffers_' = [persist_buffers_ EXCEPT ![k] = r]
          /\ all_buffers_' = [all_buffers_ EXCEPT ![k] = b]
          /\ UNCHANGED <<wpc, wcore, nbufswritten>>
      BY <1>9, <2>2, Zenon DEF WriterReturn
    <3>2. /\ a \in Seq(pbuffer) /\ q \in Seq(pbuffer) /\ Ordered(a, q)
          /\ \A s \in BOOLEAN : /\ epoch_prefixes[s][k] \in Nat
                                /\ Beyond(a, q, epoch_prefixes[s][k])
      BY <1>4, <2>1, Zenon
    <3> HIDE DEF a, q
    <3>3. /\ Ordered(b, r) /\ (Scheduled(r) => Scheduled(q))
          /\ \A s \in BOOLEAN : Beyond(b, r, epoch_prefixes[s][k])
      <4>1. b = Append(a, empty) /\ r = Tail(q) /\ q # <<>>
        BY <2>2, Zenon
      <4> HIDE DEF b, r
      <4>2. /\ Ordered(b, r) /\ (Scheduled(r) => Scheduled(q))
            /\ \A e \in Nat : Beyond(a, q, e) => Beyond(b, r, e)
        BY ONLY <3>2, <4>1, OrderReturned, Zenon
      <4> QED
        BY <3>2, <4>2, Zenon
    <3> HIDE DEF b, r
    <3>4. QueueInv'
      <4> HIDE DEF k
      <4> QED
        BY <1>0, <2>1, <3>1, <3>3, QueueReplaced, Zenon
    <3>5. \A d \in Cores : persist_buffers_'[d] = IF d = k THEN r ELSE persist_buffers_[d]
      BY <1>0, <2>1, <3>1, Zenon DEF BufferInv
    <3>6. \A d \in Cores : Scheduled(persist_buffers_'[d]) => Scheduled(persist_buffers_[d])
      BY <3>3, <3>5, Zenon DEF q
    <3>7. PassInv'
      BY <3>1, <3>6, PassFrame, Zenon DEF PassInv
    <3> QED
      BY <3>4, <3>7, Zenon
  <2>3. CASE ~(q # <<>> /\ Head(q).io)
    <3>1. /\ wpc'[l] = "load" /\ wcore'[l] = Assigned(l, k + 1) /\ persist_buffers_' = persist_buffers_
          /\ UNCHANGED <<bufs, epoch_prefixes>>
      BY <1>0, <1>9, <2>1, <2>3, Zenon DEF WriterReturn, PlaceType, bufs
    <3>2. ~Scheduled(q)
      <4>1. q \in Seq(pbuffer) /\ Ordered(a, q)
        BY <1>4, <2>1, Zenon
      <4> HIDE DEF a, q
      <4>2. SUFFICES ASSUME NEW j \in 1 .. Len(q), q[j].io PROVE FALSE
        BY Zenon DEF Scheduled
      <4>3. q # <<>> /\ 1 \in 1 .. Len(q) /\ Head(q) = q[1] /\ (1 < j \/ j = 1)
        BY <4>1
      <4> QED
        BY <2>3, <4>1, <4>2, <4>3 DEF Ordered
    <3>3. k + 1 \in 0 .. NMAXCORES /\ \A c \in Cores : c >= k /\ c # k => c >= k + 1
      BY <2>1, CoreFacts
    <3>4. /\ wcore'[l] < NMAXCORES => logger[wcore'[l]] = l
          /\ \A c \in Cores : c >= k + 1 /\ logger[c] = l => wcore'[l] <= c
      BY <3>1, <3>3, AssignedFacts
    <3>5. \A c \in Cores : logger[c] = l /\ Scheduled(persist_buffers_[c]) => c >= k /\ c # k
      BY <1>0, <2>1, <3>2, Zenon DEF PassAt
    <3>6. wcore'[l] \in Nat /\ \A c \in Cores : c \in Nat
      BY <3>1, <3>3, AssignedType, CoreFacts
    <3>7. \A c \in Cores : logger[c] = l /\ Scheduled(persist_buffers_[c]) => c >= wcore'[l]
      BY <3>3, <3>4, <3>5, <3>6, Zenon
    <3>8. PassAt(l)'
      BY <3>1, <3>4, <3>7, Zenon DEF PassAt
    <3> QED
      BY <1>2, <3>1, <3>8, Zenon
  <2> QED
    BY <2>2, <2>3, Zenon
<1>10. CASE WriterCollect(l)
  <2> DEFINE n == Taken(l, k)
             r == [i \in 1 .. Len(q) |-> [q[i] EXCEPT !.io = (i <= n)]]
             s == sense[l]
             e == IF n > 0 THEN q[n].epoch - 1 ELSE epoch_prefixes[s][k]
  <2>1. wpc[l] = "collect" /\ k \in Cores /\ logger[k] = l /\ s \in BOOLEAN
    BY <1>0, <1>3, <1>10, Zenon DEF WriterCollect, PlaceType, PassAt
  <2>2. /\ persist_buffers_' = [persist_buffers_ EXCEPT ![k] = r] /\ all_buffers_' = all_buffers_
        /\ epoch_prefixes' = [epoch_prefixes EXCEPT ![s][k] = e]
        /\ wpc' = wpc /\ nbufswritten'[l] = nbufswritten[l] + n
        /\ wcore'[l] \in {NMAXCORES, Assigned(l, k + 1)}
    BY <1>0, <1>10, <2>1, Zenon DEF WriterCollect, FloorInv, CountInv, PlaceType
  <2>3. /\ a \in Seq(pbuffer) /\ q \in Seq(pbuffer) /\ Ordered(a, q)
        /\ \A t \in BOOLEAN : epoch_prefixes[t][k] \in Nat /\ Beyond(a, q, epoch_prefixes[t][k])
    BY <1>4, <2>1, Zenon
  <2>4. nbufswritten[l] \in 0 .. IovMax
    BY <1>0, Zenon DEF CountInv
  <2>5. n \in 0 .. Len(q)
    BY <2>1, <2>3, <2>4, TakenType, Zenon
  <2>6. ~Scheduled(q)
    <3>1. ~(k < k)
      BY <2>1, CoreFacts
    <3> QED
      BY <1>0, <2>1, <3>1, Zenon DEF PassAt
  <2> HIDE DEF a, q, n, s
  <2>7. /\ Ordered(a, r) /\ (Scheduled(r) => n > 0)
        /\ \A t \in BOOLEAN : Beyond(a, r, epoch_prefixes[t][k])
        /\ n > 0 => Beyond(a, r, q[n].epoch - 1)
    <3>1. r = [i \in 1 .. Len(q) |-> [q[i] EXCEPT !.io = (i <= n)]]
      BY Zenon
    <3> HIDE DEF r
    <3>2. /\ Ordered(a, r) /\ (Scheduled(r) => n > 0)
          /\ \A f \in Nat : Beyond(a, q, f) => Beyond(a, r, f)
          /\ n > 0 => Beyond(a, r, q[n].epoch - 1)
      BY ONLY <2>3, <2>5, <2>6, <3>1, OrderCollected
    <3> QED
      BY <2>3, <3>2, Zenon
  <2>8. Beyond(a, r, e)
    BY <2>1, <2>7, Zenon
  <2> HIDE DEF r, e
  <2>9. \A t \in BOOLEAN, d \in Cores :
          epoch_prefixes'[t][d] = IF t = s /\ d = k THEN e ELSE epoch_prefixes[t][d]
    BY <1>0, <2>1, <2>2, Zenon DEF FloorInv
  <2>10. \A d \in Cores : persist_buffers_'[d] = IF d = k THEN r ELSE persist_buffers_[d]
    BY <1>0, <2>1, <2>2, Zenon DEF BufferInv
  <2>11. QueueInv'
    <3> SUFFICES ASSUME NEW d \in Cores
                 PROVE  /\ Ordered(all_buffers_'[d], persist_buffers_'[d])
                        /\ \A t \in BOOLEAN :
                             Beyond(all_buffers_'[d], persist_buffers_'[d], epoch_prefixes'[t][d])
      BY Zenon DEF QueueInv
    <3>1. CASE d = k
      <4>1. all_buffers_'[d] = a /\ persist_buffers_'[d] = r
        BY <2>2, <2>10, <3>1, Zenon DEF a
      <4>2. \A t \in BOOLEAN : epoch_prefixes'[t][d] = e \/ epoch_prefixes'[t][d] = epoch_prefixes[t][k]
        BY <2>9, <3>1, Zenon
      <4> QED
        BY <2>7, <2>8, <4>1, <4>2, Zenon
    <3>2. CASE d # k
      BY <2>2, <2>9, <2>10, <3>2 DEF QueueInv
    <3> QED
      BY <3>1, <3>2, Zenon
  <2>12. /\ wcore'[l] \in k + 1 .. NMAXCORES
         /\ wcore'[l] < NMAXCORES => logger[wcore'[l]] = l
    <3>1. k + 1 \in 0 .. NMAXCORES /\ k \in Nat /\ NMAXCORES \in Nat
      BY <2>1, CoreFacts, Zenon
    <3> HIDE DEF k
    <3>2. Assigned(l, k + 1) \in k + 1 .. NMAXCORES
      BY <3>1, AssignedFacts, Zenon
    <3>3. Assigned(l, k + 1) < NMAXCORES => logger[Assigned(l, k + 1)] = l
      BY <3>1, AssignedFacts, Zenon
    <3> QED
      BY <2>2, <3>1, <3>2, <3>3
  <2>13. \A c \in Cores : logger[c] = l /\ Scheduled(persist_buffers_'[c])
           => c < wcore'[l] /\ nbufswritten'[l] > 0
    <3> SUFFICES ASSUME NEW c \in Cores, logger[c] = l, Scheduled(persist_buffers_'[c])
                 PROVE  c < wcore'[l] /\ nbufswritten'[l] > 0
      BY Zenon
    <3>0. c \in Nat /\ k \in Nat /\ wcore'[l] \in Nat /\ k < wcore'[l]
      BY <2>1, <2>12, CoreFacts
    <3>1. n \in Nat /\ nbufswritten[l] \in Nat /\ nbufswritten'[l] = nbufswritten[l] + n
      BY <2>2, <2>3, <2>4, <2>5, LenProperties
    <3>2. CASE c = k
      <4>1. n > 0
        BY <2>7, <2>10, <3>2, Zenon
      <4> QED
        BY ONLY <3>0, <3>1, <3>2, <4>1
    <3>3. CASE c # k
      <4>1. Scheduled(persist_buffers_[c])
        BY <2>10, <3>3, Zenon
      <4>2. c < k /\ nbufswritten[l] > 0
        BY <1>0, <2>1, <4>1, Zenon DEF PassAt
      <4> QED
        BY <3>0, <3>1, <4>2
    <3> QED
      BY <3>2, <3>3, Zenon
  <2>14. PassAt(l)'
    BY <2>1, <2>2, <2>12, <2>13, Zenon DEF PassAt
  <2>15. \A c \in Cores : logger[c] # l => persist_buffers_'[c] = persist_buffers_[c]
    BY <2>1, <2>10, Zenon
  <2> QED
    BY <1>1, <2>11, <2>14, <2>15, PassOthers, Zenon
<1> QED
  BY <1>5, <1>6, <1>7, <1>8, <1>9, <1>10, Zenon DEF writer

\* txn_proto2_impl.cc:323.  What a writer is about to publish for a core as
\* persisted covers no buffer of that core that the pass left unscheduled, in
\* whatever order workers push and the writers of all loggers collect.
THEOREM PrefixesDurable == LoggerSpec => []PrefixDurable
<1>1. LoggerInit => QueueInv /\ PassInv
  <2> SUFFICES ASSUME LoggerInit PROVE QueueInv /\ PassInv
    BY Zenon
  <2>1. \A c \in Cores : /\ persist_buffers_[c] = <<>> /\ Len(persist_buffers_[c]) = 0
                         /\ \A i \in 1 .. Len(all_buffers_[c]) : all_buffers_[c][i] = empty
    BY LoggerAssumption DEF LoggerInit
  <2>2. ~empty.io /\ empty.nentries = 0
    BY Zenon DEF empty
  <2>3. QueueInv
    <3> SUFFICES ASSUME NEW c \in Cores
                 PROVE  /\ Ordered(all_buffers_[c], persist_buffers_[c])
                        /\ \A e : Beyond(all_buffers_[c], persist_buffers_[c], e)
      BY Zenon DEF QueueInv
    <3> DEFINE a == all_buffers_[c]
    <3>1. Len(a) = g_perthread_buffers /\ Len(a) \in Nat \ {0}
      BY LoggerAssumption DEF LoggerInit
    <3>2. 1 \in 1 .. Len(a)
      BY <3>1
    <3> QED
      BY <2>1, <2>2, <3>2 DEF Ordered, Beyond
  <2>4. PassInv
    BY <2>1 DEF PassInv, PassAt, Scheduled, LoggerInit
  <2> QED
    BY <2>3, <2>4, Zenon
<1>2. LoggerInv /\ QueueInv /\ PassInv /\ [LoggerNext]_lvars => QueueInv' /\ PassInv'
  <2> SUFFICES ASSUME LoggerInv, QueueInv, PassInv, [LoggerNext]_lvars PROVE QueueInv' /\ PassInv'
    BY Zenon
  <2>1. CASE UNCHANGED <<bufs, writervars>>
    <3>1. UNCHANGED <<persist_buffers_, wpc, wcore, nbufswritten>> /\ UNCHANGED <<bufs, epoch_prefixes>>
      BY <2>1, Zenon DEF bufs, writervars
    <3>2. QueueInv'
      BY <3>1, QueueKept, Zenon
    <3>3. PassInv'
      BY <3>1, Zenon DEF PassInv, PassAt
    <3> QED
      BY <3>2, <3>3, Zenon
  <2>2. CASE clockstep \/ persister \/ UNCHANGED lvars
    BY <2>1, <2>2, Zenon DEF clockstep, persister, PersisterStart, PersisterPeek, PersisterLocked,
       PersisterBusy, PersisterRecheck, PersisterMark, PersisterLoad, PersisterStore, lvars
  <2> QED
    BY <2>2, WorkerOrder, WriterOrder, Zenon DEF LoggerNext
<1>3. LoggerInv /\ QueueInv => PrefixDurable
  <2> SUFFICES ASSUME LoggerInv, QueueInv, NEW c \in Cores, NEW s \in BOOLEAN,
                      NEW b \in Undurable(c), b.nentries > 0, ~b.io
               PROVE  b.epoch > epoch_prefixes[s][c]
    BY Zenon DEF PrefixDurable
  <2> DEFINE a == all_buffers_[c]
             q == persist_buffers_[c]
  <2>1. /\ a \in Seq(pbuffer) /\ q \in Seq(pbuffer)
        /\ Ordered(a, q) /\ Beyond(a, q, epoch_prefixes[s][c])
    BY Zenon DEF LoggerInv, BufferInv, QueueInv
  <2>2. DOMAIN a = 1 .. Len(a) /\ DOMAIN q = 1 .. Len(q) /\ Len(a) \in Nat
    BY <2>1, LenProperties, Zenon
  <2>3. (\E i \in 1 .. Len(a) : b = a[i]) \/ (\E i \in 1 .. Len(q) : b = q[i])
    BY <2>2, Zenon DEF Undurable
  <2> HIDE DEF a, q
  <2>4. ASSUME NEW i \in 1 .. Len(a), b = a[i] PROVE b.epoch > epoch_prefixes[s][c]
    <3>1. ~(i > 1)
      BY <2>1, <2>4 DEF Ordered
    <3>2. i = 1 /\ Len(a) > 0
      BY <2>2, <3>1
    <3> QED
      BY <2>1, <2>4, <3>2, ZenonT(60) DEF Beyond
  <2>5. ASSUME NEW i \in 1 .. Len(q), b = q[i] PROVE b.epoch > epoch_prefixes[s][c]
    BY <2>1, <2>5, Zenon DEF Beyond
  <2> QED
    BY <2>3, <2>4, <2>5, Zenon
<1> QED
  BY <1>1, <1>2, <1>3, LoggerInvariant, PTL DEF LoggerSpec
=============================================================================
