-------------------------- MODULE SslfQueueProofs --------------------------
(***************************************************************************)
(* sslfqueue delivers what was offered, in order, for every capacity and   *)
(* every number of operations.                                             *)
(***************************************************************************)
EXTENDS SslfQueue, SequenceTheorems, TLAPS

(***************************************************************************)
(* Cell arithmetic: positions less than cap apart lie in different cells.  *)
(***************************************************************************)

(* Division with remainder, for the i & mask of every buffer access.       *)
LEMMA Remainder ==
    ASSUME NEW n \in Nat \ {0}, NEW i \in Nat
    PROVE  /\ i % n \in 0 .. n - 1
           /\ i = (n * (i \div n)) + (i % n)
           /\ i \div n \in Int
BY SMT

(* No multiple of n lies strictly between 0 and n.                         *)
LEMMA NoMultipleBetween ==
    ASSUME NEW n \in Nat \ {0}, NEW q \in Int, NEW d \in Int, n * q = d
    PROVE  ~(0 < d /\ d < n)
BY SMT

(* Two positions of one lap of the ring never share a cell.                *)
LEMMA CellsDistinct ==
    ASSUME NEW n \in Nat \ {0}, NEW i \in Nat, NEW j \in Nat, i < j, j < i + n
    PROVE  i % n # j % n
<1>1. SUFFICES ASSUME i % n = j % n PROVE FALSE
  OBVIOUS
<1>2. n * ((j \div n) - (i \div n)) = j - i
  <2>1. j - i = (n * (j \div n)) - (n * (i \div n))
    BY Remainder, <1>1
  <2> QED
    BY <2>1, Remainder, SMT
<1>3. (j \div n) - (i \div n) \in Int
  BY Remainder
<1>4. PICK q \in Int : n * q = j - i
  BY <1>2, <1>3, Zenon
<1>5. j - i \in Int
  OBVIOUS
<1>6. ~(0 < j - i /\ j - i < n)
  BY ONLY <1>4, <1>5, NoMultipleBetween, n \in Nat \ {0}
<1> QED
  BY <1>6

(***************************************************************************)
(* The inductive invariant.  The caches lag behind the indices they copy,  *)
(* which makes both tests conservative: offer writes only a cell of a      *)
(* position the consumer has given back, poll reads only published cells.  *)
(***************************************************************************)
IndexInv ==
    /\ head_cache <= head /\ head <= tail_cache /\ tail_cache <= tail
    /\ tail <= head_cache + cap
    /\ opc \in {"write", "publish"} => tail < head_cache + cap
    /\ cpc # "idle" => head <= cur_head /\ cur_head <= tail_cache
    /\ cpc \in {"poll", "batch"} => cur_head < tail_cache

ContentInv ==
    /\ Len(sent) = tail
    /\ Len(got) = IF cpc = "idle" THEN head ELSE cur_head
    /\ \A i \in Nat : head <= i /\ i < tail => buffer[i % cap] = sent[i + 1]
    /\ opc = "publish" => buffer[tail % cap] = e
    /\ \A i \in 1 .. Len(got) : got[i] = sent[i]

QInv == QTypeOK /\ IndexInv /\ ContentInv

(* The queue starts empty.                                                 *)
LEMMA QInitInv == QInit => QInv
BY QueueAssumption DEF QInit, QInv, QTypeOK, IndexInv, ContentInv

(* Types and the order of the indices are preserved by every step.         *)
LEMMA QTypeStep == QTypeOK /\ IndexInv /\ [QNext]_qvars => QTypeOK' /\ IndexInv'
<1> SUFFICES ASSUME QTypeOK, IndexInv, [QNext]_qvars PROVE QTypeOK' /\ IndexInv'
  OBVIOUS
<1> USE QueueAssumption DEF QTypeOK, IndexInv
<1>1. ASSUME NEW v \in T, NEW h \in head_cache .. head, OfferCheck(v, h)
      PROVE  QTypeOK' /\ IndexInv'
  BY <1>1 DEF OfferCheck, consvars
<1>2. CASE OfferWrite
  BY <1>2, Remainder DEF OfferWrite, consvars
<1>3. CASE OfferPublish
  BY <1>3, AppendProperties DEF OfferPublish, consvars
<1>4. ASSUME NEW kind \in {"poll", "batch"}, NEW t \in tail_cache .. tail,
             PollCheck(kind, t)
      PROVE  QTypeOK' /\ IndexInv'
  BY <1>4 DEF PollCheck, prodvars
<1>5. CASE PollRead
  <2>1. buffer[cur_head % cap] \in T
    BY Remainder
  <2> QED
    BY <1>5, <2>1, AppendProperties DEF PollRead, prodvars
<1>6. CASE PollStore
  BY <1>6 DEF PollStore, prodvars
<1>7. CASE UNCHANGED qvars
  BY <1>7 DEF qvars, prodvars, consvars
<1> QED
  BY <1>1, <1>2, <1>3, <1>4, <1>5, <1>6, <1>7 DEF QNext, offer, poll

(* Every live cell keeps the element accepted for its position.            *)
LEMMA ContentStep == QInv /\ [QNext]_qvars => ContentInv'
<1> SUFFICES ASSUME QInv, [QNext]_qvars PROVE ContentInv'
  OBVIOUS
<1> USE QueueAssumption DEF QInv, QTypeOK, IndexInv, ContentInv
<1>1. ASSUME NEW v \in T, NEW h \in head_cache .. head, OfferCheck(v, h)
      PROVE  ContentInv'
  BY <1>1, Zenon DEF OfferCheck, consvars
<1>2. CASE OfferWrite
  <2>1. \A i \in Nat : head <= i /\ i < tail => i % cap # tail % cap
    <3> SUFFICES ASSUME NEW i \in Nat, head <= i, i < tail
                 PROVE  i % cap # tail % cap
      BY Zenon
    <3>1. tail < i + cap
      BY <1>2 DEF OfferWrite
    <3>2. tail \in Nat /\ cap \in Nat \ {0}
      OBVIOUS
    <3> QED
      BY ONLY <3>1, <3>2, i \in Nat, i < tail, CellsDistinct, Zenon
  <2>2. \A i \in Nat : i % cap \in 0 .. cap - 1
    BY Remainder
  <2> QED
    BY <1>2, <2>1, <2>2, Zenon DEF OfferWrite, consvars
<1>3. CASE OfferPublish
  <2>1. /\ Len(sent') = tail + 1
        /\ \A i \in 1 .. Len(sent) : sent'[i] = sent[i]
        /\ sent'[tail + 1] = e
    BY <1>3, AppendProperties, SMTT(20) DEF OfferPublish
  <2>2. Len(sent') = tail' /\ Len(got') = IF cpc' = "idle" THEN head' ELSE cur_head'
    BY <1>3, <2>1 DEF OfferPublish, consvars
  <2>3. \A i \in Nat : head <= i /\ i < tail + 1 => buffer[i % cap] = sent'[i + 1]
    <3> SUFFICES ASSUME NEW i \in Nat, head <= i, i < tail + 1
                 PROVE  buffer[i % cap] = sent'[i + 1]
      BY Zenon
    <3>1. CASE i < tail
      <4>1. i + 1 \in 1 .. Len(sent)
        BY <3>1
      <4> QED
        BY <4>1, <3>1, <2>1, Zenon
    <3>2. CASE i = tail
      BY <3>2, <2>1, <1>3 DEF OfferPublish
    <3> QED
      BY <3>1, <3>2
  <2>4. \A i \in 1 .. Len(got) : got[i] = sent'[i]
    <3>1. Len(got) <= Len(sent) /\ Len(got) \in Nat /\ Len(sent) \in Nat
      OBVIOUS
    <3> QED
      BY <2>1, <3>1
  <2> QED
    BY <1>3, <2>2, <2>3, <2>4, Zenon DEF OfferPublish, consvars
<1>4. ASSUME NEW kind \in {"poll", "batch"}, NEW t \in tail_cache .. tail,
             PollCheck(kind, t)
      PROVE  ContentInv'
  BY <1>4 DEF PollCheck, prodvars
<1>5. CASE PollRead
  <2>1. buffer[cur_head % cap] \in T
    BY Remainder, Zenon
  <2>a. buffer[cur_head % cap] = sent[cur_head + 1]
    <3>1. head <= cur_head /\ cur_head < tail
      BY <1>5 DEF PollRead
    <3> QED
      BY <3>1
  <2>2. /\ Len(got') = cur_head + 1
        /\ \A i \in 1 .. Len(got) : got'[i] = got[i]
        /\ got'[cur_head + 1] = sent[cur_head + 1]
    <3>1. /\ got \in Seq(T) /\ Len(got) = cur_head
          /\ got' = Append(got, buffer[cur_head % cap])
      BY <1>5 DEF PollRead
    <3> QED
      BY ONLY <2>1, <2>a, <3>1, AppendProperties
  <2> QED
    BY <1>5, <2>2 DEF PollRead, prodvars
<1>6. CASE PollStore
  <2>1. head <= cur_head /\ head' = cur_head /\ cpc' = "idle" /\ Len(got) = cur_head
    BY <1>6 DEF PollStore
  <2>2. \A i \in Nat : cur_head <= i /\ i < tail => buffer[i % cap] = sent[i + 1]
    <3> SUFFICES ASSUME NEW i \in Nat, cur_head <= i, i < tail
                 PROVE  buffer[i % cap] = sent[i + 1]
      BY Zenon
    <3>1. head <= i
      BY <2>1
    <3> QED
      BY <3>1
  <2>3. UNCHANGED <<got, buffer, sent, tail, opc, e>>
    BY <1>6 DEF PollStore, prodvars
  <2> QED
    BY <2>1, <2>2, <2>3
<1>7. CASE UNCHANGED qvars
  BY <1>7 DEF qvars, prodvars, consvars
<1> QED
  BY <1>1, <1>2, <1>3, <1>4, <1>5, <1>6, <1>7 DEF QNext, offer, poll

(* The invariant holds in every reachable state.                           *)
THEOREM QInvariant == QSpec => []QInv
<1>1. QInv /\ [QNext]_qvars => QInv'
  BY QTypeStep, ContentStep DEF QInv
<1> QED
  BY <1>1, QInitInv, PTL DEF QSpec

(* Indices, caches and cells of sslfqueue.h keep their types.              *)
THEOREM QTypeCorrect == QSpec => []QTypeOK
<1>1. QInv => QTypeOK
  BY DEF QInv
<1> QED
  BY <1>1, QInvariant, PTL

(* poll and batch_poll return what offer accepted, in order.               *)
THEOREM QDelivered == QSpec => []DeliveredInOrder
<1>1. QInv => DeliveredInOrder
  BY DEF QInv, QTypeOK, IndexInv, ContentInv, DeliveredInOrder
<1> QED
  BY <1>1, QInvariant, PTL

(* The producer's write and the consumer's read never meet in a cell.      *)
THEOREM QNoCellRace == QSpec => []NoCellRace
<1>1. QInv => NoCellRace
  <2> SUFFICES ASSUME QInv, opc = "write", cpc \in {"poll", "batch"}
               PROVE  tail % cap # cur_head % cap
    BY DEF NoCellRace
  <2>1. cur_head < tail /\ tail < cur_head + cap
    BY QueueAssumption DEF QInv, QTypeOK, IndexInv
  <2>2. cur_head \in Nat /\ tail \in Nat /\ cap \in Nat \ {0}
    BY QueueAssumption DEF QInv, QTypeOK
  <2> QED
    BY ONLY <2>1, <2>2, CellsDistinct, Zenon
<1> QED
  BY <1>1, QInvariant, PTL

(***************************************************************************)
(* The refinement.  The elements between the indices are a window of what  *)
(* was accepted; offer extends the window, a poll moves its lower end.     *)
(***************************************************************************)

(* The window h + 1 .. t of a sequence.                                    *)
LEMMA Window ==
    ASSUME NEW S, NEW s \in Seq(S), NEW h \in Nat, NEW t \in Nat, h <= t, t <= Len(s)
    PROVE  /\ SubSeq(s, h + 1, t) \in Seq(S)
           /\ Len(SubSeq(s, h + 1, t)) = t - h
           /\ \A i \in 1 .. t - h : SubSeq(s, h + 1, t)[i] = s[h + i]
<1>1. h + 1 \in Int /\ t \in Int
  OBVIOUS
<1>2. \A i \in h + 1 .. t : s[i] \in S
  BY ElementOfSeq
<1>3. /\ SubSeq(s, h + 1, t) \in Seq(S)
      /\ Len(SubSeq(s, h + 1, t)) = IF h + 1 <= t THEN t - (h + 1) + 1 ELSE 0
      /\ \A i \in 1 .. t - (h + 1) + 1 : SubSeq(s, h + 1, t)[i] = s[(h + 1) + i - 1]
  BY <1>1, <1>2, SubSeqProperties
<1> QED
  BY <1>3

(* offer: the window grows by the accepted element.                        *)
LEMMA WindowPut ==
    ASSUME NEW S, NEW s \in Seq(S), NEW x \in S, NEW h \in Nat, h <= Len(s)
    PROVE  SubSeq(Append(s, x), h + 1, Len(s) + 1) = Append(SubSeq(s, h + 1, Len(s)), x)
<1> DEFINE a == SubSeq(Append(s, x), h + 1, Len(s) + 1)
           w == SubSeq(s, h + 1, Len(s))
<1>1. /\ Append(s, x) \in Seq(S) /\ Len(Append(s, x)) = Len(s) + 1
      /\ \A i \in 1 .. Len(s) : Append(s, x)[i] = s[i]
      /\ Append(s, x)[Len(s) + 1] = x
  BY AppendProperties
<1>2. /\ a \in Seq(S) /\ Len(a) = Len(s) + 1 - h
      /\ \A i \in 1 .. Len(s) + 1 - h : a[i] = Append(s, x)[h + i]
  <2> DEFINE r == Append(s, x)
  <2>1. r \in Seq(S) /\ h <= Len(s) + 1 /\ Len(s) + 1 <= Len(r) /\ Len(s) + 1 \in Nat
    BY <1>1
  <2> HIDE DEF r
  <2>2. /\ SubSeq(r, h + 1, Len(s) + 1) \in Seq(S)
        /\ Len(SubSeq(r, h + 1, Len(s) + 1)) = Len(s) + 1 - h
        /\ \A i \in 1 .. Len(s) + 1 - h : SubSeq(r, h + 1, Len(s) + 1)[i] = r[h + i]
    BY ONLY <2>1, h \in Nat, Window
  <2> QED
    BY <2>2 DEF r
<1>3. /\ w \in Seq(S) /\ Len(w) = Len(s) - h
      /\ \A i \in 1 .. Len(s) - h : w[i] = s[h + i]
  BY Window
<1> HIDE DEF a, w
<1>4. /\ Append(w, x) \in Seq(S) /\ Len(Append(w, x)) = Len(w) + 1
      /\ \A i \in 1 .. Len(w) : Append(w, x)[i] = w[i]
      /\ Append(w, x)[Len(w) + 1] = x
  BY <1>3, AppendProperties
<1>5. \A i \in 1 .. Len(a) : a[i] = Append(w, x)[i]
  <2> SUFFICES ASSUME NEW i \in 1 .. Len(a) PROVE a[i] = Append(w, x)[i]
    BY Zenon
  <2>1. CASE i = Len(w) + 1
    <3>1. h + i = Len(s) + 1
      BY <2>1, <1>3
    <3> QED
      BY <3>1, <2>1, <1>1, <1>2, <1>4
  <2>2. CASE i \in 1 .. Len(w)
    <3>1. h + i \in 1 .. Len(s)
      BY <2>2, <1>3
    <3> QED
      BY <3>1, <2>2, <1>1, <1>2, <1>3, <1>4, Zenon
  <2>3. Len(a) = Len(w) + 1 /\ Len(w) \in Nat
    BY <1>2, <1>3
  <2>4. i = Len(w) + 1 \/ i \in 1 .. Len(w)
    BY <2>3
  <2> QED
    BY <2>1, <2>2, <2>4
<1>6. Len(a) = Len(Append(w, x))
  BY <1>2, <1>3, <1>4
<1> QED
  <2>1. a = Append(w, x)
    BY <1>2, <1>4, <1>5, <1>6, SeqEqual, Zenon
  <2> QED
    BY <2>1, Zenon DEF a, w

(* poll: the elements taken leave the front of the window for the output.  *)
LEMMA WindowTake ==
    ASSUME NEW S, NEW s \in Seq(S), NEW h \in Nat, NEW c \in Nat, h <= c, c <= Len(s),
           NEW w, w = SubSeq(s, h + 1, Len(s))
    PROVE  /\ SubSeq(w, (c - h) + 1, Len(w)) = SubSeq(s, c + 1, Len(s))
           /\ SubSeq(s, 1, h) \o SubSeq(w, 1, c - h) = SubSeq(s, 1, c)
<1>1. /\ w \in Seq(S) /\ Len(w) = Len(s) - h
      /\ \A i \in 1 .. Len(s) - h : w[i] = s[h + i]
  BY Window
<1>2. SubSeq(w, (c - h) + 1, Len(w)) = SubSeq(s, c + 1, Len(s))
  <2> DEFINE a == SubSeq(w, (c - h) + 1, Len(w))
             b == SubSeq(s, c + 1, Len(s))
  <2>1. c - h \in Nat /\ c - h <= Len(w) /\ Len(w) \in Nat
    BY <1>1
  <2>2. /\ a \in Seq(S) /\ Len(a) = Len(w) - (c - h)
        /\ \A i \in 1 .. Len(w) - (c - h) : a[i] = w[(c - h) + i]
    BY <2>1, <1>1, Window
  <2>3. /\ b \in Seq(S) /\ Len(b) = Len(s) - c
        /\ \A i \in 1 .. Len(s) - c : b[i] = s[c + i]
    BY Window
  <2> HIDE DEF a, b
  <2>4. \A i \in 1 .. Len(a) : a[i] = b[i]
    <3> SUFFICES ASSUME NEW i \in 1 .. Len(a) PROVE a[i] = b[i]
      OBVIOUS
    <3>1. (c - h) + i \in 1 .. Len(s) - h /\ h + ((c - h) + i) = c + i
      BY <2>2, <1>1
    <3>2. a[i] = w[(c - h) + i]
      BY <2>2
    <3>3. w[(c - h) + i] = s[c + i]
      BY <3>1, <1>1
    <3>4. b[i] = s[c + i]
      <4>1. i \in 1 .. Len(s) - c
        BY <2>2, <1>1
      <4> QED
        BY <2>3, <4>1, Zenon
    <3> QED
      BY <3>2, <3>3, <3>4, Zenon
  <2>5. Len(a) = Len(b)
    BY <2>2, <2>3, <1>1
  <2>6. a = b
    BY <2>2, <2>3, <2>4, <2>5, SeqEqual, Zenon
  <2> QED
    BY <2>6 DEF a, b
<1>3. SubSeq(w, 1, c - h) = SubSeq(s, h + 1, c)
  <2> DEFINE a == SubSeq(w, 1, c - h)
             b == SubSeq(s, h + 1, c)
  <2>1. c - h \in Nat /\ c - h <= Len(w) /\ 0 \in Nat /\ 0 + 1 = 1
    BY <1>1
  <2>2. /\ a \in Seq(S) /\ Len(a) = (c - h) - 0
        /\ \A i \in 1 .. (c - h) - 0 : a[i] = w[0 + i]
    BY ONLY <2>1, <1>1, Window
  <2>3. /\ b \in Seq(S) /\ Len(b) = c - h
        /\ \A i \in 1 .. c - h : b[i] = s[h + i]
    BY Window
  <2> HIDE DEF a, b
  <2>4. \A i \in 1 .. Len(a) : a[i] = b[i]
    <3> SUFFICES ASSUME NEW i \in 1 .. Len(a) PROVE a[i] = b[i]
      BY Zenon
    <3>1. i \in 1 .. c - h /\ i \in 1 .. (c - h) - 0 /\ i \in 1 .. Len(s) - h /\ 0 + i = i
      BY <2>2, <1>1
    <3>2. a[i] = w[i]
      BY <2>2, <3>1
    <3>3. w[i] = s[h + i]
      BY <1>1, <3>1, Zenon
    <3>4. b[i] = s[h + i]
      BY <2>3, <3>1, Zenon
    <3> QED
      BY <3>2, <3>3, <3>4, Zenon
  <2>5. Len(a) = Len(b)
    BY <2>2, <2>3
  <2>6. a = b
    BY <2>2, <2>3, <2>4, <2>5, SeqEqual, Zenon
  <2> QED
    BY <2>6 DEF a, b
<1>4. SubSeq(s, 1, h) \o SubSeq(s, h + 1, c) = SubSeq(s, 1, c)
  <2>1. 1 \in 1 .. Len(s) + 1 /\ h \in 1 - 1 .. Len(s) /\ c \in h .. Len(s)
    OBVIOUS
  <2> QED
    BY <2>1, ConcatAdjacentSubSeq
<1> QED
  BY <1>2, <1>3, <1>4, SMTT(20)

InWindow ==
    /\ Items = SubSeq(sent, head + 1, Len(sent)) /\ Out = SubSeq(sent, 1, head)
    /\ head <= Len(sent) /\ Len(sent) = tail

(* The mapped state in terms of what was accepted.                         *)
LEMMA ItemsAreWindow ==
    QInv => InWindow
<1> SUFFICES ASSUME QInv PROVE InWindow
  OBVIOUS
<1>1. /\ sent \in Seq(T) /\ got \in Seq(T) /\ head \in Nat /\ tail \in Nat
      /\ Len(sent) = tail /\ head <= tail /\ head <= Len(got) /\ cap \in Nat \ {0}
  BY QueueAssumption DEF QInv, QTypeOK, IndexInv, ContentInv
<1>2. Items = SubSeq(sent, head + 1, Len(sent))
  <2> DEFINE w == SubSeq(sent, head + 1, Len(sent))
  <2>1. /\ w \in Seq(T) /\ Len(w) = tail - head
        /\ \A i \in 1 .. tail - head : w[i] = sent[head + i]
    BY <1>1, Window
  <2> HIDE DEF w
  <2>2. w \in [1 .. tail - head -> T]
    BY <2>1, LenProperties
  <2>3. ASSUME NEW i \in 1 .. tail - head
        PROVE  buffer[(head + i - 1) % cap] = sent[head + i]
    <3>1. /\ head + i - 1 \in Nat /\ head <= head + i - 1 /\ head + i - 1 < tail
          /\ (head + i - 1) + 1 = head + i
      BY <1>1
    <3>2. \A k \in Nat : head <= k /\ k < tail => buffer[k % cap] = sent[k + 1]
      BY DEF QInv, ContentInv
    <3>3. buffer[(head + i - 1) % cap] = sent[(head + i - 1) + 1]
      BY ONLY <3>1, <3>2
    <3> QED
      BY <3>1, <3>3
  <2>4. Items = w
    BY <2>1, <2>2, <2>3 DEF Items
  <2> QED
    BY <2>4 DEF w
<1>3. Out = SubSeq(sent, 1, head)
  <2> DEFINE a == SubSeq(got, 1, head)
             b == SubSeq(sent, 1, head)
  <2>1. 0 \in Nat /\ 0 + 1 = 1 /\ 0 <= head
    BY <1>1
  <2>2. /\ a \in Seq(T) /\ Len(a) = head - 0
        /\ \A i \in 1 .. head - 0 : a[i] = got[0 + i]
    BY <1>1, <2>1, Window
  <2>3. /\ b \in Seq(T) /\ Len(b) = head - 0
        /\ \A i \in 1 .. head - 0 : b[i] = sent[0 + i]
    BY <1>1, <2>1, Window
  <2> HIDE DEF a, b
  <2>4. \A i \in 1 .. Len(got) : got[i] = sent[i]
    BY DEF QInv, ContentInv
  <2>5. Len(a) = Len(b) /\ \A i \in 1 .. Len(a) : a[i] = b[i]
    BY <1>1, <2>2, <2>3, <2>4
  <2>6. a = b
    BY <2>2, <2>3, <2>5, SeqEqual
  <2> QED
    BY <2>6, Zenon DEF a, b, Out
<1> QED
  BY <1>1, <1>2, <1>3 DEF InWindow

(* sslfqueue is a bounded FIFO queue: the store of tail appends, the store *)
(* of head takes a batch, and no other step is visible.                    *)
THEOREM QImplements == QSpec => ImplementsQueue
<1>1. QInit => Queue!QueueInit
  <2> SUFFICES ASSUME QInit PROVE Queue!QueueInit
    OBVIOUS
  <2>1. head = 0 /\ tail = 0 /\ got = << >> /\ sent = << >>
    BY DEF QInit
  <2>2. Items = << >>
    <3>1. QInv
      BY QInitInv
    <3>2. Items = SubSeq(sent, head + 1, Len(sent)) /\ Len(sent) = tail
      BY <3>1, ItemsAreWindow DEF InWindow
    <3>3. SubSeq(sent, 1, 0) = << >>
      BY SubSeqEmpty
    <3> QED
      BY <3>2, <3>3, <2>1
  <2>3. Out = << >>
    BY <2>1, SubSeqEmpty DEF Out
  <2> QED
    BY <2>2, <2>3 DEF Queue!QueueInit
<1>2. QInv /\ QInv' /\ [QNext]_qvars => [Queue!QueueNext]_<<Items, Out>>
  <2> SUFFICES ASSUME QInv, QInv', [QNext]_qvars
               PROVE  [Queue!QueueNext]_<<Items, Out>>
    OBVIOUS
  <2>1. /\ Items = SubSeq(sent, head + 1, Len(sent)) /\ Out = SubSeq(sent, 1, head)
        /\ head <= Len(sent) /\ Len(sent) = tail
    BY ItemsAreWindow DEF InWindow
  <2>2. /\ Items' = SubSeq(sent', head' + 1, Len(sent')) /\ Out' = SubSeq(sent', 1, head')
        /\ head' <= Len(sent') /\ Len(sent') = tail'
    <3>1. InWindow'
      BY ItemsAreWindow, PTL
    <3> QED
      BY <3>1 DEF InWindow
  <2>3. /\ sent \in Seq(T) /\ head \in Nat /\ tail \in Nat /\ e \in T /\ cur_head \in Nat
        /\ Items \in Seq(T) /\ Len(Items) = tail - head /\ cap \in Nat \ {0}
    <3>1. /\ sent \in Seq(T) /\ head \in Nat /\ tail \in Nat /\ e \in T /\ cur_head \in Nat
          /\ cap \in Nat \ {0}
      BY QueueAssumption DEF QInv, QTypeOK
    <3> QED
      BY ONLY <2>1, <3>1, Window
  <2>4. ASSUME UNCHANGED <<sent, head>> PROVE [Queue!QueueNext]_<<Items, Out>>
    BY <2>1, <2>2, <2>4, Zenon
  <2>5. CASE OfferPublish
    <3>1. sent' = Append(sent, e) /\ head' = head /\ tail < head_cache + cap /\ head_cache <= head
      BY <2>5 DEF OfferPublish, consvars, QInv, IndexInv
    <3>2. Len(sent') = Len(sent) + 1
      BY <3>1, <2>3, AppendProperties
    <3>3. Items' = Append(Items, e)
      <4>1. Items' = SubSeq(Append(sent, e), head + 1, Len(sent) + 1)
        BY <2>2, <3>1, <3>2, Zenon
      <4> QED
        BY <2>1, <2>3, <4>1, WindowPut, Zenon
    <3>4. Out' = Out
      <4>1. got' = got
        BY <2>5 DEF OfferPublish, consvars
      <4> QED
        BY <3>1, <4>1 DEF Out
    <3>5. Len(Items) < cap
      BY <2>3, <3>1 DEF QInv, QTypeOK
    <3> QED
      BY <2>3, <3>3, <3>4, <3>5 DEF Queue!QueueNext, Queue!Put
  <2>6. CASE PollStore
    <3>1. sent' = sent /\ head' = cur_head /\ head <= cur_head /\ cur_head <= Len(sent)
      BY <2>6, <2>1, <2>3 DEF PollStore, prodvars, QInv, QTypeOK, IndexInv
    <3>2. /\ SubSeq(Items, (cur_head - head) + 1, Len(Items)) = SubSeq(sent, cur_head + 1, Len(sent))
          /\ SubSeq(sent, 1, head) \o SubSeq(Items, 1, cur_head - head) = SubSeq(sent, 1, cur_head)
      BY <2>1, <2>3, <3>1, WindowTake
    <3>3. /\ Items' = SubSeq(Items, (cur_head - head) + 1, Len(Items))
          /\ Out' = Out \o SubSeq(Items, 1, cur_head - head)
      BY <2>1, <2>2, <3>1, <3>2, Zenon
    <3>4. CASE cur_head = head
      BY <3>1, <3>4, <2>4
    <3>5. CASE cur_head > head
      <4>1. cur_head - head \in 1 .. Len(Items)
        BY <3>1, <3>5, <2>1, <2>3
      <4> QED
        BY <4>1, <3>3, Zenon DEF Queue!QueueNext, Queue!Take
    <3> QED
      BY <3>1, <3>4, <3>5, <2>3
  <2>7. ASSUME NEW v \in T, NEW h \in head_cache .. head, OfferCheck(v, h)
        PROVE  UNCHANGED <<sent, head>>
    BY <2>7 DEF OfferCheck, consvars
  <2>8. ASSUME NEW kind \in {"poll", "batch"}, NEW t \in tail_cache .. tail,
               PollCheck(kind, t)
        PROVE  UNCHANGED <<sent, head>>
    BY <2>8 DEF PollCheck, prodvars
  <2>9. CASE OfferWrite \/ PollRead \/ UNCHANGED qvars
    <3>1. UNCHANGED <<sent, head>>
      BY <2>9 DEF OfferWrite, PollRead, qvars, prodvars, consvars
    <3> QED
      BY <3>1, <2>4
  <2> QED
    BY <2>4, <2>5, <2>6, <2>7, <2>8, <2>9 DEF QNext, offer, poll
<1> QED
  BY <1>1, <1>2, QInvariant, PTL DEF QSpec, ImplementsQueue, Queue!QueueSpec

=============================================================================
