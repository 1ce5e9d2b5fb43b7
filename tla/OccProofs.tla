----------------------------- MODULE OccProofs ------------------------------
(***************************************************************************)
(* The writes of a transaction keep the invariant, and with it the         *)
(* theorems: locks are exclusive and complete, snapshots are settled, and  *)
(* versions move forward, for any number of cores, keys, tuples, epochs    *)
(* and transactions.                                                       *)
(***************************************************************************)
EXTENDS OccTuples

\* The tuple whose write comes next: its transaction's own, the newest of its
\* record, and with a number below the limit.
LEMMA WritesHead ==
    ASSUME OccInv, NEW c \in Cores, NEW t, t = txn[c], t.pc \in {"write", "write2"}, t.wset # <<>>,
           NEW p, p = t.wset[1].tuple
    PROVE  /\ p \in Tuples /\ p \in t.locked /\ p \in Private(t) /\ t.wset[1] \in WriteEntry
           /\ Head(t.wset) = t.wset[1]
           /\ tuple[p] \in TupleRec /\ tuple[p].version # MIN_TID /\ tuple[p].latest
           /\ ~t.wset[1].insert => tuple[p].version # MAX_TID
           /\ tuple[p].version = MAX_TID \/ tuple[p].version < Limit(tick)
           /\ t.ctid \in Nat /\ t.ctid # MIN_TID /\ t.ctid < Limit(tick) /\ t.ctid # MAX_TID
<1>1. t.pc \in Writing
  BY ONLY t.pc \in {"write", "write2"}, Zenon DEF Writing
<1>2. /\ p \in Tuples /\ p \in t.locked /\ p \in Private(t) /\ t.wset[1] \in WriteEntry
      /\ Head(t.wset) = t.wset[1]
      /\ tuple[p] \in TupleRec /\ tuple[p].version # MIN_TID
      /\ ~t.wset[1].insert => tuple[p].version # MAX_TID
      /\ tuple[p].version = MAX_TID \/ tuple[p].version < Limit(tick)
      /\ t.ctid \in Nat /\ t.ctid # MIN_TID /\ t.ctid < Limit(tick) /\ t.ctid # MAX_TID
  BY ONLY OccInv, c \in Cores, t = txn[c], <1>1, t.wset # <<>>, p = t.wset[1].tuple, FirstWrite, Zenon
<1>3. TxnType(t) /\ OwnWrites(t, tuple, tree)
  BY CoreFacts, Zenon
<1>4. 1 \in DOMAIN t.wset
  BY ONLY <1>3, t.wset # <<>>, EntryTypes, Zenon
<1>5. tuple[p].latest
  BY ONLY <1>3, <1>4, t.pc \in {"write", "write2"}, p = t.wset[1].tuple, Zenon DEF OwnWrites
<1> QED
  BY ONLY <1>2, <1>5, Zenon

\* A transaction that writes: label l, writes left w, new head h, rest r.
WriteTo(t, l, w, h, r) == [t EXCEPT !.pc = l, !.wset = w, !.head = h, !.rest = r]

\* The fields that tell a transaction from its state before a part of a write.
Wrote(t, u, l, w, h, r) ==
    /\ u.pc = l /\ u.wset = w /\ u.head = h /\ u.rest = r /\ u.locked = t.locked /\ u.infos = t.infos
    /\ u.ctid = t.ctid /\ u.snap = t.snap /\ u.stid = t.stid /\ u.scratch = t.scratch
    /\ u.rset = t.rset /\ u.tid = t.tid /\ TxnType(u)

\* The fields of a transaction after a part of a write.
LEMMA WriteToFacts ==
    ASSUME NEW t, TxnType(t), NEW l \in Writing, NEW w \in Seq(WriteEntry), NEW h \in Tuples \cup {NoTuple},
           NEW r \in Tuples \cup {NoTuple}, NEW u, u = WriteTo(t, l, w, h, r)
    PROVE  Wrote(t, u, l, w, h, r)
<1>1. Shaped(t)
  BY Zenon DEF TxnType
<1>2. /\ u.pc = l /\ u.wset = w /\ u.head = h /\ u.rest = r /\ u.locked = t.locked /\ u.infos = t.infos
      /\ u.ctid = t.ctid /\ u.snap = t.snap /\ u.stid = t.stid /\ u.scratch = t.scratch
      /\ u.rset = t.rset /\ u.tid = t.tid /\ u.ops = t.ops /\ u.cur = t.cur
  BY ONLY <1>1, u = WriteTo(t, l, w, h, r) DEF Shaped, WriteTo
<1>3. Shaped(u)
  BY ONLY <1>1, u = WriteTo(t, l, w, h, r), Zenon DEF Shaped, WriteTo
<1>4. u.pc \in Reading \cup {"undo", "lock"} \cup Holding \cup Writing \cup Calm
  BY <1>2, Zenon
<1>5. u.pc \notin {"version", "value"}
  BY <1>2 DEF Writing, Publishing
<1>6. TxnType(u)
  BY ONLY <1>2, <1>3, <1>4, <1>5, TxnType(t), w \in Seq(WriteEntry), h \in Tuples \cup {NoTuple},
          r \in Tuples \cup {NoTuple}, Zenon DEF TxnType
<1> QED
  BY ONLY <1>2, <1>6, Zenon DEF Wrote

\* The queue of a core with what a write has spilled or deleted.
LEMMA QueueGrows ==
    ASSUME OccInv, NEW c \in Cores, NEW r \in Tuples \cup {NoTuple}, NEW p \in Tuples, NEW e \in WriteEntry,
           tuple[p].version # MIN_TID, Rooted(p, e.key, tuple, tree),
           NEW s, s = queue[c] \o Spilled(c, r) \o Deleted(c, p, e)
    PROVE  s \in Seq(GcEntry) /\ GcRooted(s, tuple, tree)
<1>1. queue[c] \in Seq(GcEntry) /\ GcRooted(queue[c], tuple, tree)
  BY CoreFacts, TypeFacts, Zenon
<1>2. ASSUME NEW q \in Tuples, NEW k \in Keys \cup {NoKey}
      PROVE  Entry(c, q, k) \in GcEntry /\ Entry(c, q, k).key = k /\ Entry(c, q, k).tuple = q
  <2>1. txn[c].ctid \in Nat
    BY CoreFacts, Zenon DEF TxnType
  <2>2. EpochId(txn[c].ctid) \in Nat
    BY ONLY <2>1, TidEpoch, Zenon
  <2>3. to_read_only_tick(EpochId(txn[c].ctid)) \in Int
    <3>1. ReadOnlyEpochMultiplier \in Nat /\ ReadOnlyEpochMultiplier > 0
      BY ONLY Constants
    <3>2. to_read_only_tick(EpochId(txn[c].ctid)) \in Nat
      BY ONLY <2>2, <3>1, Quotient, Zenon DEF to_read_only_tick
    <3> QED
      BY ONLY <3>2
  <2> QED
    BY ONLY <1>2, <2>3 DEF Entry, GcEntry
<1>3. e.key \in Keys /\ e.key # NoKey /\ NoKey \in Keys \cup {NoKey}
  <2>1. e.key \in Keys
    BY ONLY e \in WriteEntry DEF WriteEntry
  <2> QED
    BY ONLY <2>1, OccAssumption, Zenon
<1>4. Spilled(c, r) \in Seq(GcEntry) /\ GcRooted(Spilled(c, r), tuple, tree)
  <2>1. CASE r = NoTuple \/ tuple[r].deleting
    <3>1. Spilled(c, r) = <<>>
      BY ONLY <2>1, Zenon DEF Spilled
    <3>2. <<>> \in Seq(GcEntry) /\ DOMAIN <<>> = {}
      OBVIOUS
    <3> QED
      BY ONLY <3>1, <3>2, Zenon DEF GcRooted
  <2>2. CASE ~(r = NoTuple \/ tuple[r].deleting)
    <3>1. PICK x : x = Entry(c, r, NoKey)
      BY Zenon
    <3>2. Spilled(c, r) = <<x>>
      BY ONLY <2>2, <3>1, Zenon DEF Spilled
    <3>3. x \in GcEntry /\ x.key = NoKey
      BY <1>2, <1>3, <2>2, <3>1, Zenon
    <3>4. <<x>> \in Seq(GcEntry) /\ GcRooted(<<x>>, tuple, tree)
      BY ONLY <3>3, GcOne, Zenon
    <3> QED
      BY ONLY <3>2, <3>4, Zenon
  <2> QED
    BY <2>1, <2>2, Zenon
<1>5. Deleted(c, p, e) \in Seq(GcEntry) /\ GcRooted(Deleted(c, p, e), tuple, tree)
  <2>1. CASE e.val # NoValue
    <3>1. Deleted(c, p, e) = <<>>
      BY ONLY <2>1, Zenon DEF Deleted
    <3>2. <<>> \in Seq(GcEntry) /\ DOMAIN <<>> = {}
      OBVIOUS
    <3> QED
      BY ONLY <3>1, <3>2, Zenon DEF GcRooted
  <2>2. CASE e.val = NoValue
    <3>1. PICK x : x = Entry(c, p, e.key)
      BY Zenon
    <3>2. Deleted(c, p, e) = <<x>>
      BY ONLY <2>2, <3>1, Zenon DEF Deleted
    <3>3. x \in GcEntry /\ x.key = e.key /\ x.tuple = p
      <4>1. p \in Tuples /\ e.key \in Keys \cup {NoKey}
        BY ONLY <1>3, p \in Tuples, Zenon
      <4> QED
        BY ONLY <1>2, <3>1, <4>1, Zenon
    <3>4. x.key # NoKey => tuple[x.tuple].version # MIN_TID /\ Rooted(x.tuple, x.key, tuple, tree)
      BY ONLY <3>3, tuple[p].version # MIN_TID, Rooted(p, e.key, tuple, tree), Zenon
    <3>5. <<x>> \in Seq(GcEntry) /\ GcRooted(<<x>>, tuple, tree)
      BY ONLY <3>3, <3>4, GcOne, Zenon
    <3> QED
      BY ONLY <3>2, <3>5, Zenon
  <2> QED
    BY <2>1, <2>2, Zenon
<1>6. PICK a : a = queue[c] \o Spilled(c, r)
  BY Zenon
<1>7. a \in Seq(GcEntry) /\ GcRooted(a, tuple, tree)
  BY ONLY <1>1, <1>4, <1>6, GcConcat, Zenon
<1>8. s = a \o Deleted(c, p, e)
  BY ONLY <1>6, s = queue[c] \o Spilled(c, r) \o Deleted(c, p, e), Zenon
<1> QED
  BY ONLY <1>5, <1>7, <1>8, GcConcat, Zenon

\* A write is done.
LEMMA TailStep ==
    ASSUME NEW T, NEW R, NEW n, NEW t, NEW u, TxnInv(t, T, R, n), t.pc \in Writing,
           t.wset # <<>>, T[t.wset[1].tuple].version # MAX_TID,
           u.pc = "write", u.wset = Tail(t.wset), u.head = NoTuple,
           u.locked = t.locked, u.infos = t.infos, u.ctid = t.ctid,
           u.snap = t.snap, u.scratch = t.scratch, u.rset = t.rset, u.tid = t.tid, TxnType(u)
    PROVE  TxnInv(u, T, R, n)
<1>1. /\ TxnType(t) /\ Phase(t) /\ OwnLocks(t, T) /\ OwnWrites(t, T, R) /\ OwnNumber(t, n)
      /\ GcRooted(t.scratch, T, R) /\ Reader(t, n)
  BY Zenon DEF TxnInv
<1>2. /\ DOMAIN t.wset = 1 .. Len(t.wset) /\ Len(t.wset) \in Nat
      /\ DOMAIN u.wset = 1 .. (Len(t.wset) - 1)
      /\ \A i \in DOMAIN u.wset : i + 1 \in DOMAIN t.wset /\ u.wset[i] = t.wset[i + 1]
  <2>1. t.wset \in Seq(WriteEntry)
    BY <1>1, Zenon DEF TxnType
  <2> QED
    BY ONLY <2>1, t.wset # <<>>, u.wset = Tail(t.wset), SeqHead
<1>3. \A i \in DOMAIN t.wset : i = 1 \/ (i - 1 \in DOMAIN u.wset /\ u.wset[i - 1] = t.wset[i])
  <2> SUFFICES ASSUME NEW i \in DOMAIN t.wset, i # 1
               PROVE  i - 1 \in DOMAIN u.wset /\ u.wset[i - 1] = t.wset[i]
    BY Zenon
  <2>1. \A len \in Nat : \A k \in 1 .. len : k # 1 => k - 1 \in 1 .. (len - 1) /\ (k - 1) + 1 = k
    BY ONLY SMT
  <2>2. i - 1 \in DOMAIN u.wset /\ (i - 1) + 1 = i
    BY ONLY <1>2, <2>1, i \in DOMAIN t.wset, i # 1, Zenon
  <2> QED
    BY ONLY <1>2, <2>2, Zenon
<1>4. /\ u.pc \notin Reading /\ u.pc \notin Calm /\ u.pc # "lock" /\ u.pc \notin Holding
      /\ u.pc \notin Publishing /\ u.pc \in Writing /\ u.pc \notin Writing \ {"write"}
      /\ t.pc \in {"undo"} \cup Writing /\ u.pc \notin {"lock"} \cup Holding
      /\ u.pc \in (Holding \ {"gen"}) \cup Writing /\ t.pc \in (Holding \ {"gen"}) \cup Writing
  BY DEF Reading, Holding, Writing, Publishing, Calm
<1>5. WrittenTuples(u) \subseteq WrittenTuples(t)
      /\ \A q \in Inserts(t) : q \in Inserts(u) \/ q = t.wset[1].tuple
  <2>1. /\ \A p : p \in WrittenTuples(u) <=> \E i \in DOMAIN u.wset : u.wset[i].tuple = p
        /\ \A p : p \in Inserts(u) <=> \E i \in DOMAIN u.wset : u.wset[i].insert /\ u.wset[i].tuple = p
    BY ONLY WrittenIs
  <2>4. /\ \A p : p \in WrittenTuples(t) <=> \E i \in DOMAIN t.wset : t.wset[i].tuple = p
        /\ \A p : p \in Inserts(t) <=> \E i \in DOMAIN t.wset : t.wset[i].insert /\ t.wset[i].tuple = p
    BY ONLY WrittenIs
  <2>2. \A i \in DOMAIN u.wset : u.wset[i].tuple \in WrittenTuples(t)
    BY ONLY <2>4, <1>2
  <2>3. \A i \in DOMAIN t.wset : t.wset[i].insert => i = 1 \/ t.wset[i].tuple \in Inserts(u)
    BY ONLY <2>1, <1>3
  <2> QED
    BY ONLY <2>1, <2>2, <2>3, <2>4
<1>6. Phase(u)
  <2>1. /\ WrittenTuples(t) \subseteq t.locked /\ (t.snap => t.wset = <<>>)
        /\ At(t.infos) = t.locked /\ Distinct(t.infos)
    BY <1>1, <1>4, Zenon DEF Phase
  <2>2. \A i, j \in DOMAIN t.wset : (i # j /\ t.wset[i].tuple = t.wset[j].tuple) =>
           /\ ~(t.wset[i].insert /\ t.wset[j].insert)
           /\ i < j => t.wset[i].insert
    BY <1>1, Zenon DEF Phase
  <2>3. \A i, j \in DOMAIN u.wset : (i # j /\ u.wset[i].tuple = u.wset[j].tuple) =>
           /\ ~(u.wset[i].insert /\ u.wset[j].insert)
           /\ i < j => u.wset[i].insert
    <3> TAKE i, j \in DOMAIN u.wset
    <3>1. /\ i + 1 \in DOMAIN t.wset /\ u.wset[i] = t.wset[i + 1]
          /\ j + 1 \in DOMAIN t.wset /\ u.wset[j] = t.wset[j + 1]
      BY <1>2, Zenon
    <3>2. (i # j => i + 1 # j + 1) /\ (i < j => i + 1 < j + 1)
      BY ONLY <1>2, i \in DOMAIN u.wset, j \in DOMAIN u.wset
    <3> QED
      BY <3>1, <3>2, <2>2, Zenon
  <2>4. WrittenTuples(u) \subseteq u.locked
    BY <1>5, <2>1, Zenon
  <2>5. NoTuple \notin u.locked
    BY Constants, Zenon DEF TxnType
  <2>6. ~t.snap
    BY <2>1, Zenon
  <2> QED
    BY <2>1, <2>3, <2>4, <2>5, <2>6, <1>4, Zenon DEF Phase
<1>7. OwnLocks(u, T)
  <2>1. \A q \in t.locked : T[q].version = MAX_TID => q \in Inserts(u)
    BY <1>1, <1>5, Zenon DEF OwnLocks
  <2> QED
    BY <1>1, <2>1, <1>4, Zenon DEF OwnLocks
<1>8. OwnWrites(u, T, R)
  <2> SUFFICES ASSUME NEW i \in DOMAIN u.wset
               PROVE  /\ T[u.wset[i].tuple].version # MIN_TID
                      /\ Rooted(u.wset[i].tuple, u.wset[i].key, T, R)
                      /\ T[u.wset[i].tuple].latest
                      /\ T[u.wset[i].tuple].version = MAX_TID \/ T[u.wset[i].tuple].version <= t.ctid
    BY <1>4, Zenon DEF OwnWrites
  <2>1. i + 1 \in DOMAIN t.wset /\ u.wset[i] = t.wset[i + 1]
    BY <1>2, Zenon
  <2>2. i + 1 > 1
    BY ONLY <1>2, i \in DOMAIN u.wset
  <2>3. Numbered(t) /\ (t.pc \in {"write", "write2"} \/ t.pc \in Publishing)
    BY <1>4, Zenon DEF Numbered, Writing
  <2> QED
    BY <2>1, <2>2, <2>3, <1>1, Zenon DEF OwnWrites
<1>9. OwnNumber(u, n) /\ Publisher(u, T, R) /\ GcRooted(u.scratch, T, R) /\ Reader(u, n)
  BY <1>1, <1>4, Zenon DEF OwnNumber, Publisher, Reader, Numbered
<1> QED
  BY <1>6, <1>7, <1>8, <1>9, Zenon DEF TxnInv

\* A tuple of X that was not in use becomes an older version of a record.
Spills(X, p, T, S) ==
    \A h \in X : /\ h \in Tuples /\ T[h].version = MIN_TID
                 /\ ~S[h].locked /\ ~S[h].latest /\ S[h].version = T[p].version

\* A tuple with a new value, a new version, or freed.
Valued(d, v, x) == [d EXCEPT !.modifying = TRUE, !.val = v, !.next = x]

Numbers(d, x, b) == [d EXCEPT !.version = x, !.deleting = b]

\* Of the header only the version changes.
NumberedAs(d, e, x) == e.locked = d.locked /\ e.intent = d.intent /\ e.version = x /\ e.latest = d.latest

\* Of the tuples only p changes, whose version becomes x.
Renumbers(p, x, T, S) ==
    /\ S \in [Tuples -> TupleRec] /\ \A q \in Tuples : q # p => S[q] = T[q]
    /\ NumberedAs(T[p], S[p], x)

\* The writes in place keep the invariant.
LEMMA WriteActions ==
    ASSUME Sorting, OccInv
    PROVE  \A c \in Cores : (write_value(c) \/ write_version(c) \/ write_insert(c)) => OccInv'
  \* The value of a tuple is written before its version.
<1>ValueStep.
      ASSUME NEW T, NEW R, NEW n, NEW t, NEW u, TxnInv(t, T, R, n), t.pc = "write", u.pc = "write2",
             t.wset # <<>>, ~t.wset[1].insert,
             u.locked = t.locked, u.wset = t.wset, u.infos = t.infos, u.ctid = t.ctid, u.head = t.head,
             u.snap = t.snap, u.scratch = t.scratch, u.rset = t.rset, u.tid = t.tid, TxnType(u)
      PROVE  TxnInv(u, T, R, n) /\ Private(u) = Private(t)
  <2> USE <1>ValueStep
  <2>1. /\ TxnType(t) /\ Phase(t) /\ OwnLocks(t, T) /\ OwnWrites(t, T, R) /\ OwnNumber(t, n)
        /\ GcRooted(t.scratch, T, R) /\ Reader(t, n)
    BY Zenon DEF TxnInv
  <2>2. Inserts(u) = Inserts(t) /\ WrittenTuples(u) = WrittenTuples(t)
    BY SameWrites, Zenon
  <2>3. /\ u.pc \notin Reading /\ u.pc \notin Calm /\ u.pc # "lock" /\ u.pc \notin Holding
        /\ u.pc \notin Publishing /\ u.pc \in Writing /\ t.pc \in Writing /\ t.pc \notin Publishing
        /\ t.pc \in {"undo"} \cup Writing /\ u.pc \notin {"lock"} \cup Holding
        /\ t.pc \in {"write", "write2"}
        /\ u.pc \in (Holding \ {"gen"}) \cup Writing /\ t.pc \in (Holding \ {"gen"}) \cup Writing
    BY DEF Reading, Holding, Writing, Publishing, Calm
  <2>4. Phase(u)
    BY <2>1, <2>2, <2>3, Zenon DEF Phase
  <2>5. OwnLocks(u, T)
    BY <2>1, <2>2, <2>3, Zenon DEF OwnLocks
  <2>6. OwnWrites(u, T, R)
    BY <2>1, <2>3, Zenon DEF OwnWrites, Numbered
  <2>7. OwnNumber(u, n) /\ Publisher(u, T, R) /\ GcRooted(u.scratch, T, R) /\ Reader(u, n)
    BY <2>1, <2>3, Zenon DEF OwnNumber, Publisher, Reader, Numbered
  <2> QED
    BY <2>4, <2>5, <2>6, <2>7, SamePrivate, Zenon DEF TxnInv
  \* A new value under an old version, with a spilled copy if one is needed,
  \* keeps the invariant.
<1>ValueChange.
      ASSUME OccInv, NEW c \in Cores, NEW t, t = txn[c], t.pc = "write", t.wset # <<>>, ~t.wset[1].insert,
             NEW p, p = t.wset[1].tuple, NEW X, NEW S, S \in [Tuples -> TupleRec], tuple' = S,
             Changes(X, tuple, tree, S, tree), Spills(X, p, tuple, S),
             NEW u, txn' = [txn EXCEPT ![c] = u], u.pc = "write2",
             u.locked = t.locked, u.wset = t.wset, u.infos = t.infos, u.ctid = t.ctid, u.head = t.head,
             u.snap = t.snap, u.stid = t.stid, u.scratch = t.scratch, u.rset = t.rset, u.tid = t.tid,
             TxnType(u), UNCHANGED <<tree, prog, queue, lastTid, clockvars>>
      PROVE  OccInv'
  <2> USE <1>ValueChange
  <2>1. TxnInv(t, tuple, tree, tick)
    BY CoreFacts, Zenon
  <2>2. t.pc \in {"write", "write2"} /\ t.pc \notin {"idle", "post", "clean"} /\ u.pc \notin {"idle", "post", "clean"}
    OBVIOUS
  <2>3. /\ p \in Tuples /\ tuple[p].version # MIN_TID /\ tuple[p].version # MAX_TID
        /\ tuple[p].version < Limit(tick)
    <3>1. /\ p \in Tuples /\ tuple[p].version # MIN_TID
          /\ (~t.wset[1].insert => tuple[p].version # MAX_TID)
          /\ tuple[p].version = MAX_TID \/ tuple[p].version < Limit(tick)
      BY ONLY OccInv, c \in Cores, t = txn[c], t.wset # <<>>, p = t.wset[1].tuple, <2>2, WritesHead, Zenon
    <3> QED
      BY ONLY <3>1, ~t.wset[1].insert, Zenon
  <2>4. \A h \in X : h \notin Private(t)
    BY OwnUsed, Zenon DEF Spills
  <2>5. Private(u) = Private(t)
    BY ONLY u.locked = t.locked, u.head = t.head, SamePrivate, Zenon
  <2>6. Proper(X, tuple, S, t, u, tick)
    <3>1. X \subseteq Tuples
      BY Zenon DEF Spills
    <3>2. \A h \in X : /\ tuple[h].version # MIN_TID =>
                            S[h].version # MIN_TID /\ (S[h].latest => tuple[h].latest)
                       /\ S[h].version = MIN_TID => ~S[h].locked
                       /\ S[h].version = MAX_TID =>
                            tuple[h].version = MAX_TID /\ (h \in u.locked \/ h \notin t.locked)
                       /\ S[h].locked => h \in Private(u)
                       /\ S[h].version = MAX_TID \/ S[h].version < Limit(tick)
      BY ONLY Spills(X, p, tuple, S), <2>3, Zenon DEF Spills
    <3> QED
      BY ONLY <2>5, <3>1, <3>2, u.locked = t.locked, S \in [Tuples -> TupleRec], Zenon DEF Proper
  <2>7. Unshared(c, X)
    <3>1. \A h \in X : h \in Private(txn[c]) \/ tuple[h].version = MIN_TID
      BY Zenon DEF Spills
    <3> QED
      BY ONLY OccInv, c \in Cores, <3>1, OwnUnshared, Zenon
  <2>8. StillRooted(tuple, tree, S, tree)
    BY ONLY OccInv, c \in Cores, t = txn[c], <2>6, <2>7, Changes(X, tuple, tree, S, tree), SameTree, Zenon
  <2>9. TxnInv(t, S, tree, tick)
    <3>1. SameTuples(t, tuple, S) /\ SameIndex(t, tree, tree)
      BY ONLY <2>1, <2>4, Changes(X, tuple, tree, S, tree), Untouched, Zenon
    <3> QED
      BY ONLY <2>1, <2>8, <3>1, Frame, Zenon
  <2>10. TxnInv(u, S, tree, tick)
    BY ONLY <2>9, t.pc = "write", u.pc = "write2", t.wset # <<>>, ~t.wset[1].insert,
            u.locked = t.locked, u.wset = t.wset, u.infos = t.infos, u.ctid = t.ctid, u.head = t.head,
            u.snap = t.snap, u.scratch = t.scratch, u.rset = t.rset, u.tid = t.tid, TxnType(u), <1>ValueStep, Zenon
  <2> QED
    BY <2>2, <2>6, <2>7, <2>10, TupleStep, Zenon
  \* A tuple that gets a value keeps its header.
<1>ValuedFacts.
      ASSUME NEW d \in TupleRec, NEW v \in Nat, NEW x \in Tuples \cup {NoTuple}, NEW e, e = Valued(d, v, x)
      PROVE  e \in TupleRec /\ SameHeader(d, e)
  <2> USE <1>ValuedFacts
  <2>1. Formed(d)
    BY TupleFields, Zenon
  <2>2. e \in TupleRec
    BY Zenon DEF TupleRec, Valued
  <2>3. e.locked = d.locked /\ e.intent = d.intent /\ e.version = d.version /\ e.latest = d.latest
    BY ONLY <2>1, e = Valued(d, v, x), Zenon DEF Formed, Valued
  <2> QED
    BY <2>2, <2>3, Zenon DEF SameHeader
  \* The write of a value in place keeps the invariant.
<1>ValueAction.
      ASSUME OccInv, NEW c \in Cores, NEW t, t = txn[c], write_value(c)
      PROVE  OccInv'
  <2> USE <1>ValueAction
  <2>1. t.pc = "write" /\ t.wset # <<>> /\ UNCHANGED <<tree, prog, gcvars, lastTid, clockvars>>
    BY Zenon DEF write_value
  <2>2. t.pc \in {"write", "write2"}
    BY <2>1, Zenon
  <2>3. PICK p : p = t.wset[1].tuple
    BY Zenon
  <2>4. PICK e : e = t.wset[1]
    BY Zenon
  <2>5. /\ p \in Tuples /\ p \in Private(t) /\ e \in WriteEntry /\ Head(t.wset) = e /\ tuple[p] \in TupleRec
    BY ONLY OccInv, c \in Cores, t = txn[c], <2>1, <2>2, <2>3, <2>4, WritesHead, Zenon
  <2>6. e.val \in Nat /\ e.tuple = p
    BY ONLY <2>3, <2>4, <2>5 DEF WriteEntry
  <2>7. TxnType(t) /\ Shaped(t) /\ t.wset \in Seq(WriteEntry) /\ t.head \in Tuples \cup {NoTuple}
    BY CoreFacts, Zenon DEF TxnType
  <2> DEFINE d == tuple[p]
  <2> DEFINE keep == ~can_overwrite_record_tid(d.version, t.ctid)
  <2> DEFINE new == Valued(d, e.val, IF keep THEN Fresh ELSE d.next)
  <2> DEFINE spill == Older(d.version, d.val, d.next)
  <2> DEFINE rest == IF keep THEN Fresh ELSE NoTuple
  <2>8. /\ ~e.insert /\ (keep => Unused # {})
        /\ tuple' = IF keep THEN [tuple EXCEPT ![p] = new, ![Fresh] = spill] ELSE [tuple EXCEPT ![p] = new]
        /\ txn' = [txn EXCEPT ![c].pc = "write2", ![c].rest = rest]
    <3>1. e = Head(txn[c].wset) /\ p = Head(txn[c].wset).tuple
      BY ONLY <2>5, <2>6, t = txn[c], Zenon
    <3> QED
      BY ONLY write_value(c), <3>1, t = txn[c], Zenon DEF write_value, Valued, Older
  <2>9. d \in TupleRec /\ d.version \in Nat /\ d.val \in Nat /\ d.next \in Tuples \cup {NoTuple}
    <3>1. d \in TupleRec
      BY ONLY <2>5
    <3> HIDE DEF d
    <3> QED
      BY ONLY <3>1, TupleFields, Zenon
  <2>10. keep => Fresh \in Tuples /\ tuple[Fresh].version = MIN_TID
    <3>1. Unused # {} => Fresh \in Unused
      BY ONLY Zenon DEF Fresh
    <3> QED
      BY ONLY <2>8, <3>1, Zenon DEF Unused
  <2>11. tuple \in [Tuples -> TupleRec] /\ DOMAIN txn = Cores /\ txn = [b \in Cores |-> txn[b]]
    BY DbFacts, TypeFacts, Zenon
  <2> HIDE DEF d, keep, new, spill, rest
  <2>12. rest \in Tuples \cup {NoTuple}
    BY ONLY <2>10, Zenon DEF rest
  <2>13. new \in TupleRec /\ SameHeader(d, new)
    <3>1. (IF keep THEN Fresh ELSE d.next) \in Tuples \cup {NoTuple}
      BY ONLY <2>9, <2>10, Zenon
    <3> QED
      BY ONLY <2>6, <2>9, <3>1, <1>ValuedFacts, Zenon DEF new
  <2>14. spill \in TupleRec /\ ~spill.locked /\ ~spill.latest /\ spill.version = d.version
    BY ONLY <2>9, NewTuple DEF spill
  <2>15. PICK u : u = WriteTo(t, "write2", t.wset, t.head, rest)
    BY Zenon
  <2>16. Wrote(t, u, "write2", t.wset, t.head, rest)
    <3>1. "write2" \in Writing
      BY ONLY Zenon DEF Writing
    <3> QED
      BY ONLY <2>7, <2>12, <2>15, <3>1, WriteToFacts, Zenon
  <2>17. txn' = [txn EXCEPT ![c] = u]
    <3>1. txn' = [txn EXCEPT ![c].pc = "write2", ![c].rest = rest]
      BY ONLY <2>8
    <3>2. txn' = [txn EXCEPT ![c] = [t EXCEPT !.pc = "write2", !.rest = rest]]
      BY ONLY <2>11, <3>1, t = txn[c], c \in Cores, Zenon
    <3>3. [t EXCEPT !.pc = "write2", !.rest = rest] = u
      BY ONLY <2>7, <2>15, Zenon DEF Shaped, WriteTo
    <3> QED
      BY ONLY <3>2, <3>3, Zenon
  <2>18. UNCHANGED <<tree, prog, queue, lastTid, clockvars>>
    BY ONLY <2>1, Zenon DEF gcvars
  <2>19. ASSUME NEW X, NEW S, S \in [Tuples -> TupleRec], tuple' = S,
                Changes(X, tuple, tree, S, tree), Spills(X, p, tuple, S)
         PROVE  OccInv'
    <3>1. /\ u.pc = "write2" /\ u.locked = t.locked /\ u.wset = t.wset /\ u.infos = t.infos
          /\ u.ctid = t.ctid /\ u.head = t.head /\ u.snap = t.snap /\ u.stid = t.stid
          /\ u.scratch = t.scratch /\ u.rset = t.rset /\ u.tid = t.tid /\ TxnType(u)
      BY ONLY <2>16, Zenon DEF Wrote
    <3>2. ~t.wset[1].insert
      BY ONLY <2>4, <2>8, Zenon
    <3> QED
      BY ONLY OccInv, c \in Cores, t = txn[c], <2>1, <2>3, <2>17, <2>18, <2>19, <3>1, <3>2, <1>ValueChange, Zenon
  <2>20. CASE keep
    <3>1. PICK h : h = Fresh
      BY Zenon
    <3>2. h \in Tuples /\ tuple[h].version = MIN_TID /\ h # p
      <4>1. h \in Tuples /\ tuple[h].version = MIN_TID
        BY ONLY <2>10, <2>20, <3>1, Zenon
      <4>2. h # p
        <5>1. tuple[p].version # MIN_TID
          BY <2>5, OwnUsed, Zenon
        <5> QED
          BY ONLY <4>1, <5>1, Zenon
      <4> QED
        BY ONLY <4>1, <4>2
    <3>3. PICK S : S = [tuple EXCEPT ![p] = new, ![h] = spill]
      BY Zenon
    <3>4. tuple' = S
      BY ONLY <2>8, <2>20, <3>1, <3>3, Zenon
    <3>5. S \in [Tuples -> TupleRec] /\ S[h] = spill /\ S[p] = new
          /\ \A q \in Tuples : q # h /\ q # p => S[q] = tuple[q]
      BY ONLY <2>5, <2>11, <2>13, <2>14, <3>2, <3>3, Zenon
    <3>6. \A q \in Tuples : q \notin {h} => /\ S[q].locked = tuple[q].locked /\ S[q].intent = tuple[q].intent
                                            /\ S[q].version = tuple[q].version /\ S[q].latest = tuple[q].latest
      BY ONLY <2>13, <3>5, Zenon DEF SameHeader, d
    <3>7. Changes({h}, tuple, tree, S, tree)
      BY ONLY <3>6, Zenon DEF Changes
    <3>8. Spills({h}, p, tuple, S)
      BY ONLY <2>14, <3>2, <3>5, Zenon DEF Spills, d
    <3> QED
      BY ONLY <2>19, <3>4, <3>5, <3>7, <3>8, Zenon
  <2>21. CASE ~keep
    <3>1. PICK S : S = [tuple EXCEPT ![p] = new]
      BY Zenon
    <3>2. tuple' = S
      BY ONLY <2>8, <2>21, <3>1, Zenon
    <3>3. S \in [Tuples -> TupleRec] /\ S[p] = new /\ \A q \in Tuples : q # p => S[q] = tuple[q]
      BY ONLY <2>5, <2>11, <2>13, <3>1, Zenon
    <3>4. \A q \in Tuples : /\ S[q].locked = tuple[q].locked /\ S[q].intent = tuple[q].intent
                            /\ S[q].version = tuple[q].version /\ S[q].latest = tuple[q].latest
      BY ONLY <2>13, <3>3, Zenon DEF SameHeader, d
    <3>5. Changes({}, tuple, tree, S, tree)
      BY ONLY <3>4, Zenon DEF Changes
    <3>6. Spills({}, p, tuple, S)
      BY ONLY Zenon DEF Spills
    <3> QED
      BY ONLY <2>19, <3>2, <3>3, <3>5, <3>6, Zenon
  <2> QED
    BY <2>20, <2>21, Zenon
  \* The version of the tuple written is the transaction's TID.
<1>VersionStep.
      ASSUME NEW T, NEW R, NEW n, NEW t, NEW S, NEW p, TxnInv(t, T, R, n),
             t.pc \in {"write", "write2"}, t.wset # <<>>, p = t.wset[1].tuple, t.ctid # MAX_TID,
             S[p].version = t.ctid, \A q \in Tuples : q # p => S[q].version = T[q].version,
             \A q \in Tuples : S[q].locked = T[q].locked /\ S[q].intent = T[q].intent /\ S[q].latest = T[q].latest
      PROVE  TxnInv(t, S, R, n)
  <2> USE <1>VersionStep
  <2>1. /\ TxnType(t) /\ Phase(t) /\ OwnLocks(t, T) /\ OwnWrites(t, T, R) /\ OwnNumber(t, n)
        /\ GcRooted(t.scratch, T, R) /\ Reader(t, n)
    BY Zenon DEF TxnInv
  <2>2. t.pc \in Writing /\ t.pc \notin Publishing /\ t.pc \notin {"lock"} \cup Holding /\ Numbered(t)
    <3>1. t.pc \in Writing /\ t.pc \notin Publishing /\ t.pc \notin {"lock"} \cup Holding
          /\ t.pc \in (Holding \ {"gen"}) \cup Writing
      BY DEF Writing, Publishing, Holding
    <3> QED
      BY <3>1, Zenon DEF Numbered
  <2>3. t.ctid \in Nat /\ t.ctid # MIN_TID
    BY <2>1, <2>2, Zenon DEF TxnType, OwnNumber, MIN_TID
  <2>4. t.locked \subseteq Tuples
        /\ (\A i \in DOMAIN t.wset : t.wset[i].tuple \in Tuples)
        /\ \A i \in DOMAIN t.scratch : t.scratch[i].tuple \in Tuples
    <3>1. t.locked \in SUBSET Tuples /\ t.wset \in Seq(WriteEntry) /\ t.scratch \in Seq(GcEntry)
      BY <2>1, Zenon DEF TxnType
    <3>2. \A i \in DOMAIN t.wset : t.wset[i] \in WriteEntry
      BY <3>1, SeqLen, Zenon
    <3>3. \A i \in DOMAIN t.scratch : t.scratch[i] \in GcEntry
      BY <3>1, SeqLen, Zenon
    <3> QED
      BY ONLY <3>1, <3>2, <3>3 DEF WriteEntry, GcEntry
  <2>5. \A q \in Tuples : \A k : Rooted(q, k, T, R) => Rooted(q, k, S, R)
    BY Zenon DEF Rooted
  <2>6. \A q \in Tuples : T[q].version # MIN_TID => S[q].version # MIN_TID
    BY <2>3, Zenon
  <2>7. OwnLocks(t, S)
    <3>1. \A q \in t.locked : S[q].version = MAX_TID => T[q].version = MAX_TID
      BY <2>4, Zenon
    <3> QED
      BY <2>1, <2>2, <2>4, <3>1, Zenon DEF OwnLocks
  <2>8. OwnWrites(t, S, R)
    <3> SUFFICES ASSUME NEW i \in DOMAIN t.wset
                 PROVE  /\ S[t.wset[i].tuple].version # MIN_TID
                        /\ Rooted(t.wset[i].tuple, t.wset[i].key, S, R)
                        /\ S[t.wset[i].tuple].latest
                        /\ S[t.wset[i].tuple].version = MAX_TID \/ S[t.wset[i].tuple].version <= t.ctid
      BY <2>2, Zenon DEF OwnWrites
    <3>1. /\ T[t.wset[i].tuple].version # MIN_TID /\ T[t.wset[i].tuple].latest
          /\ Rooted(t.wset[i].tuple, t.wset[i].key, T, R)
          /\ T[t.wset[i].tuple].version = MAX_TID \/ T[t.wset[i].tuple].version <= t.ctid
      BY <2>1, <2>2, Zenon DEF OwnWrites
    <3>2. t.ctid <= t.ctid
      BY <2>3
    <3> QED
      BY <3>1, <3>2, <2>4, <2>5, <2>6, Zenon
  <2>9. GcRooted(t.scratch, S, R) /\ Publisher(t, S, R)
    BY <2>1, <2>2, <2>4, <2>5, <2>6, Zenon DEF GcRooted, Publisher
  <2> QED
    BY <2>1, <2>7, <2>8, <2>9, Zenon DEF TxnInv
  \* A tuple that gets a version keeps the rest of its header.
<1>NumbersFacts.
      ASSUME NEW d \in TupleRec, NEW x \in Nat, NEW b \in BOOLEAN, NEW e, e = Numbers(d, x, b)
      PROVE  e \in TupleRec /\ NumberedAs(d, e, x)
  <2> USE <1>NumbersFacts
  <2>1. Formed(d)
    BY TupleFields, Zenon
  <2>2. e \in TupleRec
    BY Zenon DEF TupleRec, Numbers
  <2>3. e.locked = d.locked /\ e.intent = d.intent /\ e.version = x /\ e.latest = d.latest
    BY ONLY <2>1, e = Numbers(d, x, b), Zenon DEF Formed, Numbers
  <2> QED
    BY <2>2, <2>3, Zenon DEF NumberedAs
  \* The tuple of the first write gets the number of its transaction, and that
  \* write is done.
<1>NumberChange.
      ASSUME OccInv, NEW c \in Cores, NEW t, t = txn[c], t.pc \in {"write", "write2"}, t.wset # <<>>,
             NEW p, p = t.wset[1].tuple, NEW S, tuple' = S, Renumbers(p, t.ctid, tuple, S),
             NEW r, NEW u, Wrote(t, u, "write", Tail(t.wset), NoTuple, r), txn' = [txn EXCEPT ![c] = u],
             NEW s \in Seq(GcEntry), queue' = [queue EXCEPT ![c] = s], GcRooted(s, tuple, tree),
             UNCHANGED <<tree, prog, lastTid, clockvars>>
      PROVE  OccInv'
  <2> USE <1>NumberChange
  <2>1. TxnInv(t, tuple, tree, tick) /\ Phase(t) /\ Guarded(guard[c], t, tick, done)
    BY CoreFacts, Zenon
  <2>18. /\ S \in [Tuples -> TupleRec] /\ \A q \in Tuples : q # p => S[q] = tuple[q]
         /\ NumberedAs(tuple[p], S[p], t.ctid)
    BY Zenon DEF Renumbers
  <2>2. t.pc \in Writing /\ t.pc \notin Publishing /\ t.pc \notin {"idle", "post", "clean"}
    BY DEF Writing, Publishing
  <2>3. /\ p \in Tuples /\ p \in Private(t) /\ tuple[p].version # MIN_TID
        /\ t.ctid \in Nat /\ t.ctid # MIN_TID /\ t.ctid < Limit(tick) /\ t.ctid # MAX_TID
    BY ONLY OccInv, c \in Cores, t = txn[c], t.pc \in {"write", "write2"}, t.wset # <<>>, p = t.wset[1].tuple,
            WritesHead, Zenon
  <2>4. /\ u.pc = "write" /\ u.wset = Tail(t.wset) /\ u.head = NoTuple /\ u.locked = t.locked
        /\ u.infos = t.infos /\ u.ctid = t.ctid /\ u.snap = t.snap /\ u.stid = t.stid
        /\ u.scratch = t.scratch /\ u.rset = t.rset /\ u.tid = t.tid /\ TxnType(u)
    BY Zenon DEF Wrote
  <2>5. t.head = NoTuple
    BY <2>1, <2>2, Zenon DEF Phase
  <2>6. Private(u) = Private(t)
    <3>1. u.locked = t.locked /\ u.head = t.head
      BY ONLY <2>4, <2>5, Zenon
    <3> QED
      BY ONLY <3>1, SamePrivate, Zenon
  <2>7. /\ S[p].locked = tuple[p].locked /\ S[p].intent = tuple[p].intent /\ S[p].version = t.ctid
        /\ S[p].latest = tuple[p].latest
    BY ONLY <2>18, Zenon DEF NumberedAs
  <2>8. \A q \in Tuples : S[q].locked = tuple[q].locked /\ S[q].intent = tuple[q].intent /\ S[q].latest = tuple[q].latest
    BY ONLY <2>7, <2>18, Zenon
  <2>9. \A q \in Tuples : q # p => S[q].version = tuple[q].version
    BY ONLY <2>18, Zenon
  <2>10. TxnInv(t, S, tree, tick)
    BY ONLY <2>1, <2>3, <2>7, <2>8, <2>9, t.pc \in {"write", "write2"}, t.wset # <<>>, p = t.wset[1].tuple,
            <1>VersionStep
  <2>11. TxnInv(u, S, tree, tick)
    <3>1. S[t.wset[1].tuple].version # MAX_TID
      BY ONLY <2>3, <2>7, p = t.wset[1].tuple, Zenon
    <3> QED
      BY ONLY <2>2, <2>4, <2>10, <3>1, t.wset # <<>>, TailStep, Zenon
  <2>12. Changes({p}, tuple, tree, S, tree)
    <3>1. \A q \in Tuples : q \notin {p} => S[q] = tuple[q]
      BY ONLY <2>18, Zenon
    <3> QED
      BY ONLY <3>1, OnlyThese, Zenon
  <2>13. Proper({p}, tuple, S, t, u, tick)
    <3>1. \A q \in {p} : /\ tuple[q].version # MIN_TID =>
                             S[q].version # MIN_TID /\ (S[q].latest => tuple[q].latest)
                         /\ S[q].version = MIN_TID => ~S[q].locked
                         /\ S[q].version = MAX_TID =>
                              tuple[q].version = MAX_TID /\ (q \in u.locked \/ q \notin t.locked)
                         /\ S[q].locked => q \in Private(u)
                         /\ S[q].version = MAX_TID \/ S[q].version < Limit(tick)
      BY ONLY <2>3, <2>6, <2>7, Zenon
    <3>2. {p} \subseteq Tuples
      BY ONLY <2>3, Zenon
    <3>3. u.locked = t.locked
      BY ONLY <2>4
    <3> QED
      BY ONLY <2>6, <3>1, <3>2, <3>3, <2>18, Zenon DEF Proper
  <2>14. Unshared(c, {p})
    <3>1. \A q \in {p} : q \in Private(txn[c]) \/ tuple[q].version = MIN_TID
      BY ONLY <2>3, t = txn[c], Zenon
    <3> QED
      BY ONLY OccInv, c \in Cores, <3>1, OwnUnshared, Zenon
  <2>15. /\ StillRooted(tuple, tree, S, tree) /\ Apart(c, u, S, tree) /\ GoodTypes(S, tree)
         /\ GoodIndex(tuple, tree, S, tree, t, u) /\ GoodTuples(tuple, S, t, u, tick)
    BY ONLY OccInv, c \in Cores, t = txn[c], <2>12, <2>13, <2>14, SameTree, Zenon
  <2>16. GcRooted(s, S, tree)
    BY ONLY s \in Seq(GcEntry), GcRooted(s, tuple, tree), <2>15, GcFrame, Zenon
  <2>17. Guarded(guard[c], u, tick, done)
    <3>1. u.pc \notin {"idle", "post", "clean"}
      BY ONLY <2>4
    <3> QED
      BY ONLY <2>1, <2>2, <2>4, <3>1, StillGuarded, Zenon
  <2> QED
    BY <2>11, <2>15, <2>16, <2>17, DbStep, Zenon
  \* The write of an insert, which has its value already, keeps the invariant.
<1>WriteInsertAction.
      ASSUME OccInv, NEW c \in Cores, NEW t, t = txn[c], write_insert(c)
      PROVE  OccInv'
  <2> USE <1>WriteInsertAction
  <2>1. /\ t.pc = "write" /\ t.wset # <<>> /\ UNCHANGED <<tree, prog, queue, lastTid, clockvars>>
    BY Zenon DEF write_insert, gcvars
  <2>2. t.pc \in {"write", "write2"}
    BY ONLY <2>1, Zenon
  <2>3. PICK p : p = t.wset[1].tuple
    BY Zenon
  <2>4. p \in Tuples /\ Head(t.wset) = t.wset[1] /\ tuple[p] \in TupleRec /\ t.ctid \in Nat
    BY ONLY OccInv, c \in Cores, t = txn[c], <2>1, <2>2, <2>3, WritesHead, Zenon
  <2>5. /\ TxnType(t) /\ Shaped(t) /\ t.wset \in Seq(WriteEntry) /\ t.rest \in Tuples \cup {NoTuple}
        /\ GcRooted(queue[c], tuple, tree)
    BY CoreFacts, Zenon DEF TxnType
  <2>6. /\ tuple \in [Tuples -> TupleRec] /\ DOMAIN txn = Cores /\ txn = [b \in Cores |-> txn[b]]
        /\ queue \in [Cores -> Seq(GcEntry)]
    BY DbFacts, TypeFacts, Zenon
  <2>7. t.head = NoTuple
    <3>1. Phase(t)
      BY CoreFacts, Zenon
    <3>2. t.pc \notin Publishing
      BY ONLY <2>1 DEF Publishing
    <3> QED
      BY ONLY <3>1, <3>2, Zenon DEF Phase
  <2>8. PICK u : u = WriteTo(t, "write", Tail(t.wset), NoTuple, t.rest)
    BY Zenon
  <2>9. Wrote(t, u, "write", Tail(t.wset), NoTuple, t.rest)
    <3>1. "write" \in Writing /\ NoTuple \in Tuples \cup {NoTuple}
      BY ONLY Zenon DEF Writing
    <3>2. Tail(t.wset) \in Seq(WriteEntry)
      BY ONLY <2>1, <2>5, SeqHead, Zenon
    <3> QED
      BY ONLY <2>5, <2>8, <3>1, <3>2, WriteToFacts, Zenon
  <2>10. txn' = [txn EXCEPT ![c] = u]
    <3>1. txn' = [txn EXCEPT ![c] = [t EXCEPT !.wset = Tail(t.wset)]]
      BY ONLY <2>6, write_insert(c), t = txn[c], c \in Cores, Zenon DEF write_insert
    <3>2. [t EXCEPT !.wset = Tail(t.wset)] = u
      BY ONLY <2>1, <2>5, <2>7, <2>8, Zenon DEF Shaped, WriteTo
    <3> QED
      BY ONLY <3>1, <3>2, Zenon
  <2>11. PICK d : d = Numbers(tuple[p], t.ctid, tuple[p].deleting)
    BY Zenon
  <2>12. d \in TupleRec /\ NumberedAs(tuple[p], d, t.ctid)
    <3>1. tuple[p].deleting \in BOOLEAN
      BY ONLY <2>4, TupleFields, Zenon
    <3> QED
      BY ONLY <2>4, <2>11, <3>1, <1>NumbersFacts, Zenon
  <2>13. PICK S : S = [tuple EXCEPT ![p] = d]
    BY Zenon
  <2>14. tuple' = S
    <3>1. tuple' = [tuple EXCEPT ![p] = [tuple[p] EXCEPT !.version = t.ctid]]
      <4>1. p = Head(txn[c].wset).tuple
        BY ONLY <2>3, <2>4, t = txn[c], Zenon
      <4> QED
        BY ONLY <2>4, <2>6, <4>1, write_insert(c), t = txn[c], Zenon DEF write_insert
    <3>2. [tuple[p] EXCEPT !.version = t.ctid] = d
      <4>1. Formed(tuple[p])
        BY ONLY <2>4, TupleFields, Zenon
      <4> QED
        BY ONLY <2>11, <4>1, Zenon DEF Formed, Numbers
    <3> QED
      BY ONLY <2>13, <3>1, <3>2, Zenon
  <2>15. S \in [Tuples -> TupleRec] /\ S[p] = d /\ \A q \in Tuples : q # p => S[q] = tuple[q]
    BY ONLY <2>4, <2>6, <2>12, <2>13, Zenon
  <2>16. PICK s : s = queue[c]
    BY Zenon
  <2>18. queue' = [queue EXCEPT ![c] = s] /\ s \in Seq(GcEntry) /\ GcRooted(s, tuple, tree)
    BY ONLY <2>1, <2>5, <2>6, <2>16, c \in Cores, Zenon
  <2>19. t.wset # <<>>
    BY ONLY <2>1
  <2>17. Renumbers(p, t.ctid, tuple, S) /\ UNCHANGED <<tree, prog, lastTid, clockvars>>
    BY ONLY <2>1, <2>12, <2>15, Zenon DEF Renumbers
  <2> QED
    BY ONLY OccInv, c \in Cores, t = txn[c], <2>2, <2>3, <2>9, <2>10, <2>14, <2>17, <2>18, <2>19,
            <1>NumberChange, Zenon
  \* The version that ends a write in place keeps the invariant.
<1>WriteVersionAction.
      ASSUME OccInv, NEW c \in Cores, NEW t, t = txn[c], write_version(c)
      PROVE  OccInv'
  <2> USE <1>WriteVersionAction
  <2>1. /\ t.pc = "write2" /\ UNCHANGED <<tree, prog, lastTid, clockvars>>
    BY Zenon DEF write_version
  <2>2. t.pc \in {"write", "write2"}
    BY ONLY <2>1, Zenon
  <2>3. PICK p : p = t.wset[1].tuple
    BY Zenon
  <2>4. PICK e : e = t.wset[1]
    BY Zenon
  <2>5. /\ TxnType(t) /\ Shaped(t) /\ t.wset \in Seq(WriteEntry) /\ t.rest \in Tuples \cup {NoTuple}
        /\ Phase(t) /\ OwnWrites(t, tuple, tree)
    BY CoreFacts, Zenon DEF TxnType
  <2>6. t.wset # <<>> /\ t.head = NoTuple
    <3>1. t.pc \in Writing \ {"write"} /\ t.pc \notin Publishing
      BY ONLY <2>1 DEF Publishing, Writing
    <3> QED
      BY ONLY <2>5, <3>1, Zenon DEF Phase
  <2>7. p \in Tuples /\ Head(t.wset) = e /\ e \in WriteEntry /\ tuple[p] \in TupleRec /\ t.ctid \in Nat
        /\ tuple[p].version # MIN_TID
    BY ONLY OccInv, c \in Cores, t = txn[c], <2>2, <2>3, <2>4, <2>6, WritesHead, Zenon
  <2>8. /\ tuple \in [Tuples -> TupleRec] /\ DOMAIN txn = Cores /\ txn = [b \in Cores |-> txn[b]]
        /\ queue \in [Cores -> Seq(GcEntry)]
    BY DbFacts, TypeFacts, Zenon
  <2>9. Rooted(p, e.key, tuple, tree)
    <3>1. 1 \in DOMAIN t.wset
      BY ONLY <2>5, <2>6, SeqHead, Zenon
    <3> QED
      BY ONLY <2>3, <2>4, <2>5, <3>1, Zenon DEF OwnWrites
  <2>10. PICK u : u = WriteTo(t, "write", Tail(t.wset), NoTuple, NoTuple)
    BY Zenon
  <2>11. Wrote(t, u, "write", Tail(t.wset), NoTuple, NoTuple)
    <3>1. "write" \in Writing /\ NoTuple \in Tuples \cup {NoTuple}
      BY ONLY Zenon DEF Writing
    <3>2. Tail(t.wset) \in Seq(WriteEntry)
      BY ONLY <2>5, <2>6, SeqHead, Zenon
    <3> QED
      BY ONLY <2>5, <2>10, <3>1, <3>2, WriteToFacts, Zenon
  <2>12. txn' = [txn EXCEPT ![c] = u]
    <3>1. txn' = [txn EXCEPT ![c].pc = "write", ![c].wset = Tail(@), ![c].rest = NoTuple]
      BY ONLY write_version(c), Zenon DEF write_version
    <3>2. txn' = [txn EXCEPT ![c] = [t EXCEPT !.pc = "write", !.wset = Tail(@), !.rest = NoTuple]]
      BY ONLY <2>5, <2>8, <3>1, t = txn[c], c \in Cores, Zenon DEF Shaped
    <3>3. [t EXCEPT !.pc = "write", !.wset = Tail(@), !.rest = NoTuple] = u
      BY ONLY <2>5, <2>6, <2>10, Zenon DEF Shaped, WriteTo
    <3> QED
      BY ONLY <3>2, <3>3, Zenon
  <2>13. PICK b : b = (e.val = NoValue)
    BY Zenon
  <2>14. PICK d : d = Numbers(tuple[p], t.ctid, b)
    BY Zenon
  <2>15. d \in TupleRec /\ NumberedAs(tuple[p], d, t.ctid)
    <3>1. b \in BOOLEAN
      BY ONLY <2>13, Zenon
    <3> QED
      BY ONLY <2>7, <2>14, <3>1, <1>NumbersFacts, Zenon
  <2>16. PICK S : S = [tuple EXCEPT ![p] = d]
    BY Zenon
  <2>17. tuple' = S
    <3>1. tuple' = [tuple EXCEPT ![Head(txn[c].wset).tuple].version = txn[c].ctid,
                                 ![Head(txn[c].wset).tuple].deleting = Head(txn[c].wset).val = NoValue]
      BY ONLY write_version(c), Zenon DEF write_version
    <3>2. p = Head(txn[c].wset).tuple /\ e = Head(txn[c].wset)
      BY ONLY <2>3, <2>4, <2>7, t = txn[c], Zenon
    <3>3. tuple' = [tuple EXCEPT ![p].version = t.ctid, ![p].deleting = b]
      BY ONLY <2>13, <3>1, <3>2, t = txn[c], Zenon
    <3>4. Formed(tuple[p])
      BY ONLY <2>7, TupleFields, Zenon
    <3>5. tuple' = [tuple EXCEPT ![p] = [tuple[p] EXCEPT !.version = t.ctid, !.deleting = b]]
      BY ONLY <2>7, <2>8, <3>3, <3>4, Zenon DEF Formed
    <3> QED
      BY ONLY <2>14, <2>16, <3>5, Zenon DEF Numbers
  <2>18. Renumbers(p, t.ctid, tuple, S)
    <3>1. S \in [Tuples -> TupleRec] /\ S[p] = d /\ \A q \in Tuples : q # p => S[q] = tuple[q]
      BY ONLY <2>7, <2>8, <2>15, <2>16, Zenon
    <3> QED
      BY ONLY <2>15, <3>1, Zenon DEF Renumbers
  <2>19. PICK s : s = queue[c] \o Spilled(c, t.rest) \o Deleted(c, p, e)
    BY Zenon
  <2>20. queue' = [queue EXCEPT ![c] = s]
    <3>1. p = Head(txn[c].wset).tuple /\ e = Head(txn[c].wset)
      BY ONLY <2>3, <2>4, <2>7, t = txn[c], Zenon
    <3>2. queue' = [queue EXCEPT ![c] = queue[c] \o Spilled(c, txn[c].rest)
                                          \o Deleted(c, Head(txn[c].wset).tuple, Head(txn[c].wset))]
      BY ONLY write_version(c), Zenon DEF write_version
    <3> QED
      BY ONLY <2>19, <3>1, <3>2, t = txn[c], Zenon
  <2>21. s \in Seq(GcEntry) /\ GcRooted(s, tuple, tree)
    BY ONLY OccInv, c \in Cores, <2>5, <2>7, <2>9, <2>19, QueueGrows, Zenon
  <2>22. t.wset # <<>> /\ UNCHANGED <<tree, prog, lastTid, clockvars>>
    BY ONLY <2>1, <2>6
  <2> QED
    BY ONLY OccInv, c \in Cores, t = txn[c], <2>2, <2>3, <2>11, <2>12, <2>17, <2>18, <2>20, <2>21, <2>22,
            <1>NumberChange, Zenon
<1> QED
  BY <1>ValueAction, <1>WriteInsertAction, <1>WriteVersionAction, Zenon

\* The tuple p stops being the latest; h, unused before, is a newer one with
\* version x.
Replaces(p, h, x, T, S) ==
    /\ S \in [Tuples -> TupleRec] /\ \A q \in Tuples : q \notin {p, h} => S[q] = T[q]
    /\ S[p].version = T[p].version /\ S[p].locked = T[p].locked /\ S[p].intent = T[p].intent
    /\ ~S[p].latest /\ S[h].latest /\ S[h].version = x /\ ~S[h].locked

\* The entry k of the index becomes h.
Redirected(R, k, h, Q) ==
    /\ DOMAIN Q = DOMAIN R /\ Q[k] = h
    /\ \A j \in DOMAIN R : j # k => Q[j] = R[j]
    /\ Q = [j \in DOMAIN Q |-> Q[j]]

\* The writes that install a new head keep the invariant.
LEMMA PublishActions ==
    ASSUME Sorting, OccInv
    PROVE  \A c \in Cores : (write_replace(c) \/ publish(c) \/ unlock_head(c)) => OccInv'
  \* A new head of the chain takes over from the tuple written.
<1>ReplaceStep.
      ASSUME NEW T, NEW R, NEW S, NEW n, NEW t, NEW u, NEW p, NEW h, TxnInv(t, T, R, n),
             t.pc = "write", t.wset # <<>>, ~t.wset[1].insert, p = t.wset[1].tuple,
             h \in Tuples, T[h].version = MIN_TID, h \notin t.locked,
             \A k \in DOMAIN R : R[k] # h,
             \A q \in Tuples : q # h => S[q].version = T[q].version /\ S[q].locked = T[q].locked
                                        /\ S[q].intent = T[q].intent,
             \A q \in Tuples : q # h /\ q # p => S[q].latest = T[q].latest,
             ~S[p].latest, S[h].latest, S[h].version = t.ctid,
             u.pc = "publish", u.head = h, u.rest = p,
             u.locked = t.locked, u.wset = t.wset, u.infos = t.infos, u.ctid = t.ctid,
             u.snap = t.snap, u.scratch = t.scratch, u.rset = t.rset, u.tid = t.tid, TxnType(u)
      PROVE  TxnInv(u, S, R, n)
  <2> USE <1>ReplaceStep
  <2>1. /\ TxnType(t) /\ Phase(t) /\ OwnLocks(t, T) /\ OwnWrites(t, T, R) /\ OwnNumber(t, n)
        /\ GcRooted(t.scratch, T, R) /\ Reader(t, n)
    BY Zenon DEF TxnInv
  <2>2. Inserts(u) = Inserts(t) /\ WrittenTuples(u) = WrittenTuples(t)
    BY SameWrites, Zenon
  <2>3. /\ u.pc \notin Reading /\ u.pc \notin Calm /\ u.pc # "lock" /\ u.pc \notin Holding
        /\ u.pc \in Publishing /\ u.pc \in Writing /\ t.pc \in Writing /\ u.pc # "publish2"
        /\ t.pc \in {"undo"} \cup Writing /\ u.pc \notin {"lock"} \cup Holding
        /\ t.pc \in {"write", "write2"} /\ u.pc \notin {"write", "write2"}
        /\ u.pc \in (Holding \ {"gen"}) \cup Writing /\ t.pc \in (Holding \ {"gen"}) \cup Writing
    BY DEF Reading, Holding, Writing, Publishing, Calm
  <2>4. /\ t.locked \subseteq Tuples /\ 1 \in DOMAIN t.wset
        /\ \A i \in DOMAIN t.wset : t.wset[i].tuple \in Tuples /\ t.wset[i].key \in Keys
    BY ONLY <2>1, t.wset # <<>>, EntryTypes, Zenon
  <2>5. h # NoTuple
    BY Constants, Zenon
  <2>14. /\ u.pc = "publish" /\ u.head = h /\ u.rest = p /\ p = t.wset[1].tuple /\ h \notin t.locked
         /\ t.wset # <<>> /\ ~t.wset[1].insert
         /\ u.locked = t.locked /\ u.wset = t.wset /\ u.infos = t.infos /\ u.ctid = t.ctid
         /\ u.snap = t.snap /\ u.scratch = t.scratch /\ u.rset = t.rset /\ u.tid = t.tid
    OBVIOUS
  <2>6. Phase(u)
    BY ONLY <2>1, <2>2, <2>3, <2>5, <2>14, Zenon DEF Phase
  <2>7. OwnLocks(u, S)
    <3>1. \A q \in t.locked : S[q].version = T[q].version /\ S[q].locked = T[q].locked
                                /\ S[q].intent = T[q].intent
      BY <2>4, Zenon
    <3> QED
      BY ONLY <3>1, <2>1, <2>2, <2>3, <2>14, Zenon DEF OwnLocks
  <2>8. \A i \in DOMAIN t.wset : i > 1 => t.wset[i].tuple # p
    <3> TAKE i \in DOMAIN t.wset
    <3> HAVE i > 1
    <3>1. 1 # i /\ 1 < i
      <4>1. i \in Nat
        BY <2>1, WrittenType DEF TxnType
      <4> QED
        BY <4>1, i > 1
    <3> QED
      BY ONLY <3>1, <2>1, <2>3, <2>4, <2>14, i \in DOMAIN t.wset, Zenon DEF Phase
  <2>9. \A q \in Tuples : \A k : q # h /\ Rooted(q, k, T, R) => Rooted(q, k, S, R)
    BY Zenon DEF Rooted
  <2>10. OwnWrites(u, S, R)
    <3> DEFINE q(i) == t.wset[i].tuple
    <3>1. Numbered(t)
      BY <2>3, Zenon DEF Numbered
    <3>2. \A i \in DOMAIN t.wset : /\ T[q(i)].version # MIN_TID /\ Rooted(q(i), t.wset[i].key, T, R)
                                   /\ T[q(i)].latest
                                   /\ T[q(i)].version = MAX_TID \/ T[q(i)].version <= t.ctid
      BY <3>1, <2>1, <2>3, Zenon DEF OwnWrites
    <3>3. \A i \in DOMAIN t.wset : q(i) \in Tuples /\ q(i) # h
      BY <3>2, <2>4, Zenon
    <3>4. \A i \in DOMAIN t.wset : /\ S[q(i)].version # MIN_TID /\ Rooted(q(i), t.wset[i].key, S, R)
                                   /\ i > 1 => S[q(i)].latest
                                   /\ S[q(i)].version = MAX_TID \/ S[q(i)].version <= t.ctid
      <4> TAKE i \in DOMAIN t.wset
      <4>1. S[q(i)].version = T[q(i)].version
        BY <3>3, Zenon
      <4>2. Rooted(q(i), t.wset[i].key, S, R)
        BY ONLY <3>2, <3>3, <2>9, i \in DOMAIN t.wset, Zenon
      <4>3. i > 1 => S[q(i)].latest
        BY <3>2, <3>3, <2>8, Zenon
      <4> QED
        BY ONLY <4>1, <4>2, <4>3, <3>2, i \in DOMAIN t.wset, Zenon
    <3> QED
      BY ONLY <3>4, <2>3, <2>14, Zenon DEF OwnWrites
  <2>11. Publisher(u, S, R)
    <3>1. t.wset[1].key \in DOMAIN R /\ R[t.wset[1].key] = p
      BY <2>1, <2>3, <2>4, Zenon DEF OwnWrites, Rooted
    <3> QED
      BY <3>1, <2>3, Zenon DEF Publisher
  <2>12. GcRooted(u.scratch, S, R)
    <3>1. \A q \in Tuples : T[q].version # MIN_TID => S[q].version # MIN_TID /\ (S[q].latest => T[q].latest)
      BY Zenon
    <3>2. StillRooted(T, R, S, R)
      BY <3>1, RootedFrame, Zenon
    <3> QED
      BY <3>2, <2>1, GcFrame, Zenon DEF TxnType
  <2>13. OwnNumber(u, n) /\ Reader(u, n)
    BY <2>1, <2>3, Zenon DEF OwnNumber, Reader, Numbered
  <2> QED
    BY <2>6, <2>7, <2>10, <2>11, <2>12, <2>13, Zenon DEF TxnInv
  \* A new head of the chain, not yet in the index, keeps the invariant.
<1>ReplaceChange.
      ASSUME OccInv, NEW c \in Cores, NEW t, t = txn[c], t.pc = "write", t.wset # <<>>, ~t.wset[1].insert,
             NEW p, p = t.wset[1].tuple, NEW h \in Tuples, tuple[h].version = MIN_TID,
             NEW S, tuple' = S, Replaces(p, h, t.ctid, tuple, S),
             NEW u, Wrote(t, u, "publish", t.wset, h, p), txn' = [txn EXCEPT ![c] = u],
             UNCHANGED <<tree, prog, queue, lastTid, clockvars>>
      PROVE  OccInv'
  <2> USE <1>ReplaceChange
  <2>1. TxnInv(t, tuple, tree, tick) /\ Phase(t) /\ TxnType(t)
    BY CoreFacts, Zenon
  <2>2. t.pc \notin Publishing /\ t.pc \notin {"idle", "post", "clean"} /\ t.pc \in {"write", "write2"}
    BY ONLY t.pc = "write" DEF Publishing
  <2>3. /\ p \in Tuples /\ p \in t.locked /\ p \in Private(t) /\ tuple[p].version # MIN_TID /\ tuple[p].version # MAX_TID
        /\ (tuple[p].version = MAX_TID \/ tuple[p].version < Limit(tick)) /\ tuple[p].latest
        /\ t.ctid # MIN_TID /\ t.ctid < Limit(tick) /\ t.ctid # MAX_TID
    BY ONLY OccInv, c \in Cores, t = txn[c], <2>2, t.wset # <<>>, p = t.wset[1].tuple, ~t.wset[1].insert,
            WritesHead, Zenon
  <2>4. /\ u.pc = "publish" /\ u.wset = t.wset /\ u.head = h /\ u.rest = p /\ u.locked = t.locked
        /\ u.infos = t.infos /\ u.ctid = t.ctid /\ u.snap = t.snap /\ u.stid = t.stid
        /\ u.scratch = t.scratch /\ u.rset = t.rset /\ u.tid = t.tid /\ TxnType(u)
    BY ONLY Wrote(t, u, "publish", t.wset, h, p), Zenon DEF Wrote
  <2>5. /\ S \in [Tuples -> TupleRec] /\ \A q \in Tuples : q \notin {p, h} => S[q] = tuple[q]
        /\ S[p].version = tuple[p].version /\ S[p].locked = tuple[p].locked /\ S[p].intent = tuple[p].intent
        /\ ~S[p].latest /\ S[h].latest /\ S[h].version = t.ctid /\ ~S[h].locked
    BY ONLY Replaces(p, h, t.ctid, tuple, S), Zenon DEF Replaces
  <2>6. h \notin Private(t) /\ \A k \in DOMAIN tree : tree[k] # h
    <3>1. h \notin Private(t)
      BY ONLY OccInv, c \in Cores, t = txn[c], tuple[h].version = MIN_TID, OwnUsed, Zenon
    <3>2. \A k \in DOMAIN tree : tree[k] # h
      BY DbFacts, Zenon
    <3> QED
      BY ONLY <3>1, <3>2
  <2>7. t.head = NoTuple /\ h # NoTuple /\ h # p
    <3>1. t.head = NoTuple
      BY ONLY <2>1, <2>2, Zenon DEF Phase
    <3>2. NoTuple \notin Tuples
      BY ONLY Constants
    <3> QED
      BY ONLY <2>3, <2>6, <3>1, <3>2, h \in Tuples, Zenon
  <2>8. NoTuple \notin t.locked
    BY ONLY <2>1, <2>7, Zenon DEF Phase
  <2>9. Private(t) = t.locked /\ Private(u) = t.locked \cup {h}
    BY ONLY <2>4, <2>7, <2>8, Zenon DEF Private
  <2>10. TxnInv(u, S, tree, tick)
    <3>1. \A q \in Tuples : q # h => S[q].version = tuple[q].version /\ S[q].locked = tuple[q].locked
                                     /\ S[q].intent = tuple[q].intent
      BY ONLY <2>5, Zenon
    <3>2. \A q \in Tuples : q # h /\ q # p => S[q].latest = tuple[q].latest
      BY ONLY <2>5, Zenon
    <3>3. h \notin t.locked
      BY ONLY <2>6, <2>9, Zenon
    <3>4. ~S[p].latest /\ S[h].latest /\ S[h].version = t.ctid
      BY ONLY <2>5
    <3> QED
      BY ONLY <2>1, <2>4, <2>6, <3>1, <3>2, <3>3, <3>4, t.pc = "write", t.wset # <<>>, ~t.wset[1].insert,
              p = t.wset[1].tuple, h \in Tuples, tuple[h].version = MIN_TID, <1>ReplaceStep
  <2>11. Changes({p, h}, tuple, tree, S, tree)
    BY ONLY <2>5, OnlyThese, Zenon
  <2>12. Proper({p, h}, tuple, S, t, u, tick)
    <3>1. \A q \in {p, h} : /\ tuple[q].version # MIN_TID =>
                                S[q].version # MIN_TID /\ (S[q].latest => tuple[q].latest)
                            /\ S[q].version = MIN_TID => ~S[q].locked
                            /\ S[q].version = MAX_TID =>
                                 tuple[q].version = MAX_TID /\ (q \in u.locked \/ q \notin t.locked)
                            /\ S[q].locked => q \in Private(u)
                            /\ S[q].version = MAX_TID \/ S[q].version < Limit(tick)
      BY ONLY <2>3, <2>5, <2>9, tuple[h].version = MIN_TID, Zenon
    <3>2. {p, h} \subseteq Tuples
      BY ONLY <2>3, h \in Tuples, Zenon
    <3>3. /\ Private(u) \subseteq Private(t) \cup {p, h} /\ Private(t) \subseteq Private(u) \cup {p, h}
          /\ t.locked \subseteq u.locked \cup {p, h}
      BY ONLY <2>4, <2>9, Zenon
    <3>4. S \in [Tuples -> TupleRec]
      BY ONLY <2>5
    <3> QED
      BY ONLY <3>1, <3>2, <3>3, <3>4, Zenon DEF Proper
  <2>13. Unshared(c, {p, h})
    <3>1. \A q \in {p, h} : q \in Private(txn[c]) \/ tuple[q].version = MIN_TID
      BY ONLY <2>3, t = txn[c], tuple[h].version = MIN_TID, Zenon
    <3> QED
      BY ONLY OccInv, c \in Cores, <3>1, OwnUnshared, Zenon
  <2>14. u.pc \notin {"idle", "post", "clean"} /\ u.ctid = t.ctid /\ u.snap = t.snap /\ u.stid = t.stid
    BY ONLY <2>4
  <2> QED
    BY ONLY OccInv, c \in Cores, t = txn[c], <2>2, <2>10, <2>11, <2>12, <2>13, <2>14, tuple' = S,
            txn' = [txn EXCEPT ![c] = u], UNCHANGED <<tree, prog, queue, lastTid, clockvars>>, TupleStep, Zenon
  \* The write of a tuple that cannot be written in place keeps the invariant.
<1>WriteReplaceAction.
      ASSUME OccInv, NEW c \in Cores, NEW t, t = txn[c], write_replace(c)
      PROVE  OccInv'
  <2> USE <1>WriteReplaceAction
  <2>1. /\ t.pc = "write" /\ t.wset # <<>> /\ UNCHANGED <<tree, prog, queue, lastTid, clockvars>>
    BY Zenon DEF write_replace, gcvars
  <2>2. t.pc \in {"write", "write2"}
    BY ONLY <2>1, Zenon
  <2>3. PICK p : p = t.wset[1].tuple
    BY Zenon
  <2>4. PICK e : e = t.wset[1]
    BY Zenon
  <2>5. p \in Tuples /\ Head(t.wset) = e /\ e \in WriteEntry /\ tuple[p] \in TupleRec /\ t.ctid \in Nat
        /\ tuple[p].version # MIN_TID
    BY ONLY OccInv, c \in Cores, t = txn[c], <2>1, <2>2, <2>3, <2>4, WritesHead, Zenon
  <2>6. e.val \in Nat /\ e.tuple = p
    BY ONLY <2>3, <2>4, <2>5 DEF WriteEntry
  <2>7. TxnType(t) /\ Shaped(t) /\ t.wset \in Seq(WriteEntry)
    BY CoreFacts, Zenon DEF TxnType
  <2>8. tuple \in [Tuples -> TupleRec] /\ DOMAIN txn = Cores /\ txn = [b \in Cores |-> txn[b]]
    BY DbFacts, TypeFacts, Zenon
  <2>9. PICK h : h = Fresh
    BY Zenon
  <2>10. PICK d : d = Newest(t.ctid, e.val, p)
    BY Zenon
  <2>11. /\ ~t.wset[1].insert /\ Unused # {}
         /\ tuple' = [tuple EXCEPT ![p] = clear_latest(@), ![h] = d]
         /\ txn' = [txn EXCEPT ![c].pc = "publish", ![c].head = h, ![c].rest = p]
    <3>1. e = Head(txn[c].wset) /\ p = Head(txn[c].wset).tuple
      BY ONLY <2>5, <2>6, t = txn[c], Zenon
    <3>2. /\ ~e.insert /\ Unused # {}
          /\ tuple' = [tuple EXCEPT ![p] = clear_latest(@), ![Fresh] = Tuple(t.ctid, e.val, p, TRUE)]
          /\ txn' = [txn EXCEPT ![c].pc = "publish", ![c].head = Fresh, ![c].rest = p]
      BY ONLY write_replace(c), <3>1, t = txn[c], Zenon DEF write_replace
    <3> QED
      BY ONLY <2>4, <2>9, <2>10, <3>2, Zenon DEF Newest
  <2>12. h \in Tuples /\ tuple[h].version = MIN_TID /\ h # p
    <3>1. Unused # {} => Fresh \in Unused
      BY ONLY Zenon DEF Fresh
    <3>2. h \in Tuples /\ tuple[h].version = MIN_TID
      BY ONLY <2>9, <2>11, <3>1, Zenon DEF Unused
    <3> QED
      BY ONLY <2>5, <3>2, Zenon
  <2>13. d \in TupleRec /\ ~d.locked /\ d.version = t.ctid /\ d.latest
    BY ONLY <2>5, <2>6, <2>10, NewTuple
  <2>14. PICK a : a = clear_latest(tuple[p])
    BY Zenon
  <2>15. a \in TupleRec /\ ~a.latest /\ a.version = tuple[p].version /\ a.locked = tuple[p].locked
         /\ a.intent = tuple[p].intent
    BY ONLY <2>5, <2>14, TupleOps, Zenon
  <2>16. PICK S : S = [tuple EXCEPT ![p] = a, ![h] = d]
    BY Zenon
  <2>17. tuple' = S
    BY ONLY <2>11, <2>14, <2>16, Zenon
  <2>18. Replaces(p, h, t.ctid, tuple, S)
    <3>1. /\ S \in [Tuples -> TupleRec] /\ S[p] = a /\ S[h] = d
          /\ \A q \in Tuples : q \notin {p, h} => S[q] = tuple[q]
      BY ONLY <2>5, <2>8, <2>12, <2>13, <2>15, <2>16
    <3> QED
      BY ONLY <2>13, <2>15, <3>1, Zenon DEF Replaces
  <2>19. PICK u : u = WriteTo(t, "publish", t.wset, h, p)
    BY Zenon
  <2>20. Wrote(t, u, "publish", t.wset, h, p)
    <3>1. "publish" \in Writing /\ h \in Tuples \cup {NoTuple} /\ p \in Tuples \cup {NoTuple}
      BY ONLY <2>5, <2>12, Zenon DEF Writing, Publishing
    <3> QED
      BY ONLY <2>7, <2>19, <3>1, WriteToFacts, Zenon
  <2>21. txn' = [txn EXCEPT ![c] = u]
    <3>1. txn' = [txn EXCEPT ![c] = [t EXCEPT !.pc = "publish", !.head = h, !.rest = p]]
      BY ONLY <2>7, <2>8, <2>11, t = txn[c], c \in Cores, Zenon DEF Shaped
    <3>2. [t EXCEPT !.pc = "publish", !.head = h, !.rest = p] = u
      BY ONLY <2>7, <2>19, Zenon DEF Shaped, WriteTo
    <3> QED
      BY ONLY <3>1, <3>2, Zenon
  <2>22. ~t.wset[1].insert
    BY ONLY <2>11
  <2> QED
    BY ONLY OccInv, c \in Cores, t = txn[c], <2>1, <2>3, <2>12, <2>17, <2>18, <2>20, <2>21, <2>22,
            <1>ReplaceChange, Zenon
  \* The new head takes the place of the tuple in the index.
<1>PublishStep.
      ASSUME NEW T, NEW R, NEW S, NEW Q, NEW n, NEW t, NEW u, TxnInv(t, T, R, n),
             SameTuples(t, T, S), StillRooted(T, R, S, Q), t.pc = "publish",
             t.wset[1].key \in DOMAIN Q, Q[t.wset[1].key] = t.head, S[t.head].locked,
             u.pc = "publish2", u.head = t.head, u.rest = t.rest,
             u.locked = t.locked, u.wset = t.wset, u.infos = t.infos, u.ctid = t.ctid,
             u.snap = t.snap, u.scratch = t.scratch, u.rset = t.rset, u.tid = t.tid, TxnType(u)
      PROVE  TxnInv(u, S, Q, n) /\ Private(u) = Private(t)
  <2> USE <1>PublishStep
  <2>1. /\ TxnType(t) /\ Phase(t) /\ OwnNumber(t, n) /\ Publisher(t, T, R) /\ Reader(t, n)
    BY Zenon DEF TxnInv
  <2>2. OwnLocks(t, S) /\ OwnWrites(t, S, Q) /\ GcRooted(t.scratch, S, Q)
    BY FrameOwn, Zenon
  <2>3. Inserts(u) = Inserts(t) /\ WrittenTuples(u) = WrittenTuples(t)
    BY SameWrites, Zenon
  <2>4. /\ u.pc \notin Reading /\ u.pc \notin Calm /\ u.pc # "lock" /\ u.pc \notin Holding
        /\ u.pc \in Publishing /\ u.pc \in Writing /\ t.pc \in Writing /\ t.pc \in Publishing
        /\ t.pc \in {"undo"} \cup Writing /\ u.pc \notin {"lock"} \cup Holding /\ u.pc # "publish"
        /\ u.pc \notin {"write", "write2"} /\ t.pc \in Writing \ {"write"}
        /\ u.pc \in (Holding \ {"gen"}) \cup Writing /\ t.pc \in (Holding \ {"gen"}) \cup Writing
    BY DEF Reading, Holding, Writing, Publishing, Calm
  <2>10. /\ u.head = t.head /\ u.rest = t.rest /\ u.locked = t.locked /\ u.wset = t.wset
         /\ u.infos = t.infos /\ u.ctid = t.ctid /\ u.snap = t.snap
    OBVIOUS
  <2>5. Phase(u)
    BY ONLY <2>1, <2>3, <2>4, <2>10, Zenon DEF Phase
  <2>6. OwnLocks(u, S)
    BY ONLY <2>2, <2>3, <2>4, <2>10, Zenon DEF OwnLocks
  <2>7. OwnWrites(u, S, Q)
    BY ONLY <2>2, <2>4, <2>10, Zenon DEF OwnWrites, Numbered
  <2>8. Publisher(u, S, Q)
    <3>1. t.head \in Private(t) /\ T[t.head].latest /\ T[t.head].version = t.ctid
      BY <2>1, <2>4, Zenon DEF Private, Phase, Publisher
    <3> QED
      BY <3>1, <2>4, Zenon DEF Publisher, SameTuples
  <2>9. OwnNumber(u, n) /\ Reader(u, n)
    BY <2>1, <2>4, Zenon DEF OwnNumber, Reader, Numbered
  <2> QED
    BY <2>2, <2>5, <2>6, <2>7, <2>8, <2>9, SamePrivate, Zenon DEF TxnInv
  \* The index with a new tuple at an old key.
<1>Redirects.
      ASSUME NEW R, NEW k \in DOMAIN R, NEW h, NEW Q, Q = With(R, k, h)
      PROVE  Redirected(R, k, h, Q)
  <2> USE <1>Redirects
  <2>1. Q = [x \in DOMAIN R \cup {k} |-> IF x = k THEN h ELSE R[x]]
    BY Zenon DEF With
  <2>2. DOMAIN R \cup {k} = DOMAIN R
    BY Zenon
  <2>3. Q = [x \in DOMAIN R |-> IF x = k THEN h ELSE R[x]]
    BY ONLY <2>1, <2>2, Zenon
  <2>4. DOMAIN Q = DOMAIN R /\ Q = [j \in DOMAIN Q |-> Q[j]]
    BY ONLY <2>3, Zenon
  <2>5. \A j \in DOMAIN R : Q[j] = IF j = k THEN h ELSE R[j]
    BY ONLY <2>3, Zenon
  <2> QED
    BY <2>4, <2>5, Zenon DEF Redirected
  \* The new head takes the place of the tuple written: the rest of the database
  \* is in order.
<1>Installed.
      ASSUME OccInv, NEW c \in Cores, NEW t, t = txn[c], NEW u, NEW p, NEW h, NEW k, NEW S, NEW Q,
             p \in Tuples, p \in Private(t), h \in Tuples, h \in Private(t), tuple[h].version # MAX_TID,
             Relocks(h, tuple, S), k \in DOMAIN tree, tree[k] = p, ~tuple[p].latest,
             \A j \in DOMAIN tree : tree[j] # h, Redirected(tree, k, h, Q),
             Private(u) = Private(t), u.locked = t.locked
      PROVE  /\ StillRooted(tuple, tree, S, Q) /\ Apart(c, u, S, Q) /\ GoodTypes(S, Q)
             /\ GoodIndex(tuple, tree, S, Q, t, u) /\ GoodTuples(tuple, S, t, u, tick)
  <2> USE <1>Installed
  <2>1. /\ S \in [Tuples -> TupleRec] /\ \A q \in Tuples : q \notin {h} => S[q] = tuple[q]
        /\ S[h].version = tuple[h].version /\ S[h].latest = tuple[h].latest
    BY ONLY Relocks(h, tuple, S), Zenon DEF Relocks
  <2>2. \A q \in Tuples : S[q].version = tuple[q].version /\ S[q].latest = tuple[q].latest
    BY ONLY <2>1, Zenon
  <2>3. /\ DOMAIN Q = DOMAIN tree /\ Q[k] = h /\ \A j \in DOMAIN tree : j # k => Q[j] = tree[j]
        /\ Q = [j \in DOMAIN Q |-> Q[j]]
    BY ONLY Redirected(tree, k, h, Q), Zenon DEF Redirected
  <2>4. /\ \A i, j \in DOMAIN tree : tree[i] = tree[j] => i = j
        /\ DOMAIN tree \subseteq Keys /\ \A j \in DOMAIN tree : tree[j] \in Tuples /\ tuple[tree[j]].version # MIN_TID
        /\ \A q \in Tuples : tuple[q].version = MIN_TID => ~tuple[q].locked
        /\ \A q \in Tuples : tuple[q].version = MAX_TID \/ tuple[q].version < Limit(tick)
    BY DbFacts, Zenon
  <2>5. tuple[p].version # MIN_TID /\ tuple[h].version # MIN_TID
    BY ONLY OccInv, c \in Cores, t = txn[c], p \in Private(t), h \in Private(t), OwnUsed, Zenon
  <2>6. Changes({p, h}, tuple, tree, S, Q)
    <3>1. \A q \in Tuples : q \notin {p, h} => /\ S[q].locked = tuple[q].locked /\ S[q].intent = tuple[q].intent
                                               /\ S[q].version = tuple[q].version /\ S[q].latest = tuple[q].latest
      BY ONLY <2>1, Zenon
    <3>2. \A j \in DOMAIN tree : tree[j] \notin {p, h} => j \in DOMAIN Q /\ Q[j] = tree[j]
      BY ONLY <2>3, tree[k] = p, Zenon
    <3>3. \A j \in DOMAIN Q : Q[j] \notin {p, h} => j \in DOMAIN tree /\ Q[j] = tree[j]
      BY ONLY <2>3, Zenon
    <3> QED
      BY ONLY <3>1, <3>2, <3>3, Zenon DEF Changes
  <2>7. StillRooted(tuple, tree, S, Q)
    <3>1. \A q \in Tuples : tuple[q].version # MIN_TID =>
            S[q].version # MIN_TID /\ (S[q].latest => tuple[q].latest)
      BY ONLY <2>2, Zenon
    <3>2. \A j \in DOMAIN tree : tuple[tree[j]].latest /\ S[tree[j]].latest => j \in DOMAIN Q /\ Q[j] = tree[j]
      BY ONLY <2>3, tree[k] = p, ~tuple[p].latest, Zenon
    <3> QED
      BY ONLY <3>1, <3>2, RootedFrame
  <2>8. Apart(c, u, S, Q)
    <3>1. Unshared(c, {p, h})
      <4>1. \A q \in {p, h} : q \in Private(txn[c]) \/ tuple[q].version = MIN_TID
        BY ONLY t = txn[c], p \in Private(t), h \in Private(t), Zenon
      <4> QED
        BY ONLY OccInv, c \in Cores, <4>1, OwnUnshared, Zenon
    <3>2. Private(u) \subseteq Private(txn[c]) \cup {p, h}
      BY ONLY t = txn[c], Private(u) = Private(t), Zenon
    <3> QED
      BY ONLY OccInv, c \in Cores, <2>6, <3>1, <3>2, Elsewhere, Zenon
  <2>9. GoodTypes(S, Q)
    <3>1. \A j \in DOMAIN Q : Q[j] \in Tuples
      BY ONLY <2>3, <2>4, h \in Tuples, Zenon
    <3>2. Q \in [DOMAIN Q -> Tuples]
      BY ONLY <2>3, <3>1, Zenon
    <3> QED
      BY ONLY <2>1, <2>3, <2>4, <3>2, Zenon DEF GoodTypes
  <2>10. GoodIndex(tuple, tree, S, Q, t, u)
    <3>1. \A i, j \in DOMAIN Q : Q[i] = Q[j] => i = j
      BY ONLY <2>3, <2>4, \A j \in DOMAIN tree : tree[j] # h, Zenon
    <3>2. ASSUME NEW j \in DOMAIN Q
          PROVE  /\ S[Q[j]].version # MIN_TID
                 /\ S[Q[j]].version = MAX_TID =>
                      \/ Q[j] \in u.locked
                      \/ j \in DOMAIN tree /\ Q[j] = tree[j] /\ tuple[tree[j]].version = MAX_TID
                         /\ tree[j] \notin t.locked
      <4>1. CASE j = k
        BY ONLY <2>2, <2>3, <2>5, <4>1, h \in Tuples, tuple[h].version # MAX_TID, Zenon
      <4>2. CASE j # k
        <5>1. j \in DOMAIN tree /\ Q[j] = tree[j] /\ tree[j] \in Tuples /\ tuple[tree[j]].version # MIN_TID
          BY ONLY <2>3, <2>4, <3>2, <4>2, Zenon
        <5>2. S[Q[j]].version = tuple[tree[j]].version
          BY ONLY <2>2, <5>1, Zenon
        <5> QED
          BY ONLY <5>1, <5>2, u.locked = t.locked, Zenon
      <4> QED
        BY ONLY <4>1, <4>2, Zenon
    <3> QED
      BY ONLY <3>1, <3>2, Zenon DEF GoodIndex
  <2>11. GoodTuples(tuple, S, t, u, tick)
    <3>1. \A q \in {p, h} : /\ S[q].version = MIN_TID => ~S[q].locked
                            /\ S[q].locked => q \in Private(u)
                            /\ S[q].version = MAX_TID \/ S[q].version < Limit(tick)
      BY ONLY <2>2, <2>4, <2>5, p \in Tuples, h \in Tuples, p \in Private(t), h \in Private(t),
              Private(u) = Private(t), Zenon
    <3>2. Private(t) \subseteq Private(u) \cup {p, h}
      BY ONLY Private(u) = Private(t), Zenon
    <3> QED
      BY ONLY OccInv, <2>6, <3>1, <3>2, TuplesKept
  <2> QED
    BY ONLY <2>7, <2>8, <2>9, <2>10, <2>11, Zenon
  \* The change of the index that publishes a new head keeps the invariant.
<1>PublishAction.
      ASSUME OccInv, NEW c \in Cores, NEW t, t = txn[c], publish(c)
      PROVE  OccInv'
  <2> USE <1>PublishAction
  <2>1. /\ t.pc = "publish" /\ UNCHANGED <<prog, queue, lastTid, clockvars>>
        /\ tuple' = [tuple EXCEPT ![t.head] = lock(@, TRUE)]
        /\ tree' = With(tree, Head(t.wset).key, t.head) /\ txn' = [txn EXCEPT ![c].pc = "publish2"]
    BY Zenon DEF publish, gcvars, Go
  <2>2. t.pc \in Publishing /\ t.pc \notin {"idle", "post", "clean"} /\ t.pc # "publish2"
    BY ONLY <2>1 DEF Publishing
  <2>3. PICK p : p = t.wset[1].tuple
    BY Zenon
  <2>4. PICK h : h = t.head
    BY Zenon
  <2>5. PICK k : k = t.wset[1].key
    BY Zenon
  <2>6. PICK S : S = [tuple EXCEPT ![h] = lock(@, TRUE)]
    BY Zenon
  <2>7. PICK Q : Q = With(tree, k, h)
    BY Zenon
  <2>8. /\ t.wset # <<>> /\ t.pc \in Writing /\ t.rest = p
        /\ h \in Tuples /\ h \in Private(t) /\ h \notin t.locked /\ tuple[h].version = t.ctid
    <3>1. t.pc \in Publishing
      BY ONLY <2>2
    <3>2. Installs(t, tuple, p, h)
      BY ONLY OccInv, c \in Cores, t = txn[c], <2>3, <2>4, <3>1, PublishHead, Zenon
    <3> QED
      BY ONLY <3>2, Zenon DEF Installs
  <2>9. p \in Tuples /\ p \in Private(t) /\ Head(t.wset) = t.wset[1] /\ t.ctid # MAX_TID
    <3>1. t.wset # <<>> /\ t.pc \in Writing
      BY ONLY <2>8
    <3> QED
      BY ONLY OccInv, c \in Cores, t = txn[c], <2>3, <3>1, FirstWrite, Zenon
  <2>10. /\ TxnInv(t, tuple, tree, tick) /\ TxnType(t) /\ Shaped(t) /\ Publisher(t, tuple, tree)
         /\ Guarded(guard[c], t, tick, done) /\ t.wset \in Seq(WriteEntry) /\ t.head \in Tuples \cup {NoTuple}
         /\ t.rest \in Tuples \cup {NoTuple}
    BY CoreFacts, Zenon DEF TxnType
  <2>11. /\ k \in DOMAIN tree /\ tree[k] = p /\ ~tuple[p].latest /\ \A j \in DOMAIN tree : tree[j] # h
    BY ONLY <2>1, <2>2, <2>4, <2>5, <2>8, <2>10, Zenon DEF Publisher
  <2>12. Relocks(h, tuple, S) /\ S[h].locked
    BY ONLY OccInv, <2>6, <2>8, Relocking, Zenon
  <2>13. Redirected(tree, k, h, Q)
    BY ONLY <2>7, <2>11, <1>Redirects, Zenon
  <2>14. PICK u : u = WriteTo(t, "publish2", t.wset, t.head, t.rest)
    BY Zenon
  <2>15. Wrote(t, u, "publish2", t.wset, t.head, t.rest)
    <3>1. "publish2" \in Writing
      BY ONLY Zenon DEF Writing, Publishing
    <3> QED
      BY ONLY <2>10, <2>14, <3>1, WriteToFacts, Zenon
  <2>16. /\ u.pc = "publish2" /\ u.wset = t.wset /\ u.head = t.head /\ u.rest = t.rest /\ u.locked = t.locked
         /\ u.infos = t.infos /\ u.ctid = t.ctid /\ u.snap = t.snap /\ u.stid = t.stid
         /\ u.scratch = t.scratch /\ u.rset = t.rset /\ u.tid = t.tid /\ TxnType(u)
    BY ONLY <2>15, Zenon DEF Wrote
  <2>17. Private(u) = Private(t)
    BY ONLY <2>16, SamePrivate, Zenon
  <2>18. /\ StillRooted(tuple, tree, S, Q) /\ Apart(c, u, S, Q) /\ GoodTypes(S, Q)
         /\ GoodIndex(tuple, tree, S, Q, t, u) /\ GoodTuples(tuple, S, t, u, tick)
    <3>1. tuple[h].version # MAX_TID
      BY ONLY <2>8, <2>9, Zenon
    <3>2. u.locked = t.locked
      BY ONLY <2>16
    <3>3. h \in Tuples /\ h \in Private(t) /\ p \in Tuples /\ p \in Private(t)
      BY ONLY <2>8, <2>9
    <3> QED
      BY ONLY OccInv, c \in Cores, t = txn[c], <2>11, <2>12, <2>13, <2>17, <3>1, <3>2, <3>3, <1>Installed
  <2>19. SameTuples(t, tuple, S)
    <3>1. /\ \A q \in Tuples : q \notin {h} => S[q] = tuple[q]
          /\ S[h].version = tuple[h].version /\ S[h].latest = tuple[h].latest
      BY ONLY <2>12, Zenon DEF Relocks
    <3>2. \A q \in t.locked : q \in Tuples /\ q # h
      BY ONLY <2>8, <2>10, EntryTypes, Zenon
    <3>3. \A q \in Private(t) : q = h \/ q \in t.locked
      BY ONLY <2>4, Zenon DEF Private
    <3> QED
      BY ONLY <2>2, <3>1, <3>2, <3>3, Zenon DEF SameTuples
  <2>20. TxnInv(u, S, Q, tick)
    <3>1. k \in DOMAIN Q /\ Q[k] = h
      BY ONLY <2>11, <2>13, Zenon DEF Redirected
    <3>2. t.wset[1].key \in DOMAIN Q /\ Q[t.wset[1].key] = t.head /\ S[t.head].locked
      BY ONLY <2>4, <2>5, <2>12, <3>1, Zenon
    <3>3. StillRooted(tuple, tree, S, Q) /\ t.pc = "publish"
      BY ONLY <2>1, <2>18
    <3> QED
      BY ONLY <2>10, <2>16, <2>19, <3>2, <3>3, <1>PublishStep, Zenon
  <2>21. Guarded(guard[c], u, tick, done)
    <3>1. u.pc \notin {"idle", "post", "clean"}
      BY ONLY <2>16
    <3> QED
      BY ONLY <2>2, <2>10, <2>16, <3>1, StillGuarded, Zenon
  <2>22. tuple' = S /\ tree' = Q
    BY ONLY <2>1, <2>4, <2>5, <2>6, <2>7, <2>9, Zenon
  <2>23. txn' = [txn EXCEPT ![c] = u]
    <3>1. DOMAIN txn = Cores /\ txn = [b \in Cores |-> txn[b]]
      BY TypeFacts, Zenon
    <3>2. txn' = [txn EXCEPT ![c] = [t EXCEPT !.pc = "publish2"]]
      BY ONLY <2>1, <3>1, t = txn[c], c \in Cores, Zenon
    <3>3. [t EXCEPT !.pc = "publish2"] = u
      BY ONLY <2>10, <2>14, Zenon DEF Shaped, WriteTo
    <3> QED
      BY ONLY <3>2, <3>3, Zenon
  <2>24. UNCHANGED <<prog, queue, lastTid, clockvars>>
    BY ONLY <2>1
  <2>25. GoodIndex(tuple, tree, S, Q, txn[c], u) /\ GoodTuples(tuple, S, txn[c], u, tick)
    BY ONLY <2>18, t = txn[c], Zenon
  <2> QED
    BY ONLY OccInv, c \in Cores, <2>18, <2>20, <2>21, <2>22, <2>23, <2>24, <2>25, DbQuiet, Zenon
  \* The unlock of the published head keeps the invariant.
<1>UnlockHeadAction.
      ASSUME OccInv, NEW c \in Cores, NEW t, t = txn[c], unlock_head(c)
      PROVE  OccInv'
  <2> USE <1>UnlockHeadAction
  <2>1. t.pc = "publish2" /\ UNCHANGED <<tree, prog, lastTid, clockvars>>
    BY Zenon DEF unlock_head
  <2>2. t.pc \in Publishing /\ t.pc \notin {"idle", "post", "clean"}
    BY ONLY <2>1 DEF Publishing
  <2>3. PICK p : p = t.wset[1].tuple
    BY Zenon
  <2>4. PICK h : h = t.head
    BY Zenon
  <2>5. PICK e : e = t.wset[1]
    BY Zenon
  <2>6. /\ t.wset # <<>> /\ t.pc \in Writing /\ t.rest = p /\ tuple[p].version # MAX_TID
        /\ h \in Tuples /\ h \in Private(t) /\ h \notin t.locked /\ tuple[h].version = t.ctid
    <3>1. t.pc \in Publishing
      BY ONLY <2>2
    <3>2. Installs(t, tuple, p, h)
      BY ONLY OccInv, c \in Cores, t = txn[c], <2>3, <2>4, <3>1, PublishHead, Zenon
    <3> QED
      BY ONLY <3>2, Zenon DEF Installs
  <2>7. p \in Tuples /\ Head(t.wset) = e /\ e \in WriteEntry /\ t.ctid # MAX_TID /\ t.ctid # MIN_TID
    <3>1. t.wset # <<>> /\ t.pc \in Writing
      BY ONLY <2>6
    <3> QED
      BY ONLY OccInv, c \in Cores, t = txn[c], <2>3, <2>5, <3>1, FirstWrite, Zenon
  <2>8. /\ TxnInv(t, tuple, tree, tick) /\ TxnType(t) /\ Shaped(t) /\ Publisher(t, tuple, tree)
        /\ Guarded(guard[c], t, tick, done) /\ t.wset \in Seq(WriteEntry) /\ Phase(t)
    BY CoreFacts, Zenon DEF TxnType
  <2>9. PICK S : S = [tuple EXCEPT ![h] = unlock(@)]
    BY Zenon
  <2>10. Relocks(h, tuple, S) /\ ~S[h].locked
    BY ONLY OccInv, <2>6, <2>9, Relocking, Zenon
  <2>11. PICK u : u = WriteTo(t, "write", Tail(t.wset), NoTuple, NoTuple)
    BY Zenon
  <2>12. Wrote(t, u, "write", Tail(t.wset), NoTuple, NoTuple)
    <3>1. "write" \in Writing /\ NoTuple \in Tuples \cup {NoTuple}
      BY ONLY Zenon DEF Writing
    <3>2. Tail(t.wset) \in Seq(WriteEntry)
      BY ONLY <2>6, <2>8, SeqHead, Zenon
    <3> QED
      BY ONLY <2>8, <2>11, <3>1, <3>2, WriteToFacts, Zenon
  <2>13. /\ u.pc = "write" /\ u.wset = Tail(t.wset) /\ u.head = NoTuple /\ u.locked = t.locked
         /\ u.infos = t.infos /\ u.ctid = t.ctid /\ u.snap = t.snap /\ u.stid = t.stid
         /\ u.scratch = t.scratch /\ u.rset = t.rset /\ u.tid = t.tid /\ TxnType(u)
    BY ONLY <2>12, Zenon DEF Wrote
  <2>14. TxnInv(u, tuple, tree, tick)
    <3>1. t.wset # <<>> /\ t.pc \in Writing /\ tuple[t.wset[1].tuple].version # MAX_TID
      BY ONLY <2>3, <2>6, Zenon
    <3> QED
      BY ONLY <2>8, <2>13, <3>1, TailStep, Zenon
  <2>15. Private(u) = t.locked /\ Private(t) = t.locked \cup {h}
    <3>1. NoTuple \notin t.locked /\ h # NoTuple
      <4>1. t.locked \subseteq Tuples
        BY ONLY <2>8, EntryTypes, Zenon
      <4> QED
        BY ONLY <2>6, <4>1, Constants, Zenon
    <3> QED
      BY ONLY <2>4, <2>13, <3>1, Zenon DEF Private
  <2>16. TxnInv(u, S, tree, tick) /\ Changes({h}, tuple, tree, S, tree)
    <3>1. h \notin Private(u)
      BY ONLY <2>6, <2>15, Zenon
    <3> QED
      BY ONLY <2>10, <2>14, <3>1, Relocked, Zenon
  <2>17. Proper({h}, tuple, S, t, u, tick)
    <3>1. tuple[h].version # MAX_TID /\ tuple[h].version # MIN_TID
      BY ONLY <2>6, <2>7, Zenon
    <3>2. /\ Private(u) \subseteq Private(t) \cup {h} /\ Private(t) \subseteq Private(u) \cup {h}
          /\ t.locked \subseteq u.locked \cup {h} /\ (S[h].locked => h \in Private(u))
      BY ONLY <2>10, <2>13, <2>15, Zenon
    <3>3. h \in Tuples /\ Relocks(h, tuple, S)
      BY ONLY <2>6, <2>10
    <3> QED
      BY ONLY OccInv, <3>1, <3>2, <3>3, RelockProper, Zenon
  <2>18. Unshared(c, {h})
    <3>1. \A q \in {h} : q \in Private(txn[c]) \/ tuple[q].version = MIN_TID
      BY ONLY <2>6, t = txn[c], Zenon
    <3> QED
      BY ONLY OccInv, c \in Cores, <3>1, OwnUnshared, Zenon
  <2>19. /\ StillRooted(tuple, tree, S, tree) /\ Apart(c, u, S, tree) /\ GoodTypes(S, tree)
         /\ GoodIndex(tuple, tree, S, tree, t, u) /\ GoodTuples(tuple, S, t, u, tick)
    <3>1. Changes({h}, tuple, tree, S, tree)
      BY ONLY <2>16
    <3> QED
      BY ONLY OccInv, c \in Cores, t = txn[c], <2>17, <2>18, <3>1, SameTree, Zenon
  <2>20. PICK s : s = queue[c] \o Spilled(c, t.rest) \o Deleted(c, h, e)
    BY Zenon
  <2>21. s \in Seq(GcEntry) /\ GcRooted(s, tuple, tree)
    <3>1. Rooted(h, e.key, tuple, tree)
      <4>1. t.wset[1].key \in DOMAIN tree /\ tree[t.wset[1].key] = IF t.pc = "publish" THEN t.rest ELSE t.head
        BY ONLY <2>2, <2>8, Zenon DEF Publisher
      <4>2. t.pc # "publish"
        BY ONLY <2>1
      <4> QED
        BY ONLY <2>4, <2>5, <4>1, <4>2, Zenon DEF Rooted
    <3>2. t.rest \in Tuples \cup {NoTuple} /\ h \in Tuples /\ tuple[h].version # MIN_TID /\ e \in WriteEntry
      BY ONLY <2>6, <2>7, Zenon
    <3> QED
      BY ONLY OccInv, c \in Cores, <2>20, <3>1, <3>2, QueueGrows, Zenon
  <2>22. GcRooted(s, S, tree)
    <3>1. StillRooted(tuple, tree, S, tree)
      BY ONLY <2>19
    <3> QED
      BY ONLY <2>21, <3>1, GcFrame, Zenon
  <2>23. Guarded(guard[c], u, tick, done)
    <3>1. u.pc \notin {"idle", "post", "clean"}
      BY ONLY <2>13
    <3> QED
      BY ONLY <2>2, <2>8, <2>13, <3>1, StillGuarded, Zenon
  <2>24. tuple' = S /\ tree' = tree
    <3>1. tuple' = [tuple EXCEPT ![txn[c].head] = unlock(@)]
      BY ONLY unlock_head(c), Zenon DEF unlock_head
    <3> QED
      BY ONLY <2>1, <2>4, <2>9, <3>1, t = txn[c], Zenon
  <2>25. txn' = [txn EXCEPT ![c] = u]
    <3>1. DOMAIN txn = Cores /\ txn = [b \in Cores |-> txn[b]]
      BY TypeFacts, Zenon
    <3>2. txn' = [txn EXCEPT ![c].pc = "write", ![c].wset = Tail(@), ![c].head = NoTuple, ![c].rest = NoTuple]
      BY ONLY unlock_head(c), Zenon DEF unlock_head
    <3>3. txn' = [txn EXCEPT ![c] = [t EXCEPT !.pc = "write", !.wset = Tail(@), !.head = NoTuple, !.rest = NoTuple]]
      BY ONLY <2>8, <3>1, <3>2, t = txn[c], c \in Cores, Zenon DEF Shaped
    <3>4. [t EXCEPT !.pc = "write", !.wset = Tail(@), !.head = NoTuple, !.rest = NoTuple] = u
      BY ONLY <2>8, <2>11, Zenon DEF Shaped, WriteTo
    <3> QED
      BY ONLY <3>3, <3>4, Zenon
  <2>26. queue' = [queue EXCEPT ![c] = s]
    <3>1. queue' = [queue EXCEPT ![c] = queue[c] \o Spilled(c, txn[c].rest)
                                          \o Deleted(c, txn[c].head, Head(txn[c].wset))]
      BY ONLY unlock_head(c), Zenon DEF unlock_head
    <3> QED
      BY ONLY <2>4, <2>7, <2>20, <3>1, t = txn[c], Zenon
  <2>27. GoodIndex(tuple, tree, S, tree, txn[c], u) /\ GoodTuples(tuple, S, txn[c], u, tick)
    BY ONLY <2>19, t = txn[c], Zenon
  <2>28. TxnInv(u, S, tree, tick) /\ s \in Seq(GcEntry) /\ UNCHANGED <<prog, lastTid, clockvars>>
    BY ONLY <2>1, <2>16, <2>21
  <2> QED
    BY ONLY OccInv, c \in Cores, <2>19, <2>22, <2>23, <2>24, <2>25, <2>26, <2>27, <2>28, DbStep, Zenon
<1> QED
  BY <1>WriteReplaceAction, <1>PublishAction, <1>UnlockHeadAction, Zenon

\* Nothing happens.
LEMMA Stutter ==
    ASSUME OccInv, UNCHANGED occvars
    PROVE  OccInv'
<1>1. UNCHANGED <<prog, txn, tuple, tree, queue, lastTid, tick, done, guard>>
  BY Zenon DEF occvars, clockvars
<1>2. OccType'
  BY ONLY OccInv, <1>1, Zenon DEF OccInv, OccType
<1>3. \A c \in Cores : CoreInv(c)'
  <2> SUFFICES ASSUME NEW c \in Cores PROVE CoreInv(c)'
    BY Zenon
  <2>1. CoreInv(c)
    BY Zenon DEF OccInv
  <2> QED
    BY ONLY <1>1, <2>1, Zenon DEF CoreInv
<1>4. TreeInv'
  BY ONLY OccInv, <1>1, Zenon DEF OccInv, TreeInv
<1>5. TupleInv'
  BY ONLY OccInv, <1>1, Zenon DEF OccInv, TupleInv
<1>6. Exclusive'
  BY ONLY OccInv, <1>1, Zenon DEF OccInv, Exclusive
<1> QED
  BY ONLY <1>2, <1>3, <1>4, <1>5, <1>6, Zenon DEF OccInv

\* Every step of a core, and of the ticker, keeps the invariant.
LEMMA NextInv ==
    ASSUME Sorting, OccInv, [OccNext]_occvars
    PROVE  OccInv'
<1>1. ASSUME NEW c \in Cores, CoreStep(c) PROVE OccInv'
  BY ONLY Sorting, OccInv, <1>1, ReadActions, CommitActions, LifeActions,
          LockActions, InsertActions, RemovalActions, WriteActions, PublishActions,
          Zenon DEF CoreStep
<1>2. ASSUME TickerStep PROVE OccInv'
  BY ONLY OccInv, <1>2, TickerActions, Zenon
<1>3. ASSUME UNCHANGED occvars PROVE OccInv'
  BY ONLY OccInv, <1>3, Stutter, Zenon
<1> QED
  BY ONLY [OccNext]_occvars, <1>1, <1>2, <1>3, Zenon DEF OccNext

INSTANCE FiniteSetTheorems

-----------------------------------------------------------------------------
\* What the library proves.

\* A set of numbers that is not empty has a smallest one.
LEMMA Least ==
    ASSUME NEW S \in SUBSET Nat, S # {}
    PROVE  \E m \in S : \A n \in S : m <= n
<1> DEFINE R == OpToRel(<, Nat)
<1>1. IsWellFoundedOn(R, Nat)
  BY NatLessThanWellFounded, Zenon
<1>2. \A x, y \in Nat : <<x, y>> \in R <=> x < y
  BY DEF OpToRel
<1> HIDE DEF R
<1>3. PICK m \in S : \A n \in S : ~(<<n, m>> \in R)
  BY <1>1, WFMin, Zenon
<1>4. \A n \in S : ~(n < m)
  BY <1>2, <1>3, Zenon
<1> QED
  BY <1>4

\* The facts about finite sets that the lemmas have taken as a hypothesis.
LEMMA LibraryHolds == Library
<1>1. \A S \in SUBSET Nat : S # {} => \E m \in S : \A n \in S : m <= n
  BY Least, Zenon
<1>2. Cardinality({}) = 0 /\ \A x : Cardinality({x}) = 1
  BY FS_EmptySet, FS_Singleton, Zenon
<1>3. \A S : IsFiniteSet(S) => Cardinality(S) \in Nat
  BY FS_CardinalityType, Zenon
<1>4. \A S, x : IsFiniteSet(S) /\ x \notin S => Cardinality(S \cup {x}) = Cardinality(S) + 1
  BY FS_AddElement, Zenon
<1>5. \A S \in SUBSET Nat : \A b \in Nat : (\A n \in S : n <= b) => IsFiniteSet(S)
  BY FS_BoundedSetOfNaturals, Zenon
<1>6. \A S : \A T \in SUBSET S : IsFiniteSet(S) => IsFiniteSet(T) /\ Cardinality(T) <= Cardinality(S)
  BY FS_Subset, Zenon
<1>7. ASSUME NEW n \in Nat PROVE IsFiniteSet(1 .. n) /\ Cardinality(1 .. n) = n
  <2>1. IsFiniteSet(1 .. n) /\ Cardinality(1 .. n) = IF 1 > n THEN 0 ELSE n - 1 + 1
    BY FS_Interval
  <2> QED
    BY <2>1
<1>8. ASSUME NEW S, NEW T, IsFiniteSet(S), IsFiniteSet(T), Cardinality(S) = Cardinality(T)
      PROVE  /\ \A f \in [S -> T] : Injective(f, S) => Onto(f, S, T)
             /\ \E f \in [S -> T] : Injective(f, S)
  <2>1. ASSUME NEW f \in [S -> T], Injective(f, S) PROVE Onto(f, S, T)
    <3>1. f \in Injection(S, T)
      BY <2>1, Zenon DEF Injection, IsInjective, Injective
    <3>2. f \in Surjection(S, T)
      BY <1>8, <3>1, FS_Injection, Zenon
    <3> QED
      BY <3>2, Zenon DEF Surjection, Onto
  <2>2. PICK f \in Bijection(S, T) : TRUE
    BY <1>8, FS_SameCardinalityBij, Zenon DEF ExistsBijection
  <2>3. f \in [S -> T] /\ Injective(f, S)
    BY <2>2, Zenon DEF Bijection, Injection, IsInjective, Injective
  <2> QED
    BY <2>1, <2>3, Zenon
<1> QED
  BY <1>1, <1>2, <1>3, <1>4, <1>5, <1>6, <1>7, <1>8, Zenon DEF Library

\* So what the steps sort can be sorted, and so on.
LEMMA Enumerated == Sorting /\ Loading /\ Counting
  BY LibraryHolds, Enumerations, Zenon


-----------------------------------------------------------------------------
\* The theorems.

\* The inductive invariant: what a transaction holds locked in each of its
\* phases, what others may rely on of it, and what its TID, its reads and the
\* versions of the tuples are bounded by.
THEOREM OccInvariant == OccSpec => []OccInv
<1>1. OccInit => OccInv
  BY Enumerated, LifeActions, Zenon
<1>2. OccInv /\ [OccNext]_occvars => OccInv'
  BY Enumerated, NextInv, Zenon
<1> QED
  BY <1>1, <1>2, PTL DEF OccSpec

\* Tuple locks are exclusive, and commit, abort_impl and do_abort together give
\* back exactly what was taken: a locked tuple has one owner, an owner's tuple is
\* locked with the intent to write, and no tentative tuple stays in the index
\* without the transaction that inserted it.
THEOREM LocksExclusive == OccSpec => []LocksOwned
<1>1. OccInv => LocksOwned
  BY Enumerated, Owners, Zenon
<1> QED
  BY <1>1, OccInvariant, PTL

\* ComputeReadOnlyTid against gen_commit_tid: while a snapshot transaction runs,
\* no transaction writes under a TID that belongs to its snapshot.
THEOREM SnapshotsSettled == OccSpec => []SnapshotSettled
<1>1. OccInv => SnapshotSettled
  BY Snapshots, Zenon
<1> QED
  BY <1>1, OccInvariant, PTL

\* gen_commit_tid: no step replaces the version of a key by one with a smaller
\* TID; a step that changes it makes it greater.
THEOREM VersionsForward == OccSpec => VersionForward
<1>1. OccInv /\ [OccNext]_occvars =>
        [\A k \in DOMAIN tree \cap DOMAIN tree' :
           LET v == tuple[tree[k]].version
               w == tuple'[tree'[k]].version
           IN  v # MAX_TID /\ w # v => w > v]_occvars
  BY NextForward, Zenon DEF Forward
<1> QED
  BY <1>1, OccInvariant, PTL DEF OccSpec, VersionForward

=============================================================================
