----------------------------- MODULE OccTuples ------------------------------
(***************************************************************************)
(* The steps of a transaction that lock, insert, unlock or remove tuples   *)
(* keep the invariant: nobody else owns the tuples a step changes, so      *)
(* nobody else's part of the invariant is disturbed.                       *)
(***************************************************************************)
EXTENDS OccSteps

\* Tuples in use stay so, and keys keep leading to the newest versions.
StillRooted(T, R, S, Q) ==
    \A p \in Tuples : T[p].version # MIN_TID =>
       S[p].version # MIN_TID /\ \A k \in Keys : Rooted(p, k, T, R) => Rooted(p, k, S, Q)

\* The records queued for cleaning stay what they are when the places of the
\* tuples do.
LEMMA GcFrame ==
    ASSUME NEW s \in Seq(GcEntry), NEW T, NEW R, NEW S, NEW Q, GcRooted(s, T, R),
           StillRooted(T, R, S, Q)
    PROVE  GcRooted(s, S, Q)
<1>1. \A i \in DOMAIN s : s[i] \in GcEntry
  BY SeqLen, Zenon
<1>2. \A i \in DOMAIN s : s[i].tuple \in Tuples /\ (s[i].key # NoKey => s[i].key \in Keys)
  BY ONLY <1>1 DEF GcEntry
<1> QED
  BY <1>2, Zenon DEF GcRooted, StillRooted

\* What t depends on of the tuples T and the index R is the same in S and Q: its
\* own tuples and where the index leads to them, that a tuple once used stays
\* used, and that a key leads to the newest version.
SameTuples(t, T, S) ==
    /\ \A p \in t.locked : S[p].locked = T[p].locked /\ S[p].intent = T[p].intent
    /\ \A p \in Private(t) : S[p].version = T[p].version /\ S[p].latest = T[p].latest
    /\ t.pc = "publish2" => S[t.head].locked = T[t.head].locked

\* All of it but the place of a tuple that is being published.
LEMMA FrameOwn ==
    ASSUME NEW T, NEW R, NEW S, NEW Q, NEW n, NEW t, TxnInv(t, T, R, n),
           SameTuples(t, T, S), StillRooted(T, R, S, Q)
    PROVE  OwnLocks(t, S) /\ OwnWrites(t, S, Q) /\ GcRooted(t.scratch, S, Q)
<1>1. /\ TxnType(t) /\ Phase(t) /\ OwnLocks(t, T) /\ OwnWrites(t, T, R)
      /\ GcRooted(t.scratch, T, R)
  BY Zenon DEF TxnInv
<1>2. /\ t.locked \subseteq Tuples
      /\ \A i \in DOMAIN t.wset : t.wset[i].tuple \in Tuples /\ t.wset[i].key \in Keys
  BY <1>1, EntryTypes, Zenon
<1>3. \A p \in t.locked : p \in Private(t)
  BY <1>2, Constants, Zenon DEF Private
<1>4. OwnLocks(t, S)
  BY <1>1, <1>3, Zenon DEF OwnLocks, SameTuples
<1>5. GcRooted(t.scratch, S, Q)
  BY <1>1, GcFrame, Zenon DEF TxnType
<1>6. (t.pc \in Writing \/ t.pc \in Publishing \/ t.pc \in {"write", "write2"} \/ Numbered(t))
       => \A i \in DOMAIN t.wset : t.wset[i].tuple \in Private(t)
  <2>1. (t.pc \in Writing \/ t.pc \in Publishing \/ t.pc \in {"write", "write2"} \/ Numbered(t))
        => t.pc \in Writing \/ t.pc \in Holding
    BY DEF Writing, Publishing, Numbered, Holding
  <2>2. t.pc \in Writing \/ t.pc \in Holding => WrittenTuples(t) \subseteq t.locked
    BY <1>1, Zenon DEF Phase
  <2>3. \A i \in DOMAIN t.wset : t.wset[i].tuple \in WrittenTuples(t)
    BY Zenon DEF WrittenTuples
  <2> QED
    BY <2>1, <2>2, <2>3, <1>3, Zenon
<1>7. OwnWrites(t, S, Q)
  <2> SUFFICES ASSUME NEW i \in DOMAIN t.wset, NEW p, p = t.wset[i].tuple
               PROVE  /\ S[p].version # MIN_TID
                      /\ Rooted(p, t.wset[i].key, S, Q)
                      /\ t.pc \in {"write", "write2"} => S[p].latest
                      /\ t.pc \in Publishing /\ i > 1 => S[p].latest
                      /\ Numbered(t) => S[p].version = MAX_TID \/ S[p].version <= t.ctid
    BY Zenon DEF OwnWrites
  <2>1. /\ T[p].version # MIN_TID
        /\ Rooted(p, t.wset[i].key, T, R)
        /\ t.pc \in {"write", "write2"} => T[p].latest
        /\ t.pc \in Publishing /\ i > 1 => T[p].latest
        /\ Numbered(t) => T[p].version = MAX_TID \/ T[p].version <= t.ctid
    BY <1>1, Zenon DEF OwnWrites
  <2>2. S[p].version # MIN_TID /\ Rooted(p, t.wset[i].key, S, Q)
    BY <2>1, <1>2, Zenon DEF StillRooted
  <2>3. p \in Private(t) => S[p].version = T[p].version /\ S[p].latest = T[p].latest
    BY Zenon DEF SameTuples
  <2> QED
    BY <2>1, <2>2, <2>3, <1>6, Zenon
<1> QED
  BY <1>4, <1>5, <1>7

\* The index entries that lead to a tuple the transaction owns are the same.
SameIndex(t, R, Q) ==
    /\ \A k \in DOMAIN R : R[k] \in Private(t) => k \in DOMAIN Q /\ Q[k] = R[k]
    /\ \A k \in DOMAIN Q : Q[k] \in Private(t) => k \in DOMAIN R /\ Q[k] = R[k]

\* A transaction does not notice a change of tuples and index that leaves alone
\* what it depends on.
LEMMA Frame ==
    ASSUME NEW T, NEW R, NEW S, NEW Q, NEW n, NEW t, TxnInv(t, T, R, n),
           SameTuples(t, T, S), StillRooted(T, R, S, Q), SameIndex(t, R, Q)
    PROVE  TxnInv(t, S, Q, n)
<1>1. /\ TxnType(t) /\ Phase(t) /\ OwnNumber(t, n) /\ Publisher(t, T, R) /\ Reader(t, n)
  BY Zenon DEF TxnInv
<1>2. OwnLocks(t, S) /\ OwnWrites(t, S, Q) /\ GcRooted(t.scratch, S, Q)
  BY FrameOwn, Zenon
<1>3. Publisher(t, S, Q)
  <2> SUFFICES ASSUME t.pc \in Publishing
               PROVE  /\ t.wset[1].key \in DOMAIN Q
                      /\ Q[t.wset[1].key] = IF t.pc = "publish" THEN t.rest ELSE t.head
                      /\ t.pc = "publish" => /\ ~S[t.rest].latest
                                             /\ \A k \in DOMAIN Q : Q[k] # t.head
                      /\ t.pc = "publish2" => S[t.head].locked
                      /\ S[t.head].latest /\ S[t.head].version = t.ctid
    BY Zenon DEF Publisher
  <2>1. /\ t.wset[1].key \in DOMAIN R
        /\ R[t.wset[1].key] = IF t.pc = "publish" THEN t.rest ELSE t.head
        /\ t.pc = "publish" => /\ ~T[t.rest].latest
                               /\ \A k \in DOMAIN R : R[k] # t.head
        /\ t.pc = "publish2" => T[t.head].locked
        /\ T[t.head].latest /\ T[t.head].version = t.ctid
    BY <1>1, Zenon DEF Publisher
  <2>2. t.rest \in t.locked /\ t.head # NoTuple
    <3>1. t.pc \in Writing /\ t.pc \in Writing \ {"write"}
      BY DEF Publishing, Writing
    <3>2. t.wset # <<>> /\ t.rest = t.wset[1].tuple /\ WrittenTuples(t) \subseteq t.locked
          /\ t.head # NoTuple
      BY <3>1, <1>1, Zenon DEF Phase
    <3>3. 1 \in DOMAIN t.wset
      BY <3>2, <1>1, EntryTypes, Zenon
    <3> QED
      BY <3>2, <3>3, Zenon DEF WrittenTuples
  <2>3. t.rest \in Private(t) /\ t.head \in Private(t)
    BY <2>2, <1>1, Constants, EntryTypes, Zenon DEF Private
  <2>4. R[t.wset[1].key] \in Private(t)
    BY <2>1, <2>3, Zenon
  <2>5. t.wset[1].key \in DOMAIN Q /\ Q[t.wset[1].key] = R[t.wset[1].key]
    BY <2>1, <2>4, Zenon DEF SameIndex
  <2>6. t.pc = "publish" => \A k \in DOMAIN Q : Q[k] # t.head
    BY <2>1, <2>3, Zenon DEF SameIndex
  <2> QED
    BY <2>1, <2>3, <2>5, <2>6, Zenon DEF SameTuples
<1> QED
  BY <1>1, <1>2, <1>3, Zenon DEF TxnInv

\* A key leads to the newest version of its record as long as the index keeps
\* its entries for such versions.
LEMMA RootedFrame ==
    ASSUME NEW T, NEW R, NEW S, NEW Q,
           \A p \in Tuples : T[p].version # MIN_TID =>
              S[p].version # MIN_TID /\ (S[p].latest => T[p].latest),
           \A k \in DOMAIN R : T[R[k]].latest /\ S[R[k]].latest => k \in DOMAIN Q /\ Q[k] = R[k]
    PROVE  StillRooted(T, R, S, Q)
<1> SUFFICES ASSUME NEW p \in Tuples, T[p].version # MIN_TID, NEW k \in Keys, Rooted(p, k, T, R), S[p].latest
             PROVE  k \in DOMAIN Q /\ Q[k] = p
  BY Zenon DEF StillRooted, Rooted
<1>1. k \in DOMAIN R /\ R[k] = p /\ T[p].latest
  BY Zenon DEF Rooted
<1> QED
  BY <1>1, Zenon

\* The next tuples S and index Q, for the core whose transaction goes from t to u.
GoodTypes(S, Q) ==
    S \in [Tuples -> TupleRec] /\ DOMAIN Q \subseteq Keys /\ Q \in [DOMAIN Q -> Tuples]

\* The next index leads to different tuples in use, tentative ones being
\* locked.
GoodIndex(T, R, S, Q, t, u) ==
    /\ \A j, k \in DOMAIN Q : Q[j] = Q[k] => j = k
    /\ \A k \in DOMAIN Q :
         /\ S[Q[k]].version # MIN_TID
         /\ S[Q[k]].version = MAX_TID =>
              \/ Q[k] \in u.locked
              \/ k \in DOMAIN R /\ Q[k] = R[k] /\ T[R[k]].version = MAX_TID /\ R[k] \notin t.locked

\* The next tuples are locked only by an owner, with versions below the limit.
GoodTuples(T, S, t, u, n) ==
    \A p \in Tuples :
       /\ S[p].version = MIN_TID => ~S[p].locked
       /\ S[p].locked => p \in Private(u) \/ (T[p].locked /\ p \notin Private(t))
       /\ S[p].version = MAX_TID \/ S[p].version < Limit(n)

\* Nothing changes that another transaction owns.
Apart(c, u, S, Q) ==
    \A d \in Cores \ {c} : /\ SameTuples(txn[d], tuple, S) /\ SameIndex(txn[d], tree, Q)
                           /\ Private(u) \cap Private(txn[d]) = {}

\* A step of one core that changes tuples and index keeps the invariant if it
\* keeps that of the core, the index and the tuples, and leaves alone what
\* others own.
LEMMA DbStep ==
    ASSUME OccInv, NEW c \in Cores, NEW u, NEW s \in Seq(GcEntry), NEW S, NEW Q,
           tuple' = S, tree' = Q, txn' = [txn EXCEPT ![c] = u], queue' = [queue EXCEPT ![c] = s],
           UNCHANGED <<prog, lastTid, clockvars>>,
           TxnInv(u, S, Q, tick), Guarded(guard[c], u, tick, done), GcRooted(s, S, Q),
           StillRooted(tuple, tree, S, Q), Apart(c, u, S, Q), GoodTypes(S, Q),
           GoodIndex(tuple, tree, S, Q, txn[c], u), GoodTuples(tuple, S, txn[c], u, tick)
    PROVE  OccInv'
<1>1. UNCHANGED <<prog, lastTid, tick, done, guard>>
  BY Zenon DEF clockvars
<1>2. /\ txn' = [d \in Cores |-> txn'[d]] /\ DOMAIN txn' = Cores
      /\ txn'[c] = u /\ \A d \in Cores : d # c => txn'[d] = txn[d]
  BY Zenon DEF OccInv, OccType
<1>3. /\ queue' \in [Cores -> Seq(GcEntry)]
      /\ queue'[c] = s /\ \A d \in Cores : d # c => queue'[d] = queue[d]
  BY Zenon DEF OccInv, OccType
<1>4. \A d \in Cores : CoreInv(d)'
  <2> SUFFICES ASSUME NEW d \in Cores PROVE CoreInv(d)'
    OBVIOUS
  <2>1. CoreInv(d) /\ CoreInv(c)
    BY Zenon DEF OccInv
  <2>2. CASE d = c
    BY <1>1, <1>2, <1>3, <2>1, <2>2, Zenon DEF CoreInv
  <2>3. CASE d # c
    <3>1. /\ TxnInv(txn[d], tuple, tree, tick) /\ Guarded(guard[d], txn[d], tick, done)
          /\ GcRooted(queue[d], tuple, tree) /\ lastTid[d] < Limit(tick)
          /\ guard[d] # NoGuard => prog[d] # <<>>
      BY <2>1, Zenon DEF CoreInv
    <3>2. TxnInv(txn[d], S, Q, tick)
      <4>1. SameTuples(txn[d], tuple, S) /\ SameIndex(txn[d], tree, Q)
        BY <2>3, Zenon DEF Apart
      <4> QED
        BY <3>1, <4>1, Frame, Zenon
    <3>3. GcRooted(queue[d], S, Q)
      <4>1. queue[d] \in Seq(GcEntry)
        BY Zenon DEF OccInv, OccType
      <4> QED
        BY <3>1, <4>1, GcFrame, Zenon
    <3> QED
      BY <1>1, <1>2, <1>3, <2>3, <3>1, <3>2, <3>3, Zenon DEF CoreInv
  <2> QED
    BY <2>2, <2>3
<1>5. OccType'
  BY <1>1, <1>2, <1>3, Zenon DEF OccInv, OccType, GoodTypes
<1>6. TreeInv'
  <2>1. \A k \in DOMAIN Q : S[Q[k]].version = MAX_TID => \E d \in Cores : Q[k] \in txn'[d].locked
    <3> SUFFICES ASSUME NEW k \in DOMAIN Q, S[Q[k]].version = MAX_TID
                 PROVE  \E d \in Cores : Q[k] \in txn'[d].locked
      OBVIOUS
    <3>1. CASE Q[k] \in u.locked
      BY <3>1, <1>2, Zenon
    <3>2. CASE Q[k] \notin u.locked
      <4>1. k \in DOMAIN tree /\ Q[k] = tree[k] /\ tuple[tree[k]].version = MAX_TID
            /\ tree[k] \notin txn[c].locked
        BY <3>2, Zenon DEF GoodIndex
      <4>2. PICK d \in Cores : tree[k] \in txn[d].locked
        BY <4>1, Zenon DEF OccInv, TreeInv
      <4> QED
        BY <4>1, <4>2, <1>2, Zenon
    <3> QED
      BY <3>1, <3>2
  <2> QED
    BY <2>1, Zenon DEF TreeInv, GoodIndex
<1>7. TupleInv'
  <2> SUFFICES ASSUME NEW p \in Tuples
               PROVE  /\ S[p].version = MIN_TID => ~S[p].locked
                      /\ S[p].locked => \E d \in Cores : p \in Private(txn'[d])
                      /\ S[p].version = MAX_TID \/ S[p].version < Limit(tick)
    BY <1>1, Zenon DEF TupleInv
  <2>1. ASSUME S[p].locked PROVE \E d \in Cores : p \in Private(txn'[d])
    <3>1. CASE p \in Private(u)
      BY <3>1, <1>2, Zenon
    <3>2. CASE p \notin Private(u)
      <4>1. tuple[p].locked /\ p \notin Private(txn[c])
        BY <2>1, <3>2, Zenon DEF GoodTuples
      <4>2. PICK d \in Cores : p \in Private(txn[d])
        BY <4>1, Zenon DEF OccInv, TupleInv
      <4> QED
        BY <4>1, <4>2, <1>2, Zenon
    <3> QED
      BY <3>1, <3>2
  <2> QED
    BY <2>1, Zenon DEF GoodTuples
<1>8. Exclusive'
  <2>1. \A d \in Cores : d # c => Private(txn'[c]) \cap Private(txn'[d]) = {}
    BY <1>2, Zenon DEF Apart
  <2>2. \A b, d \in Cores : b # d /\ b # c /\ d # c => Private(txn'[b]) \cap Private(txn'[d]) = {}
    BY <1>2, Zenon DEF OccInv, Exclusive
  <2>3. \A b, d \in Cores : b # d => Private(txn'[b]) \cap Private(txn'[d]) = {}
    BY <2>1, <2>2, Zenon
  <2> QED
    BY <2>3, Zenon DEF Exclusive
<1> QED
  BY <1>4, <1>5, <1>6, <1>7, <1>8, Zenon DEF OccInv

\* Only the tuples X, and the entries of the index that lead or led to them,
\* change.
Changes(X, T, R, S, Q) ==
    /\ \A p \in Tuples : p \notin X => /\ S[p].locked = T[p].locked /\ S[p].intent = T[p].intent
                                       /\ S[p].version = T[p].version /\ S[p].latest = T[p].latest
    /\ \A k \in DOMAIN R : R[k] \notin X => k \in DOMAIN Q /\ Q[k] = R[k]
    /\ \A k \in DOMAIN Q : Q[k] \notin X => k \in DOMAIN R /\ Q[k] = R[k]

\* A transaction does not notice what happens to tuples it does not own.
LEMMA Untouched ==
    ASSUME NEW X, NEW T, NEW R, NEW S, NEW Q, NEW n, NEW t, TxnInv(t, T, R, n),
           Changes(X, T, R, S, Q), \A p \in X : p \notin Private(t)
    PROVE  SameTuples(t, T, S) /\ SameIndex(t, R, Q)
<1>1. TxnType(t) /\ Phase(t) /\ Publisher(t, T, R)
  BY Zenon DEF TxnInv
<1>2. \A p \in Private(t) : p \in Tuples /\ p \notin X
  BY <1>1, Zenon DEF Private, TxnType
<1>3. \A p \in t.locked : p \in Private(t)
  BY <1>1, EntryTypes, Constants, Zenon DEF Private
<1>4. t.pc = "publish2" => t.head \in Private(t)
  <2>1. t.pc = "publish2" => t.pc \in Publishing
    BY DEF Publishing
  <2> QED
    BY <1>1, <2>1, Zenon DEF Phase, Private
<1>5. SameTuples(t, T, S)
  BY <1>2, <1>3, <1>4, Zenon DEF SameTuples, Changes
<1>6. SameIndex(t, R, Q)
  BY <1>2, Zenon DEF SameIndex, Changes
<1> QED
  BY <1>5, <1>6

\* Nobody but core c owns a tuple of X.
Unshared(c, X) == \A d \in Cores : d # c => \A p \in X : p \notin Private(txn[d])

\* A step that changes only the tuples X, which nobody else owns, changes
\* nothing that others own.
LEMMA Elsewhere ==
    ASSUME OccInv, NEW c \in Cores, NEW u, NEW X, NEW S, NEW Q, Changes(X, tuple, tree, S, Q),
           Unshared(c, X), Private(u) \subseteq Private(txn[c]) \cup X
    PROVE  Apart(c, u, S, Q)
<1> SUFFICES ASSUME NEW d \in Cores \ {c}
             PROVE  /\ SameTuples(txn[d], tuple, S) /\ SameIndex(txn[d], tree, Q)
                    /\ Private(u) \cap Private(txn[d]) = {}
  BY Zenon DEF Apart
<1>1. TxnInv(txn[d], tuple, tree, tick) /\ \A p \in X : p \notin Private(txn[d])
  BY CoreFacts, Zenon DEF Unshared
<1>2. SameTuples(txn[d], tuple, S) /\ SameIndex(txn[d], tree, Q)
  BY ONLY <1>1, Changes(X, tuple, tree, S, Q), Untouched, Zenon
<1>3. Private(txn[c]) \cap Private(txn[d]) = {}
  BY Zenon DEF OccInv, Exclusive
<1> QED
  BY <1>1, <1>2, <1>3, Zenon

\* What a transaction owns is in use.
LEMMA OwnUsed ==
    ASSUME OccInv, NEW c \in Cores, NEW p, p \in Private(txn[c])
    PROVE  p \in Tuples /\ tuple[p].version # MIN_TID
<1>1. TxnType(txn[c]) /\ Phase(txn[c]) /\ OwnLocks(txn[c], tuple) /\ OwnNumber(txn[c], tick)
      /\ Publisher(txn[c], tuple, tree)
  BY CoreFacts, Zenon
<1>2. p \in Tuples
  BY <1>1, Zenon DEF Private, TxnType
<1>3. CASE p \in txn[c].locked
  BY <1>1, <1>2, <1>3, Zenon DEF OwnLocks, OccInv, TupleInv
<1>4. CASE p = txn[c].head
  <2>1. p # NoTuple
    BY Zenon DEF Private
  <2>2. txn[c].pc \in Publishing
    BY <2>1, <1>1, <1>4, Zenon DEF Phase
  <2>3. txn[c].pc \in (Holding \ {"gen"}) \cup Writing /\ txn[c].pc \in Writing \ {"write"}
    BY <2>2 DEF Writing, Publishing, Holding
  <2>4. Numbered(txn[c])
    BY <2>3, <1>1, Zenon DEF Phase, Numbered
  <2> QED
    BY <2>2, <2>4, <1>1, <1>2, <1>4, Zenon DEF Publisher, OwnNumber, MIN_TID
<1> QED
  BY <1>3, <1>4, Zenon DEF Private

\* An unlocked tuple is nobody's if it is the tuple of its key as long as it is
\* the newest version.
LEMMA Free ==
    ASSUME OccInv, NEW d \in Cores, NEW p, ~tuple[p].locked,
           tuple[p].latest => \E k \in DOMAIN tree : tree[k] = p
    PROVE  p \notin Private(txn[d])
<1>1. Phase(txn[d]) /\ OwnLocks(txn[d], tuple) /\ Publisher(txn[d], tuple, tree)
  BY CoreFacts, Zenon
<1>2. p \notin txn[d].locked
  BY <1>1, Zenon DEF OwnLocks
<1>3. ASSUME p = txn[d].head, p # NoTuple PROVE FALSE
  <2>1. txn[d].pc \in Publishing
    BY <1>1, <1>3, Zenon DEF Phase
  <2>2. txn[d].pc = "publish" \/ txn[d].pc = "publish2"
    BY <2>1 DEF Publishing
  <2> QED
    BY <1>1, <1>3, <2>1, <2>2, Zenon DEF Publisher
<1> QED
  BY <1>2, <1>3, Zenon DEF Private

\* A guard stays what it is for a transaction that goes on.
LEMMA StillGuarded ==
    ASSUME NEW g, NEW n, NEW m, NEW t, NEW u, Guarded(g, t, n, m),
           t.pc \notin {"idle", "post", "clean"}, u.pc \notin {"idle", "post", "clean"},
           u.ctid = t.ctid, u.snap = t.snap, u.stid = t.stid
    PROVE  Guarded(g, u, n, m)
  BY Zenon DEF Guarded

\* A step that leaves the queue alone.
LEMMA DbQuiet ==
    ASSUME OccInv, NEW c \in Cores, NEW u, NEW S, NEW Q,
           tuple' = S, tree' = Q, txn' = [txn EXCEPT ![c] = u],
           UNCHANGED <<prog, queue, lastTid, clockvars>>,
           TxnInv(u, S, Q, tick), Guarded(guard[c], u, tick, done),
           StillRooted(tuple, tree, S, Q), Apart(c, u, S, Q), GoodTypes(S, Q),
           GoodIndex(tuple, tree, S, Q, txn[c], u), GoodTuples(tuple, S, txn[c], u, tick)
    PROVE  OccInv'
<1>1. queue[c] \in Seq(GcEntry) /\ GcRooted(queue[c], tuple, tree)
      /\ queue' = [queue EXCEPT ![c] = queue[c]]
  BY TypeFacts, CoreFacts, Zenon
<1>2. GcRooted(queue[c], S, Q)
  BY <1>1, GcFrame, Zenon
<1>3. UNCHANGED <<prog, lastTid, clockvars>>
  BY Zenon
<1> QED
  BY <1>1, <1>2, <1>3, DbStep, Zenon

\* What a step that leaves the index alone may do to the tuples X.
Proper(X, T, S, t, u, n) ==
    /\ X \subseteq Tuples /\ S \in [Tuples -> TupleRec]
    /\ Private(u) \subseteq Private(t) \cup X /\ Private(t) \subseteq Private(u) \cup X
    /\ t.locked \subseteq u.locked \cup X
    /\ \A p \in X : /\ T[p].version # MIN_TID =>
                         S[p].version # MIN_TID /\ (S[p].latest => T[p].latest)
                    /\ S[p].version = MIN_TID => ~S[p].locked
                    /\ S[p].version = MAX_TID =>
                         T[p].version = MAX_TID /\ (p \in u.locked \/ p \notin t.locked)
                    /\ S[p].locked => p \in Private(u)
                    /\ S[p].version = MAX_TID \/ S[p].version < Limit(n)

\* A step that leaves the index alone and changes only tuples nobody else owns
\* keeps index and tuples in order.
LEMMA SameTree ==
    ASSUME OccInv, NEW c \in Cores, NEW t, t = txn[c], NEW u, NEW X, NEW S,
           Changes(X, tuple, tree, S, tree), Proper(X, tuple, S, t, u, tick),
           Unshared(c, X)
    PROVE  /\ StillRooted(tuple, tree, S, tree) /\ Apart(c, u, S, tree) /\ GoodTypes(S, tree)
           /\ GoodIndex(tuple, tree, S, tree, t, u) /\ GoodTuples(tuple, S, t, u, tick)
<1>1. \A p \in Tuples : p \notin X => /\ S[p].locked = tuple[p].locked
                                      /\ S[p].version = tuple[p].version /\ S[p].latest = tuple[p].latest
  BY Zenon DEF Changes
<1>2. StillRooted(tuple, tree, S, tree)
  <2>1. \A p \in Tuples : tuple[p].version # MIN_TID =>
              S[p].version # MIN_TID /\ (S[p].latest => tuple[p].latest)
    <3> TAKE p \in Tuples
    <3>1. CASE p \in X
      BY <3>1, Zenon DEF Proper
    <3>2. CASE p \notin X
      BY <1>1, <3>2, Zenon
    <3> QED
      BY <3>1, <3>2
  <2> QED
    BY ONLY <2>1, Zenon DEF StillRooted, Rooted
<1>3. Apart(c, u, S, tree)
  <2>1. Private(u) \subseteq Private(txn[c]) \cup X
    BY Zenon DEF Proper
  <2> QED
    BY ONLY OccInv, c \in Cores, Changes(X, tuple, tree, S, tree), Unshared(c, X), <2>1, Elsewhere, Zenon
<1>4. GoodTypes(S, tree)
  BY DbFacts, Zenon DEF GoodTypes, Proper
<1>5. GoodIndex(tuple, tree, S, tree, t, u)
  <2>1. \A k \in DOMAIN tree :
           /\ S[tree[k]].version # MIN_TID
           /\ S[tree[k]].version = MAX_TID =>
                tuple[tree[k]].version = MAX_TID /\ (tree[k] \in u.locked \/ tree[k] \notin t.locked)
    <3> SUFFICES ASSUME NEW k \in DOMAIN tree, NEW p, p = tree[k]
                 PROVE  /\ S[p].version # MIN_TID
                        /\ S[p].version = MAX_TID =>
                             tuple[p].version = MAX_TID /\ (p \in u.locked \/ p \notin t.locked)
      BY Zenon
    <3>1. p \in Tuples /\ tuple[p].version # MIN_TID
      BY DbFacts, Zenon
    <3>2. CASE p \in X
      BY <3>1, <3>2, Zenon DEF Proper
    <3>3. CASE p \notin X
      <4>1. S[p].version = tuple[p].version
        BY <1>1, <3>1, <3>3, Zenon
      <4>2. p \in u.locked \/ p \notin t.locked
        BY <3>3, Zenon DEF Proper
      <4> QED
        BY ONLY <3>1, <4>1, <4>2, Zenon
    <3> QED
      BY <3>2, <3>3
  <2>2. \A j, k \in DOMAIN tree : tree[j] = tree[k] => j = k
    BY DbFacts, Zenon
  <2> QED
    BY ONLY <2>1, <2>2, Zenon DEF GoodIndex
<1>6. GoodTuples(tuple, S, t, u, tick)
  <2> SUFFICES ASSUME NEW p \in Tuples
               PROVE  /\ S[p].version = MIN_TID => ~S[p].locked
                      /\ S[p].locked => p \in Private(u) \/ (tuple[p].locked /\ p \notin Private(t))
                      /\ S[p].version = MAX_TID \/ S[p].version < Limit(tick)
    BY Zenon DEF GoodTuples
  <2>1. CASE p \in X
    BY <2>1, Zenon DEF Proper
  <2>2. CASE p \notin X
    <3>1. /\ tuple[p].version = MIN_TID => ~tuple[p].locked
          /\ tuple[p].version = MAX_TID \/ tuple[p].version < Limit(tick)
      BY DbFacts, Zenon
    <3>2. p \in Private(u) \/ p \notin Private(t)
      BY <2>2, Zenon DEF Proper
    <3>3. S[p].locked = tuple[p].locked /\ S[p].version = tuple[p].version
      BY <1>1, <2>2, Zenon
    <3> QED
      BY ONLY <3>1, <3>2, <3>3, Zenon
  <2> QED
    BY <2>1, <2>2
<1> QED
  BY <1>2, <1>3, <1>4, <1>5, <1>6

\* A step of a running transaction that leaves the index and the queue alone.
LEMMA TupleStep ==
    ASSUME OccInv, NEW c \in Cores, NEW t, t = txn[c], NEW u, NEW X, NEW S,
           Changes(X, tuple, tree, S, tree), Proper(X, tuple, S, t, u, tick),
           Unshared(c, X),
           TxnInv(u, S, tree, tick),
           t.pc \notin {"idle", "post", "clean"}, u.pc \notin {"idle", "post", "clean"},
           u.ctid = t.ctid, u.snap = t.snap, u.stid = t.stid,
           txn' = [txn EXCEPT ![c] = u], tuple' = S, tree' = tree,
           UNCHANGED <<prog, queue, lastTid, clockvars>>
    PROVE  OccInv'
<1>1. /\ StillRooted(tuple, tree, S, tree) /\ Apart(c, u, S, tree) /\ GoodTypes(S, tree)
      /\ GoodIndex(tuple, tree, S, tree, t, u) /\ GoodTuples(tuple, S, t, u, tick)
  BY ONLY OccInv, c \in Cores, t = txn[c], Changes(X, tuple, tree, S, tree), Proper(X, tuple, S, t, u, tick),
          Unshared(c, X), SameTree, Zenon
<1>2. Guarded(guard[c], u, tick, done)
  <2>1. Guarded(guard[c], t, tick, done)
    BY CoreFacts, Zenon
  <2> QED
    BY <2>1, StillGuarded, Zenon
<1> QED
  BY <1>1, <1>2, DbQuiet, Zenon

\* Changes holds by the tuples that stay the same, as the index does.
LEMMA OnlyThese ==
    ASSUME NEW X, NEW T, NEW R, NEW S, \A q \in Tuples : q \notin X => S[q] = T[q]
    PROVE  Changes(X, T, R, S, R)
  BY Zenon DEF Changes

\* Nobody else owns a tuple of the core, or one not in use.
LEMMA OwnUnshared ==
    ASSUME OccInv, NEW c \in Cores, NEW X, \A p \in X : p \in Private(txn[c]) \/ tuple[p].version = MIN_TID
    PROVE  Unshared(c, X)
<1> SUFFICES ASSUME NEW d \in Cores, d # c, NEW p \in X PROVE p \notin Private(txn[d])
  BY Zenon DEF Unshared
<1>1. CASE p \in Private(txn[c])
  BY <1>1, Zenon DEF OccInv, Exclusive
<1>2. CASE tuple[p].version = MIN_TID
  BY <1>2, OwnUsed, Zenon
<1> QED
  BY <1>1, <1>2, Zenon

\* Of the tuples only the lock of p changes.
Relocks(p, T, S) ==
    /\ S \in [Tuples -> TupleRec] /\ \A q \in Tuples : q \notin {p} => S[q] = T[q]
    /\ S[p].version = T[p].version /\ S[p].latest = T[p].latest

\* Locking or unlocking a tuple is no matter to a transaction that does not own
\* it.
LEMMA Relocked ==
    ASSUME NEW T, NEW R, NEW S, NEW n, NEW t, NEW p, TxnInv(t, T, R, n), Relocks(p, T, S),
           p \notin Private(t)
    PROVE  TxnInv(t, S, R, n) /\ Changes({p}, T, R, S, R)
<1>1. Changes({p}, T, R, S, R)
  BY OnlyThese, Zenon DEF Relocks
<1>2. StillRooted(T, R, S, R)
  <2>1. \A q \in Tuples : S[q].version = T[q].version /\ S[q].latest = T[q].latest
    BY Zenon DEF Relocks
  <2> QED
    BY <2>1, Zenon DEF StillRooted, Rooted
<1>3. SameTuples(t, T, S) /\ SameIndex(t, R, R)
  <2>1. \A q \in {p} : q \notin Private(t)
    BY Zenon
  <2> QED
    BY ONLY <1>1, <2>1, TxnInv(t, T, R, n), Untouched
<1> QED
  BY ONLY <1>1, <1>2, <1>3, TxnInv(t, T, R, n), Frame, Zenon

\* A lock that is taken or given back with its transaction's knowledge is in
\* order.
LEMMA RelockProper ==
    ASSUME OccInv, NEW p \in Tuples, NEW S, Relocks(p, tuple, S), NEW t, NEW u,
           tuple[p].version # MAX_TID, tuple[p].version # MIN_TID,
           Private(u) \subseteq Private(t) \cup {p}, Private(t) \subseteq Private(u) \cup {p},
           t.locked \subseteq u.locked \cup {p}, S[p].locked => p \in Private(u)
    PROVE  Proper({p}, tuple, S, t, u, tick)
<1>1. tuple[p].version < Limit(tick)
  BY DbFacts, Zenon
<1>2. S \in [Tuples -> TupleRec] /\ S[p].version = tuple[p].version /\ S[p].latest = tuple[p].latest
  BY Zenon DEF Relocks
<1>3. {p} \subseteq Tuples
  BY Zenon
<1>4. \A q \in {p} : /\ tuple[q].version # MIN_TID =>
                         S[q].version # MIN_TID /\ (S[q].latest => tuple[q].latest)
                     /\ S[q].version = MIN_TID => ~S[q].locked
                     /\ S[q].version = MAX_TID =>
                          tuple[q].version = MAX_TID /\ (q \in u.locked \/ q \notin t.locked)
                     /\ S[q].locked => q \in Private(u)
                     /\ S[q].version = MAX_TID \/ S[q].version < Limit(tick)
  BY ONLY <1>1, <1>2, tuple[p].version # MAX_TID, tuple[p].version # MIN_TID, S[p].locked => p \in Private(u), Zenon
<1> QED
  BY ONLY <1>2, <1>3, <1>4, Private(u) \subseteq Private(t) \cup {p}, Private(t) \subseteq Private(u) \cup {p},
          t.locked \subseteq u.locked \cup {p}, Zenon DEF Proper

\* lock() and unlock() of p.
LEMMA Relocking ==
    ASSUME OccInv, NEW p \in Tuples, NEW S
    PROVE  /\ S = [tuple EXCEPT ![p] = unlock(@)] => Relocks(p, tuple, S) /\ ~S[p].locked
           /\ S = [tuple EXCEPT ![p] = lock(@, TRUE)] =>
                Relocks(p, tuple, S) /\ S[p].locked /\ S[p].intent
<1>1. tuple \in [Tuples -> TupleRec] /\ tuple[p] \in TupleRec
  BY DbFacts, Zenon
<1>2. /\ unlock(tuple[p]) \in TupleRec /\ ~unlock(tuple[p]).locked
      /\ unlock(tuple[p]).version = tuple[p].version /\ unlock(tuple[p]).latest = tuple[p].latest
      /\ lock(tuple[p], TRUE) \in TupleRec /\ lock(tuple[p], TRUE).locked /\ lock(tuple[p], TRUE).intent
      /\ lock(tuple[p], TRUE).version = tuple[p].version /\ lock(tuple[p], TRUE).latest = tuple[p].latest
  BY ONLY <1>1, TupleOps, Zenon
<1>3. ASSUME NEW d \in TupleRec, S = [tuple EXCEPT ![p] = d]
      PROVE  S \in [Tuples -> TupleRec] /\ S[p] = d /\ \A q \in Tuples : q \notin {p} => S[q] = tuple[q]
  BY <1>1, <1>3, Zenon
<1> QED
  BY <1>2, <1>3, Zenon DEF Relocks

\* The transaction with one more lock of its list.
LockTo(t, p) ==
    [t EXCEPT !.infos = Tail(@), !.pc = IF Len(t.infos) = 1 THEN "gen" ELSE "lock",
              !.locked = @ \cup {p}]

\* The locking of the write set keeps the invariant.
LEMMA LockActions ==
    ASSUME Sorting, OccInv
    PROVE  \A c \in Cores : handle_last_tuple_in_group(c) => OccInv'
  \* The elements of a list are its head and those of its tail.
<1>SeqRest.
      ASSUME NEW S, NEW s \in Seq(S), s # <<>>
      PROVE  /\ At(s) = {s[1]} \cup At(Tail(s))
             /\ Len(s) = 1 <=> Tail(s) = <<>>
             /\ Tail(s) = <<>> => At(Tail(s)) = {}
  <2> USE <1>SeqRest
  <2> DEFINE n == Len(s)  u == Tail(s)
  <2>1. /\ n \in Nat /\ n > 0 /\ DOMAIN s = 1 .. n /\ u \in Seq(S) /\ Len(u) = n - 1
        /\ DOMAIN u = 1 .. (n - 1) /\ \A i \in DOMAIN u : u[i] = s[i + 1]
    BY SeqHead, Zenon
  <2>2. Len(u) = 0 <=> u = <<>>
    BY <2>1, SeqLen, Zenon
  <2> HIDE DEF n, u
  <2>3. \A i \in DOMAIN s : i = 1 \/ (i - 1 \in DOMAIN u /\ s[i] = u[i - 1])
    BY ONLY <2>1
  <2>4. \A i \in DOMAIN u : i + 1 \in DOMAIN s /\ u[i] = s[i + 1]
    BY ONLY <2>1
  <2>5. 1 \in DOMAIN s
    BY ONLY <2>1
  <2>6. At(s) = {s[1]} \cup At(u)
    BY ONLY <2>3, <2>4, <2>5 DEF At
  <2>7. n = 1 <=> u = <<>>
    BY ONLY <2>1, <2>2
  <2>8. u = <<>> => At(u) = {}
    BY DEF At
  <2> QED
    BY <2>6, <2>7, <2>8 DEF n, u
  \* One more tuple of the list is locked; nothing is to be done for an insert.
<1>LockStep.
      ASSUME NEW T, NEW R, NEW n, NEW t, NEW u, NEW p, TxnInv(t, T, R, n), t.pc = "lock",
             p = t.infos[1], T[p].locked, T[p].intent, T[p].latest,
             T[p].version = MAX_TID <=> p \in Inserts(t),
             u.infos = Tail(t.infos), u.pc = IF Len(t.infos) = 1 THEN "gen" ELSE "lock",
             u.locked = t.locked \cup {p}, u.wset = t.wset, u.ctid = t.ctid, u.head = t.head,
             u.snap = t.snap, u.scratch = t.scratch, u.rset = t.rset, u.tid = t.tid, TxnType(u)
      PROVE  TxnInv(u, T, R, n)
  <2> USE <1>LockStep
  <2>1. /\ TxnType(t) /\ Phase(t) /\ OwnLocks(t, T) /\ OwnWrites(t, T, R) /\ OwnNumber(t, n)
        /\ GcRooted(t.scratch, T, R) /\ Reader(t, n)
    BY Zenon DEF TxnInv
  <2>2. Inserts(u) = Inserts(t) /\ WrittenTuples(u) = WrittenTuples(t)
    BY SameWrites, Zenon
  <2>3. /\ t.infos # <<>> /\ t.head = NoTuple /\ (t.snap => t.wset = <<>>)
        /\ Inserts(t) \subseteq t.locked /\ t.locked \cup At(t.infos) \subseteq WrittenTuples(t)
        /\ WrittenTuples(t) \subseteq t.locked \cup At(t.infos)
        /\ \A i, j \in DOMAIN t.wset :
             (i # j /\ t.wset[i].tuple = t.wset[j].tuple) => ~(t.wset[i].insert /\ t.wset[j].insert)
    <3>1. t.pc \notin Publishing
      BY DEF Publishing
    <3> QED
      BY <2>1, <3>1, Zenon DEF Phase
  <2>4. /\ At(t.infos) = {p} \cup At(u.infos)
        /\ Len(t.infos) = 1 <=> u.infos = <<>>
        /\ u.infos = <<>> => At(u.infos) = {}
    <3>1. t.infos \in Seq(Tuples)
      BY <2>1, Zenon DEF TxnType
    <3> QED
      BY <2>3, <3>1, <1>SeqRest, Zenon
  <2>5. u.pc \in {"gen", "lock"} /\ (u.pc = "gen" <=> u.infos = <<>>)
    BY <2>4
  <2>6. /\ u.pc \notin Reading /\ u.pc \notin Writing /\ u.pc \notin Calm
        /\ u.pc \notin {"undo"} \cup Writing /\ u.pc \notin Writing \ {"write"} /\ u.pc \notin Publishing
        /\ u.pc \notin Publishing \cup {"write", "write2"} /\ t.pc \notin Writing
        /\ u.pc \notin (Holding \ {"gen"}) \cup Writing /\ t.pc \in {"lock"} \cup Holding
        /\ u.pc \in Holding => u.pc = "gen"
    BY <2>5 DEF Reading, Holding, Writing, Publishing, Calm
  <2>7. /\ Inserts(t) \subseteq u.locked /\ u.locked \cup At(u.infos) \subseteq WrittenTuples(t)
        /\ WrittenTuples(t) \subseteq u.locked \cup At(u.infos)
        /\ u.infos = <<>> => u.locked = WrittenTuples(t)
    BY <2>3, <2>4, Zenon
  <2>8. Phase(u)
    <3>1. NoTuple \notin u.locked
      BY Constants, Zenon DEF TxnType
    <3>2. /\ u.pc = "lock" => /\ u.infos # <<>> /\ Inserts(u) \subseteq u.locked
                              /\ u.locked \cup At(u.infos) \subseteq WrittenTuples(u)
                              /\ WrittenTuples(u) \subseteq u.locked \cup At(u.infos)
          /\ u.pc \in Holding => u.locked = WrittenTuples(u)
      BY <2>2, <2>5, <2>6, <2>7, Zenon
    <3>3. /\ u.head = NoTuple /\ u.head \notin u.locked /\ (u.snap => u.wset = <<>>)
          /\ \A i, j \in DOMAIN u.wset :
               (i # j /\ u.wset[i].tuple = u.wset[j].tuple) => ~(u.wset[i].insert /\ u.wset[j].insert)
      BY <2>3, <3>1, Zenon
    <3> QED
      BY ONLY <2>6, <3>2, <3>3, Zenon DEF Phase
  <2>9. OwnLocks(u, T)
    <3>1. /\ \A q \in t.locked : /\ T[q].locked /\ T[q].intent /\ T[q].latest
                                 /\ T[q].version = MAX_TID => q \in Inserts(t)
                                 /\ q \in Inserts(t) => T[q].version = MAX_TID
      BY ONLY <2>1, <2>6, Zenon DEF OwnLocks
    <3>2. \A q \in u.locked : q \in t.locked \/ q = p
      BY Zenon
    <3> QED
      BY <2>2, <3>1, <3>2, Zenon DEF OwnLocks
  <2>10. OwnWrites(u, T, R)
    BY <2>1, <2>6, Zenon DEF OwnWrites, Numbered
  <2>11. OwnNumber(u, n) /\ Publisher(u, T, R) /\ GcRooted(u.scratch, T, R) /\ Reader(u, n)
    BY <2>1, <2>6, Zenon DEF OwnNumber, Publisher, Reader, Numbered
  <2> QED
    BY <2>8, <2>9, <2>10, <2>11, Zenon DEF TxnInv
  \* The tuples a transaction has inserted are locked already.
<1>LockedAction.
      ASSUME OccInv, NEW c \in Cores, NEW t, t = txn[c], t.pc = "lock", t.infos[1] \in Inserts(t),
             NEW u, txn' = [txn EXCEPT ![c] = u], NEW l, l = IF Len(t.infos) = 1 THEN "gen" ELSE "lock",
             u = [t EXCEPT !.infos = Tail(@), !.pc = l],
             UNCHANGED <<prog, dbvars, gcvars, lastTid, clockvars>>
      PROVE  OccInv'
  <2> USE <1>LockedAction
  <2>1. TxnInv(t, tuple, tree, tick) /\ TxnType(t) /\ Shaped(t) /\ Phase(t) /\ OwnLocks(t, tuple)
    BY CoreFacts, Zenon
  <2>2. Shaped(u)
    BY ONLY <2>1, u = [t EXCEPT !.infos = Tail(@), !.pc = l], Zenon DEF Shaped
  <2>3. /\ u.pc = l /\ u.ops = t.ops /\ u.infos = Tail(t.infos) /\ u.snap = t.snap /\ u.stid = t.stid
        /\ u.cur = t.cur /\ u.tid = t.tid /\ u.rset = t.rset /\ u.wset = t.wset
        /\ u.locked = t.locked /\ u.ctid = t.ctid /\ u.rest = t.rest /\ u.head = t.head
        /\ u.scratch = t.scratch
    BY ONLY <2>1, u = [t EXCEPT !.infos = Tail(@), !.pc = l] DEF Shaped
  <2>4. /\ l \in Reading \cup {"undo", "lock"} \cup Holding \cup Writing \cup Calm
        /\ l \notin {"version", "value"} /\ l \notin {"idle", "post", "clean"}
        /\ t.pc \notin {"idle", "post", "clean"} /\ t.pc \notin Writing
    BY DEF Holding, Writing, Publishing
  <2>5. t.infos # <<>> /\ Tail(t.infos) \in Seq(Tuples) /\ t.infos[1] \in t.locked
    <3>1. t.infos # <<>> /\ t.infos \in Seq(Tuples) /\ t.infos[1] \in t.locked
      BY <2>1, Zenon DEF Phase, TxnType
    <3> QED
      BY ONLY <3>1, SeqHead, Zenon
  <2>6. TxnType(u)
    BY ONLY <2>1, <2>2, <2>3, <2>4, <2>5, Zenon DEF TxnType
  <2>7. /\ tuple[t.infos[1]].locked /\ tuple[t.infos[1]].intent /\ tuple[t.infos[1]].latest
        /\ tuple[t.infos[1]].version = MAX_TID
    BY <2>1, <2>4, <2>5, Zenon DEF OwnLocks
  <2>8. u.locked = t.locked \cup {t.infos[1]}
    BY <2>3, <2>5, Zenon
  <2>9. TxnInv(u, tuple, tree, tick)
    <3>1. u.pc = IF Len(t.infos) = 1 THEN "gen" ELSE "lock"
      BY <2>3, Zenon
    <3>2. tuple[t.infos[1]].version = MAX_TID <=> t.infos[1] \in Inserts(t)
      BY <2>7, Zenon
    <3>3. t.pc = "lock"
      OBVIOUS
    <3> QED
      BY ONLY <2>1, <2>3, <2>6, <2>7, <2>8, <3>1, <3>2, <3>3, <1>LockStep
  <2>10. Continues(t, u)
    <3>1. Private(u) = Private(t)
      BY ONLY <2>3, SamePrivate, Zenon
    <3> QED
      BY ONLY <2>3, <2>4, <3>1, Zenon DEF Continues
  <2> QED
    BY <2>4, <2>9, <2>10, QuietStep, Zenon
  \* The fields of a transaction that has locked one more tuple.
<1>LockToFacts.
      ASSUME NEW t, NEW l, NEW p \in Tuples, TxnType(t), t.infos # <<>>, l = LockTo(t, p)
      PROVE  /\ l.infos = Tail(t.infos) /\ l.pc = (IF Len(t.infos) = 1 THEN "gen" ELSE "lock")
             /\ l.locked = t.locked \cup {p} /\ l.wset = t.wset /\ l.ctid = t.ctid /\ l.head = t.head
             /\ l.snap = t.snap /\ l.stid = t.stid /\ l.scratch = t.scratch /\ l.rset = t.rset
             /\ l.tid = t.tid /\ TxnType(l)
  <2> USE <1>LockToFacts
  <2>1. Shaped(t) /\ t.infos \in Seq(Tuples)
    BY Zenon DEF TxnType
  <2>2. /\ l.infos = Tail(t.infos) /\ l.pc = (IF Len(t.infos) = 1 THEN "gen" ELSE "lock")
        /\ l.locked = t.locked \cup {p} /\ l.wset = t.wset /\ l.ctid = t.ctid /\ l.head = t.head
        /\ l.snap = t.snap /\ l.stid = t.stid /\ l.scratch = t.scratch /\ l.rset = t.rset
        /\ l.tid = t.tid /\ l.ops = t.ops /\ l.cur = t.cur /\ l.rest = t.rest
    BY ONLY <2>1, l = LockTo(t, p) DEF Shaped, LockTo
  <2>3. Shaped(l)
    BY ONLY <2>1, l = LockTo(t, p), Zenon DEF Shaped, LockTo
  <2>4. Tail(t.infos) \in Seq(Tuples)
    BY <2>1, SeqHead, Zenon
  <2>5. t.locked \cup {p} \in SUBSET Tuples
    BY Zenon DEF TxnType
  <2>6. l.pc \in Reading \cup {"undo", "lock"} \cup Holding \cup Writing \cup Calm /\ l.pc \notin {"version", "value"}
    BY ONLY <2>2 DEF Holding
  <2>7. TxnType(l)
    BY ONLY <2>2, <2>3, <2>4, <2>5, <2>6, TxnType(t), Zenon DEF TxnType
  <2> QED
    BY <2>2, <2>7
  \* A transaction that has locked one more tuple may still give up.
<1>MayUndoMore.
      ASSUME NEW T, NEW R, NEW n, NEW t, NEW l, NEW p, MayUndo(t, T, R, n), TxnType(l), l.pc \notin Writing,
             T[p].locked, T[p].intent, T[p].version # MAX_TID, p \notin Inserts(t),
             l.locked = t.locked \cup {p}, l.wset = t.wset, l.ctid = t.ctid, l.head = t.head,
             l.snap = t.snap, l.scratch = t.scratch, l.rset = t.rset, l.tid = t.tid
      PROVE  MayUndo(l, T, R, n)
  <2> USE <1>MayUndoMore
  <2>1. Inserts(l) = Inserts(t)
    BY SameWrites, Zenon
  <2>2. Reader(l, n)
    <3>1. Reader(t, n)
      BY Zenon DEF MayUndo
    <3> QED
      BY <3>1, Zenon DEF Reader
  <2>3. \A q \in l.locked : /\ T[q].locked /\ T[q].intent
                            /\ T[q].version = MAX_TID => q \in Inserts(l)
                            /\ q \in Inserts(l) => T[q].version = MAX_TID /\ T[q].latest
    BY <2>1, Zenon DEF MayUndo
  <2> QED
    BY <2>2, <2>3, Zenon DEF MayUndo
  \* A tuple is locked by the transaction that is to write it, which becomes l;
  \* it gives up if the tuple is not the newest of its record.
<1>TakeAction.
      ASSUME Sorting, OccInv, NEW c \in Cores, NEW t, t = txn[c], t.pc = "lock", NEW p, p = t.infos[1],
             p \notin Inserts(t), tuple[p].version # MAX_TID, ~tuple[p].locked,
             NEW l, l = LockTo(t, p),
             NEW u, u = IF tuple[p].latest THEN l ELSE DoAbort(l), txn' = [txn EXCEPT ![c] = u],
             NEW S, S = [tuple EXCEPT ![p] = lock(@, TRUE)], tuple' = S,
             UNCHANGED <<tree, prog, queue, lastTid, clockvars>>
      PROVE  OccInv'
  <2> USE <1>TakeAction
  <2>1. /\ TxnInv(t, tuple, tree, tick) /\ TxnType(t) /\ Phase(t) /\ OwnLocks(t, tuple)
        /\ OwnWrites(t, tuple, tree)
    BY CoreFacts, Zenon
  <2>2. t.pc \notin Writing /\ t.pc \notin Publishing /\ t.pc \notin {"idle", "post", "clean"}
        /\ t.pc \in Reading \cup {"lock"} \cup Holding
    BY DEF Writing, Publishing
  <2>3. /\ t.infos # <<>> /\ t.infos \in Seq(Tuples) /\ t.head = NoTuple
        /\ t.locked \cup At(t.infos) \subseteq WrittenTuples(t)
    BY <2>1, <2>2, Zenon DEF Phase, TxnType
  <2>4. p \in WrittenTuples(t) /\ p \in Tuples
    <3>1. 1 \in DOMAIN t.infos /\ p \in Tuples
      BY <2>3, SeqHead, Zenon
    <3>2. p \in At(t.infos)
      BY <3>1, Zenon DEF At
    <3> QED
      BY <2>3, <3>1, <3>2, Zenon
  <2>5. /\ l.infos = Tail(t.infos) /\ l.pc = (IF Len(t.infos) = 1 THEN "gen" ELSE "lock")
         /\ l.locked = t.locked \cup {p} /\ l.wset = t.wset /\ l.ctid = t.ctid /\ l.head = t.head
         /\ l.snap = t.snap /\ l.stid = t.stid /\ l.scratch = t.scratch /\ l.rset = t.rset
         /\ l.tid = t.tid /\ TxnType(l)
    BY ONLY <2>1, <2>3, <2>4, l = LockTo(t, p), <1>LockToFacts
  <2>6. l.pc \notin Writing /\ l.pc \notin {"idle", "post", "clean"}
    BY ONLY <2>5 DEF Writing, Publishing
  <2>7. tuple[p].version # MIN_TID /\ (tuple[p].latest => \E k \in DOMAIN tree : tree[k] = p)
    <3>1. PICK i \in DOMAIN t.wset : t.wset[i].tuple = p
      BY <2>4, Zenon DEF WrittenTuples
    <3>2. tuple[p].version # MIN_TID /\ Rooted(p, t.wset[i].key, tuple, tree)
      BY <2>1, <3>1, Zenon DEF OwnWrites
    <3> QED
      BY <3>2, Zenon DEF Rooted
  <2>8. \A d \in Cores : p \notin Private(txn[d])
    BY ONLY OccInv, ~tuple[p].locked, <2>7, Free, Zenon
  <2>9. Unshared(c, {p}) /\ p \notin Private(t)
    BY ONLY <2>8, t = txn[c], c \in Cores, Zenon DEF Unshared
  <2>10. Relocks(p, tuple, S) /\ S[p].locked /\ S[p].intent /\ S[p].version # MAX_TID
        /\ S[p].latest = tuple[p].latest
    <3>1. Relocks(p, tuple, S) /\ S[p].locked /\ S[p].intent
      BY <2>4, Relocking, Zenon
    <3> QED
      BY <3>1, Zenon DEF Relocks
  <2>11. TxnInv(t, S, tree, tick) /\ Changes({p}, tuple, tree, S, tree)
    BY ONLY <2>1, <2>9, <2>10, Relocked, Zenon
  <2>12. TxnInv(u, S, tree, tick) /\ u.locked = l.locked /\ Private(u) = Private(l)
         /\ u.ctid = l.ctid /\ u.snap = l.snap /\ u.stid = l.stid /\ u.pc \notin {"idle", "post", "clean"}
    <3>1. CASE tuple[p].latest
      <4>1. u = l
        BY <3>1, Zenon
      <4>2. S[p].latest /\ (S[p].version = MAX_TID <=> p \in Inserts(t))
        BY ONLY <2>10, <3>1, p \notin Inserts(t), Zenon
      <4>3. TxnInv(l, S, tree, tick)
        BY ONLY <2>10, <2>11, <4>2, <2>5, t.pc = "lock", p = t.infos[1], <1>LockStep
      <4> QED
        BY ONLY <2>6, <4>1, <4>3, Zenon
    <3>2. CASE ~tuple[p].latest
      <4>1. u = DoAbort(l)
        BY <3>2, Zenon
      <4>2. MayUndo(t, S, tree, tick)
        BY ONLY <2>2, <2>11, MayUndoAll, Zenon
      <4>3. MayUndo(l, S, tree, tick)
        BY ONLY <2>10, <2>5, <2>6, <4>2, p \notin Inserts(t), <1>MayUndoMore, Zenon
      <4>4. l.locked \subseteq WrittenTuples(l)
        <5>1. WrittenTuples(l) = WrittenTuples(t)
          BY ONLY <2>5, SameWrites, Zenon
        <5> QED
          BY ONLY <2>3, <2>4, <2>5, <5>1, Zenon
      <4>5. TxnInv(u, S, tree, tick) /\ Continues(l, u)
        BY ONLY Sorting, <4>1, <4>3, <4>4, DoAbortStep, Zenon
      <4> QED
        BY <4>5, Zenon DEF Continues
    <3> QED
      BY <3>1, <3>2, Zenon
  <2>13. Private(l) = Private(t) \cup {p}
    <3>1. p # NoTuple
      BY ONLY <2>4, Constants, Zenon
    <3> QED
      BY ONLY <2>5, <3>1, Zenon DEF Private
  <2>14. Proper({p}, tuple, S, t, u, tick)
    <3>1. /\ Private(u) \subseteq Private(t) \cup {p} /\ Private(t) \subseteq Private(u) \cup {p}
          /\ p \in Private(u)
      BY ONLY <2>12, <2>13, Zenon
    <3>2. t.locked \subseteq u.locked \cup {p}
      BY ONLY <2>12, <2>5, Zenon
    <3> QED
      BY ONLY OccInv, <2>4, <2>7, <2>10, tuple[p].version # MAX_TID, <3>1, <3>2, RelockProper, Zenon
  <2>15. u.ctid = t.ctid /\ u.snap = t.snap /\ u.stid = t.stid
    BY ONLY <2>12, <2>5, Zenon
  <2> QED
    BY <2>2, <2>9, <2>11, <2>12, <2>14, <2>15, TupleStep, Zenon
  \* handle_last_tuple_in_group keeps the invariant, whether it locks, gives up
  \* or passes by its own insert.
<1>LockAction.
      ASSUME Sorting, OccInv, NEW c \in Cores, NEW t, t = txn[c], handle_last_tuple_in_group(c)
      PROVE  OccInv'
  <2> USE <1>LockAction
  <2>1. TxnInv(t, tuple, tree, tick) /\ TxnType(t) /\ Phase(t) /\ t.infos \in Seq(Tuples) /\ Shaped(t)
    BY CoreFacts, Zenon DEF TxnType
  <2>2. t.pc = "lock" /\ t.infos # <<>> /\ Head(t.infos) = t.infos[1] /\ t.infos[1] \in Tuples
    <3>1. t.pc = "lock"
      BY Zenon DEF handle_last_tuple_in_group
    <3>2. t.infos # <<>>
      BY <2>1, <3>1, Zenon DEF Phase
    <3> QED
      BY <2>1, <3>1, <3>2, SeqHead, Zenon
  <2>3. UNCHANGED <<prog, tree, leaf, gcvars, lastTid, clockvars>>
    BY Zenon DEF handle_last_tuple_in_group
  <2> DEFINE p == Head(t.infos)
  <2> DEFINE x == IF Len(t.infos) = 1 THEN "gen" ELSE "lock"
  <2> DEFINE u == [t EXCEPT !.infos = Tail(@), !.pc = x]
  <2>4. \/ p \in Inserts(t) /\ txn' = [txn EXCEPT ![c] = u] /\ UNCHANGED tuple
        \/ txn' = [txn EXCEPT ![c] = DoAbort(txn[c])] /\ UNCHANGED tuple
        \/ /\ p \notin Inserts(t) /\ tuple[p].version # MAX_TID /\ ~tuple[p].locked
           /\ tuple' = [tuple EXCEPT ![p] = lock(@, TRUE)]
           /\ txn' = [txn EXCEPT ![c] = IF tuple[p].latest THEN [u EXCEPT !.locked = @ \cup {p}]
                                        ELSE DoAbort([u EXCEPT !.locked = @ \cup {p}])]
    BY Zenon DEF handle_last_tuple_in_group
  <2>5. CASE p \in Inserts(t) /\ txn' = [txn EXCEPT ![c] = u] /\ UNCHANGED tuple
    <3>1. UNCHANGED <<prog, dbvars, gcvars, lastTid, clockvars>>
      BY <2>3, <2>5, Zenon DEF dbvars
    <3> QED
      BY <2>2, <2>5, <3>1, <1>LockedAction, Zenon
  <2>6. CASE txn' = [txn EXCEPT ![c] = DoAbort(txn[c])] /\ UNCHANGED tuple
    <3>1. UNCHANGED <<prog, dbvars, gcvars, lastTid, clockvars>>
      BY <2>3, <2>6, Zenon DEF dbvars
    <3>2. t.pc \in {"lock"} \cup Holding
      BY <2>2, Zenon
    <3> QED
      BY <2>6, <3>1, <3>2, DoAbortAction, Zenon
  <2>7. CASE /\ p \notin Inserts(t) /\ tuple[p].version # MAX_TID /\ ~tuple[p].locked
             /\ tuple' = [tuple EXCEPT ![p] = lock(@, TRUE)]
             /\ txn' = [txn EXCEPT ![c] = IF tuple[p].latest THEN [u EXCEPT !.locked = @ \cup {p}]
                                          ELSE DoAbort([u EXCEPT !.locked = @ \cup {p}])]
    <3>1. [u EXCEPT !.locked = @ \cup {p}] = LockTo(t, p)
      BY ONLY <2>1, Zenon DEF Shaped, LockTo
    <3> HIDE DEF p, u, x
    <3>2. ASSUME NEW l, l = LockTo(t, p), NEW v, v = IF tuple[p].latest THEN l ELSE DoAbort(l),
                 txn' = [txn EXCEPT ![c] = v],
                 NEW S, S = [tuple EXCEPT ![p] = lock(@, TRUE)], tuple' = S
          PROVE  OccInv'
      <4>1. UNCHANGED <<tree, prog, queue, lastTid, clockvars>>
        BY <2>3, Zenon DEF gcvars
      <4>2. p = t.infos[1] /\ p \in Tuples
        BY <2>2, Zenon DEF p
      <4>3. p \notin Inserts(t) /\ tuple[p].version # MAX_TID /\ ~tuple[p].locked
        BY ONLY <2>7
      <4> QED
        BY ONLY Sorting, OccInv, c \in Cores, t = txn[c], <2>2, <3>2, <4>1, <4>2, <4>3, <1>TakeAction, Zenon
    <3> QED
      BY <2>7, <3>1, <3>2, Zenon
  <2> QED
    BY <2>4, <2>5, <2>6, <2>7, Zenon
<1> QED
  BY <1>LockedAction, <1>TakeAction, <1>LockAction, Zenon

\* TupleInv of a step that changes only the tuples of X.
LEMMA TuplesKept ==
    ASSUME OccInv, NEW t, NEW u, NEW X, NEW S, NEW Q, Changes(X, tuple, tree, S, Q),
           Private(t) \subseteq Private(u) \cup X,
           \A p \in X : /\ S[p].version = MIN_TID => ~S[p].locked
                        /\ S[p].locked => p \in Private(u)
                        /\ S[p].version = MAX_TID \/ S[p].version < Limit(tick)
    PROVE  GoodTuples(tuple, S, t, u, tick)
<1> SUFFICES ASSUME NEW p \in Tuples
             PROVE  /\ S[p].version = MIN_TID => ~S[p].locked
                    /\ S[p].locked => p \in Private(u) \/ (tuple[p].locked /\ p \notin Private(t))
                    /\ S[p].version = MAX_TID \/ S[p].version < Limit(tick)
  BY Zenon DEF GoodTuples
<1>1. CASE p \in X
  BY <1>1, Zenon
<1>2. CASE p \notin X
  <2>1. S[p].version = tuple[p].version /\ S[p].locked = tuple[p].locked
    BY <1>2, Zenon DEF Changes
  <2>2. /\ tuple[p].version = MIN_TID => ~tuple[p].locked
        /\ tuple[p].version = MAX_TID \/ tuple[p].version < Limit(tick)
    BY DbFacts, Zenon
  <2>3. p \in Private(u) \/ p \notin Private(t)
    BY <1>2, Zenon
  <2> QED
    BY ONLY <2>1, <2>2, <2>3, Zenon
<1> QED
  BY <1>1, <1>2, Zenon

\* An unused tuple p becomes the tentative record of key k.
Adds(p, k, T, R, S, Q) ==
    /\ T[p].version = MIN_TID /\ k \in Keys /\ k \notin DOMAIN R /\ Q = With(R, k, p)
    /\ S \in [Tuples -> TupleRec] /\ \A q \in Tuples : q \notin {p} => S[q] = T[q]
    /\ S[p].version = MAX_TID /\ S[p].locked /\ S[p].intent /\ S[p].latest

\* The index with one more entry.
Extended(R, k, p, Q) ==
    /\ DOMAIN Q = DOMAIN R \cup {k} /\ Q[k] = p
    /\ \A j \in DOMAIN R : j # k /\ Q[j] = R[j]
    /\ Q = [j \in DOMAIN Q |-> Q[j]]

\* The transaction with the insert of tuple p at its key in its write set.
InsertTo(t, p, e) == [t EXCEPT !.ops = Tail(@), !.locked = @ \cup {p}, !.wset = Append(@, e)]

\* The fields that tell a transaction from its state before an insert.
Inserted(t, u, p, e) ==
    /\ u.pc = "active" /\ u.wset = Append(t.wset, e) /\ u.locked = t.locked \cup {p}
    /\ u.ctid = t.ctid /\ u.head = t.head /\ u.snap = t.snap /\ u.stid = t.stid
    /\ u.scratch = t.scratch /\ u.rset = t.rset /\ u.tid = t.tid /\ TxnType(u)

\* The insert of a tentative tuple keeps the invariant.
LEMMA InsertActions ==
    ASSUME Sorting, OccInv
    PROVE  \A c \in Cores : try_insert_new_tuple(c) => OccInv'
  \* The index with one more entry.
<1>AddsIndex.
      ASSUME NEW R, NEW k, k \notin DOMAIN R, NEW p, NEW Q, Q = With(R, k, p)
      PROVE  Extended(R, k, p, Q)
  <2> USE <1>AddsIndex
  <2>1. Q = [x \in DOMAIN R \cup {k} |-> IF x = k THEN p ELSE R[x]]
    BY Zenon DEF With
  <2>2. DOMAIN Q = DOMAIN R \cup {k} /\ Q = [j \in DOMAIN Q |-> Q[j]]
    BY ONLY <2>1, Zenon
  <2>3. \A j \in DOMAIN R \cup {k} : Q[j] = IF j = k THEN p ELSE R[j]
    BY ONLY <2>1, Zenon
  <2> QED
    BY <2>2, <2>3, Zenon DEF Extended
  \* A tentative tuple joins index and transaction together: the rest of the
  \* database is in order.
<1>Added.
      ASSUME OccInv, NEW c \in Cores, NEW t, t = txn[c], NEW u, NEW p \in Tuples, NEW k, NEW S, NEW Q,
             Adds(p, k, tuple, tree, S, Q), Private(u) = Private(t) \cup {p}, u.locked = t.locked \cup {p}
      PROVE  /\ Changes({p}, tuple, tree, S, Q) /\ Extended(tree, k, p, Q)
             /\ StillRooted(tuple, tree, S, Q) /\ Apart(c, u, S, Q) /\ GoodTypes(S, Q)
             /\ GoodIndex(tuple, tree, S, Q, t, u) /\ GoodTuples(tuple, S, t, u, tick)
  <2> USE <1>Added
  <2>1. /\ tuple[p].version = MIN_TID /\ k \in Keys /\ k \notin DOMAIN tree /\ Q = With(tree, k, p)
        /\ S \in [Tuples -> TupleRec] /\ \A q \in Tuples : q \notin {p} => S[q] = tuple[q]
        /\ S[p].version = MAX_TID /\ S[p].locked
    BY Zenon DEF Adds
  <2>2. /\ \A i, j \in DOMAIN tree : tree[i] = tree[j] => i = j
        /\ DOMAIN tree \subseteq Keys /\ \A j \in DOMAIN tree : tree[j] \in Tuples /\ tuple[tree[j]].version # MIN_TID
    BY DbFacts, Zenon
  <2>3. MAX_TID # MIN_TID
    BY ONLY OccInv, TypeFacts, LimitFacts, Zenon
  <2>4. /\ DOMAIN Q = DOMAIN tree \cup {k} /\ Q[k] = p
        /\ \A j \in DOMAIN tree : j # k /\ Q[j] = tree[j]
        /\ Q = [j \in DOMAIN Q |-> Q[j]]
    <3>1. k \notin DOMAIN tree /\ Q = With(tree, k, p)
      BY ONLY <2>1
    <3>2. Extended(tree, k, p, Q)
      BY ONLY <3>1, <1>AddsIndex, Zenon
    <3> QED
      BY ONLY <3>2, Zenon DEF Extended
  <2>5. \A j \in DOMAIN tree : tree[j] \notin {p}
    BY ONLY <2>1, <2>2, Zenon
  <2>6. Changes({p}, tuple, tree, S, Q)
    <3>1. \A q \in Tuples : q \notin {p} => /\ S[q].locked = tuple[q].locked /\ S[q].intent = tuple[q].intent
                                            /\ S[q].version = tuple[q].version /\ S[q].latest = tuple[q].latest
      BY ONLY <2>1, Zenon
    <3>2. \A j \in DOMAIN tree : j \in DOMAIN Q /\ Q[j] = tree[j]
      BY ONLY <2>4, Zenon
    <3>3. \A j \in DOMAIN Q : Q[j] \notin {p} => j \in DOMAIN tree /\ Q[j] = tree[j]
      BY ONLY <2>4, Zenon
    <3> QED
      BY ONLY <3>1, <3>2, <3>3, Zenon DEF Changes
  <2>7. StillRooted(tuple, tree, S, Q)
    <3>1. \A q \in Tuples : tuple[q].version # MIN_TID => S[q].version # MIN_TID /\ (S[q].latest => tuple[q].latest)
      BY ONLY <2>1, Zenon
    <3>2. \A j \in DOMAIN tree : tuple[tree[j]].latest /\ S[tree[j]].latest => j \in DOMAIN Q /\ Q[j] = tree[j]
      BY ONLY <2>4, Zenon
    <3> QED
      BY ONLY <3>1, <3>2, RootedFrame, Zenon
  <2>8. Apart(c, u, S, Q)
    <3>1. Private(u) \subseteq Private(txn[c]) \cup {p}
      BY Zenon
    <3>2. \A q \in {p} : q \in Private(txn[c]) \/ tuple[q].version = MIN_TID
      BY ONLY <2>1, Zenon
    <3>3. Unshared(c, {p})
      BY ONLY OccInv, c \in Cores, <3>2, OwnUnshared, Zenon
    <3> QED
      BY ONLY OccInv, c \in Cores, <2>6, <3>1, <3>3, Elsewhere, Zenon
  <2>9. GoodTypes(S, Q)
    <3>1. \A j \in DOMAIN Q : Q[j] \in Tuples
      BY ONLY <2>2, <2>4, p \in Tuples, Zenon
    <3>2. Q \in [DOMAIN Q -> Tuples] /\ DOMAIN Q \subseteq Keys
      BY ONLY <2>1, <2>2, <2>4, <3>1, Zenon
    <3> QED
      BY ONLY <2>1, <3>2, Zenon DEF GoodTypes
  <2>10. GoodIndex(tuple, tree, S, Q, t, u)
    <3>1. \A i, j \in DOMAIN Q : Q[i] = Q[j] => i = j
      BY ONLY <2>2, <2>4, <2>5, Zenon
    <3>2. ASSUME NEW j \in DOMAIN Q
          PROVE  /\ S[Q[j]].version # MIN_TID
                 /\ S[Q[j]].version = MAX_TID =>
                      \/ Q[j] \in u.locked
                      \/ j \in DOMAIN tree /\ Q[j] = tree[j] /\ tuple[tree[j]].version = MAX_TID /\ tree[j] \notin t.locked
      <4>1. CASE j = k
        <5>1. Q[j] = p /\ p \in u.locked
          BY <2>4, <4>1, Zenon
        <5> QED
          BY ONLY <2>1, <2>3, <5>1, Zenon
      <4>2. CASE j \in DOMAIN tree
        <5>1. Q[j] = tree[j] /\ tree[j] \notin {p} /\ tree[j] \in Tuples
          BY ONLY <2>2, <2>4, <2>5, <4>2, Zenon
        <5>2. S[tree[j]] = tuple[tree[j]] /\ tuple[tree[j]].version # MIN_TID
          BY ONLY <2>1, <2>2, <4>2, <5>1, Zenon
        <5>3. tree[j] \in u.locked \/ tree[j] \notin t.locked
          BY Zenon
        <5> QED
          BY ONLY <4>2, <5>1, <5>2, <5>3, Zenon
      <4> QED
        BY ONLY <2>4, <3>2, <4>1, <4>2, Zenon
    <3> QED
      BY ONLY <3>1, <3>2, Zenon DEF GoodIndex
  <2>11. GoodTuples(tuple, S, t, u, tick)
    <3>1. Private(t) \subseteq Private(u) \cup {p}
      BY Zenon
    <3>2. p \in Private(u)
      BY Zenon
    <3>3. \A q \in {p} : /\ S[q].version = MIN_TID => ~S[q].locked
                         /\ S[q].locked => q \in Private(u)
                         /\ S[q].version = MAX_TID \/ S[q].version < Limit(tick)
      BY ONLY <2>1, <2>3, <3>2, Zenon
    <3> QED
      BY ONLY OccInv, <2>6, <3>1, <3>3, TuplesKept
  <2>12. Extended(tree, k, p, Q)
    BY ONLY <2>4, Zenon DEF Extended
  <2> QED
    BY ONLY <2>4, <2>6, <2>7, <2>8, <2>9, <2>10, <2>11, <2>12, Zenon
  \* A tentative tuple joins the write set.
<1>InsertStep.
      ASSUME NEW T, NEW R, NEW n, NEW t, NEW u, NEW e \in WriteEntry, TxnInv(t, T, R, n),
             t.pc = "active", ~t.snap, e.insert, T[e.tuple].locked, T[e.tuple].intent, T[e.tuple].latest,
             T[e.tuple].version = MAX_TID, MAX_TID # MIN_TID, e.key \in DOMAIN R, R[e.key] = e.tuple,
             e.tuple \notin WrittenTuples(t), TxnType(u),
             u.pc = "active", u.wset = Append(t.wset, e), u.locked = t.locked \cup {e.tuple},
             u.ctid = t.ctid, u.head = t.head, u.snap = t.snap, u.scratch = t.scratch,
             u.rset = t.rset, u.tid = t.tid
      PROVE  TxnInv(u, T, R, n)
  <2> USE <1>InsertStep
  <2>1. /\ TxnType(t) /\ Phase(t) /\ OwnLocks(t, T) /\ OwnWrites(t, T, R) /\ OwnNumber(t, n)
        /\ GcRooted(t.scratch, T, R) /\ Reader(t, n)
    BY Zenon DEF TxnInv
  <2> DEFINE m == Len(t.wset)
  <2>2. /\ m \in Nat /\ DOMAIN t.wset = 1 .. m /\ DOMAIN u.wset = 1 .. (m + 1)
        /\ \A i \in DOMAIN t.wset : u.wset[i] = t.wset[i]
        /\ u.wset[m + 1] = e
    <3>1. t.wset \in Seq(WriteEntry)
      BY <2>1, Zenon DEF TxnType
    <3> QED
      BY ONLY <3>1, e \in WriteEntry, u.wset = Append(t.wset, e), SeqAppend
  <2> HIDE DEF m
  <2>3. /\ \A i \in DOMAIN u.wset : i \in DOMAIN t.wset \/ i = m + 1
        /\ \A i \in DOMAIN t.wset : i \in DOMAIN u.wset /\ i # m + 1
        /\ m + 1 \in DOMAIN u.wset
    BY ONLY <2>2
  <2>4. Inserts(u) = Inserts(t) \cup {e.tuple}
    <3>1. /\ \A p : p \in Inserts(u) <=> \E i \in DOMAIN u.wset : u.wset[i].insert /\ u.wset[i].tuple = p
          /\ \A p : p \in Inserts(t) <=> \E i \in DOMAIN t.wset : t.wset[i].insert /\ t.wset[i].tuple = p
      BY ONLY WrittenIs, Zenon
    <3> QED
      BY ONLY <3>1, <2>2, <2>3, e.insert
  <2>5. \A i \in DOMAIN t.wset : t.wset[i].tuple # e.tuple
    BY ONLY WrittenIs, e.tuple \notin WrittenTuples(t), Zenon
  <2>6. /\ t.locked = Inserts(t) /\ t.head = NoTuple
        /\ \A i, j \in DOMAIN t.wset :
             (i # j /\ t.wset[i].tuple = t.wset[j].tuple) => ~(t.wset[i].insert /\ t.wset[j].insert)
    BY <2>1 DEF Phase, Reading, Publishing
  <2>7. /\ u.pc # "lock" /\ u.pc \notin Holding /\ u.pc \notin Writing /\ u.pc \notin Calm
        /\ u.pc \notin {"undo"} \cup Writing /\ u.pc \notin Writing \ {"write"} /\ u.pc \notin Publishing
        /\ u.pc \notin Publishing \cup {"write", "write2"} /\ t.pc \notin Writing
        /\ u.pc \notin (Holding \ {"gen"}) \cup Writing /\ u.pc \notin {"lock"} \cup Holding
    BY DEF Holding, Writing, Publishing, Calm
  <2>8. Phase(u)
    <3>1. NoTuple \notin u.locked
      BY Constants, Zenon DEF TxnType
    <3>2. \A i, j \in DOMAIN u.wset :
            (i # j /\ u.wset[i].tuple = u.wset[j].tuple) => ~(u.wset[i].insert /\ u.wset[j].insert)
      BY ONLY <2>2, <2>3, <2>5, <2>6
    <3> QED
      BY <3>1, <3>2, <2>4, <2>6, <2>7, Zenon DEF Phase
  <2>9. OwnLocks(u, T)
    BY <2>1, <2>4, <2>7, Zenon DEF OwnLocks
  <2>10. OwnWrites(u, T, R)
    <3>1. \A i \in DOMAIN t.wset : /\ T[t.wset[i].tuple].version # MIN_TID
                                   /\ Rooted(t.wset[i].tuple, t.wset[i].key, T, R)
      BY <2>1, Zenon DEF OwnWrites
    <3>2. T[e.tuple].version # MIN_TID /\ Rooted(e.tuple, e.key, T, R)
      BY Zenon DEF Rooted
    <3>3. \A i \in DOMAIN u.wset : /\ T[u.wset[i].tuple].version # MIN_TID
                                   /\ Rooted(u.wset[i].tuple, u.wset[i].key, T, R)
      BY ONLY <3>1, <3>2, <2>2, <2>3
    <3> QED
      BY ONLY <2>7, <3>3, Zenon DEF OwnWrites, Numbered
  <2>11. OwnNumber(u, n) /\ Publisher(u, T, R) /\ GcRooted(u.scratch, T, R) /\ Reader(u, n)
    BY <2>1, <2>7, Zenon DEF OwnNumber, Publisher, Reader, Numbered
  <2> QED
    BY <2>8, <2>9, <2>10, <2>11, Zenon DEF TxnInv
  \* The fields of a transaction that has inserted a tuple.
<1>InsertToFacts.
      ASSUME NEW t, NEW u, NEW p \in Tuples, NEW e \in WriteEntry, TxnType(t), t.pc = "active", t.ops # <<>>, u = InsertTo(t, p, e)
      PROVE  Inserted(t, u, p, e)
  <2> USE <1>InsertToFacts
  <2>1. Shaped(t) /\ t.ops \in Seq(Ops) /\ t.wset \in Seq(WriteEntry) /\ t.locked \subseteq Tuples
    BY Zenon DEF TxnType
  <2>2. /\ u.pc = "active" /\ u.wset = Append(t.wset, e) /\ u.locked = t.locked \cup {p}
        /\ u.ctid = t.ctid /\ u.head = t.head /\ u.snap = t.snap /\ u.stid = t.stid
        /\ u.scratch = t.scratch /\ u.rset = t.rset /\ u.tid = t.tid
        /\ u.ops = Tail(t.ops) /\ u.cur = t.cur /\ u.rest = t.rest /\ u.infos = t.infos
    BY ONLY <2>1, t.pc = "active", u = InsertTo(t, p, e) DEF Shaped, InsertTo
  <2>3. Shaped(u)
    BY ONLY <2>1, u = InsertTo(t, p, e), Zenon DEF Shaped, InsertTo
  <2>4. Tail(t.ops) \in Seq(Ops)
    BY <2>1, SeqHead, Zenon
  <2>5. Append(t.wset, e) \in Seq(WriteEntry)
    BY ONLY <2>1, e \in WriteEntry, SeqAppend, Zenon
  <2>6. t.locked \cup {p} \in SUBSET Tuples
    BY <2>1, Zenon
  <2>7. u.pc \in Reading \cup {"undo", "lock"} \cup Holding \cup Writing \cup Calm /\ u.pc \notin {"version", "value"}
    BY ONLY <2>2 DEF Reading
  <2>8. TxnType(u)
    BY ONLY <2>2, <2>3, <2>4, <2>5, <2>6, <2>7, TxnType(t), Zenon DEF TxnType
  <2> QED
    BY <2>2, <2>8, Zenon DEF Inserted
  \* alloc_first: a tentative tuple is locked and has no version that can be
  \* read.
<1>NewRecord.
      ASSUME NEW v \in Nat, NEW a, a = alloc_first(v)
      PROVE  a \in TupleRec /\ a.locked /\ a.intent /\ a.version = MAX_TID /\ a.latest
  <2> USE <1>NewRecord
  <2>1. MAX_TID \in Nat /\ NoTuple \in Tuples \cup {NoTuple}
    <3>1. MaxTick \in Nat /\ MaxTick <= MaxTick
      BY Constants
    <3> QED
      BY <3>1, LimitFacts, Zenon
  <2>2. ASSUME NEW d, d = Newest(MAX_TID, v, NoTuple), a = [d EXCEPT !.locked = TRUE, !.intent = TRUE]
        PROVE  a \in TupleRec /\ a.locked /\ a.intent /\ a.version = MAX_TID /\ a.latest
    <3>1. d \in TupleRec /\ d.version = MAX_TID /\ d.latest
      BY ONLY <2>1, v \in Nat, d = Newest(MAX_TID, v, NoTuple), NewTuple
    <3>2. a \in TupleRec
      BY ONLY <3>1, <2>2, Zenon DEF TupleRec
    <3>3. Formed(d)
      BY ONLY <3>1, TupleFields, Zenon
    <3>4. a.locked = TRUE /\ a.intent = TRUE /\ a.version = d.version /\ a.latest = d.latest
      BY ONLY <3>3, a = [d EXCEPT !.locked = TRUE, !.intent = TRUE] DEF Formed
    <3> QED
      BY <3>1, <3>2, <3>4, Zenon
  <2> QED
    BY <2>2, Zenon DEF alloc_first, Newest
  \* A tentative tuple p is inserted at key k; it appears locked.
<1>FreshAction.
      ASSUME Sorting, OccInv, NEW c \in Cores, NEW t, t = txn[c], t.pc = "active", t.ops # <<>>, ~t.snap,
             NEW p \in Tuples, NEW k, NEW S, NEW Q, Adds(p, k, tuple, tree, S, Q), tuple' = S, tree' = Q,
             NEW e \in WriteEntry, e.tuple = p, e.key = k, e.insert, NEW x, NEW y,
             NEW a, a = InsertTo(t, p, e), NEW u, u = BumpNode(a, x, y), txn' = [txn EXCEPT ![c] = u],
             UNCHANGED <<prog, queue, lastTid, clockvars>>
      PROVE  OccInv'
  <2> USE <1>FreshAction
  <2>1. /\ TxnInv(t, tuple, tree, tick) /\ TxnType(t) /\ OwnWrites(t, tuple, tree)
        /\ Guarded(guard[c], t, tick, done)
    BY CoreFacts, Zenon
  <2>2. /\ a.pc = "active" /\ a.wset = Append(t.wset, e) /\ a.locked = t.locked \cup {p}
        /\ a.ctid = t.ctid /\ a.head = t.head /\ a.snap = t.snap /\ a.stid = t.stid
        /\ a.scratch = t.scratch /\ a.rset = t.rset /\ a.tid = t.tid /\ TxnType(a)
    <3>1. Inserted(t, a, p, e)
      BY ONLY <2>1, p \in Tuples, e \in WriteEntry, t.pc = "active", t.ops # <<>>, a = InsertTo(t, p, e), <1>InsertToFacts, Zenon
    <3> QED
      BY ONLY <3>1, Zenon DEF Inserted
  <2>3. p \notin Private(t) /\ p \notin WrittenTuples(t)
    <3>1. tuple[p].version = MIN_TID
      BY Zenon DEF Adds
    <3>2. p \notin Private(t)
      BY <3>1, OwnUsed, Zenon
    <3>3. p \notin WrittenTuples(t)
      BY <2>1, <3>1, Zenon DEF WrittenTuples, OwnWrites
    <3> QED
      BY <3>2, <3>3, Zenon
  <2>4. Private(a) = Private(t) \cup {p}
    <3>1. p # NoTuple
      BY ONLY p \in Tuples, Constants, Zenon
    <3> QED
      BY ONLY <2>2, <3>1, Zenon DEF Private
  <2>5. a.locked = t.locked \cup {p}
    BY ONLY <2>2, Zenon
  <2>6. /\ Changes({p}, tuple, tree, S, Q) /\ Extended(tree, k, p, Q)
        /\ StillRooted(tuple, tree, S, Q) /\ Apart(c, a, S, Q) /\ GoodTypes(S, Q)
        /\ GoodIndex(tuple, tree, S, Q, t, a) /\ GoodTuples(tuple, S, t, a, tick)
    BY ONLY OccInv, c \in Cores, t = txn[c], p \in Tuples, Adds(p, k, tuple, tree, S, Q), <2>4, <2>5, <1>Added, Zenon
  <2>7. TxnInv(t, S, Q, tick)
    <3>1. \A q \in {p} : q \notin Private(t)
      BY ONLY <2>3, Zenon
    <3>2. SameTuples(t, tuple, S) /\ SameIndex(t, tree, Q)
      BY ONLY <2>1, <2>6, <3>1, Untouched
    <3> QED
      BY ONLY <2>1, <2>6, <3>2, Frame, Zenon
  <2>8. TxnInv(a, S, Q, tick)
    <3>1. S[e.tuple].locked /\ S[e.tuple].intent /\ S[e.tuple].latest /\ S[e.tuple].version = MAX_TID
      BY Zenon DEF Adds
    <3>2. MAX_TID # MIN_TID
      BY ONLY OccInv, TypeFacts, LimitFacts, Zenon
    <3>3. e.key \in DOMAIN Q /\ Q[e.key] = e.tuple /\ e.tuple \notin WrittenTuples(t)
      BY ONLY <2>3, <2>6, e.tuple = p, e.key = k, Zenon DEF Extended
    <3>4. a.locked = t.locked \cup {e.tuple}
      BY ONLY <2>5, e.tuple = p, Zenon
    <3> QED
      BY ONLY <2>2, <2>7, e \in WriteEntry, e.insert, ~t.snap, t.pc = "active", <3>1, <3>2, <3>3, <3>4, <1>InsertStep, Zenon
  <2>9. TxnInv(u, S, Q, tick) /\ Continues(a, u)
    BY ONLY Sorting, <2>2, <2>8, u = BumpNode(a, x, y), ReadActions, Zenon
  <2>10. /\ u.pc \notin {"idle", "post", "clean"} /\ u.ctid = t.ctid /\ u.snap = t.snap /\ u.stid = t.stid
         /\ u.locked = a.locked /\ Private(u) = Private(a)
    BY ONLY <2>2, <2>9, Zenon DEF Continues
  <2>11. Guarded(guard[c], u, tick, done)
    <3>1. t.pc \notin {"idle", "post", "clean"}
      OBVIOUS
    <3> QED
      BY ONLY <2>1, <2>10, <3>1, StillGuarded, Zenon
  <2>12. Private(u) = Private(t) \cup {p} /\ u.locked = t.locked \cup {p}
    BY ONLY <2>4, <2>5, <2>10, Zenon
  <2>13. /\ StillRooted(tuple, tree, S, Q) /\ Apart(c, u, S, Q) /\ GoodTypes(S, Q)
         /\ GoodIndex(tuple, tree, S, Q, t, u) /\ GoodTuples(tuple, S, t, u, tick)
    BY ONLY OccInv, c \in Cores, t = txn[c], p \in Tuples, Adds(p, k, tuple, tree, S, Q), <2>12, <1>Added, Zenon
  <2> QED
    BY <2>9, <2>11, <2>13, DbQuiet, Zenon
  \* try_insert_new_tuple keeps the invariant, whether the key is new or found.
<1>InsertAction.
      ASSUME Sorting, OccInv, NEW c \in Cores, NEW t, t = txn[c], try_insert_new_tuple(c)
      PROVE  OccInv'
  <2> USE <1>InsertAction
  <2>1. /\ t.pc = "active" /\ t.ops # <<>> /\ Head(t.ops).op = "put" /\ ~t.snap
        /\ UNCHANGED <<prog, gcvars, lastTid, clockvars>>
    BY Zenon DEF try_insert_new_tuple, Op
  <2>2. Head(t.ops).k \in Keys /\ Head(t.ops).v \in Nat
    <3>1. t.ops \in Seq(Ops)
      BY CoreFacts, Zenon DEF TxnType
    <3>2. Head(t.ops) \in Ops
      BY ONLY <2>1, <3>1, SeqHead, Zenon
    <3> QED
      BY ONLY <2>1, <3>2 DEF Ops
  <2> DEFINE k == Op(c).k
  <2> DEFINE v == Op(c).v
  <2>3. k = Head(t.ops).k /\ v = Head(t.ops).v
    BY Zenon DEF Op
  <2>6. IF k \in DOMAIN tree
        THEN /\ txn' = [txn EXCEPT ![c] = [txn[c] EXCEPT !.ops[1].new = FALSE]]
             /\ UNCHANGED dbvars
        ELSE \E p \in Allocatable :
               /\ tuple' = [tuple EXCEPT ![p] = alloc_first(v)]
               /\ tree' = With(tree, k, p)
               /\ leaf' = find_insert(leaf)
               /\ txn' = [txn EXCEPT ![c] =
                            BumpNode([txn[c] EXCEPT !.ops = Tail(@), !.locked = @ \cup {p},
                                               !.wset = Append(@, [tuple |-> p, key |-> k, val |-> v,
                                                                   insert |-> TRUE])],
                                     NodeVersion, NodeVersion')]
    BY ONLY try_insert_new_tuple(c), Zenon DEF try_insert_new_tuple
  <2> HIDE DEF k, v
  <2>4. CASE k \in DOMAIN tree
    <3>1. txn' = [txn EXCEPT ![c] = [t EXCEPT !.ops[1].new = FALSE]] /\ UNCHANGED dbvars
      BY ONLY <2>4, <2>6, t = txn[c], Zenon
    <3>2. UNCHANGED <<prog, dbvars, gcvars, lastTid, clockvars>>
      BY ONLY <2>1, <3>1, Zenon
    <3> QED
      BY ONLY OccInv, c \in Cores, t = txn[c], <2>1, <3>1, <3>2, Sorting, ReadActions, Zenon
  <2>5. CASE k \notin DOMAIN tree
    <3>1. PICK p \in Allocatable :
            /\ tuple' = [tuple EXCEPT ![p] = alloc_first(v)]
            /\ tree' = With(tree, k, p)
            /\ leaf' = find_insert(leaf)
            /\ txn' = [txn EXCEPT ![c] =
                         BumpNode([txn[c] EXCEPT !.ops = Tail(@), !.locked = @ \cup {p},
                                            !.wset = Append(@, [tuple |-> p, key |-> k, val |-> v,
                                                                insert |-> TRUE])],
                                  NodeVersion, NodeVersion')]
      BY ONLY <2>5, <2>6, Zenon
    <3>2. p \in Tuples /\ tuple[p].version = MIN_TID
      BY Zenon DEF Allocatable, Unused
    <3>3. PICK e : e = [tuple |-> p, key |-> k, val |-> v, insert |-> TRUE]
      BY Zenon
    <3>4. e \in WriteEntry /\ e.tuple = p /\ e.key = k /\ e.insert
      BY ONLY <2>2, <2>3, <3>2, <3>3 DEF WriteEntry
    <3>5. txn' = [txn EXCEPT ![c] = BumpNode(InsertTo(t, p, e), NodeVersion, NodeVersion')]
      <4>1. txn' = [txn EXCEPT ![c] =
                      BumpNode([txn[c] EXCEPT !.ops = Tail(@), !.locked = @ \cup {p},
                                         !.wset = Append(@, [tuple |-> p, key |-> k, val |-> v,
                                                             insert |-> TRUE])],
                               NodeVersion, NodeVersion')]
        BY ONLY <3>1, Zenon
      <4>2. txn' = [txn EXCEPT ![c] =
                      BumpNode([txn[c] EXCEPT !.ops = Tail(@), !.locked = @ \cup {p}, !.wset = Append(@, e)],
                               NodeVersion, NodeVersion')]
        BY ONLY <3>3, <4>1, Zenon
      <4>3. txn' = [txn EXCEPT ![c] = BumpNode(InsertTo(txn[c], p, e), NodeVersion, NodeVersion')]
        BY ONLY <4>2, Zenon DEF InsertTo
      <4> QED
        BY ONLY <4>3, t = txn[c], Zenon
    <3>6. tuple \in [Tuples -> TupleRec]
      BY DbFacts, Zenon
    <3>7. PICK d : d = alloc_first(v)
      BY Zenon
    <3>8. d \in TupleRec /\ d.locked /\ d.intent /\ d.version = MAX_TID /\ d.latest
      BY ONLY <2>2, <2>3, <3>7, <1>NewRecord
    <3>9. PICK S : S = [tuple EXCEPT ![p] = d]
      BY Zenon
    <3>10. S \in [Tuples -> TupleRec] /\ S[p] = d /\ \A q \in Tuples : q \notin {p} => S[q] = tuple[q]
      BY ONLY <3>2, <3>6, <3>8, <3>9, Zenon
    <3>11. ASSUME NEW Q, Q = With(tree, k, p)
           PROVE  Adds(p, k, tuple, tree, S, Q)
      BY ONLY <2>2, <2>3, <2>5, <3>2, <3>8, <3>10, <3>11, Zenon DEF Adds
    <3>12. tuple' = S
      BY ONLY <3>1, <3>7, <3>9, Zenon
    <3>13. UNCHANGED <<prog, queue, lastTid, clockvars>>
      BY ONLY <2>1, Zenon DEF gcvars
    <3>14. ASSUME NEW Q, Q = With(tree, k, p), NEW a, a = InsertTo(t, p, e), NEW x, NEW y,
                  NEW u, u = BumpNode(a, x, y), txn' = [txn EXCEPT ![c] = u]
           PROVE  OccInv'
      <4>1. Adds(p, k, tuple, tree, S, Q) /\ tree' = Q
        BY ONLY <3>1, <3>11, <3>14, Zenon
      <4> QED
        BY ONLY Sorting, OccInv, c \in Cores, t = txn[c], <2>1, <3>2, <3>4, <3>12, <3>13, <3>14, <4>1, <1>FreshAction, Zenon
    <3> QED
      BY ONLY <3>5, <3>14, Zenon
  <2> QED
    BY <2>4, <2>5, Zenon
<1> QED
  BY <1>FreshAction, <1>InsertAction, Zenon

\* An element of a concatenation is one of its parts'.
FromEither(w, s, u) ==
    \A i \in DOMAIN w : (\E j \in DOMAIN s : w[i] = s[j]) \/ (\E j \in DOMAIN u : w[i] = u[j])

\* What the concatenation of two lists holds comes from one of them.
LEMMA SeqConcat ==
    ASSUME NEW S, NEW s \in Seq(S), NEW u \in Seq(S)
    PROVE  s \o u \in Seq(S) /\ FromEither(s \o u, s, u)
<1>1. /\ Len(s) \in Nat /\ DOMAIN s = 1 .. Len(s) /\ Len(u) \in Nat /\ DOMAIN u = 1 .. Len(u)
  BY SeqLen
<1>2. /\ s \o u \in Seq(S) /\ Len(s \o u) = Len(s) + Len(u)
      /\ \A i \in 1 .. Len(s) + Len(u) :
           (s \o u)[i] = IF i <= Len(s) THEN s[i] ELSE u[i - Len(s)]
  BY <1>1
<1>3. DOMAIN (s \o u) = 1 .. Len(s \o u)
  BY <1>2, SeqLen
<1> DEFINE w == s \o u  m == Len(s)  n == Len(u)
<1>4. /\ m \in Nat /\ DOMAIN s = 1 .. m /\ n \in Nat /\ DOMAIN u = 1 .. n
      /\ DOMAIN w = 1 .. (m + n)
      /\ \A i \in 1 .. m + n : w[i] = IF i <= m THEN s[i] ELSE u[i - m]
  BY <1>1, <1>2, <1>3
<1> HIDE DEF w, m, n
<1>5. FromEither(w, s, u)
  <2>1. ASSUME NEW i \in DOMAIN w
        PROVE  \/ i \in DOMAIN s /\ w[i] = s[i]
               \/ i - m \in DOMAIN u /\ w[i] = u[i - m]
    BY <1>4
  <2> QED
    BY <2>1, Zenon DEF FromEither
<1> QED
  BY <1>2, <1>5, Zenon DEF w

\* What a write adds to the queue of its core can be cleaned.
LEMMA GcConcat ==
    ASSUME NEW T, NEW R, NEW s \in Seq(GcEntry), NEW u \in Seq(GcEntry), GcRooted(s, T, R), GcRooted(u, T, R)
    PROVE  s \o u \in Seq(GcEntry) /\ GcRooted(s \o u, T, R)
<1>1. s \o u \in Seq(GcEntry) /\ FromEither(s \o u, s, u)
  BY ONLY s \in Seq(GcEntry), u \in Seq(GcEntry), SeqConcat, Zenon
<1>2. ASSUME NEW i \in DOMAIN (s \o u), NEW e, e = (s \o u)[i], e.key # NoKey
      PROVE  T[e.tuple].version # MIN_TID /\ Rooted(e.tuple, e.key, T, R)
  <2>1. CASE \E j \in DOMAIN s : e = s[j]
    BY <1>2, <2>1, Zenon DEF GcRooted
  <2>2. CASE \E j \in DOMAIN u : e = u[j]
    BY <1>2, <2>2, Zenon DEF GcRooted
  <2> QED
    BY ONLY <1>1, <1>2, <2>1, <2>2, Zenon DEF FromEither
<1> QED
  BY ONLY <1>1, <1>2, Zenon DEF GcRooted

\* A queue of one record, and an empty one.
LEMMA GcOne ==
    ASSUME NEW T, NEW R, NEW e \in GcEntry,
           e.key # NoKey => T[e.tuple].version # MIN_TID /\ Rooted(e.tuple, e.key, T, R)
    PROVE  /\ <<e>> \in Seq(GcEntry) /\ GcRooted(<<e>>, T, R)
           /\ <<>> \in Seq(GcEntry) /\ GcRooted(<<>>, T, R)
<1>1. <<e>> \in Seq(GcEntry) /\ <<>> \in Seq(GcEntry) /\ DOMAIN <<>> = {}
  OBVIOUS
<1>2. \A i \in DOMAIN <<e>> : <<e>>[i] = e
  OBVIOUS
<1>3. GcRooted(<<e>>, T, R)
  BY <1>2, Zenon DEF GcRooted
<1>4. GcRooted(<<>>, T, R)
  BY <1>1, Zenon DEF GcRooted
<1> QED
  BY <1>1, <1>3, <1>4, Zenon

\* A lock is given back: by an abort, or when all is written.
ReleaseTo(t) == [t EXCEPT !.locked = @ \ {t.infos[1]}, !.infos = Tail(@)]

\* One lock less.
Released(t, u) ==
    /\ Private(u) = Private(t) \ {t.infos[1]} /\ t.infos[1] \in t.locked
    /\ u.locked = t.locked \ {t.infos[1]} /\ u.pc = t.pc
    /\ u.ctid = t.ctid /\ u.snap = t.snap /\ u.stid = t.stid

\* p leaves the index and is no longer the newest tuple of its record; the core
\* that does it, which becomes u, gives it up if it was its own.
Removes(p, k, T, R, S, Q) ==
    /\ k \in DOMAIN R /\ R[k] = p /\ Q = Without(R, k)
    /\ S \in [Tuples -> TupleRec] /\ \A q \in Tuples : q \notin {p} => S[q] = T[q]
    /\ S[p].version = T[p].version /\ ~S[p].latest /\ ~S[p].locked

\* What protects a tuple.
SameHeader(d, e) ==
    e.locked = d.locked /\ e.intent = d.intent /\ e.version = d.version /\ e.latest = d.latest

Frees(d) == [d EXCEPT !.freed = TRUE]

\* A core that cleans holds no locks, and keeps holding none.
CleanTo(t, l, s) == [t EXCEPT !.pc = l, !.scratch = s]

\* The headers of all tuples stay as they are.
SameHeaders(T, S) == S \in [Tuples -> TupleRec] /\ \A q \in Tuples : SameHeader(T[q], S[q])

\* The steps that unlock tuples or take them out of the index keep the
\* invariant: aborts, the end of a commit, and the cleaning of deleted records.
LEMMA RemovalActions ==
    ASSUME Sorting, OccInv
    PROVE  \A c \in Cores : (undo(c) \/ unlock_tuples(c) \/ clean_up_to_including(c)) => OccInv'
  \* The index without an entry.
<1>RemovesIndex.
      ASSUME NEW R, NEW k \in DOMAIN R, NEW Q, Q = Without(R, k), \A i, j \in DOMAIN R : R[i] = R[j] => i = j
      PROVE  /\ DOMAIN Q \subseteq DOMAIN R
             /\ \A j \in DOMAIN Q : j \in DOMAIN R /\ Q[j] = R[j] /\ R[j] # R[k]
             /\ \A j \in DOMAIN R : R[j] # R[k] => j \in DOMAIN Q /\ Q[j] = R[j]
  <2> USE <1>RemovesIndex
  <2>1. Q = [x \in DOMAIN R \ {k} |-> R[x]]
    BY Zenon DEF Without
  <2>2. DOMAIN Q = DOMAIN R \ {k} /\ \A j \in DOMAIN R \ {k} : Q[j] = R[j]
    BY ONLY <2>1, Zenon
  <2> QED
    BY <2>2, Zenon
  \* A tuple leaves index and transaction together: the rest of the database is
  \* in order.
<1>Removed.
      ASSUME OccInv, NEW c \in Cores, NEW t, t = txn[c], NEW u, NEW p \in Tuples, NEW k, NEW S, NEW Q,
             Removes(p, k, tuple, tree, S, Q), Unshared(c, {p}),
             Private(u) = Private(t) \ {p}, u.locked = t.locked \ {p}
      PROVE  /\ Changes({p}, tuple, tree, S, Q)
             /\ StillRooted(tuple, tree, S, Q) /\ Apart(c, u, S, Q) /\ GoodTypes(S, Q)
             /\ GoodIndex(tuple, tree, S, Q, t, u) /\ GoodTuples(tuple, S, t, u, tick)
  <2> USE <1>Removed
  <2>1. /\ k \in DOMAIN tree /\ tree[k] = p /\ Q = Without(tree, k) /\ S \in [Tuples -> TupleRec]
        /\ \A q \in Tuples : q \notin {p} => S[q] = tuple[q]
        /\ S[p].version = tuple[p].version /\ ~S[p].latest /\ ~S[p].locked
    BY Zenon DEF Removes
  <2>2. /\ \A i, j \in DOMAIN tree : tree[i] = tree[j] => i = j
        /\ DOMAIN tree \subseteq Keys /\ \A j \in DOMAIN tree : tree[j] \in Tuples /\ tuple[tree[j]].version # MIN_TID
        /\ tuple[p].version = MAX_TID \/ tuple[p].version < Limit(tick)
    BY DbFacts, Zenon
  <2>3. /\ DOMAIN Q \subseteq DOMAIN tree
        /\ \A j \in DOMAIN Q : j \in DOMAIN tree /\ Q[j] = tree[j] /\ tree[j] # p
        /\ \A j \in DOMAIN tree : tree[j] # p => j \in DOMAIN Q /\ Q[j] = tree[j]
    BY ONLY <2>1, <2>2, <1>RemovesIndex
  <2>4. Changes({p}, tuple, tree, S, Q)
    BY ONLY <2>1, <2>3, Zenon DEF Changes
  <2>5. StillRooted(tuple, tree, S, Q)
    <3>1. \A q \in Tuples : tuple[q].version # MIN_TID => S[q].version # MIN_TID /\ (S[q].latest => tuple[q].latest)
      BY ONLY <2>1, Zenon
    <3>2. \A j \in DOMAIN tree : tuple[tree[j]].latest /\ S[tree[j]].latest => j \in DOMAIN Q /\ Q[j] = tree[j]
      BY ONLY <2>1, <2>3, Zenon
    <3> QED
      BY ONLY <3>1, <3>2, RootedFrame, Zenon
  <2>6. Apart(c, u, S, Q)
    <3>1. Private(u) \subseteq Private(txn[c]) \cup {p}
      BY Zenon
    <3> QED
      BY ONLY OccInv, c \in Cores, <2>4, Unshared(c, {p}), <3>1, Elsewhere, Zenon
  <2>7. GoodTypes(S, Q)
    <3>1. \A j \in DOMAIN Q : Q[j] \in Tuples
      BY ONLY <2>2, <2>3, Zenon
    <3>2. Q = [j \in DOMAIN Q |-> Q[j]]
      BY ONLY <2>1, Zenon DEF Without
    <3>3. Q \in [DOMAIN Q -> Tuples] /\ DOMAIN Q \subseteq Keys
      BY ONLY <2>2, <2>3, <3>1, <3>2, Zenon
    <3> QED
      BY ONLY <2>1, <3>3, Zenon DEF GoodTypes
  <2>8. GoodIndex(tuple, tree, S, Q, t, u)
    <3>1. \A i, j \in DOMAIN Q : Q[i] = Q[j] => i = j
      BY ONLY <2>2, <2>3, Zenon
    <3>2. ASSUME NEW j \in DOMAIN Q
          PROVE  /\ j \in DOMAIN tree /\ Q[j] = tree[j] /\ S[Q[j]].version # MIN_TID
                 /\ S[Q[j]].version = MAX_TID => tuple[tree[j]].version = MAX_TID
                 /\ Q[j] \in u.locked \/ tree[j] \notin t.locked
      <4>1. j \in DOMAIN tree /\ Q[j] = tree[j] /\ tree[j] \notin {p} /\ tree[j] \in Tuples
        BY ONLY <2>2, <2>3, <3>2, Zenon
      <4>2. S[tree[j]] = tuple[tree[j]] /\ tuple[tree[j]].version # MIN_TID
        BY ONLY <2>1, <2>2, <4>1, Zenon
      <4>3. tree[j] \in u.locked \/ tree[j] \notin t.locked
        BY <4>1, Zenon
      <4> QED
        BY ONLY <4>1, <4>2, <4>3, Zenon
    <3> QED
      BY ONLY <3>1, <3>2, Zenon DEF GoodIndex
  <2>9. GoodTuples(tuple, S, t, u, tick)
    <3>1. Private(t) \subseteq Private(u) \cup {p}
      BY Zenon
    <3>2. tuple[p].version # MIN_TID
      BY ONLY <2>1, <2>2, Zenon
    <3>3. \A q \in {p} : /\ S[q].version = MIN_TID => ~S[q].locked
                         /\ S[q].locked => q \in Private(u)
                         /\ S[q].version = MAX_TID \/ S[q].version < Limit(tick)
      BY ONLY <2>1, <2>2, Zenon
    <3> QED
      BY ONLY OccInv, <2>4, <3>1, <3>3, TuplesKept
  <2> QED
    BY ONLY <2>4, <2>5, <2>6, <2>7, <2>8, <2>9
  \* Taking the head of a list without repetition takes one element out of it.
<1>SeqTake.
      ASSUME NEW S, NEW s \in Seq(S), s # <<>>, Distinct(s)
      PROVE  Distinct(Tail(s)) /\ At(Tail(s)) = At(s) \ {s[1]}
  <2> USE <1>SeqTake
  <2>1. /\ Len(s) \in Nat /\ Len(s) > 0 /\ DOMAIN s = 1 .. Len(s) /\ 1 \in DOMAIN s
        /\ DOMAIN Tail(s) = 1 .. (Len(s) - 1)
        /\ \A i \in DOMAIN Tail(s) : i + 1 \in DOMAIN s /\ Tail(s)[i] = s[i + 1]
    BY SeqHead
  <2>2. \A i, j \in DOMAIN s : s[i] = s[j] => i = j
    BY DEF Distinct
  <2> DEFINE n == Len(s)  u == Tail(s)
  <2>3. /\ n \in Nat /\ n > 0 /\ DOMAIN s = 1 .. n /\ DOMAIN u = 1 .. (n - 1)
        /\ \A i \in DOMAIN u : i + 1 \in DOMAIN s /\ u[i] = s[i + 1]
    BY <2>1
  <2> HIDE DEF n, u
  <2>4. \A i, j \in DOMAIN u : u[i] = u[j] => i = j
    BY ONLY <2>2, <2>3
  <2>5. At(u) = At(s) \ {s[1]}
    <3>1. \A x \in At(u) : x \in At(s) \ {s[1]}
      <4> SUFFICES ASSUME NEW i \in DOMAIN u PROVE u[i] \in {s[j] : j \in DOMAIN s} \ {s[1]}
        BY DEF At
      <4> QED
        BY ONLY <2>2, <2>3, i \in DOMAIN u
    <3>2. \A x \in At(s) \ {s[1]} : x \in At(u)
      <4> SUFFICES ASSUME NEW j \in DOMAIN s, s[j] # s[1] PROVE s[j] \in {u[i] : i \in DOMAIN u}
        BY DEF At
      <4>1. j - 1 \in DOMAIN u /\ (j - 1) + 1 = j
        BY <2>3
      <4> QED
        BY <4>1, <2>3
    <3> QED
      BY <3>1, <3>2
  <2> QED
    BY <2>4, <2>5 DEF Distinct, u
  \* A lock is given back: one less to release, and one less held.
<1>ReleaseStep.
      ASSUME NEW T, NEW R, NEW n, NEW t, NEW u, TxnInv(t, T, R, n),
             t.pc = "undo" \/ (t.pc = "write" /\ t.wset = <<>>), t.infos # <<>>,
             u = ReleaseTo(t)
      PROVE  TxnInv(u, T, R, n) /\ Released(t, u)
  <2> USE <1>ReleaseStep
  <2>1. /\ TxnType(t) /\ Phase(t) /\ OwnLocks(t, T) /\ OwnWrites(t, T, R) /\ OwnNumber(t, n)
        /\ GcRooted(t.scratch, T, R) /\ Reader(t, n)
    BY Zenon DEF TxnInv
  <2> DEFINE p == t.infos[1]
  <2>2. /\ u.pc = t.pc /\ u.ops = t.ops /\ u.infos = Tail(t.infos) /\ u.snap = t.snap /\ u.stid = t.stid
        /\ u.cur = t.cur /\ u.tid = t.tid /\ u.rset = t.rset /\ u.wset = t.wset
        /\ u.locked = t.locked \ {p} /\ u.ctid = t.ctid /\ u.rest = t.rest /\ u.head = t.head
        /\ u.scratch = t.scratch
    BY <2>1 DEF TxnType, Shaped, ReleaseTo
  <2>3. Shaped(u)
    BY <2>1, Zenon DEF TxnType, Shaped, ReleaseTo
  <2>4. /\ u.infos \in Seq(Tuples) /\ Distinct(u.infos) /\ At(u.infos) = At(t.infos) \ {p} /\ p \in At(t.infos)
        /\ At(t.infos) = t.locked
    <3>1. t.infos \in Seq(Tuples)
      BY <2>1, Zenon DEF TxnType
    <3>2. Distinct(t.infos) /\ At(t.infos) = t.locked
      BY <2>1 DEF Phase, Writing
    <3>3. 1 \in DOMAIN t.infos /\ Tail(t.infos) \in Seq(Tuples)
      BY <3>1, SeqHead, Zenon
    <3>4. Distinct(Tail(t.infos)) /\ At(Tail(t.infos)) = At(t.infos) \ {p}
      BY <3>1, <3>2, <1>SeqTake, Zenon
    <3>5. p \in At(t.infos)
      BY ONLY <3>3, Zenon DEF At
    <3> QED
      BY ONLY <2>2, <3>2, <3>3, <3>4, <3>5, Zenon
  <2>5. TxnType(u)
    <3>1. u.locked \in SUBSET Tuples
      BY <2>1, <2>2, Zenon DEF TxnType
    <3> QED
      BY <2>1, <2>2, <2>3, <2>4, <3>1, Zenon DEF TxnType
  <2>6. Inserts(u) = Inserts(t) /\ WrittenTuples(u) = WrittenTuples(t)
    BY ONLY <2>2, SameWrites, Zenon
  <2>7. t.wset = <<>> => WrittenTuples(t) = {}
    <3>1. t.wset = <<>> => DOMAIN t.wset = {}
      OBVIOUS
    <3> QED
      BY ONLY <3>1, Zenon DEF WrittenTuples
  <2>8. /\ u.pc \notin Reading /\ u.pc # "lock" /\ u.pc \notin Holding /\ u.pc \notin Calm
        /\ u.pc \notin Writing \ {"write"} /\ u.pc \notin Publishing /\ u.pc \notin {"lock"} \cup Holding
        /\ u.pc \in Writing => u.wset = <<>> /\ t.wset = <<>>
    BY ONLY <2>2, t.pc = "undo" \/ (t.pc = "write" /\ t.wset = <<>>)
       DEF Reading, Holding, Writing, Publishing, Calm
  <2>9. DOMAIN <<>> = {}
    OBVIOUS
  <2>10. Phase(u)
    <3>1. t.head = NoTuple /\ NoTuple \notin u.locked /\ (t.snap => t.wset = <<>>)
          /\ \A i, j \in DOMAIN t.wset :
               (i # j /\ t.wset[i].tuple = t.wset[j].tuple) => ~(t.wset[i].insert /\ t.wset[j].insert)
      <4>1. NoTuple \notin u.locked
        BY <2>5, Constants, Zenon DEF TxnType
      <4> QED
        BY ONLY <4>1, <2>1, <2>2, <2>8, Zenon DEF Phase
    <3>2. At(u.infos) = u.locked
      BY <2>2, <2>4, Zenon
    <3> QED
      BY ONLY <3>1, <3>2, <2>2, <2>4, <2>6, <2>7, <2>8, <2>9, Zenon DEF Phase
  <2>11. OwnLocks(u, T)
    BY ONLY <2>1, <2>2, <2>6, <2>8, Zenon DEF OwnLocks
  <2>12. OwnWrites(u, T, R)
    BY ONLY <2>1, <2>2, Zenon DEF OwnWrites, Numbered
  <2>13. OwnNumber(u, n) /\ Publisher(u, T, R) /\ GcRooted(u.scratch, T, R) /\ Reader(u, n)
    BY ONLY <2>1, <2>2, <2>8, Zenon DEF OwnNumber, Publisher, Reader, Numbered
  <2>14. Private(u) = Private(t) \ {p}
    <3>1. t.head = NoTuple
      BY ONLY <2>1, <2>2, <2>8, Zenon DEF Phase
    <3> QED
      BY ONLY <2>2, <3>1, Zenon DEF Private
  <2> QED
    BY <2>2, <2>4, <2>5, <2>10, <2>11, <2>12, <2>13, <2>14, Zenon DEF TxnInv, Released
  \* unlock of a tuple that was not inserted.
<1>KeepAction.
      ASSUME OccInv, NEW c \in Cores, NEW t, t = txn[c], NEW p, p = t.infos[1], t.infos # <<>>,
             t.pc = "undo" \/ (t.pc = "write" /\ t.wset = <<>>), p \notin Inserts(t),
             txn' = [txn EXCEPT ![c] = ReleaseTo(t)],
             tuple' = [tuple EXCEPT ![p] = unlock(@)],
             UNCHANGED <<tree, prog, queue, lastTid, clockvars>>
      PROVE  OccInv'
  <2> USE <1>KeepAction
  <2> SUFFICES ASSUME NEW u, u = ReleaseTo(t), txn' = [txn EXCEPT ![c] = u],
                      NEW S, S = [tuple EXCEPT ![p] = unlock(@)], tuple' = S
               PROVE  OccInv'
    BY Zenon
  <2>1. TxnInv(t, tuple, tree, tick) /\ TxnType(t) /\ OwnLocks(t, tuple)
    BY CoreFacts, Zenon
  <2>2. /\ TxnInv(u, tuple, tree, tick) /\ Private(u) = Private(t) \ {p} /\ p \in t.locked
        /\ u.locked = t.locked \ {p} /\ u.pc = t.pc
        /\ u.ctid = t.ctid /\ u.snap = t.snap /\ u.stid = t.stid
    <3>1. TxnInv(u, tuple, tree, tick) /\ Released(t, u)
      BY ONLY <2>1, t.pc = "undo" \/ (t.pc = "write" /\ t.wset = <<>>), t.infos # <<>>, u = ReleaseTo(t),
              <1>ReleaseStep, Zenon
    <3> QED
      BY <3>1, Zenon DEF Released
  <2>3. p \in Tuples /\ p \in Private(t) /\ tuple[p].version # MAX_TID /\ tuple[p].version # MIN_TID
    <3>1. p \in Tuples
      BY <2>1, <2>2, EntryTypes, Zenon
    <3>2. p \in Private(t)
      BY <2>2, <3>1, Constants, Zenon DEF Private
    <3>3. tuple[p].version # MAX_TID
      BY <2>1, <2>2, Zenon DEF OwnLocks
    <3>4. tuple[p].version # MIN_TID
      BY <3>2, OwnUsed, Zenon
    <3> QED
      BY <3>1, <3>2, <3>3, <3>4
  <2>4. Relocks(p, tuple, S) /\ ~S[p].locked
    BY <2>3, Relocking, Zenon
  <2>5. TxnInv(u, S, tree, tick) /\ Changes({p}, tuple, tree, S, tree)
    <3>1. p \notin Private(u)
      BY <2>2, Zenon
    <3> QED
      BY ONLY <2>2, <2>4, <3>1, Relocked, Zenon
  <2>6. Proper({p}, tuple, S, t, u, tick)
    <3>1. /\ Private(u) \subseteq Private(t) \cup {p} /\ Private(t) \subseteq Private(u) \cup {p}
          /\ t.locked \subseteq u.locked \cup {p}
      BY ONLY <2>2, Zenon
    <3> QED
      BY ONLY OccInv, <2>3, <2>4, <3>1, RelockProper, Zenon
  <2>7. Unshared(c, {p})
    <3>1. \A q \in {p} : q \in Private(txn[c]) \/ tuple[q].version = MIN_TID
      BY <2>3, Zenon
    <3> QED
      BY ONLY OccInv, c \in Cores, <3>1, OwnUnshared, Zenon
  <2>8. t.pc \notin {"idle", "post", "clean"} /\ u.pc \notin {"idle", "post", "clean"}
    BY <2>2
  <2> QED
    BY <2>2, <2>5, <2>6, <2>7, <2>8, TupleStep, Zenon
  \* A tentative insert is taken out of the index and unlocked.
<1>RemoveAction.
      ASSUME OccInv, NEW c \in Cores, NEW t, t = txn[c], NEW p, p = t.infos[1], t.infos # <<>>,
             t.pc = "undo", p \in Inserts(t),
             NEW u, u = ReleaseTo(t), txn' = [txn EXCEPT ![c] = u],
             NEW S, S = [tuple EXCEPT ![p] = unlock(clear_latest(@))], tuple' = S,
             NEW Q, Q = Without(tree, KeyOf(t, p)), tree' = Q,
             UNCHANGED <<prog, queue, lastTid, clockvars>>
      PROVE  OccInv'
  <2> USE <1>RemoveAction
  <2>1. /\ TxnInv(t, tuple, tree, tick) /\ TxnType(t) /\ OwnLocks(t, tuple) /\ OwnWrites(t, tuple, tree)
        /\ Guarded(guard[c], t, tick, done)
    BY CoreFacts, Zenon
  <2>2. t.pc \notin Writing /\ t.pc \notin {"idle", "post", "clean"}
    BY DEF Writing, Publishing
  <2>3. /\ TxnInv(u, tuple, tree, tick) /\ Private(u) = Private(t) \ {p} /\ p \in t.locked
        /\ u.locked = t.locked \ {p} /\ u.pc = t.pc
        /\ u.ctid = t.ctid /\ u.snap = t.snap /\ u.stid = t.stid
    <3>1. TxnInv(u, tuple, tree, tick) /\ Released(t, u)
      BY ONLY <2>1, t.pc = "undo", t.infos # <<>>, u = ReleaseTo(t), <1>ReleaseStep, Zenon
    <3> QED
      BY <3>1, Zenon DEF Released
  <2>4. p \in Tuples /\ p \in Private(t) /\ tuple[p].latest
    <3>1. p \in Tuples
      BY <2>1, <2>3, EntryTypes, Zenon
    <3>2. p # NoTuple
      BY ONLY <3>1, Constants, Zenon
    <3>3. p \in Private(t)
      BY <2>3, <3>2, Zenon DEF Private
    <3>4. tuple[p].latest
      BY <2>1, <2>2, <2>3, Zenon DEF OwnLocks
    <3> QED
      BY <3>1, <3>3, <3>4, Zenon
  <2>5. KeyOf(t, p) \in DOMAIN tree /\ tree[KeyOf(t, p)] = p
    <3>1. \E i \in DOMAIN t.wset : t.wset[i].tuple = p
      BY Zenon DEF Inserts
    <3>2. PICK i \in DOMAIN t.wset : t.wset[i].tuple = p /\ KeyOf(t, p) = t.wset[i].key
      BY ONLY <3>1, Zenon DEF KeyOf
    <3>3. Rooted(p, KeyOf(t, p), tuple, tree)
      BY <2>1, <3>2, Zenon DEF OwnWrites
    <3> QED
      BY <2>4, <3>3, Zenon DEF Rooted
  <2>6. Removes(p, KeyOf(t, p), tuple, tree, S, Q)
    <3>1. tuple \in [Tuples -> TupleRec] /\ tuple[p] \in TupleRec
      BY <2>4, DbFacts, Zenon
    <3>2. /\ clear_latest(tuple[p]) \in TupleRec /\ ~clear_latest(tuple[p]).latest
          /\ clear_latest(tuple[p]).version = tuple[p].version
      BY ONLY <3>1, TupleOps, Zenon
    <3>3. \E d \in TupleRec : /\ S = [tuple EXCEPT ![p] = d]
                              /\ d.version = tuple[p].version /\ ~d.latest /\ ~d.locked
      <4>1. ASSUME NEW a, a = clear_latest(tuple[p])
            PROVE  unlock(a) \in TupleRec /\ unlock(a).version = a.version /\ ~unlock(a).locked
                   /\ unlock(a).latest = a.latest
        BY ONLY <3>2, <4>1, TupleOps, Zenon
      <4>2. ASSUME NEW d, d = unlock(clear_latest(tuple[p]))
            PROVE  d \in TupleRec /\ d.version = tuple[p].version /\ ~d.latest /\ ~d.locked
        BY ONLY <3>2, <4>1, <4>2, Zenon
      <4> QED
        BY <4>2, Zenon
    <3>4. PICK d \in TupleRec : /\ S = [tuple EXCEPT ![p] = d]
                                /\ d.version = tuple[p].version /\ ~d.latest /\ ~d.locked
      BY ONLY <3>3, Zenon
    <3>5. S \in [Tuples -> TupleRec] /\ S[p] = d /\ \A q \in Tuples : q \notin {p} => S[q] = tuple[q]
      BY ONLY <2>4, <3>1, <3>4, Zenon
    <3> QED
      BY ONLY <2>5, <3>4, <3>5, Q = Without(tree, KeyOf(t, p)), Zenon DEF Removes
  <2>7. Unshared(c, {p})
    <3>1. \A q \in {p} : q \in Private(txn[c]) \/ tuple[q].version = MIN_TID
      BY <2>4, Zenon
    <3> QED
      BY ONLY OccInv, c \in Cores, <3>1, OwnUnshared, Zenon
  <2>8. /\ Changes({p}, tuple, tree, S, Q)
        /\ StillRooted(tuple, tree, S, Q) /\ Apart(c, u, S, Q) /\ GoodTypes(S, Q)
        /\ GoodIndex(tuple, tree, S, Q, t, u) /\ GoodTuples(tuple, S, t, u, tick)
    BY ONLY OccInv, c \in Cores, t = txn[c], <2>3, <2>4, <2>6, <2>7, <1>Removed, Zenon
  <2>9. TxnInv(u, S, Q, tick)
    <3>1. \A q \in {p} : q \notin Private(u)
      BY ONLY <2>3, Zenon
    <3>2. SameTuples(u, tuple, S) /\ SameIndex(u, tree, Q)
      BY ONLY <2>3, <2>8, <3>1, Untouched
    <3> QED
      BY ONLY <2>3, <2>8, <3>2, Frame, Zenon
  <2>10. Guarded(guard[c], u, tick, done)
    <3>1. u.pc \notin {"idle", "post", "clean"}
      BY ONLY <2>2, <2>3, Zenon
    <3> QED
      BY ONLY <2>1, <2>2, <2>3, <3>1, StillGuarded, Zenon
  <2> QED
    BY <2>8, <2>9, <2>10, DbQuiet, Zenon
  \* What Release does to the transaction.
<1>ReleaseIs.
      ASSUME OccInv, NEW c \in Cores, NEW t, t = txn[c], t.infos # <<>>, NEW remove, Release(c, Head(t.infos), remove)
      PROVE  txn' = [txn EXCEPT ![c] = ReleaseTo(t)] /\ Head(t.infos) = t.infos[1]
  <2> USE <1>ReleaseIs
  <2>1. Shaped(t) /\ t.infos \in Seq(Tuples)
    BY CoreFacts, Zenon DEF TxnType
  <2>2. Head(t.infos) = t.infos[1]
    BY ONLY <2>1, t.infos # <<>>, SeqHead, Zenon
  <2>3. txn' = [txn EXCEPT ![c].locked = @ \ {Head(t.infos)}, ![c].infos = Tail(@)]
    BY Zenon DEF Release
  <2>4. DOMAIN txn = Cores /\ txn = [e \in Cores |-> txn[e]]
    BY TypeFacts, Zenon
  <2>5. txn' = [txn EXCEPT ![c] = [t EXCEPT !.locked = @ \ {t.infos[1]}, !.infos = Tail(@)]]
    BY ONLY <2>1, <2>2, <2>3, <2>4, t = txn[c], c \in Cores, Zenon DEF Shaped
  <2> QED
    BY <2>2, <2>5, Zenon DEF ReleaseTo
  \* A transaction without locks comes to rest.
<1>RestStep.
      ASSUME NEW T, NEW R, NEW n, NEW t, NEW u, TxnInv(t, T, R, n), t.pc \notin Publishing,
             t.locked = {}, Shaped(u), SameLocks(t, u), u.pc \in Calm, u.ops = t.ops,
             u.cur = t.cur, u.tid = t.tid, u.rset = t.rset
      PROVE  TxnInv(u, T, R, n) /\ Private(u) = Private(t)
  <2> USE <1>RestStep
  <2>1. TxnType(t) /\ Reader(t, n) /\ GcRooted(t.scratch, T, R)
    BY Zenon DEF TxnInv
  <2>2. u.pc \notin {"version", "value"}
    BY DEF Calm
  <2>3. TxnType(u)
    BY <2>1, <2>2, Zenon DEF TxnType, SameLocks
  <2>4. Reader(u, n) /\ GcRooted(u.scratch, T, R)
    BY <2>1, Zenon DEF Reader, SameLocks
  <2>5. u.wset = t.wset /\ u.locked = t.locked /\ u.ctid = t.ctid /\ u.head = t.head /\ u.snap = t.snap
    BY Zenon DEF SameLocks
  <2>6. TxnInv(u, T, R, n)
    BY ONLY TxnInv(t, T, R, n), t.pc \notin Publishing, t.locked = {}, u.pc \in Calm, <2>3, <2>4, <2>5,
            EndStep, Zenon
  <2> QED
    BY ONLY <2>5, <2>6, SamePrivate, Zenon
  \* A transaction whose list of locks is empty is over.
<1>RestAction.
      ASSUME OccInv, NEW c \in Cores, NEW t, t = txn[c], t.pc \in {"undo", "write"}, t.infos = <<>>,
             Go(c, "end"), UNCHANGED <<prog, dbvars, gcvars, lastTid, clockvars>>
      PROVE  OccInv'
  <2> USE <1>RestAction
  <2>1. TxnInv(t, tuple, tree, tick) /\ Phase(t) /\ Shaped(t)
    BY CoreFacts, Zenon
  <2>2. /\ t.pc \in {"undo"} \cup Writing /\ t.pc \notin Publishing /\ "end" \in Calm
        /\ t.pc \notin {"idle", "post", "clean"} /\ "end" \notin {"idle", "post", "clean"}
    BY DEF Writing, Publishing, Calm
  <2>3. t.locked = {}
    <3>1. At(<<>>) = {}
      BY DEF At
    <3> QED
      BY <2>1, <2>2, <3>1, Zenon DEF Phase
  <2>4. txn' = [txn EXCEPT ![c] = [t EXCEPT !.pc = "end"]]
    BY TypeFacts, Zenon DEF Go
  <2>5. ASSUME NEW u, u = [t EXCEPT !.pc = "end"], txn' = [txn EXCEPT ![c] = u]
        PROVE  OccInv'
    <3>1. Shaped(u)
      BY ONLY <2>1, <2>5, Zenon DEF Shaped
    <3>2. SameLocks(t, u) /\ u.pc = "end" /\ u.ops = t.ops /\ u.cur = t.cur /\ u.tid = t.tid
          /\ u.rset = t.rset
      BY ONLY <2>1, <2>5 DEF Shaped, SameLocks
    <3>3. TxnInv(u, tuple, tree, tick)
      BY ONLY <2>1, <2>2, <2>3, <3>1, <3>2, <1>RestStep
    <3>4. Continues(t, u)
      BY <2>2, <3>2, Unmoved, Zenon
    <3> QED
      BY <2>2, <2>5, <3>3, <3>4, QuietStep, Zenon
  <2> QED
    BY <2>4, <2>5, Zenon
  \* The release of the locks of an abort keeps the invariant.
<1>UndoAction.
      ASSUME OccInv, NEW c \in Cores, NEW t, t = txn[c], undo(c)
      PROVE  OccInv'
  <2> USE <1>UndoAction
  <2>1. t.pc = "undo" /\ UNCHANGED <<prog, gcvars, lastTid, clockvars>>
    BY Zenon DEF undo
  <2>2. CASE t.infos = <<>>
    <3>1. Go(c, "end") /\ UNCHANGED dbvars
      BY <2>2, Zenon DEF undo
    <3>2. UNCHANGED <<prog, dbvars, gcvars, lastTid, clockvars>>
      BY <2>1, <3>1, Zenon
    <3>3. t.pc \in {"undo", "write"}
      BY <2>1, Zenon
    <3> QED
      BY ONLY OccInv, c \in Cores, t = txn[c], <2>2, <3>1, <3>2, <3>3, <1>RestAction, Zenon
  <2>3. CASE t.infos # <<>>
    <3>1. Release(c, Head(t.infos), Head(t.infos) \in Inserts(t))
      BY <2>3, Zenon DEF undo
    <3>2. txn' = [txn EXCEPT ![c] = ReleaseTo(t)] /\ Head(t.infos) = t.infos[1]
      BY ONLY OccInv, c \in Cores, t = txn[c], <2>3, <3>1, <1>ReleaseIs, Zenon
    <3>3. UNCHANGED <<prog, queue, lastTid, clockvars>>
      BY <2>1, Zenon DEF gcvars
    <3>4. PICK p : p = t.infos[1]
      BY Zenon
    <3>5. CASE p \in Inserts(t)
      <4>1. /\ tuple' = [tuple EXCEPT ![p] = unlock(clear_latest(@))]
            /\ tree' = Without(tree, KeyOf(t, p))
        BY <3>1, <3>2, <3>4, <3>5, Zenon DEF Release
      <4> QED
        BY <2>1, <2>3, <3>2, <3>3, <3>4, <3>5, <4>1, <1>RemoveAction, Zenon
    <3>6. CASE p \notin Inserts(t)
      <4>1. tuple' = [tuple EXCEPT ![p] = unlock(@)] /\ UNCHANGED tree
        BY <3>1, <3>2, <3>4, <3>6, Zenon DEF Release
      <4>2. UNCHANGED <<tree, prog, queue, lastTid, clockvars>>
        BY ONLY <3>3, <4>1, Zenon
      <4> QED
        BY <2>1, <2>3, <3>2, <3>4, <3>6, <4>1, <4>2, <1>KeepAction, Zenon
    <3> QED
      BY <3>5, <3>6, Zenon
  <2> QED
    BY <2>2, <2>3, Zenon
  \* unlock_tuples after the writes keeps the invariant.
<1>UnlockAction.
      ASSUME OccInv, NEW c \in Cores, NEW t, t = txn[c], unlock_tuples(c)
      PROVE  OccInv'
  <2> USE <1>UnlockAction
  <2>1. t.pc = "write" /\ t.wset = <<>> /\ UNCHANGED <<prog, gcvars, lastTid, clockvars>>
    BY Zenon DEF unlock_tuples
  <2>2. CASE t.infos = <<>>
    <3>1. Go(c, "end") /\ UNCHANGED dbvars
      BY <2>2, Zenon DEF unlock_tuples
    <3>2. UNCHANGED <<prog, dbvars, gcvars, lastTid, clockvars>>
      BY <2>1, <3>1, Zenon
    <3>3. t.pc \in {"undo", "write"}
      BY <2>1, Zenon
    <3> QED
      BY ONLY OccInv, c \in Cores, t = txn[c], <2>2, <3>1, <3>2, <3>3, <1>RestAction, Zenon
  <2>3. CASE t.infos # <<>>
    <3>1. Release(c, Head(t.infos), FALSE)
      BY <2>3, Zenon DEF unlock_tuples
    <3>2. txn' = [txn EXCEPT ![c] = ReleaseTo(t)] /\ Head(t.infos) = t.infos[1]
      BY ONLY OccInv, c \in Cores, t = txn[c], <2>3, <3>1, <1>ReleaseIs, Zenon
    <3>3. UNCHANGED <<prog, queue, lastTid, clockvars>>
      BY <2>1, Zenon DEF gcvars
    <3>4. PICK p : p = t.infos[1]
      BY Zenon
    <3>5. p \notin Inserts(t)
      BY ONLY <2>1 DEF Inserts
    <3>6. tuple' = [tuple EXCEPT ![p] = unlock(@)] /\ UNCHANGED tree
      BY <3>1, <3>2, <3>4, Zenon DEF Release
    <3>7. UNCHANGED <<tree, prog, queue, lastTid, clockvars>>
      BY ONLY <3>3, <3>6, Zenon
    <3> QED
      BY <2>1, <2>3, <3>2, <3>4, <3>5, <3>6, <3>7, <1>KeepAction, Zenon
  <2> QED
    BY <2>2, <2>3, Zenon
  \* A tuple that is freed keeps its header.
<1>FreesFacts.
      ASSUME NEW d \in TupleRec, NEW e, e = Frees(d)
      PROVE  e \in TupleRec /\ SameHeader(d, e)
  <2> USE <1>FreesFacts
  <2>1. Formed(d)
    BY TupleFields, Zenon
  <2>2. e \in TupleRec
    BY Zenon DEF TupleRec, Frees
  <2>3. e.locked = d.locked /\ e.intent = d.intent /\ e.version = d.version /\ e.latest = d.latest
    BY ONLY <2>1, e = Frees(d), Zenon DEF Formed, Frees
  <2> QED
    BY <2>2, <2>3, Zenon DEF SameHeader
  \* A core that cleans owns nothing, before and after.
<1>CleanStep.
      ASSUME OccInv, NEW c \in Cores, NEW t, t = txn[c], t.pc = "clean", NEW l \in {"idle", "clean"},
             NEW s \in Seq(GcEntry), GcRooted(s, tuple, tree), NEW u, u = CleanTo(t, l, s)
      PROVE  /\ TxnInv(u, tuple, tree, tick) /\ Guarded(guard[c], u, tick, done)
             /\ Private(u) = {} /\ Private(t) = {} /\ u.locked = {} /\ t.locked = {}
  <2> USE <1>CleanStep
  <2>1. TxnInv(t, tuple, tree, tick) /\ Shaped(t) /\ Guarded(guard[c], t, tick, done)
    BY CoreFacts, Zenon
  <2>2. t.pc \in Calm /\ l \in Calm /\ t.pc \in {"idle", "post", "clean"} /\ l \in {"idle", "post", "clean"}
    BY DEF Calm
  <2>3. u = [t EXCEPT !.pc = l, !.scratch = s]
    BY Zenon DEF CleanTo
  <2>4. Shaped(u)
    BY ONLY <2>1, <2>3, Zenon DEF Shaped
  <2>5. /\ u.pc = l /\ u.ops = t.ops /\ u.infos = t.infos /\ u.snap = t.snap /\ u.stid = t.stid
        /\ u.cur = t.cur /\ u.tid = t.tid /\ u.rset = t.rset /\ u.wset = t.wset
        /\ u.locked = t.locked /\ u.ctid = t.ctid /\ u.rest = t.rest /\ u.head = t.head
        /\ u.scratch = s
    BY ONLY <2>1, <2>3 DEF Shaped
  <2>6. TxnInv(u, tuple, tree, tick) /\ Private(u) = Private(t)
    <3>1. u.pc \in Calm /\ u.scratch \in Seq(GcEntry) /\ GcRooted(u.scratch, tuple, tree) /\ t.pc \in Calm
      BY ONLY <2>2, <2>5, s \in Seq(GcEntry), GcRooted(s, tuple, tree), Zenon
    <3>2. Retains(t, u)
      BY ONLY <2>4, <2>5, Zenon DEF Retains
    <3>3. TxnInv(u, tuple, tree, tick)
      BY ONLY <2>1, <3>1, <3>2, CalmStep, Zenon
    <3> QED
      BY ONLY <2>5, <3>3, SamePrivate, Zenon
  <2>7. Guarded(guard[c], u, tick, done)
    BY ONLY <2>1, <2>2, <2>5, Zenon DEF Guarded
  <2>8. t.locked = {} /\ Private(t) = {}
    BY ONLY <2>1, <2>2, CalmFacts, Zenon
  <2> QED
    BY ONLY <2>5, <2>6, <2>7, <2>8, Zenon
  \* A cleaning step that leaves the index alone keeps the invariant.
<1>CleanChange.
      ASSUME OccInv, NEW c \in Cores, NEW t, t = txn[c], t.pc = "clean", NEW l \in {"idle", "clean"},
             NEW s \in Seq(GcEntry), GcRooted(s, tuple, tree), NEW u, u = CleanTo(t, l, s),
             txn' = [txn EXCEPT ![c] = u], NEW S, SameHeaders(tuple, S), tuple' = S,
             NEW q \in Seq(GcEntry), GcRooted(q, tuple, tree), queue' = [queue EXCEPT ![c] = q],
             UNCHANGED <<tree, prog, lastTid, clockvars>>
      PROVE  OccInv'
  <2> USE <1>CleanChange
  <2>1. /\ TxnInv(u, tuple, tree, tick) /\ Guarded(guard[c], u, tick, done)
        /\ Private(u) = {} /\ Private(t) = {} /\ u.locked = {} /\ t.locked = {}
    BY ONLY OccInv, c \in Cores, t = txn[c], t.pc = "clean", l \in {"idle", "clean"}, s \in Seq(GcEntry),
            GcRooted(s, tuple, tree), u = CleanTo(t, l, s), <1>CleanStep, Zenon
  <2>2. Changes({}, tuple, tree, S, tree)
    <3>1. \A p \in Tuples : /\ S[p].locked = tuple[p].locked /\ S[p].intent = tuple[p].intent
                            /\ S[p].version = tuple[p].version /\ S[p].latest = tuple[p].latest
      BY ONLY SameHeaders(tuple, S), Zenon DEF SameHeaders, SameHeader
    <3> QED
      BY ONLY <3>1, Zenon DEF Changes
  <2>3. Proper({}, tuple, S, t, u, tick)
    <3>1. S \in [Tuples -> TupleRec]
      BY ONLY SameHeaders(tuple, S), Zenon DEF SameHeaders
    <3>2. Private(u) \subseteq Private(t) \cup {} /\ Private(t) \subseteq Private(u) \cup {} /\ t.locked \subseteq u.locked \cup {}
      BY ONLY <2>1, Zenon
    <3> QED
      BY ONLY <3>1, <3>2, Zenon DEF Proper
  <2>4. Unshared(c, {})
    BY ONLY Zenon DEF Unshared
  <2>5. /\ StillRooted(tuple, tree, S, tree) /\ Apart(c, u, S, tree) /\ GoodTypes(S, tree)
        /\ GoodIndex(tuple, tree, S, tree, t, u) /\ GoodTuples(tuple, S, t, u, tick)
    BY ONLY OccInv, c \in Cores, t = txn[c], <2>2, <2>3, <2>4, SameTree, Zenon
  <2>6. TxnInv(u, S, tree, tick)
    <3>1. \A p \in {} : p \notin Private(u)
      BY ONLY Zenon
    <3>2. TxnInv(u, tuple, tree, tick)
      BY ONLY <2>1
    <3>3. SameTuples(u, tuple, S) /\ SameIndex(u, tree, tree)
      BY ONLY <2>2, <3>1, <3>2, Untouched
    <3>4. StillRooted(tuple, tree, S, tree)
      BY ONLY <2>5
    <3> QED
      BY ONLY <3>2, <3>3, <3>4, Frame, Zenon
  <2>7. GcRooted(q, S, tree)
    <3>1. StillRooted(tuple, tree, S, tree)
      BY ONLY <2>5
    <3> QED
      BY ONLY q \in Seq(GcEntry), GcRooted(q, tuple, tree), <3>1, GcFrame, Zenon
  <2>8. GoodIndex(tuple, tree, S, tree, txn[c], u) /\ GoodTuples(tuple, S, txn[c], u, tick)
    BY ONLY <2>5, t = txn[c], Zenon
  <2>9. tree' = tree /\ UNCHANGED <<prog, lastTid, clockvars>> /\ Guarded(guard[c], u, tick, done)
    BY ONLY <2>1, UNCHANGED <<tree, prog, lastTid, clockvars>>
  <2> QED
    BY ONLY OccInv, c \in Cores, q \in Seq(GcEntry), <2>5, <2>6, <2>7, <2>8, <2>9, tuple' = S,
            txn' = [txn EXCEPT ![c] = u], queue' = [queue EXCEPT ![c] = q], DbStep, Zenon
  \* Taking a deleted record out of the index is safe although its tuple is not
  \* locked: no transaction has locked it, so none relies on its place.
<1>CleanRemove.
      ASSUME OccInv, NEW c \in Cores, NEW t, t = txn[c], t.pc = "clean",
             NEW s \in Seq(GcEntry), GcRooted(s, tuple, tree), NEW u, u = CleanTo(t, "clean", s),
             txn' = [txn EXCEPT ![c] = u], NEW p \in Tuples, NEW k, k \in DOMAIN tree, tree[k] = p,
             ~tuple[p].locked, tuple' = [tuple EXCEPT ![p] = clear_latest(@)], tree' = Without(tree, k),
             UNCHANGED <<prog, queue, lastTid, clockvars>>
      PROVE  OccInv'
  <2> USE <1>CleanRemove
  <2>1. /\ TxnInv(u, tuple, tree, tick) /\ Guarded(guard[c], u, tick, done)
        /\ Private(u) = {} /\ Private(t) = {} /\ u.locked = {} /\ t.locked = {}
    <3>1. "clean" \in {"idle", "clean"}
      BY ONLY Zenon
    <3> QED
      BY ONLY OccInv, c \in Cores, t = txn[c], t.pc = "clean", <3>1, s \in Seq(GcEntry),
              GcRooted(s, tuple, tree), u = CleanTo(t, "clean", s), <1>CleanStep, Zenon
  <2>2. PICK S : S = [tuple EXCEPT ![p] = clear_latest(@)]
    BY Zenon
  <2>3. PICK Q : Q = Without(tree, k)
    BY Zenon
  <2>4. Removes(p, k, tuple, tree, S, Q)
    <3>1. tuple \in [Tuples -> TupleRec] /\ tuple[p] \in TupleRec
      BY DbFacts, Zenon
    <3>2. PICK d : d = clear_latest(tuple[p])
      BY Zenon
    <3>3. d \in TupleRec /\ ~d.latest /\ d.version = tuple[p].version /\ d.locked = tuple[p].locked
      BY ONLY <3>1, <3>2, TupleOps, Zenon
    <3>4. S = [tuple EXCEPT ![p] = d]
      BY ONLY <2>2, <3>2, Zenon
    <3>5. S \in [Tuples -> TupleRec] /\ S[p] = d /\ \A q \in Tuples : q \notin {p} => S[q] = tuple[q]
      BY ONLY <3>1, <3>3, <3>4, p \in Tuples, Zenon
    <3> QED
      BY ONLY <2>3, <3>3, <3>5, k \in DOMAIN tree, tree[k] = p, ~tuple[p].locked, Zenon DEF Removes
  <2>5. Unshared(c, {p})
    <3>1. tuple[p].latest => \E j \in DOMAIN tree : tree[j] = p
      BY ONLY k \in DOMAIN tree, tree[k] = p, Zenon
    <3>2. ASSUME NEW d \in Cores PROVE p \notin Private(txn[d])
      BY ONLY OccInv, <3>1, <3>2, ~tuple[p].locked, Free, Zenon
    <3> QED
      BY ONLY <3>2, Zenon DEF Unshared
  <2>6. Private(u) = Private(t) \ {p} /\ u.locked = t.locked \ {p}
    BY ONLY <2>1, Zenon
  <2>7. /\ Changes({p}, tuple, tree, S, Q)
        /\ StillRooted(tuple, tree, S, Q) /\ Apart(c, u, S, Q) /\ GoodTypes(S, Q)
        /\ GoodIndex(tuple, tree, S, Q, t, u) /\ GoodTuples(tuple, S, t, u, tick)
    BY ONLY OccInv, c \in Cores, t = txn[c], p \in Tuples, <2>4, <2>5, <2>6, <1>Removed, Zenon
  <2>8. TxnInv(u, S, Q, tick)
    <3>1. \A q \in {p} : q \notin Private(u)
      BY ONLY <2>1, Zenon
    <3>2. TxnInv(u, tuple, tree, tick) /\ Changes({p}, tuple, tree, S, Q) /\ StillRooted(tuple, tree, S, Q)
      BY ONLY <2>1, <2>7
    <3>3. SameTuples(u, tuple, S) /\ SameIndex(u, tree, Q)
      BY ONLY <3>1, <3>2, Untouched
    <3> QED
      BY ONLY <3>2, <3>3, Frame, Zenon
  <2>9. GoodIndex(tuple, tree, S, Q, txn[c], u) /\ GoodTuples(tuple, S, txn[c], u, tick)
    BY ONLY <2>7, t = txn[c], Zenon
  <2>10. tuple' = S /\ tree' = Q /\ Guarded(guard[c], u, tick, done)
    BY ONLY <2>1, <2>2, <2>3, tuple' = [tuple EXCEPT ![p] = clear_latest(@)], tree' = Without(tree, k), Zenon
  <2> QED
    BY ONLY OccInv, c \in Cores, <2>7, <2>8, <2>9, <2>10, txn' = [txn EXCEPT ![c] = u],
            UNCHANGED <<prog, queue, lastTid, clockvars>>, DbQuiet, Zenon
  \* clean_up_to_including keeps the invariant, whether it frees a version,
  \* removes a record, or queues one again.
<1>CleanAction.
      ASSUME OccInv, NEW c \in Cores, NEW t, t = txn[c], clean_up_to_including(c)
      PROVE  OccInv'
  <2> USE <1>CleanAction
  <2>1. t.pc = "clean" /\ UNCHANGED <<prog, lastTid, clockvars>>
    BY Zenon DEF clean_up_to_including
  <2>2. /\ Shaped(t) /\ t.scratch \in Seq(GcEntry) /\ GcRooted(t.scratch, tuple, tree)
        /\ GcRooted(queue[c], tuple, tree)
    BY CoreFacts, Zenon DEF TxnType
  <2>3. /\ tuple \in [Tuples -> TupleRec] /\ DOMAIN txn = Cores /\ txn = [b \in Cores |-> txn[b]]
        /\ queue \in [Cores -> Seq(GcEntry)] /\ queue[c] \in Seq(GcEntry)
        /\ queue = [queue EXCEPT ![c] = queue[c]]
    BY DbFacts, TypeFacts, Zenon
  <2>4. SameHeaders(tuple, tuple)
    BY ONLY <2>3, Zenon DEF SameHeaders, SameHeader
  <2>5. CASE t.scratch = <<>> /\ Go(c, "idle") /\ UNCHANGED <<dbvars, queue>>
    <3>1. PICK u : u = CleanTo(t, "idle", t.scratch)
      BY Zenon
    <3>2. txn' = [txn EXCEPT ![c] = u]
      <4>1. txn' = [txn EXCEPT ![c] = [t EXCEPT !.pc = "idle"]]
        BY ONLY <2>3, <2>5, t = txn[c], c \in Cores, Zenon DEF Go
      <4>2. [t EXCEPT !.pc = "idle"] = u
        BY ONLY <2>2, <3>1, Zenon DEF Shaped, CleanTo
      <4> QED
        BY ONLY <4>1, <4>2, Zenon
    <3>3. tuple' = tuple /\ UNCHANGED <<tree, prog, lastTid, clockvars>> /\ queue' = [queue EXCEPT ![c] = queue[c]]
      BY ONLY <2>1, <2>3, <2>5, Zenon DEF dbvars
    <3>4. "idle" \in {"idle", "clean"} /\ t.pc = "clean"
      BY ONLY <2>1, Zenon
    <3> QED
      BY ONLY OccInv, c \in Cores, t = txn[c], <2>2, <2>3, <2>4, <3>1, <3>2, <3>3, <3>4, <1>CleanChange, Zenon
  <2>6. CASE t.scratch # <<>>
    <3>1. PICK e : e = Head(t.scratch)
      BY Zenon
    <3>2. PICK p : p = e.tuple
      BY Zenon
    <3>3. PICK s : s = Tail(t.scratch)
      BY Zenon
    <3>4. /\ e \in GcEntry /\ s \in Seq(GcEntry) /\ GcRooted(s, tuple, tree)
          /\ e.key # NoKey => Rooted(p, e.key, tuple, tree)
      <4>1. /\ 1 \in DOMAIN t.scratch /\ t.scratch[1] \in GcEntry /\ Head(t.scratch) = t.scratch[1]
            /\ Tail(t.scratch) \in Seq(GcEntry)
        BY ONLY <2>2, <2>6, SeqHead, Zenon
      <4>2. \A i \in DOMAIN s : \E j \in DOMAIN t.scratch : s[i] = t.scratch[j]
        <5>1. \A i \in DOMAIN Tail(t.scratch) : i + 1 \in DOMAIN t.scratch /\ Tail(t.scratch)[i] = t.scratch[i + 1]
          BY ONLY <2>2, <2>6, SeqHead, Zenon
        <5> QED
          BY ONLY <3>3, <5>1, Zenon
      <4>3. GcRooted(s, tuple, tree)
        BY ONLY <2>2, <4>2, Zenon DEF GcRooted
      <4> QED
        BY ONLY <2>2, <3>1, <3>2, <3>3, <4>1, <4>3, Zenon DEF GcRooted
    <3>5. p \in Tuples
      BY ONLY <3>2, <3>4 DEF GcEntry
    <3>6. PICK u : u = CleanTo(t, "clean", s)
      BY Zenon
    <3>7. txn' = [txn EXCEPT ![c] = u]
      <4>1. txn' = [txn EXCEPT ![c].scratch = Tail(@)]
        BY ONLY <2>6, clean_up_to_including(c), t = txn[c], Zenon DEF clean_up_to_including
      <4>2. txn' = [txn EXCEPT ![c] = [t EXCEPT !.scratch = s]]
        BY ONLY <2>3, <3>3, <4>1, t = txn[c], c \in Cores, Zenon
      <4>3. [t EXCEPT !.scratch = s] = u
        BY ONLY <2>1, <2>2, <3>6, Zenon DEF Shaped, CleanTo
      <4> QED
        BY ONLY <4>2, <4>3, Zenon
    <3>8. \/ /\ tuple' = [tuple EXCEPT ![p].freed = TRUE] /\ UNCHANGED <<tree, queue>>
          \/ /\ queue' = [queue EXCEPT ![c] = Append(queue[c], [tick |-> to_read_only_tick(tick), tuple |-> p, key |-> NoKey])]
             /\ UNCHANGED dbvars
          \/ /\ e.key # NoKey /\ ~tuple[p].locked /\ tuple[p].latest
             /\ tuple' = [tuple EXCEPT ![p] = clear_latest(@)] /\ tree' = Without(tree, e.key) /\ UNCHANGED queue
      BY ONLY <2>6, <3>1, <3>2, clean_up_to_including(c), t = txn[c], Zenon DEF clean_up_to_including
    <3>9. "clean" \in {"idle", "clean"} /\ t.pc = "clean" /\ s \in Seq(GcEntry) /\ GcRooted(s, tuple, tree)
      BY ONLY <2>1, <3>4, Zenon
    <3>10. CASE tuple' = [tuple EXCEPT ![p].freed = TRUE] /\ UNCHANGED <<tree, queue>>
      <4>1. PICK d : d = Frees(tuple[p])
        BY Zenon
      <4>2. d \in TupleRec /\ SameHeader(tuple[p], d)
        <5>1. tuple[p] \in TupleRec
          BY ONLY <2>3, <3>5, Zenon
        <5> QED
          BY ONLY <4>1, <5>1, <1>FreesFacts, Zenon
      <4>3. PICK S : S = [tuple EXCEPT ![p] = d]
        BY Zenon
      <4>4. tuple' = S
        <5>1. tuple' = [tuple EXCEPT ![p] = [tuple[p] EXCEPT !.freed = TRUE]]
          BY ONLY <2>3, <3>5, <3>10, Zenon
        <5> QED
          BY ONLY <4>1, <4>3, <5>1, Zenon DEF Frees
      <4>5. SameHeaders(tuple, S)
        <5>1. S \in [Tuples -> TupleRec] /\ S[p] = d /\ \A q \in Tuples : q # p => S[q] = tuple[q]
          BY ONLY <2>3, <3>5, <4>2, <4>3, Zenon
        <5>2. ASSUME NEW q \in Tuples PROVE SameHeader(tuple[q], S[q])
          BY ONLY <4>2, <5>1, <5>2, Zenon DEF SameHeader
        <5> QED
          BY ONLY <5>1, <5>2, Zenon DEF SameHeaders
      <4>6. UNCHANGED <<tree, prog, lastTid, clockvars>> /\ queue' = [queue EXCEPT ![c] = queue[c]]
        BY ONLY <2>1, <2>3, <3>10, Zenon
      <4> QED
        BY ONLY OccInv, c \in Cores, t = txn[c], <2>2, <2>3, <3>6, <3>7, <3>9, <4>4, <4>5, <4>6, <1>CleanChange, Zenon
    <3>11. CASE /\ queue' = [queue EXCEPT ![c] = Append(queue[c], [tick |-> to_read_only_tick(tick), tuple |-> p, key |-> NoKey])]
                /\ UNCHANGED dbvars
      <4>1. PICK x : x = [tick |-> to_read_only_tick(tick), tuple |-> p, key |-> NoKey]
        BY Zenon
      <4>2. PICK q : q = Append(queue[c], x)
        BY Zenon
      <4>3. x \in GcEntry /\ x.key = NoKey
        <5>1. to_read_only_tick(tick) \in Int
          <6>1. tick \in Nat
            BY TypeFacts, Zenon
          <6>2. to_read_only_tick(tick) \in Nat
            BY ONLY <6>1, Constants, Quotient, Zenon DEF to_read_only_tick
          <6> QED
            BY ONLY <6>2
        <5> QED
          BY ONLY <3>5, <4>1, <5>1 DEF GcEntry
      <4>4. q \in Seq(GcEntry) /\ GcRooted(q, tuple, tree)
        <5>1. q = queue[c] \o <<x>>
          BY ONLY <2>3, <4>2, <4>3
        <5>2. <<x>> \in Seq(GcEntry) /\ GcRooted(<<x>>, tuple, tree)
          BY ONLY <4>3, GcOne, Zenon
        <5> QED
          BY ONLY <2>2, <2>3, <5>1, <5>2, GcConcat, Zenon
      <4>5. tuple' = tuple /\ UNCHANGED <<tree, prog, lastTid, clockvars>> /\ queue' = [queue EXCEPT ![c] = q]
        BY ONLY <2>1, <3>11, <4>1, <4>2, Zenon DEF dbvars
      <4> QED
        BY ONLY OccInv, c \in Cores, t = txn[c], <2>4, <3>6, <3>7, <3>9, <4>4, <4>5, <1>CleanChange, Zenon
    <3>12. CASE /\ e.key # NoKey /\ ~tuple[p].locked /\ tuple[p].latest
                /\ tuple' = [tuple EXCEPT ![p] = clear_latest(@)] /\ tree' = Without(tree, e.key) /\ UNCHANGED queue
      <4>1. PICK k : k = e.key
        BY Zenon
      <4>2. k \in DOMAIN tree /\ tree[k] = p
        BY ONLY <3>4, <3>12, <4>1, Zenon DEF Rooted
      <4>3. /\ ~tuple[p].locked /\ tuple' = [tuple EXCEPT ![p] = clear_latest(@)] /\ tree' = Without(tree, k)
            /\ UNCHANGED <<prog, queue, lastTid, clockvars>>
        BY ONLY <2>1, <3>12, <4>1, Zenon
      <4> QED
        BY ONLY OccInv, c \in Cores, t = txn[c], <3>5, <3>6, <3>7, <3>9, <4>2, <4>3, <1>CleanRemove, Zenon
    <3> QED
      BY ONLY <3>8, <3>10, <3>11, <3>12, Zenon
  <2> QED
    BY <2>5, <2>6, Zenon DEF clean_up_to_including
<1> QED
  BY <1>KeepAction, <1>RemoveAction, <1>RestAction, <1>UndoAction, <1>UnlockAction, <1>CleanAction, Zenon

=============================================================================
