--------------------------------- MODULE Occ ---------------------------------
(***************************************************************************)
(* The transactions of silo (txn_impl.h, txn_proto2_impl.h): optimistic    *)
(* reads, tentative inserts, the commit protocol with its sorted locks and *)
(* its validation, aborts, snapshot transactions, and the cleaning of old  *)
(* versions.  A core runs the transactions of its program one after the    *)
(* other; the steps of the cores interleave at the loads and stores the    *)
(* protocol's argument depends on.                                         *)
(*                                                                         *)
(* The index is one leaf of masstree whose changes are atomic (they are    *)
(* made under the lock of the leaf).  The program is built for x86-64,     *)
(* whose loads see the newest store, so a core reads the clock as it is.   *)
(***************************************************************************)
EXTENDS Dbtuple, Sequences, FiniteSetsExt

CONSTANTS
    Keys,
    MaxTuples,      \* bound on the tuples ever allocated
    Scenarios,      \* [progs, init, ticks]: what the cores run, on which database
    VersionFirst    \* the order of the two loads in full_version_value()

Tuples == 1 .. MaxTuples
NoKey == "none"
NoNode == [vinsert |-> 0, size |-> 0]

\* What a transaction does: gets, and puts that expect a new key or do not.
Ops == [op : {"get"}, k : Keys] \cup [op : {"put"}, k : Keys, v : Nat, new : BOOLEAN]

ASSUME OccAssumption ==
    /\ {NMAXCORES, NumIds - 1, ReadOnlyEpochMultiplier, MaxTick} \subseteq Nat \ {0}
    /\ NumIds \in Nat /\ MaxTuples \in Nat
    /\ NoKey \notin Keys /\ IsFiniteSet(Keys) /\ 2 * Cardinality(Keys) <= MaxTuples
    /\ Scenarios \subseteq [progs : [Cores -> Seq([snap : BOOLEAN, abort : BOOLEAN, ops : Seq(Ops)])],
                            init : [Keys -> Nat], ticks : Nat]

VARIABLES
    scen,            \* the scenario
    prog,            \* transactions each core has still to run
    txn,             \* the transaction of each core
    tuple,           \* the tuples, by address
    tree,            \* the leaf: the tuple of a key
    leaf,            \* the version word of the leaf
    queue,           \* threadctx::queue_ of each core
    reaped,          \* threadctx::last_reaped_epoch_
    lastTid,         \* threadctx::last_commit_tid_
    hist             \* transactions that passed validation, for the properties;
                     \* the first one loaded the database

dbvars == <<tuple, tree, leaf>>
gcvars == <<queue, reaped>>
occvars == <<scen, prog, txn, tuple, tree, leaf, queue, reaped, lastTid, hist, clockvars>>

NoTxn == [pc |-> "idle", snap |-> FALSE, stid |-> 0, ops |-> <<>>, user |-> FALSE,
          key |-> NoKey, cur |-> NoTuple, hdr |-> <<>>, tid |-> 0,
          rset |-> <<>>, obs |-> {}, aset |-> NoNode, wset |-> <<>>,
          infos |-> <<>>, locked |-> {}, ctid |-> 0, node |-> 0,
          rest |-> NoTuple, head |-> NoTuple, scratch |-> <<>>, after |-> {}]

\* Addresses never used before.  Locks are sorted by address, so an insert gets
\* the lowest or the highest one; where no lock is sorted any one will do.
Unused == {p \in Tuples : tuple[p].version = MIN_TID}
Fresh == CHOOSE p \in Unused : TRUE
Allocatable == {p \in Unused : (\A q \in Unused : p <= q) \/ (\A q \in Unused : q <= p)}

NodeVersion == LeafVersion(leaf, Cardinality(DOMAIN tree))

\* The numbers of a finite set in ascending order, and the elements of a
\* sequence at those positions.
Ascending(S) ==
    CHOOSE f \in [1 .. Cardinality(S) -> S] : \A i, j \in DOMAIN f : i < j => f[i] < f[j]
Pick(s, S) == [n \in 1 .. Cardinality(S) |-> s[Ascending(S)[n]]]

With(f, k, v) == [x \in DOMAIN f \cup {k} |-> IF x = k THEN v ELSE f[x]]
Without(f, k) == [x \in DOMAIN f \ {k} |-> f[x]]

\* The database a scenario starts from: tuples at even addresses, so that a
\* tuple inserted later may lie before or behind each of them.
InitTree(init) ==
    LET present == {k \in Keys : init[k] # NoValue}
        even == {2 * i : i \in 1 .. Cardinality(present)}
    IN  CHOOSE f \in [present -> even] : \A j, k \in present : f[j] = f[k] => j = k

OccInit ==
    /\ scen \in Scenarios
    /\ prog = scen.progs
    /\ txn = [c \in Cores |-> NoTxn]
    /\ tree = InitTree(scen.init)
    /\ tuple = [p \in Tuples |->
                  IF \E k \in DOMAIN tree : tree[k] = p
                  THEN Tuple(MakeTid(0, 1, 1), scen.init[CHOOSE k \in DOMAIN tree : tree[k] = p],
                             NoTuple, TRUE)
                  ELSE Tuple(MIN_TID, NoValue, NoTuple, FALSE)]
    /\ leaf = [modstate |-> "insert", vinsert |-> 1]
    /\ queue = [c \in Cores |-> <<>>]
    /\ reaped = [c \in Cores |-> 0]
    /\ lastTid = [c \in Cores |-> MIN_TID]
    /\ hist = {[id |-> <<0, 0>>, snap |-> FALSE, reads |-> {}, after |-> {}, writes |-> scen.init]}
    /\ ClockInit

Go(c, pc) == txn' = [txn EXCEPT ![c].pc = pc]
Op(c) == Head(txn[c].ops)

-----------------------------------------------------------------------------
\* The life of a transaction object.

\* The constructor: a region of the rcu, and the snapshot of a read-only one.
Begin(c) ==
    /\ txn[c].pc = "idle" /\ prog[c] # <<>>
    /\ Enter(c) /\ guard'[c] = tick
    /\ txn' = [txn EXCEPT ![c] =
                 [NoTxn EXCEPT !.pc = "active", !.snap = Head(prog[c]).snap,
                               !.ops = Head(prog[c]).ops, !.user = Head(prog[c]).abort,
                               !.stid = IF Head(prog[c]).snap
                                        THEN ComputeReadOnlyTid(done + 1) ELSE MAX_TID,
                               !.after = {h.id : h \in hist}]]
    /\ UNCHANGED <<scen, prog, dbvars, gcvars, lastTid, hist>>

\* Mutant: the tentative inserts are forgotten.
AbortImpl_Forgets(t) == [t EXCEPT !.pc = "undo", !.ops = <<>>, !.infos = <<>>]

\* abort_impl: the tentative inserts are to be undone, in the order of the
\* write set.
AbortImpl(t) ==
    LET ins == {i \in DOMAIN t.wset : t.wset[i].insert}
    IN  [t EXCEPT !.pc = "undo", !.ops = <<>>,
                  !.infos = [n \in 1 .. Cardinality(ins) |-> t.wset[Ascending(ins)[n]].tuple]]

\* The caller gives up.
abort(c) ==
    /\ txn[c].pc = "active" /\ txn[c].ops = <<>> /\ txn[c].user
    /\ txn' = [txn EXCEPT ![c] = AbortImpl(@)]
    /\ UNCHANGED <<scen, prog, dbvars, gcvars, lastTid, hist, clockvars>>

\* The destructor leaves the region; then the core cleans.
End(c) ==
    /\ txn[c].pc = "end"
    /\ Exit(c)
    /\ prog' = [prog EXCEPT ![c] = Tail(@)]
    /\ txn' = [txn EXCEPT ![c] = [NoTxn EXCEPT !.pc = "post"]]
    /\ UNCHANGED <<scen, dbvars, gcvars, lastTid, hist>>

-----------------------------------------------------------------------------
\* Reading.

\* do_node_read: the version of a leaf searched in vain joins the absent set;
\* a second, different version of it aborts.
NodeRead(t, v) ==
    IF t.snap THEN t
    ELSE IF t.aset \in {NoNode, v} THEN [t EXCEPT !.aset = v]
    ELSE AbortImpl(t)

do_search(c) ==
    /\ txn[c].pc = "active" /\ txn[c].ops # <<>> /\ Op(c).op = "get"
    /\ LET k == Op(c).k
           t == [txn[c] EXCEPT !.ops = Tail(@), !.key = k]
       IN  txn' = [txn EXCEPT ![c] =
                     IF k \in DOMAIN tree
                     THEN [t EXCEPT !.pc = "version", !.cur = tree[k]]
                     ELSE NodeRead([t EXCEPT !.obs = @ \cup {<<k, NoValue>>}], NodeVersion)]
    /\ UNCHANGED <<scen, prog, dbvars, gcvars, lastTid, hist, clockvars>>

\* The transaction once tuple p of its key is read as value v of version tid.
TupleRead(t, p, tid, v) ==
    [t EXCEPT !.pc = "active", !.cur = NoTuple, !.hdr = <<>>, !.tid = 0,
              !.obs = @ \cup {<<t.key, v>>},
              !.rset = IF t.snap THEN @ ELSE Append(@, [tuple |-> p, tid |-> tid])]

\* record_at, first half: a tentative tuple is empty; otherwise wait for a
\* stable header and load the version.
record_at_version(c) ==
    /\ txn[c].pc = "version"
    /\ LET d == tuple[txn[c].cur]
       IN  IF d.version = MAX_TID
           THEN txn' = [txn EXCEPT ![c] = TupleRead(@, @.cur, MIN_TID, NoValue)]
           ELSE /\ ReaderStable(d, txn[c].snap)
                /\ txn' = [txn EXCEPT ![c].pc = "value", ![c].hdr = ReaderHdr(d),
                                      ![c].tid = d.version]
    /\ UNCHANGED <<scen, prog, dbvars, gcvars, lastTid, hist, clockvars>>

\* record_at, second half: the value, or the next older tuple, counts only if
\* the header has not changed since.
record_at_value(c) ==
    /\ txn[c].pc = "value"
    /\ LET t == txn[c]
           d == tuple[t.cur]
       IN  txn' = [txn EXCEPT ![c] =
                     IF ReaderHdr(d) # t.hdr THEN [t EXCEPT !.pc = "version"]
                     ELSE IF t.tid <= t.stid
                     THEN TupleRead(t, t.cur, t.tid, IF d.deleting THEN NoValue ELSE d.val)
                     ELSE IF d.next # NoTuple THEN [t EXCEPT !.pc = "version", !.cur = d.next]
                     ELSE TupleRead(t, t.cur, MIN_TID, NoValue)]
    /\ UNCHANGED <<scen, prog, dbvars, gcvars, lastTid, hist, clockvars>>

-----------------------------------------------------------------------------
\* Writing into the write set.

\* A put searches the key, and inserts a tentative tuple if it finds none; a
\* put that expects a new key begins with the insert.  A snapshot may not put.
do_tree_put(c) ==
    /\ txn[c].pc = "active" /\ txn[c].ops # <<>> /\ Op(c).op = "put"
    /\ txn[c].snap \/ ~Op(c).new
    /\ LET t == txn[c]
           k == Op(c).k
       IN  txn' = [txn EXCEPT ![c] =
                     IF t.snap THEN AbortImpl(t)
                     ELSE IF k \notin DOMAIN tree THEN [t EXCEPT !.ops[1].new = TRUE]
                     ELSE [t EXCEPT !.ops = Tail(@),
                                    !.wset = Append(@, [tuple |-> tree[k], key |-> k, val |-> Op(c).v,
                                                        insert |-> FALSE])]]
    /\ UNCHANGED <<scen, prog, dbvars, gcvars, lastTid, hist, clockvars>>

\* The absent set knows the leaf as it was before the insert, or it is stale.
BumpNode(t, old, new) ==
    IF t.aset = NoNode THEN t
    ELSE IF t.aset = old THEN [t EXCEPT !.aset = new]
    ELSE AbortImpl(t)

try_insert_new_tuple(c) ==
    /\ txn[c].pc = "active" /\ txn[c].ops # <<>> /\ Op(c).op = "put"
    /\ ~txn[c].snap /\ Op(c).new
    /\ LET t == txn[c]
           k == Op(c).k
       IN  IF k \in DOMAIN tree
           THEN /\ txn' = [txn EXCEPT ![c] = [t EXCEPT !.ops[1].new = FALSE]]
                /\ UNCHANGED dbvars
           ELSE \E p \in Allocatable :
                /\ tuple' = [tuple EXCEPT ![p] = alloc_first(Op(c).v)]
                /\ tree' = With(tree, k, p)
                /\ leaf' = find_insert(leaf)
                /\ txn' = [txn EXCEPT ![c] =
                     BumpNode([t EXCEPT !.ops = Tail(@), !.locked = @ \cup {p},
                                        !.wset = Append(@, [tuple |-> p, key |-> k, val |-> Op(c).v,
                                                            insert |-> TRUE])],
                              NodeVersion, NodeVersion')]
    /\ UNCHANGED <<scen, prog, gcvars, lastTid, hist, clockvars>>

Inserts(t) == {t.wset[i].tuple : i \in {j \in DOMAIN t.wset : t.wset[j].insert}}
KeyOf(t, p) == t.wset[CHOOSE i \in DOMAIN t.wset : t.wset[i].tuple = p].key

\* unlock of p; a tentative insert is first taken out of the index
\* (cleanup_inserted_tuple_marker).
Release(c, p, remove) ==
    /\ txn' = [txn EXCEPT ![c].locked = @ \ {p}, ![c].infos = Tail(@)]
    /\ IF remove
       THEN /\ tuple' = [tuple EXCEPT ![p] = unlock(clear_latest(@))]
            /\ tree' = Without(tree, KeyOf(txn[c], p))
            /\ leaf' = finish_remove(leaf)
       ELSE /\ tuple' = [tuple EXCEPT ![p] = unlock(@)]
            /\ UNCHANGED <<tree, leaf>>

\* abort_impl and do_abort: one tuple after the other.
undo(c) ==
    /\ txn[c].pc = "undo"
    /\ IF txn[c].infos = <<>>
       THEN Go(c, "end") /\ UNCHANGED dbvars
       ELSE Release(c, Head(txn[c].infos), Head(txn[c].infos) \in Inserts(txn[c]))
    /\ UNCHANGED <<scen, prog, gcvars, lastTid, hist, clockvars>>

-----------------------------------------------------------------------------
\* commit().

\* The addresses of the write set, and the order of their sort.
WrittenTuples(t) == {t.wset[i].tuple : i \in DOMAIN t.wset}
SortedTuples(t) == Ascending(WrittenTuples(t))

\* The writes that are carried out: of the entries of one tuple the insert and
\* the last one (set_do_write).
DoWrites(t) ==
    LET Newest(i) == \A j \in DOMAIN t.wset : t.wset[j].tuple = t.wset[i].tuple => j <= i
        do == {i \in DOMAIN t.wset : t.wset[i].insert \/ Newest(i)}
    IN  Pick(t.wset, do)

\* do_abort: the tuples locked so far are to be released, in that order.
DoAbort(t) ==
    [t EXCEPT !.pc = "undo", !.infos = Ascending(WrittenTuples(t) \cap t.locked)]

\* What a transaction that commits has read and writes.
Outcome(c) ==
    LET t == txn[c]
        last(k) == CHOOSE i \in DOMAIN t.wset :
                     t.wset[i].key = k /\ \A j \in DOMAIN t.wset : t.wset[j].key = k => j <= i
    IN  [id |-> <<c, Len(prog[c])>>, snap |-> t.snap, reads |-> t.obs, after |-> t.after,
         writes |-> [k \in {t.wset[i].key : i \in DOMAIN t.wset} |-> t.wset[last(k)].val]]

\* A snapshot has nothing to validate.
commit(c) ==
    /\ txn[c].pc = "active" /\ txn[c].ops = <<>> /\ ~txn[c].user
    /\ LET t == txn[c]
       IN  /\ txn' = [txn EXCEPT ![c].pc = IF t.snap THEN "end"
                                           ELSE IF t.wset = <<>> THEN "validate" ELSE "lock",
                                 ![c].infos = SortedTuples(t)]
           /\ hist' = IF t.snap THEN hist \cup {Outcome(c)} ELSE hist
    /\ UNCHANGED <<scen, prog, dbvars, gcvars, lastTid, clockvars>>

\* Mutant: a tentative tuple is waited for.
handle_last_tuple_in_group_Waits(c) ==
    /\ txn[c].pc = "lock"
    /\ LET t == txn[c]
           p == Head(t.infos)
           d == tuple[p]
           u == [t EXCEPT !.infos = Tail(@), !.pc = IF Len(t.infos) = 1 THEN "gen" ELSE "lock"]
       IN  \/ /\ p \in Inserts(t)
              /\ txn' = [txn EXCEPT ![c] = u]
              /\ UNCHANGED tuple
           \/ /\ p \notin Inserts(t) /\ ~d.locked
              /\ tuple' = [tuple EXCEPT ![p] = lock(@, TRUE)]
              /\ LET l == [u EXCEPT !.locked = @ \cup {p}]
                 IN  txn' = [txn EXCEPT ![c] = IF d.latest THEN l ELSE DoAbort(l)]
    /\ UNCHANGED <<scen, prog, tree, leaf, gcvars, lastTid, hist, clockvars>>

\* One group of write_dbtuples after the other.  A tentative tuple of another
\* transaction is not waited for.
handle_last_tuple_in_group(c) ==
    /\ txn[c].pc = "lock"
    /\ LET t == txn[c]
           p == Head(t.infos)
           d == tuple[p]
           u == [t EXCEPT !.infos = Tail(@), !.pc = IF Len(t.infos) = 1 THEN "gen" ELSE "lock"]
       IN  \/ /\ p \in Inserts(t)
              /\ txn' = [txn EXCEPT ![c] = u]
              /\ UNCHANGED tuple
           \/ /\ p \notin Inserts(t) /\ d.version = MAX_TID
              /\ txn' = [txn EXCEPT ![c] = DoAbort(@)]
              /\ UNCHANGED tuple
           \/ /\ p \notin Inserts(t) /\ d.version # MAX_TID /\ ~d.locked
              /\ tuple' = [tuple EXCEPT ![p] = lock(@, TRUE)]
              /\ LET l == [u EXCEPT !.locked = @ \cup {p}]
                 IN  txn' = [txn EXCEPT ![c] = IF d.latest THEN l ELSE DoAbort(l)]
    /\ UNCHANGED <<scen, prog, tree, leaf, gcvars, lastTid, hist, clockvars>>

\* Mutant: the versions overwritten are left out.
gen_commit_tid_ReadsOnly(c) ==
    /\ txn[c].pc = "gen"
    /\ LET t == txn[c]
           own == IF EpochId(lastTid[c]) = tick THEN lastTid[c] ELSE MakeTid(0, 0, tick)
           known == {own} \cup {t.rset[i].tid : i \in DOMAIN t.rset}
           new == MakeTid(c, NumId(Max(known)) + 1, tick)
       IN  /\ txn' = [txn EXCEPT ![c].pc = "validate", ![c].ctid = new]
           /\ lastTid' = [lastTid EXCEPT ![c] = new]
    /\ UNCHANGED <<scen, prog, dbvars, gcvars, hist, clockvars>>

\* Above the core's last TID and everything read or overwritten, in the
\* current epoch.
gen_commit_tid(c) ==
    /\ txn[c].pc = "gen"
    /\ LET t == txn[c]
           own == IF EpochId(lastTid[c]) = tick THEN lastTid[c] ELSE MakeTid(0, 0, tick)
           known == {own} \cup {t.rset[i].tid : i \in DOMAIN t.rset}
                          \cup {tuple[t.wset[i].tuple].version :
                                  i \in {j \in DOMAIN t.wset : ~t.wset[j].insert}}
           num == NumId(Max(known \ {MAX_TID})) + 1
           new == MakeTid(c, num, tick)
       IN  /\ num < NumIds
           /\ txn' = [txn EXCEPT ![c].pc = "validate", ![c].ctid = new]
           /\ lastTid' = [lastTid EXCEPT ![c] = new]
    /\ UNCHANGED <<scen, prog, dbvars, gcvars, hist, clockvars>>

\* The transaction has passed: what it read and what it is about to write.
Passed(c) ==
    /\ hist' = hist \cup {Outcome(c)}
    /\ txn' = [txn EXCEPT ![c].wset = DoWrites(txn[c]), ![c].rset = <<>>,
                          ![c].infos = SortedTuples(txn[c]),
                          ![c].pc = IF txn[c].wset = <<>> THEN "end" ELSE "write"]

\* Read validation, one tuple at a time; one that is also written is locked by
\* this transaction and is not required to be stable.
validate(c) ==
    /\ txn[c].pc = "validate"
    /\ LET t == txn[c]
           r == Head(t.rset)
           ok == IF \E i \in DOMAIN t.wset : t.wset[i].tuple = r.tuple
                 THEN is_latest_version(tuple[r.tuple], r.tid)
                 ELSE stable_is_latest_version(tuple[r.tuple], r.tid)
       IN  \/ /\ t.rset # <<>>
              /\ txn' = [txn EXCEPT ![c] = IF ok THEN [t EXCEPT !.rset = Tail(@)]
                                           ELSE DoAbort(t)]
              /\ UNCHANGED hist
           \/ t.rset = <<>> /\ t.aset = NoNode /\ Passed(c)
           \/ t.rset = <<>> /\ t.aset # NoNode /\ Go(c, "node") /\ UNCHANGED hist
    /\ UNCHANGED <<scen, prog, dbvars, gcvars, lastTid, clockvars>>

\* full_version_value() of the leaf loads the version word and the size; their
\* order is the compiler's.
ExtractVersionNumber(c) ==
    /\ txn[c].pc = "node"
    /\ txn' = [txn EXCEPT ![c].pc = "node2",
                          ![c].node = IF VersionFirst THEN NodeVersion.vinsert ELSE NodeVersion.size]
    /\ UNCHANGED <<scen, prog, dbvars, gcvars, lastTid, hist, clockvars>>

validate_node(c) ==
    /\ txn[c].pc = "node2"
    /\ LET v == IF VersionFirst THEN [NodeVersion EXCEPT !.vinsert = txn[c].node]
                ELSE [NodeVersion EXCEPT !.size = txn[c].node]
       IN  IF v = txn[c].aset THEN Passed(c)
           ELSE txn' = [txn EXCEPT ![c] = DoAbort(@)] /\ UNCHANGED hist
    /\ UNCHANGED <<scen, prog, dbvars, gcvars, lastTid, clockvars>>

-----------------------------------------------------------------------------
\* The writes of a transaction that has passed validation.

\* What the cores have to clean up: a tuple that nobody will read once the
\* read-only tick is over, with its key if it is a deleted record that is to be
\* taken out of the index.
Entry(c, p, k) == [tick |-> to_read_only_tick(EpochId(txn[c].ctid)), tuple |-> p, key |-> k]

\* on_dbtuple_spill: a deleted tuple was queued when it was deleted.
Spilled(c, p) == IF p = NoTuple \/ tuple[p].deleting THEN <<>> ELSE <<Entry(c, p, NoKey)>>

\* on_logical_delete
Deleted(c, p, e) == IF e.val = NoValue THEN <<Entry(c, p, e.key)>> ELSE <<>>

\* The old value survives as the next tuple of the chain if a snapshot may
\* still read it.
InPlace(d, e) == ~d.deleting /\ Size(e.val) <= d.alloc

\* write_record_at, in the tuple's own memory: the value first.
write_value(c) ==
    /\ txn[c].pc = "write" /\ txn[c].wset # <<>>
    /\ LET e == Head(txn[c].wset)
           d == tuple[e.tuple]
           keep == ~can_overwrite_record_tid(d.version, txn[c].ctid)
           spill == Tuple(d.version, d.val, d.next, FALSE)
           new == [d EXCEPT !.modifying = TRUE, !.val = e.val, !.next = IF keep THEN Fresh ELSE @]
       IN  /\ ~e.insert /\ InPlace(d, e) /\ (keep => Unused # {})
           /\ tuple' = IF keep THEN [tuple EXCEPT ![e.tuple] = new, ![Fresh] = spill]
                       ELSE [tuple EXCEPT ![e.tuple] = new]
           /\ txn' = [txn EXCEPT ![c].pc = "write2", ![c].rest = IF keep THEN Fresh ELSE NoTuple]
    /\ UNCHANGED <<scen, prog, tree, leaf, gcvars, lastTid, hist, clockvars>>

\* ... then the version.
write_version(c) ==
    /\ txn[c].pc = "write2"
    /\ LET e == Head(txn[c].wset)
       IN  /\ tuple' = [tuple EXCEPT ![e.tuple].version = txn[c].ctid,
                                     ![e.tuple].deleting = e.val = NoValue]
           /\ queue' = [queue EXCEPT ![c] = @ \o Spilled(c, txn[c].rest) \o Deleted(c, e.tuple, e)]
    /\ txn' = [txn EXCEPT ![c].pc = "write", ![c].wset = Tail(@), ![c].rest = NoTuple]
    /\ UNCHANGED <<scen, prog, tree, leaf, reaped, lastTid, hist, clockvars>>

\* A tentative insert becomes the record of its transaction.
write_insert(c) ==
    /\ txn[c].pc = "write" /\ txn[c].wset # <<>> /\ Head(txn[c].wset).insert
    /\ tuple' = [tuple EXCEPT ![Head(txn[c].wset).tuple].version = txn[c].ctid]
    /\ txn' = [txn EXCEPT ![c].wset = Tail(@)]
    /\ UNCHANGED <<scen, prog, tree, leaf, gcvars, lastTid, hist, clockvars>>

\* write_record_at without room in the tuple: a new head of the chain ...
write_replace(c) ==
    /\ txn[c].pc = "write" /\ txn[c].wset # <<>>
    /\ LET e == Head(txn[c].wset)
           d == tuple[e.tuple]
       IN  /\ ~e.insert /\ ~InPlace(d, e) /\ Unused # {}
           /\ tuple' = [tuple EXCEPT ![e.tuple] = clear_latest(@),
                                     ![Fresh] = Tuple(txn[c].ctid, e.val, e.tuple, TRUE)]
           /\ txn' = [txn EXCEPT ![c].pc = "publish", ![c].head = Fresh, ![c].rest = e.tuple]
    /\ UNCHANGED <<scen, prog, tree, leaf, gcvars, lastTid, hist, clockvars>>

\* ... is locked, takes the place of the tuple in the index ...
publish(c) ==
    /\ txn[c].pc = "publish"
    /\ tuple' = [tuple EXCEPT ![txn[c].head] = lock(@, TRUE)]
    /\ tree' = With(tree, Head(txn[c].wset).key, txn[c].head)
    /\ Go(c, "publish2")
    /\ UNCHANGED <<scen, prog, leaf, gcvars, lastTid, hist, clockvars>>

\* ... and is unlocked again.
unlock_head(c) ==
    /\ txn[c].pc = "publish2"
    /\ tuple' = [tuple EXCEPT ![txn[c].head] = unlock(@)]
    /\ queue' = [queue EXCEPT ![c] = @ \o Spilled(c, txn[c].rest)
                                       \o Deleted(c, txn[c].head, Head(txn[c].wset))]
    /\ txn' = [txn EXCEPT ![c].pc = "write", ![c].wset = Tail(@),
                          ![c].head = NoTuple, ![c].rest = NoTuple]
    /\ UNCHANGED <<scen, prog, tree, leaf, reaped, lastTid, hist, clockvars>>

unlock_tuples(c) ==
    /\ txn[c].pc = "write" /\ txn[c].wset = <<>>
    /\ IF txn[c].infos = <<>>
       THEN Go(c, "end") /\ UNCHANGED dbvars
       ELSE Release(c, Head(txn[c].infos), FALSE)
    /\ UNCHANGED <<scen, prog, gcvars, lastTid, hist, clockvars>>

-----------------------------------------------------------------------------
\* Cleaning.

\* Mutant: the subtraction of one read-only tick is missing.
post_Early(c) ==
    /\ txn[c].pc = "post"
    /\ LET ro == to_read_only_tick(done)
           due == {i \in DOMAIN queue[c] : queue[c][i].tick <= ro}
       IN  IF ro = 0 \/ reaped[c] = ro
           THEN Go(c, "idle") /\ UNCHANGED gcvars
           ELSE /\ reaped' = [reaped EXCEPT ![c] = ro]
                /\ txn' = [txn EXCEPT ![c].pc = "clean", ![c].scratch = Pick(queue[c], due)]
                /\ queue' = [queue EXCEPT ![c] = Pick(@, DOMAIN @ \ due)]
    /\ UNCHANGED <<scen, prog, dbvars, lastTid, hist, clockvars>>

\* on_post_rcu_region_completion and the head of clean_up_to_including: what
\* was queued up to the last read-only tick but one is taken over.
post(c) ==
    /\ txn[c].pc = "post"
    /\ LET ro == to_read_only_tick(done)
           due == {i \in DOMAIN queue[c] : queue[c][i].tick <= ro - 1}
       IN  IF ro = 0 \/ reaped[c] = ro - 1
           THEN Go(c, "idle") /\ UNCHANGED gcvars
           ELSE /\ reaped' = [reaped EXCEPT ![c] = ro - 1]
                /\ txn' = [txn EXCEPT ![c].pc = "clean", ![c].scratch = Pick(queue[c], due)]
                /\ queue' = [queue EXCEPT ![c] = Pick(@, DOMAIN @ \ due)]
    /\ UNCHANGED <<scen, prog, dbvars, lastTid, hist, clockvars>>

\* An old version is freed at once.  A deleted record is taken out of the
\* index, unless it has been written since: then it is queued as an old version.
clean_up_to_including(c) ==
    /\ txn[c].pc = "clean"
    /\ \/ /\ txn[c].scratch = <<>>
          /\ Go(c, "idle")
          /\ UNCHANGED <<dbvars, queue>>
       \/ /\ txn[c].scratch # <<>>
          /\ txn' = [txn EXCEPT ![c].scratch = Tail(@)]
          /\ LET e == Head(txn[c].scratch)
             IN  \/ /\ e.key = NoKey
                    /\ tuple' = [tuple EXCEPT ![e.tuple].freed = TRUE]
                    /\ UNCHANGED <<tree, leaf, queue>>
                 \/ /\ e.key # NoKey /\ ~tuple[e.tuple].locked /\ ~tuple[e.tuple].latest
                    /\ queue' = [queue EXCEPT ![c] =
                                   Append(@, [tick |-> to_read_only_tick(tick), tuple |-> e.tuple,
                                              key |-> NoKey])]
                    /\ UNCHANGED dbvars
                 \/ /\ e.key # NoKey /\ ~tuple[e.tuple].locked /\ tuple[e.tuple].latest
                    /\ tuple' = [tuple EXCEPT ![e.tuple] = clear_latest(@)]
                    /\ tree' = Without(tree, e.key)
                    /\ leaf' = finish_remove(leaf)
                    /\ UNCHANGED queue
    /\ UNCHANGED <<scen, prog, reaped, lastTid, hist, clockvars>>

-----------------------------------------------------------------------------
\* The ticker of module EpochClock, as far as the scenario goes.
TickerStep ==
    /\ \/ Advance /\ tick < scen.ticks
       \/ Complete
    /\ UNCHANGED <<scen, prog, txn, dbvars, gcvars, lastTid, hist>>

CoreStep(c) ==
    \/ Begin(c) \/ abort(c) \/ End(c)
    \/ do_search(c) \/ record_at_version(c) \/ record_at_value(c)
    \/ do_tree_put(c) \/ try_insert_new_tuple(c) \/ undo(c)
    \/ commit(c) \/ handle_last_tuple_in_group(c) \/ gen_commit_tid(c)
    \/ validate(c) \/ ExtractVersionNumber(c) \/ validate_node(c)
    \/ write_value(c) \/ write_version(c) \/ write_insert(c)
    \/ write_replace(c) \/ publish(c) \/ unlock_head(c) \/ unlock_tuples(c)
    \/ post(c) \/ clean_up_to_including(c)

OccNext == TickerStep \/ \E c \in Cores : CoreStep(c)

\* A thread that can take a step is eventually run.
OccSpec == OccInit /\ [][OccNext]_occvars /\ \A c \in Cores : WF_occvars(CoreStep(c))

-----------------------------------------------------------------------------
\* Properties.

Publishing == {"publish", "publish2"}
Writing == {"write", "write2"} \cup Publishing

\* What transaction order[i] reads of key k when the transactions run one
\* after the other.
SerialValue(order, i, k) ==
    LET w == {j \in 1 .. i - 1 : k \in DOMAIN order[j].writes}
    IN  IF w = {} THEN NoValue ELSE order[Max(w)].writes[k]

\* The value of a key when no transaction is writing.
Stored(k) ==
    IF k \notin DOMAIN tree \/ tuple[tree[k]].version = MAX_TID \/ tuple[tree[k]].deleting
    THEN NoValue ELSE tuple[tree[k]].val

\* commit() lets through only transactions that could have run one after the
\* other: some order of them, in which a transaction follows those that had
\* passed before it began, explains every value and every absence they read,
\* and what is stored in the end.  A snapshot transaction (read-only) may be
\* placed earlier, but has to fit as well.
Serializable ==
    \E order \in [1 .. Cardinality(hist) -> hist] :
       /\ \A i, j \in DOMAIN order : order[i] = order[j] => i = j
       /\ \A i \in DOMAIN order : \A r \in order[i].reads : r[2] = SerialValue(order, i, r[1])
       /\ \A i, j \in DOMAIN order :
            i < j => order[j].id \notin order[i].after \/ order[i].snap
       /\ (\A c \in Cores : txn[c].pc \notin Writing)
            => \A k \in Keys : Stored(k) = SerialValue(order, Len(order) + 1, k)

\* Tuple locks are exclusive, and commit, abort_impl and do_abort together give
\* back exactly what was taken: a locked tuple has one owner, an owner's tuple
\* is locked with the intent to write, and no tentative tuple stays in the index
\* without the transaction that inserted it.
LocksOwned ==
    /\ \A p \in Tuples :
         LET owners == {c \in Cores : p \in txn[c].locked \cup {txn[c].head}}
         IN  /\ tuple[p].locked => Cardinality(owners) = 1
             /\ Cardinality(owners) <= 1
    /\ \A c \in Cores : \A p \in txn[c].locked : tuple[p].locked /\ tuple[p].intent
    /\ \A k \in DOMAIN tree :
         tuple[tree[k]].version = MAX_TID =>
           \E c \in Cores : txn[c].pc \notin {"idle", "end", "post"} /\ tree[k] \in txn[c].locked

\* clean_up_to_including frees old versions without waiting for the rcu: no
\* transaction stands on a freed tuple, has one in its read or write set, or
\* can find one in the index.
NoFreedUse ==
    /\ \A c \in Cores :
         /\ txn[c].cur # NoTuple => ~tuple[txn[c].cur].freed
         /\ \A i \in DOMAIN txn[c].rset : ~tuple[txn[c].rset[i].tuple].freed
         /\ \A i \in DOMAIN txn[c].wset : ~tuple[txn[c].wset[i].tuple].freed
    /\ \A k \in DOMAIN tree : ~tuple[tree[k]].freed

\* While a snapshot transaction runs, no transaction writes under a TID that
\* belongs to its snapshot (ComputeReadOnlyTid against gen_commit_tid).
SnapshotSettled ==
    \A c, d \in Cores :
       (guard[c] # NoGuard /\ txn[c].snap /\ txn[d].ctid # 0) => txn[d].ctid > txn[c].stid

\* Versions only grow: the record of a key is never replaced by one with a
\* smaller or equal TID (gen_commit_tid), unless the key left the index between.
VersionForward ==
    [][\A k \in DOMAIN tree \cap DOMAIN tree' :
         LET v == tuple[tree[k]].version
             w == tuple'[tree'[k]].version
         IN  v # MAX_TID /\ w # v => w > v]_occvars

\* Every transaction commits or aborts: sorted locks, tentative tuples that are
\* not waited for, and readers that wait for a lock never wait in a circle.
TxnsEnd == <>(\A c \in Cores : prog[c] = <<>> /\ txn[c].pc = "idle")

=============================================================================
