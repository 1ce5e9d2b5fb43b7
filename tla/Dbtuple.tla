------------------------------- MODULE Dbtuple -------------------------------
(***************************************************************************)
(* The records of silo (tuple.h), the transaction numbers they carry       *)
(* (txn_proto2_impl.h) and the leaf of the index that points to them       *)
(* (masstree): pure operators, used by the transactions of module Occ.     *)
(*                                                                         *)
(* A tuple is a record of the bits of hdr (locked, deleting, intent,       *)
(* modifying, latest, and the counter hver), of version, of the value with *)
(* the size allocated for it, and of next.  freed is not a field of the    *)
(* program: it is set when the memory is given back.                       *)
(***************************************************************************)
EXTENDS EpochClock

CONSTANTS
    NumIds,                    \* bound on the number field of a TID
    ReadOnlyEpochMultiplier,   \* epochs to a read-only tick
    LongValues                 \* values that do not fit where a short one was

NoValue == 0      \* an empty (deleted) record
NoTuple == 0      \* a null pointer

-----------------------------------------------------------------------------
\* TIDs: [core | number | epoch], compared as integers.

MakeTid(core, num, epoch) == (epoch * NumIds + num) * NMAXCORES + core
NumId(t)   == (t \div NMAXCORES) % NumIds
EpochId(t) == t \div (NMAXCORES * NumIds)

MIN_TID == 0
MAX_TID == MakeTid(0, 0, MaxTick + 1)

to_read_only_tick(epoch) == epoch \div ReadOnlyEpochMultiplier

\* Mutant: the snapshot includes the first epoch of the current read-only tick.
ComputeReadOnlyTid_Current(tickEx) ==
    MakeTid(NMAXCORES - 1, NumIds - 1, to_read_only_tick(tickEx) * ReadOnlyEpochMultiplier)

\* The newest TID a snapshot transaction reads: the end of the last
\* read-only tick that is over for every core.
ComputeReadOnlyTid(tickEx) ==
    LET b == to_read_only_tick(tickEx) * ReadOnlyEpochMultiplier
    IN  IF b = 0 THEN MakeTid(0, 0, 0) ELSE MakeTid(NMAXCORES - 1, NumIds - 1, b - 1)

can_overwrite_record_tid(prev, cur) ==
    \/ to_read_only_tick(EpochId(prev)) = to_read_only_tick(EpochId(cur))
    \/ prev = MIN_TID

-----------------------------------------------------------------------------
\* Tuples.

Size(v) == IF v = NoValue THEN 0 ELSE IF v \in LongValues THEN 2 ELSE 1

Tuple(version, v, next, latest) ==
    [locked |-> FALSE, intent |-> FALSE, modifying |-> FALSE, latest |-> latest,
     deleting |-> v = NoValue, hver |-> 0, version |-> version,
     val |-> v, alloc |-> Size(v), next |-> next, freed |-> FALSE]

\* A tentative record, born locked.
alloc_first(v) ==
    [Tuple(MAX_TID, v, NoTuple, TRUE) EXCEPT !.locked = TRUE, !.intent = TRUE]

lock(d, writeIntent) == [d EXCEPT !.locked = TRUE, !.intent = @ \/ writeIntent]

unlock(d) ==
    [d EXCEPT !.locked = FALSE, !.intent = FALSE, !.modifying = FALSE,
              !.hver = IF d.modifying \/ d.intent THEN @ + 1 ELSE @]

clear_latest(d) == [d EXCEPT !.latest = FALSE]

\* The bits reader_check_version compares.
ReaderHdr(d) == <<d.modifying, d.deleting, d.hver>>

\* reader_stable_version returns.
ReaderStable(d, allowWriteIntent) == ~d.modifying /\ (allowWriteIntent \/ ~d.intent)

is_not_behind(d, t) == d.version <= t
is_latest_version(d, t) == d.latest /\ is_not_behind(d, t)

\* A tuple whose intent bit outlives the 16 spins is refused.
stable_is_latest_version(d, t) == ~d.intent /\ is_latest_version(d, t)

-----------------------------------------------------------------------------
\* The leaf of the index: its keys, the counter of its version word and the
\* kind of its last change.  A change of the other kind advances the counter.

LeafVersion(leaf, size) == [vinsert |-> leaf.vinsert, size |-> size]

find_insert(leaf) ==
    IF leaf.modstate = "insert" THEN leaf
    ELSE [modstate |-> "insert", vinsert |-> leaf.vinsert + 1]

\* Mutant: a removal after inserts leaves the counter as it is.
finish_remove_Silent(leaf) == [leaf EXCEPT !.modstate = "remove"]

finish_remove(leaf) ==
    IF leaf.modstate = "remove" THEN leaf
    ELSE [modstate |-> "remove", vinsert |-> leaf.vinsert + 1]

=============================================================================
