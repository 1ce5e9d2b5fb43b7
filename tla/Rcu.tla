--------------------------------- MODULE Rcu ---------------------------------
(***************************************************************************)
(* silo/rcu.{h,cc}: deferred reclamation on top of the ticker, driven by   *)
(* the workers of rcu_stress_test.  Each core owns a slot holding at most  *)
(* one object.  Inside a region a worker reads any slot and may use what   *)
(* it read until the region ends; it swaps its own object out and hands it *)
(* to free_with_fn, or publishes a fresh one.  Leaving the outermost       *)
(* region runs do_cleanup, which may open a region of its own to run the   *)
(* deleters and then, leaving that, runs do_cleanup again.                 *)
(*                                                                         *)
(* px_queue hands over every entry up to a tick; entries are queued in     *)
(* tick order (QueueInOrder), so a set of [p, tick] stands for the queue.  *)
(* No log persister runs beside the stress test.                           *)
(***************************************************************************)
EXTENDS Ticker

CONSTANTS
    Objects,               \* memory blocks of the allocator
    EpochTimeMultiplier,   \* ticks per rcu tick
    nullptr

ASSUME RcuAssumption ==
    /\ EpochTimeMultiplier \in Nat \ {0}
    /\ nullptr \notin Objects

VARIABLES
    slot,                \* rcu_stress_test_array
    refs,                \* objects each worker may still dereference
    pend,                \* object swapped out, free_with_fn not yet called
    queue_, scratch_,    \* sync::queue_, sync::scratch_
    last_reaped_epoch_,
    cl,                  \* "idle", or inside do_cleanup: "check", "reap"
    freed                \* blocks in the allocator's free lists

svars == <<slot, refs, pend, queue_, scratch_, last_reaped_epoch_, cl, freed>>
rvars == <<tvars, svars>>

Entry == [p : Objects, tick : Nat]

RcuTypeOK ==
    /\ slot \in [Cores -> Objects \cup {nullptr}]
    /\ refs \in [Cores -> SUBSET Objects]
    /\ pend \in [Cores -> Objects \cup {nullptr}]
    /\ queue_ \in [Cores -> SUBSET Entry] /\ scratch_ \in [Cores -> SUBSET Entry]
    /\ last_reaped_epoch_ \in [Cores -> Nat]
    /\ cl \in [Cores -> {"idle", "check", "reap"}]
    /\ freed \in SUBSET Objects

RcuInit ==
    /\ TickerInit
    /\ slot = [c \in Cores |-> nullptr]
    /\ refs = [c \in Cores |-> {}]
    /\ pend = [c \in Cores |-> nullptr]
    /\ queue_ = [c \in Cores |-> {}] /\ scratch_ = [c \in Cores |-> {}]
    /\ last_reaped_epoch_ = [c \in Cores |-> 0]
    /\ cl = [c \in Cores |-> "idle"]
    /\ freed = Objects

to_rcu_ticks(ticks) == ticks \div EpochTimeMultiplier

cleaning_rcu_tick_exclusive == to_rcu_ticks(global_last_tick_exclusive)

(***************************************************************************)
(* The body of rcu_stress_test_worker, inside its region.                  *)
(***************************************************************************)
InRegion(c) == gpc[c] = "in" /\ cl[c] = "idle"

ReadSlot(c, d) ==
    /\ InRegion(c) /\ slot[d] # nullptr
    /\ refs' = [refs EXCEPT ![c] = @ \cup {slot[d]}]
    /\ UNCHANGED <<tvars, slot, pend, queue_, scratch_, last_reaped_epoch_, cl, freed>>

SwapOut(c) ==
    /\ InRegion(c) /\ slot[c] # nullptr /\ pend[c] = nullptr
    /\ slot' = [slot EXCEPT ![c] = nullptr]
    /\ pend' = [pend EXCEPT ![c] = slot[c]]
    /\ UNCHANGED <<tvars, refs, queue_, scratch_, last_reaped_epoch_, cl, freed>>

\* Mutant: waits for the worker's own tick only.
free_with_fn_NoPlusOne(c) ==
    /\ InRegion(c) /\ pend[c] # nullptr
    /\ queue_' = [queue_ EXCEPT ![c] = @ \cup
                    {[p |-> pend[c], tick |-> to_rcu_ticks(ti_tick[c])]}]
    /\ pend' = [pend EXCEPT ![c] = nullptr]
    /\ UNCHANGED <<tvars, slot, refs, scratch_, last_reaped_epoch_, cl, freed>>

\* Mutant: takes the global clock instead of the tick the core is pinned to.
free_with_fn_Global(c) ==
    /\ InRegion(c) /\ pend[c] # nullptr
    /\ queue_' = [queue_ EXCEPT ![c] = @ \cup
                    {[p |-> pend[c], tick |-> to_rcu_ticks(current_tick_ + 1)]}]
    /\ pend' = [pend EXCEPT ![c] = nullptr]
    /\ UNCHANGED <<tvars, slot, refs, scratch_, last_reaped_epoch_, cl, freed>>

free_with_fn(c) ==
    /\ InRegion(c) /\ pend[c] # nullptr
    /\ queue_' = [queue_ EXCEPT ![c] = @ \cup
                    {[p |-> pend[c], tick |-> to_rcu_ticks(ti_tick[c] + 1)]}]
    /\ pend' = [pend EXCEPT ![c] = nullptr]
    /\ UNCHANGED <<tvars, slot, refs, scratch_, last_reaped_epoch_, cl, freed>>

Publish(c, o) ==
    /\ InRegion(c) /\ slot[c] = nullptr /\ pend[c] = nullptr
    /\ o \in freed
    /\ freed' = freed \ {o}
    /\ slot' = [slot EXCEPT ![c] = o]
    /\ UNCHANGED <<tvars, refs, pend, queue_, scratch_, last_reaped_epoch_, cl>>

(***************************************************************************)
(* scoped_rcu_base: the constructor, and the destructor with do_cleanup.   *)
(***************************************************************************)
RegionBegin(c) ==
    /\ cl[c] # "check"
    /\ GuardBump(c) \/ GuardLock(c) \/ GuardLoad(c) \/ GuardStore(c)
       \/ (cl[c] = "idle" /\ GuardNest(c))
    /\ UNCHANGED svars

RegionEnd(c) ==
    /\ pend[c] = nullptr /\ (cl[c] = "reap" => scratch_[c] = {})
    /\ GuardExit(c)
    /\ refs' = [refs EXCEPT ![c] = IF ti_depth[c] = 1 THEN {} ELSE @]
    /\ UNCHANGED <<slot, pend, queue_, scratch_, last_reaped_epoch_, cl, freed>>

RegionUnlock(c) ==
    /\ GuardUnlock(c)
    /\ cl' = [cl EXCEPT ![c] = "check"]
    /\ UNCHANGED <<slot, refs, pend, queue_, scratch_, last_reaped_epoch_, freed>>

\* Mutant: copies the due entries to scratch_ without unlinking them.
do_cleanup_Keep(c) ==
    LET clean_tick == cleaning_rcu_tick_exclusive - 1
        due == {e \in queue_[c] : e.tick <= clean_tick}
    IN  /\ cl[c] = "check"
        /\ IF cleaning_rcu_tick_exclusive = 0 \/ last_reaped_epoch_[c] = clean_tick
             THEN /\ cl' = [cl EXCEPT ![c] = "idle"]
                  /\ UNCHANGED <<queue_, scratch_, last_reaped_epoch_>>
             ELSE /\ last_reaped_epoch_' = [last_reaped_epoch_ EXCEPT ![c] = clean_tick]
                  /\ scratch_' = [scratch_ EXCEPT ![c] = due]
                  /\ UNCHANGED queue_
                  /\ cl' = [cl EXCEPT ![c] = IF due = {} THEN "idle" ELSE "reap"]
        /\ UNCHANGED <<tvars, slot, refs, pend, freed>>

do_cleanup(c) ==
    LET clean_tick == cleaning_rcu_tick_exclusive - 1
        due == {e \in queue_[c] : e.tick <= clean_tick}
    IN  /\ cl[c] = "check"
        /\ IF cleaning_rcu_tick_exclusive = 0 \/ last_reaped_epoch_[c] = clean_tick
             THEN /\ cl' = [cl EXCEPT ![c] = "idle"]
                  /\ UNCHANGED <<queue_, scratch_, last_reaped_epoch_>>
             ELSE /\ last_reaped_epoch_' = [last_reaped_epoch_ EXCEPT ![c] = clean_tick]
                  /\ scratch_' = [scratch_ EXCEPT ![c] = due]
                  /\ queue_' = [queue_ EXCEPT ![c] = @ \ due]
                  /\ cl' = [cl EXCEPT ![c] = IF due = {} THEN "idle" ELSE "reap"]
        /\ UNCHANGED <<tvars, slot, refs, pend, freed>>

RunDeleter(c, e) ==
    /\ cl[c] = "reap" /\ gpc[c] = "in" /\ e \in scratch_[c]
    /\ scratch_' = [scratch_ EXCEPT ![c] = @ \ {e}]
    /\ freed' = freed \cup {e.p}
    /\ UNCHANGED <<tvars, slot, refs, pend, queue_, last_reaped_epoch_, cl>>

RcuNext ==
    \/ tickerloop /\ UNCHANGED svars
    \/ \E c \in Cores :
         \/ \E d \in Cores : ReadSlot(c, d)
         \/ SwapOut(c) \/ free_with_fn(c) \/ \E o \in Objects : Publish(c, o)
         \/ RegionBegin(c) \/ RegionEnd(c) \/ RegionUnlock(c) \/ do_cleanup(c)
         \/ \E e \in scratch_[c] : RunDeleter(c, e)

RcuSpec == RcuInit /\ [][RcuNext]_rvars

(***************************************************************************)
(* Properties.                                                             *)
(***************************************************************************)
\* rcu.cc:353.  No worker inside a region holds an object whose deleter has
\* run: its magic number is still there.
NoUseAfterFree == \A c \in Cores : refs[c] \cap freed = {}

Waiting(c) == queue_[c] \cup scratch_[c]

\* rcu.cc:334.  A block is in at most one place: published in one slot, swapped
\* out by one worker, waiting for one deleter, or free; so no deleter runs
\* twice for one retirement.
NoDoubleFree ==
    \A c, d \in Cores :
       /\ slot[c] \notin freed /\ pend[c] \notin freed
       /\ slot[c] = slot[d] => c = d \/ slot[c] = nullptr
       /\ pend[c] = pend[d] => c = d \/ pend[c] = nullptr
       /\ pend[c] = slot[d] => pend[c] = nullptr
       /\ queue_[c] \cap scratch_[c] = {}
       /\ \A e \in Waiting(c) :
            /\ e.p \notin freed /\ e.p # slot[d] /\ e.p # pend[d]
            /\ \A f \in Waiting(d) : e.p = f.p => c = d /\ e = f

\* pxqueue.h:158 ("rcu_ticks can only go up!").  What a worker is about to
\* enqueue is never older than what it enqueued before.
QueueInOrder ==
    \A c \in Cores : InRegion(c) =>
       \A e \in queue_[c] : e.tick <= to_rcu_ticks(ti_tick[c] + 1)

\* rcu.cc:209-210.  The reaped epoch never goes back, and a new cleanup never
\* starts while deleters of the previous one are outstanding.
CleanupInOrder ==
    \A c \in Cores : cl[c] = "check" =>
       /\ cleaning_rcu_tick_exclusive # 0 =>
            last_reaped_epoch_[c] <= cleaning_rcu_tick_exclusive - 1
       /\ scratch_[c] = {}

=============================================================================
