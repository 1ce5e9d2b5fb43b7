----------------------------- MODULE C11Memory -----------------------------
(***************************************************************************)
(* Atomic objects of C++11 as the benchmarks use them (an external part:   *)
(* std::atomic).  Each object has its modification order, a sequence of    *)
(* messages, and each thread a view: for every object, the last message it *)
(* may no longer ignore.  A load reads any message from its view on; a     *)
(* store goes anywhere behind the view, a read-modify-write right behind   *)
(* the message it reads.  An acquire load joins the view a release store   *)
(* left in the message; a read-modify-write passes that view on.           *)
(*                                                                         *)
(* Sequentially consistent operations are taken as acquire and release,    *)
(* which allows more than the standard; loads that read from stores later  *)
(* in program order are left out, which allows less.                       *)
(***************************************************************************)
EXTENDS Naturals, Sequences, SequencesExt

VARIABLES
    mem,     \* mem[l]: modification order of l, of [val, view, rmw]
    cur      \* cur[t]: view of thread t, for each l an index into mem[l]

memvars == <<mem, cur>>

Locs == DOMAIN mem
NoView == [l \in Locs |-> 1]
Join(v, w) == [l \in Locs |-> IF v[l] < w[l] THEN w[l] ELSE v[l]]

\* Objects with their initial values, seen by every thread.
MemInit(vals, threads) ==
    LET first == [l \in DOMAIN vals |-> 1] IN
    /\ mem = [l \in DOMAIN vals |-> <<[val |-> vals[l], view |-> first, rmw |-> FALSE]>>]
    /\ cur = [t \in threads |-> first]

Visible(t, l) == cur[t][l] .. Len(mem[l])
Val(l, i) == mem[l][i].val

\* The view of t after it read message i of l.
Reading(t, l, i, order) ==
    LET seen == [cur[t] EXCEPT ![l] = i] IN
    IF order \in {"acquire", "acq_rel"} THEN Join(seen, mem[l][i].view) ELSE seen

Load(t, l, i, order) ==
    /\ cur' = [cur EXCEPT ![t] = Reading(t, l, i, order)]
    /\ UNCHANGED mem

\* Views after a message was inserted behind message i of l.
Shift(view, l, i) == IF view[l] > i THEN [view EXCEPT ![l] = @ + 1] ELSE view

Room(l, i) == i < Len(mem[l]) => ~mem[l][i + 1].rmw

\* t, whose view is now v, puts val behind message i of l.
Put(t, l, i, val, v, passed, order, rmw) ==
    LET mine == [Shift(v, l, i) EXCEPT ![l] = i + 1]
        left == IF order \in {"release", "acq_rel"} THEN mine ELSE NoView
        shifted == [k \in Locs |->
                      [j \in 1 .. Len(mem[k]) |->
                          [mem[k][j] EXCEPT !.view = Shift(@, l, i)]]]
        new == [val |-> val, view |-> Join(left, Shift(passed, l, i)), rmw |-> rmw]
    IN /\ Room(l, i)
       /\ mem' = [shifted EXCEPT ![l] = InsertAt(@, i + 1, new)]
       /\ cur' = [x \in DOMAIN cur |-> IF x = t THEN mine ELSE Shift(cur[x], l, i)]

Store(t, l, val, order) ==
    \E i \in Visible(t, l) : Put(t, l, i, val, cur[t], NoView, order, FALSE)

\* Reads message i of l and puts val behind it.
RMW(t, l, i, val, order) ==
    Put(t, l, i, val, Reading(t, l, i, order), mem[l][i].view, order, TRUE)

=============================================================================
