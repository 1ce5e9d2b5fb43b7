---------------------------- MODULE BoundedQueue ----------------------------
(***************************************************************************)
(* What iris's sslfqueue<T> promises its two users: a first-in first-out   *)
(* queue of at most cap elements.  offer appends one element; poll and     *)
(* batch_poll take elements from the front, in order, as one atomic step,  *)
(* and hand them to the caller.                                            *)
(***************************************************************************)
EXTENDS Naturals, Sequences

CONSTANTS T,    \* the element values
          cap   \* the capacity

VARIABLES items,  \* what the queue holds, oldest first
          out     \* everything handed to the consumer so far

QueueInit == items = << >> /\ out = << >>

Put(e) ==
    /\ Len(items) < cap
    /\ items' = Append(items, e)
    /\ UNCHANGED out

Take(n) ==
    /\ items' = SubSeq(items, n + 1, Len(items))
    /\ out' = out \o SubSeq(items, 1, n)

QueueNext == (\E e \in T : Put(e)) \/ (\E n \in 1 .. Len(items) : Take(n))

QueueSpec == QueueInit /\ [][QueueNext]_<<items, out>>
=============================================================================
