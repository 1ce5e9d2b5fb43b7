---------------------------- MODULE LfRingBuffer ----------------------------
(***************************************************************************)
(* iris/include/lfringbuffer.h: the ring buffer from which a logging       *)
(* thread takes the bytes of a message and to which the output thread      *)
(* gives them back in the order of allocation.                             *)
(*                                                                         *)
(* head, tail and tail_cache are unsigned longs that wrap round; here the  *)
(* word holds 0 .. Word - 1, so every wrap of the real counters occurs in  *)
(* a finite model and no bound on the number of calls is needed.           *)
(*                                                                         *)
(* The acquire load of tail may return any value stored since the one in   *)
(* tail_cache: unseen lists those values, oldest first.                    *)
(***************************************************************************)
EXTENDS Integers, Sequences, FiniteSets, Bitwise

CONSTANTS Capacities,  \* constructor arguments
          Sizes,       \* request sizes
          Word         \* number of values of an unsigned long

VARIABLES cap, head, tail_cache,
          unseen,  \* values stored in tail after the one in tail_cache
          want,    \* the size the caller of acquire retries, 0 when none
          live     \* allocations not yet released: [ptr, size, alloc_size]

ringvars == <<cap, head, tail_cache, unseen, want, live>>

tail == IF unseen = << >> THEN tail_cache ELSE unseen[Len(unseen)]

-----------------------------------------------------------------------------
(* utils.cpp: bits and ones count the binary digits of n, and its ones.    *)
BitsAndOnes[n \in Nat] ==
    IF n = 0 THEN [bits |-> 0, ones |-> 0]
    ELSE LET r == BitsAndOnes[n \div 2]
         IN  [bits |-> r.bits + 1, ones |-> r.ones + (n % 2)]

\* Mutant: the next even number, which is what the name says.
round_up_to_next_multiple_of_2_Even(n) == n + (n % 2)

round_up_to_next_multiple_of_2(n) ==
    IF BitsAndOnes[n].ones = 1 THEN n ELSE 2 ^ BitsAndOnes[n].bits

mask == cap - 1

Minus(a, b) == (a - b + Word) % Word

RingInit ==
    /\ cap \in {round_up_to_next_multiple_of_2(size) : size \in Capacities}
    /\ head = 0 /\ tail_cache = cap /\ unseen = << >>
    /\ want = 0 /\ live = << >>

(* The caller decides on the next message; log() retries acquire until the *)
(* return value is not zero.                                               *)
Request(size) ==
    /\ want = 0
    /\ size <= cap
    /\ want' = size
    /\ UNCHANGED <<cap, head, tail_cache, unseen, live>>

(* i is how many of the unseen stores the first load of tail returns, j    *)
(* the same for the second; each is taken only where the code loads.       *)
Stored(n) == IF n = 0 THEN tail_cache ELSE unseen[n]

RearFree == cap - (head & mask)

Grant(ptr, alloc_size) ==
    /\ head' = (head + alloc_size) % Word
    /\ live' = Append(live, [ptr |-> ptr, size |-> want, alloc_size |-> alloc_size])
    /\ want' = 0

acquire(i, j) ==
    LET first == IF Minus(tail_cache, head) < want THEN i ELSE 0
        total_free == Minus(Stored(first), head)
        rear == RearFree >= want
        second == IF ~rear /\ total_free >= want /\ (Stored(first) & mask) < want
                  THEN j ELSE first
        front == (Stored(second) & mask) >= want
    IN  /\ want # 0
        /\ i <= j
        /\ tail_cache' = Stored(second)
        /\ unseen' = SubSeq(unseen, second + 1, Len(unseen))
        /\ \/ total_free >= want /\ rear /\ Grant(head & mask, want)
           \/ total_free >= want /\ ~rear /\ front /\ Grant(0, RearFree + want)
           \/ /\ total_free < want \/ (~rear /\ ~front)
              /\ UNCHANGED <<head, live, want>>
        /\ UNCHANGED cap

release ==
    /\ live # << >>
    /\ unseen' = Append(unseen, (tail + live[1].alloc_size) % Word)
    /\ live' = Tail(live)
    /\ UNCHANGED <<cap, head, tail_cache, want>>

-----------------------------------------------------------------------------
RingNext ==
    \/ \E size \in Sizes : Request(size)
    \/ \E i, j \in 0 .. Len(unseen) : acquire(i, j)
    \/ release

RingSpec == RingInit /\ [][RingNext]_ringvars

(* The output thread releases what it was handed; the caller retries, and  *)
(* a store to tail is not hidden from its loads for ever.                  *)
RingFairSpec ==
    /\ RingSpec
    /\ WF_ringvars(release)
    /\ SF_ringvars(acquire(Len(unseen), Len(unseen)))

-----------------------------------------------------------------------------
Bytes(a) == a.ptr .. a.ptr + a.size - 1

(* The messages that live in the buffer at one time lie inside it and do    *)
(* not overlap: acquire (lfringbuffer.h:53-88) never hands out a byte the   *)
(* output thread has not released, whatever tail it has cached.             *)
NoOverlap ==
    /\ \A n \in DOMAIN live : Bytes(live[n]) \subseteq 0 .. cap - 1
    /\ \A m, n \in DOMAIN live : m # n => Bytes(live[m]) \cap Bytes(live[n]) = {}

(* A request of at most half the buffer is granted after finitely many      *)
(* retries of acquire() (13-14: "A thread calls acquire() method repeatedly *)
(* until the return value is nonzero").  A larger one need not be: with     *)
(* head in the middle, neither end of an empty buffer can hold it.          *)
HalfGranted == want # 0 /\ 2 * want <= cap ~> want = 0
=============================================================================
