----------------------------- MODULE OrderBook ------------------------------
(***************************************************************************)
(* The order book of gdax-orderbook-hpp/gdax-orderbook.hpp: the thread of  *)
(* handleUpdates reads snapshot and l2update messages and applies their    *)
(* changes, one map operation at a time, to the maps bids and offers that  *)
(* the client's threads iterate.  A price in a message is a number of      *)
(* cents, written in dollars as the feed does; a key of the maps is the    *)
(* unsigned int the code computes from that text.                          *)
(***************************************************************************)
EXTENDS Integers, Sequences, SequencesExt

CONSTANTS
    Cents,        \* the prices the feed names
    RoundedDown,  \* those whose double, times 100, falls below the cents
    Sizes,        \* order quantities, other than zero
    MaxMessages,  \* bound on the messages of the feed
    MaxChanges    \* bound on the price levels one message names

Sides == {"bids", "offers"}

VARIABLES
    book,     \* the maps bids and offers
    work,     \* map operations left of the message being processed
    finished, \* the promise m_bookInitialized
    thread,   \* "run", or "end" once handleUpdates has returned or thrown
    client,   \* "ctor", "use" or "dtor"
    messages, \* number of messages read
    feed      \* the order book the messages read so far describe

bookVars == <<book, work, finished, thread, client, messages, feed>>

NoLevels == <<>>

\* The key processSnapshotHalf and updateMap store a level under.
Price(c) == IF c \in RoundedDown THEN c - 1 ELSE c

\* The key updateMap erases: the dollars, converted to unsigned int.
ErasedPrice(c) == c \div 100

\* SkipListMap::insert, update and erase.
update(map, k, v) == [x \in DOMAIN map \cup {k} |-> IF x = k THEN v ELSE map[x]]

insert(map, k, v) == IF k \in DOMAIN map THEN map ELSE update(map, k, v)

erase(map, k) == Restrict(map, DOMAIN map \ {k})

BookInit ==
    /\ book = [s \in Sides |-> NoLevels]
    /\ work = <<>>
    /\ finished = FALSE
    /\ thread = "run"
    /\ client = "ctor"
    /\ messages = 0
    /\ feed = [s \in Sides |-> NoLevels]

\* One half of a snapshot: levels at different prices, in some order.
Halves == {h \in BoundedSeq(Cents \X Sizes, MaxChanges) :
              \A i, j \in DOMAIN h : h[i][1] = h[j][1] => i = j}

\* The price levels of a half.
Levels(half) == [c \in {l[1] : l \in Range(half)} |-> (CHOOSE l \in Range(half) : l[1] = c)[2]]

\* The operations of one message, in the order the code performs them.
Inserts(side, half) ==
    [i \in DOMAIN half |-> [op |-> "insert", side |-> side, cents |-> half[i][1], size |-> half[i][2]]]

Updates(changes) ==
    [i \in DOMAIN changes |-> [op |-> "update", side |-> changes[i][1], cents |-> changes[i][2], size |-> changes[i][3]]]

\* getline, Parse and the dispatch on the type of the message: only a stream
\* that the destructor has not closed yields a line.
Read ==
    /\ thread = "run"
    /\ client # "dtor"
    /\ work = <<>>
    /\ messages < MaxMessages
    /\ messages' = messages + 1
    /\ UNCHANGED <<book, finished, thread, client>>

ReadSnapshot ==
    /\ Read
    /\ \E bids, asks \in Halves :
        /\ work' = Inserts("bids", bids) \o Inserts("offers", asks) \o << [op |-> "set_value"] >>
        /\ feed' = [s \in Sides |-> Levels(IF s = "bids" THEN bids ELSE asks)]

\* What the changes of an l2update make of the feed's book.
Described(levels, side, changes) ==
    FoldLeft(LAMBDA m, ch : IF ch[1] # side THEN m
                            ELSE IF ch[3] = 0 THEN erase(m, ch[2]) ELSE update(m, ch[2], ch[3]),
             levels, changes)

ReadUpdate ==
    /\ Read
    /\ \E changes \in BoundedSeq(Sides \X Cents \X (Sizes \cup {0}), MaxChanges) :
        /\ work' = Updates(changes)
        /\ feed' = [s \in Sides |-> Described(feed[s], s, changes)]

\* A message of another type.
ReadOther ==
    /\ Read
    /\ UNCHANGED <<work, feed>>

\* The body of processSnapshotHalf's loop.
processSnapshotHalf ==
    /\ thread = "run" /\ work # <<>> /\ Head(work).op = "insert"
    /\ book' = [book EXCEPT ![Head(work).side] = insert(@, Price(Head(work).cents), Head(work).size)]
    /\ work' = Tail(work)
    /\ UNCHANGED <<finished, thread, client, messages, feed>>

\* The end of processSnapshot: set_value throws if the promise already has a
\* value, and nothing in handleUpdates catches that exception.
processSnapshot ==
    /\ thread = "run" /\ work # <<>> /\ Head(work).op = "set_value"
    /\ finished' = TRUE
    /\ thread' = IF finished THEN "end" ELSE "run"
    /\ work' = Tail(work)
    /\ UNCHANGED <<book, client, messages, feed>>

\* The body of processUpdates' loop, with updateMap.
updateMap ==
    /\ thread = "run" /\ work # <<>> /\ Head(work).op = "update"
    /\ LET ch == Head(work)
       IN  book' = [book EXCEPT ![ch.side] = IF ch.size = 0 THEN erase(@, ErasedPrice(ch.cents))
                                             ELSE update(@, Price(ch.cents), ch.size)]
    /\ work' = Tail(work)
    /\ UNCHANGED <<finished, thread, client, messages, feed>>

\* The end of the file, or a stream closed by the destructor.
EndOfFeed ==
    /\ thread = "run"
    /\ work = <<>>
    /\ thread' = "end"
    /\ UNCHANGED <<book, work, finished, client, messages, feed>>

\* The constructor returns once the promise has a value.
Constructed ==
    /\ client = "ctor"
    /\ finished
    /\ client' = "use"
    /\ UNCHANGED <<book, work, finished, thread, messages, feed>>

\* The destructor closes the stream, then waits for the thread.
Destroy ==
    /\ client = "use"
    /\ client' = "dtor"
    /\ UNCHANGED <<book, work, finished, thread, messages, feed>>

BookNext ==
    \/ ReadSnapshot \/ ReadUpdate \/ ReadOther
    \/ processSnapshotHalf \/ processSnapshot \/ updateMap
    \/ EndOfFeed \/ Constructed \/ Destroy

BookSpec == BookInit /\ [][BookNext]_bookVars

(***************************************************************************)
(* Between two messages the maps a client iterates have the levels and the *)
(* sizes of the order book the messages describe: in particular a level    *)
(* whose size has gone to zero is gone (updateMap's erase).  Prices are    *)
(* compared through Price, so that the property is not about rounding.     *)
(***************************************************************************)
CopyOfBook ==
    client = "use" /\ thread = "run" /\ work = <<>> =>
        \A s \in Sides :
            /\ DOMAIN book[s] = {Price(c) : c \in DOMAIN feed[s]}
            /\ \A c \in DOMAIN feed[s] : book[s][Price(c)] = feed[s][c]
=============================================================================
