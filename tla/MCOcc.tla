-------------------------------- MODULE MCOcc --------------------------------
EXTENDS Occ

get(k) == [op |-> "get", k |-> k]
put(k, v) == [op |-> "put", k |-> k, v |-> v, new |-> FALSE]
insert(k, v) == [op |-> "put", k |-> k, v |-> v, new |-> TRUE]
remove(k) == put(k, NoValue)

Txn(ops) == [snap |-> FALSE, abort |-> FALSE, ops |-> ops]
Abandoned(ops) == [snap |-> FALSE, abort |-> TRUE, ops |-> ops]
Snapshot(ops) == [snap |-> TRUE, abort |-> FALSE, ops |-> ops]

Run(progs, present, ticks) ==
    [progs |-> [c \in Cores |-> IF c < Len(progs) THEN progs[c + 1] ELSE <<>>],
     init |-> [k \in Keys |-> IF k \in present THEN 1 ELSE NoValue], ticks |-> ticks]

\* Two transactions within one epoch.  Values above 4 are long.
Pairs ==
    { \* write skew
      Run(<<<<Txn(<<get("x"), put("y", 2)>>)>>, <<Txn(<<get("y"), put("x", 4)>>)>>>>, {"x", "y"}, 1),
      \* each reads the absence of what the other inserts
      Run(<<<<Txn(<<get("x"), insert("y", 2)>>)>>, <<Txn(<<get("y"), put("x", 4)>>)>>>>, {}, 1),
      \* a tentative tuple is locked before the locks are sorted
      Run(<<<<Txn(<<insert("y", 2), put("x", 2)>>)>>, <<Txn(<<put("x", 4), put("y", 4)>>)>>>>, {"x"}, 1),
      Run(<<<<Txn(<<insert("y", 2), get("x")>>)>>, <<Txn(<<insert("x", 4), get("y")>>)>>>>, {}, 1),
      \* two writes of one key, the second of which does not fit
      Run(<<<<Txn(<<put("x", 2), put("x", 5)>>)>>, <<Txn(<<get("x"), get("x"), put("y", 4)>>)>>>>, {"x", "y"}, 1),
      Run(<<<<Txn(<<insert("x", 2), put("x", 5)>>)>>, <<Txn(<<put("x", 4)>>)>>>>, {}, 1),
      \* a removal, of a record and of a key that is not there
      Run(<<<<Txn(<<remove("x"), get("y")>>)>>, <<Txn(<<get("x"), put("y", 4)>>)>>>>, {"x", "y"}, 1),
      Run(<<<<Txn(<<remove("x"), put("x", 2)>>)>>, <<Txn(<<put("x", 4)>>)>>>>, {}, 1),
      \* an insert that is undone, and one that changes a leaf already searched
      Run(<<<<Abandoned(<<insert("y", 2), get("x")>>)>>, <<Txn(<<get("y"), put("y", 4)>>), Txn(<<get("y")>>)>>>>,
          {"x"}, 1),
      Run(<<<<Txn(<<get("x"), get("y")>>)>>, <<Txn(<<insert("x", 4)>>)>>>>, {}, 1) }

\* One transaction finds x absent while a second inserts it and a third takes
\* its own insert back.
Phantom ==
    Run(<<<<Txn(<<get("x"), get("y")>>)>>, <<Txn(<<insert("x", 2), put("y", 2)>>)>>,
          <<Abandoned(<<insert("z", 3)>>)>>>>, {"y"}, 1)

\* A snapshot beside transactions of several epochs, and their cleaning.
Old ==
    { Run(<<<<Txn(<<put("x", 2)>>), Txn(<<put("x", 5)>>)>>, <<Snapshot(<<get("x"), get("y")>>)>>>>, {"x"}, 5),
      Run(<<<<Txn(<<remove("x")>>), Txn(<<put("x", 3)>>)>>, <<Snapshot(<<get("x"), put("y", 4)>>)>>>>, {"x"}, 5) }

MCScenarios == Pairs \cup {Phantom} \cup Old
PhantomOnly == {Phantom}
=============================================================================
