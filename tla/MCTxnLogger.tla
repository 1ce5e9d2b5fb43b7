---------------------------- MODULE MCTxnLogger ----------------------------
EXTENDS TxnLogger

\* One writer serves all cores.
OneLogger == [c \in Cores |-> CHOOSE l \in Loggers : TRUE]

NoCores == {}

OneEach == [c \in Cores |-> 1]
TwoEach == [c \in Cores |-> 2]
TwoAndOne == [c \in Cores |-> IF c = 0 THEN 2 ELSE 1]

=============================================================================
