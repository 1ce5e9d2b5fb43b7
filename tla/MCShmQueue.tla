----------------------------- MODULE MCShmQueue -----------------------------
EXTENDS ShmQueue

Both(a, b) == [r \in Readers |-> IF r = "r1" THEN a ELSE b]

\* Updates from readers that may die; updates while the database is closed and
\* opened again; collections and backups, from readers that may die.
AllScenarios ==
    {[kinds |-> Both("UPDATE", "UPDATE"), crashes |-> 1, stops |-> FALSE],
     [kinds |-> Both("UPDATE", "UPDATE"), crashes |-> 0, stops |-> TRUE],
     [kinds |-> Both("RC", "BACKUP"), crashes |-> 1, stops |-> FALSE]}

=============================================================================
