----------------------------- MODULE MCAtomics -----------------------------
(***************************************************************************)
(* Algorithms on shared memory that take no lock of the system: the C11    *)
(* benchmarks (CdsBench) and the reads of mabain that race its writer      *)
(* (LockFree).  A behaviour runs one of them, and the state of the other   *)
(* one stays as initialized.                                               *)
(***************************************************************************)
EXTENDS CdsBench

CONSTANTS Algorithms, Edges, Works, NodeOffs, DataOffs, MAX_OFFSET_CACHE, CounterMod,
          MaxAhead

ASSUME LockFreeAssumption ==
    /\ \A w \in Works : w.finds \subseteq Seq(Edges) /\ w.deaths \in Nat
                         /\ DOMAIN w.start = Edges /\ DOMAIN w.kinds = Edges
    /\ MAX_OFFSET_CACHE \in Nat \ {0}
    /\ CounterMod \in Nat /\ CounterMod % MAX_OFFSET_CACHE = 0
    /\ MaxAhead \in Nat /\ MaxAhead < CounterMod

VARIABLES
    work, edge, counter, offset, offset_cache, status, excep, prog, upd, todo, up,
    deaths, meant, rpc, path, here, snapshot, saved, bytes, stop, torn, calm,
    algorithm   \* the algorithm this behaviour runs

LF == INSTANCE LockFree

-----------------------------------------------------------------------------
\* The test programs, with a third thread for the MCS lock and one that uses
\* the trylock operations.
Program(bench, threads, once) == [bench |-> bench, threads |-> threads, once |-> once]

AllScenarios ==
    {Program("mcs", {"A", "B", "C"}, {"C"}),
     Program("rw", {"A", "B"}, {}),
     Program("rw", {"A", "B", "C"}, {"A", "B"}),
     Program("mpmc", {"A", "B", "C", "D"}, {}),
     Program("barrier", {"A", "B", "C", "D"}, {})}

\* mabain: what the writer does to the edges, and what the reader reads.
Data(d) == [flag |-> "DATA", off |-> d]
Node(n) == [flag |-> "NODE", off |-> n]
NoEdge == [flag |-> "NONE", off |-> "none"]
AnyEdge == {NoEdge} \cup {Node(n) : n \in NodeOffs} \cup {Data(d) : d \in DataOffs}

Each(r, c) == [e \in Edges |-> IF e = "root" THEN r ELSE c]

\* One edge is read while it and another one change.
OneEdge ==
    [start |-> Each(Data("d1"), Data("d1")), deaths |-> 0,
     finds |-> {<<"root">>},
     kinds |-> Each({"ADD_EDGE", "CLEAR_EDGE"}, {"ADD_DATA_OFF"}),
     vals |-> Each({NoEdge, Data("d1")}, {Data("d1"), Data("d2")})]

\* A path of two edges; the first one is followed before it is made sure of.
TwoEdges ==
    [start |-> Each(Node("n1"), Data("d1")), deaths |-> 0,
     finds |-> {<<"root", "child">>},
     kinds |-> Each({"REMOVE_EDGE"}, {"CLEAR_EDGE"}),
     vals |-> Each({Node("n1"), Node("n2")}, {NoEdge, Data("d1")})]

\* The writer dies in an update of any kind, and again in the recovery.
Deaths ==
    [start |-> Each(Node("n1"), Data("d1")), deaths |-> 2, finds |-> {},
     kinds |-> Each({"ADD_EDGE", "CLEAR_EDGE", "REMOVE_EDGE", "RC"}, {"ADD_DATA_OFF"}),
     vals |-> Each(AnyEdge, {Data("d1"), Data("d2")})]

\* The writer dies and restarts while an edge is read.
DeathRead ==
    [start |-> Each(Data("d1"), Data("d1")), deaths |-> 1,
     finds |-> {<<"root">>},
     kinds |-> Each({"ADD_EDGE", "CLEAR_EDGE"}, {}),
     vals |-> Each({NoEdge, Data("d1")}, {})]

AllWorks == {OneEdge, TwoEdges, Deaths, DeathRead}

\* The last edge of a node is removed, and the writer dies.
LastEdge ==
    {[start |-> Each(Node("n1"), Data("d1")), deaths |-> 1, finds |-> {},
      kinds |-> Each({"REMOVE_ONE"}, {}), vals |-> Each(AnyEdge, {})]}

-----------------------------------------------------------------------------
edgevars ==
    <<work, edge, counter, offset, offset_cache, status, excep, prog, upd, todo, up,
      deaths, meant, rpc, path, here, snapshot, saved, bytes, stop, torn, calm>>

atomicvars == <<bvars, edgevars, algorithm>>

AtomicsInit ==
    /\ algorithm \in Algorithms
    /\ CdsInit /\ LF!LfInit
    /\ algorithm = "c11" => work = CHOOSE w \in Works : TRUE
    /\ algorithm = "lock_free" => scen = CHOOSE x \in Scenarios : x.bench = "rw"

OfBench(A) == algorithm = "c11" /\ A /\ UNCHANGED <<edgevars, algorithm>>

OfEdges(A) == algorithm = "lock_free" /\ A /\ UNCHANGED <<bvars, algorithm>>

AtomicsNext == OfBench(CdsNext) \/ OfEdges(LF!LfNext)

\* The fairness of CdsSpec and of LfSpec.
AtomicsSpec ==
    /\ AtomicsInit /\ [][AtomicsNext]_atomicvars
    /\ \A t \in UNION {x.threads : x \in Scenarios} :
          WF_atomicvars(OfBench(t \in scen.threads /\ CdsStep(t)))
    /\ WF_atomicvars(OfEdges(LF!ReaderStep))

-----------------------------------------------------------------------------
\* Nobody waits for ever: every thread of a benchmark gets to its end
\* (AllEnd), and a Find comes to an end once the writer leaves the database
\* alone (FindReturns).
OperationsEnd == (algorithm = "c11" => AllEnd) /\ LF!FindReturns

\* ReaderLockFreeStop never passes an edge read in parts of two states of it.
EdgeWhole == LF!EdgeWhole

\* After ExceptionRecovery every edge is as before or after the update that was
\* interrupted.
RecoveredWhole == LF!RecoveredWhole
=============================================================================
