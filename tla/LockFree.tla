------------------------------ MODULE LockFree ------------------------------
(***************************************************************************)
(* mabain/src/lock_free.cpp: how the processes that read a mabain database *)
(* notice that its one writer is changing the edge they read, and what the *)
(* header keeps so that a writer that died can finish (dict.cpp:1410).     *)
(*                                                                         *)
(* An edge is 13 bytes of shared memory, read and written with memcpy.     *)
(* Its flag and the offset it leads to are the two parts told apart here;  *)
(* a copy may move them in either order and be overtaken in between.       *)
(* Memory is that of x86: the stores of the writer become visible in       *)
(* order, and the loads of a reader are performed in order.                *)
(*                                                                         *)
(* The edge saved for OPTION_READ_SAVED_EDGE is left out: Find keeps it in *)
(* data.edge_ptrs, into which the retry reads the root edge (dict.cpp:752, *)
(* dict_mem.cpp:769) before anyone looks at it.                            *)
(***************************************************************************)
EXTENDS Integers, Sequences, FiniteSets

CONSTANTS
    Edges,             \* edges in use, named by their offset
    Works,             \* what is going on: the edges at the start, the kinds of
                       \* update the writer makes of each, the paths of edges
                       \* the reader walks, how often the writer dies
    NodeOffs, DataOffs,   \* offsets of nodes and of data
    MAX_OFFSET_CACHE,
    CounterMod,        \* counter is a uint32_t: wraps at 2^32
    MaxAhead           \* bound on the updates during one attempt of a reader

MAX_6B_OFFSET == "none"

Parts == {"flag", "off"}

Leads(f, o) == [flag |-> f, off |-> o]
empty_edge == Leads("NONE", MAX_6B_OFFSET)
ToNode(n) == Leads("NODE", n)
ToData(d) == Leads("DATA", d)

VARIABLES
    work,           \* the element of Works this behaviour shows, fixed
    edge,           \* the bytes of the edges
    counter, offset, offset_cache,   \* LockFreeShmData
    status, excep,  \* excep_updating_status; [edge, val], the data of recovery
    prog,           \* steps of the writer still to come; << >> between updates
    upd,            \* the update: edge, the value wanted, the parts to write
    todo,           \* parts of a write not yet copied
    up, deaths,     \* the writer is running; how often it has died
    meant,          \* history: what an edge may hold when the writer is idle
    rpc, path, here,  \* the reader: its step, its path, the edge it has come to
    snapshot, saved,  \* snapshot.counter; OPTION_READ_SAVED_EDGE
    bytes,          \* what it has read of each edge of the path
    stop,           \* locals of ReaderLockFreeStop
    torn,           \* history: an edge passed by the counter was not whole
    calm            \* history: no restart of the writer since the snapshot

shm == <<work, edge, counter, offset, offset_cache, status, excep>>
writer == <<prog, upd, todo, up, deaths, meant, calm>>
reader == <<rpc, path, here, snapshot, saved, bytes, stop, torn>>
lfvars == <<shm, writer, reader>>

Values == {empty_edge} \cup {ToNode(n) : n \in NodeOffs} \cup {ToData(d) : d \in DataOffs}

NoUpdate == [kind |-> "NONE", edge |-> MAX_6B_OFFSET, val |-> empty_edge, parts |-> {}]
NoExcep == [edge |-> MAX_6B_OFFSET, val |-> empty_edge]
NoStop == [k |-> 0, offset |-> MAX_6B_OFFSET, i |-> 0, diff |-> 0]

LfInit ==
    /\ work \in Works /\ edge = work.start
    /\ counter = CounterMod - 1 /\ offset = MAX_6B_OFFSET
    /\ offset_cache = [i \in 0 .. MAX_OFFSET_CACHE - 1 |-> MAX_6B_OFFSET]
    /\ status = "NONE" /\ excep = NoExcep
    /\ prog = << >> /\ upd = NoUpdate /\ todo = {} /\ up = TRUE /\ deaths = 0
    /\ meant = [e \in Edges |-> {edge[e]}]
    /\ rpc = "idle" /\ path = << >> /\ here = 0 /\ snapshot = 0 /\ saved = FALSE
    /\ bytes = << >> /\ stop = NoStop /\ torn = FALSE /\ calm = TRUE

-----------------------------------------------------------------------------
(* The writer.  Each update of an edge is a sequence of stores.            *)

\* Mutant: the counter is advanced before the edge is in the cache.
StopStores_CountFirst == <<"count", "cache", "clear">>

\* WriterLockFreeStop.
StopStores == <<"cache", "count", "clear">>

\* Mutant: the status is set once the edge is written.
Stores_StatusLate(kind) == <<"start", "write", "status">> \o StopStores \o <<"none">>

Stores(kind) ==
    CASE kind \in {"ADD_EDGE", "CLEAR_EDGE", "REMOVE_EDGE", "REMOVE_ONE"} ->
           <<"status", "start", "write">> \o StopStores \o <<"none">>
      [] kind = "ADD_DATA_OFF" ->
           <<"start", "status", "write">> \o StopStores \o <<"none">>
      [] kind = "RC" ->
           <<"start", "status", "write", "none">> \o StopStores

(* What an update may make of an edge that holds v, and the parts it       *)
(* writes.  ADD_EDGE: AddRootEdge, InsertNode, AddLink, UpdateNode.        *)
(* REMOVE_EDGE and REMOVE_ONE: the two halves of RemoveEdgeByIndex.        *)
Wanted(kind, v) ==
    CASE kind = "ADD_EDGE" ->
           IF v = empty_edge THEN {ToData(d) : d \in DataOffs}
           ELSE {ToNode(n) : n \in NodeOffs \ {v.off}}
      [] kind = "CLEAR_EDGE" -> {empty_edge} \ {v}
      [] kind = "ADD_DATA_OFF" ->
           IF v.flag = "DATA" THEN {ToData(d) : d \in DataOffs \ {v.off}} ELSE {}
      [] kind = "REMOVE_EDGE" ->
           IF v.flag = "NODE" THEN {ToNode(n) : n \in NodeOffs \ {v.off}} ELSE {}
      [] kind = "REMOVE_ONE" ->
           IF v.flag = "NODE" THEN {ToData(d) : d \in DataOffs} ELSE {}
      [] kind = "RC" ->
           {w \in Values : w.flag = v.flag /\ w.off # v.off}

Written(kind) == IF kind \in {"ADD_EDGE", "CLEAR_EDGE", "REMOVE_ONE"} THEN Parts ELSE {"off"}

(* excep_buff and excep_offset: what recovery writes.  A removal keeps the *)
(* offset of the node it replaces (dict_mem.cpp:1057).                     *)
Kept(u) == [edge |-> u.edge,
            val |-> IF u.kind \in {"REMOVE_EDGE", "REMOVE_ONE"} THEN edge[u.edge] ELSE u.val]

Update(kind, e, v) ==
    /\ up /\ prog = << >>
    /\ v \in Wanted(kind, edge[e])
    /\ upd' = [kind |-> kind, edge |-> e, val |-> v, parts |-> Written(kind)]
    /\ prog' = Stores(kind)
    /\ excep' = Kept(upd')
    /\ meant' = [meant EXCEPT ![e] = {edge[e], v}]
    /\ UNCHANGED <<work, edge, counter, offset, offset_cache, status, todo, up, deaths,
                   calm, reader>>

At(s) == up /\ prog # << >> /\ prog[1] = s

Next1 == prog' = Tail(prog)

SetStatus ==
    /\ At("status") /\ Next1
    /\ status' = IF upd.kind = "REMOVE_ONE" THEN "REMOVE_EDGE" ELSE upd.kind
    /\ UNCHANGED <<work, edge, counter, offset, offset_cache, excep, upd, todo, up, deaths,
                   meant, calm, reader>>

WriterLockFreeStart ==
    /\ At("start") /\ Next1
    /\ offset' = upd.edge
    /\ todo' = upd.parts
    /\ UNCHANGED <<work, edge, counter, offset_cache, status, excep, upd, up, deaths, meant,
                   calm, reader>>

WriteEdge(p) ==
    /\ At("write") /\ p \in todo
    /\ edge' = [edge EXCEPT ![upd.edge][p] = upd.val[p]]
    /\ todo' = todo \ {p}
    /\ prog' = IF todo' = {} THEN Tail(prog) ELSE prog
    /\ UNCHANGED <<work, counter, offset, offset_cache, status, excep, upd, up, deaths,
                   meant, calm, reader>>

CacheIndex(c) == c % MAX_OFFSET_CACHE

StoreCache ==
    /\ At("cache") /\ Next1
    /\ offset_cache' = [offset_cache EXCEPT ![CacheIndex(counter)] = offset]
    /\ UNCHANGED <<work, edge, counter, offset, status, excep, upd, todo, up, deaths, meant,
                   calm, reader>>

CountDiff(c) == (c + CounterMod - snapshot) % CounterMod

StoreCounter ==
    /\ At("count") /\ Next1
    /\ rpc # "idle" => CountDiff(counter) < MaxAhead
    /\ counter' = (counter + 1) % CounterMod
    /\ UNCHANGED <<work, edge, offset, offset_cache, status, excep, upd, todo, up, deaths,
                   meant, calm, reader>>

\* The last store of an update.
Settle ==
    IF Len(prog) > 1 \/ upd = NoUpdate THEN UNCHANGED <<meant, upd, excep>>
    ELSE /\ meant' = IF upd.kind = "RECOVER" THEN meant
                     ELSE [meant EXCEPT ![upd.edge] = {upd.val}]
         /\ upd' = NoUpdate /\ excep' = NoExcep

StoreOffset ==
    /\ At("clear") /\ Next1
    /\ offset' = MAX_6B_OFFSET
    /\ Settle
    /\ UNCHANGED <<work, edge, counter, offset_cache, status, todo, up, deaths, calm, reader>>

ClearStatus ==
    /\ At("none") /\ Next1
    /\ status' = "NONE"
    /\ Settle
    /\ UNCHANGED <<work, edge, counter, offset, offset_cache, todo, up, deaths, calm, reader>>

-----------------------------------------------------------------------------
(* The writer process is killed and started again.                         *)
Die ==
    /\ up /\ deaths < work.deaths
    /\ up' = FALSE /\ deaths' = deaths + 1
    /\ prog' = << >> /\ upd' = NoUpdate /\ todo' = {} /\ calm' = FALSE
    /\ UNCHANGED <<shm, meant, reader>>

\* The constructor of Dict: LockFreeInit, then ExceptionRecovery.
Restart ==
    /\ ~up
    /\ up' = TRUE
    /\ prog' = <<"reset", "clear", "recover">>
    /\ UNCHANGED <<shm, upd, todo, deaths, meant, calm, reader>>

ResetCounter ==
    /\ At("reset") /\ Next1
    /\ counter' = 0
    /\ UNCHANGED <<work, edge, offset, offset_cache, status, excep, upd, todo, up, deaths,
                   meant, calm, reader>>

ExceptionRecovery ==
    /\ At("recover")
    /\ IF status = "NONE" THEN prog' = << >> /\ upd' = upd
       ELSE /\ prog' = <<"start", "write">> \o StopStores \o <<"none">>
            /\ upd' = [kind |-> "RECOVER", edge |-> excep.edge, val |-> excep.val,
                       parts |-> Written(status)]
    /\ UNCHANGED <<shm, todo, up, deaths, meant, calm, reader>>

WriterStep ==
    \/ SetStatus \/ WriterLockFreeStart \/ (\E p \in Parts : WriteEdge(p))
    \/ StoreCache \/ StoreCounter \/ StoreOffset \/ ClearStatus
    \/ ResetCounter \/ ExceptionRecovery

-----------------------------------------------------------------------------
(* A reader in Find: it walks the path, and after each edge makes sure of  *)
(* the one before; the last one it makes sure of at the end.               *)
Find(p) ==
    /\ rpc = "idle"
    /\ path' = p /\ saved' = FALSE /\ rpc' = "start"
    /\ UNCHANGED <<shm, writer, here, snapshot, bytes, stop, torn>>

(* The writer has not started again, or has not yet told readers which     *)
(* edge it is about to repair.                                             *)
Restarting ==
    \/ ~up
    \/ \E n \in DOMAIN prog :
          prog[n] = "recover" \/ (prog[n] = "start" /\ upd.kind = "RECOVER")

Unread == [p \in Parts |-> "unread"]

ReaderLockFreeStart ==
    /\ rpc = "start"
    /\ snapshot' = counter
    /\ here' = 1 /\ bytes' = [k \in DOMAIN path |-> Unread] /\ rpc' = "read"
    /\ calm' = ~Restarting
    /\ UNCHANGED <<shm, prog, upd, todo, up, deaths, meant, path, saved, stop, torn>>

Stop(k) == rpc' = "offset" /\ stop' = [NoStop EXCEPT !.k = k]

\* GetRootEdge and NextEdge.
ReadEdge(p) ==
    /\ rpc = "read" /\ bytes[here][p] = "unread"
    /\ bytes' = [bytes EXCEPT ![here][p] = edge[path[here]][p]]
    /\ IF \E q \in Parts : bytes'[here][q] = "unread" THEN UNCHANGED <<rpc, here, stop>>
       ELSE IF here = 1 /\ Len(path) > 1 THEN here' = 2 /\ UNCHANGED <<rpc, stop>>
       ELSE here' = here /\ Stop(IF here = 1 THEN 1 ELSE here - 1)
    /\ UNCHANGED <<shm, writer, path, snapshot, saved, torn>>

(* ReaderLockFreeStop of edge stop.k.  TRY_AGAIN starts the walk again.    *)
TryAgain ==
    /\ rpc' = "start" /\ here' = 0 /\ stop' = NoStop /\ torn' = FALSE
    /\ snapshot' = 0 /\ bytes' = << >>

Success(counted) ==
    /\ torn' = (torn \/ (counted /\ bytes[stop.k] \notin Values))
    /\ IF stop.k = Len(path) THEN rpc' = "done" /\ here' = here /\ stop' = NoStop
       ELSE IF here = Len(path) THEN here' = here /\ Stop(here)
       ELSE rpc' = "read" /\ here' = here + 1 /\ stop' = NoStop
    /\ bytes' = [bytes EXCEPT ![stop.k] = Unread]
    /\ UNCHANGED snapshot

Stay(l) == rpc' = l /\ UNCHANGED <<here, torn, snapshot, bytes>>

LoadOffset ==
    /\ rpc = "offset"
    /\ stop' = [stop EXCEPT !.offset = offset]
    /\ Stay("counter")
    /\ UNCHANGED <<shm, writer, path, saved>>

Counted(diff) ==
    IF diff = 0 THEN Success(TRUE)
    ELSE IF diff >= MAX_OFFSET_CACHE THEN TryAgain
    ELSE stop' = [stop EXCEPT !.diff = diff] /\ Stay("scan")

LoadCounter ==
    /\ rpc = "counter"
    /\ IF stop.offset = path[stop.k]
       THEN IF saved /\ stop.k = here THEN saved' = FALSE /\ Success(FALSE)
            ELSE saved' = TRUE /\ stop' = stop /\ Stay("save")
       ELSE saved' = FALSE /\ Counted(CountDiff(counter))
    /\ UNCHANGED <<shm, writer, path>>

SaveEdge ==
    /\ rpc = "save"
    /\ saved' = (offset = path[stop.k])
    /\ TryAgain
    /\ UNCHANGED <<shm, writer, path>>

LoadCache ==
    /\ rpc = "scan"
    /\ IF offset_cache[CacheIndex(snapshot + stop.i)] = path[stop.k] THEN TryAgain
       ELSE /\ stop' = [stop EXCEPT !.i = stop.i + 1]
            /\ Stay(IF stop.i + 1 < stop.diff THEN "scan" ELSE "recheck")
    /\ UNCHANGED <<shm, writer, path, saved>>

Recheck ==
    /\ rpc = "recheck"
    /\ IF CountDiff(counter) >= MAX_OFFSET_CACHE THEN TryAgain ELSE Success(TRUE)
    /\ UNCHANGED <<shm, writer, path, saved>>

Return ==
    /\ rpc = "done"
    /\ rpc' = "idle" /\ path' = << >> /\ here' = 0 /\ stop' = NoStop /\ torn' = FALSE
    /\ snapshot' = 0 /\ bytes' = << >> /\ saved' = FALSE
    /\ UNCHANGED <<shm, writer>>

ReaderStep ==
    \/ ReaderLockFreeStart \/ (\E p \in Parts : ReadEdge(p))
    \/ LoadOffset \/ LoadCounter \/ SaveEdge \/ LoadCache \/ Recheck \/ Return

LfNext ==
    \/ \E e \in Edges : \E kind \in work.kinds[e], v \in work.vals[e] : Update(kind, e, v)
    \/ WriterStep \/ Die \/ Restart
    \/ \E p \in work.finds : Find(p)
    \/ ReaderStep

(* A reader that has called Find goes on; the writer need not.             *)
LfSpec == LfInit /\ [][LfNext]_lfvars /\ WF_lfvars(ReaderStep)

-----------------------------------------------------------------------------
(* lock_free.cpp:141: a reader told that the writer "was modifying         *)
(* different edges" has read a whole edge, never parts of two states of    *)
(* it, even when the cache went round or the counter wrapped meanwhile.    *)
(* It may be told otherwise if the writer restarts during the attempt, or  *)
(* by the branch for the saved edge (lock_free.cpp:75-81), which does not  *)
(* look at the counter.                                                    *)
EdgeWhole == calm => ~torn

(* dict.cpp:1408-1409: whenever the writer was killed, once it has started *)
(* again every edge is as it was before or after the update that was       *)
(* interrupted.                                                            *)
RecoveredWhole == up /\ prog = << >> => \A e \in Edges : edge[e] \in meant[e]

(* dict.cpp:737-743: a Find that is told to try again comes to an end once *)
(* the writer leaves the database alone.                                   *)
FindReturns == <>[](up /\ prog = << >>) => []<>(rpc = "idle")
=============================================================================
