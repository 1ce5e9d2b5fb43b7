------------------------------ MODULE TxnLogger ------------------------------
(***************************************************************************)
(* silo's redo log (txn_logger): workers write committed transactions into *)
(* per-core buffers and push full or closed ones to their logger; a writer *)
(* thread per logger makes them durable and recycles them; the persister   *)
(* advances system_sync_epoch_, marking cores it finds idle.               *)
(*                                                                         *)
(* A buffer holds transactions of one epoch only (can_hold_tid), so it is  *)
(* its number of transactions and that epoch.  A transaction is one unit   *)
(* of buffer space.  Compression (the horizon buffer) and the per-epoch    *)
(* latency statistics are left out.                                        *)
(***************************************************************************)
EXTENDS EpochClock, Sequences, FiniteSets

CONSTANTS
    Loggers, logger,       \* logger[c]: the writer that core c is assigned to
    g_perthread_buffers,   \* buffers per core
    BufferTxns,            \* transactions that fit one buffer
    g_max_lag_epochs,
    IovMax,                \* buffers one writev() takes
    MaxTxns,               \* bound on the transactions of each core
    EndingCores            \* cores whose worker thread ends while logging goes on

ASSUME LoggerAssumption ==
    /\ NMAXCORES \in Nat \ {0} /\ MaxTick \in Nat
    /\ logger \in [Cores -> Loggers]
    /\ g_perthread_buffers \in Nat \ {0} /\ BufferTxns \in Nat \ {0}
    /\ g_max_lag_epochs \in Nat \ {0} /\ IovMax \in Nat \ {0}
    /\ MaxTxns \in [Cores -> Nat] /\ EndingCores \subseteq Cores

VARIABLES
    wk,                  \* worker: "idle", "finish" (in on_tid_finish), "ended"
    commit_epoch,        \* epoch of the transaction being logged
    ntxns,               \* transactions begun on each core
    all_buffers_,        \* logger pushes to core
    persist_buffers_,    \* core pushes to logger
    epochs_,             \* per_thread_sync_epochs_[logger[c]].epochs_[c]
    wpc, wcore,          \* writer: place, and core in its loop
    cur_sync_epoch_ex,
    nbufswritten, sense,
    epoch_prefixes,
    x0,                  \* epochs_ value the writer compared against
    ppc, pcore,          \* persister: place, and core in its loop
    best_tick_inc, min_so_far,
    pseen,               \* newest tick the persister is bound to see
    system_sync_epoch_

workervars == <<wk, commit_epoch, ntxns>>
writervars == <<wpc, wcore, cur_sync_epoch_ex, nbufswritten, sense, epoch_prefixes, x0>>
persistervars == <<ppc, pcore, best_tick_inc, min_so_far, pseen, system_sync_epoch_>>
bufs == <<all_buffers_, persist_buffers_>>
lvars == <<clockvars, workervars, bufs, epochs_, writervars, persistervars>>

pbuffer == [nentries : 0 .. BufferTxns, epoch : Nat, io : BOOLEAN]
empty == [nentries |-> 0, epoch |-> 0, io |-> FALSE]
Infinity == MaxTick + 1

LoggerTypeOK ==
    /\ wk \in [Cores -> {"idle", "finish", "ended"}]
    /\ commit_epoch \in [Cores -> Nat] /\ ntxns \in [Cores -> Nat]
    /\ \A c \in Cores :
         /\ all_buffers_[c] \in Seq(pbuffer) /\ persist_buffers_[c] \in Seq(pbuffer)
         /\ Len(all_buffers_[c]) + Len(persist_buffers_[c]) = g_perthread_buffers
    /\ epochs_ \in [Cores -> Nat]
    /\ wpc \in [Loggers -> {"sleep", "collect", "load", "store", "return"}]
    /\ wcore \in [Loggers -> Nat] /\ cur_sync_epoch_ex \in [Loggers -> Nat]
    /\ nbufswritten \in [Loggers -> 0 .. IovMax] /\ sense \in [Loggers -> BOOLEAN]
    /\ epoch_prefixes \in [BOOLEAN -> [Cores -> Nat]] /\ x0 \in [Loggers -> Nat]
    /\ ppc \in {"sleep", "peek", "lock", "recheck", "mark", "load"}
    /\ pcore \in 0 .. NMAXCORES
    /\ best_tick_inc \in Nat /\ min_so_far \in Nat /\ pseen \in Nat
    /\ system_sync_epoch_ \in Nat

LoggerInit ==
    /\ ClockInit
    /\ wk = [c \in Cores |-> "idle"]
    /\ commit_epoch = [c \in Cores |-> 0] /\ ntxns = [c \in Cores |-> 0]
    /\ all_buffers_ = [c \in Cores |-> [i \in 1 .. g_perthread_buffers |-> empty]]
    /\ persist_buffers_ = [c \in Cores |-> <<>>]
    /\ epochs_ = [c \in Cores |-> 0]
    /\ wpc = [l \in Loggers |-> "sleep"] /\ wcore = [l \in Loggers |-> 0]
    /\ cur_sync_epoch_ex = [l \in Loggers |-> 0]
    /\ nbufswritten = [l \in Loggers |-> 0] /\ sense = [l \in Loggers |-> FALSE]
    /\ epoch_prefixes = [s \in BOOLEAN |-> [c \in Cores |-> 0]]
    /\ x0 = [l \in Loggers |-> 0]
    /\ ppc = "sleep" /\ pcore = 0
    /\ best_tick_inc = 0 /\ min_so_far = 0 /\ pseen = 1
    /\ system_sync_epoch_ = 0

(***************************************************************************)
(* Workers: gen_commit_tid and on_tid_finish inside a guard, thread_end    *)
(* outside one.                                                            *)
(***************************************************************************)
Begin(c) ==
    /\ wk[c] = "idle" /\ ntxns[c] < MaxTxns[c] /\ Enter(c)
    /\ UNCHANGED <<workervars, bufs, epochs_, writervars, persistervars>>

gen_commit_tid(c) ==
    /\ wk[c] = "idle" /\ guard[c] # NoGuard /\ ntxns[c] < MaxTxns[c]
    /\ \E t \in Visible(c) :
         /\ commit_epoch' = [commit_epoch EXCEPT ![c] = t]
         /\ seen' = [seen EXCEPT ![c] = t]
    /\ wk' = [wk EXCEPT ![c] = "finish"]
    /\ ntxns' = [ntxns EXCEPT ![c] = @ + 1]
    /\ UNCHANGED <<tick, done, guard, held, bufs, epochs_, writervars, persistervars>>

can_hold_tid(b, e) == b.nentries = 0 \/ b.epoch = e

PushHead(c) ==
    /\ all_buffers_' = [all_buffers_ EXCEPT ![c] = Tail(@)]
    /\ persist_buffers_' = [persist_buffers_ EXCEPT ![c] = Append(@, Head(all_buffers_[c]))]

FinishPush(c) ==
    /\ wk[c] = "finish" /\ all_buffers_[c] # <<>>
    /\ LET px == Head(all_buffers_[c])
       IN  px.nentries = BufferTxns \/ ~can_hold_tid(px, commit_epoch[c])
    /\ PushHead(c)
    /\ UNCHANGED <<clockvars, workervars, epochs_, writervars, persistervars>>

write_current_txn_into_buffer(c) ==
    /\ wk[c] = "finish" /\ all_buffers_[c] # <<>>
    /\ LET px == Head(all_buffers_[c])
       IN  /\ px.nentries < BufferTxns /\ can_hold_tid(px, commit_epoch[c])
           /\ all_buffers_' = [all_buffers_ EXCEPT ![c][1] =
                [px EXCEPT !.nentries = @ + 1, !.epoch = commit_epoch[c]]]
    /\ wk' = [wk EXCEPT ![c] = "idle"]
    /\ UNCHANGED <<clockvars, commit_epoch, ntxns, persist_buffers_, epochs_,
                   writervars, persistervars>>

End(c) ==
    /\ wk[c] = "idle" /\ Exit(c)
    /\ UNCHANGED <<workervars, bufs, epochs_, writervars, persistervars>>

thread_end(c) ==
    /\ c \in EndingCores /\ wk[c] = "idle" /\ guard[c] = NoGuard
    /\ wk' = [wk EXCEPT ![c] = "ended"]
    /\ IF all_buffers_[c] # <<>> /\ Head(all_buffers_[c]).nentries > 0
         THEN PushHead(c)
         ELSE UNCHANGED bufs
    /\ UNCHANGED <<clockvars, commit_epoch, ntxns, epochs_, writervars, persistervars>>

(***************************************************************************)
(* writer(): one pass collects buffers, writes them, publishes how far     *)
(* each core is durable and returns the buffers.                           *)
(***************************************************************************)
\* The next core assigned to logger l at or after c, or NMAXCORES.
Assigned(l, c) ==
    LET mine == {d \in Cores : d >= c /\ logger[d] = l}
    IN  CHOOSE d \in mine \cup {NMAXCORES} : \A m \in mine : d <= m

WriterStart(l) ==
    /\ wpc[l] = "sleep"
    /\ cur_sync_epoch_ex' = [cur_sync_epoch_ex EXCEPT ![l] = system_sync_epoch_ + 1]
    /\ nbufswritten' = [nbufswritten EXCEPT ![l] = 0]
    /\ wcore' = [wcore EXCEPT ![l] = Assigned(l, 0)]
    /\ wpc' = [wpc EXCEPT ![l] = "collect"]
    /\ UNCHANGED <<clockvars, workervars, bufs, epochs_, sense, epoch_prefixes, x0,
                   persistervars>>

\* How many buffers of core k this pass schedules: up to the writev limit, and
\* none at or beyond an epoch that is too far ahead.
Taken(l, k) ==
    LET q == persist_buffers_[k]
        fits(n) == /\ nbufswritten[l] + n <= IovMax
                   /\ \A i \in 1 .. n : q[i].epoch < cur_sync_epoch_ex[l] + g_max_lag_epochs
    IN  Cardinality({n \in 1 .. Len(q) : fits(n)})

\* Mutant: claims the epoch of a buffer that may have successors.
WriterCollect_Inclusive(l) ==
    LET k == wcore[l]
        n == Taken(l, k)
        q == persist_buffers_[k]
    IN  /\ wpc[l] = "collect" /\ k < NMAXCORES
        /\ persist_buffers_' = [persist_buffers_ EXCEPT ![k] =
             [i \in 1 .. Len(q) |-> [q[i] EXCEPT !.io = (i <= n)]]]
        /\ epoch_prefixes' = [epoch_prefixes EXCEPT ![sense[l]][k] =
             IF n > 0 THEN q[n].epoch ELSE @]
        /\ nbufswritten' = [nbufswritten EXCEPT ![l] = @ + n]
        /\ wcore' = [wcore EXCEPT ![l] =
             IF n < Len(q) /\ nbufswritten[l] + n = IovMax THEN NMAXCORES
                                                           ELSE Assigned(l, k + 1)]
        /\ UNCHANGED <<clockvars, workervars, all_buffers_, epochs_, wpc,
                       cur_sync_epoch_ex, sense, x0, persistervars>>

WriterCollect(l) ==
    LET k == wcore[l]
        n == Taken(l, k)
        q == persist_buffers_[k]
    IN  /\ wpc[l] = "collect" /\ k < NMAXCORES
        /\ persist_buffers_' = [persist_buffers_ EXCEPT ![k] =
             [i \in 1 .. Len(q) |-> [q[i] EXCEPT !.io = (i <= n)]]]
        /\ epoch_prefixes' = [epoch_prefixes EXCEPT ![sense[l]][k] =
             IF n > 0 THEN q[n].epoch - 1 ELSE @]
        /\ nbufswritten' = [nbufswritten EXCEPT ![l] = @ + n]
        /\ wcore' = [wcore EXCEPT ![l] =
             IF n < Len(q) /\ nbufswritten[l] + n = IovMax THEN NMAXCORES
                                                           ELSE Assigned(l, k + 1)]
        /\ UNCHANGED <<clockvars, workervars, all_buffers_, epochs_, wpc,
                       cur_sync_epoch_ex, sense, x0, persistervars>>

\* writev() and fdatasync(), unless there is nothing to write.
WriterProcess(l) ==
    /\ wpc[l] = "collect" /\ wcore[l] = NMAXCORES
    /\ wpc' = [wpc EXCEPT ![l] = IF nbufswritten[l] = 0 THEN "sleep" ELSE "load"]
    /\ wcore' = [wcore EXCEPT ![l] = Assigned(l, 0)]
    /\ UNCHANGED <<clockvars, workervars, bufs, epochs_, cur_sync_epoch_ex,
                   nbufswritten, sense, epoch_prefixes, x0, persistervars>>

WriterLoad(l) ==
    /\ wpc[l] = "load" /\ wcore[l] < NMAXCORES
    /\ x0' = [x0 EXCEPT ![l] = epochs_[wcore[l]]]
    /\ wpc' = [wpc EXCEPT ![l] = "store"]
    /\ UNCHANGED <<clockvars, workervars, bufs, epochs_, wcore, cur_sync_epoch_ex,
                   nbufswritten, sense, epoch_prefixes, persistervars>>

\* Mutant: stores without comparing with the published epoch.
WriterStore_Always(l) ==
    LET x1 == epoch_prefixes[sense[l]][wcore[l]]
    IN  /\ wpc[l] = "store"
        /\ epochs_' = [epochs_ EXCEPT ![wcore[l]] = x1]
        /\ wpc' = [wpc EXCEPT ![l] = "return"]
        /\ UNCHANGED <<clockvars, workervars, bufs, wcore, cur_sync_epoch_ex,
                       nbufswritten, sense, epoch_prefixes, x0, persistervars>>

WriterStore(l) ==
    LET x1 == epoch_prefixes[sense[l]][wcore[l]]
    IN  /\ wpc[l] = "store"
        /\ epochs_' = [epochs_ EXCEPT ![wcore[l]] = IF x1 > x0[l] THEN x1 ELSE @]
        /\ wpc' = [wpc EXCEPT ![l] = "return"]
        /\ UNCHANGED <<clockvars, workervars, bufs, wcore, cur_sync_epoch_ex,
                       nbufswritten, sense, epoch_prefixes, x0, persistervars>>

WriterReturn(l) ==
    LET k == wcore[l]
        q == persist_buffers_[k]
    IN  /\ wpc[l] = "return"
        /\ IF q # <<>> /\ Head(q).io
             THEN /\ persist_buffers_' = [persist_buffers_ EXCEPT ![k] = Tail(@)]
                  /\ all_buffers_' = [all_buffers_ EXCEPT ![k] = Append(@, empty)]
                  /\ UNCHANGED <<wpc, wcore>>
             ELSE /\ wpc' = [wpc EXCEPT ![l] = "load"]
                  /\ wcore' = [wcore EXCEPT ![l] = Assigned(l, k + 1)]
                  /\ UNCHANGED bufs
        /\ UNCHANGED <<clockvars, workervars, epochs_, cur_sync_epoch_ex, nbufswritten,
                       sense, epoch_prefixes, x0, persistervars>>

WriterEnd(l) ==
    /\ wpc[l] = "load" /\ wcore[l] = NMAXCORES
    /\ wpc' = [wpc EXCEPT ![l] = "sleep"]
    /\ sense' = [sense EXCEPT ![l] = ~@]
    /\ UNCHANGED <<clockvars, workervars, bufs, epochs_, wcore, cur_sync_epoch_ex,
                   nbufswritten, epoch_prefixes, x0, persistervars>>

writer(l) ==
    \/ WriterStart(l) \/ WriterCollect(l) \/ WriterProcess(l) \/ WriterLoad(l)
    \/ WriterStore(l) \/ WriterReturn(l) \/ WriterEnd(l)

(***************************************************************************)
(* advance_system_sync_epoch().                                            *)
(***************************************************************************)
Lesser(a, b) == IF a < b THEN a ELSE b

\* Mutant: counts the running epoch as passed.
PersisterStart_Current ==
    /\ ppc = "sleep"
    /\ \E t \in pseen .. tick : best_tick_inc' = t /\ pseen' = t
    /\ min_so_far' = Infinity
    /\ pcore' = 0 /\ ppc' = "peek"
    /\ UNCHANGED <<clockvars, workervars, bufs, epochs_, writervars, system_sync_epoch_>>

PersisterStart ==
    /\ ppc = "sleep"
    /\ \E t \in pseen .. tick : best_tick_inc' = t - 1 /\ pseen' = t
    /\ min_so_far' = Infinity
    /\ pcore' = 0 /\ ppc' = "peek"
    /\ UNCHANGED <<clockvars, workervars, bufs, epochs_, writervars, system_sync_epoch_>>

PersisterPeek ==
    /\ ppc = "peek" /\ pcore < NMAXCORES
    /\ ppc' = IF persist_buffers_[pcore] = <<>> THEN "lock" ELSE "load"
    /\ UNCHANGED <<clockvars, workervars, bufs, epochs_, writervars, pcore,
                   best_tick_inc, min_so_far, pseen, system_sync_epoch_>>

PersisterLocked ==
    /\ ppc = "lock" /\ Borrow(pcore)
    /\ ppc' = "recheck"
    /\ UNCHANGED <<workervars, bufs, epochs_, writervars, pcore,
                   best_tick_inc, min_so_far, pseen, system_sync_epoch_>>

\* The worker, or the tick daemon, holds the lock.
PersisterBusy ==
    /\ ppc = "lock"
    /\ ppc' = "load"
    /\ UNCHANGED <<clockvars, workervars, bufs, epochs_, writervars, pcore,
                   best_tick_inc, min_so_far, pseen, system_sync_epoch_>>

\* Mutant: keeps the lock when the core turns out busy.
PersisterRecheck_Leak ==
    /\ ppc = "recheck"
    /\ IF persist_buffers_[pcore] = <<>>
         THEN ppc' = "mark" /\ UNCHANGED clockvars
         ELSE ppc' = "load" /\ UNCHANGED clockvars
    /\ UNCHANGED <<workervars, bufs, epochs_, writervars, pcore,
                   best_tick_inc, min_so_far, pseen, system_sync_epoch_>>

PersisterRecheck ==
    /\ ppc = "recheck"
    /\ IF persist_buffers_[pcore] = <<>>
         THEN ppc' = "mark" /\ UNCHANGED clockvars
         ELSE ppc' = "load" /\ Return(pcore, pseen)
    /\ UNCHANGED <<workervars, bufs, epochs_, writervars, pcore,
                   best_tick_inc, min_so_far, pseen, system_sync_epoch_>>

PersisterMark ==
    /\ ppc = "mark"
    /\ min_so_far' = Lesser(min_so_far, best_tick_inc)
    /\ epochs_' = [epochs_ EXCEPT ![pcore] = best_tick_inc]
    /\ Return(pcore, pseen)
    /\ pcore' = pcore + 1 /\ ppc' = "peek"
    /\ UNCHANGED <<workervars, bufs, writervars, best_tick_inc, pseen, system_sync_epoch_>>

\* Whoever stored this epoch had seen a later tick.
PersisterLoad ==
    /\ ppc = "load"
    /\ min_so_far' = Lesser(epochs_[pcore], min_so_far)
    /\ pseen' = IF epochs_[pcore] >= pseen THEN epochs_[pcore] + 1 ELSE pseen
    /\ pcore' = pcore + 1 /\ ppc' = "peek"
    /\ UNCHANGED <<clockvars, workervars, bufs, epochs_, writervars, best_tick_inc,
                   system_sync_epoch_>>

PersisterStore ==
    /\ ppc = "peek" /\ pcore = NMAXCORES
    /\ system_sync_epoch_' = min_so_far
    /\ ppc' = "sleep"
    /\ UNCHANGED <<clockvars, workervars, bufs, epochs_, writervars, pcore,
                   best_tick_inc, min_so_far, pseen>>

persister ==
    \/ PersisterStart \/ PersisterPeek \/ PersisterLocked \/ PersisterBusy
    \/ PersisterRecheck \/ PersisterMark \/ PersisterLoad \/ PersisterStore

worker(c) ==
    \/ Begin(c) \/ gen_commit_tid(c) \/ FinishPush(c)
    \/ write_current_txn_into_buffer(c) \/ End(c) \/ thread_end(c)

clockstep ==
    /\ Advance \/ Complete
    /\ UNCHANGED <<workervars, bufs, epochs_, writervars, persistervars>>

LoggerNext ==
    \/ clockstep
    \/ \E c \in Cores : worker(c)
    \/ \E l \in Loggers : writer(l)
    \/ persister

LoggerSpec == LoggerInit /\ [][LoggerNext]_lvars

\* Every thread keeps running; stores to the clock become visible; a persister
\* that keeps trying an idle core's lock gets it, since nobody holds it for long.
LoggerFairSpec ==
    /\ LoggerSpec
    /\ WF_lvars(clockstep)
    /\ \A c \in Cores : WF_lvars(worker(c))
    /\ \A l \in Loggers : WF_lvars(writer(l))
    /\ WF_lvars(persister) /\ SF_lvars(PersisterStart /\ pseen' = tick)
    /\ \A c \in Cores : SF_lvars(pcore = c /\ PersisterLocked)

(***************************************************************************)
(* Properties.                                                             *)
(***************************************************************************)
\* Buffers of core c that no crash-proof write has covered.
Undurable(c) ==
    {all_buffers_[c][i] : i \in DOMAIN all_buffers_[c]} \cup
    {b \in {persist_buffers_[c][i] : i \in DOMAIN persist_buffers_[c]} :
        ~(b.io /\ wpc[logger[c]] # "collect")}

\* txn_proto2_impl.cc:162-167.  Once the persister has declared a core synced
\* through an epoch, no transaction of that epoch or an older one commits there.
CommitAfterSync ==
    \A c \in Cores : wk[c] = "finish" => commit_epoch[c] > epochs_[c]

\* txn_proto2_impl.cc:323.  A core's buffers reach the log in epoch order: what
\* the writer is about to publish for a core covers no buffer left unscheduled.
PrefixDurable ==
    \A c \in Cores, s \in BOOLEAN : \A b \in Undurable(c) :
        b.nentries > 0 /\ ~b.io => b.epoch > epoch_prefixes[s][c]

\* txn_proto2_impl.cc:200.  The system-wide persistent epoch never goes back.
SyncForward ==
    ppc = "peek" /\ pcore = NMAXCORES => system_sync_epoch_ <= min_so_far

\* txn_proto2_impl.h:318-319.  A logger that claims epoch v for a core has
\* persisted every transaction of that core through v.
PersistedThrough ==
    \A c \in Cores : \A b \in Undurable(c) :
        b.nentries > 0 => b.epoch > epochs_[c]

\* txn_proto2_impl.h:197, wait_until_current_point_persisted.  When the workers
\* have ended, every epoch that has passed is eventually persisted.
EventuallyPersisted ==
    (\A c \in Cores : <>(wk[c] = "ended")) => <>(system_sync_epoch_ >= MaxTick - 1)

=============================================================================
