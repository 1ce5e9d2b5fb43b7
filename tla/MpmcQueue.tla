----------------------------- MODULE MpmcQueue -----------------------------
(***************************************************************************)
(* mpmc-queue/mpmc-queue.h: a bounded queue whose counters of started      *)
(* reads and writes share one word.  As in mpmc-queue.cc the queue starts  *)
(* with one element, a writer ("A" or "B") adds one element and a reader   *)
(* reads until the queue is empty; a writer that finds it full gives up.   *)
(***************************************************************************)
EXTENDS CdsThreads

CONSTANT t_size
Writers == {"A", "B"}
Count == 65536      \* rd and wr have 16 bits

m_rdwr == Obj("m_rdwr")
m_read == Obj("m_read")
m_written == Obj("m_written")
bin(i) == <<"bin", i>>

MpmcObjects ==
    [l \in {m_rdwr, m_read, m_written} \cup {bin(i) : i \in 0 .. t_size - 1} |->
        CASE l[1] = "m_rdwr" -> <<0, 1>>
          [] l[1] = "m_written" -> 1
          [] OTHER -> 0]

rd(t) == reg[t][1]
wr(t) == reg[t][2]
Full(v) == v[2] = (v[1] + t_size) % Count
Empty(v) == v[1] = v[2]

\* A value of m_rdwr was read: nothing to do, or try to advance the counter.
Look(t, v) ==
    IF IF t \in Writers THEN Full(v) ELSE Empty(v)
    THEN Go(t, "done") /\ Keep(t, NULL)
    ELSE Go(t, "mpmc_advance") /\ Keep(t, v)

\* rdwr = m_rdwr.load(acquire)
mpmc_begin(t) ==
    /\ pc[t] = "mpmc_begin"
    /\ \E i \in Visible(t, m_rdwr) :
          Load(t, m_rdwr, i, "acquire") /\ Look(t, Val(m_rdwr, i))
    /\ UNCHANGED lvars

\* m_rdwr.compare_exchange_weak, which may fail for no reason
mpmc_advance(t) ==
    /\ pc[t] = "mpmc_advance"
    /\ \E i \in Visible(t, m_rdwr) :
          \/ /\ Val(m_rdwr, i) = reg[t]
             /\ IF t \in Writers
                THEN RMW(t, m_rdwr, i, <<rd(t), (wr(t) + 1) % Count>>, "acq_rel")
                ELSE RMW(t, m_rdwr, i, <<(rd(t) + 1) % Count, wr(t)>>, "acquire")
             /\ Go(t, "mpmc_wait") /\ UNCHANGED reg
          \/ Load(t, m_rdwr, i, "acquire") /\ Look(t, Val(m_rdwr, i))
    /\ UNCHANGED lvars

\* A reader does not wait for the writes that have started.
mpmc_wait_Not(t) ==
    /\ pc[t] = "mpmc_wait"
    /\ LET l == IF t \in Writers THEN m_read ELSE m_written IN
       \E i \in Visible(t, l) :
          /\ Load(t, l, i, "acquire")
          /\ IF t \notin Writers \/ Val(l, i) % Count = rd(t)
             THEN Go(t, "mpmc_bin") ELSE UNCHANGED pc
    /\ UNCHANGED <<reg, lvars>>

\* A writer waits until every read that had started is completed, a reader
\* for the writes.
mpmc_wait(t) ==
    /\ pc[t] = "mpmc_wait"
    /\ LET l == IF t \in Writers THEN m_read ELSE m_written IN
       \E i \in Visible(t, l) :
          /\ Load(t, l, i, "acquire")
          /\ IF Val(l, i) % Count = (IF t \in Writers THEN rd(t) ELSE wr(t))
             THEN Go(t, "mpmc_bin") ELSE UNCHANGED pc
    /\ UNCHANGED <<reg, lvars>>

BinOf(t) == bin((IF t \in Writers THEN wr(t) ELSE rd(t)) % t_size)

mpmc_bin(t) ==
    /\ pc[t] = "mpmc_bin"
    /\ IF t \in Writers THEN WriteData(t, BinOf(t)) ELSE ReadData(t, BinOf(t))
    /\ Go(t, "mpmc_end")
    /\ UNCHANGED <<reg, lvars>>

\* write_publish: m_written.fetch_add(1, relaxed);
\* read_consume: m_read.fetch_add(1, release)
mpmc_end(t) ==
    /\ pc[t] = "mpmc_end"
    /\ LET l == IF t \in Writers THEN m_written ELSE m_read IN
       \E i \in Visible(t, l) :
          RMW(t, l, i, Val(l, i) + 1, IF t \in Writers THEN "relaxed" ELSE "release")
    /\ Go(t, IF t \in Writers THEN "done" ELSE "mpmc_begin")
    /\ Keep(t, NULL)
    /\ UNCHANGED lvars

MpmcStep(t) ==
    mpmc_begin(t) \/ mpmc_advance(t) \/ mpmc_wait(t) \/ mpmc_bin(t) \/ mpmc_end(t)

=============================================================================
