----------------------------- MODULE CdsThreads -----------------------------
(***************************************************************************)
(* What the C11 benchmarks of cdschecker_modified_benchmarks have in       *)
(* common here: threads that take one atomic operation a step, on objects  *)
(* named <<name, thread or index>>, and data that they protect.            *)
(***************************************************************************)
EXTENDS C11Memory, FiniteSets

CONSTANTS
    Scenarios,     \* test programs: [bench, threads, once], where the
                   \* threads of once leave out their first operation
    NULL

VARIABLES
    scen,      \* the test program, fixed
    pc,
    reg,       \* the local variable the operation at hand works with
    round,     \* operations each thread has completed
    weak       \* somebody has entered a section by a relaxed operation

lvars == <<scen, round, weak>>
bvars == <<memvars, pc, reg, lvars>>

Obj(name) == <<name, NULL>>
Go(t, l) == pc' = [pc EXCEPT ![t] = l]
Keep(t, v) == reg' = [reg EXCEPT ![t] = v]
Entered(order) == weak' = (weak \/ order = "relaxed")

\* The plain accesses to the data.  The data race a plain access may have is
\* not undefined here: a load reads what the view allows.
ReadData(t, l) == \E i \in Visible(t, l) : Load(t, l, i, "relaxed")
WriteData(t, l) == Put(t, l, Len(mem[l]), t, cur[t], NoView, "relaxed", FALSE)

\* t cannot miss the last write of l.
Sees(t, l) == cur[t][l] = Len(mem[l])

=============================================================================
