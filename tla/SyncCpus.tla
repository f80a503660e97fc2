------------------------------ MODULE SyncCpus ------------------------------
(***************************************************************************)
(* The loop of sched_cpu and the end-of-step protocol synchronize_cpus,    *)
(* with the scheduling work of a step left out.  Every simulation thread   *)
(* works through a step, meets the others at two barriers around the vote  *)
(* cpus_completed, and reads that unprotected variable to decide whether   *)
(* to go on.  The vote of a CPU is arbitrary here: what this module        *)
(* promises does not depend on what the CPUs have left to do.              *)
(***************************************************************************)
EXTENDS SimParams

VARIABLES
    pc,         \* where each simulation thread stands
    step,       \* its local simulation_step
    completed   \* cpus_completed, shared

syncVars == <<pc, step, completed>>

Places == {"boot", "loop", "work", "wait0", "count", "wait1", "next", "exit",
           "abort"}

TypeOK ==
    /\ pc \in [Cpus -> Places]
    /\ step \in [Cpus -> Nat]
    /\ completed \in Nat

Init ==
    /\ pc = [c \in Cpus |-> "boot"]
    /\ step = [c \in Cpus |-> 0]
    /\ completed = 0

\* process_sched_events(this_cpu, 0) and the first pick, before the loop.
Boot(c) ==
    /\ pc[c] = "boot"
    /\ pc' = [pc EXCEPT ![c] = "loop"]
    /\ UNCHANGED <<step, completed>>

\* A "Critical error" in the work of a step, or before the first one.
Abort(c) ==
    /\ pc[c] \in {"boot", "work"}
    /\ pc' = [pc EXCEPT ![c] = "abort"]
    /\ UNCHANGED <<step, completed>>

\* The while condition; from "next" the loop body's simulation_step++ comes first.
LoopTest(c) ==
    LET s == IF pc[c] = "next" THEN step[c] + 1 ELSE step[c] IN
    /\ pc[c] \in {"loop", "next"}
    /\ step' = [step EXCEPT ![c] = s]
    /\ pc' = [pc EXCEPT ![c] = IF completed < NrCpus /\ s < MaxSteps THEN "work" ELSE "exit"]
    /\ UNCHANGED completed

\* nr_cpus = 1: no barrier, cpus_completed is the CPU's own status.
Alone(c) ==
    /\ pc[c] = "work" /\ NrCpus = 1
    /\ \E done \in BOOLEAN : completed' = IF done THEN 1 ELSE 0
    /\ pc' = [pc EXCEPT ![c] = "next"]
    /\ UNCHANGED step

\* CPU 0 resets the shared counter on its way to the first barrier.
Arrive(c) ==
    /\ pc[c] = "work" /\ NrCpus > 1
    /\ completed' = IF c = 0 THEN 0 ELSE completed
    /\ pc' = [pc EXCEPT ![c] = "wait0"]
    /\ UNCHANGED step

\* simulation_barrier[0] lets everybody through once everybody is there.
Barrier0 ==
    /\ \A c \in Cpus : pc[c] = "wait0"
    /\ pc' = [c \in Cpus |-> "count"]
    /\ UNCHANGED <<step, completed>>

\* A CPU with nothing left to do counts itself, under simulation_lock.
Count(c) ==
    /\ pc[c] = "count"
    /\ \E done \in BOOLEAN : completed' = IF done THEN completed + 1 ELSE completed
    /\ pc' = [pc EXCEPT ![c] = "wait1"]
    /\ UNCHANGED step

\* simulation_barrier[1].
Barrier1 ==
    /\ \A c \in Cpus : pc[c] = "wait1"
    /\ pc' = [c \in Cpus |-> "next"]
    /\ UNCHANGED <<step, completed>>

Next ==
    \/ \E c \in Cpus : \/ Boot(c) \/ Abort(c) \/ LoopTest(c)
                    \/ Alone(c) \/ Arrive(c) \/ Count(c)
    \/ Barrier0
    \/ Barrier1

Spec == Init /\ [][Next]_syncVars

-----------------------------------------------------------------------------
Waiting == {"work", "wait0", "count", "wait1"}

\* No thread leaves the loop of sched_cpu while another still has a barrier of
\* synchronize_cpus before it: the barriers are initialised for nr_cpus threads,
\* so the one left behind would wait for ever.  The while condition reads
\* cpus_completed without a lock, and CPU 0 resets it in the next step.
ExitAgreement ==
    \A c, d \in Cpus : pc[c] = "exit" => pc[d] \notin Waiting

\* Threads that are inside a step are inside the same one.
Lockstep ==
    \A c, d \in Cpus : pc[c] \in Waiting /\ pc[d] \in Waiting => step[c] = step[d]

=============================================================================
