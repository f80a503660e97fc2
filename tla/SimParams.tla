----------------------------- MODULE SimParams -----------------------------
(***************************************************************************)
(* The parameters the simulator's threads share: globals of sched.c that   *)
(* main.c sets from the command line before any thread exists.             *)
(***************************************************************************)
EXTENDS Integers

CONSTANTS
    NrCpus,     \* nr_cpus: one simulation thread per CPU (-n)
    MaxSteps    \* max_simulation_steps (-m)

\* main.c does not check -n; with no CPU sched_start divides by zero, and with
\* more than MAX_CPUS = 8 the per-CPU arrays overflow: the model starts from
\* what the arrays hold.
ASSUME NrCpusAssumption == NrCpus \in 1..8

ASSUME MaxStepsAssumption == MaxSteps \in Nat

Cpus == 0..(NrCpus - 1)

=============================================================================
