------------------------------ MODULE MCSched ------------------------------
(* Instances of SchedSim for TLC: the command lines and input files. *)
EXTENDS SchedSim

\* All input files made of the given priorities, arrival times and profiles.
Files(prios, arrivals, phases) ==
    [Tasks -> [prio : prios, arrival : arrivals, phase : phases]]

Confs(scheds, preemptives, files) ==
    [sched : scheds, preemptive : preemptives, task : files]

\* One CPU: every class, with and without -p; bursts around the quantum of 2,
\* a task that ends with I/O, simultaneous and staggered arrivals.
OneCpuPhases == {<<3>>, <<2, 1>>, <<1, 1, 2>>}
OneCpuConfigurations ==
    Confs(SchedNames \ ByPrio, BOOLEAN, Files({0}, {0, 1}, OneCpuPhases))
    \cup Confs({"PRIO"}, BOOLEAN, Files({0, 1}, {0, 2}, {<<3>>, <<1, 1, 2>>}))
    \cup Confs({"LOT"}, BOOLEAN, Files({0, 1}, {0}, {<<1, 2, 1>>}))

\* Two CPUs: tasks are dealt out in turn, so the arrival times and bursts below
\* leave one CPU idle while the other has work, in both directions, and make loads
\* change while they are being read.  Arrivals from step 2 on: the threads have
\* passed the first barrier by then.
TwoCpuFiles ==
    {[t \in Tasks |-> [prio |-> t % 2, arrival |-> a[t + 1], phase |-> p[t + 1]]] :
        a \in {<<2, 2, 2, 2>>, <<3, 2, 5, 2>>, <<2, 4, 2, 4>>},
        p \in {<< <<4>>, <<1>>, <<3>>, <<1, 1, 1>> >>,
               << <<1, 2, 1>>, <<4>>, <<1, 1>>, <<3>> >>,
               << <<5>>, <<3>>, <<5>>, <<2>> >>}}
TwoCpuConfigurations ==
    Confs({"RR", "SJF"}, {TRUE}, TwoCpuFiles)

\* Three CPUs: a third one reads loads and takes locks while two others are in
\* the middle of a migration.  Loads 3, 1, 0 at step 1; CPU 1's second task and
\* CPU 2's own ones arrive after the end of the simulation.
ThreeCpuConfigurations ==
    Confs({"SJF"}, {TRUE},
          {[t \in Tasks |-> [prio |-> 0, arrival |-> IF t \in {0, 1, 3, 6} THEN 2 ELSE 9,
                             phase |-> p]] : p \in {<<2>>, <<1, 1, 1>>}})

\* Two CPUs and two tasks for CPU 0 that are there when the simulation starts.
EarlyConfigurations ==
    {[sched |-> "FCFS", preemptive |-> FALSE,
      task |-> [t \in Tasks |-> [prio |-> 0, arrival |-> t % 2, phase |-> <<2>>]]]}

\* One CPU, preemptive priorities: a task that ends its burst in the very tick in
\* which a better one arrives, and a third one with its priority.
FrontConfigurations ==
    Confs({"PRIO"}, {TRUE}, Files({0, 1}, {0, 1}, {<<1, 1, 1>>, <<2>>}))

\* I/O phases of length zero, which the parser of the input file accepts.
ZeroIoConfigurations ==
    Confs({"RR"}, {FALSE}, Files({0}, {0}, {<<1, 0, 3>>, <<3>>}))

=============================================================================
