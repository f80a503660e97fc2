----------------------------- MODULE SchedClass -----------------------------
(***************************************************************************)
(* The seven scheduling classes (sched_rr.c, sched_sjf.c, sched_fcfs.c,    *)
(* sched_prio.c, sched_tjf.c, sched_tjf_ex.c, sched_loto.c), as the        *)
(* decisions on which they differ.  All of them pick the head of the run   *)
(* queue and steal its tail; they differ in where a task is queued, in     *)
(* when a queued task preempts the current one, and in their private       *)
(* per-task counter (tcs_data): a time slice or a number of tickets.       *)
(***************************************************************************)
EXTENDS SList

CONSTANT Quantum    \* rr_quantum (-q); tjf_quantum is the same default, 3

ASSUME QuantumAssumption == Quantum \in Nat \ {0}

SchedNames == {"RR", "SJF", "FCFS", "PRIO", "LOT", "TJF", "TJFEX"}

Fifo   == {"RR", "FCFS"}          \* enqueue_task_rr, enqueue_task_fcfs
ByPrio == {"PRIO", "LOT"}         \* compare_tasks_cpu_burst on prio
Longest == {"TJF", "TJFEX"}       \* sorted with ascending = 0
Sliced == {"RR", "TJFEX"}         \* the counter is a slice, reset on enqueue
Counting == Sliced \cup {"LOT"}   \* the classes with a task_tick

\* The field that the class's compare callback subtracts.
Key(sched, prio, ticks) == IF sched \in ByPrio THEN prio ELSE ticks

\* enqueue_task_*: the run queue after task t is queued; `front` tells whether
\* TF_INSERT_FRONT was set on t.
Queued(sched, q, t, front, prio, ticks) ==
    LET key == Key(sched, prio, ticks)
        ascending == sched \notin Longest
    IN  CASE sched \in Fifo -> InsertSList(q, t)
          [] sched \notin Fifo /\ front  -> SortedInsertFront(q, t, ascending, key)
          [] sched \notin Fifo /\ ~front -> SortedInsert(q, t, ascending, key)

\* Wrong: the comparison swapped.
PreemptsSwapped(sched, preemptive, prioT, ticksT, prioCur, ticksCur) ==
    /\ preemptive
    /\ \/ sched \in {"SJF"} \cup Longest /\ ticksT > ticksCur
       \/ sched = "PRIO" /\ prioT > prioCur
       \/ sched = "LOT"

\* Whether a task queued with preempted = 0 forces the current one out.  The
\* test of the two longest-first classes is that of SJF: a SHORTER task preempts.
\* The idle task has prio = runnable_ticks_left = 0.
Preempts(sched, preemptive, prioT, ticksT, prioCur, ticksCur) ==
    /\ preemptive
    /\ \/ sched \in {"SJF"} \cup Longest /\ ticksT < ticksCur
       \/ sched = "PRIO" /\ prioT < prioCur
       \/ sched = "LOT"

\* task_new_*: the values tcs_data may start with.  The lottery draws
\* rand() % MAX_TICKETS + MIN_TICKETS.
InitialCounter(sched) ==
    CASE sched \in Sliced -> {Quantum}
      [] sched = "LOT"    -> 1..5
      [] sched \notin Counting -> {0}

\* Wrong: the slice is not reset.
CounterWhenQueuedKept(sched, n) == n

\* The counter when the task is queued; the lottery never gives tickets back.
CounterWhenQueued(sched, n) == IF sched \in Sliced THEN Quantum ELSE n

\* task_tick_*: the counter after one tick, and whether it forces a resched.
CounterAfterTick(sched, n) == IF sched \in Counting THEN n - 1 ELSE n
CounterExpires(sched, n) == sched \in Counting /\ n - 1 <= 0

=============================================================================
