--------------------------- MODULE SchedSimPlaces ---------------------------
(***************************************************************************)
(* Where the tasks of SchedSim are: on which list, processor or hand each  *)
(* one is, for any number of CPUs and tasks, every class and input file in *)
(* which I/O takes time.  The counters the simulator trusts, its error     *)
(* exits, its events and the vote that ends it depend on this; so do the   *)
(* slices, the preemptions, the times and the work of the tasks.           *)
(***************************************************************************)
EXTENDS SchedSimProofs, FiniteSetTheorems, WellFoundedInduction

\* Every I/O phase has a length.  The parser accepts 0 as well, and then a task can
\* be queued while it is current (the run sched_zero_io): the theorems below are
\* about the other input files.
IoTakesTime ==
    \A k \in Configurations, t \in Tasks, i \in Nat :
      i < Len(k.task[t].phase) /\ IsIoPhase(i) => k.task[t].phase[i + 1] > 0

-----------------------------------------------------------------------------
(* The inductive invariant *)

\* The places of a step between the tick, which may end the burst of the current
\* task, and schedule(), which replaces it.
Leaving == {"events", "lb", "sched"} \cup LbPlaces

OnProc(c) == cur[c] # Idle /\ state[cur[c]] = "ONPROC"
Busy(c) == IF OnProc(c) THEN 1 ELSE 0

\* The first step whose events may still be in the list of c.
Earliest(c) ==
    CASE pc[c] \in {"none", "boot", "exit"} -> 0
      [] pc[c] \in {"pick", "loop", "tick", "events"} -> step[c] + 1
      [] OTHER -> step[c] + 2

ListsKept(c) ==
    /\ NoRepeat(queue[c])
    /\ NoRepeat(events[c])
    /\ Sorted(events[c], timeout)

ThreadKept(c) ==
    /\ pc[c] # "abort"
    /\ stolen[c] # Idle => pc[c] = "move"
    /\ pc[c] \in {"none", "boot", "pick"} => cur[c] = Idle /\ step[c] = 0
    /\ cur[c] # Idle /\ ~OnProc(c) => pc[c] \in Leaving /\ resched[c]
    /\ cur[c] # Idle /\ state[cur[c]] = "SLEEP" => timeout[cur[c]] > step[c] + 1
    /\ \A t \in ToSet(events[c]) : timeout[t] >= Earliest(c)
    /\ nrun[c] = Len(queue[c]) + Busy(c)

TaskKept(t) ==
    /\ \A c, d \in Cpus :
         /\ t \in ToSet(queue[c]) /\ t \in ToSet(queue[d]) => c = d
         /\ t \in ToSet(events[c]) /\ t \in ToSet(events[d]) => c = d
         /\ cur[c] = t /\ cur[d] = t => c = d
         /\ stolen[c] = t /\ stolen[d] = t => c = d
    /\ onRq[t] <=> \E c \in Cpus : t \in ToSet(queue[c])
    /\ state[t] = "RUNNABLE" <=> onRq[t] \/ \E c \in Cpus : stolen[c] = t
    /\ \A c \in Cpus : stolen[c] = t => ~onRq[t]
    /\ state[t] \in {"STARTING", "SLEEP"} /\ (main = "add" => t < nextTask)
         <=> \E c \in Cpus : t \in ToSet(events[c])
    /\ state[t] = "ONPROC" => \E c \in Cpus : cur[c] = t
    /\ \A c \in Cpus : cur[c] = t => /\ state[t] \in {"ONPROC", "SLEEP", "COMPLETED"}
                                     /\ state[t] = "SLEEP" => t \in ToSet(events[c])
    /\ main = "add" => state[t] = "STARTING"
    /\ state[t] \in {"RUNNABLE", "ONPROC"} => ~IsIoPhase(phase[t])
    /\ state[t] = "SLEEP" => IsIoPhase(phase[t])

PlaceInv ==
    /\ \A c \in Cpus : ListsKept(c)
    /\ \A c \in Cpus : ThreadKept(c)
    /\ \A t \in Tasks : TaskKept(t)

-----------------------------------------------------------------------------
(* What stays as it was *)

\* A task whose places and state are as before.
TaskLeft(t) ==
    /\ \A c \in Cpus : /\ t \in ToSet(queue'[c]) <=> t \in ToSet(queue[c])
                       /\ t \in ToSet(events'[c]) <=> t \in ToSet(events[c])
                       /\ cur'[c] = t <=> cur[c] = t
                       /\ stolen'[c] = t <=> stolen[c] = t
    /\ onRq'[t] = onRq[t] /\ state'[t] = state[t] /\ phase'[t] = phase[t]
    /\ main' = "add" => main = "add"
    /\ (main' = "add" => t < nextTask') <=> (main = "add" => t < nextTask)

LEMMA TaskStays ==
  ASSUME NEW t \in Tasks, TaskKept(t), TaskLeft(t)
  PROVE  TaskKept(t)'
BY ZenonT(40) DEF TaskKept, TaskLeft

\* A thread whose current task and lists are as before and which has not moved.
ThreadLeft(c) ==
    /\ pc'[c] = pc[c] /\ step'[c] = step[c] /\ cur'[c] = cur[c]
    /\ ToSet(events'[c]) \subseteq ToSet(events[c])
    /\ stolen'[c] \in {stolen[c], Idle}
    /\ resched[c] => resched'[c]
    /\ cur[c] # Idle => state'[cur[c]] = state[cur[c]] /\ timeout'[cur[c]] = timeout[cur[c]]
    /\ \A t \in ToSet(events[c]) : timeout'[t] = timeout[t]
    /\ nrun'[c] - Len(queue'[c]) = nrun[c] - Len(queue[c])

LEMMA ThreadStays ==
  ASSUME NEW c \in Cpus, ThreadKept(c), ThreadLeft(c),
         nrun[c] \in Int, nrun'[c] \in Int, Len(queue[c]) \in Int, Len(queue'[c]) \in Int
  PROVE  ThreadKept(c)'
<1>0. /\ pc'[c] = pc[c] /\ step'[c] = step[c] /\ cur'[c] = cur[c]
      /\ ToSet(events'[c]) \subseteq ToSet(events[c])
      /\ stolen'[c] \in {stolen[c], Idle}
      /\ resched[c] => resched'[c]
      /\ cur[c] # Idle => state'[cur[c]] = state[cur[c]] /\ timeout'[cur[c]] = timeout[cur[c]]
      /\ \A t \in ToSet(events[c]) : timeout'[t] = timeout[t]
      /\ nrun'[c] - Len(queue'[c]) = nrun[c] - Len(queue[c])
  BY DEF ThreadLeft
<1>1. OnProc(c)' <=> OnProc(c)
  BY <1>0 DEF OnProc
<1>2. Earliest(c)' = Earliest(c)
  BY <1>0 DEF Earliest
<1>3. nrun'[c] = Len(queue'[c]) + Busy(c)'
  <2>1. Busy(c)' = Busy(c) /\ Busy(c) \in Int
    BY <1>1 DEF Busy
  <2>2. nrun[c] = Len(queue[c]) + Busy(c)
    BY DEF ThreadKept
  <2> QED BY <1>0, <2>1, <2>2
<1>4. /\ pc'[c] # "abort"
      /\ stolen'[c] # Idle => pc'[c] = "move"
      /\ pc'[c] \in {"none", "boot", "pick"} => cur'[c] = Idle /\ step'[c] = 0
      /\ cur'[c] # Idle /\ ~OnProc(c)' => pc'[c] \in Leaving /\ resched'[c]
  BY <1>0, <1>1 DEF ThreadKept
<1>5. cur'[c] # Idle /\ state'[cur'[c]] = "SLEEP" => timeout'[cur'[c]] > step'[c] + 1
  BY <1>0 DEF ThreadKept
<1>6. \A t \in ToSet(events'[c]) : timeout'[t] >= Earliest(c)'
  BY <1>0, <1>2 DEF ThreadKept
<1> QED BY <1>3, <1>4, <1>5, <1>6 DEF ThreadKept

\* The lists of a CPU that are as before.
LEMMA ListsStay ==
  ASSUME NEW c \in Cpus, ListsKept(c), events[c] \in Seq(Tasks),
         queue'[c] = queue[c], events'[c] = events[c],
         \A t \in ToSet(events[c]) : timeout'[t] = timeout[t]
  PROVE  ListsKept(c)'
<1>1. Sorted(events'[c], timeout')
  BY SortedElsewhere DEF ListsKept
<1> QED BY <1>1 DEF ListsKept

\* Wherever a task is queued, it is added to the queue.
LEMMA QueuedElements ==
  ASSUME NEW S, NEW q \in Seq(S), NEW t \in S, NEW sched, NEW fr \in BOOLEAN, NEW prio, NEW tk,
         NoRepeat(q), t \notin ToSet(q)
  PROVE  LET r == Queued(sched, q, t, fr, prio, tk) IN
         NoRepeat(r) /\ ToSet(r) = ToSet(q) \cup {t} /\ Len(r) = Len(q) + 1
<1> DEFINE key == Key(sched, prio, tk)
           ascending == sched \notin Longest
           r == Queued(sched, q, t, fr, prio, tk)
<1>1. r \in {InsertSList(q, t), SortedInsert(q, t, ascending, key),
             SortedInsertFront(q, t, ascending, key)}
  <2>1. CASE sched \in Fifo
    BY <2>1 DEF Queued
  <2>2. CASE sched \notin Fifo /\ fr
    BY <2>2 DEF Queued
  <2>3. CASE sched \notin Fifo /\ ~fr
    BY <2>3 DEF Queued
  <2> QED BY <2>1, <2>2, <2>3
<1>2. \A u \in {InsertSList(q, t), SortedInsert(q, t, ascending, key),
                SortedInsertFront(q, t, ascending, key)} :
        NoRepeat(u) /\ ToSet(u) = ToSet(q) \cup {t} /\ Len(u) = Len(q) + 1
  BY InsertedElements
<1> HIDE DEF r, key, ascending
<1>3. NoRepeat(r) /\ ToSet(r) = ToSet(q) \cup {t} /\ Len(r) = Len(q) + 1
  BY <1>1, <1>2
<1> QED BY <1>3 DEF r

\* What only the main thread changes.
LEMMA MainUntouched ==
  ASSUME NEW c \in Cpus, Thread(c)
  PROVE  UNCHANGED <<conf, main, nextTask>>
<1>1. /\ ProcessEvents(c) \/ SchedulerTick(c) \/ LoadBalance(c) => UNCHANGED <<conf, mainVars>>
      /\ FirstPick(c) \/ LoopTest(c) \/ Schedule(c) \/ SynchronizeCpus(c) => UNCHANGED <<conf, mainVars>>
  BY DEF ProcessEvents, EventsDone, NewTask, AwakeTask, CompleteAwake, Wake, SchedulerTick,
         TickIdle, TickRun, TickComplete, TickSleep, ChargeTick, LoadBalance, LbSkip, LbStart,
         LbScan, LbBalanced, LbNeither, LbChoose, LockLower, UnlockOwn, LockHigher, LockOwn,
         LockStep, Steal, LbStale, Move, FirstPick, LoopTest, Schedule, SchedKeep, SchedSwitch,
         SynchronizeCpus, SyncAlone, Arrive, Count
<1> QED BY <1>1 DEF Thread, mainVars

\* What a thread leaves alone: the other threads, their current tasks, and the
\* events and the stolen task of their CPUs.
LEMMA OthersKept ==
  ASSUME TypeInv, NEW c \in Cpus, NEW d \in Cpus, d # c, Thread(c)
  PROVE  /\ pc'[d] = pc[d] /\ step'[d] = step[d] /\ cur'[d] = cur[d]
         /\ stolen'[d] = stolen[d] /\ events'[d] = events[d]
         /\ resched[d] => resched'[d]
<1>0. pc'[d] = pc[d]
  BY OthersUntouched
<1>1. /\ step \in [Cpus -> Nat] /\ cur \in [Cpus -> Tasks \cup {Idle}]
      /\ stolen \in [Cpus -> Tasks \cup {Idle}] /\ events \in [Cpus -> Seq(Tasks)]
      /\ resched \in [Cpus -> BOOLEAN]
  BY DEF TypeInv, TypeOK
<1>2. ASSUME NEW u \in Cpus, NEW t, NEW tk, Enqueue(u, t, tk) PROVE resched[d] => resched'[d]
  <2>1. CASE onRq[t]
    BY <1>2, <2>1 DEF Enqueue
  <2>2. CASE ~onRq[t]
    <3>1. \E b : resched' = [resched EXCEPT ![u] = @ \/ b]
      BY <1>2, <2>2 DEF Enqueue
    <3> QED BY <1>1, <3>1
  <2> QED BY <2>1, <2>2
<1>3. CASE ProcessEvents(c)
  <2>1. /\ UNCHANGED <<step, cur, stolen>>
        /\ events' = events \/ events' = [events EXCEPT ![c] = Tail(@)]
    BY <1>3 DEF ProcessEvents, EventsDone, NewTask, AwakeTask, CompleteAwake, Wake, TakesEvent,
                threadVars, lbVars, rqVars, eventVars
  <2>2. resched' = resched \/ \E t \in Tasks : \E tk : Enqueue(c, t, tk)
    BY <1>3 DEF ProcessEvents, EventsDone, NewTask, AwakeTask, CompleteAwake, Wake, rqVars
  <2> QED BY <1>0, <1>1, <1>2, <2>1, <2>2
<1>4. CASE SchedulerTick(c)
  <2>1. /\ UNCHANGED <<step, cur, stolen>>
        /\ resched' = resched \/ \E b : resched' = [resched EXCEPT ![c] = b]
    BY <1>4 DEF SchedulerTick, TickIdle, TickRun, TickComplete, TickSleep, ChargeTick, EndBurst,
                lbVars, rqVars
  <2>2. events' = events \/ \E q : events' = [events EXCEPT ![c] = q]
    BY <1>4 DEF SchedulerTick, TickIdle, TickRun, TickComplete, TickSleep, InsertEvent, eventVars
  <2> QED BY <1>0, <1>1, <2>1, <2>2
<1>5. CASE LoadBalance(c)
  <2>1. /\ UNCHANGED <<step, cur, events>>
        /\ stolen' = stolen \/ \E t : stolen' = [stolen EXCEPT ![c] = t]
    BY <1>5 DEF LoadBalance, LbSkip, LbStart, LbScan, LbBalanced, LbNeither, LbChoose, LockLower,
                UnlockOwn, LockHigher, LockOwn, LockStep, Steal, LbStale, Move, lbVars,
                rqVars, eventVars
  <2>2. resched' = resched \/ \E t \in Tasks : Move(c, t)
    BY <1>5 DEF LoadBalance, LbSkip, LbStart, LbScan, LbBalanced, LbNeither, LbChoose, LockLower,
                UnlockOwn, LockHigher, LockOwn, LockStep, Steal, LbStale, rqVars
  <2>3. ASSUME NEW t \in Tasks, Move(c, t) PROVE resched[d] => resched'[d]
    <3>1. Target(c) \in Cpus
      BY <2>3 DEF Move, Target, TypeInv, PeerChosen, PeerPlaces
    <3> QED BY <1>2, <2>3, <3>1 DEF Move
  <2> QED BY <1>0, <1>1, <2>1, <2>2, <2>3
<1>6. CASE Schedule(c)
  <2>1. /\ UNCHANGED <<step, events, stolen>>
        /\ resched' = resched \/ \E b : resched' = [resched EXCEPT ![c] = b]
        /\ cur' = cur \/ \E t : cur' = [cur EXCEPT ![c] = t]
    BY <1>6 DEF Schedule, SchedKeep, SchedSwitch, lbVars, rqVars, eventVars
  <2> QED BY <1>0, <1>1, <2>1
<1>7. CASE FirstPick(c) \/ LoopTest(c) \/ SynchronizeCpus(c)
  <2>1. /\ UNCHANGED <<events, stolen, resched>>
        /\ step' = step \/ \E n : step' = [step EXCEPT ![c] = n]
        /\ cur' = cur \/ \E t : cur' = [cur EXCEPT ![c] = t]
    BY <1>7 DEF FirstPick, LoopTest, SynchronizeCpus, SyncAlone, Arrive, Count, lbVars,
                rqVars, eventVars
  <2> QED BY <1>0, <1>1, <2>1
<1> QED BY <1>3, <1>4, <1>5, <1>6, <1>7 DEF Thread

-----------------------------------------------------------------------------
(* Steps that move no task *)

\* The places of a thread whose events are those of the step after the next one.
Later == {"lb", "sched", "sync", "wait0", "count", "wait1", "next"} \cup LbPlaces

placeVars == <<queue, cur, stolen, events, timeout, onRq, state, phase, nrun>>

\* The thread that takes the step, when the step only moves it on.
LEMMA ThreadMoves ==
  ASSUME NEW c \in Cpus, ThreadKept(c), UNCHANGED placeVars,
         pc'[c] # "abort", stolen[c] # Idle => pc'[c] = "move",
         pc'[c] \in {"none", "boot", "pick"} => cur[c] = Idle /\ step'[c] = 0,
         resched[c] => resched'[c],
         cur[c] # Idle /\ ~OnProc(c) => pc'[c] \in Leaving /\ step'[c] = step[c],
         \A t \in ToSet(events[c]) : timeout[t] >= Earliest(c)'
  PROVE  ThreadKept(c)'
<1>1. OnProc(c)' <=> OnProc(c)
  BY DEF OnProc, placeVars
<1>2. Busy(c)' = Busy(c)
  BY <1>1 DEF Busy
<1>3. nrun'[c] = Len(queue'[c]) + Busy(c)'
  BY <1>2 DEF ThreadKept, placeVars
<1>4. cur'[c] # Idle /\ state'[cur'[c]] = "SLEEP" => timeout'[cur'[c]] > step'[c] + 1
  BY DEF ThreadKept, OnProc, placeVars
<1>5. \A t \in ToSet(events'[c]) : timeout'[t] >= Earliest(c)'
  BY DEF placeVars
<1>6. /\ pc'[c] # "abort"
      /\ stolen'[c] # Idle => pc'[c] = "move"
      /\ pc'[c] \in {"none", "boot", "pick"} => cur'[c] = Idle /\ step'[c] = 0
      /\ cur'[c] # Idle /\ ~OnProc(c)' => pc'[c] \in Leaving /\ resched'[c]
  BY <1>1 DEF ThreadKept, placeVars
<1> QED BY <1>3, <1>4, <1>5, <1>6 DEF ThreadKept

\* All there is to show for such a step: what it does to the thread that takes it.
LEMMA NothingMoves ==
  ASSUME TypeInv, PlaceInv, NEW c \in Cpus, Thread(c), UNCHANGED placeVars, ThreadKept(c)'
  PROVE  PlaceInv'
<1>1. /\ events \in [Cpus -> Seq(Tasks)] /\ nrun \in [Cpus -> Int] /\ queue \in [Cpus -> Seq(Tasks)]
  BY DEF TypeInv, TypeOK
<1>2. ASSUME NEW d \in Cpus PROVE ListsKept(d)'
  BY <1>2 DEF PlaceInv, ListsKept, placeVars
<1>3. ASSUME NEW t \in Tasks PROVE TaskKept(t)'
  <2>1. TaskKept(t)
    BY DEF PlaceInv
  <2>2. UNCHANGED <<main, nextTask>>
    BY MainUntouched
  <2> QED BY <2>1, <2>2, TaskStays DEF placeVars, TaskLeft
<1>4. ASSUME NEW d \in Cpus PROVE ThreadKept(d)'
  <2>1. CASE d = c
    BY <2>1
  <2>2. CASE d # c
    <3>1. ThreadKept(d)
      BY DEF PlaceInv
    <3>2. Len(queue[d]) \in Int /\ nrun[d] \in Int
      BY <1>1, LenProperties
    <3>3. /\ pc'[d] = pc[d] /\ step'[d] = step[d]
          /\ resched[d] => resched'[d]
      BY <2>2, OthersKept
    <3>4. UNCHANGED <<queue, cur, stolen, events, timeout, state, nrun>>
      BY DEF placeVars
    <3>5. nrun'[d] - Len(queue'[d]) = nrun[d] - Len(queue[d])
      BY <3>4
    <3>6. /\ cur'[d] = cur[d] /\ stolen'[d] \in {stolen[d], Idle} /\ events'[d] = events[d]
          /\ cur[d] # Idle => state'[cur[d]] = state[cur[d]] /\ timeout'[cur[d]] = timeout[cur[d]]
          /\ \A t \in ToSet(events[d]) : timeout'[t] = timeout[t]
          /\ nrun'[d] \in Int /\ Len(queue'[d]) \in Int
      BY <3>2, <3>4
    <3>7. ThreadLeft(d)
      BY <3>3, <3>5, <3>6 DEF ThreadLeft
    <3> QED BY <3>1, <3>2, <3>6, <3>7, ThreadStays
  <2> QED BY <2>1, <2>2
<1> QED BY <1>2, <1>3, <1>4 DEF PlaceInv

\* From the load balancing of a step to the end of the loop body.
LEMMA LaterMoves ==
  ASSUME TypeInv, PlaceInv, NEW c \in Cpus, Thread(c), UNCHANGED <<placeVars, step, resched>>,
         pc[c] \in Later \ {"move"}, pc'[c] \in Later,
         pc[c] \in Leaving => pc'[c] \in Leaving \/ cur[c] = Idle \/ OnProc(c)
  PROVE  PlaceInv'
<1>1. ThreadKept(c)
  BY DEF PlaceInv
<1>2. Earliest(c)' = Earliest(c)
  BY DEF Earliest, Later, LbPlaces
<1>3. stolen[c] = Idle
  BY <1>1 DEF ThreadKept
<1>4. \A t \in ToSet(events[c]) : timeout[t] >= Earliest(c)'
  BY <1>1, <1>2 DEF ThreadKept
<1>5. pc'[c] \notin {"abort", "none", "boot", "pick"}
  BY DEF Later, LbPlaces
<1>6. cur[c] # Idle /\ ~OnProc(c) => pc'[c] \in Leaving
  BY <1>1 DEF ThreadKept
<1>7. UNCHANGED placeVars /\ step'[c] = step[c] /\ resched'[c] = resched[c]
  OBVIOUS
<1>8. ThreadKept(c)'
  BY <1>1, <1>3, <1>4, <1>5, <1>6, <1>7, ThreadMoves
<1> QED BY <1>8, NothingMoves

\* load_balance, but for the theft and the arrival of a task, and schedule() when it
\* changes nothing.
LEMMA BalancingMovesNothing ==
  ASSUME TypeInv, PlaceInv, NEW c \in Cpus,
         \/ LbSkip(c) \/ LbStart(c) \/ LbScan(c) \/ LbBalanced(c) \/ LbNeither(c) \/ LbChoose(c)
         \/ LockLower(c) \/ UnlockOwn(c) \/ LockHigher(c) \/ LockOwn(c) \/ LbStale(c)
         \/ SchedKeep(c) \/ SynchronizeCpus(c)
  PROVE  PlaceInv'
<1>0. pc \in [Cpus -> PcPlaces]
  BY DEF TypeInv, TypeOK
<1>1. Thread(c)
  BY DEF Thread, LoadBalance, Schedule
<1>2. UNCHANGED <<placeVars, step, resched>>
  BY DEF LbSkip, LbStart, LbScan, LbBalanced, LbNeither, LbChoose, LockLower, UnlockOwn, LockHigher,
         LockOwn, LockStep, LbStale, SchedKeep, SynchronizeCpus, SyncAlone, Arrive, Count, placeVars,
         lbVars, rqVars, classVars, burstVars, eventVars
<1>3. CASE LbSkip(c) \/ LbStart(c) \/ LbScan(c) \/ LbBalanced(c) \/ LbNeither(c) \/ LbChoose(c)
  <2>1. pc[c] \in Later \ {"move"} /\ pc'[c] \in Later /\ pc'[c] \in Leaving
    BY <1>0, <1>3 DEF LbSkip, LbStart, LbScan, LbBalanced, LbNeither, LbChoose, EndTrial, LbFinish,
                      Later, Leaving, LbPlaces
  <2> QED BY <1>1, <1>2, <2>1, LaterMoves
<1>4. CASE LockLower(c) \/ UnlockOwn(c) \/ LockHigher(c) \/ LockOwn(c) \/ LbStale(c)
  <2>1. pc[c] \in Later \ {"move"} /\ pc'[c] \in Later /\ pc'[c] \in Leaving
    BY <1>0, <1>4 DEF LockLower, UnlockOwn, LockHigher, LockOwn, LockStep, LbStale, EndTrial,
                      LbFinish, Later, Leaving, LbPlaces
  <2> QED BY <1>1, <1>2, <2>1, LaterMoves
<1>5. CASE SchedKeep(c)
  <2>1. pc[c] \in Later \ {"move"} /\ pc'[c] \in Later
    BY <1>0, <1>5 DEF SchedKeep, Later
  <2>2. cur[c] = Idle \/ OnProc(c)
    <3>1. ThreadKept(c) /\ ~resched[c]
      BY <1>5 DEF PlaceInv, SchedKeep
    <3> QED BY <3>1 DEF ThreadKept
  <2> QED BY <1>1, <1>2, <2>1, <2>2, LaterMoves
<1>6. CASE SynchronizeCpus(c)
  <2>1. pc[c] \in Later \ {"move"} /\ pc'[c] \in Later /\ pc[c] \notin Leaving
    BY <1>0, <1>6 DEF SynchronizeCpus, SyncAlone, Arrive, Count, Later, Leaving, LbPlaces
  <2> QED BY <1>1, <1>2, <2>1, LaterMoves
<1> QED BY <1>3, <1>4, <1>5, <1>6

\* The loop of sched_cpu, and a tick that ends no burst.
LEMMA LoopMovesNothing ==
  ASSUME TypeInv, PlaceInv, NEW c \in Cpus,
         LoopTest(c) \/ TickIdle(c) \/ \E t \in Tasks : TickRun(c, t)
  PROVE  PlaceInv'
<1>0. /\ pc \in [Cpus -> PcPlaces] /\ step \in [Cpus -> Nat] /\ resched \in [Cpus -> BOOLEAN]
      /\ events \in [Cpus -> Seq(Tasks)] /\ timeout \in [Tasks -> Int]
  BY DEF TypeInv, TypeOK
<1>1. Thread(c)
  BY DEF Thread, SchedulerTick
<1>2. UNCHANGED placeVars
  BY DEF LoopTest, TickIdle, TickRun, ChargeTick, placeVars, lbVars, rqVars, classVars, burstVars, eventVars
<1>3. ThreadKept(c)
  BY DEF PlaceInv
<1>4. pc[c] \in {"loop", "next", "tick"} /\ stolen[c] = Idle /\ (cur[c] = Idle \/ OnProc(c))
  <2>1. pc[c] \in {"loop", "next", "tick"}
    BY DEF LoopTest, TickIdle, TickRun, ChargeTick
  <2> QED BY <1>3, <2>1 DEF ThreadKept, Leaving, LbPlaces
<1>5. pc'[c] \notin {"abort", "none", "boot", "pick"}
  BY <1>0 DEF LoopTest, TickIdle, TickRun
<1>6. resched[c] => resched'[c]
  BY <1>0 DEF LoopTest, TickIdle, TickRun, rqVars
<1>7. Earliest(c)' = 0 \/ Earliest(c)' = Earliest(c)
  <2>1. CASE LoopTest(c)
    BY <1>0, <2>1 DEF LoopTest, Earliest
  <2>2. CASE TickIdle(c) \/ \E t \in Tasks : TickRun(c, t)
    <3>1. pc[c] = "tick" /\ pc'[c] = "events" /\ step' = step
      BY <1>0, <2>2 DEF TickIdle, TickRun, ChargeTick
    <3> QED BY <3>1 DEF Earliest
  <2> QED BY <2>1, <2>2
<1>8. \A t \in ToSet(events[c]) : timeout[t] >= Earliest(c)'
  <2>1. ToSet(events[c]) \subseteq Tasks /\ Earliest(c) \in Nat
    BY <1>0, ElementsAt DEF Earliest
  <2>2. \A t \in ToSet(events[c]) : timeout[t] \in Int /\ timeout[t] >= Earliest(c)
    BY <1>0, <1>3, <2>1 DEF ThreadKept
  <2> QED BY <1>7, <2>1, <2>2
<1>9. ThreadKept(c)'
  BY <1>2, <1>3, <1>4, <1>5, <1>6, <1>8, ThreadMoves
<1> QED BY <1>1, <1>2, <1>9, NothingMoves

\* The end of process_sched_events: none of the events left is due.
LEMMA EventsDoneMovesNothing ==
  ASSUME TypeInv, PlaceInv, NEW c \in Cpus, EventsDone(c)
  PROVE  PlaceInv'
<1>0. /\ pc \in [Cpus -> PcPlaces] /\ step \in [Cpus -> Nat]
      /\ events \in [Cpus -> Seq(Tasks)] /\ timeout \in [Tasks -> Int]
  BY DEF TypeInv, TypeOK
<1>1. Thread(c) /\ UNCHANGED <<placeVars, step, resched>>
  BY DEF Thread, ProcessEvents, EventsDone, placeVars, lbVars, rqVars, classVars, burstVars, eventVars
<1>2. ThreadKept(c) /\ ListsKept(c)
  BY DEF PlaceInv
<1>3. \/ pc[c] = "boot" /\ pc'[c] = "pick"
      \/ pc[c] = "events" /\ pc'[c] = "lb"
  BY <1>0 DEF EventsDone
<1>4. stolen[c] = Idle
  BY <1>2, <1>3 DEF ThreadKept
<1>5. /\ pc[c] = "boot" => cur[c] = Idle /\ step[c] = 0
      /\ Earliest(c) = Entering(c) /\ Earliest(c)' = Entering(c) + 1 /\ Entering(c) \in Int
  <2>1. pc[c] = "boot" => cur[c] = Idle /\ step[c] = 0
    BY <1>2 DEF ThreadKept
  <2>2. CASE pc[c] = "boot" /\ pc'[c] = "pick"
    BY <1>0, <1>1, <2>1, <2>2 DEF Earliest, Entering
  <2>3. CASE pc[c] = "events" /\ pc'[c] = "lb"
    BY <1>0, <1>1, <2>3 DEF Earliest, Entering
  <2> QED BY <1>3, <2>1, <2>2, <2>3
<1>6. \A t \in ToSet(events[c]) : timeout[t] >= Earliest(c)'
  <2>1. SUFFICES ASSUME NEW t \in ToSet(events[c]) PROVE timeout[t] >= Earliest(c)'
    OBVIOUS
  <2>2. events[c] # <<>> /\ Head(events[c]) \in ToSet(events[c]) /\ ToSet(events[c]) \subseteq Tasks
    <3>1. events[c] \in Seq(Tasks)
      BY <1>0
    <3>2. events[c] # <<>> /\ ToSet(events[c]) \subseteq Tasks
      BY <3>1, ElementsAt
    <3> QED BY <1>2, <3>1, <3>2, HeadTaken DEF ListsKept
  <2>3. timeout[Head(events[c])] # Entering(c)
    BY <2>2 DEF EventsDone, Due
  <2>4. timeout[Head(events[c])] >= Entering(c)
    BY <1>2, <1>5, <2>2 DEF ThreadKept
  <2>5. timeout[Head(events[c])] <= timeout[t]
    <3>1. events[c] \in Seq(Tasks) /\ Sorted(events[c], timeout)
      BY <1>0, <1>2 DEF ListsKept
    <3>2. t = Head(events[c]) \/ timeout[Head(events[c])] <= timeout[t]
      BY <2>2, <3>1, SortedRest
    <3>3. timeout[t] \in Int
      BY <1>0, <2>2
    <3> QED BY <3>2, <3>3
  <2>6. timeout[t] \in Int /\ timeout[Head(events[c])] \in Int
    BY <1>0, <2>2
  <2> QED BY <1>5, <2>3, <2>4, <2>5, <2>6
<1>7. cur[c] # Idle /\ ~OnProc(c) => pc'[c] \in Leaving
  BY <1>3, <1>5 DEF Leaving
<1>8. /\ pc'[c] # "abort" /\ step'[c] = step[c] /\ resched'[c] = resched[c]
      /\ pc'[c] \in {"none", "boot", "pick"} => cur[c] = Idle /\ step'[c] = 0
  BY <1>1, <1>3, <1>5
<1>9. ThreadKept(c)'
  BY <1>1, <1>2, <1>4, <1>6, <1>7, <1>8, ThreadMoves
<1> QED BY <1>1, <1>9, NothingMoves

\* The same for the steps of the main thread and of the barriers.
LEMMA AllStay ==
  ASSUME TypeInv, PlaceInv, UNCHANGED placeVars,
         \A c \in Cpus : ThreadKept(c)',
         \A t \in Tasks : (main' = "add" => t < nextTask') <=> (main = "add" => t < nextTask),
         main' = "add" => main = "add"
  PROVE  PlaceInv'
<1>1. ASSUME NEW d \in Cpus PROVE ListsKept(d)'
  BY <1>1 DEF PlaceInv, ListsKept, placeVars
<1>2. ASSUME NEW t \in Tasks PROVE TaskKept(t)'
  <2>1. TaskKept(t) /\ TaskLeft(t)
    BY DEF PlaceInv, TaskLeft, placeVars
  <2> QED BY <2>1, TaskStays
<1> QED BY <1>1, <1>2 DEF PlaceInv

LEMMA BarriersMoveNothing ==
  ASSUME TypeInv, PlaceInv, Barrier0 \/ Barrier1 \/ CreateThreads \/ Join \/ UNCHANGED vars
  PROVE  PlaceInv'
<1>0. pc \in [Cpus -> PcPlaces] /\ 0 \in Cpus
  BY NrCpusAssumption DEF TypeInv, TypeOK, Cpus
<1>1. UNCHANGED placeVars /\ step' = step /\ resched' = resched
  <2>1. Barrier0 \/ Barrier1 \/ CreateThreads \/ Join => UNCHANGED placeVars /\ step' = step /\ resched' = resched
    BY DEF Barrier0, Barrier1, Barrier, CreateThreads, Join, placeVars, threadVars, lbVars, rqVars,
           classVars, burstVars, eventVars
  <2>2. UNCHANGED vars => UNCHANGED placeVars /\ step' = step /\ resched' = resched
    BY DEF vars, placeVars, threadVars, lbVars, rqVars, classVars, burstVars, eventVars
  <2> QED BY <2>1, <2>2
<1>2. ASSUME NEW c \in Cpus PROVE ThreadKept(c)'
  <2>1. ThreadKept(c)
    BY DEF PlaceInv
  <2>2. CASE Barrier0 \/ Barrier1 \/ CreateThreads
    <3>1. \/ pc[c] = "wait0" /\ pc'[c] = "count"
          \/ pc[c] = "wait1" /\ pc'[c] = "next"
          \/ pc[c] = "none" /\ pc'[c] = "boot"
      <4>1. CASE Barrier0 \/ Barrier1
        BY <4>1 DEF Barrier0, Barrier1, Barrier
      <4>2. CASE CreateThreads
        BY <4>2 DEF CreateThreads, TypeInv, ThreadsAfterTasks
      <4> QED BY <2>2, <4>1, <4>2
    <3>2. Earliest(c)' = Earliest(c)
      BY <1>1, <3>1 DEF Earliest
    <3>3. /\ stolen[c] = Idle /\ (cur[c] = Idle \/ OnProc(c))
          /\ pc[c] = "none" => cur[c] = Idle /\ step[c] = 0
      BY <2>1, <3>1 DEF ThreadKept, Leaving, LbPlaces
    <3>4. \A t \in ToSet(events[c]) : timeout[t] >= Earliest(c)'
      BY <2>1, <3>2 DEF ThreadKept
    <3>5. /\ pc'[c] # "abort" /\ resched'[c] = resched[c]
          /\ pc'[c] \in {"none", "boot", "pick"} => cur[c] = Idle /\ step'[c] = 0
      BY <1>1, <3>1, <3>3
    <3> QED BY <1>1, <2>1, <3>3, <3>4, <3>5, ThreadMoves
  <2>3. CASE Join \/ UNCHANGED vars
    <3>1. pc' = pc
      BY <2>3 DEF Join, vars, threadVars
    <3>2. /\ OnProc(c)' <=> OnProc(c)
          /\ Earliest(c)' = Earliest(c)
      BY <1>1, <3>1 DEF OnProc, Earliest, placeVars
    <3>3. Busy(c)' = Busy(c)
      BY <3>2 DEF Busy
    <3> QED BY <1>1, <2>1, <3>1, <3>2, <3>3 DEF ThreadKept, placeVars
  <2> QED BY <2>2, <2>3
<1>3. /\ \A t \in Tasks : (main' = "add" => t < nextTask') <=> (main = "add" => t < nextTask)
      /\ main' = "add" => main = "add"
  <2>1. CASE Barrier0 \/ Barrier1 \/ UNCHANGED vars
    BY <2>1 DEF Barrier0, Barrier1, Barrier, vars, mainVars
  <2>2. CASE CreateThreads
    <3>1. main = "add" /\ main' # "add" /\ nextTask = NrTasks
      BY <2>2 DEF CreateThreads
    <3>2. \A t \in Tasks : t < NrTasks
      BY SchedSimAssumption DEF Tasks
    <3> QED BY <3>1, <3>2
  <2>3. CASE Join
    BY <2>3 DEF Join
  <2> QED BY <2>1, <2>2, <2>3
<1> QED BY <1>1, <1>2, <1>3, AllStay

-----------------------------------------------------------------------------
(* Events that come and go *)

\* insert_sched_event for a task that waits for no other event.
LEMMA EventInserted ==
  ASSUME TypeInv, PlaceInv, NEW c \in Cpus, NEW t \in Tasks, NEW when \in Int,
         InsertEvent(c, t, when), \A d \in Cpus : t \notin ToSet(events[d])
  PROVE  /\ ToSet(events'[c]) = ToSet(events[c]) \cup {t}
         /\ NoRepeat(events'[c]) /\ Sorted(events'[c], timeout')
         /\ timeout'[t] = when /\ \A u \in Tasks : u # t => timeout'[u] = timeout[u]
         /\ \A d \in Cpus : d # c => events'[d] = events[d]
<1>1. /\ events \in [Cpus -> Seq(Tasks)] /\ timeout \in [Tasks -> Int]
      /\ timeout' = [timeout EXCEPT ![t] = when]
      /\ events' = [events EXCEPT ![c] = SortedInsert(@, t, TRUE, timeout')]
  BY DEF TypeInv, TypeOK, InsertEvent
<1>2. /\ timeout'[t] = when /\ \A u \in Tasks : u # t => timeout'[u] = timeout[u]
      /\ timeout' \in [Tasks -> Int]
      /\ events'[c] = SortedInsert(events[c], t, TRUE, timeout')
      /\ \A d \in Cpus : d # c => events'[d] = events[d]
  BY <1>1
<1>3. PICK key : key = timeout'
  OBVIOUS
<1>4. PICK q : q = events[c]
  OBVIOUS
<1>5. /\ q \in Seq(Tasks) /\ key \in [Tasks -> Int] /\ t \notin ToSet(q) /\ NoRepeat(q)
      /\ Sorted(q, timeout)
  BY <1>1, <1>2, <1>3, <1>4 DEF PlaceInv, ListsKept
<1>6. Sorted(q, key)
  <2>1. \A x \in ToSet(q) : key[x] = timeout[x]
    <3>1. ToSet(q) \subseteq Tasks
      BY <1>5, ElementsAt
    <3> QED BY <1>2, <1>3, <1>5, <3>1
  <2> QED BY <1>5, <2>1, SortedElsewhere
<1>7. LET r == SortedInsert(q, t, TRUE, key) IN
      NoRepeat(r) /\ ToSet(r) = ToSet(q) \cup {t} /\ Sorted(r, key)
  <2>1. Sorted(SortedInsert(q, t, TRUE, key), key)
    BY <1>5, <1>6, SortedInsertSorted
  <2>2. PICK ascending : ascending = TRUE
    OBVIOUS
  <2>3. \A r \in {InsertSList(q, t), SortedInsert(q, t, ascending, key),
                  SortedInsertFront(q, t, ascending, key)} :
          NoRepeat(r) /\ ToSet(r) = ToSet(q) \cup {t} /\ Len(r) = Len(q) + 1
    BY <1>5, InsertedElements
  <2>4. LET r == SortedInsert(q, t, ascending, key) IN NoRepeat(r) /\ ToSet(r) = ToSet(q) \cup {t}
    BY <2>3
  <2>5. LET r == SortedInsert(q, t, TRUE, key) IN NoRepeat(r) /\ ToSet(r) = ToSet(q) \cup {t}
    BY <2>2, <2>4, Zenon
  <2> QED BY <2>1, <2>5
<1> QED BY <1>2, <1>3, <1>4, <1>7

\* sched_start enters a task.
LEMMA AddTaskPlaces ==
  ASSUME TypeInv, PlaceInv, AddTask
  PROVE  PlaceInv'
<1> DEFINE c == nextTask % NrCpus
<1>0. /\ conf \in Configurations /\ events \in [Cpus -> Seq(Tasks)] /\ nextTask \in Nat
      /\ nrun \in [Cpus -> Int] /\ queue \in [Cpus -> Seq(Tasks)] /\ timeout \in [Tasks -> Int]
  BY SchedSimAssumption DEF TypeInv, TypeOK
<1>1. PICK t \in Tasks : t = nextTask
  BY DEF AddTask
<1>2. c \in Cpus
  BY <1>0, DealtOut
<1>3. conf.task[t].arrival \in Nat
  BY <1>0, ConfigurationTypes
<1>4. InsertEvent(c, t, conf.task[t].arrival)
  BY <1>1 DEF AddTask
<1>5. PICK d \in Cpus : d = c
  BY <1>2
<1>6. PICK when \in Nat : when = conf.task[t].arrival
  BY <1>3
<1>7. /\ main = "add" /\ main' = main /\ nextTask' = nextTask + 1
      /\ UNCHANGED <<pc, step, cur, stolen, queue, onRq, state, phase, nrun, resched>>
  BY DEF AddTask, threadVars, lbVars, rqVars, burstVars
<1>8. \A u \in Tasks : TaskKept(u)
  BY DEF PlaceInv
<1>9. \A e \in Cpus : t \notin ToSet(events[e])
  <2>1. ~(t < nextTask)
    BY <1>0, <1>1
  <2> QED BY <1>7, <1>8, <2>1, Zenon DEF TaskKept
<1>10. /\ ToSet(events'[d]) = ToSet(events[d]) \cup {t}
       /\ NoRepeat(events'[d]) /\ Sorted(events'[d], timeout')
       /\ timeout'[t] = when /\ \A u \in Tasks : u # t => timeout'[u] = timeout[u]
       /\ \A e \in Cpus : e # d => events'[e] = events[e]
  <2>1. InsertEvent(d, t, when)
    BY <1>4, <1>5, <1>6
  <2> HIDE DEF c
  <2> QED BY <1>9, <2>1, EventInserted
<1> HIDE DEF c
<1>11. \A e \in Cpus : \A u \in ToSet(events[e]) : u \in Tasks /\ timeout'[u] = timeout[u]
  <2>1. SUFFICES ASSUME NEW e \in Cpus, NEW u \in ToSet(events[e])
                 PROVE  u \in Tasks /\ timeout'[u] = timeout[u]
    OBVIOUS
  <2>2. events[e] \in Seq(Tasks)
    BY <1>0
  <2>3. u \in Tasks /\ u # t
    BY <1>9, <2>1, <2>2, ElementsAt
  <2> QED BY <1>10, <2>3
<1>12. ASSUME NEW e \in Cpus PROVE ListsKept(e)'
  <2>1. ListsKept(e) /\ events[e] \in Seq(Tasks)
    BY <1>0 DEF PlaceInv
  <2>2. CASE e = d
    BY <1>7, <1>10, <2>1, <2>2 DEF ListsKept
  <2>3. CASE e # d
    BY <1>7, <1>10, <1>11, <2>1, <2>3, ListsStay
  <2> QED BY <2>2, <2>3
<1>13. ASSUME NEW e \in Cpus PROVE ThreadKept(e)'
  <2>1. ThreadKept(e) /\ pc[e] = "none"
    BY <1>7 DEF PlaceInv, TypeInv, ThreadsAfterTasks
  <2>2. cur[e] = Idle /\ step[e] = 0 /\ Earliest(e)' = 0 /\ Earliest(e) = 0
    BY <1>7, <2>1 DEF ThreadKept, Earliest
  <2>3. Busy(e)' = Busy(e)
    BY <1>7, <2>2 DEF Busy, OnProc
  <2>4. \A u \in ToSet(events'[e]) : timeout'[u] >= Earliest(e)'
    <3>1. \A u \in ToSet(events[e]) : timeout[u] >= 0
      BY <2>1, <2>2 DEF ThreadKept
    <3>2. timeout'[t] >= 0
      BY <1>10
    <3>3. \A u \in ToSet(events'[e]) : u = t \/ u \in ToSet(events[e])
      BY <1>10
    <3> QED BY <1>11, <2>2, <3>1, <3>2, <3>3
  <2> QED BY <1>7, <2>1, <2>2, <2>3, <2>4 DEF ThreadKept, OnProc
<1>14. ASSUME NEW u \in Tasks PROVE TaskKept(u)'
  <2>1. CASE u # t
    <3>1. (main' = "add" => u < nextTask') <=> (main = "add" => u < nextTask)
      <4>1. u \in Int /\ u # nextTask
        BY <1>1, <2>1, SchedSimAssumption DEF Tasks
      <4> QED BY <1>0, <1>7, <4>1
    <3>2. \A e \in Cpus : u \in ToSet(events'[e]) <=> u \in ToSet(events[e])
      BY <1>10, <2>1
    <3>3. TaskLeft(u)
      BY <1>7, <3>1, <3>2 DEF TaskLeft
    <3> QED BY <1>8, <3>3, TaskStays
  <2>2. CASE u = t
    <3>1. t < nextTask'
      BY <1>0, <1>1, <1>7
    <3>2. \A e \in Cpus : t \in ToSet(events'[e]) <=> e = d
      BY <1>9, <1>10
    <3>3. TaskKept(t) /\ state[t] = "STARTING"
      BY <1>7, <1>8, Zenon DEF TaskKept
    <3>4. TaskKept(t)'
      BY <1>7, <3>1, <3>2, <3>3, ZenonT(40) DEF TaskKept
    <3> QED BY <2>2, <3>4
  <2> QED BY <2>1, <2>2
<1> QED BY <1>12, <1>13, <1>14 DEF PlaceInv

\* CPU and I/O phases alternate, beginning with the CPU.
LEMMA PhasesAlternate ==
  ~IsIoPhase(0) /\ \A n \in Nat : IsIoPhase(n + 1) <=> ~IsIoPhase(n)
BY DEF IsIoPhase

\* An event that is due belongs to a task that is nowhere else: one that has only
\* just gone to sleep, and is still current, has its event later.
LEMMA EventTaken ==
  ASSUME TypeInv, PlaceInv, NEW c \in Cpus, NEW t \in Tasks, TakesEvent(c, t)
  PROVE  /\ t \in ToSet(events[c]) /\ ToSet(events'[c]) = ToSet(events[c]) \ {t}
         /\ NoRepeat(events'[c]) /\ Sorted(events'[c], timeout)
         /\ \A d \in Cpus : d # c => events'[d] = events[d] /\ t \notin ToSet(events[d])
         /\ state[t] \in {"STARTING", "SLEEP"} /\ ~onRq[t] /\ main # "add"
         /\ \A d \in Cpus : cur[d] # t /\ stolen[d] # t /\ t \notin ToSet(queue[d])
<1>0. /\ events \in [Cpus -> Seq(Tasks)] /\ timeout \in [Tasks -> Int] /\ step \in [Cpus -> Nat]
  BY DEF TypeInv, TypeOK
<1>1. /\ pc[c] \in {"boot", "events"} /\ events[c] # <<>> /\ timeout[t] = Entering(c)
      /\ t = Head(events[c]) /\ events' = [events EXCEPT ![c] = Tail(@)]
  BY DEF TakesEvent, Due
<1>2. events'[c] = Tail(events[c]) /\ \A d \in Cpus : d # c => events'[d] = events[d]
  BY <1>0, <1>1
<1>3. TaskKept(t) /\ ListsKept(c) /\ ThreadKept(c)
  BY DEF PlaceInv
<1>4. PICK q \in Seq(Tasks) : q = events[c]
  BY <1>0
<1>5. /\ t \in ToSet(q) /\ ToSet(Tail(q)) = ToSet(q) \ {t}
      /\ NoRepeat(Tail(q)) /\ Sorted(Tail(q), timeout)
  BY <1>1, <1>3, <1>4, HeadTaken, SortedRest DEF ListsKept
<1>6. t \in ToSet(events[c])
  BY <1>4, <1>5
<1>7. \A d \in Cpus : d # c => t \notin ToSet(events[d])
  BY <1>3, <1>6, Zenon DEF TaskKept
<1>8. state[t] \in {"STARTING", "SLEEP"}
  BY <1>3, <1>6, Zenon DEF TaskKept
<1>9. \A d \in Cpus : cur[d] # t
  <2>1. SUFFICES ASSUME NEW d \in Cpus, cur[d] = t PROVE FALSE
    OBVIOUS
  <2>2. state[t] = "SLEEP" /\ t \in ToSet(events[d])
    BY <1>3, <1>8, <2>1 DEF TaskKept
  <2>3. d = c
    BY <1>7, <2>2
  <2>4. t # Idle
    BY SchedSimAssumption DEF Tasks, Idle
  <2>5. timeout[t] > step[c] + 1 /\ pc[c] # "boot"
    BY <1>3, <2>1, <2>2, <2>3, <2>4 DEF ThreadKept
  <2> QED BY <1>0, <1>1, <2>5 DEF Entering
<1>10. /\ ~onRq[t] /\ \A d \in Cpus : stolen[d] # t /\ t \notin ToSet(queue[d])
  <2>1. state[t] # "RUNNABLE"
    BY <1>8
  <2> QED BY <1>3, <2>1, Zenon DEF TaskKept
<1>11. main # "add"
  BY <1>1 DEF TypeInv, ThreadsAfterTasks
<1> QED BY <1>2, <1>4, <1>5, <1>6, <1>7, <1>8, <1>9, <1>10, <1>11

\* do_enqueue_task for a task that is on no queue.
LEMMA Enqueued ==
  ASSUME TypeInv, PlaceInv, NEW c \in Cpus, NEW t \in Tasks, NEW tk, Enqueue(c, t, tk),
         ~onRq[t], t \notin ToSet(queue[c])
  PROVE  /\ NoRepeat(queue'[c]) /\ ToSet(queue'[c]) = ToSet(queue[c]) \cup {t}
         /\ Len(queue'[c]) = Len(queue[c]) + 1 /\ nrun'[c] = nrun[c] + 1
         /\ \A d \in Cpus : d # c => queue'[d] = queue[d] /\ nrun'[d] = nrun[d]
         /\ onRq'[t] /\ \A u \in Tasks : u # t => onRq'[u] = onRq[u]
         /\ \A d \in Cpus : resched[d] => resched'[d]
<1>0. /\ queue \in [Cpus -> Seq(Tasks)] /\ nrun \in [Cpus -> Int] /\ onRq \in [Tasks -> BOOLEAN]
      /\ resched \in [Cpus -> BOOLEAN] /\ front \in [Tasks -> BOOLEAN]
  BY DEF TypeInv, TypeOK
<1>1. /\ queue' = [queue EXCEPT ![c] = QueueWith(c, t, tk)]
      /\ nrun' = [nrun EXCEPT ![c] = @ + 1] /\ onRq' = [onRq EXCEPT ![t] = TRUE]
      /\ \E b : resched' = [resched EXCEPT ![c] = @ \/ b]
  BY DEF Enqueue
<1>2. /\ queue'[c] = QueueWith(c, t, tk) /\ nrun'[c] = nrun[c] + 1
      /\ \A d \in Cpus : d # c => queue'[d] = queue[d] /\ nrun'[d] = nrun[d]
      /\ onRq'[t] /\ \A u \in Tasks : u # t => onRq'[u] = onRq[u]
  BY <1>0, <1>1
<1>3. \A d \in Cpus : resched[d] => resched'[d]
  BY <1>0, <1>1
<1>4. /\ NoRepeat(QueueWith(c, t, tk)) /\ ToSet(QueueWith(c, t, tk)) = ToSet(queue[c]) \cup {t}
      /\ Len(QueueWith(c, t, tk)) = Len(queue[c]) + 1
  <2>1. PICK q \in Seq(Tasks) : q = queue[c]
    BY <1>0
  <2>2. PICK fr \in BOOLEAN : fr = front[t]
    BY <1>0
  <2>3. NoRepeat(q) /\ t \notin ToSet(q)
    BY <2>1 DEF PlaceInv, ListsKept
  <2>4. LET r == Queued(conf.sched, q, t, fr, PrioOf, tk) IN
        NoRepeat(r) /\ ToSet(r) = ToSet(q) \cup {t} /\ Len(r) = Len(q) + 1
    BY <2>3, QueuedElements
  <2>5. QueueWith(c, t, tk) = Queued(conf.sched, q, t, fr, PrioOf, tk)
    BY <2>1, <2>2 DEF QueueWith
  <2> QED BY <2>1, <2>4, <2>5
<1> QED BY <1>2, <1>3, <1>4

\* The threads after a step that enters or takes away tasks no thread has current.
LEMMA OtherThreadsKept ==
  ASSUME TypeInv, PlaceInv, TypeInv', NEW c \in Cpus, Thread(c), NEW d \in Cpus, d # c,
         cur[d] # Idle => state'[cur[d]] = state[cur[d]] /\ timeout'[cur[d]] = timeout[cur[d]],
         \A t \in ToSet(events[d]) : timeout'[t] = timeout[t],
         nrun'[d] - Len(queue'[d]) = nrun[d] - Len(queue[d])
  PROVE  ThreadKept(d)'
<1>1. /\ queue[d] \in Seq(Tasks) /\ queue'[d] \in Seq(Tasks) /\ nrun[d] \in Int /\ nrun'[d] \in Int
  BY DEF TypeInv, TypeOK
<1>2. Len(queue[d]) \in Int /\ Len(queue'[d]) \in Int
  BY <1>1, LenProperties
<1>3. ThreadLeft(d)
  <2>1. /\ pc'[d] = pc[d] /\ step'[d] = step[d] /\ cur'[d] = cur[d]
        /\ stolen'[d] = stolen[d] /\ events'[d] = events[d]
        /\ resched[d] => resched'[d]
    BY OthersKept
  <2> QED BY <2>1 DEF ThreadLeft
<1>4. ThreadKept(d)
  BY DEF PlaceInv
<1> QED BY <1>1, <1>2, <1>3, <1>4, ThreadStays

\* A task that arrives or wakes up is queued, and on a CPU phase.
LEMMA WakePlaces ==
  ASSUME TypeInv, PlaceInv, NEW c \in Cpus, NEW t \in Tasks, NewTask(c, t) \/ AwakeTask(c, t)
  PROVE  PlaceInv'
<1>0. /\ TypeInv' /\ Thread(c)
      /\ events \in [Cpus -> Seq(Tasks)] /\ queue \in [Cpus -> Seq(Tasks)] /\ nrun \in [Cpus -> Int]
      /\ phase \in [Tasks -> Nat] /\ state \in [Tasks -> TaskStates]
  <2>1. Thread(c) /\ Next
    BY DEF Thread, ProcessEvents, Next
  <2> QED BY <2>1, NextTypeInv DEF TypeInv, TypeOK
<1>1. TakesEvent(c, t)
  BY DEF NewTask, AwakeTask
<1>2. PICK i \in Nat : Wake(c, t, i) /\ ~IsIoPhase(i)
  <2>1. CASE NewTask(c, t)
    <3>1. phase[t] = 0
      BY <2>1 DEF NewTask, TypeInv, StartsAtFirstPhase
    <3>2. Wake(c, t, 0)
      BY <2>1, <3>1 DEF NewTask
    <3> QED BY <3>2, PhasesAlternate
  <2>2. CASE AwakeTask(c, t)
    <3>1. state[t] = "SLEEP"
      BY <1>1, <2>2, EventTaken DEF AwakeTask
    <3>2. IsIoPhase(phase[t])
      BY <3>1 DEF PlaceInv, TaskKept
    <3>3. PICK n \in Nat : n = phase[t]
      BY <1>0
    <3>4. Wake(c, t, n + 1) /\ ~IsIoPhase(n + 1) /\ n + 1 \in Nat
      BY <2>2, <3>2, <3>3, PhasesAlternate DEF AwakeTask
    <3> QED BY <3>4
  <2> QED BY <2>1, <2>2
<1>3. /\ state'[t] = "RUNNABLE" /\ phase'[t] = i
      /\ \A u \in Tasks : u # t => state'[u] = state[u] /\ phase'[u] = phase[u]
      /\ UNCHANGED <<main, nextTask, step, stolen, cur, timeout, pc>>
      /\ \E tk : Enqueue(c, t, tk)
  BY <1>0, <1>2 DEF Wake, mainVars, lbVars
<1>4. /\ t \in ToSet(events[c]) /\ ToSet(events'[c]) = ToSet(events[c]) \ {t}
      /\ NoRepeat(events'[c]) /\ Sorted(events'[c], timeout)
      /\ \A d \in Cpus : d # c => events'[d] = events[d] /\ t \notin ToSet(events[d])
      /\ state[t] \in {"STARTING", "SLEEP"} /\ ~onRq[t] /\ main # "add"
      /\ \A d \in Cpus : cur[d] # t /\ stolen[d] # t /\ t \notin ToSet(queue[d])
  BY <1>1, EventTaken
<1>5. /\ NoRepeat(queue'[c]) /\ ToSet(queue'[c]) = ToSet(queue[c]) \cup {t}
      /\ Len(queue'[c]) = Len(queue[c]) + 1 /\ nrun'[c] = nrun[c] + 1
      /\ \A d \in Cpus : d # c => queue'[d] = queue[d] /\ nrun'[d] = nrun[d]
      /\ onRq'[t] /\ \A u \in Tasks : u # t => onRq'[u] = onRq[u]
      /\ \A d \in Cpus : resched[d] => resched'[d]
  BY <1>3, <1>4, Enqueued
<1>6. ASSUME NEW d \in Cpus PROVE ListsKept(d)'
  <2>1. ListsKept(d)
    BY DEF PlaceInv
  <2>2. CASE d = c
    BY <1>3, <1>4, <1>5, <2>2 DEF ListsKept
  <2>3. CASE d # c
    BY <1>3, <1>4, <1>5, <2>1, <2>3 DEF ListsKept
  <2> QED BY <2>2, <2>3
<1>7. ASSUME NEW d \in Cpus PROVE ThreadKept(d)'
  <2>1. cur[d] # Idle => state'[cur[d]] = state[cur[d]]
    <3>1. cur[d] \in Tasks \cup {Idle}
      BY DEF TypeInv, TypeOK
    <3> QED BY <1>3, <1>4, <3>1
  <2>2. CASE d = c
    <3>1. ThreadLeft(c)
      <4>1. nrun'[c] - Len(queue'[c]) = nrun[c] - Len(queue[c])
        <5>1. nrun[c] \in Int /\ queue[c] \in Seq(Tasks)
          BY <1>0
        <5>2. Len(queue[c]) \in Int
          BY <5>1, LenProperties
        <5> QED BY <1>5, <5>1, <5>2
      <4>2. ToSet(events'[c]) \subseteq ToSet(events[c])
        BY <1>4
      <4>3. resched[c] => resched'[c]
        BY <1>5
      <4> QED BY <1>3, <2>1, <2>2, <4>1, <4>2, <4>3 DEF ThreadLeft
    <3>2. /\ queue[c] \in Seq(Tasks) /\ queue'[c] \in Seq(Tasks) /\ nrun[c] \in Int /\ nrun'[c] \in Int
      BY <1>0 DEF TypeInv, TypeOK
    <3>3. Len(queue[c]) \in Int /\ Len(queue'[c]) \in Int
      BY <3>2, LenProperties
    <3>4. ThreadKept(c)
      BY DEF PlaceInv
    <3> QED BY <2>2, <3>1, <3>2, <3>3, <3>4, ThreadStays
  <2>3. CASE d # c
    <3>1. /\ nrun'[d] - Len(queue'[d]) = nrun[d] - Len(queue[d])
          /\ \A u \in ToSet(events[d]) : timeout'[u] = timeout[u]
          /\ cur[d] # Idle => timeout'[cur[d]] = timeout[cur[d]]
      BY <1>3, <1>5, <2>3
    <3> QED BY <1>0, <2>1, <2>3, <3>1, OtherThreadsKept
  <2> QED BY <2>2, <2>3
<1>8. ASSUME NEW u \in Tasks PROVE TaskKept(u)'
  <2>1. TaskKept(u)
    BY DEF PlaceInv
  <2>2. CASE u # t
    <3>1. \A d \in Cpus : /\ u \in ToSet(queue'[d]) <=> u \in ToSet(queue[d])
                          /\ u \in ToSet(events'[d]) <=> u \in ToSet(events[d])
      BY <1>4, <1>5, <2>2
    <3>2. onRq'[u] = onRq[u] /\ state'[u] = state[u] /\ phase'[u] = phase[u]
      BY <1>3, <1>5, <2>2
    <3>3. TaskLeft(u)
      BY <1>3, <3>1, <3>2 DEF TaskLeft
    <3> QED BY <2>1, <3>3, TaskStays
  <2>3. CASE u = t
    <3>1. \A d \in Cpus : /\ t \in ToSet(queue'[d]) <=> d = c
                          /\ t \notin ToSet(events'[d])
      BY <1>4, <1>5
    <3>2. /\ \A d \in Cpus : cur'[d] # t /\ stolen'[d] # t
          /\ state'[t] = "RUNNABLE" /\ ~IsIoPhase(phase'[t]) /\ main' # "add" /\ onRq'[t]
      BY <1>2, <1>3, <1>4, <1>5
    <3>3. TaskKept(t)'
      BY <3>1, <3>2 DEF TaskKept
    <3> QED BY <2>3, <3>3
  <2> QED BY <2>2, <2>3
<1> QED BY <1>6, <1>7, <1>8 DEF PlaceInv

\* A task whose last phase was I/O is done: it leaves the only place it had.
LEMMA CompleteAwakePlaces ==
  ASSUME TypeInv, PlaceInv, NEW c \in Cpus, NEW t \in Tasks, CompleteAwake(c, t)
  PROVE  PlaceInv'
<1>0. /\ TypeInv' /\ Thread(c)
      /\ queue \in [Cpus -> Seq(Tasks)] /\ nrun \in [Cpus -> Int]
      /\ phase \in [Tasks -> Nat] /\ state \in [Tasks -> TaskStates]
  <2>1. Thread(c) /\ Next
    BY DEF Thread, ProcessEvents, Next
  <2> QED BY <2>1, NextTypeInv DEF TypeInv, TypeOK
<1>1. TakesEvent(c, t)
  BY DEF CompleteAwake
<1>3. /\ state'[t] = "COMPLETED"
      /\ \A u \in Tasks : u # t => state'[u] = state[u] /\ phase'[u] = phase[u]
      /\ UNCHANGED <<main, nextTask, step, stolen, cur, timeout, pc, queue, nrun, onRq, resched>>
  BY <1>0 DEF CompleteAwake, mainVars, threadVars, lbVars, rqVars, classVars
<1>4. /\ t \in ToSet(events[c]) /\ ToSet(events'[c]) = ToSet(events[c]) \ {t}
      /\ NoRepeat(events'[c]) /\ Sorted(events'[c], timeout)
      /\ \A d \in Cpus : d # c => events'[d] = events[d] /\ t \notin ToSet(events[d])
      /\ state[t] \in {"STARTING", "SLEEP"} /\ ~onRq[t] /\ main # "add"
      /\ \A d \in Cpus : cur[d] # t /\ stolen[d] # t /\ t \notin ToSet(queue[d])
  BY <1>1, EventTaken
<1>6. ASSUME NEW d \in Cpus PROVE ListsKept(d)'
  <2>1. ListsKept(d)
    BY DEF PlaceInv
  <2>2. CASE d = c
    BY <1>3, <1>4, <2>1, <2>2 DEF ListsKept
  <2>3. CASE d # c
    BY <1>3, <1>4, <2>1, <2>3 DEF ListsKept
  <2> QED BY <2>2, <2>3
<1>7. ASSUME NEW d \in Cpus PROVE ThreadKept(d)'
  <2>1. cur[d] # Idle => state'[cur[d]] = state[cur[d]]
    <3>1. cur[d] \in Tasks \cup {Idle}
      BY DEF TypeInv, TypeOK
    <3> QED BY <1>3, <1>4, <3>1
  <2>2. ThreadLeft(d)
    <3>1. ToSet(events'[d]) \subseteq ToSet(events[d])
      BY <1>4
    <3> QED BY <1>3, <2>1, <3>1 DEF ThreadLeft
  <2>3. /\ queue[d] \in Seq(Tasks) /\ queue'[d] \in Seq(Tasks) /\ nrun[d] \in Int /\ nrun'[d] \in Int
    BY <1>0 DEF TypeInv, TypeOK
  <2>4. Len(queue[d]) \in Int /\ Len(queue'[d]) \in Int
    BY <2>3, LenProperties
  <2>5. ThreadKept(d)
    BY DEF PlaceInv
  <2> QED BY <2>2, <2>3, <2>4, <2>5, ThreadStays
<1>8. ASSUME NEW u \in Tasks PROVE TaskKept(u)'
  <2>1. TaskKept(u)
    BY DEF PlaceInv
  <2>2. CASE u # t
    <3>1. \A d \in Cpus : u \in ToSet(events'[d]) <=> u \in ToSet(events[d])
      BY <1>4, <2>2
    <3>2. TaskLeft(u)
      BY <1>3, <2>2, <3>1 DEF TaskLeft
    <3> QED BY <2>1, <3>2, TaskStays
  <2>3. CASE u = t
    <3>1. \A d \in Cpus : t \notin ToSet(events'[d])
      BY <1>4
    <3>2. /\ \A d \in Cpus : cur'[d] # t /\ stolen'[d] # t /\ t \notin ToSet(queue'[d])
          /\ state'[t] = "COMPLETED" /\ main' # "add" /\ ~onRq'[t]
      BY <1>3, <1>4
    <3>3. TaskKept(t)'
      BY <3>1, <3>2 DEF TaskKept
    <3> QED BY <2>3, <3>3
  <2> QED BY <2>2, <2>3
<1> QED BY <1>6, <1>7, <1>8 DEF PlaceInv

-----------------------------------------------------------------------------
(* Processors and run queues *)

\* The head of a run queue is a runnable task that is nowhere else.
LEMMA HeadOfQueue ==
  ASSUME TypeInv, PlaceInv, NEW c \in Cpus, queue[c] # <<>>
  PROVE  /\ Head(queue[c]) \in ToSet(queue[c]) /\ Head(queue[c]) \in Tasks
         /\ ToSet(Tail(queue[c])) = ToSet(queue[c]) \ {Head(queue[c])}
         /\ NoRepeat(Tail(queue[c])) /\ Len(Tail(queue[c])) = Len(queue[c]) - 1
         /\ Len(queue[c]) \in Nat \ {0}
<1>1. PICK q \in Seq(Tasks) : q = queue[c]
  BY DEF TypeInv, TypeOK
<1>2. NoRepeat(q) /\ q # <<>>
  BY <1>1 DEF PlaceInv, ListsKept
<1>3. /\ Head(q) \in ToSet(q) /\ Head(q) \in Tasks
      /\ ToSet(Tail(q)) = ToSet(q) \ {Head(q)}
      /\ NoRepeat(Tail(q)) /\ Len(Tail(q)) = Len(q) - 1 /\ Len(q) \in Nat \ {0}
  BY <1>2, HeadTaken
<1> QED BY <1>1, <1>3

\* A task on a run queue is runnable and nowhere else.
LEMMA QueuedOnly ==
  ASSUME TypeInv, PlaceInv, NEW c \in Cpus, NEW t \in Tasks, t \in ToSet(queue[c])
  PROVE  /\ onRq[t] /\ state[t] = "RUNNABLE" /\ main # "add" /\ ~IsIoPhase(phase[t])
         /\ \A d \in Cpus : /\ d # c => t \notin ToSet(queue[d])
                            /\ cur[d] # t /\ stolen[d] # t /\ t \notin ToSet(events[d])
<1>1. TaskKept(t)
  BY DEF PlaceInv
<1>2. onRq[t] /\ \A d \in Cpus : stolen[d] # t /\ (d # c => t \notin ToSet(queue[d]))
  BY <1>1, Zenon DEF TaskKept
<1>3. state[t] = "RUNNABLE"
  BY <1>1, <1>2, Zenon DEF TaskKept
<1>4. ~IsIoPhase(phase[t])
  BY <1>1, <1>3 DEF TaskKept
<1>5. main # "add" /\ \A d \in Cpus : cur[d] # t
  BY <1>1, <1>3 DEF TaskKept
<1>6. \A d \in Cpus : t \notin ToSet(events[d])
  <2>1. state[t] \notin {"STARTING", "SLEEP"}
    BY <1>3
  <2> QED BY <1>1, <2>1, Zenon DEF TaskKept
<1> QED BY <1>2, <1>3, <1>4, <1>5, <1>6

\* The task on a processor is on no queue, and waits for nothing.
LEMMA OnProcOnly ==
  ASSUME TypeInv, PlaceInv, NEW c \in Cpus, OnProc(c)
  PROVE  LET t == cur[c] IN
         /\ t \in Tasks /\ state[t] = "ONPROC" /\ ~onRq[t] /\ ~IsIoPhase(phase[t]) /\ main # "add"
         /\ \A d \in Cpus : /\ d # c => cur[d] # t
                            /\ stolen[d] # t /\ t \notin ToSet(queue[d]) /\ t \notin ToSet(events[d])
<1>1. PICK t : t = cur[c]
  OBVIOUS
<1>2. t \in Tasks /\ state[t] = "ONPROC"
  BY <1>1 DEF TypeInv, TypeOK, OnProc
<1>3. TaskKept(t)
  BY <1>2 DEF PlaceInv
<1>4. \A d \in Cpus : d # c => cur[d] # t
  BY <1>1, <1>3, Zenon DEF TaskKept
<1>5. state[t] # "RUNNABLE" /\ state[t] \notin {"STARTING", "SLEEP"}
  BY <1>2
<1>6. ~onRq[t] /\ \A d \in Cpus : stolen[d] # t /\ t \notin ToSet(queue[d])
  BY <1>3, <1>5, Zenon DEF TaskKept
<1>7. \A d \in Cpus : t \notin ToSet(events[d])
  BY <1>3, <1>5, Zenon DEF TaskKept
<1>8. ~IsIoPhase(phase[t]) /\ main # "add"
  BY <1>2, <1>3 DEF TaskKept
<1> QED BY <1>1, <1>2, <1>4, <1>6, <1>7, <1>8

\* The first pick: the head of the queue, if there is one, goes on the processor.
LEMMA FirstPickPlaces ==
  ASSUME TypeInv, PlaceInv, NEW c \in Cpus, FirstPick(c)
  PROVE  PlaceInv'
<1>0. /\ TypeInv' /\ Thread(c)
      /\ queue \in [Cpus -> Seq(Tasks)] /\ nrun \in [Cpus -> Int] /\ cur \in [Cpus -> Tasks \cup {Idle}]
      /\ onRq \in [Tasks -> BOOLEAN] /\ state \in [Tasks -> TaskStates] /\ pc \in [Cpus -> PcPlaces]
  <2>1. Thread(c) /\ Next
    BY DEF Thread, Next
  <2> QED BY <2>1, NextTypeInv DEF TypeInv, TypeOK
<1>1. /\ pc[c] = "pick" /\ pc'[c] = "loop"
      /\ UNCHANGED <<main, nextTask, step, stolen, resched, nrun, phase, timeout, events>>
  BY <1>0 DEF FirstPick, mainVars, lbVars, eventVars
<1>2. ThreadKept(c)
  BY DEF PlaceInv
<1>3. stolen[c] = Idle /\ cur[c] = Idle
  BY <1>1, <1>2 DEF ThreadKept
<1>4. Earliest(c)' = Earliest(c)
  BY <1>1 DEF Earliest
<1>5. CASE queue[c] = <<>>
  <2>1. UNCHANGED placeVars
    BY <1>1, <1>5 DEF FirstPick, placeVars
  <2>2. \A t \in ToSet(events[c]) : timeout[t] >= Earliest(c)'
    BY <1>2, <1>4 DEF ThreadKept
  <2>3. ThreadKept(c)'
    BY <1>1, <1>2, <1>3, <2>1, <2>2, ThreadMoves
  <2> QED BY <1>0, <2>1, <2>3, NothingMoves
<1>6. CASE queue[c] # <<>>
  <2>1. PICK t : t = Head(queue[c])
    OBVIOUS
  <2>2. /\ t \in ToSet(queue[c]) /\ t \in Tasks /\ t # Idle
        /\ queue'[c] = Tail(queue[c]) /\ ToSet(queue'[c]) = ToSet(queue[c]) \ {t}
        /\ NoRepeat(queue'[c]) /\ Len(queue'[c]) = Len(queue[c]) - 1 /\ Len(queue[c]) \in Nat
        /\ \A d \in Cpus : d # c => queue'[d] = queue[d]
    <3>1. queue' = [queue EXCEPT ![c] = Tail(@)]
      BY <1>6 DEF FirstPick
    <3>2. t \in Tasks => t # Idle
      BY SchedSimAssumption DEF Tasks, Idle
    <3> QED BY <1>0, <1>6, <2>1, <3>1, <3>2, HeadOfQueue
  <2>3. /\ cur'[c] = t /\ \A d \in Cpus : d # c => cur'[d] = cur[d]
        /\ ~onRq'[t] /\ \A u \in Tasks : u # t => onRq'[u] = onRq[u]
        /\ state'[t] = "ONPROC" /\ \A u \in Tasks : u # t => state'[u] = state[u]
    BY <1>0, <1>6, <2>1, <2>2 DEF FirstPick
  <2>4. /\ onRq[t] /\ state[t] = "RUNNABLE" /\ main # "add" /\ ~IsIoPhase(phase[t])
        /\ \A d \in Cpus : /\ d # c => t \notin ToSet(queue[d])
                           /\ cur[d] # t /\ stolen[d] # t /\ t \notin ToSet(events[d])
    BY <2>2, QueuedOnly
  <2>5. ASSUME NEW d \in Cpus PROVE ListsKept(d)'
    <3>1. ListsKept(d)
      BY DEF PlaceInv
    <3>2. CASE d = c
      BY <1>1, <2>2, <3>1, <3>2 DEF ListsKept
    <3>3. CASE d # c
      BY <1>1, <2>2, <3>1, <3>3 DEF ListsKept
    <3> QED BY <3>2, <3>3
  <2>6. ASSUME NEW d \in Cpus PROVE ThreadKept(d)'
    <3>1. CASE d = c
      <4>1. OnProc(c)' /\ ~OnProc(c)
        BY <1>3, <2>2, <2>3 DEF OnProc
      <4>2. nrun'[c] = Len(queue'[c]) + Busy(c)'
        <5>1. Busy(c)' = 1 /\ Busy(c) = 0
          BY <4>1 DEF Busy
        <5>2. nrun[c] = Len(queue[c]) + Busy(c)
          BY <1>2 DEF ThreadKept
        <5> QED BY <1>0, <1>1, <2>2, <5>1, <5>2
      <4>3. state'[cur'[c]] # "SLEEP"
        BY <2>3
      <4>4. \A u \in ToSet(events'[c]) : timeout'[u] >= Earliest(c)'
        BY <1>1, <1>2, <1>4 DEF ThreadKept
      <4> QED BY <1>1, <1>3, <3>1, <4>1, <4>2, <4>3, <4>4 DEF ThreadKept
    <3>2. CASE d # c
      <4>1. cur[d] # Idle => state'[cur[d]] = state[cur[d]]
        BY <1>0, <2>3, <2>4
      <4>2. /\ nrun'[d] - Len(queue'[d]) = nrun[d] - Len(queue[d])
            /\ \A u \in ToSet(events[d]) : timeout'[u] = timeout[u]
            /\ cur[d] # Idle => timeout'[cur[d]] = timeout[cur[d]]
        BY <1>1, <2>2, <3>2
      <4> QED BY <1>0, <3>2, <4>1, <4>2, OtherThreadsKept
    <3> QED BY <3>1, <3>2
  <2>7. ASSUME NEW u \in Tasks PROVE TaskKept(u)'
    <3>1. TaskKept(u)
      BY DEF PlaceInv
    <3>2. CASE u # t
      <4>1. \A d \in Cpus : /\ u \in ToSet(queue'[d]) <=> u \in ToSet(queue[d])
                            /\ cur'[d] = u <=> cur[d] = u
        <5>1. u # Idle
          BY SchedSimAssumption DEF Tasks, Idle
        <5> QED BY <1>3, <2>2, <2>3, <3>2, <5>1
      <4>2. TaskLeft(u)
        BY <1>1, <2>3, <3>2, <4>1 DEF TaskLeft
      <4> QED BY <3>1, <4>2, TaskStays
    <3>3. CASE u = t
      <4>1. \A d \in Cpus : cur'[d] = t <=> d = c
        BY <2>3, <2>4
      <4>2. \A d \in Cpus : stolen'[d] # t /\ t \notin ToSet(queue'[d]) /\ t \notin ToSet(events'[d])
        BY <1>1, <2>2, <2>4
      <4>3. state'[t] = "ONPROC" /\ ~IsIoPhase(phase'[t]) /\ main' # "add" /\ ~onRq'[t]
        BY <1>1, <2>3, <2>4
      <4>4. TaskKept(t)'
        BY <4>1, <4>2, <4>3 DEF TaskKept
      <4> QED BY <3>3, <4>4
    <3> QED BY <3>2, <3>3
  <2> QED BY <2>5, <2>6, <2>7 DEF PlaceInv
<1> QED BY <1>5, <1>6

\* A burst that ends leaves the task current, for schedule() to replace, but off
\* the processor: completed, or asleep until after the step that is being made.
LEMMA EndBurstPlaces ==
  ASSUME IoTakesTime, TypeInv, PlaceInv, NEW c \in Cpus, NEW t \in Tasks,
         TickComplete(c, t) \/ TickSleep(c, t)
  PROVE  PlaceInv'
<1>0. /\ TypeInv' /\ Thread(c) /\ conf \in Configurations
      /\ queue \in [Cpus -> Seq(Tasks)] /\ nrun \in [Cpus -> Int] /\ cur \in [Cpus -> Tasks \cup {Idle}]
      /\ events \in [Cpus -> Seq(Tasks)] /\ step \in [Cpus -> Nat] /\ timeout \in [Tasks -> Int]
      /\ resched \in [Cpus -> BOOLEAN] /\ phase \in [Tasks -> Nat]
      /\ state \in [Tasks -> TaskStates] /\ pc \in [Cpus -> PcPlaces]
  <2>1. Thread(c) /\ Next
    BY DEF Thread, SchedulerTick, Next
  <2> QED BY <2>1, NextTypeInv DEF TypeInv, TypeOK
<1>1. /\ pc[c] = "tick" /\ cur[c] = t /\ t # Idle
      /\ UNCHANGED <<main, nextTask, step, stolen, queue, cur, onRq>>
      /\ nrun' = [nrun EXCEPT ![c] = @ - 1] /\ resched' = [resched EXCEPT ![c] = TRUE]
      /\ phase' = [phase EXCEPT ![t] = @ + 1]
  <2>1. t # Idle
    BY SchedSimAssumption DEF Tasks, Idle
  <2> QED BY <2>1 DEF TickComplete, TickSleep, EndBurst, ChargeTick, mainVars, lbVars
<1>2. ThreadKept(c)
  BY DEF PlaceInv
<1>3. OnProc(c) /\ stolen[c] = Idle
  BY <1>1, <1>2 DEF ThreadKept, Leaving, LbPlaces
<1>4. /\ state[t] = "ONPROC" /\ ~onRq[t] /\ ~IsIoPhase(phase[t]) /\ main # "add"
      /\ \A d \in Cpus : /\ d # c => cur[d] # t
                         /\ stolen[d] # t /\ t \notin ToSet(queue[d]) /\ t \notin ToSet(events[d])
  BY <1>1, <1>3, OnProcOnly
<1>5. /\ phase'[t] = phase[t] + 1 /\ \A u \in Tasks : u # t => phase'[u] = phase[u]
      /\ IsIoPhase(phase'[t])
  BY <1>0, <1>1, <1>4, PhasesAlternate
<1>6. \A u \in Tasks : u # t => state'[u] = state[u]
  BY <1>0 DEF TickComplete, TickSleep
\* What the two do to the events.
<1>7. /\ pc'[c] = "events" /\ state'[t] \in {"COMPLETED", "SLEEP"}
      /\ \A d \in Cpus : d # c => events'[d] = events[d]
      /\ \A u \in Tasks : u # t => timeout'[u] = timeout[u]
      /\ NoRepeat(events'[c]) /\ Sorted(events'[c], timeout')
      /\ ToSet(events'[c]) = ToSet(events[c]) \cup (IF state'[t] = "SLEEP" THEN {t} ELSE {})
      /\ state'[t] = "SLEEP" => timeout'[t] > step[c] + 1
  <2>1. CASE TickComplete(c, t)
    <3>1. /\ pc'[c] = "events" /\ state'[t] = "COMPLETED" /\ UNCHANGED <<events, timeout>>
      BY <1>0, <2>1 DEF TickComplete, eventVars
    <3>2. NoRepeat(events[c]) /\ Sorted(events[c], timeout)
      BY DEF PlaceInv, ListsKept
    <3> QED BY <3>1, <3>2
  <2>2. CASE TickSleep(c, t)
    <3>1. phase[t] + 1 < NrPhases(t) /\ phase[t] + 1 \in Nat /\ IsIoPhase(phase[t] + 1)
      BY <1>0, <1>5, <2>2 DEF TickSleep
    <3>2. PICK io \in Nat : io = PhaseLen(t, phase[t] + 1) /\ io > 0
      <4>1. PhaseLen(t, phase[t] + 1) \in Nat
        BY <1>0, <3>1, ConfigurationTypes
      <4>2. PhaseLen(t, phase[t] + 1) > 0
        BY <1>0, <3>1 DEF IoTakesTime, NrPhases, PhaseLen
      <4> QED BY <4>1, <4>2
    <3>3. PICK when \in Int : when = step[c] + io + 1
      BY <1>0
    <3>4. /\ InsertEvent(c, t, when) /\ state'[t] = "SLEEP" /\ pc'[c] = "events"
      BY <1>0, <2>2, <3>1, <3>2, <3>3 DEF TickSleep
    <3>5. /\ ToSet(events'[c]) = ToSet(events[c]) \cup {t}
          /\ NoRepeat(events'[c]) /\ Sorted(events'[c], timeout')
          /\ timeout'[t] = when /\ \A u \in Tasks : u # t => timeout'[u] = timeout[u]
          /\ \A d \in Cpus : d # c => events'[d] = events[d]
      BY <1>4, <3>4, EventInserted
    <3>6. timeout'[t] > step[c] + 1
      BY <1>0, <3>2, <3>3, <3>5
    <3> QED BY <3>4, <3>5, <3>6
  <2> QED BY <2>1, <2>2
<1>8. \A d \in Cpus : \A u \in ToSet(events[d]) : u \in Tasks /\ timeout'[u] = timeout[u]
  <2>1. SUFFICES ASSUME NEW d \in Cpus, NEW u \in ToSet(events[d])
                 PROVE  u \in Tasks /\ timeout'[u] = timeout[u]
    OBVIOUS
  <2>2. events[d] \in Seq(Tasks)
    BY <1>0
  <2>3. u \in Tasks /\ u # t
    BY <1>4, <2>1, <2>2, ElementsAt
  <2> QED BY <1>7, <2>3
<1>9. ASSUME NEW d \in Cpus PROVE ListsKept(d)'
  <2>1. ListsKept(d) /\ events[d] \in Seq(Tasks)
    BY <1>0 DEF PlaceInv
  <2>2. CASE d = c
    BY <1>1, <1>7, <2>1, <2>2 DEF ListsKept
  <2>3. CASE d # c
    BY <1>1, <1>7, <1>8, <2>1, <2>3, ListsStay
  <2> QED BY <2>2, <2>3
<1>10. ASSUME NEW d \in Cpus PROVE ThreadKept(d)'
  <2>1. CASE d = c
    <3>1. cur'[c] = t /\ stolen'[c] = Idle /\ step'[c] = step[c] /\ resched'[c] /\ ~OnProc(c)'
      BY <1>0, <1>1, <1>3, <1>7 DEF OnProc
    <3>2. nrun'[c] = Len(queue'[c]) + Busy(c)'
      <4>1. Busy(c)' = 0 /\ Busy(c) = 1
        BY <1>3, <3>1 DEF Busy
      <4>2. nrun[c] = Len(queue[c]) + Busy(c) /\ nrun'[c] = nrun[c] - 1 /\ nrun[c] \in Int
        BY <1>0, <1>1, <1>2 DEF ThreadKept
      <4>3. queue'[c] = queue[c] /\ Len(queue[c]) \in Int
        BY <1>0, <1>1, LenProperties
      <4> QED BY <4>1, <4>2, <4>3
    <3>3. \A u \in ToSet(events'[c]) : timeout'[u] >= Earliest(c)'
      <4>1. Earliest(c) = step[c] + 1 /\ Earliest(c)' = step[c] + 1
        BY <1>1, <1>7, <3>1 DEF Earliest
      <4>2. \A u \in ToSet(events[c]) : timeout'[u] >= step[c] + 1
        BY <1>2, <1>8, <4>1 DEF ThreadKept
      <4>3. state'[t] = "SLEEP" => timeout'[t] >= step[c] + 1
        <5>1. step[c] \in Int /\ timeout'[t] \in Int
          BY <1>0 DEF TypeInv, TypeOK
        <5> QED BY <1>7, <5>1
      <4> QED BY <1>7, <4>1, <4>2, <4>3
    <3>4. state'[cur'[c]] = "SLEEP" => timeout'[cur'[c]] > step'[c] + 1
      BY <1>7, <3>1
    <3> QED BY <1>7, <2>1, <3>1, <3>2, <3>3, <3>4 DEF ThreadKept, Leaving
  <2>2. CASE d # c
    <3>1. cur[d] # Idle => state'[cur[d]] = state[cur[d]] /\ timeout'[cur[d]] = timeout[cur[d]]
      BY <1>0, <1>4, <1>6, <1>7, <2>2
    <3>2. nrun'[d] - Len(queue'[d]) = nrun[d] - Len(queue[d])
      BY <1>0, <1>1, <2>2
    <3> QED BY <1>0, <1>8, <2>2, <3>1, <3>2, OtherThreadsKept
  <2> QED BY <2>1, <2>2
<1>11. ASSUME NEW u \in Tasks PROVE TaskKept(u)'
  <2>1. TaskKept(u)
    BY DEF PlaceInv
  <2>2. CASE u # t
    <3>1. \A d \in Cpus : u \in ToSet(events'[d]) <=> u \in ToSet(events[d])
      BY <1>7, <2>2
    <3>2. TaskLeft(u)
      BY <1>1, <1>5, <1>6, <2>2, <3>1 DEF TaskLeft
    <3> QED BY <2>1, <3>2, TaskStays
  <2>3. CASE u = t
    <3>1. \A d \in Cpus : /\ cur'[d] = t <=> d = c
                          /\ stolen'[d] # t /\ t \notin ToSet(queue'[d])
                          /\ t \in ToSet(events'[d]) <=> d = c /\ state'[t] = "SLEEP"
      BY <1>1, <1>4, <1>7
    <3>2. /\ state'[t] \in {"COMPLETED", "SLEEP"} /\ IsIoPhase(phase'[t]) /\ main' # "add" /\ ~onRq'[t]
      BY <1>1, <1>4, <1>5, <1>7
    <3>3. TaskKept(t)'
      BY <3>1, <3>2 DEF TaskKept
    <3> QED BY <2>3, <3>3
  <2> QED BY <2>2, <2>3
<1> QED BY <1>9, <1>10, <1>11 DEF PlaceInv

\* A thread between its tick and schedule(), which a migration leaves with its
\* current task and as many tasks queued as are counted.
LEMMA BalancingThreadKept ==
  ASSUME TypeInv, PlaceInv, TypeInv', NEW c \in Cpus,
         pc[c] \in LbPlaces, pc'[c] \in {"sched"} \cup LbPlaces,
         stolen'[c] # Idle => pc'[c] = "move",
         UNCHANGED <<step, cur, state, timeout, events>>, resched[c] => resched'[c],
         nrun'[c] - Len(queue'[c]) = nrun[c] - Len(queue[c])
  PROVE  ThreadKept(c)'
<1>1. ThreadKept(c)
  BY DEF PlaceInv
<1>2. /\ OnProc(c)' <=> OnProc(c)
      /\ Earliest(c)' = Earliest(c)
  BY DEF OnProc, Earliest, LbPlaces
<1>3. nrun'[c] = Len(queue'[c]) + Busy(c)'
  <2>1. Busy(c)' = Busy(c) /\ Busy(c) \in Int
    BY <1>2 DEF Busy
  <2>2. nrun[c] = Len(queue[c]) + Busy(c)
    BY <1>1 DEF ThreadKept
  <2>3. /\ queue[c] \in Seq(Tasks) /\ queue'[c] \in Seq(Tasks) /\ nrun[c] \in Int /\ nrun'[c] \in Int
    BY DEF TypeInv, TypeOK
  <2>4. Len(queue[c]) \in Int /\ Len(queue'[c]) \in Int
    BY <2>3, LenProperties
  <2> QED BY <2>1, <2>2, <2>3, <2>4
<1>4. pc'[c] \in Leaving /\ pc'[c] \notin {"abort", "none", "boot", "pick"}
  BY DEF Leaving, LbPlaces
<1>5. cur'[c] # Idle /\ ~OnProc(c)' => resched'[c]
  BY <1>1, <1>2 DEF ThreadKept
<1>6. cur'[c] # Idle /\ state'[cur'[c]] = "SLEEP" => timeout'[cur'[c]] > step'[c] + 1
  BY <1>1 DEF ThreadKept
<1>7. \A t \in ToSet(events'[c]) : timeout'[t] >= Earliest(c)'
  BY <1>1, <1>2 DEF ThreadKept
<1> QED BY <1>3, <1>4, <1>5, <1>6, <1>7 DEF ThreadKept

\* Where nr_runnable is larger by two or more, there is a task to steal.
LEMMA SomethingToSteal ==
  ASSUME TypeInv, PlaceInv, NEW s \in Cpus, NEW d \in Cpus, nrun[s] - nrun[d] > 1
  PROVE  queue[s] # <<>>
<1>1. /\ nrun[s] = Len(queue[s]) + Busy(s) /\ nrun[d] = Len(queue[d]) + Busy(d)
  BY DEF PlaceInv, ThreadKept
<1>2. Busy(s) \in {0, 1} /\ Busy(d) \in {0, 1}
  BY DEF Busy
<1>3. queue[s] \in Seq(Tasks) /\ queue[d] \in Seq(Tasks)
  BY DEF TypeInv, TypeOK
<1>4. Len(queue[s]) \in Nat /\ Len(queue[d]) \in Nat
  BY <1>3, LenProperties
<1>5. Len(queue[s]) # 0
  BY <1>1, <1>2, <1>4
<1> QED BY <1>3, <1>5, EmptySeq

\* First half of move_one_task: the tail of the queue goes into the thief's hands.
LEMMA StealPlaces ==
  ASSUME TypeInv, PlaceInv, NEW c \in Cpus, Steal(c)
  PROVE  PlaceInv'
<1>0. /\ TypeInv' /\ Thread(c)
      /\ queue \in [Cpus -> Seq(Tasks)] /\ nrun \in [Cpus -> Int] /\ stolen \in [Cpus -> Tasks \cup {Idle}]
      /\ onRq \in [Tasks -> BOOLEAN] /\ pc \in [Cpus -> PcPlaces] /\ events \in [Cpus -> Seq(Tasks)]
  <2>1. Thread(c) /\ Next
    BY DEF Thread, LoadBalance, Next
  <2> QED BY <2>1, NextTypeInv DEF TypeInv, TypeOK
<1>1. /\ pc[c] = "check"
      /\ UNCHANGED <<main, nextTask, step, cur, resched, state, phase, timeout, events>>
  BY DEF Steal, mainVars, burstVars, eventVars
<1>2. PICK s \in Cpus : s = Source(c) /\ queue[s] # <<>>
  <2>1. Source(c) \in Cpus /\ Target(c) \in Cpus
    BY <1>1 DEF Source, Target, TypeInv, PeerChosen, PeerPlaces
  <2>2. nrun[Source(c)] - nrun[Target(c)] > 1
    BY DEF Steal, WorthMoving
  <2> QED BY <2>1, <2>2, SomethingToSteal
<1>3. PICK t : t = Last(queue[s])
  OBVIOUS
<1>4. /\ t \in ToSet(queue[s]) /\ t \in Tasks /\ t # Idle
      /\ queue'[s] = RemoveTail(queue[s]) /\ ToSet(queue'[s]) = ToSet(queue[s]) \ {t}
      /\ NoRepeat(queue'[s]) /\ Len(queue'[s]) = Len(queue[s]) - 1 /\ Len(queue[s]) \in Nat
      /\ \A d \in Cpus : d # s => queue'[d] = queue[d]
  <2>1. queue' = [queue EXCEPT ![s] = RemoveTail(@)]
    BY <1>2 DEF Steal
  <2>2. PICK q \in Seq(Tasks) : q = queue[s]
    BY <1>0
  <2>3. NoRepeat(q) /\ q # <<>>
    BY <1>2, <2>2 DEF PlaceInv, ListsKept
  <2>4. /\ t \in ToSet(q) /\ t \in Tasks /\ ToSet(RemoveTail(q)) = ToSet(q) \ {t}
        /\ NoRepeat(RemoveTail(q)) /\ Len(RemoveTail(q)) = Len(q) - 1 /\ Len(q) \in Nat
    BY <1>3, <2>2, <2>3, TailRemoved
  <2>5. t # Idle
    BY <2>4, SchedSimAssumption DEF Tasks, Idle
  <2> QED BY <1>0, <2>1, <2>2, <2>4, <2>5
<1>5. /\ stolen'[c] = t /\ \A d \in Cpus : d # c => stolen'[d] = stolen[d]
      /\ ~onRq'[t] /\ \A u \in Tasks : u # t => onRq'[u] = onRq[u]
      /\ nrun'[s] = nrun[s] - 1 /\ \A d \in Cpus : d # s => nrun'[d] = nrun[d]
      /\ pc'[c] = "move"
  <2>1. Victim(c) = t
    BY <1>2, <1>3 DEF Victim
  <2> QED BY <1>0, <1>2, <1>4, <2>1 DEF Steal
<1>6. /\ onRq[t] /\ state[t] = "RUNNABLE" /\ main # "add" /\ ~IsIoPhase(phase[t])
      /\ \A d \in Cpus : /\ d # s => t \notin ToSet(queue[d])
                         /\ cur[d] # t /\ stolen[d] # t /\ t \notin ToSet(events[d])
  BY <1>4, QueuedOnly
<1>7. stolen[c] = Idle
  BY <1>1 DEF PlaceInv, ThreadKept
<1>8. \A d \in Cpus : nrun'[d] - Len(queue'[d]) = nrun[d] - Len(queue[d])
  <2>1. nrun[s] \in Int /\ Len(queue[s]) \in Int
    BY <1>0, <1>4
  <2>2. Len(queue'[s]) = Len(queue[s]) - 1 /\ nrun'[s] = nrun[s] - 1
    BY <1>4, <1>5
  <2>3. nrun'[s] - Len(queue'[s]) = nrun[s] - Len(queue[s])
    BY <2>1, <2>2
  <2>4. \A d \in Cpus : d # s => nrun'[d] = nrun[d] /\ queue'[d] = queue[d]
    BY <1>4, <1>5
  <2> QED BY <2>3, <2>4
<1>9. ASSUME NEW d \in Cpus PROVE ListsKept(d)'
  <2>1. ListsKept(d)
    BY DEF PlaceInv
  <2>2. CASE d = s
    BY <1>1, <1>4, <2>1, <2>2 DEF ListsKept
  <2>3. CASE d # s
    BY <1>1, <1>4, <2>1, <2>3 DEF ListsKept
  <2> QED BY <2>2, <2>3
<1>10. ASSUME NEW d \in Cpus PROVE ThreadKept(d)'
  <2>1. CASE d = c
    <3>1. pc[c] \in LbPlaces /\ pc'[c] \in {"sched"} \cup LbPlaces
      BY <1>1, <1>5 DEF LbPlaces
    <3> QED BY <1>0, <1>1, <1>5, <1>8, <2>1, <3>1, BalancingThreadKept
  <2>2. CASE d # c
    <3>1. /\ cur[d] # Idle => state'[cur[d]] = state[cur[d]] /\ timeout'[cur[d]] = timeout[cur[d]]
          /\ \A u \in ToSet(events[d]) : timeout'[u] = timeout[u]
          /\ nrun'[d] - Len(queue'[d]) = nrun[d] - Len(queue[d])
      BY <1>1, <1>8
    <3> QED BY <1>0, <2>2, <3>1, OtherThreadsKept
  <2> QED BY <2>1, <2>2
<1>11. ASSUME NEW u \in Tasks PROVE TaskKept(u)'
  <2>1. TaskKept(u)
    BY DEF PlaceInv
  <2>2. CASE u # t
    <3>1. \A d \in Cpus : /\ u \in ToSet(queue'[d]) <=> u \in ToSet(queue[d])
                          /\ stolen'[d] = u <=> stolen[d] = u
      <4>1. u # Idle
        BY SchedSimAssumption DEF Tasks, Idle
      <4> QED BY <1>4, <1>5, <1>7, <2>2, <4>1
    <3>2. TaskLeft(u)
      BY <1>1, <1>5, <2>2, <3>1 DEF TaskLeft
    <3> QED BY <2>1, <3>2, TaskStays
  <2>3. CASE u = t
    <3>1. \A d \in Cpus : /\ stolen'[d] = t <=> d = c
                          /\ cur'[d] # t /\ t \notin ToSet(queue'[d]) /\ t \notin ToSet(events'[d])
      BY <1>1, <1>4, <1>5, <1>6
    <3>2. state'[t] = "RUNNABLE" /\ ~IsIoPhase(phase'[t]) /\ main' # "add" /\ ~onRq'[t]
      BY <1>1, <1>5, <1>6
    <3>3. TaskKept(t)'
      BY <3>1, <3>2 DEF TaskKept
    <3> QED BY <2>3, <3>3
  <2> QED BY <2>2, <2>3
<1> QED BY <1>9, <1>10, <1>11 DEF PlaceInv

\* Second half: the stolen task is queued where it is going.
LEMMA MovePlaces ==
  ASSUME TypeInv, PlaceInv, NEW c \in Cpus, NEW t \in Tasks, Move(c, t)
  PROVE  PlaceInv'
<1>0. /\ TypeInv' /\ Thread(c)
      /\ queue \in [Cpus -> Seq(Tasks)] /\ nrun \in [Cpus -> Int] /\ stolen \in [Cpus -> Tasks \cup {Idle}]
      /\ pc \in [Cpus -> PcPlaces] /\ events \in [Cpus -> Seq(Tasks)]
  <2>1. Thread(c) /\ Next
    BY DEF Thread, LoadBalance, Next
  <2> QED BY <2>1, NextTypeInv DEF TypeInv, TypeOK
<1>1. /\ pc[c] = "move" /\ stolen[c] = t /\ stolen' = [stolen EXCEPT ![c] = Idle]
      /\ UNCHANGED <<main, nextTask, step, cur, state, phase, timeout, events>>
  BY DEF Move, mainVars, eventVars
<1>2. pc'[c] \in {"sched", "scan"}
  BY <1>0 DEF Move, EndTrial, LbFinish
<1>3. PICK g \in Cpus : g = Target(c)
  BY <1>1 DEF Target, TypeInv, PeerChosen, PeerPlaces
<1>4. t # Idle
  BY SchedSimAssumption DEF Tasks, Idle
\* In the hands of c the task was nowhere else.
<1>5. /\ ~onRq[t] /\ state[t] = "RUNNABLE" /\ main # "add" /\ ~IsIoPhase(phase[t])
      /\ \A d \in Cpus : /\ d # c => stolen[d] # t
                         /\ cur[d] # t /\ t \notin ToSet(queue[d]) /\ t \notin ToSet(events[d])
  <2>1. TaskKept(t)
    BY DEF PlaceInv
  <2>2. ~onRq[t] /\ state[t] = "RUNNABLE"
    BY <1>1, <2>1, Zenon DEF TaskKept
  <2>3. \A d \in Cpus : /\ d # c => stolen[d] # t
                        /\ t \notin ToSet(queue[d])
    BY <1>1, <2>1, <2>2, Zenon DEF TaskKept
  <2>4. state[t] \notin {"STARTING", "SLEEP", "ONPROC", "COMPLETED"}
    BY <2>2
  <2>5. \A d \in Cpus : cur[d] # t
    BY <2>1, <2>4 DEF TaskKept
  <2>6. \A d \in Cpus : t \notin ToSet(events[d])
    BY <2>1, <2>4, Zenon DEF TaskKept
  <2>7. main # "add" /\ ~IsIoPhase(phase[t])
    BY <2>1, <2>2 DEF TaskKept
  <2> QED BY <2>2, <2>3, <2>5, <2>6, <2>7
<1>6. /\ NoRepeat(queue'[g]) /\ ToSet(queue'[g]) = ToSet(queue[g]) \cup {t}
      /\ Len(queue'[g]) = Len(queue[g]) + 1 /\ nrun'[g] = nrun[g] + 1
      /\ \A d \in Cpus : d # g => queue'[d] = queue[d] /\ nrun'[d] = nrun[d]
      /\ onRq'[t] /\ \A u \in Tasks : u # t => onRq'[u] = onRq[u]
      /\ \A d \in Cpus : resched[d] => resched'[d]
  <2>1. Enqueue(g, t, ticks)
    BY <1>3 DEF Move
  <2> QED BY <1>5, <2>1, Enqueued
<1>7. \A d \in Cpus : nrun'[d] - Len(queue'[d]) = nrun[d] - Len(queue[d])
  <2>1. nrun[g] \in Int /\ Len(queue[g]) \in Int
    BY <1>0, LenProperties
  <2> QED BY <1>6, <2>1
<1>8. ASSUME NEW d \in Cpus PROVE ListsKept(d)'
  <2>1. ListsKept(d)
    BY DEF PlaceInv
  <2>2. CASE d = g
    BY <1>1, <1>6, <2>1, <2>2 DEF ListsKept
  <2>3. CASE d # g
    BY <1>1, <1>6, <2>1, <2>3 DEF ListsKept
  <2> QED BY <2>2, <2>3
<1>9. ASSUME NEW d \in Cpus PROVE ThreadKept(d)'
  <2>1. CASE d = c
    <3>1. pc[c] \in LbPlaces /\ pc'[c] \in {"sched"} \cup LbPlaces /\ stolen'[c] = Idle
      BY <1>0, <1>1, <1>2 DEF LbPlaces
    <3>2. resched[c] => resched'[c]
      BY <1>6
    <3> QED BY <1>0, <1>1, <1>7, <2>1, <3>1, <3>2, BalancingThreadKept
  <2>2. CASE d # c
    <3>1. /\ cur[d] # Idle => state'[cur[d]] = state[cur[d]] /\ timeout'[cur[d]] = timeout[cur[d]]
          /\ \A u \in ToSet(events[d]) : timeout'[u] = timeout[u]
          /\ nrun'[d] - Len(queue'[d]) = nrun[d] - Len(queue[d])
      BY <1>1, <1>7
    <3> QED BY <1>0, <2>2, <3>1, OtherThreadsKept
  <2> QED BY <2>1, <2>2
<1>10. ASSUME NEW u \in Tasks PROVE TaskKept(u)'
  <2>1. TaskKept(u)
    BY DEF PlaceInv
  <2>2. CASE u # t
    <3>1. \A d \in Cpus : /\ u \in ToSet(queue'[d]) <=> u \in ToSet(queue[d])
                          /\ stolen'[d] = u <=> stolen[d] = u
      <4>1. u # Idle
        BY SchedSimAssumption DEF Tasks, Idle
      <4> QED BY <1>0, <1>1, <1>6, <2>2, <4>1
    <3>2. TaskLeft(u)
      BY <1>1, <1>6, <2>2, <3>1 DEF TaskLeft
    <3> QED BY <2>1, <3>2, TaskStays
  <2>3. CASE u = t
    <3>1. \A d \in Cpus : /\ t \in ToSet(queue'[d]) <=> d = g
                          /\ cur'[d] # t /\ stolen'[d] # t /\ t \notin ToSet(events'[d])
      BY <1>0, <1>1, <1>4, <1>5, <1>6
    <3>2. state'[t] = "RUNNABLE" /\ ~IsIoPhase(phase'[t]) /\ main' # "add" /\ onRq'[t]
      BY <1>1, <1>5, <1>6
    <3>3. TaskKept(t)'
      BY <3>1, <3>2 DEF TaskKept
    <3> QED BY <2>3, <3>3
  <2> QED BY <2>2, <2>3
<1> QED BY <1>8, <1>9, <1>10 DEF PlaceInv

\* What schedule() does: prev was current on c, and goes on queue q again if it can
\* go on; next is the head of q, and rest what is left of it.
Switched(c, prev, again, q, next, rest) ==
    /\ prev \in Tasks \cup {Idle} /\ again \in BOOLEAN /\ q \in Seq(Tasks) /\ prev = cur[c]
    /\ q = IF again THEN QueueWith(c, prev, ticks) ELSE queue[c]
    /\ (next = IF q = <<>> THEN Idle ELSE Head(q)) /\ (rest = IF q = <<>> THEN q ELSE Tail(q))
    /\ again <=> OnProc(c)
    /\ again => /\ prev \in Tasks /\ state[prev] = "ONPROC" /\ ~onRq[prev] /\ ~IsIoPhase(phase[prev])
                /\ \A d \in Cpus : /\ d # c => cur[d] # prev
                                   /\ stolen[d] # prev /\ prev \notin ToSet(queue[d])
                                   /\ prev \notin ToSet(events[d])
    /\ /\ NoRepeat(q) /\ ToSet(q) = ToSet(queue[c]) \cup (IF again THEN {prev} ELSE {})
       /\ Len(q) = Len(queue[c]) + (IF again THEN 1 ELSE 0) /\ Len(queue[c]) \in Int
    /\ /\ NoRepeat(rest) /\ ToSet(rest) = ToSet(q) \ {next}
       /\ next # Idle => next \in Tasks /\ next \in ToSet(q) /\ Len(rest) = Len(q) - 1
       /\ next = Idle => Len(rest) = Len(q) /\ ToSet(q) = {}
    /\ /\ queue' = [queue EXCEPT ![c] = rest] /\ cur' = [cur EXCEPT ![c] = next]
       /\ resched' = [resched EXCEPT ![c] = FALSE]
       /\ onRq' = [t \in Tasks |-> t # next /\ (onRq[t] \/ (again /\ t = prev))]
       /\ state' = [t \in Tasks |-> CASE next # Idle /\ prev # next /\ t = next -> "ONPROC"
                                      [] again /\ prev # next /\ t = prev -> "RUNNABLE"
                                      [] OTHER -> state[t]]
       /\ pc[c] = "sched" /\ pc' = [pc EXCEPT ![c] = "sync"]
       /\ UNCHANGED <<main, nextTask, step, stolen, nrun, phase, events, timeout>>
    /\ next # Idle /\ next # prev =>
         /\ next \in ToSet(queue[c]) /\ onRq[next] /\ state[next] = "RUNNABLE" /\ ~IsIoPhase(phase[next])
         /\ \A d \in Cpus : /\ d # c => next \notin ToSet(queue[d])
                            /\ cur[d] # next /\ stolen[d] # next /\ next \notin ToSet(events[d])
    /\ next # Idle /\ next = prev => again
    /\ next = Idle => ~again
    /\ /\ queue'[c] = rest /\ \A d \in Cpus : d # c => queue'[d] = queue[d]
       /\ cur'[c] = next /\ \A d \in Cpus : d # c => cur'[d] = cur[d]
       /\ pc'[c] = "sync"
    /\ /\ \A u \in Tasks : u # next /\ u # prev => onRq'[u] = onRq[u] /\ state'[u] = state[u]
       /\ ~again /\ prev \in Tasks => onRq'[prev] = onRq[prev] /\ state'[prev] = state[prev]
       /\ again /\ next # prev => onRq'[prev] /\ state'[prev] = "RUNNABLE"
       /\ next # Idle => ~onRq'[next] /\ state'[next] = "ONPROC"
    /\ /\ counter' = [t \in Tasks |-> IF again /\ t = prev
                                      THEN CounterWhenQueued(conf.sched, counter[t])
                                      ELSE counter[t]]
       /\ lastEnq' = [t \in Tasks |-> IF again /\ prev # next /\ t = prev
                                      THEN step[c] + 1
                                      ELSE lastEnq[t]]
       /\ realTime' = [t \in Tasks |-> IF next # Idle /\ prev # next /\ t = next
                                       THEN realTime[t] + Waited(c, t)
                                       ELSE realTime[t]]
       /\ ticks' = ticks

LEMMA SwitchHappens ==
  ASSUME TypeInv, PlaceInv, NEW c \in Cpus, SchedSwitch(c)
  PROVE  \E prev, again, q, next, rest : Switched(c, prev, again, q, next, rest)
<1>0. /\ TypeInv' /\ Thread(c)
      /\ queue \in [Cpus -> Seq(Tasks)] /\ nrun \in [Cpus -> Int] /\ cur \in [Cpus -> Tasks \cup {Idle}]
      /\ onRq \in [Tasks -> BOOLEAN] /\ state \in [Tasks -> TaskStates] /\ pc \in [Cpus -> PcPlaces]
      /\ front \in [Tasks -> BOOLEAN] /\ events \in [Cpus -> Seq(Tasks)]
  <2>1. Thread(c) /\ Next
    BY DEF Thread, Schedule, Next
  <2> QED BY <2>1, NextTypeInv DEF TypeInv, TypeOK
<1>t. \A u \in Tasks : u # Idle
  BY SchedSimAssumption DEF Tasks, Idle
<1>k. ThreadKept(c) /\ ListsKept(c)
  BY DEF PlaceInv
<1>1. PICK prev \in Tasks \cup {Idle} : prev = cur[c]
  BY <1>0
<1>2. PICK again \in BOOLEAN : again <=> CanGoOn(prev)
  OBVIOUS
<1>3. again <=> OnProc(c)
  BY <1>1, <1>2 DEF CanGoOn, OnProc
<1>4. again => /\ prev \in Tasks /\ state[prev] = "ONPROC" /\ ~onRq[prev] /\ ~IsIoPhase(phase[prev])
               /\ \A d \in Cpus : /\ d # c => cur[d] # prev
                                  /\ stolen[d] # prev /\ prev \notin ToSet(queue[d])
                                  /\ prev \notin ToSet(events[d])
  BY <1>1, <1>3, OnProcOnly
<1>5. main # "add"
  <2>1. pc[c] = "sched"
    BY DEF SchedSwitch
  <2> QED BY <2>1 DEF TypeInv, ThreadsAfterTasks
\* The queue once the previous task is on it.
<1>6. PICK q \in Seq(Tasks) : q = IF again /\ ~onRq[prev] THEN QueueWith(c, prev, ticks) ELSE queue[c]
  <2>1. CASE again
    <3>1. queue[c] \in Seq(Tasks) /\ prev \in Tasks /\ front[prev] \in BOOLEAN
      BY <1>0, <1>4, <2>1
    <3>2. QueueWith(c, prev, ticks) \in Seq(Tasks)
      BY <3>1, QueuedType DEF QueueWith
    <3> QED BY <1>4, <2>1, <3>2
  <2>2. CASE ~again
    BY <1>0, <2>2
  <2> QED BY <2>1, <2>2
<1>7. /\ NoRepeat(q) /\ ToSet(q) = ToSet(queue[c]) \cup (IF again THEN {prev} ELSE {})
      /\ Len(q) = Len(queue[c]) + (IF again THEN 1 ELSE 0) /\ Len(queue[c]) \in Int
  <2>0. Len(queue[c]) \in Int
    BY <1>0, LenProperties
  <2>1. CASE again
    <3>1. PICK old \in Seq(Tasks) : old = queue[c]
      BY <1>0
    <3>2. PICK fr \in BOOLEAN : fr = front[prev]
      BY <1>0, <1>4, <2>1
    <3>3. NoRepeat(old) /\ prev \notin ToSet(old) /\ prev \in Tasks
      BY <1>k, <1>4, <2>1, <3>1 DEF ListsKept
    <3>4. LET r == Queued(conf.sched, old, prev, fr, PrioOf, ticks) IN
          NoRepeat(r) /\ ToSet(r) = ToSet(old) \cup {prev} /\ Len(r) = Len(old) + 1
      BY <3>3, QueuedElements
    <3>5. q = Queued(conf.sched, old, prev, fr, PrioOf, ticks)
      BY <1>4, <1>6, <2>1, <3>1, <3>2 DEF QueueWith
    <3> QED BY <2>0, <2>1, <3>1, <3>4, <3>5
  <2>2. CASE ~again
    BY <1>k, <1>6, <2>0, <2>2 DEF ListsKept
  <2> QED BY <2>1, <2>2
<1>8. PICK next : next = IF q = <<>> THEN Idle ELSE Head(q)
  OBVIOUS
<1>9. PICK rest : rest = IF q = <<>> THEN q ELSE Tail(q)
  OBVIOUS
<1>10. /\ NoRepeat(rest) /\ ToSet(rest) = ToSet(q) \ {next}
       /\ next # Idle => next \in Tasks /\ next \in ToSet(q) /\ Len(rest) = Len(q) - 1
       /\ next = Idle => Len(rest) = Len(q) /\ ToSet(q) = {}
  <2>1. CASE q = <<>>
    BY <1>7, <1>8, <1>9, <2>1, ElementsAt
  <2>2. CASE q # <<>>
    <3>1. /\ Head(q) \in ToSet(q) /\ Head(q) \in Tasks /\ ToSet(Tail(q)) = ToSet(q) \ {Head(q)}
          /\ NoRepeat(Tail(q)) /\ Len(Tail(q)) = Len(q) - 1
      BY <1>7, <2>2, HeadTaken
    <3> QED BY <1>t, <1>8, <1>9, <2>2, <3>1
  <2> QED BY <2>1, <2>2
<1>11. /\ queue' = [queue EXCEPT ![c] = rest] /\ cur' = [cur EXCEPT ![c] = next]
       /\ resched' = [resched EXCEPT ![c] = FALSE]
       /\ onRq' = [t \in Tasks |-> t # next /\ (onRq[t] \/ (again /\ t = prev))]
       /\ state' = [t \in Tasks |-> CASE next # Idle /\ prev # next /\ t = next -> "ONPROC"
                                      [] again /\ prev # next /\ t = prev -> "RUNNABLE"
                                      [] OTHER -> state[t]]
       /\ pc[c] = "sched" /\ pc' = [pc EXCEPT ![c] = "sync"]
       /\ UNCHANGED <<main, nextTask, step, stolen, nrun, phase, events, timeout>>
  <2>1. again = CanGoOn(prev)
    BY <1>2 DEF CanGoOn
  <2> QED BY <1>1, <1>6, <1>8, <1>9, <2>1 DEF SchedSwitch, mainVars, lbVars, eventVars
\* A next task other than the previous one comes from the queue.
<1>12. next # Idle /\ next # prev =>
         /\ next \in ToSet(queue[c]) /\ onRq[next] /\ state[next] = "RUNNABLE" /\ ~IsIoPhase(phase[next])
         /\ \A d \in Cpus : /\ d # c => next \notin ToSet(queue[d])
                            /\ cur[d] # next /\ stolen[d] # next /\ next \notin ToSet(events[d])
  <2>1. SUFFICES ASSUME next # Idle, next # prev
                 PROVE  /\ next \in ToSet(queue[c])
                        /\ onRq[next] /\ state[next] = "RUNNABLE" /\ ~IsIoPhase(phase[next])
                        /\ \A d \in Cpus : /\ d # c => next \notin ToSet(queue[d])
                                           /\ cur[d] # next /\ stolen[d] # next
                                           /\ next \notin ToSet(events[d])
    OBVIOUS
  <2>2. next \in ToSet(queue[c]) /\ next \in Tasks
    BY <1>7, <1>10, <2>1
  <2> QED BY <2>2, QueuedOnly
\* The same task goes on when it is the first of its own queue.
<1>13. next # Idle /\ next = prev => again
  <2>1. SUFFICES ASSUME next # Idle, next = prev, ~again PROVE FALSE
    OBVIOUS
  <2>2. prev \in ToSet(queue[c]) /\ prev \in Tasks
    BY <1>7, <1>10, <2>1
  <2> QED BY <1>1, <2>2, QueuedOnly
<1>14. next = Idle => ~again
  BY <1>7, <1>10
<1>15. /\ queue'[c] = rest /\ \A d \in Cpus : d # c => queue'[d] = queue[d]
       /\ cur'[c] = next /\ \A d \in Cpus : d # c => cur'[d] = cur[d]
       /\ pc'[c] = "sync"
  BY <1>0, <1>11
<1>16. /\ \A u \in Tasks : u # next /\ u # prev => onRq'[u] = onRq[u] /\ state'[u] = state[u]
       /\ ~again /\ prev \in Tasks => onRq'[prev] = onRq[prev] /\ state'[prev] = state[prev]
       /\ again /\ next # prev => onRq'[prev] /\ state'[prev] = "RUNNABLE"
       /\ next # Idle => ~onRq'[next] /\ state'[next] = "ONPROC"
  <2>1. ASSUME NEW u \in Tasks, u # next, u # prev PROVE onRq'[u] = onRq[u] /\ state'[u] = state[u]
    BY <1>0, <1>11, <2>1
  <2>2. ASSUME ~again, prev \in Tasks PROVE onRq'[prev] = onRq[prev] /\ state'[prev] = state[prev]
    <3>1. prev # next
      BY <1>t, <1>13, <2>2
    <3> QED BY <1>0, <1>11, <2>2, <3>1
  <2>3. ASSUME again, next # prev PROVE onRq'[prev] /\ state'[prev] = "RUNNABLE"
    BY <1>4, <1>11, <2>3
  <2>4. ASSUME next # Idle PROVE ~onRq'[next] /\ state'[next] = "ONPROC"
    <3>1. next \in Tasks
      BY <1>10, <2>4
    <3>2. ~onRq'[next]
      BY <1>11, <3>1
    <3>3. CASE next # prev
      BY <1>11, <2>4, <3>1, <3>2, <3>3
    <3>4. CASE next = prev
      BY <1>4, <1>11, <1>13, <2>4, <3>1, <3>2, <3>4
    <3> QED BY <3>3, <3>4
  <2> QED BY <2>1, <2>2, <2>3, <2>4
<1>17. /\ counter' = [t \in Tasks |-> IF again /\ t = prev
                                       THEN CounterWhenQueued(conf.sched, counter[t])
                                       ELSE counter[t]]
       /\ lastEnq' = [t \in Tasks |-> IF again /\ prev # next /\ t = prev
                                      THEN step[c] + 1
                                      ELSE lastEnq[t]]
       /\ realTime' = [t \in Tasks |-> IF next # Idle /\ prev # next /\ t = next
                                       THEN realTime[t] + Waited(c, t)
                                       ELSE realTime[t]]
       /\ ticks' = ticks
  <2>1. again = CanGoOn(prev)
    BY <1>2 DEF CanGoOn
  <2>2. again => ~onRq[prev]
    BY <1>4
  <2>3. counter' = [t \in Tasks |-> IF again /\ ~onRq[t] /\ t = prev
                                   THEN CounterWhenQueued(conf.sched, counter[t])
                                   ELSE counter[t]]
    BY <1>1, <1>6, <1>8, <2>1 DEF SchedSwitch
  <2>4. /\ lastEnq' = [t \in Tasks |-> IF again /\ prev # next /\ t = prev
                                       THEN step[c] + 1
                                       ELSE lastEnq[t]]
        /\ realTime' = [t \in Tasks |-> IF next # Idle /\ prev # next /\ t = next
                                        THEN realTime[t] + Waited(c, t)
                                        ELSE realTime[t]]
        /\ ticks' = ticks
    BY <1>1, <1>6, <1>8, <2>1 DEF SchedSwitch
  <2> QED BY <2>2, <2>3, <2>4
<1>18. q = IF again THEN QueueWith(c, prev, ticks) ELSE queue[c]
  BY <1>4, <1>6
<1>19. Switched(c, prev, again, q, next, rest)
  BY <1>1, <1>3, <1>4, <1>7, <1>8, <1>9, <1>10, <1>11, <1>12, <1>13, <1>14, <1>15, <1>16, <1>17,
     <1>18, Zenon DEF Switched
<1> QED BY <1>19

\* schedule(): the task that was on the processor, if it can go on, is on the queue,
\* the head of the queue is on the processor, and everything else is where it was.
LEMMA SwitchPlaces ==
  ASSUME TypeInv, PlaceInv, NEW c \in Cpus, SchedSwitch(c)
  PROVE  PlaceInv'
<1>0. /\ TypeInv' /\ Thread(c)
      /\ queue \in [Cpus -> Seq(Tasks)] /\ nrun \in [Cpus -> Int] /\ cur \in [Cpus -> Tasks \cup {Idle}]
      /\ onRq \in [Tasks -> BOOLEAN] /\ state \in [Tasks -> TaskStates] /\ pc \in [Cpus -> PcPlaces]
      /\ front \in [Tasks -> BOOLEAN] /\ events \in [Cpus -> Seq(Tasks)]
  <2>1. Thread(c) /\ Next
    BY DEF Thread, Schedule, Next
  <2> QED BY <2>1, NextTypeInv DEF TypeInv, TypeOK
<1>t. \A u \in Tasks : u # Idle
  BY SchedSimAssumption DEF Tasks, Idle
<1>k. ThreadKept(c) /\ ListsKept(c)
  BY DEF PlaceInv
<1>sw. PICK prev, again, q, next, rest : Switched(c, prev, again, q, next, rest)
  BY SwitchHappens
<1>1. prev \in Tasks \cup {Idle} /\ prev = cur[c]
  BY <1>sw DEF Switched
<1>3. again <=> OnProc(c)
  BY <1>sw, Zenon DEF Switched
<1>4. again => /\ prev \in Tasks /\ state[prev] = "ONPROC" /\ ~onRq[prev] /\ ~IsIoPhase(phase[prev])
               /\ \A d \in Cpus : /\ d # c => cur[d] # prev
                                  /\ stolen[d] # prev /\ prev \notin ToSet(queue[d])
                                  /\ prev \notin ToSet(events[d])
  BY <1>sw, Zenon DEF Switched
<1>5. main # "add"
  <2>1. pc[c] = "sched"
    BY DEF SchedSwitch
  <2> QED BY <2>1 DEF TypeInv, ThreadsAfterTasks
<1>7. /\ NoRepeat(q) /\ ToSet(q) = ToSet(queue[c]) \cup (IF again THEN {prev} ELSE {})
      /\ Len(q) = Len(queue[c]) + (IF again THEN 1 ELSE 0) /\ Len(queue[c]) \in Int
  BY <1>sw, Zenon DEF Switched
<1>10. /\ NoRepeat(rest) /\ ToSet(rest) = ToSet(q) \ {next}
       /\ next # Idle => next \in Tasks /\ next \in ToSet(q) /\ Len(rest) = Len(q) - 1
       /\ next = Idle => Len(rest) = Len(q) /\ ToSet(q) = {}
  BY <1>sw, Zenon DEF Switched
<1>11. /\ queue' = [queue EXCEPT ![c] = rest] /\ cur' = [cur EXCEPT ![c] = next]
       /\ resched' = [resched EXCEPT ![c] = FALSE]
       /\ onRq' = [t \in Tasks |-> t # next /\ (onRq[t] \/ (again /\ t = prev))]
       /\ state' = [t \in Tasks |-> CASE next # Idle /\ prev # next /\ t = next -> "ONPROC"
                                      [] again /\ prev # next /\ t = prev -> "RUNNABLE"
                                      [] OTHER -> state[t]]
       /\ pc[c] = "sched" /\ pc' = [pc EXCEPT ![c] = "sync"]
       /\ UNCHANGED <<main, nextTask, step, stolen, nrun, phase, events, timeout>>
  BY <1>sw, Zenon DEF Switched
<1>12. next # Idle /\ next # prev =>
         /\ next \in ToSet(queue[c]) /\ onRq[next] /\ state[next] = "RUNNABLE" /\ ~IsIoPhase(phase[next])
         /\ \A d \in Cpus : /\ d # c => next \notin ToSet(queue[d])
                            /\ cur[d] # next /\ stolen[d] # next /\ next \notin ToSet(events[d])
  BY <1>sw, Zenon DEF Switched
<1>13. next # Idle /\ next = prev => again
  BY <1>sw, Zenon DEF Switched
<1>14. next = Idle => ~again
  BY <1>sw, Zenon DEF Switched
<1>15. /\ queue'[c] = rest /\ \A d \in Cpus : d # c => queue'[d] = queue[d]
       /\ cur'[c] = next /\ \A d \in Cpus : d # c => cur'[d] = cur[d]
       /\ pc'[c] = "sync"
  BY <1>sw, Zenon DEF Switched
<1>16. /\ \A u \in Tasks : u # next /\ u # prev => onRq'[u] = onRq[u] /\ state'[u] = state[u]
       /\ ~again /\ prev \in Tasks => onRq'[prev] = onRq[prev] /\ state'[prev] = state[prev]
       /\ again /\ next # prev => onRq'[prev] /\ state'[prev] = "RUNNABLE"
       /\ next # Idle => ~onRq'[next] /\ state'[next] = "ONPROC"
  BY <1>sw, Zenon DEF Switched
<1>17. ToSet(rest) = (ToSet(queue[c]) \cup (IF again THEN {prev} ELSE {})) \ {next}
  BY <1>7, <1>10
<1>18. ASSUME NEW d \in Cpus PROVE ListsKept(d)'
  <2>1. ListsKept(d)
    BY DEF PlaceInv
  <2>2. CASE d = c
    BY <1>10, <1>11, <1>15, <2>1, <2>2 DEF ListsKept
  <2>3. CASE d # c
    BY <1>11, <1>15, <2>1, <2>3 DEF ListsKept
  <2> QED BY <2>2, <2>3
<1>19. ASSUME NEW d \in Cpus PROVE ThreadKept(d)'
  <2>1. CASE d = c
    <3>1. OnProc(c)' <=> next # Idle
      BY <1>15, <1>16 DEF OnProc
    <3>2. nrun'[c] = Len(queue'[c]) + Busy(c)'
      <4>1. Busy(c)' = IF next # Idle THEN 1 ELSE 0
        BY <3>1 DEF Busy
      <4>2. nrun[c] = Len(queue[c]) + (IF again THEN 1 ELSE 0)
        BY <1>k, <1>3 DEF ThreadKept, Busy
      <4>3. Len(queue'[c]) = Len(queue[c]) + (IF again THEN 1 ELSE 0) - (IF next # Idle THEN 1 ELSE 0)
        <5>1. CASE next # Idle
          <6>1. Len(rest) = Len(q) - 1
            BY <1>10, <5>1
          <6> QED BY <1>7, <1>15, <5>1, <6>1
        <5>2. CASE next = Idle
          <6>1. Len(rest) = Len(q)
            BY <1>10, <5>2
          <6> QED BY <1>7, <1>15, <5>2, <6>1
        <5> QED BY <5>1, <5>2
      <4>4. nrun'[c] = nrun[c]
        BY <1>11
      <4>5. CASE again
        BY <1>7, <1>14, <4>1, <4>2, <4>3, <4>4, <4>5
      <4>6. CASE ~again
        BY <1>7, <4>1, <4>2, <4>3, <4>4, <4>6
      <4> QED BY <4>5, <4>6
    <3>3. \A u \in ToSet(events'[c]) : timeout'[u] >= Earliest(c)'
      <4>1. Earliest(c)' = Earliest(c)
        BY <1>11, <1>15 DEF Earliest
      <4> QED BY <1>k, <1>11, <4>1 DEF ThreadKept
    <3>4. cur'[c] # Idle => state'[cur'[c]] # "SLEEP"
      BY <1>15, <1>16
    <3>5. stolen'[c] = Idle
      BY <1>k, <1>11 DEF ThreadKept
    <3> QED BY <1>15, <2>1, <3>1, <3>2, <3>3, <3>4, <3>5 DEF ThreadKept
  <2>2. CASE d # c
    <3>1. cur[d] # Idle => state'[cur[d]] = state[cur[d]]
      <4>1. SUFFICES ASSUME cur[d] # Idle PROVE state'[cur[d]] = state[cur[d]]
        OBVIOUS
      <4>2. cur[d] \in Tasks
        BY <1>0, <4>1
      <4>3. cur[d] # next
        BY <1>4, <1>12, <1>13, <2>2, <4>1
      <4>4. again => cur[d] # prev
        BY <1>4, <2>2
      <4>5. CASE cur[d] = prev
        BY <1>16, <4>2, <4>4, <4>5
      <4>6. CASE cur[d] # prev
        BY <1>16, <4>2, <4>3, <4>6
      <4> QED BY <4>5, <4>6
    <3>2. /\ \A u \in ToSet(events[d]) : timeout'[u] = timeout[u]
          /\ cur[d] # Idle => timeout'[cur[d]] = timeout[cur[d]]
          /\ nrun'[d] - Len(queue'[d]) = nrun[d] - Len(queue[d])
      BY <1>11, <1>15, <2>2
    <3> QED BY <1>0, <2>2, <3>1, <3>2, OtherThreadsKept
  <2> QED BY <2>1, <2>2
<1>20. ASSUME NEW u \in Tasks PROVE TaskKept(u)'
  <2>0. TaskKept(u)
    BY DEF PlaceInv
  <2>1. CASE u # next /\ u # prev
    <3>1. \A d \in Cpus : u \in ToSet(queue'[d]) <=> u \in ToSet(queue[d])
      BY <1>15, <1>17, <2>1
    <3>2. \A d \in Cpus : cur'[d] = u <=> cur[d] = u
      BY <1>1, <1>15, <2>1
    <3>3. onRq'[u] = onRq[u] /\ state'[u] = state[u]
      BY <1>16, <2>1
    <3>4. TaskLeft(u)
      BY <1>11, <3>1, <3>2, <3>3 DEF TaskLeft
    <3> QED BY <2>0, <3>4, TaskStays
  <2>2. CASE u = next
    <3>1. next # Idle
      BY <1>t, <2>2
    <3>2. ~onRq'[next] /\ state'[next] = "ONPROC"
      BY <1>16, <3>1
    <3>3. /\ ~IsIoPhase(phase[next])
          /\ \A d \in Cpus : /\ d # c => cur[d] # next /\ next \notin ToSet(queue[d])
                             /\ stolen[d] # next /\ next \notin ToSet(events[d])
      <4>1. CASE next = prev
        BY <1>4, <1>13, <3>1, <4>1
      <4>2. CASE next # prev
        BY <1>12, <3>1, <4>2
      <4> QED BY <4>1, <4>2
    <3>4. \A d \in Cpus : /\ cur'[d] = next <=> d = c
                          /\ next \notin ToSet(queue'[d])
                          /\ stolen'[d] # next /\ next \notin ToSet(events'[d])
      BY <1>11, <1>15, <1>17, <3>3
    <3>5. ~IsIoPhase(phase'[next]) /\ main' # "add"
      BY <1>5, <1>11, <3>3
    <3>6. TaskKept(next)'
      BY <3>2, <3>4, <3>5 DEF TaskKept
    <3> QED BY <2>2, <3>6
  <2>3. CASE u = prev /\ u # next /\ again
    <3>1. onRq'[prev] /\ state'[prev] = "RUNNABLE"
      BY <1>16, <2>3
    <3>2. \A d \in Cpus : /\ prev \in ToSet(queue'[d]) <=> d = c
                          /\ cur'[d] # prev
                          /\ stolen'[d] # prev /\ prev \notin ToSet(events'[d])
      BY <1>4, <1>11, <1>15, <1>17, <2>3
    <3>3. ~IsIoPhase(phase'[prev]) /\ main' # "add"
      BY <1>4, <1>5, <1>11, <2>3
    <3>4. TaskKept(prev)'
      BY <3>1, <3>2, <3>3 DEF TaskKept
    <3> QED BY <2>3, <3>4
  <2>4. CASE u = prev /\ u # next /\ ~again
    <3>1. onRq'[prev] = onRq[prev] /\ state'[prev] = state[prev]
      BY <1>16, <2>4
    <3>2. state[prev] \in {"SLEEP", "COMPLETED"}
      <4>1. state[prev] \in {"ONPROC", "SLEEP", "COMPLETED"}
        BY <1>1, <2>0, <2>4 DEF TaskKept
      <4>2. state[prev] # "ONPROC"
        BY <1>t, <1>1, <1>3, <2>4 DEF OnProc
      <4> QED BY <4>1, <4>2
    <3>3. \A d \in Cpus : /\ prev \in ToSet(queue'[d]) <=> prev \in ToSet(queue[d])
                          /\ cur'[d] # prev
      <4>1. \A d \in Cpus : d # c => cur[d] # prev
        BY <1>1, <2>0, <2>4, Zenon DEF TaskKept
      <4> QED BY <1>15, <1>17, <2>4, <4>1
    <3>4. TaskKept(prev)
      BY <2>0, <2>4
    <3>5. state[prev] \notin {"ONPROC", "RUNNABLE"}
      BY <3>2
    <3>6. UNCHANGED <<main, nextTask, stolen, phase, events>>
      BY <1>11
    <3>7. TaskKept(prev)'
      BY <3>1, <3>3, <3>4, <3>5, <3>6, Zenon DEF TaskKept
    <3> QED BY <2>4, <3>7
  <2> QED BY <2>1, <2>2, <2>3, <2>4
<1> QED BY <1>18, <1>19, <1>20 DEF PlaceInv

-----------------------------------------------------------------------------
(* The invariant *)

LEMMA InitPlaceInv == Init => PlaceInv
<1>1. SUFFICES ASSUME Init PROVE PlaceInv
  OBVIOUS
<1>2. /\ main = "add" /\ nextTask = 0 /\ pc = [c \in Cpus |-> "none"] /\ step = [c \in Cpus |-> 0]
      /\ stolen = [c \in Cpus |-> Idle] /\ queue = [c \in Cpus |-> <<>>] /\ cur = [c \in Cpus |-> Idle]
      /\ nrun = [c \in Cpus |-> 0] /\ events = [c \in Cpus |-> <<>>]
      /\ state = [t \in Tasks |-> "STARTING"] /\ phase = [t \in Tasks |-> 0]
      /\ onRq = [t \in Tasks |-> FALSE]
  BY <1>1 DEF Init
<1>3. <<>> \in Seq(Tasks) /\ Len(<<>>) = 0
  OBVIOUS
<1>4. ToSet(<<>>) = {}
  BY <1>3, ElementsAt
<1>5. NoRepeat(<<>>) /\ Sorted(<<>>, timeout)
  BY <1>3 DEF NoRepeat, Sorted
<1>6. ASSUME NEW c \in Cpus PROVE ListsKept(c) /\ ThreadKept(c)
  <2>1. queue[c] = <<>> /\ events[c] = <<>> /\ cur[c] = Idle /\ nrun[c] = 0 /\ pc[c] = "none"
        /\ step[c] = 0 /\ stolen[c] = Idle
    BY <1>2
  <2> QED BY <1>3, <1>4, <1>5, <2>1 DEF ListsKept, ThreadKept, OnProc, Busy
<1>7. ASSUME NEW t \in Tasks PROVE TaskKept(t)
  <2>1. /\ \A c \in Cpus : /\ t \notin ToSet(queue[c]) /\ t \notin ToSet(events[c])
                           /\ cur[c] # t /\ stolen[c] # t
        /\ ~onRq[t] /\ state[t] = "STARTING" /\ phase[t] = 0 /\ main = "add" /\ ~(t < nextTask)
    BY <1>2, <1>4, SchedSimAssumption DEF Tasks, Idle
  <2> QED BY <2>1 DEF TaskKept
<1> QED BY <1>6, <1>7 DEF PlaceInv

LEMMA NextPlaceInv ==
  ASSUME IoTakesTime, TypeInv, PlaceInv, [Next]_vars
  PROVE  PlaceInv'
<1>1. ASSUME NEW c \in Cpus, Thread(c) PROVE PlaceInv'
  <2>1. CASE ProcessEvents(c)
    BY <2>1, EventsDoneMovesNothing, WakePlaces, CompleteAwakePlaces DEF ProcessEvents
  <2>2. CASE SchedulerTick(c)
    BY <2>2, LoopMovesNothing, EndBurstPlaces DEF SchedulerTick
  <2>3. CASE LoadBalance(c)
    BY <2>3, BalancingMovesNothing, StealPlaces, MovePlaces DEF LoadBalance
  <2>4. CASE Schedule(c)
    BY <2>4, BalancingMovesNothing, SwitchPlaces DEF Schedule
  <2>5. CASE FirstPick(c) \/ LoopTest(c) \/ SynchronizeCpus(c)
    BY <2>5, FirstPickPlaces, LoopMovesNothing, BalancingMovesNothing
  <2> QED BY <1>1, <2>1, <2>2, <2>3, <2>4, <2>5 DEF Thread
<1> QED BY <1>1, AddTaskPlaces, BarriersMoveNothing DEF Next, Main, Terminated

LEMMA PlaceInvariance ==
  ASSUME IoTakesTime
  PROVE  Spec => [](TypeInv /\ PlaceInv)
<1>1. Init => TypeInv /\ PlaceInv
  BY InitTypeInv, InitPlaceInv
<1>2. TypeInv /\ PlaceInv /\ [Next]_vars => (TypeInv /\ PlaceInv)'
  BY NextTypeInv, NextPlaceInv
<1> QED BY <1>1, <1>2, PTL DEF Spec

-----------------------------------------------------------------------------
(* What follows from it *)

\* A list that has no task twice is no longer than there are tasks.
LEMMA NoLongerThanTasks ==
  ASSUME NEW q \in Seq(Tasks), NoRepeat(q)
  PROVE  Len(q) \in Nat /\ Len(q) <= NrTasks
<1>1. Len(q) \in Nat /\ NrTasks \in Nat /\ \A i \in 1..Len(q) : q[i] \in Tasks
  BY LenProperties, ElementOfSeq, SchedSimAssumption
<1>2. IsFiniteSet(Tasks) /\ Cardinality(Tasks) = NrTasks
  BY <1>1, SchedSimAssumption, FS_Interval DEF Tasks
<1>3. IsFiniteSet(1..Len(q)) /\ Cardinality(1..Len(q)) = Len(q)
  <2>1. PICK n \in Nat : n = Len(q)
    BY <1>1
  <2>2. IsFiniteSet(1..n) /\ Cardinality(1..n) = IF 1 > n THEN 0 ELSE n - 1 + 1
    BY FS_Interval
  <2>3. (IF 1 > n THEN 0 ELSE n - 1 + 1) = n
    OBVIOUS
  <2> QED BY <2>1, <2>2, <2>3
<1>4. q \in Injection(1..Len(q), Tasks)
  <2>1. q \in [1..Len(q) -> Tasks]
    BY LenProperties
  <2> QED BY <2>1 DEF NoRepeat, Injection, IsInjective
<1>5. Cardinality(1..Len(q)) <= Cardinality(Tasks)
  BY <1>2, <1>3, <1>4, FS_Injection
<1> QED BY <1>1, <1>2, <1>3, <1>5

\* A task that is on at most one list has at most one slot.
LEMMA SlotsCounted ==
  ASSUME NEW t \in Tasks, NEW s \in [Cpus -> Seq(Tasks)], \A c \in Cpus : NoRepeat(s[c]),
         \A c, d \in Cpus : t \in ToSet(s[c]) /\ t \in ToSet(s[d]) => c = d
  PROVE  /\ (\E c \in Cpus : t \in ToSet(s[c])) => Cardinality(SlotsOf(t, s)) = 1
         /\ ~(\E c \in Cpus : t \in ToSet(s[c])) => Cardinality(SlotsOf(t, s)) = 0
<1>1. \A c \in Cpus : s[c] \in Seq(Tasks) /\ Len(s[c]) \in Nat /\ Len(s[c]) <= NrTasks
  BY NoLongerThanTasks
<1>2. \A c \in Cpus : t \in ToSet(s[c]) <=> \E i \in 1..Len(s[c]) : s[c][i] = t
  BY <1>1, ElementsAt
<1>3. ASSUME NEW c \in Cpus, t \in ToSet(s[c]) PROVE Cardinality(SlotsOf(t, s)) = 1
  <2>1. PICK i \in 1..Len(s[c]) : s[c][i] = t
    BY <1>2, <1>3
  <2>2. i \in 1..NrTasks /\ i <= Len(s[c])
    BY <1>1, <2>1, SchedSimAssumption
  <2>3. <<c, i>> \in SlotsOf(t, s)
    BY <2>1, <2>2 DEF SlotsOf
  <2>4. ASSUME NEW p \in SlotsOf(t, s) PROVE p = <<c, i>>
    <3>1. PICK d \in Cpus, j \in 1..NrTasks : p = <<d, j>> /\ j <= Len(s[d]) /\ s[d][j] = t
      BY <2>4 DEF SlotsOf
    <3>2. j \in 1..Len(s[d])
      BY <1>1, <3>1
    <3>3. d = c
      BY <1>2, <1>3, <3>1, <3>2
    <3>4. j = i
      BY <2>1, <3>1, <3>2, <3>3 DEF NoRepeat
    <3> QED BY <3>1, <3>3, <3>4
  <2>5. SlotsOf(t, s) = {<<c, i>>}
    BY <2>3, <2>4
  <2> QED BY <2>5, FS_Singleton
<1>4. ASSUME \A c \in Cpus : t \notin ToSet(s[c]) PROVE Cardinality(SlotsOf(t, s)) = 0
  <2>1. ASSUME NEW p \in SlotsOf(t, s) PROVE FALSE
    <3>1. PICK d \in Cpus, j \in 1..NrTasks : p = <<d, j>> /\ j <= Len(s[d]) /\ s[d][j] = t
      BY <2>1 DEF SlotsOf
    <3>2. j \in 1..Len(s[d])
      BY <1>1, <3>1
    <3> QED BY <1>2, <1>4, <3>1, <3>2
  <2>2. SlotsOf(t, s) = {}
    BY <2>1
  <2> QED BY <2>2, FS_EmptySet
<1> QED BY <1>3, <1>4

\* The same for what a CPU has only one of.
LEMMA HoldersCounted ==
  ASSUME NEW t, NEW f, \A c, d \in Cpus : f[c] = t /\ f[d] = t => c = d
  PROVE  LET H == {c \in Cpus : f[c] = t} IN
         /\ (\E c \in Cpus : f[c] = t) => Cardinality(H) = 1
         /\ ~(\E c \in Cpus : f[c] = t) => Cardinality(H) = 0
<1> DEFINE H == {c \in Cpus : f[c] = t}
<1>1. ASSUME NEW c \in Cpus, f[c] = t PROVE Cardinality(H) = 1
  <2>1. H = {c}
    BY <1>1
  <2> QED BY <2>1, FS_Singleton
<1>2. ASSUME \A c \in Cpus : f[c] # t PROVE Cardinality(H) = 0
  <2>1. H = {}
    BY <1>2
  <2> QED BY <2>1, FS_EmptySet
<1> QED BY <1>1, <1>2

LEMMA PlacesCounted == TypeInv /\ PlaceInv => OnePlace
<1>1. SUFFICES ASSUME TypeInv, PlaceInv, main # "add", NEW t \in Tasks
      PROVE  LET slots == Cardinality(SlotsOf(t, queue))
                 hands == Cardinality(InHandOf(t))
                 waits == Cardinality(SlotsOf(t, events))
             IN /\ onRq[t] <=> slots = 1
                /\ slots + hands = IF state[t] = "RUNNABLE" THEN 1 ELSE 0
                /\ waits = IF state[t] \in {"STARTING", "SLEEP"} THEN 1 ELSE 0
                /\ state[t] = "ONPROC" => Cardinality(RunningOn(t)) = 1
                /\ state[t] \in {"STARTING", "RUNNABLE"} => RunningOn(t) = {}
  BY DEF OnePlace
<1>2. TaskKept(t)
  BY <1>1 DEF PlaceInv
<1>3. /\ queue \in [Cpus -> Seq(Tasks)] /\ events \in [Cpus -> Seq(Tasks)]
      /\ \A c \in Cpus : NoRepeat(queue[c]) /\ NoRepeat(events[c])
  BY <1>1 DEF TypeInv, TypeOK, PlaceInv, ListsKept
<1>4. \A c, d \in Cpus :
        /\ t \in ToSet(queue[c]) /\ t \in ToSet(queue[d]) => c = d
        /\ t \in ToSet(events[c]) /\ t \in ToSet(events[d]) => c = d
        /\ cur[c] = t /\ cur[d] = t => c = d
        /\ stolen[c] = t /\ stolen[d] = t => c = d
  BY <1>2, Zenon DEF TaskKept
<1>5. /\ (\E c \in Cpus : t \in ToSet(queue[c])) => Cardinality(SlotsOf(t, queue)) = 1
      /\ ~(\E c \in Cpus : t \in ToSet(queue[c])) => Cardinality(SlotsOf(t, queue)) = 0
  BY <1>3, <1>4, SlotsCounted
<1>6. /\ (\E c \in Cpus : t \in ToSet(events[c])) => Cardinality(SlotsOf(t, events)) = 1
      /\ ~(\E c \in Cpus : t \in ToSet(events[c])) => Cardinality(SlotsOf(t, events)) = 0
  BY <1>3, <1>4, SlotsCounted
<1>7. /\ (\E c \in Cpus : stolen[c] = t) => Cardinality(InHandOf(t)) = 1
      /\ ~(\E c \in Cpus : stolen[c] = t) => Cardinality(InHandOf(t)) = 0
  <2>1. PICK f : f = stolen
    OBVIOUS
  <2>2. \A c, d \in Cpus : f[c] = t /\ f[d] = t => c = d
    BY <1>4, <2>1
  <2>3. InHandOf(t) = {c \in Cpus : f[c] = t}
    BY <2>1 DEF InHandOf
  <2>4. /\ (\E c \in Cpus : f[c] = t) => Cardinality({c \in Cpus : f[c] = t}) = 1
        /\ ~(\E c \in Cpus : f[c] = t) => Cardinality({c \in Cpus : f[c] = t}) = 0
    BY <2>2, HoldersCounted, Zenon
  <2> QED BY <2>1, <2>3, <2>4
<1>8. (\E c \in Cpus : cur[c] = t) => Cardinality(RunningOn(t)) = 1
  <2>1. PICK f : f = cur
    OBVIOUS
  <2>2. \A c, d \in Cpus : f[c] = t /\ f[d] = t => c = d
    BY <1>4, <2>1
  <2>3. RunningOn(t) = {c \in Cpus : f[c] = t}
    BY <2>1 DEF RunningOn
  <2>4. (\E c \in Cpus : f[c] = t) => Cardinality({c \in Cpus : f[c] = t}) = 1
    BY <2>2, HoldersCounted, Zenon
  <2> QED BY <2>1, <2>3, <2>4
<1>9. onRq[t] <=> Cardinality(SlotsOf(t, queue)) = 1
  <2>1. onRq[t] <=> \E c \in Cpus : t \in ToSet(queue[c])
    BY <1>2, Zenon DEF TaskKept
  <2> QED BY <1>5, <2>1
<1>10. Cardinality(SlotsOf(t, queue)) + Cardinality(InHandOf(t)) = IF state[t] = "RUNNABLE" THEN 1 ELSE 0
  <2>1. /\ ~((\E c \in Cpus : t \in ToSet(queue[c])) /\ (\E c \in Cpus : stolen[c] = t))
        /\ state[t] = "RUNNABLE" <=> \/ \E c \in Cpus : t \in ToSet(queue[c])
                                     \/ \E c \in Cpus : stolen[c] = t
    BY <1>2, Zenon DEF TaskKept
  <2> QED BY <1>5, <1>7, <2>1
<1>11. Cardinality(SlotsOf(t, events)) = IF state[t] \in {"STARTING", "SLEEP"} THEN 1 ELSE 0
  <2>1. state[t] \in {"STARTING", "SLEEP"} <=> \E c \in Cpus : t \in ToSet(events[c])
    BY <1>1, <1>2, Zenon DEF TaskKept
  <2> QED BY <1>6, <2>1
<1>12. state[t] = "ONPROC" => Cardinality(RunningOn(t)) = 1
  BY <1>2, <1>8 DEF TaskKept
<1>13. state[t] \in {"STARTING", "RUNNABLE"} => RunningOn(t) = {}
  BY <1>2 DEF TaskKept, RunningOn
<1> QED BY <1>9, <1>10, <1>11, <1>12, <1>13

\* However wake-ups, context switches and migrations interleave, a task is where
\* its state says, once.
THEOREM TasksHaveOnePlace ==
  ASSUME IoTakesTime
  PROVE  Spec => []OnePlace
BY PlaceInvariance, PlacesCounted, PTL

\* A task that can still run is never dropped: the comment in schedule() is true of
\* every input file in which I/O takes time.
THEOREM NoTaskIsLost ==
  ASSUME IoTakesTime
  PROVE  Spec => []NoTaskLost
<1>1. TypeInv /\ PlaceInv => NoTaskLost
  <2>1. SUFFICES ASSUME TypeInv, PlaceInv, NEW t \in Tasks, state[t] \in {"RUNNABLE", "ONPROC"}
                 PROVE  SlotsOf(t, queue) # {} \/ RunningOn(t) # {} \/ InHandOf(t) # {}
    BY DEF NoTaskLost
  <2>2. TaskKept(t)
    BY <2>1 DEF PlaceInv
  <2>3. CASE \E c \in Cpus : t \in ToSet(queue[c])
    <3>1. PICK c \in Cpus : t \in ToSet(queue[c])
      BY <2>3
    <3>2. queue[c] \in Seq(Tasks) /\ NoRepeat(queue[c])
      BY <2>1 DEF TypeInv, TypeOK, PlaceInv, ListsKept
    <3>3. PICK i \in 1..Len(queue[c]) : queue[c][i] = t
      BY <3>1, <3>2, ElementsAt
    <3>4. i \in 1..NrTasks /\ i <= Len(queue[c])
      BY <3>2, <3>3, NoLongerThanTasks, SchedSimAssumption
    <3>5. <<c, i>> \in SlotsOf(t, queue)
      BY <3>3, <3>4 DEF SlotsOf
    <3> QED BY <3>5
  <2>4. CASE ~(\E c \in Cpus : t \in ToSet(queue[c]))
    <3>1. (\E c \in Cpus : cur[c] = t) \/ (\E c \in Cpus : stolen[c] = t)
      BY <2>1, <2>2, <2>4, Zenon DEF TaskKept
    <3> QED BY <3>1 DEF RunningOn, InHandOf
  <2> QED BY <2>3, <2>4
<1> QED BY <1>1, PlaceInvariance, PTL

\* nr_runnable counts the queue and the task on the processor: it is safe for
\* load_balance to steal where it is large, and for the vote to look at it.
THEOREM RunnableTasksCounted ==
  ASSUME IoTakesTime
  PROVE  Spec => []RunnableCount
<1>1. TypeInv /\ PlaceInv => RunnableCount
  BY DEF PlaceInv, ThreadKept, Busy, OnProc, RunnableCount
<1> QED BY <1>1, PlaceInvariance, PTL

\* None of the "Critical error" exits, and no theft from an empty queue.
THEOREM NeverAborts ==
  ASSUME IoTakesTime
  PROVE  Spec => []NoAbort
<1>1. TypeInv /\ PlaceInv => NoAbort
  BY DEF PlaceInv, ThreadKept, NoAbort
<1> QED BY <1>1, PlaceInvariance, PTL

\* No event is left behind, though only the first of a list is looked at, and only
\* in the very step it is for.
THEOREM EventsFire ==
  ASSUME IoTakesTime
  PROVE  Spec => []NoOverdueEvent
<1>1. TypeInv /\ PlaceInv => NoOverdueEvent
  <2>1. SUFFICES ASSUME TypeInv, PlaceInv, NEW c \in Cpus, NEW i \in 1..Len(events[c])
                 PROVE  timeout[events[c][i]] >= Earliest(c)
    BY DEF NoOverdueEvent, Earliest
  <2>2. events[c] \in Seq(Tasks)
    BY <2>1 DEF TypeInv, TypeOK
  <2>3. events[c][i] \in ToSet(events[c])
    BY <2>2, ElementsAt
  <2> QED BY <2>1, <2>3 DEF PlaceInv, ThreadKept
<1> QED BY <1>1, PlaceInvariance, PTL

-----------------------------------------------------------------------------
(* The vote that ends the simulation *)

Voting == {"count", "wait1"}
Voted == {c \in Cpus : pc[c] = "wait1" /\ HasCompleted(c)}

\* Between the barriers cpus_completed is the number of CPUs that have voted to
\* stop, CPU 0 having reset it; and once all have, no thread does anything but leave
\* its loop, so that what they voted on stays true.
VoteInv ==
    /\ pc[0] = "wait0" => completed = 0
    /\ (\E c \in Cpus : pc[c] \in Voting) => completed = Cardinality(Voted)
    /\ completed >= NrCpus =>
         \A c \in Cpus : HasCompleted(c) /\ pc[c] \in {"wait1", "next", "exit"}

\* What SyncCpus promises, said of the threads of the simulator: they vote together,
\* and leave the loop for one of two reasons.
VotesTogether == \A c, d \in Cpus : pc[c] \in Voting => pc[d] \in Voting
ExitReason == \A c \in Cpus : pc[c] = "exit" => completed >= NrCpus \/ step[c] >= MaxSteps

LEMMA VotesTogetherHolds == Spec => [](VotesTogether /\ ExitReason)
<1>1. TypeInv /\ SyncTheorems!IInv => VotesTogether /\ ExitReason
  <2>1. SUFFICES ASSUME TypeInv, SyncTheorems!IInv PROVE VotesTogether /\ ExitReason
    OBVIOUS
  <2>2. Cpus = SyncTheorems!Cpus
    BY DEF Cpus, SyncTheorems!Cpus
  <2>3. /\ \A c, d \in Cpus : syncPc[c] \in Voting => syncPc[d] \in Voting
        /\ \A c \in Cpus : syncPc[c] = "exit" => completed >= NrCpus \/ step[c] >= MaxSteps
    BY <2>1, <2>2 DEF SyncTheorems!IInv, SyncTheorems!VotesTogether, SyncTheorems!ExitReason,
                      SyncTheorems!Voting, Voting
  <2>4. ASSUME NEW c \in Cpus
        PROVE  /\ syncPc[c] \in Voting <=> pc[c] \in Voting
               /\ pc[c] = "exit" => syncPc[c] = "exit"
    <3>1. syncPc[c] = SyncPlace(pc[c])
      BY DEF syncPc
    <3> QED BY <3>1 DEF SyncPlace, Voting, StepPlaces, LbPlaces
  <2> QED BY <2>3, <2>4 DEF VotesTogether, ExitReason
<1> QED BY <1>1, ThreadsFollowSync, TypeInvariance, PTL

LEMMA CpusCounted == IsFiniteSet(Cpus) /\ Cardinality(Cpus) = NrCpus
<1>1. NrCpus - 1 \in Int /\ 0 \in Int /\ ~(0 > NrCpus - 1) /\ (NrCpus - 1) - 0 + 1 = NrCpus
  BY NrCpusAssumption
<1>2. PICK n \in Int : n = NrCpus - 1
  BY <1>1
<1>3. IsFiniteSet(0..n) /\ Cardinality(0..n) = IF 0 > n THEN 0 ELSE n - 0 + 1
  BY FS_Interval
<1> QED BY <1>1, <1>2, <1>3 DEF Cpus

\* The steps of a thread that are no part of the vote.
LEMMA OutsideTheVote ==
  ASSUME TypeInv, NEW c \in Cpus, Thread(c), ~Count(c), ~SyncAlone(c), ~LoopTest(c)
  PROVE  /\ pc[c] \notin Voting \cup {"wait0", "next", "exit"}
         /\ pc'[c] \notin Voting \cup {"next", "exit"}
         /\ \/ pc'[c] # "wait0" /\ completed' = completed
            \/ pc'[c] = "wait0" /\ completed' = CompletedAtArrival(c)
<1>1. pc \in [Cpus -> PcPlaces]
  BY DEF TypeInv, TypeOK
<1> USE DEF Voting
<1>2. CASE FirstPick(c)
  BY <1>1, <1>2 DEF FirstPick
<1>3. CASE ProcessEvents(c)
  BY <1>1, <1>3 DEF ProcessEvents, EventsDone, NewTask, AwakeTask, CompleteAwake, Wake, TakesEvent,
                    threadVars
<1>4. CASE SchedulerTick(c)
  BY <1>1, <1>4 DEF SchedulerTick, TickIdle, TickRun, TickComplete, TickSleep, ChargeTick
<1>5. CASE LoadBalance(c)
  BY <1>1, <1>5 DEF LoadBalance, LbSkip, LbStart, LbScan, LbBalanced, LbNeither, LbChoose, LockLower,
                    UnlockOwn, LockHigher, LockOwn, LockStep, Steal, LbStale, Move, EndTrial, LbFinish
<1>6. CASE Schedule(c)
  BY <1>1, <1>6 DEF Schedule, SchedKeep, SchedSwitch
<1>7. CASE Arrive(c)
  BY <1>1, <1>7 DEF Arrive
<1> QED BY <1>2, <1>3, <1>4, <1>5, <1>6, <1>7 DEF Thread, SynchronizeCpus

LEMMA InitVoteInv == Init => VoteInv
  BY NrCpusAssumption DEF Init, VoteInv, Voting, Cpus

LEMMA ThreadVoteInv ==
  ASSUME TypeInv, VotesTogether, VoteInv, NEW c \in Cpus, Thread(c)
  PROVE  VoteInv'
<1>1. /\ pc \in [Cpus -> PcPlaces] /\ pc' \in [Cpus -> PcPlaces]
      /\ completed \in Nat /\ completed' \in Nat
      /\ NrCpus \in Nat \ {0} /\ 0 \in Cpus
  <2>1. Next
    BY DEF Next
  <2>2. TypeInv'
    BY <2>1, NextTypeInv
  <2>3. pc' \in [Cpus -> PcPlaces] /\ completed' \in Nat
    BY <2>2 DEF TypeInv, TypeOK
  <2>4. pc \in [Cpus -> PcPlaces] /\ completed \in Nat
    BY DEF TypeInv, TypeOK
  <2>5. NrCpus \in Nat \ {0} /\ 0 \in Cpus
    BY NrCpusAssumption DEF Cpus
  <2> QED BY <2>3, <2>4, <2>5
<1>2. \A d \in Cpus : d # c => pc'[d] = pc[d]
  BY OthersUntouched
<1>3. ASSUME ~Count(c), ~SyncAlone(c), ~LoopTest(c) PROVE VoteInv'
  <2>1. /\ pc[c] \notin Voting \cup {"wait0", "next", "exit"}
        /\ pc'[c] \notin Voting \cup {"next", "exit"}
        /\ \/ pc'[c] # "wait0" /\ completed' = completed
           \/ pc'[c] = "wait0" /\ completed' = CompletedAtArrival(c)
    BY <1>3, OutsideTheVote
  <2>2. completed < NrCpus
    BY <1>1, <2>1 DEF VoteInv, Voting
  <2>3. completed' < NrCpus
    BY <1>1, <2>1, <2>2 DEF CompletedAtArrival
  <2>4. pc'[0] = "wait0" => completed' = 0
    <3>1. CASE c = 0
      BY <2>1, <3>1 DEF CompletedAtArrival
    <3>2. CASE c # 0
      BY <1>1, <1>2, <2>1, <3>2 DEF CompletedAtArrival, VoteInv
    <3> QED BY <3>1, <3>2
  <2>5. ~\E d \in Cpus : pc'[d] \in Voting
    BY <1>2, <2>1 DEF VotesTogether
  <2> QED BY <1>1, <2>2, <2>3, <2>4, <2>5 DEF VoteInv
<1>4. CASE Count(c)
  <2>1. /\ pc[c] = "count" /\ pc' = [pc EXCEPT ![c] = "wait1"]
        /\ completed' = IF HasCompleted(c) THEN completed + 1 ELSE completed
        /\ UNCHANGED <<nrun, events>>
    BY <1>4 DEF Count, rqVars, eventVars
  <2>2. \A d \in Cpus : HasCompleted(d)' <=> HasCompleted(d)
    BY <2>1 DEF HasCompleted
  <2>3. completed < NrCpus /\ completed = Cardinality(Voted)
    BY <1>1, <2>1 DEF VoteInv, Voting
  <2>4. pc'[0] # "wait0"
    BY <1>1, <2>1 DEF VotesTogether, Voting
  <2>5. completed' = Cardinality(Voted')
    <3>1. IsFiniteSet(Voted)
      <4>1. IsFiniteSet(Cpus) /\ Voted \in SUBSET Cpus
        BY CpusCounted DEF Voted
      <4> QED BY <4>1, FS_Subset
    <3>2. CASE HasCompleted(c)
      <4>1. Voted' = Voted \cup {c} /\ c \notin Voted
        BY <1>1, <2>1, <2>2, <3>2 DEF Voted
      <4>2. Cardinality(Voted \cup {c}) = Cardinality(Voted) + 1
        BY <3>1, <4>1, FS_AddElement
      <4> QED BY <2>1, <2>3, <3>2, <4>1, <4>2
    <3>3. CASE ~HasCompleted(c)
      <4>1. Voted' = Voted
        BY <1>1, <2>1, <2>2, <3>3 DEF Voted
      <4> QED BY <2>1, <2>3, <3>3, <4>1
    <3> QED BY <3>2, <3>3
  <2>6. ASSUME completed' >= NrCpus
        PROVE  \A d \in Cpus : HasCompleted(d)' /\ pc'[d] \in {"wait1", "next", "exit"}
    <3>1. PICK V : V = Voted'
      OBVIOUS
    <3>2. V \subseteq Cpus /\ \A d \in V : HasCompleted(d)' /\ pc'[d] = "wait1"
      BY <3>1 DEF Voted
    <3>3. V = Cpus
      <4>1. IsFiniteSet(Cpus) /\ Cardinality(Cpus) = NrCpus
        BY CpusCounted
      <4>2. Cardinality(V) <= Cardinality(Cpus) /\ Cardinality(V) \in Nat
        BY <3>2, <4>1, FS_Subset, FS_CardinalityType
      <4>3. Cardinality(V) = Cardinality(Cpus)
        BY <1>1, <2>5, <2>6, <3>1, <4>1, <4>2
      <4> QED BY <3>2, <4>1, <4>3, FS_Subset
    <3> QED BY <3>2, <3>3
  <2> QED BY <2>4, <2>5, <2>6 DEF VoteInv
<1>5. CASE SyncAlone(c)
  <2>1. /\ pc[c] = "sync" /\ pc' = [pc EXCEPT ![c] = "next"] /\ NrCpus = 1
        /\ completed' = IF HasCompleted(c) THEN 1 ELSE 0
        /\ UNCHANGED <<nrun, events>>
    BY <1>5 DEF SyncAlone, rqVars, eventVars
  <2>2. Cpus = {c}
    BY <2>1 DEF Cpus
  <2>3. pc'[c] = "next" /\ 0 = c
    BY <1>1, <2>1, <2>2
  <2>4. HasCompleted(c)' <=> HasCompleted(c)
    BY <2>1 DEF HasCompleted
  <2> QED BY <2>1, <2>2, <2>3, <2>4 DEF VoteInv, Voting
<1>6. CASE LoopTest(c)
  <2>1. /\ pc[c] \in {"loop", "next"}
        /\ pc'[c] = IF completed < NrCpus /\ step'[c] < MaxSteps THEN "tick" ELSE "exit"
        /\ UNCHANGED <<completed, nrun, events>>
    BY <1>1, <1>6 DEF LoopTest, rqVars, eventVars, TypeInv, TypeOK
  <2>2. \A d \in Cpus : HasCompleted(d)' <=> HasCompleted(d)
    BY <2>1 DEF HasCompleted
  <2>3. ~\E d \in Cpus : pc'[d] \in Voting
    BY <1>2, <2>1 DEF VotesTogether, Voting
  <2>4. pc'[0] = "wait0" => completed' = 0
    BY <1>1, <1>2, <2>1 DEF VoteInv
  <2>5. ASSUME completed >= NrCpus
        PROVE  \A d \in Cpus : HasCompleted(d)' /\ pc'[d] \in {"wait1", "next", "exit"}
    BY <1>1, <1>2, <2>1, <2>2, <2>5 DEF VoteInv
  <2> QED BY <2>1, <2>3, <2>4, <2>5 DEF VoteInv
<1> QED BY <1>3, <1>4, <1>5, <1>6

LEMMA NextVoteInv == TypeInv /\ VotesTogether /\ VoteInv /\ [Next]_vars => VoteInv'
<1>1. SUFFICES ASSUME TypeInv, VotesTogether, VoteInv, [Next]_vars PROVE VoteInv'
  OBVIOUS
<1>2. /\ pc \in [Cpus -> PcPlaces] /\ completed \in Nat /\ NrCpus \in Nat \ {0} /\ 0 \in Cpus
  BY <1>1, NrCpusAssumption DEF TypeInv, TypeOK, Cpus
<1>3. CASE AddTask \/ CreateThreads
  <2>1. main = "add" /\ UNCHANGED completed
        /\ \A c \in Cpus : pc'[c] \in {pc[c], "boot"}
    BY <1>3 DEF AddTask, CreateThreads, threadVars
  <2>2. \A c \in Cpus : pc[c] = "none"
    BY <1>1, <2>1 DEF TypeInv, ThreadsAfterTasks
  <2> QED BY <1>1, <1>2, <2>1, <2>2 DEF VoteInv, Voting
<1>4. CASE Join \/ UNCHANGED vars
  <2>1. UNCHANGED <<pc, completed, nrun, events>>
    BY <1>4 DEF Join, vars, threadVars, rqVars, eventVars
  <2>2. Voted' = Voted /\ \A c \in Cpus : HasCompleted(c)' <=> HasCompleted(c)
    BY <2>1 DEF Voted, HasCompleted
  <2> QED BY <1>1, <2>1, <2>2 DEF VoteInv
<1>5. CASE Barrier0
  <2>1. /\ \A c \in Cpus : pc[c] = "wait0" /\ pc'[c] = "count"
        /\ UNCHANGED completed
    BY <1>5 DEF Barrier0, Barrier
  <2>2. completed = 0 /\ pc'[0] = "count"
    BY <1>1, <1>2, <2>1 DEF VoteInv
  <2>3. Cardinality(Voted') = 0
    <3>1. PICK V : V = Voted'
      OBVIOUS
    <3>2. V = {}
      BY <2>1, <3>1 DEF Voted
    <3> QED BY <3>1, <3>2, FS_EmptySet
  <2> QED BY <1>2, <2>1, <2>2, <2>3 DEF VoteInv
<1>6. CASE Barrier1
  <2>1. /\ \A c \in Cpus : pc[c] = "wait1" /\ pc'[c] = "next"
        /\ UNCHANGED <<completed, nrun, events>>
    BY <1>6 DEF Barrier1, Barrier, rqVars, eventVars
  <2>2. \A c \in Cpus : HasCompleted(c)' <=> HasCompleted(c)
    BY <2>1 DEF HasCompleted
  <2> QED BY <1>1, <1>2, <2>1, <2>2 DEF VoteInv, Voting
<1> QED BY <1>1, <1>3, <1>4, <1>5, <1>6, ThreadVoteInv DEF Next, Main, Terminated

\* The simulation ends before its last step only when all tasks have completed,
\* though each CPU votes for itself, and none looks at the others' queues.
THEOREM StopsOnlyWhenDone ==
  ASSUME IoTakesTime
  PROVE  Spec => []StopsWhenDone
<1>1. TypeInv /\ PlaceInv /\ VoteInv /\ ExitReason => StopsWhenDone
  <2>1. SUFFICES ASSUME TypeInv, PlaceInv, VoteInv, ExitReason, NEW c \in Cpus,
                        pc[c] = "exit", step[c] < MaxSteps, NEW t \in Tasks
                 PROVE  state[t] = "COMPLETED"
    BY DEF StopsWhenDone
  <2>2. completed >= NrCpus
    BY SMTT(20), <2>1, MaxStepsAssumption DEF ExitReason, TypeInv, TypeOK
  <2>3. \A d \in Cpus : nrun[d] = 0 /\ events[d] = <<>> /\ pc[d] \in {"wait1", "next", "exit"}
    BY <2>1, <2>2 DEF VoteInv, HasCompleted
  <2>4. ASSUME NEW d \in Cpus
        PROVE  t \notin ToSet(queue[d]) /\ t \notin ToSet(events[d]) /\ stolen[d] # t /\ ~OnProc(d)
    <3>1. ThreadKept(d) /\ queue[d] \in Seq(Tasks) /\ events[d] \in Seq(Tasks) /\ t # Idle
      BY <2>1, SchedSimAssumption DEF PlaceInv, TypeInv, TypeOK, Tasks, Idle
    <3>2. Len(queue[d]) \in Nat /\ Busy(d) \in Nat /\ nrun[d] = Len(queue[d]) + Busy(d)
      BY <3>1, LenProperties DEF ThreadKept, Busy
    <3>3. Len(queue[d]) = 0 /\ Busy(d) = 0
      BY <2>3, <3>2
    <3>4. queue[d] = <<>>
      BY <3>1, <3>3, EmptySeq
    <3>5. t \notin ToSet(queue[d]) /\ t \notin ToSet(events[d])
      BY <2>3, <3>1, <3>4, ElementsAt
    <3> QED BY <2>3, <3>1, <3>3, <3>5 DEF ThreadKept, Busy
  <2>5. TaskKept(t) /\ state[t] \in TaskStates /\ main # "add"
    BY <2>1 DEF PlaceInv, TypeInv, TypeOK, ThreadsAfterTasks
  <2>6. state[t] # "RUNNABLE"
    BY <2>4, <2>5, Zenon DEF TaskKept
  <2>7. state[t] \notin {"STARTING", "SLEEP"}
    BY <2>4, <2>5, Zenon DEF TaskKept
  <2>8. state[t] # "ONPROC"
    <3>1. SUFFICES ASSUME state[t] = "ONPROC" PROVE FALSE
      OBVIOUS
    <3>2. PICK d \in Cpus : cur[d] = t
      BY <2>5, <3>1 DEF TaskKept
    <3>3. t # Idle
      BY SchedSimAssumption DEF Tasks, Idle
    <3> QED BY <2>4, <3>1, <3>2, <3>3 DEF OnProc
  <2> QED BY <2>5, <2>6, <2>7, <2>8 DEF TaskStates
<1> QED BY <1>1, InitVoteInv, NextVoteInv, VotesTogetherHolds, PlaceInvariance, PTL DEF Spec

-----------------------------------------------------------------------------
(* Time slices *)

\* In the classes with slices: what remains of the slice of the current task of c.
\* One that is used up, or the task being gone, has a reschedule pending that comes
\* before the next tick.
SliceKept(c) ==
    OnProc(c) => \/ counter[cur[c]] \in 1..Quantum
                 \/ pc[c] \in Leaving /\ resched[c]

\* A task that is queued has its whole slice before it.
SliceInv ==
    conf.sched \in Sliced =>
      /\ \A t \in Tasks : onRq[t] => counter[t] = Quantum
      /\ \A c \in Cpus : SliceKept(c)

\* The current task of d when the thread of c takes a step that is not about it.
LEMMA SliceStays ==
  ASSUME TypeInv, NEW c \in Cpus, NEW d \in Cpus, d # c, Thread(c), SliceKept(d),
         OnProc(d)' => OnProc(d) /\ counter'[cur[d]] = counter[cur[d]]
  PROVE  SliceKept(d)'
<1>1. pc'[d] = pc[d] /\ cur'[d] = cur[d] /\ (resched[d] => resched'[d])
  BY OthersKept
<1> QED BY <1>1 DEF SliceKept

\* The steps that leave queues, processors and slices alone.
LEMMA SlicesStay ==
  ASSUME TypeInv, SliceInv, NEW c \in Cpus, Thread(c), UNCHANGED <<onRq, cur, state, counter>>,
         pc[c] \in Leaving /\ resched[c] => pc'[c] \in Leaving /\ resched'[c]
  PROVE  SliceInv'
<1>1. conf' = conf
  BY MainUntouched
<1>2. \A d \in Cpus : OnProc(d)' <=> OnProc(d)
  BY DEF OnProc
<1>3. SUFFICES ASSUME conf.sched \in Sliced PROVE SliceInv'
  BY <1>1 DEF SliceInv
<1>4. ASSUME NEW d \in Cpus PROVE SliceKept(d)'
  <2>1. SliceKept(d)
    BY <1>3 DEF SliceInv
  <2>2. CASE d = c
    BY <1>2, <2>1, <2>2 DEF SliceKept
  <2>3. CASE d # c
    BY <1>2, <2>1, <2>3, SliceStays
  <2> QED BY <2>2, <2>3
<1> QED BY <1>1, <1>3, <1>4 DEF SliceInv

\* A task that wakes up or arrives from another CPU gets its whole slice.
LEMMA EnqueueSlices ==
  ASSUME TypeInv, PlaceInv, PlaceInv', SliceInv, NEW c \in Cpus, Thread(c), NEW d \in Cpus,
         NEW t \in Tasks, NEW tk, Enqueue(d, t, tk), ~onRq[t], state'[t] = "RUNNABLE", cur' = cur,
         \A u \in Tasks : u # t => state'[u] = state[u],
         pc[c] \in Leaving /\ resched[c] => pc'[c] \in Leaving
  PROVE  SliceInv'
<1>0. /\ conf' = conf /\ counter \in [Tasks -> Int] /\ cur \in [Cpus -> Tasks \cup {Idle}]
      /\ onRq \in [Tasks -> BOOLEAN] /\ resched \in [Cpus -> BOOLEAN]
  BY MainUntouched DEF TypeInv, TypeOK
<1>1. SUFFICES ASSUME conf.sched \in Sliced PROVE SliceInv'
  BY <1>0 DEF SliceInv
<1>2. /\ counter' = [counter EXCEPT ![t] = Quantum] /\ onRq' = [onRq EXCEPT ![t] = TRUE]
      /\ \E b : resched' = [resched EXCEPT ![d] = @ \/ b]
  BY <1>1 DEF Enqueue, CounterWhenQueued
<1>3. ASSUME NEW u \in Tasks, onRq'[u] PROVE counter'[u] = Quantum
  BY <1>0, <1>1, <1>2, <1>3 DEF SliceInv
<1>4. ASSUME NEW e \in Cpus PROVE SliceKept(e)'
  <2>1. SliceKept(e)
    BY <1>1 DEF SliceInv
  <2>2. resched[e] => resched'[e]
    BY <1>0, <1>2
  <2>3. OnProc(e)' => OnProc(e) /\ counter'[cur[e]] = counter[cur[e]]
    <3>1. SUFFICES ASSUME OnProc(e)' PROVE OnProc(e) /\ counter'[cur[e]] = counter[cur[e]]
      OBVIOUS
    <3>2. cur[e] # Idle /\ state'[cur[e]] = "ONPROC" /\ cur[e] \in Tasks
      BY <1>0, <3>1 DEF OnProc
    <3>3. cur[e] # t
      BY <3>2
    <3> QED BY <1>0, <1>2, <3>2, <3>3 DEF OnProc
  <2>4. CASE e = c
    BY <2>1, <2>2, <2>3, <2>4 DEF SliceKept
  <2>5. CASE e # c
    BY <2>1, <2>3, <2>5, SliceStays
  <2> QED BY <2>4, <2>5
<1> QED BY <1>0, <1>1, <1>3, <1>4 DEF SliceInv

\* The head of the queue goes on the processor with the slice it was queued with.
LEMMA FirstPickSlices ==
  ASSUME TypeInv, PlaceInv, SliceInv, NEW c \in Cpus, FirstPick(c)
  PROVE  SliceInv'
<1>0. /\ conf' = conf /\ Thread(c) /\ cur \in [Cpus -> Tasks \cup {Idle}]
      /\ onRq \in [Tasks -> BOOLEAN] /\ state \in [Tasks -> TaskStates]
  BY MainUntouched DEF Thread, TypeInv, TypeOK
<1>1. pc[c] = "pick" /\ UNCHANGED counter
  BY DEF FirstPick
<1>2. CASE queue[c] = <<>>
  BY <1>0, <1>1, <1>2, SlicesStay DEF FirstPick, Leaving, LbPlaces
<1>3. CASE queue[c] # <<>>
  <2>1. PICK t \in Tasks : t = Head(queue[c]) /\ t \in ToSet(queue[c])
    BY <1>3, HeadOfQueue
  <2>2. /\ cur' = [cur EXCEPT ![c] = t] /\ onRq' = [onRq EXCEPT ![t] = FALSE]
        /\ state' = [state EXCEPT ![t] = "ONPROC"]
    BY <1>3, <2>1 DEF FirstPick
  <2>3. onRq[t] /\ \A d \in Cpus : cur[d] # t
    BY <2>1, QueuedOnly
  <2>4. SUFFICES ASSUME conf.sched \in Sliced PROVE SliceInv'
    BY <1>0 DEF SliceInv
  <2>5. ASSUME NEW d \in Cpus PROVE SliceKept(d)'
    <3>1. CASE d = c
      <4>1. counter'[cur'[c]] = Quantum
        BY <1>0, <1>1, <2>2, <2>3, <2>4 DEF SliceInv
      <4> QED BY <3>1, <4>1, QuantumAssumption DEF SliceKept
    <3>2. CASE d # c
      <4>1. cur'[d] = cur[d] /\ cur[d] # t
        BY <1>0, <2>2, <2>3, <3>2
      <4>2. OnProc(d)' => OnProc(d)
        BY <1>0, <2>2, <4>1 DEF OnProc
      <4>3. SliceKept(d)
        BY <2>4 DEF SliceInv
      <4> QED BY <1>0, <1>1, <3>2, <4>2, <4>3, SliceStays
    <3> QED BY <3>1, <3>2
  <2> QED BY <1>0, <1>1, <2>2, <2>4, <2>5 DEF SliceInv
<1> QED BY <1>2, <1>3

\* A tick takes one off the slice, and asks for the switch when that was the last.
LEMMA TickSlices ==
  ASSUME TypeInv, PlaceInv, PlaceInv', SliceInv, NEW c \in Cpus, NEW t \in Tasks,
         TickRun(c, t) \/ TickComplete(c, t) \/ TickSleep(c, t)
  PROVE  SliceInv'
<1>0. /\ conf' = conf /\ Thread(c) /\ cur \in [Cpus -> Tasks \cup {Idle}] /\ t # Idle
      /\ counter \in [Tasks -> Int] /\ state \in [Tasks -> TaskStates]
      /\ pc \in [Cpus -> PcPlaces] /\ resched \in [Cpus -> BOOLEAN]
  <2>1. Thread(c)
    BY DEF Thread, SchedulerTick
  <2>2. t # Idle
    BY SchedSimAssumption DEF Tasks, Idle
  <2> QED BY <2>1, <2>2, MainUntouched DEF TypeInv, TypeOK
<1>1. /\ pc[c] = "tick" /\ cur[c] = t /\ UNCHANGED <<cur, onRq>>
      /\ counter' = [counter EXCEPT ![t] = CounterAfterTick(conf.sched, @)]
  BY DEF TickRun, TickComplete, TickSleep, ChargeTick
<1>2. OnProc(c)
  BY <1>0, <1>1 DEF PlaceInv, ThreadKept, Leaving, LbPlaces
<1>3. ~onRq[t] /\ \A d \in Cpus : d # c => cur[d] # t
  BY <1>1, <1>2, OnProcOnly
<1>4. \A u \in Tasks : u # t => state'[u] = state[u] /\ counter'[u] = counter[u]
  BY <1>0, <1>1 DEF TickRun, TickComplete, TickSleep
<1>5. SUFFICES ASSUME conf.sched \in Sliced PROVE SliceInv'
  BY <1>0 DEF SliceInv
<1>6. ASSUME NEW d \in Cpus, d # c PROVE SliceKept(d)'
  <2>1. cur[d] # t /\ (cur[d] # Idle => cur[d] \in Tasks)
    BY <1>0, <1>3, <1>6
  <2>2. OnProc(d)' => OnProc(d) /\ counter'[cur[d]] = counter[cur[d]]
    BY <1>1, <1>4, <2>1 DEF OnProc
  <2>3. SliceKept(d)
    BY <1>5 DEF SliceInv
  <2> QED BY <1>0, <1>6, <2>2, <2>3, SliceStays
<1>7. SliceKept(c)'
  <2>1. CASE TickRun(c, t)
    <3>1. counter[t] \in 1..Quantum
      BY <1>1, <1>2, <1>5 DEF SliceInv, SliceKept, Leaving, LbPlaces
    <3>2. counter'[t] = counter[t] - 1
      BY <1>0, <1>1, <1>5 DEF CounterAfterTick, Counting
    <3>3. pc'[c] = "events" /\ (counter[t] - 1 <= 0 => resched'[c])
      <4>1. /\ pc' = [pc EXCEPT ![c] = "events"]
            /\ resched' = [resched EXCEPT ![c] = @ \/ CounterExpires(conf.sched, counter[t])]
        BY <2>1 DEF TickRun
      <4>2. counter[t] - 1 <= 0 => CounterExpires(conf.sched, counter[t])
        BY <1>5 DEF CounterExpires, Counting
      <4> QED BY <1>0, <4>1, <4>2
    <3>4. CASE counter[t] - 1 <= 0
      BY <3>3, <3>4 DEF SliceKept, Leaving
    <3>5. CASE ~(counter[t] - 1 <= 0)
      <4>1. counter'[t] \in 1..Quantum
        BY <1>0, <3>1, <3>2, <3>5, QuantumAssumption
      <4> QED BY <1>1, <4>1 DEF SliceKept
    <3> QED BY <3>4, <3>5
  <2>2. CASE TickComplete(c, t) \/ TickSleep(c, t)
    <3>1. state'[t] # "ONPROC"
      BY <1>0, <2>2 DEF TickComplete, TickSleep
    <3> QED BY <1>1, <3>1 DEF SliceKept, OnProc
  <2> QED BY <2>1, <2>2
<1>8. \A u \in Tasks : onRq'[u] => counter'[u] = Quantum
  BY <1>1, <1>3, <1>4, <1>5 DEF SliceInv
<1> QED BY <1>0, <1>5, <1>6, <1>7, <1>8 DEF SliceInv

\* schedule(): the task that is put back gets a whole slice, and the one that comes
\* next had one.
LEMMA SwitchSlices ==
  ASSUME TypeInv, PlaceInv, PlaceInv', SliceInv, NEW c \in Cpus, SchedSwitch(c)
  PROVE  SliceInv'
<1>0. /\ conf' = conf /\ Thread(c) /\ cur \in [Cpus -> Tasks \cup {Idle}]
      /\ queue \in [Cpus -> Seq(Tasks)] /\ onRq \in [Tasks -> BOOLEAN] /\ pc \in [Cpus -> PcPlaces]
      /\ counter \in [Tasks -> Int] /\ state \in [Tasks -> TaskStates]
  <2>1. Thread(c)
    BY DEF Thread, Schedule
  <2> QED BY <2>1, MainUntouched DEF TypeInv, TypeOK
<1>1. SUFFICES ASSUME conf.sched \in Sliced PROVE SliceInv'
  BY <1>0 DEF SliceInv
<1>2. PICK prev, again, q, next, rest : Switched(c, prev, again, q, next, rest)
  BY SwitchHappens
<1>3. /\ prev \in Tasks \cup {Idle} /\ again \in BOOLEAN /\ prev = cur[c]
      /\ onRq' = [t \in Tasks |-> t # next /\ (onRq[t] \/ (again /\ t = prev))]
      /\ next # Idle => next \in Tasks
      /\ \A d \in Cpus : d # c => cur'[d] = cur[d]
      /\ cur'[c] = next /\ ticks' = ticks
  BY <1>2, Zenon DEF Switched
<1>4. /\ again => prev \in Tasks /\ ~onRq[prev] /\ \A d \in Cpus : d # c => cur[d] # prev
      /\ next # Idle /\ next # prev => onRq[next] /\ \A d \in Cpus : cur[d] # next
      /\ next # Idle /\ next = prev => again
  BY <1>2, Zenon DEF Switched
<1>5. counter' = [t \in Tasks |-> IF again /\ t = prev THEN Quantum ELSE counter[t]]
  <2>1. counter' = [t \in Tasks |-> IF again /\ t = prev
                                    THEN CounterWhenQueued(conf.sched, counter[t])
                                    ELSE counter[t]]
    BY <1>2, Zenon DEF Switched
  <2> QED BY <1>1, <2>1 DEF CounterWhenQueued
<1>6. \A t \in Tasks : onRq'[t] => counter'[t] = Quantum
  BY <1>1, <1>3, <1>5 DEF SliceInv
<1>7. ASSUME NEW d \in Cpus PROVE SliceKept(d)'
  <2>1. SliceKept(d)
    BY <1>1 DEF SliceInv
  <2>2. CASE d = c
    <3>1. next # Idle => counter'[next] = Quantum
      BY <1>1, <1>3, <1>4, <1>5 DEF SliceInv
    <3> QED BY <1>3, <2>2, <3>1, QuantumAssumption DEF SliceKept, OnProc
  <2>3. CASE d # c
    <3>1. cur'[d] = cur[d] /\ (cur[d] # Idle => cur[d] \in Tasks)
      BY <1>0, <1>3, <2>3
    <3>2. ASSUME cur[d] # Idle
          PROVE  counter'[cur[d]] = counter[cur[d]] /\ (state'[cur[d]] = "ONPROC" => state[cur[d]] = "ONPROC")
      <4>1. cur[d] # next
        BY <1>3, <1>4, <2>3, <3>2
      <4>2. again => cur[d] # prev
        BY <1>4, <2>3
      <4>3. \A u \in Tasks : u # next /\ ~(again /\ u = prev) => state'[u] = state[u]
        <5>1. /\ \A u \in Tasks : u # next /\ u # prev => state'[u] = state[u]
              /\ ~again /\ prev \in Tasks => state'[prev] = state[prev]
          BY <1>2, Zenon DEF Switched
        <5> QED BY <5>1
      <4> QED BY <1>5, <3>1, <3>2, <4>1, <4>2, <4>3
    <3>3. OnProc(d)' => OnProc(d) /\ counter'[cur[d]] = counter[cur[d]]
      BY <3>1, <3>2 DEF OnProc
    <3> QED BY <1>0, <2>1, <2>3, <3>3, SliceStays
  <2> QED BY <2>2, <2>3
<1> QED BY <1>0, <1>1, <1>6, <1>7 DEF SliceInv

LEMMA ThreadSlices ==
  ASSUME TypeInv, PlaceInv, PlaceInv', SliceInv, NEW c \in Cpus, Thread(c)
  PROVE  SliceInv'
<1>0. /\ onRq \in [Tasks -> BOOLEAN] /\ state \in [Tasks -> TaskStates] /\ pc \in [Cpus -> PcPlaces]
      /\ cur \in [Cpus -> Tasks \cup {Idle}] /\ (pc[c] \in PeerPlaces => peer[c] \in Cpus)
  BY DEF TypeInv, TypeOK, PeerChosen
<1>1. ASSUME NEW t \in Tasks, NewTask(c, t) \/ AwakeTask(c, t) PROVE SliceInv'
  <2>1. PICK i : Wake(c, t, i)
    BY <1>1 DEF NewTask, AwakeTask
  <2>2. ~onRq[t]
    <3>1. TakesEvent(c, t)
      BY <1>1 DEF NewTask, AwakeTask
    <3> QED BY <3>1, EventTaken
  <2>3. /\ Enqueue(c, t, ticks') /\ state' = [state EXCEPT ![t] = "RUNNABLE"] /\ cur' = cur
        /\ pc' = IF IsIoPhase(i) THEN [pc EXCEPT ![c] = "abort"] ELSE pc
    BY <2>1 DEF Wake
  <2>4. pc'[c] # "abort"
    BY DEF PlaceInv, ThreadKept
  <2>5. pc'[c] = pc[c]
    BY <1>0, <2>3, <2>4
  <2>6. PICK tk : tk = ticks'
    OBVIOUS
  <2> QED BY <1>0, <2>2, <2>3, <2>5, <2>6, EnqueueSlices
<1>2. ASSUME NEW t \in Tasks, CompleteAwake(c, t) PROVE SliceInv'
  <2>1. /\ state' = [state EXCEPT ![t] = "COMPLETED"] /\ UNCHANGED <<conf, pc, onRq, cur, counter, resched>>
    BY <1>2 DEF CompleteAwake, threadVars, classVars, rqVars
  <2>2. \A d \in Cpus : OnProc(d)' => OnProc(d)
    BY <1>0, <2>1 DEF OnProc
  <2> QED BY <2>1, <2>2 DEF SliceInv, SliceKept
<1>3. CASE EventsDone(c)
  BY <1>0, <1>3, SlicesStay DEF EventsDone, rqVars, classVars, burstVars, Leaving, LbPlaces
<1>4. CASE SchedulerTick(c)
  <2>1. CASE TickIdle(c)
    BY <2>1, SlicesStay DEF TickIdle, rqVars, classVars, burstVars, Leaving, LbPlaces
  <2> QED BY <1>4, <2>1, TickSlices DEF SchedulerTick
<1>5. CASE Steal(c)
  <2>1. UNCHANGED <<conf, cur, state, counter, resched>> /\ pc[c] = "check" /\ pc'[c] \in {"move", "abort"}
    BY <1>0, <1>5 DEF Steal, burstVars
  <2>2. pc'[c] \in Leaving
    BY <2>1 DEF PlaceInv, ThreadKept, Leaving, LbPlaces
  <2>3. \A u \in Tasks : onRq'[u] => onRq[u]
    BY <1>0, <1>5 DEF Steal
  <2>4. ASSUME NEW d \in Cpus, SliceKept(d) PROVE SliceKept(d)'
    <3>1. d # c => pc'[d] = pc[d]
      BY OthersKept
    <3> QED BY <2>1, <2>2, <2>4, <3>1 DEF SliceKept, OnProc
  <2> QED BY <2>1, <2>3, <2>4 DEF SliceInv
<1>6. ASSUME NEW t \in Tasks, Move(c, t) PROVE SliceInv'
  <2>1. Target(c) \in Cpus
    BY <1>0, <1>6 DEF Move, Target, PeerPlaces
  <2>2. ~onRq[t] /\ state[t] = "RUNNABLE"
    <3>1. stolen[c] = t /\ TaskKept(t)
      BY <1>6 DEF Move, PlaceInv
    <3> QED BY <3>1, Zenon DEF TaskKept
  <2>3. Enqueue(Target(c), t, ticks) /\ UNCHANGED <<state, cur>>
    BY <1>6 DEF Move
  <2>4. pc'[c] \in Leaving
    BY <1>0, <1>6 DEF Move, EndTrial, LbFinish, Leaving, LbPlaces
  <2>5. PICK tk : tk = ticks
    OBVIOUS
  <2>6. PICK d \in Cpus : d = Target(c)
    BY <2>1
  <2> QED BY <2>2, <2>3, <2>4, <2>5, <2>6, EnqueueSlices
<1>7. CASE LoadBalance(c) /\ ~Steal(c) /\ ~\E t \in Tasks : Move(c, t)
  <2>1. UNCHANGED <<onRq, cur, state, counter, resched>>
    BY <1>7 DEF LoadBalance, LbSkip, LbStart, LbScan, LbBalanced, LbNeither, LbChoose, LockLower,
                UnlockOwn, LockHigher, LockOwn, LockStep, LbStale, rqVars, classVars, burstVars
  <2>2. pc'[c] \in Leaving
    BY <1>0, <1>7 DEF LoadBalance, LbSkip, LbStart, LbScan, LbBalanced, LbNeither, LbChoose, LockLower,
                UnlockOwn, LockHigher, LockOwn, LockStep, LbStale, EndTrial, LbFinish, Leaving, LbPlaces
  <2> QED BY <2>1, <2>2, SlicesStay
<1>8. CASE SchedKeep(c)
  BY <1>8, SlicesStay DEF SchedKeep, rqVars, classVars, burstVars
<1>9. CASE LoopTest(c) \/ SynchronizeCpus(c)
  BY <1>9, SlicesStay DEF LoopTest, SynchronizeCpus, SyncAlone, Arrive, Count, rqVars, classVars,
                          burstVars, Leaving, LbPlaces
<1> QED BY <1>1, <1>2, <1>3, <1>4, <1>5, <1>6, <1>7, <1>8, <1>9, FirstPickSlices, SwitchSlices
        DEF Thread, ProcessEvents, Schedule

LEMMA NextSliceInv ==
  ASSUME TypeInv, PlaceInv, PlaceInv', SliceInv, [Next]_vars
  PROVE  SliceInv'
<1>1. CASE AddTask
  <2>1. main' = "add" /\ conf' = conf
    BY <1>1 DEF AddTask
  <2>2. \A t \in Tasks : state'[t] = "STARTING"
    BY <2>1 DEF PlaceInv, TaskKept
  <2>3. ASSUME NEW t \in Tasks, onRq'[t] PROVE FALSE
    <3>1. TaskKept(t)'
      BY DEF PlaceInv
    <3>2. state'[t] = "RUNNABLE"
      BY <2>3, <3>1, Zenon DEF TaskKept
    <3> QED BY <2>2, <3>2
  <2>4. \A c \in Cpus : ~OnProc(c)'
    <3>1. cur \in [Cpus -> Tasks \cup {Idle}] /\ cur' = cur
      BY <1>1 DEF TypeInv, TypeOK, AddTask, rqVars
    <3> QED BY <2>2, <3>1 DEF OnProc
  <2> QED BY <2>3, <2>4 DEF SliceInv, SliceKept
<1>2. CASE CreateThreads \/ Join \/ Barrier0 \/ Barrier1 \/ UNCHANGED vars
  <2>1. UNCHANGED <<conf, onRq, cur, state, counter, resched>>
    BY <1>2 DEF CreateThreads, Join, Barrier0, Barrier1, Barrier, vars, rqVars, classVars, burstVars
  <2>2. \A c \in Cpus : pc[c] \in Leaving => pc'[c] = pc[c]
    BY <1>2, QuietSteps DEF Main, Leaving, LbPlaces
  <2>3. ASSUME NEW c \in Cpus, SliceKept(c) PROVE SliceKept(c)'
    BY <2>1, <2>2, <2>3 DEF SliceKept, OnProc
  <2> QED BY <2>1, <2>3 DEF SliceInv
<1> QED BY <1>1, <1>2, ThreadSlices DEF Next, Main, Terminated

LEMMA SliceInvariance ==
  ASSUME IoTakesTime
  PROVE  Spec => []SliceInv
<1>1. Init => SliceInv
  BY DEF Init, SliceInv, SliceKept, OnProc
<1>2. TypeInv /\ PlaceInv /\ PlaceInv' /\ SliceInv /\ [Next]_vars => SliceInv'
  BY NextSliceInv
<1> QED BY <1>1, <1>2, PlaceInvariance, PTL DEF Spec

\* No task starts a tick with its slice used up, whatever has queued, moved or
\* preempted it since it got the slice.
THEOREM QuantumIsRespected ==
  ASSUME IoTakesTime
  PROVE  Spec => []QuantumRespected
<1>1. TypeInv /\ PlaceInv /\ SliceInv => QuantumRespected
  <2>1. SUFFICES ASSUME TypeInv, PlaceInv, SliceInv, conf.sched \in Sliced, NEW c \in Cpus,
                        pc[c] = "tick", cur[c] # Idle
                 PROVE  counter[cur[c]] \in 1..Quantum
    BY DEF QuantumRespected
  <2>2. pc[c] \notin Leaving
    BY <2>1 DEF Leaving, LbPlaces
  <2>3. OnProc(c)
    BY <2>1, <2>2 DEF PlaceInv, ThreadKept
  <2> QED BY <2>1, <2>2, <2>3 DEF SliceInv, SliceKept
<1> QED BY <1>1, PlaceInvariance, SliceInvariance, PTL

-----------------------------------------------------------------------------
(* Preemption *)

\* The field by which the preemptive SJF and PRIO compare tasks.
RankOf == Key(conf.sched, PrioOf, ticks)

\* The first of a run queue is the best one, and it is no better than the task on
\* the processor, or a reschedule is pending.
RankKept(c) ==
    /\ Sorted(queue[c], RankOf)
    /\ OnProc(c) /\ ~resched[c] => \A t \in ToSet(queue[c]) : RankOf[t] >= RankOf[cur[c]]

Ranked == conf.preemptive /\ conf.sched \in {"SJF", "PRIO"}

RankInv == Ranked => \A c \in Cpus : RankKept(c)

LEMMA RankTypes ==
  /\ TypeInv => RankOf \in [Tasks -> Int]
  /\ TypeInv' => RankOf' \in [Tasks -> Int]
<1>1. ASSUME NEW k \in Configurations, NEW tk \in [Tasks -> Int]
      PROVE  Key(k.sched, [t \in Tasks |-> k.task[t].prio], tk) \in [Tasks -> Int]
  <2>1. \A t \in Tasks : k.task[t].prio \in Int
    BY ConfigurationsAssumption DEF IsConfiguration
  <2> QED BY <2>1 DEF Key
<1>2. TypeInv => RankOf \in [Tasks -> Int]
  <2>1. TypeInv => conf \in Configurations /\ ticks \in [Tasks -> Int]
    BY DEF TypeInv, TypeOK
  <2> QED BY <1>1, <2>1 DEF RankOf, PrioOf
<1>3. TypeInv' => RankOf' \in [Tasks -> Int]
  <2>1. TypeInv' => conf' \in Configurations /\ ticks' \in [Tasks -> Int]
    BY DEF TypeInv, TypeOK
  <2> QED BY <1>1, <2>1 DEF RankOf, PrioOf
<1> QED BY <1>2, <1>3

\* Only SJF looks at the remaining ticks.
LEMMA RankMoves ==
  ASSUME TypeInv, TypeInv', conf' = conf, NEW t \in Tasks
  PROVE  /\ ticks'[t] = ticks[t] => RankOf[t]' = RankOf[t]
         /\ ticks'[t] <= ticks[t] => RankOf[t]' <= RankOf[t]
<1>1. PrioOf' = PrioOf
  BY DEF PrioOf
<1>2. RankOf[t] \in Int /\ RankOf[t]' \in Int
  <2>1. PICK r, s : r = RankOf /\ s = RankOf'
    OBVIOUS
  <2>2. r \in [Tasks -> Int] /\ s \in [Tasks -> Int]
    BY <2>1, RankTypes
  <2> QED BY <2>1, <2>2
<1>3. CASE conf.sched \in ByPrio
  <2>1. RankOf[t]' = RankOf[t]
    BY <1>1, <1>3 DEF RankOf, Key
  <2> QED BY <1>2, <2>1
<1>4. CASE conf.sched \notin ByPrio
  BY <1>4 DEF RankOf, Key
<1> QED BY <1>3, <1>4

\* A CPU whose queue at most gets shorter, and whose current task at most better.
LEMMA RankStays ==
  ASSUME TypeInv, TypeInv', NEW d \in Cpus, RankKept(d), conf' = conf, cur'[d] = cur[d],
         ToSet(queue'[d]) \subseteq ToSet(queue[d]), Sorted(queue'[d], RankOf),
         resched[d] => resched'[d],
         OnProc(d)' => OnProc(d) /\ ticks'[cur[d]] <= ticks[cur[d]],
         \A t \in ToSet(queue[d]) : ticks'[t] = ticks[t]
  PROVE  RankKept(d)'
<1>1. queue[d] \in Seq(Tasks) /\ queue'[d] \in Seq(Tasks) /\ (cur[d] # Idle => cur[d] \in Tasks)
  BY DEF TypeInv, TypeOK
<1>2. ToSet(queue[d]) \subseteq Tasks
  BY <1>1, ElementsAt
<1>3. PICK r : r = RankOf
  OBVIOUS
<1>4. PICK s : s = RankOf'
  OBVIOUS
<1>5. r \in [Tasks -> Int] /\ s \in [Tasks -> Int]
  BY <1>3, <1>4, RankTypes
<1>6. /\ \A t \in ToSet(queue'[d]) : s[t] = r[t]
      /\ OnProc(d)' => s[cur[d]] <= r[cur[d]] /\ cur[d] \in Tasks
  <2>1. ASSUME NEW t \in Tasks
        PROVE  (ticks'[t] = ticks[t] => s[t] = r[t]) /\ (ticks'[t] <= ticks[t] => s[t] <= r[t])
    BY <1>3, <1>4, RankMoves
  <2>2. OnProc(d)' => cur[d] \in Tasks
    BY <1>1 DEF OnProc
  <2> QED BY <1>2, <2>1, <2>2
<1>7. Sorted(queue'[d], s)
  BY <1>1, <1>3, <1>6, SortedElsewhere
<1>8. ASSUME OnProc(d)', ~resched'[d], NEW t \in ToSet(queue'[d]) PROVE s[t] >= s[cur'[d]]
  <2>1. r[t] >= r[cur[d]]
    BY <1>3, <1>8 DEF RankKept
  <2>2. t \in Tasks /\ cur[d] \in Tasks /\ s[cur[d]] <= r[cur[d]] /\ s[t] = r[t]
    BY <1>2, <1>6, <1>8
  <2>3. s[t] \in Int /\ s[cur[d]] \in Int /\ r[cur[d]] \in Int
    BY <1>5, <2>2
  <2> QED BY <2>1, <2>2, <2>3
<1> QED BY <1>4, <1>7, <1>8 DEF RankKept

\* The queues of SJF and PRIO stay sorted, in front of its equals or behind them.
LEMMA QueuedInOrder ==
  ASSUME NEW sched \in {"SJF", "PRIO"}, NEW q \in Seq(Tasks), NEW t \in Tasks, NEW fr \in BOOLEAN,
         NEW prio, NEW tk, NEW key \in [Tasks -> Int], key = Key(sched, prio, tk), Sorted(q, key)
  PROVE  Sorted(Queued(sched, q, t, fr, prio, tk), key)
<1>1. sched \notin Fifo /\ sched \notin Longest
  BY DEF Fifo, Longest
<1>2. /\ Sorted(SortedInsert(q, t, TRUE, key), key)
      /\ Sorted(SortedInsertFront(q, t, TRUE, key), key)
  BY SortedInsertSorted
<1>3. Queued(sched, q, t, fr, prio, tk) = IF fr THEN SortedInsertFront(q, t, TRUE, key)
                                                ELSE SortedInsert(q, t, TRUE, key)
  <2>1. PICK b : b = TRUE
    OBVIOUS
  <2>2. (sched \notin Longest) = b
    BY <1>1, <2>1, Zenon
  <2>3. Queued(sched, q, t, fr, prio, tk) = IF fr THEN SortedInsertFront(q, t, b, key)
                                                  ELSE SortedInsert(q, t, b, key)
    BY <1>1, <2>2 DEF Queued
  <2> QED BY <2>1, <2>3
<1> QED BY <1>2, <1>3

\* A task that is queued preempts the current task if it is better.
LEMMA EnqueueRanks ==
  ASSUME TypeInv, TypeInv', PlaceInv, RankInv, NEW d \in Cpus, NEW t \in Tasks,
         NEW tk \in [Tasks -> Int], Enqueue(d, t, tk), ticks' = tk,
         ~onRq[t], \A e \in Cpus : cur[e] # t /\ t \notin ToSet(queue[e]),
         conf' = conf, cur' = cur,
         \A u \in Tasks : u # t => state'[u] = state[u] /\ tk[u] = ticks[u]
  PROVE  RankInv'
<1>0. /\ queue \in [Cpus -> Seq(Tasks)] /\ cur \in [Cpus -> Tasks \cup {Idle}]
      /\ resched \in [Cpus -> BOOLEAN] /\ front \in [Tasks -> BOOLEAN]
  BY DEF TypeInv, TypeOK
<1>1. SUFFICES ASSUME Ranked PROVE RankInv'
  BY DEF RankInv, Ranked
<1>2. ASSUME NEW e \in Cpus
      PROVE  /\ OnProc(e)' <=> OnProc(e)
             /\ OnProc(e) => cur[e] \in Tasks /\ tk[cur[e]] = ticks[cur[e]]
             /\ \A u \in ToSet(queue[e]) : u \in Tasks /\ tk[u] = ticks[u]
  <2>1. cur[e] # Idle => cur[e] \in Tasks /\ cur[e] # t
    BY <1>0
  <2>2. ToSet(queue[e]) \subseteq Tasks
    BY <1>0, ElementsAt
  <2> QED BY <2>1, <2>2 DEF OnProc
<1>3. \A e \in Cpus : resched[e] => resched'[e]
  BY Enqueued
<1>4. ASSUME NEW e \in Cpus, e # d PROVE RankKept(e)'
  <2>1. queue'[e] = queue[e]
    BY <1>4, Enqueued
  <2>2. RankKept(e)
    BY <1>1 DEF RankInv
  <2>3. cur'[e] = cur[e] /\ Sorted(queue'[e], RankOf)
    BY <2>1, <2>2 DEF RankKept
  <2>4. OnProc(e)' => OnProc(e) /\ ticks'[cur[e]] <= ticks[cur[e]]
    <3>1. \A u \in Tasks : ticks[u] \in Int
      BY DEF TypeInv, TypeOK
    <3> QED BY <1>2, <3>1
  <2>5. \A u \in ToSet(queue[e]) : ticks'[u] = ticks[u]
    BY <1>2
  <2> QED BY <1>3, <2>1, <2>2, <2>3, <2>4, <2>5, RankStays
<1>5. RankKept(d)'
  <2>1. PICK s : s = RankOf'
    OBVIOUS
  <2>2. PICK q \in Seq(Tasks) : q = queue[d]
    BY <1>0
  <2>3. PICK fr \in BOOLEAN : fr = front[t]
    BY <1>0
  <2>4. s \in [Tasks -> Int] /\ s = Key(conf.sched, PrioOf, tk)
    <3>1. s \in [Tasks -> Int]
      BY <2>1, RankTypes
    <3>2. PrioOf' = PrioOf
      BY DEF PrioOf
    <3> QED BY <2>1, <3>1, <3>2 DEF RankOf
  <2>5. Sorted(q, s)
    <3>1. PICK r : r = RankOf
      OBVIOUS
    <3>2. Sorted(q, r)
      BY <1>1, <2>2, <3>1 DEF RankInv, RankKept
    <3>3. ASSUME NEW u \in Tasks PROVE tk[u] = ticks[u] => s[u] = r[u]
      BY <2>1, <3>1, RankMoves
    <3>4. \A u \in ToSet(q) : s[u] = r[u]
      BY <1>2, <2>2, <3>3
    <3> QED BY <3>2, <3>4, SortedElsewhere
  <2>6. PICK new : new = Queued(conf.sched, q, t, fr, PrioOf, tk)
    OBVIOUS
  <2>7. queue'[d] = new
    BY <1>0, <2>2, <2>3, <2>6 DEF Enqueue, QueueWith
  <2>8. Sorted(new, s)
    <3>1. PICK sched \in {"SJF", "PRIO"} : sched = conf.sched
      BY <1>1 DEF Ranked
    <3>2. PICK prio : prio = PrioOf
      OBVIOUS
    <3>3. s = Key(sched, prio, tk)
      BY <2>4, <3>1, <3>2
    <3>4. Sorted(Queued(sched, q, t, fr, prio, tk), s)
      BY <2>4, <2>5, <3>3, QueuedInOrder
    <3> QED BY <2>6, <3>1, <3>2, <3>4
  <2>9. ToSet(new) = ToSet(q) \cup {t}
    BY <2>2, <2>7, Enqueued
  <2>10. ASSUME OnProc(d)', ~resched'[d], NEW u \in ToSet(new) PROVE s[u] >= s[cur[d]]
    <3>1. OnProc(d) /\ ~resched[d] /\ cur[d] \in Tasks
      BY <1>2, <1>3, <2>10
    <3>2. CASE u = t
      <4>1. ~Preempts(conf.sched, conf.preemptive, Prio(t), tk[t], Prio(cur[d]), tk[cur[d]])
        <5>1. cur[d] # Idle
          BY <3>1 DEF OnProc
        <5>2. resched' = [resched EXCEPT ![d] = @ \/
                Preempts(conf.sched, conf.preemptive, Prio(t), tk[t], Prio(cur[d]), tk[cur[d]])]
          BY <5>1 DEF Enqueue
        <5> QED BY <1>0, <2>10, <5>2
      <4>2. ~(s[t] < s[cur[d]])
        <5>1. t # Idle /\ cur[d] # Idle
          BY <3>1, SchedSimAssumption DEF OnProc, Tasks, Idle
        <5>2. CASE conf.sched = "SJF"
          <6>1. s[t] = tk[t] /\ s[cur[d]] = tk[cur[d]]
            BY <2>4, <5>2 DEF Key, ByPrio
          <6> QED BY <1>1, <4>1, <5>2, <6>1 DEF Preempts, Ranked
        <5>3. CASE conf.sched = "PRIO"
          <6>1. s[t] = Prio(t) /\ s[cur[d]] = Prio(cur[d])
            BY <2>4, <3>1, <5>1, <5>3 DEF Key, ByPrio, PrioOf, Prio
          <6> QED BY <1>1, <4>1, <5>3, <6>1 DEF Preempts, Ranked
        <5> QED BY <1>1, <5>2, <5>3 DEF Ranked
      <4>3. s[t] \in Int /\ s[cur[d]] \in Int
        BY <2>4, <3>1
      <4> QED BY <3>2, <4>2, <4>3
    <3>3. CASE u # t
      <4>1. u \in ToSet(queue[d]) /\ u \in Tasks /\ tk[u] = ticks[u]
        BY <1>2, <2>2, <2>9, <2>10, <3>3
      <4>2. PICK r : r = RankOf
        OBVIOUS
      <4>3. r[u] >= r[cur[d]]
        BY <1>1, <3>1, <4>1, <4>2 DEF RankInv, RankKept
      <4>4. s[u] = r[u] /\ s[cur[d]] = r[cur[d]]
        <5>1. ASSUME NEW v \in Tasks PROVE tk[v] = ticks[v] => s[v] = r[v]
          BY <2>1, <4>2, RankMoves
        <5>2. tk[cur[d]] = ticks[cur[d]]
          BY <1>2, <3>1
        <5> QED BY <3>1, <4>1, <5>1, <5>2
      <4> QED BY <4>3, <4>4
    <3> QED BY <3>2, <3>3
  <2> QED BY <2>1, <2>7, <2>8, <2>10 DEF RankKept
<1> QED BY <1>4, <1>5 DEF RankInv

\* The steps that leave queues, processors and remaining ticks alone.
LEMMA RanksStay ==
  ASSUME TypeInv, TypeInv', RankInv, UNCHANGED <<conf, queue, cur, ticks, resched>>,
         \A d \in Cpus : OnProc(d)' => OnProc(d)
  PROVE  RankInv'
<1>1. SUFFICES ASSUME Ranked PROVE RankInv'
  BY DEF RankInv, Ranked
<1>2. ASSUME NEW d \in Cpus PROVE RankKept(d)'
  <2>1. RankKept(d)
    BY <1>1 DEF RankInv
  <2>2. RankOf' = RankOf
    BY DEF RankOf, PrioOf
  <2> QED BY <2>1, <2>2 DEF RankKept
<1> QED BY <1>2 DEF RankInv

\* The best of the waiting tasks goes on the processor.
LEMMA FirstPickRanks ==
  ASSUME TypeInv, TypeInv', PlaceInv, RankInv, NEW c \in Cpus, FirstPick(c)
  PROVE  RankInv'
<1>0. /\ conf' = conf /\ Thread(c) /\ queue \in [Cpus -> Seq(Tasks)] /\ ticks' = ticks
      /\ cur \in [Cpus -> Tasks \cup {Idle}] /\ state \in [Tasks -> TaskStates] /\ resched' = resched
  BY MainUntouched DEF Thread, TypeInv, TypeOK, FirstPick
<1>1. CASE queue[c] = <<>>
  BY <1>0, <1>1, RanksStay DEF FirstPick, OnProc
<1>2. CASE queue[c] # <<>>
  <2>1. PICK t \in Tasks : t = Head(queue[c]) /\ t \in ToSet(queue[c])
    BY <1>2, HeadOfQueue
  <2>2. /\ queue' = [queue EXCEPT ![c] = Tail(@)] /\ cur' = [cur EXCEPT ![c] = t]
        /\ state' = [state EXCEPT ![t] = "ONPROC"]
    BY <1>2, <2>1 DEF FirstPick
  <2>3. \A d \in Cpus : cur[d] # t
    BY <2>1, QueuedOnly
  <2>4. SUFFICES ASSUME Ranked PROVE RankInv'
    BY <1>0 DEF RankInv, Ranked
  <2>5. PICK r : r = RankOf /\ r = RankOf'
    <3>1. RankOf' = RankOf
      BY <1>0 DEF RankOf, PrioOf
    <3> QED BY <3>1
  <2>6. ASSUME NEW d \in Cpus PROVE RankKept(d)'
    <3>0. RankKept(d)
      BY <2>4 DEF RankInv
    <3>1. CASE d = c
      <4>1. PICK q \in Seq(Tasks) : q = queue[c]
        BY <1>0
      <4>2. Sorted(q, r) /\ q # <<>>
        BY <1>2, <2>5, <3>0, <3>1, <4>1 DEF RankKept
      <4>3. Sorted(Tail(q), r) /\ \A x \in ToSet(q) : x = Head(q) \/ r[Head(q)] <= r[x]
        BY <4>2, SortedRest
      <4>4. ToSet(Tail(q)) = ToSet(q) \ {Head(q)}
        BY <1>2, <4>1, HeadOfQueue
      <4>5. queue'[c] = Tail(q) /\ cur'[c] = Head(q)
        BY <1>0, <2>1, <2>2, <4>1
      <4>6. \A x \in ToSet(Tail(q)) : r[x] >= r[Head(q)]
        <5>1. ToSet(q) \subseteq Tasks /\ r \in [Tasks -> Int] /\ Head(q) \in Tasks
          BY <2>1, <2>5, <4>1, RankTypes, ElementsAt
        <5> QED BY <4>3, <4>4, <5>1
      <4> QED BY <2>5, <3>1, <4>3, <4>5, <4>6 DEF RankKept
    <3>2. CASE d # c
      <4>1. /\ cur'[d] = cur[d] /\ cur[d] # t /\ queue'[d] = queue[d]
            /\ (cur[d] # Idle => cur[d] \in Tasks)
        BY <1>0, <2>2, <2>3, <3>2
      <4>2. OnProc(d)' <=> OnProc(d)
        BY <1>0, <2>2, <4>1 DEF OnProc
      <4> QED BY <1>0, <2>5, <3>0, <4>1, <4>2 DEF RankKept
    <3> QED BY <3>1, <3>2
  <2> QED BY <2>6 DEF RankInv
<1> QED BY <1>1, <1>2

\* A tick makes the current task better, and no other one.
LEMMA TickRanks ==
  ASSUME TypeInv, TypeInv', PlaceInv, RankInv, NEW c \in Cpus, NEW t \in Tasks,
         TickRun(c, t) \/ TickComplete(c, t) \/ TickSleep(c, t)
  PROVE  RankInv'
<1>0. /\ conf' = conf /\ Thread(c) /\ t # Idle
      /\ cur \in [Cpus -> Tasks \cup {Idle}] /\ queue \in [Cpus -> Seq(Tasks)]
      /\ ticks \in [Tasks -> Int] /\ state \in [Tasks -> TaskStates] /\ resched \in [Cpus -> BOOLEAN]
  <2>1. Thread(c)
    BY DEF Thread, SchedulerTick
  <2>2. t # Idle
    BY SchedSimAssumption DEF Tasks, Idle
  <2> QED BY <2>1, <2>2, MainUntouched DEF TypeInv, TypeOK
<1>1. /\ pc[c] = "tick" /\ cur[c] = t /\ UNCHANGED <<cur, queue>>
      /\ ticks' = [ticks EXCEPT ![t] = @ - 1]
  BY DEF TickRun, TickComplete, TickSleep, ChargeTick
<1>2. OnProc(c)
  BY <1>0, <1>1 DEF PlaceInv, ThreadKept, Leaving, LbPlaces
<1>3. \A d \in Cpus : t \notin ToSet(queue[d])
  BY <1>1, <1>2, OnProcOnly
<1>4. \A u \in Tasks : /\ ticks'[u] \in Int /\ ticks[u] \in Int /\ ticks'[u] <= ticks[u]
                       /\ state'[u] = "ONPROC" => state[u] = "ONPROC"
                       /\ u # t => ticks'[u] = ticks[u]
  <2>1. ASSUME NEW u \in Tasks PROVE state'[u] = "ONPROC" => state[u] = "ONPROC"
    BY <1>0 DEF TickRun, TickComplete, TickSleep
  <2> QED BY <1>0, <1>1, <2>1
<1>5. \A d \in Cpus : resched[d] => resched'[d]
  <2>1. \E b : resched' = [resched EXCEPT ![c] = resched[c] \/ b]
    <3>1. CASE TickRun(c, t)
      BY <3>1 DEF TickRun
    <3>2. CASE TickComplete(c, t) \/ TickSleep(c, t)
      <4>1. resched' = [resched EXCEPT ![c] = TRUE]
        BY <3>2 DEF TickComplete, TickSleep, EndBurst
      <4>2. resched' = [resched EXCEPT ![c] = resched[c] \/ TRUE]
        BY <4>1
      <4> QED BY <4>2
    <3> QED BY <3>1, <3>2
  <2> QED BY <1>0, <2>1
<1>6. SUFFICES ASSUME Ranked PROVE RankInv'
  BY <1>0 DEF RankInv, Ranked
<1>7. ASSUME NEW d \in Cpus PROVE RankKept(d)'
  <2>1. RankKept(d)
    BY <1>6 DEF RankInv
  <2>2. cur'[d] = cur[d] /\ queue'[d] = queue[d] /\ Sorted(queue'[d], RankOf)
    BY <1>1, <2>1 DEF RankKept
  <2>3. OnProc(d)' => OnProc(d) /\ ticks'[cur[d]] <= ticks[cur[d]]
    <3>1. cur[d] # Idle => cur[d] \in Tasks
      BY <1>0
    <3> QED BY <1>4, <2>2, <3>1 DEF OnProc
  <2>4. \A u \in ToSet(queue[d]) : ticks'[u] = ticks[u]
    <3>1. ToSet(queue[d]) \subseteq Tasks
      BY <1>0, ElementsAt
    <3> QED BY <1>3, <1>4, <3>1
  <2> QED BY <1>0, <1>5, <2>1, <2>2, <2>3, <2>4, RankStays
<1> QED BY <1>7 DEF RankInv

\* The worst of the waiting tasks is stolen.
LEMMA StealRanks ==
  ASSUME TypeInv, TypeInv', PlaceInv, PlaceInv', RankInv, NEW c \in Cpus, Steal(c)
  PROVE  RankInv'
<1>0. /\ queue \in [Cpus -> Seq(Tasks)] /\ Source(c) \in Cpus /\ pc[c] = "check"
      /\ UNCHANGED <<conf, cur, state, ticks, resched>>
  <2>1. pc[c] = "check" /\ UNCHANGED <<conf, cur, state, ticks, resched>>
    BY DEF Steal, burstVars
  <2>2. Source(c) \in Cpus
    BY <2>1 DEF Source, TypeInv, PeerChosen, PeerPlaces
  <2> QED BY <2>1, <2>2 DEF TypeInv, TypeOK
<1>1. PICK s \in Cpus : s = Source(c)
  BY <1>0
<1>2. CASE queue[s] = <<>>
  <2>1. queue' = queue
    BY <1>1, <1>2 DEF Steal
  <2> QED BY <1>0, <2>1, RanksStay DEF OnProc
<1>3. CASE queue[s] # <<>>
  <2>1. queue' = [queue EXCEPT ![s] = RemoveTail(@)]
    BY <1>1, <1>3 DEF Steal
  <2>2. SUFFICES ASSUME Ranked PROVE RankInv'
    BY <1>0 DEF RankInv, Ranked
  <2>3. PICK r : r = RankOf /\ r = RankOf'
    <3>1. RankOf' = RankOf
      BY <1>0 DEF RankOf, PrioOf
    <3> QED BY <3>1
  <2>4. ASSUME NEW d \in Cpus PROVE Sorted(queue'[d], r) /\ ToSet(queue'[d]) \subseteq ToSet(queue[d])
    <3>1. PICK q \in Seq(Tasks) : q = queue[d]
      BY <1>0
    <3>2. NoRepeat(q) /\ Sorted(q, r)
      BY <2>2, <2>3, <3>1 DEF PlaceInv, ListsKept, RankInv, RankKept
    <3>3. CASE d = s
      <4>1. q # <<>> /\ queue'[d] = RemoveTail(q)
        BY <1>0, <1>3, <2>1, <3>1, <3>3
      <4>2. Sorted(RemoveTail(q), r)
        BY <3>2, <4>1, SortedFront
      <4>3. ToSet(RemoveTail(q)) = ToSet(q) \ {Last(q)}
        BY <3>2, <4>1, TailRemoved
      <4> QED BY <3>1, <4>1, <4>2, <4>3
    <3>4. CASE d # s
      BY <1>0, <2>1, <3>1, <3>2, <3>4
    <3> QED BY <3>3, <3>4
  <2>5. ASSUME NEW d \in Cpus PROVE RankKept(d)'
    <3>1. RankKept(d)
      BY <2>2 DEF RankInv
    <3>2. OnProc(d)' <=> OnProc(d)
      BY <1>0 DEF OnProc
    <3> QED BY <1>0, <2>3, <2>4, <3>1, <3>2 DEF RankKept
  <2> QED BY <2>5 DEF RankInv
<1> QED BY <1>2, <1>3

\* schedule(): the head of the queue, the task put back included, is the best one.
LEMMA SwitchRanks ==
  ASSUME TypeInv, TypeInv', PlaceInv, RankInv, NEW c \in Cpus, SchedSwitch(c)
  PROVE  RankInv'
<1>0. /\ conf' = conf /\ Thread(c) /\ cur \in [Cpus -> Tasks \cup {Idle}] /\ ticks' = ticks
      /\ queue \in [Cpus -> Seq(Tasks)] /\ front \in [Tasks -> BOOLEAN] /\ resched \in [Cpus -> BOOLEAN]
  <2>1. Thread(c)
    BY DEF Thread, Schedule
  <2> QED BY <2>1, MainUntouched DEF TypeInv, TypeOK, SchedSwitch
<1>1. SUFFICES ASSUME Ranked PROVE RankInv'
  BY <1>0 DEF RankInv, Ranked
<1>2. PICK r : r = RankOf /\ r = RankOf'
  <2>1. RankOf' = RankOf
    BY <1>0 DEF RankOf, PrioOf
  <2> QED BY <2>1
<1>3. PICK prev, again, q, next, rest : Switched(c, prev, again, q, next, rest)
  BY SwitchHappens
<1>4. /\ prev \in Tasks \cup {Idle} /\ again \in BOOLEAN /\ q \in Seq(Tasks) /\ prev = cur[c]
      /\ q = IF again THEN QueueWith(c, prev, ticks) ELSE queue[c]
      /\ (next = IF q = <<>> THEN Idle ELSE Head(q)) /\ (rest = IF q = <<>> THEN q ELSE Tail(q))
      /\ again => prev \in Tasks /\ \A d \in Cpus : d # c => cur[d] # prev
      /\ next # Idle => next \in Tasks
      /\ NoRepeat(q) /\ ToSet(rest) = ToSet(q) \ {next}
      /\ next # Idle /\ next # prev => \A d \in Cpus : cur[d] # next
      /\ next # Idle /\ next = prev => again
  BY <1>3, Zenon DEF Switched
<1>5. /\ queue'[c] = rest /\ cur'[c] = next /\ resched' = [resched EXCEPT ![c] = FALSE]
      /\ \A d \in Cpus : d # c => queue'[d] = queue[d] /\ cur'[d] = cur[d]
      /\ \A u \in Tasks : u # next /\ u # prev => state'[u] = state[u]
      /\ ~again /\ prev \in Tasks => state'[prev] = state[prev]
  BY <1>3, Zenon DEF Switched
<1>6. r \in [Tasks -> Int]
  BY <1>2, RankTypes
<1>7. Sorted(q, r)
  <2>1. PICK old \in Seq(Tasks) : old = queue[c]
    BY <1>0
  <2>2. Sorted(old, r)
    BY <1>1, <1>2, <2>1 DEF RankInv, RankKept
  <2>3. CASE again
    <3>1. PICK fr \in BOOLEAN : fr = front[prev]
      BY <1>0, <1>4, <2>3
    <3>2. PICK sched \in {"SJF", "PRIO"} : sched = conf.sched
      BY <1>1 DEF Ranked
    <3>3. PICK prio, tk : prio = PrioOf /\ tk = ticks
      OBVIOUS
    <3>4. r = Key(sched, prio, tk)
      BY <1>2, <3>2, <3>3 DEF RankOf
    <3>5. Sorted(Queued(sched, old, prev, fr, prio, tk), r)
      BY <1>4, <1>6, <2>2, <2>3, <3>4, QueuedInOrder
    <3>6. q = Queued(sched, old, prev, fr, prio, tk)
      BY <1>4, <2>1, <2>3, <3>1, <3>2, <3>3 DEF QueueWith
    <3> QED BY <3>5, <3>6
  <2>4. CASE ~again
    BY <1>4, <2>1, <2>2, <2>4
  <2> QED BY <1>4, <2>3, <2>4
<1>8. Sorted(rest, r) /\ \A u \in ToSet(rest) : r[u] >= r[next]
  <2>1. CASE q = <<>>
    BY <1>4, <1>7, <2>1, ElementsAt
  <2>2. CASE q # <<>>
    <3>1. Sorted(Tail(q), r) /\ \A x \in ToSet(q) : x = Head(q) \/ r[Head(q)] <= r[x]
      BY <1>4, <1>7, <2>2, SortedRest
    <3>2. Head(q) \in Tasks /\ ToSet(q) \subseteq Tasks
      BY <1>4, <2>2, HeadTaken, ElementsAt
    <3>3. \A x \in ToSet(q) : r[x] \in Int /\ r[Head(q)] \in Int
      BY <1>6, <3>2
    <3> QED BY <1>4, <2>2, <3>1, <3>3
  <2> QED BY <2>1, <2>2
<1>9. ASSUME NEW d \in Cpus PROVE RankKept(d)'
  <2>1. CASE d = c
    BY <1>2, <1>5, <1>8, <2>1 DEF RankKept
  <2>2. CASE d # c
    <3>1. /\ cur'[d] = cur[d] /\ queue'[d] = queue[d] /\ resched'[d] = resched[d]
          /\ (cur[d] # Idle => cur[d] \in Tasks)
      BY <1>0, <1>5, <2>2
    <3>2. cur[d] # Idle => state'[cur[d]] = state[cur[d]]
      <4>1. SUFFICES ASSUME cur[d] # Idle PROVE state'[cur[d]] = state[cur[d]]
        OBVIOUS
      <4>2. cur[d] # next /\ (again => cur[d] # prev)
        BY <1>4, <2>2, <4>1
      <4> QED BY <1>4, <1>5, <3>1, <4>1, <4>2
    <3>3. OnProc(d)' <=> OnProc(d)
      BY <3>1, <3>2 DEF OnProc
    <3>4. RankKept(d)
      BY <1>1 DEF RankInv
    <3> QED BY <1>2, <3>1, <3>3, <3>4 DEF RankKept
  <2> QED BY <2>1, <2>2
<1> QED BY <1>9 DEF RankInv

LEMMA ThreadRanks ==
  ASSUME TypeInv, TypeInv', PlaceInv, PlaceInv', RankInv, NEW c \in Cpus, Thread(c)
  PROVE  RankInv'
<1>0. /\ state \in [Tasks -> TaskStates] /\ conf' = conf /\ ticks \in [Tasks -> Int]
      /\ ticks' \in [Tasks -> Int]
  <2>1. ticks' \in [Tasks -> Int]
    BY DEF TypeInv, TypeOK
  <2> QED BY <2>1, MainUntouched DEF TypeInv, TypeOK
<1>1. ASSUME NEW t \in Tasks, NewTask(c, t) \/ AwakeTask(c, t) PROVE RankInv'
  <2>1. PICK i : Wake(c, t, i)
    BY <1>1 DEF NewTask, AwakeTask
  <2>2. TakesEvent(c, t)
    BY <1>1 DEF NewTask, AwakeTask
  <2>3. ~onRq[t] /\ \A d \in Cpus : cur[d] # t /\ t \notin ToSet(queue[d])
    BY <2>2, EventTaken
  <2>4. PICK tk \in [Tasks -> Int] : tk = ticks'
    BY <1>0
  <2>5. Enqueue(c, t, tk) /\ cur' = cur
    BY <2>1, <2>4 DEF Wake
  <2>6. \A u \in Tasks : u # t => state'[u] = state[u] /\ tk[u] = ticks[u]
    BY <1>0, <2>1, <2>4 DEF Wake
  <2> QED BY <1>0, <2>3, <2>4, <2>5, <2>6, EnqueueRanks
<1>2. ASSUME NEW t \in Tasks, CompleteAwake(c, t) PROVE RankInv'
  <2>1. /\ state' = [state EXCEPT ![t] = "COMPLETED"]
        /\ UNCHANGED <<conf, queue, cur, ticks, resched>>
    BY <1>2 DEF CompleteAwake, rqVars
  <2>2. \A d \in Cpus : OnProc(d)' => OnProc(d)
    <3>1. cur \in [Cpus -> Tasks \cup {Idle}]
      BY DEF TypeInv, TypeOK
    <3> QED BY <1>0, <2>1, <3>1 DEF OnProc
  <2> QED BY <2>1, <2>2, RanksStay
<1>3. ASSUME UNCHANGED <<queue, cur, ticks, resched, state>> PROVE RankInv'
  BY <1>0, <1>3, RanksStay DEF OnProc
<1>4. CASE EventsDone(c) \/ TickIdle(c) \/ SchedKeep(c) \/ LoopTest(c) \/ SynchronizeCpus(c)
  BY <1>3, <1>4 DEF EventsDone, TickIdle, SchedKeep, LoopTest, SynchronizeCpus, SyncAlone, Arrive, Count,
                    rqVars, burstVars
<1>5. CASE LoadBalance(c) /\ ~Steal(c) /\ ~\E t \in Tasks : Move(c, t)
  BY <1>3, <1>5 DEF LoadBalance, LbSkip, LbStart, LbScan, LbBalanced, LbNeither, LbChoose, LockLower,
                    UnlockOwn, LockHigher, LockOwn, LockStep, LbStale, rqVars, burstVars
<1>6. ASSUME NEW t \in Tasks, Move(c, t) PROVE RankInv'
  <2>1. PICK d \in Cpus : d = Target(c)
    BY <1>6 DEF Move, Target, TypeInv, PeerChosen, PeerPlaces
  <2>2. ~onRq[t] /\ state[t] = "RUNNABLE"
    <3>1. stolen[c] = t /\ TaskKept(t)
      BY <1>6 DEF Move, PlaceInv
    <3> QED BY <3>1, Zenon DEF TaskKept
  <2>3. \A e \in Cpus : cur[e] # t /\ t \notin ToSet(queue[e])
    <3>1. TaskKept(t)
      BY DEF PlaceInv
    <3>2. \A e \in Cpus : cur[e] # t
      BY <2>2, <3>1 DEF TaskKept
    <3>3. \A e \in Cpus : t \notin ToSet(queue[e])
      BY <2>2, <3>1, Zenon DEF TaskKept
    <3> QED BY <3>2, <3>3
  <2>4. PICK tk \in [Tasks -> Int] : tk = ticks
    BY <1>0
  <2>5. Enqueue(d, t, tk) /\ ticks' = tk /\ UNCHANGED <<state, cur>>
    BY <1>6, <2>1, <2>4 DEF Move
  <2> QED BY <1>0, <2>2, <2>3, <2>4, <2>5, EnqueueRanks
<1> QED BY <1>1, <1>2, <1>4, <1>5, <1>6, FirstPickRanks, TickRanks, StealRanks, SwitchRanks
        DEF Thread, ProcessEvents, SchedulerTick, Schedule

LEMMA NextRankInv ==
  ASSUME TypeInv, TypeInv', PlaceInv, PlaceInv', RankInv, [Next]_vars
  PROVE  RankInv'
<1>1. CASE Main \/ Barrier0 \/ Barrier1 \/ UNCHANGED vars
  <2>1. UNCHANGED <<conf, queue, cur, ticks, resched, state>>
    BY <1>1 DEF Main, AddTask, CreateThreads, Join, Barrier0, Barrier1, Barrier, vars, rqVars, burstVars
  <2> QED BY <2>1, RanksStay DEF OnProc
<1> QED BY <1>1, ThreadRanks DEF Next, Terminated

LEMMA RankInvariance ==
  ASSUME IoTakesTime
  PROVE  Spec => []RankInv
<1>1. Init => RankInv
  <2>1. SUFFICES ASSUME Init, NEW c \in Cpus PROVE RankKept(c)
    BY DEF RankInv
  <2>2. queue[c] = <<>> /\ ~OnProc(c)
    BY <2>1 DEF Init, OnProc
  <2> QED BY <2>2 DEF RankKept, Sorted
<1>2. TypeInv /\ TypeInv' /\ PlaceInv /\ PlaceInv' /\ RankInv /\ [Next]_vars => RankInv'
  BY NextRankInv
<1> QED BY <1>1, <1>2, PlaceInvariance, PTL DEF Spec

\* No preemption is lost: while a better task waits, by whichever way it came and
\* whoever put it there, a reschedule is pending.
THEOREM PreemptionsHappen ==
  ASSUME IoTakesTime
  PROVE  Spec => []NoLostPreemption
<1>1. TypeInv /\ PlaceInv /\ RankInv => NoLostPreemption
  <2>1. SUFFICES ASSUME TypeInv, PlaceInv, RankInv, Ranked, NEW c \in Cpus, OnProc(c), queue[c] # <<>>,
                        RankOf[Head(queue[c])] < RankOf[cur[c]], ~resched[c]
                 PROVE  FALSE
    BY Zenon DEF NoLostPreemption, Ranked, RankOf, OnProc
  <2>2. PICK r : r = RankOf
    OBVIOUS
  <2>3. Head(queue[c]) \in ToSet(queue[c]) /\ Head(queue[c]) \in Tasks /\ cur[c] \in Tasks
    BY <2>1, HeadOfQueue, OnProcOnly
  <2>4. r[Head(queue[c])] >= r[cur[c]]
    BY <2>1, <2>2, <2>3 DEF RankInv, RankKept
  <2>5. r[Head(queue[c])] \in Int /\ r[cur[c]] \in Int
    BY <2>1, <2>2, <2>3, RankTypes
  <2> QED BY <2>1, <2>2, <2>4, <2>5
<1> QED BY <1>1, PlaceInvariance, RankInvariance, PTL

-----------------------------------------------------------------------------
(* Real time *)

\* No task arrives before the threads have met for the first time, unless there is
\* only one.  Input files may have earlier arrivals, and then a task can run before its
\* arrival (the run sched_early_arrival): the first pick is behind no barrier.
ArrivesInTime ==
    NrCpus = 1 \/ \A k \in Configurations, t \in Tasks : k.task[t].arrival >= 2

\* Before the first pick, which charges nothing, nothing is to be charged.
BeforePick == {"none", "boot", "pick"}
EarlyKept(c) ==
    pc[c] \in BeforePick =>
      IF NrCpus = 1 THEN \A t \in ToSet(queue[c]) : lastEnq[t] = 0
                    ELSE \A t \in Tasks : state[t] = "STARTING"

\* RealTimeExact, with the tasks that have not arrived.
TimeKept(t) ==
    LET born == conf.task[t].arrival IN
    /\ state[t] = "STARTING" =>
         realTime[t] = 0 /\ ((main = "add" => t < nextTask) => timeout[t] = born)
    /\ state[t] = "RUNNABLE" => realTime[t] = lastEnq[t] - born
    /\ state[t] = "SLEEP" => realTime[t] = timeout[t] - born
    /\ state[t] = "ONPROC" => \A c \in Cpus : cur[c] = t => realTime[t] = Now(c) - born

RealInv == (\A c \in Cpus : EarlyKept(c)) /\ (\A t \in Tasks : TimeKept(t))

\* What SyncCpus promises about the steps of the threads.
StepsTogether == \A c, d \in Cpus : pc[c] # "next" /\ pc[d] # "next" => step[c] = step[d]

LEMMA StepsTogetherHolds == Spec => []StepsTogether
<1>1. TypeInv /\ SyncTheorems!IInv => StepsTogether
  <2>1. SUFFICES ASSUME TypeInv, SyncTheorems!IInv, NEW c \in Cpus, NEW d \in Cpus,
                        pc[c] # "next", pc[d] # "next"
                 PROVE  step[c] = step[d]
    BY DEF StepsTogether
  <2>2. Cpus = SyncTheorems!Cpus
    BY DEF Cpus, SyncTheorems!Cpus
  <2>3. syncPc[c] # "next" /\ syncPc[d] # "next"
    <3>1. syncPc[c] = SyncPlace(pc[c]) /\ syncPc[d] = SyncPlace(pc[d])
      BY DEF syncPc
    <3> QED BY <2>1, <3>1 DEF SyncPlace, StepPlaces, LbPlaces
  <2> QED BY <2>1, <2>2, <2>3 DEF SyncTheorems!IInv, SyncTheorems!SameStep, SyncTheorems!StepOf
<1> QED BY <1>1, ThreadsFollowSync, TypeInvariance, PTL

\* A task whose times are as before, and the clock of the CPU it is on.
TimeLeft(t) ==
    /\ state'[t] = state[t] /\ realTime'[t] = realTime[t]
    /\ lastEnq'[t] = lastEnq[t] /\ timeout'[t] = timeout[t]
    /\ conf' = conf
    /\ (main' = "add" => t < nextTask') => (main = "add" => t < nextTask)
    /\ \A c \in Cpus : cur'[c] = t => cur[c] = t /\ Now(c)' = Now(c)

LEMMA TimeStays ==
  ASSUME NEW t \in Tasks, TimeKept(t), TimeLeft(t)
  PROVE  TimeKept(t)'
<1>1. \A c \in Cpus : state'[t] = "ONPROC" /\ cur'[c] = t => realTime'[t] = Now(c)' - conf'.task[t].arrival
  BY DEF TimeKept, TimeLeft
<1> QED BY <1>1 DEF TimeKept, TimeLeft

\* For a task that is on no CPU before or after, clocks do not matter; a thread
\* does not move the others' clocks.
LEMMA OthersTime ==
  ASSUME TypeInv, NEW c \in Cpus, NEW t \in Tasks, TimeKept(t), Thread(c),
         state'[t] = state[t], realTime'[t] = realTime[t],
         lastEnq'[t] = lastEnq[t], timeout'[t] = timeout[t],
         cur'[c] = t => cur[c] = t /\ Now(c)' = Now(c)
  PROVE  TimeKept(t)'
<1>1. UNCHANGED <<conf, main, nextTask>>
  BY MainUntouched
<1>2. ASSUME NEW d \in Cpus, d # c PROVE cur'[d] = cur[d] /\ Now(d)' = Now(d)
  BY <1>2, OthersKept DEF Now
<1> QED BY <1>1, <1>2, TimeStays DEF TimeLeft

\* The steps that only move a thread on, its clock included.
LEMMA TimesStay ==
  ASSUME TypeInv, NEW c \in Cpus, Thread(c), UNCHANGED <<state, realTime, lastEnq, timeout, cur>>,
         cur[c] # Idle => Now(c)' = Now(c), \A t \in Tasks : TimeKept(t)
  PROVE  \A t \in Tasks : TimeKept(t)'
<1>1. ASSUME NEW t \in Tasks PROVE TimeKept(t)'
  <2>1. t # Idle
    BY SchedSimAssumption DEF Tasks, Idle
  <2> QED BY <2>1, OthersTime
<1> QED BY <1>1

\* Nothing but its first events keeps a thread before its first pick.
LEMMA EarlySteps ==
  ASSUME TypeInv, NEW c \in Cpus, Thread(c), pc'[c] \in BeforePick
  PROVE  pc[c] = "boot" /\ ProcessEvents(c)
<1>1. pc \in [Cpus -> PcPlaces]
  BY DEF TypeInv, TypeOK
<1> USE DEF BeforePick
<1>2. CASE FirstPick(c) \/ LoopTest(c)
  BY <1>1, <1>2 DEF FirstPick, LoopTest
<1>3. CASE ProcessEvents(c)
  <2>1. pc[c] = "events" => pc'[c] \in {"lb", "abort", "events"}
    BY <1>1, <1>3 DEF ProcessEvents, EventsDone, NewTask, AwakeTask, CompleteAwake, Wake, threadVars
  <2>2. pc[c] \in {"boot", "events"}
    BY <1>3 DEF ProcessEvents, EventsDone, NewTask, AwakeTask, CompleteAwake, TakesEvent
  <2> QED BY <1>3, <2>1, <2>2
<1>4. CASE SchedulerTick(c)
  BY <1>1, <1>4 DEF SchedulerTick, TickIdle, TickRun, TickComplete, TickSleep, ChargeTick
<1>5. CASE LoadBalance(c)
  BY <1>1, <1>5 DEF LoadBalance, LbSkip, LbStart, LbScan, LbBalanced, LbNeither, LbChoose, LockLower,
                    UnlockOwn, LockHigher, LockOwn, LockStep, Steal, LbStale, Move, EndTrial, LbFinish
<1>6. CASE Schedule(c) \/ SynchronizeCpus(c)
  BY <1>1, <1>6 DEF Schedule, SchedKeep, SchedSwitch, SynchronizeCpus, SyncAlone, Arrive, Count
<1> QED BY <1>2, <1>3, <1>4, <1>5, <1>6 DEF Thread

\* Several CPUs: until all have made their first pick, no event is due.
LEMMA NothingDue ==
  ASSUME ArrivesInTime, StepsTogether, TypeInv, PlaceInv, RealInv, NrCpus # 1,
         NEW d \in Cpus, pc[d] \in BeforePick,
         NEW c \in Cpus, NEW t \in Tasks, TakesEvent(c, t)
  PROVE  FALSE
<1>1. /\ t \in ToSet(events[c]) /\ state[t] \in {"STARTING", "SLEEP"} /\ main # "add"
  BY EventTaken
<1>2. state[t] = "STARTING"
  BY DEF RealInv, EarlyKept
<1>3. timeout[t] = conf.task[t].arrival
  BY <1>1, <1>2 DEF RealInv, TimeKept
<1>4. timeout[t] = Entering(c) /\ pc[c] \in {"boot", "events"}
  BY DEF TakesEvent, Due
<1>5. step[d] = 0
  BY DEF PlaceInv, ThreadKept, BeforePick
<1>6. step[c] = 0
  BY <1>4, <1>5 DEF StepsTogether, BeforePick
<1>7. Entering(c) < 2
  BY <1>6 DEF Entering
<1>8. conf.task[t].arrival >= 2 /\ conf.task[t].arrival \in Nat
  <2>1. conf \in Configurations
    BY DEF TypeInv, TypeOK
  <2> QED BY <2>1, ConfigurationsAssumption DEF ArrivesInTime, IsConfiguration
<1> QED BY <1>3, <1>4, <1>7, <1>8

LEMMA AllStarting ==
  ASSUME ArrivesInTime, StepsTogether, TypeInv, PlaceInv, RealInv, NrCpus # 1,
         NEW d \in Cpus, pc[d] \in BeforePick, NEW c \in Cpus, Thread(c)
  PROVE  \A t \in Tasks : state'[t] = "STARTING"
<1>1. \A t \in Tasks : state[t] = "STARTING"
  BY DEF RealInv, EarlyKept
<1>2. \A t \in Tasks : ~NewTask(c, t) /\ ~AwakeTask(c, t) /\ ~CompleteAwake(c, t)
  BY NothingDue DEF NewTask, AwakeTask, CompleteAwake
<1>3. \A e \in Cpus : queue[e] = <<>>
  <2>1. ASSUME NEW e \in Cpus, queue[e] # <<>> PROVE FALSE
    <3>1. PICK t \in Tasks : t \in ToSet(queue[e])
      BY <2>1, HeadOfQueue
    <3>2. state[t] = "RUNNABLE"
      BY <3>1, QueuedOnly
    <3> QED BY <1>1, <3>2
  <2> QED BY <2>1
<1>4. \A e \in Cpus, t \in Tasks : cur[e] # t
  BY <1>1 DEF PlaceInv, TaskKept
<1>5. CASE SchedSwitch(c)
  <2>1. PICK prev, again, q, next, rest : Switched(c, prev, again, q, next, rest)
    BY <1>5, SwitchHappens
  <2>2. /\ prev \in Tasks \cup {Idle} /\ prev = cur[c] /\ (again => prev \in Tasks)
        /\ next # Idle /\ next # prev => next \in Tasks /\ state[next] = "RUNNABLE"
        /\ next # Idle /\ next = prev => again
        /\ \A u \in Tasks : u # next /\ u # prev => state'[u] = state[u]
    BY <2>1, Zenon DEF Switched
  <2>3. prev = Idle
    BY <1>4, <2>2
  <2>4. next = Idle
    BY <1>1, <2>2, <2>3
  <2>5. \A u \in Tasks : u # Idle
    BY SchedSimAssumption DEF Tasks, Idle
  <2> QED BY <1>1, <2>2, <2>3, <2>4, <2>5
<1>6. CASE FirstPick(c)
  BY <1>1, <1>3, <1>6 DEF FirstPick
<1>7. CASE SchedulerTick(c)
  <2>1. TickIdle(c)
    BY <1>4, <1>7 DEF SchedulerTick, TickRun, TickComplete, TickSleep, ChargeTick
  <2> QED BY <1>1, <2>1 DEF TickIdle, burstVars
<1>8. CASE LoopTest(c) \/ EventsDone(c) \/ SchedKeep(c) \/ SynchronizeCpus(c)
  BY <1>1, <1>8 DEF LoopTest, EventsDone, SchedKeep, SynchronizeCpus, SyncAlone, Arrive, Count, burstVars
<1>9. CASE LoadBalance(c)
  BY <1>1, <1>9 DEF LoadBalance, LbSkip, LbStart, LbScan, LbBalanced, LbNeither, LbChoose, LockLower,
                    UnlockOwn, LockHigher, LockOwn, LockStep, Steal, LbStale, Move, burstVars
<1> QED BY <1>2, <1>5, <1>6, <1>7, <1>8, <1>9 DEF Thread, ProcessEvents, Schedule

LEMMA EarlyStays ==
  ASSUME ArrivesInTime, StepsTogether, TypeInv, PlaceInv, PlaceInv', RealInv,
         NEW c \in Cpus, Thread(c), NEW d \in Cpus
  PROVE  EarlyKept(d)'
<1>1. SUFFICES ASSUME pc'[d] \in BeforePick PROVE EarlyKept(d)'
  BY DEF EarlyKept
<1>2. pc[d] \in BeforePick
  <2>1. CASE d = c
    BY <1>1, <2>1, EarlySteps DEF BeforePick
  <2>2. CASE d # c
    BY <1>1, <2>2, OthersKept
  <2> QED BY <2>1, <2>2
<1>3. CASE NrCpus # 1
  BY <1>2, <1>3, AllStarting DEF EarlyKept
<1>4. CASE NrCpus = 1
  <2>1. d = c
    BY <1>4 DEF Cpus
  <2>2. pc[c] = "boot" /\ ProcessEvents(c)
    BY <1>1, <2>1, EarlySteps
  <2>3. \A t \in ToSet(queue[c]) : lastEnq[t] = 0
    BY <1>2, <1>4, <2>1 DEF RealInv, EarlyKept
  <2>4. SUFFICES \A t \in ToSet(queue'[c]) : lastEnq'[t] = 0
    BY <1>4, <2>1 DEF EarlyKept
  <2>5. ASSUME NEW t \in Tasks, NewTask(c, t) \/ AwakeTask(c, t)
        PROVE  \A u \in ToSet(queue'[c]) : lastEnq'[u] = 0
    <3>1. TakesEvent(c, t)
      BY <2>5 DEF NewTask, AwakeTask
    <3>2. ~onRq[t] /\ t \notin ToSet(queue[c])
      BY <3>1, EventTaken
    <3>3. PICK i : Wake(c, t, i)
      BY <2>5 DEF NewTask, AwakeTask
    <3>4. PICK tk : tk = ticks'
      OBVIOUS
    <3>5. Enqueue(c, t, tk) /\ lastEnq' = [lastEnq EXCEPT ![t] = Entering(c)]
      BY <3>3, <3>4 DEF Wake
    <3>6. ToSet(queue'[c]) = ToSet(queue[c]) \cup {t}
      BY <3>2, <3>5, Enqueued
    <3>7. Entering(c) = 0 /\ lastEnq \in [Tasks -> Int]
      BY <2>2 DEF Entering, TypeInv, TypeOK
    <3>8. ToSet(queue[c]) \subseteq Tasks
      <4>1. PICK q \in Seq(Tasks) : q = queue[c]
        BY DEF TypeInv, TypeOK
      <4> QED BY <4>1, ElementsAt
    <3> QED BY <2>3, <3>5, <3>6, <3>7, <3>8
  <2>6. CASE EventsDone(c) \/ \E t \in Tasks : CompleteAwake(c, t)
    <3>1. UNCHANGED <<queue, lastEnq>>
      BY <2>6 DEF EventsDone, CompleteAwake, rqVars, burstVars
    <3> QED BY <2>3, <3>1
  <2> QED BY <2>2, <2>5, <2>6 DEF ProcessEvents
<1> QED BY <1>3, <1>4

\* A task enters its queue at the very time its event is for.
LEMMA WakeTimes ==
  ASSUME TypeInv, PlaceInv, PlaceInv', RealInv, NEW c \in Cpus, NEW t \in Tasks,
         NewTask(c, t) \/ AwakeTask(c, t)
  PROVE  \A u \in Tasks : TimeKept(u)'
<1>0. /\ Thread(c) /\ conf' = conf /\ pc \in [Cpus -> PcPlaces]
      /\ state \in [Tasks -> TaskStates] /\ lastEnq \in [Tasks -> Int]
      /\ conf.task[t].arrival \in Nat /\ timeout[t] \in Int
  <2>1. Thread(c)
    BY DEF Thread, ProcessEvents
  <2>2. conf \in Configurations
    BY DEF TypeInv, TypeOK
  <2>3. conf.task[t].arrival \in Nat
    BY <2>2, ConfigurationsAssumption DEF IsConfiguration
  <2> QED BY <2>1, <2>3, MainUntouched DEF TypeInv, TypeOK
<1>1. TakesEvent(c, t) /\ timeout[t] = Entering(c)
  BY DEF NewTask, AwakeTask, TakesEvent, Due
<1>2. state[t] \in {"STARTING", "SLEEP"} /\ main # "add"
  BY <1>1, EventTaken
<1>3. PICK i : Wake(c, t, i)
  BY DEF NewTask, AwakeTask
<1>4. /\ state' = [state EXCEPT ![t] = "RUNNABLE"] /\ lastEnq' = [lastEnq EXCEPT ![t] = Entering(c)]
      /\ pc' = IF IsIoPhase(i) THEN [pc EXCEPT ![c] = "abort"] ELSE pc
      /\ UNCHANGED <<step, cur, realTime, timeout>>
  BY <1>3 DEF Wake, timeVars
<1>5. pc'[c] = pc[c]
  <2>1. pc'[c] # "abort"
    BY DEF PlaceInv, ThreadKept
  <2> QED BY <1>0, <1>4, <2>1
<1>6. Now(c)' = Now(c)
  BY <1>4, <1>5 DEF Now
<1>7. ASSUME NEW u \in Tasks, u # t PROVE TimeKept(u)'
  <2>1. TimeKept(u)
    BY DEF RealInv
  <2> QED BY <1>0, <1>4, <1>6, <1>7, <2>1, OthersTime
<1>8. TimeKept(t)'
  <2>1. realTime[t] = timeout[t] - conf.task[t].arrival
    <3>1. TimeKept(t)
      BY DEF RealInv
    <3> QED BY <1>0, <1>2, <3>1 DEF TimeKept
  <2>2. state'[t] = "RUNNABLE" /\ lastEnq'[t] = timeout[t]
    BY <1>0, <1>1, <1>4
  <2> QED BY <1>0, <1>4, <2>1, <2>2 DEF TimeKept
<1> QED BY <1>7, <1>8

LEMMA CompleteAwakeTimes ==
  ASSUME TypeInv, RealInv, NEW c \in Cpus, NEW t \in Tasks, CompleteAwake(c, t)
  PROVE  \A u \in Tasks : TimeKept(u)'
<1>0. Thread(c) /\ state \in [Tasks -> TaskStates]
  BY DEF Thread, ProcessEvents, TypeInv, TypeOK
<1>1. /\ state' = [state EXCEPT ![t] = "COMPLETED"]
      /\ UNCHANGED <<pc, step, cur, realTime, lastEnq, timeout>>
  BY DEF CompleteAwake, threadVars, rqVars, timeVars
<1>2. Now(c)' = Now(c)
  BY <1>1 DEF Now
<1>3. ASSUME NEW u \in Tasks, u # t PROVE TimeKept(u)'
  <2>1. TimeKept(u)
    BY DEF RealInv
  <2> QED BY <1>0, <1>1, <1>2, <1>3, <2>1, OthersTime
<1>4. TimeKept(t)'
  BY <1>0, <1>1 DEF TimeKept
<1> QED BY <1>3, <1>4

\* The first pick charges nothing: the task has waited for no time.
LEMMA FirstPickTimes ==
  ASSUME TypeInv, PlaceInv, RealInv, NEW c \in Cpus, FirstPick(c)
  PROVE  \A u \in Tasks : TimeKept(u)'
<1>0. /\ Thread(c) /\ conf' = conf /\ pc \in [Cpus -> PcPlaces] /\ cur \in [Cpus -> Tasks \cup {Idle}]
      /\ state \in [Tasks -> TaskStates]
  <2>1. Thread(c)
    BY DEF Thread
  <2> QED BY <2>1, MainUntouched DEF TypeInv, TypeOK
<1>1. /\ pc[c] = "pick" /\ pc' = [pc EXCEPT ![c] = "loop"]
      /\ UNCHANGED <<step, realTime, lastEnq, timeout>>
  BY DEF FirstPick, timeVars, eventVars
<1>2. Now(c)' = Now(c) /\ Now(c)' = step[c]
  BY <1>0, <1>1 DEF Now
<1>3. CASE queue[c] = <<>>
  <2>1. UNCHANGED <<state, cur>>
    BY <1>3 DEF FirstPick
  <2> QED BY <1>0, <1>1, <1>2, <2>1, TimesStay DEF RealInv
<1>4. CASE queue[c] # <<>>
  <2>1. PICK t \in Tasks : t = Head(queue[c]) /\ t \in ToSet(queue[c])
    BY <1>4, HeadOfQueue
  <2>2. cur' = [cur EXCEPT ![c] = t] /\ state' = [state EXCEPT ![t] = "ONPROC"]
    BY <1>4, <2>1 DEF FirstPick
  <2>3. state[t] = "RUNNABLE" /\ \A d \in Cpus : cur[d] # t
    BY <2>1, QueuedOnly
  <2>4. lastEnq[t] = 0 /\ step[c] = 0
    BY <1>1, <2>1, <2>3 DEF RealInv, EarlyKept, BeforePick, PlaceInv, ThreadKept
  <2>5. realTime[t] = step[c] - conf.task[t].arrival
    BY <2>3, <2>4 DEF RealInv, TimeKept
  <2>6. TimeKept(t)'
    <3>1. \A d \in Cpus : cur'[d] = t => d = c
      BY <1>0, <2>2, <2>3
    <3>2. state'[t] = "ONPROC"
      BY <1>0, <2>2
    <3> QED BY <1>0, <1>1, <1>2, <2>5, <3>1, <3>2 DEF TimeKept
  <2>7. ASSUME NEW u \in Tasks, u # t PROVE TimeKept(u)'
    <3>1. TimeKept(u)
      BY DEF RealInv
    <3>2. cur'[c] # u /\ state'[u] = state[u]
      BY <1>0, <2>2, <2>7
    <3> QED BY <1>0, <1>1, <3>1, <3>2, OthersTime
  <2> QED BY <2>6, <2>7
<1> QED BY <1>3, <1>4

\* A tick is charged when it is over; I/O in advance, up to the wake-up.
LEMMA TickTimes ==
  ASSUME TypeInv, PlaceInv, RealInv, NEW c \in Cpus, NEW t \in Tasks,
         TickRun(c, t) \/ TickComplete(c, t) \/ TickSleep(c, t)
  PROVE  \A u \in Tasks : TimeKept(u)'
<1>0. /\ Thread(c) /\ conf' = conf /\ conf \in Configurations /\ pc \in [Cpus -> PcPlaces]
      /\ cur \in [Cpus -> Tasks \cup {Idle}] /\ state \in [Tasks -> TaskStates]
      /\ realTime \in [Tasks -> Int] /\ step \in [Cpus -> Nat] /\ timeout \in [Tasks -> Int]
      /\ phase \in [Tasks -> Nat] /\ t # Idle
  <2>1. Thread(c)
    BY DEF Thread, SchedulerTick
  <2>2. t # Idle
    BY SchedSimAssumption DEF Tasks, Idle
  <2> QED BY <2>1, <2>2, MainUntouched DEF TypeInv, TypeOK
<1>1. pc[c] = "tick" /\ cur[c] = t /\ UNCHANGED <<step, cur, lastEnq>>
  BY DEF TickRun, TickComplete, TickSleep, ChargeTick
<1>2. OnProc(c)
  BY <1>0, <1>1 DEF PlaceInv, ThreadKept, Leaving, LbPlaces
<1>3. state[t] = "ONPROC" /\ \A d \in Cpus : d # c => cur[d] # t
  BY <1>1, <1>2, OnProcOnly
<1>4. PICK arr : arr = conf.task[t].arrival
  OBVIOUS
<1>5. arr \in Int /\ realTime[t] = step[c] - arr
  <2>1. Now(c) = step[c]
    BY <1>1 DEF Now
  <2>2. realTime[t] = Now(c) - arr
    BY <1>1, <1>3, <1>4 DEF RealInv, TimeKept
  <2>3. arr \in Nat
    BY <1>0, <1>4, ConfigurationsAssumption DEF IsConfiguration
  <2> QED BY <2>1, <2>2, <2>3
<1>6. PICK io \in Int : /\ realTime' = [realTime EXCEPT ![t] = @ + 1 + io]
                        /\ \/ TickRun(c, t) /\ io = 0
                           \/ TickComplete(c, t)
                           \/ TickSleep(c, t) /\ io = PhaseLen(t, phase[t] + 1)
  <2>1. CASE TickRun(c, t) \/ TickComplete(c, t)
    <3>1. realTime' = [realTime EXCEPT ![t] = @ + 1 + 0]
      BY <2>1 DEF TickRun, TickComplete, ChargeTick
    <3>2. PICK io \in Int : io = 0
      OBVIOUS
    <3> QED BY <2>1, <3>1, <3>2
  <2>2. CASE TickSleep(c, t)
    <3>1. PhaseLen(t, phase[t] + 1) \in Nat
      BY <1>0, <2>2, ConfigurationTypes DEF TickSleep
    <3>2. PICK io \in Int : io = PhaseLen(t, phase[t] + 1)
      BY <3>1
    <3>3. realTime' = [realTime EXCEPT ![t] = @ + 1 + io]
      BY <2>2, <3>2 DEF TickSleep, ChargeTick
    <3> QED BY <2>2, <3>2, <3>3
  <2> QED BY <2>1, <2>2
<1>7. realTime'[t] = step[c] - arr + 1 + io
  BY <1>0, <1>5, <1>6
<1>8. ASSUME NEW u \in Tasks, u # t PROVE TimeKept(u)'
  <2>1. TimeKept(u)
    BY DEF RealInv
  <2>2. realTime'[u] = realTime[u] /\ state'[u] = state[u] /\ lastEnq'[u] = lastEnq[u] /\ cur'[c] # u
    BY <1>0, <1>1, <1>6, <1>8 DEF TickRun, TickComplete, TickSleep
  <2>3. timeout'[u] = timeout[u]
    BY <1>0, <1>8 DEF TickRun, TickComplete, TickSleep, eventVars, InsertEvent
  <2> QED BY <1>0, <2>1, <2>2, <2>3, OthersTime
<1>9. TimeKept(t)'
  <2>1. CASE TickRun(c, t) /\ io = 0
    <3>1. pc'[c] = "events" /\ state'[t] = "ONPROC"
      BY <1>0, <1>3, <2>1 DEF TickRun
    <3>2. Now(c)' = step[c] + 1
      BY <1>1, <3>1 DEF Now
    <3>3. realTime'[t] = Now(c)' - conf'.task[t].arrival
      BY <1>0, <1>4, <1>5, <1>7, <2>1, <3>2
    <3>4. \A d \in Cpus : cur'[d] = t => d = c
      BY <1>1, <1>3
    <3> QED BY <3>1, <3>3, <3>4 DEF TimeKept
  <2>2. CASE TickComplete(c, t)
    <3>1. state'[t] = "COMPLETED"
      BY <1>0, <2>2 DEF TickComplete
    <3> QED BY <3>1 DEF TimeKept
  <2>3. CASE TickSleep(c, t) /\ io = PhaseLen(t, phase[t] + 1)
    <3>1. state'[t] = "SLEEP" /\ timeout'[t] = step[c] + io + 1
      BY <1>0, <2>3 DEF TickSleep, InsertEvent
    <3>2. realTime'[t] = timeout'[t] - conf'.task[t].arrival
      BY <1>0, <1>4, <1>5, <1>7, <3>1
    <3> QED BY <3>1, <3>2 DEF TimeKept
  <2> QED BY <1>6, <2>1, <2>2, <2>3
<1> QED BY <1>8, <1>9

\* A task that changes queues is charged what it has waited on the old one.
LEMMA MoveTimes ==
  ASSUME TypeInv, PlaceInv, RealInv, NEW c \in Cpus, NEW t \in Tasks, Move(c, t)
  PROVE  \A u \in Tasks : TimeKept(u)'
<1>0. /\ Thread(c) /\ conf' = conf /\ conf.task[t].arrival \in Nat /\ pc \in [Cpus -> PcPlaces]
      /\ realTime \in [Tasks -> Int] /\ lastEnq \in [Tasks -> Int] /\ step \in [Cpus -> Nat]
  <2>1. Thread(c)
    BY DEF Thread, LoadBalance
  <2>2. conf \in Configurations
    BY DEF TypeInv, TypeOK
  <2>3. conf.task[t].arrival \in Nat
    BY <2>2, ConfigurationsAssumption DEF IsConfiguration
  <2> QED BY <2>1, <2>3, MainUntouched DEF TypeInv, TypeOK
<1>1. /\ pc[c] = "move" /\ stolen[c] = t /\ UNCHANGED <<step, cur, state, timeout>>
      /\ realTime' = [realTime EXCEPT ![t] = @ + Waited(c, t)]
      /\ lastEnq' = [lastEnq EXCEPT ![t] = step[c] + 1]
  BY DEF Move, eventVars
<1>2. pc'[c] \in {"sched", "scan"}
  BY <1>0 DEF Move, EndTrial, LbFinish
<1>3. Now(c)' = Now(c)
  BY <1>1, <1>2 DEF Now
<1>4. state[t] = "RUNNABLE"
  <2>1. TaskKept(t)
    BY DEF PlaceInv
  <2> QED BY <1>1, <2>1, Zenon DEF TaskKept
<1>5. TimeKept(t)'
  <2>1. realTime[t] = lastEnq[t] - conf.task[t].arrival
    BY <1>4 DEF RealInv, TimeKept
  <2>2. realTime'[t] = realTime[t] + (step[c] - lastEnq[t] + 1) /\ lastEnq'[t] = step[c] + 1
    BY <1>0, <1>1 DEF Waited
  <2>3. realTime'[t] = lastEnq'[t] - conf'.task[t].arrival
    BY <1>0, <2>1, <2>2
  <2> QED BY <1>1, <1>4, <2>3 DEF TimeKept
<1>6. ASSUME NEW u \in Tasks, u # t PROVE TimeKept(u)'
  <2>1. TimeKept(u)
    BY DEF RealInv
  <2> QED BY <1>0, <1>1, <1>3, <1>6, <2>1, OthersTime
<1> QED BY <1>5, <1>6

\* schedule() charges the next task what it has waited; the one it replaces begins
\* to wait.
LEMMA SwitchTimes ==
  ASSUME TypeInv, PlaceInv, RealInv, NEW c \in Cpus, SchedSwitch(c)
  PROVE  \A u \in Tasks : TimeKept(u)'
<1>0. /\ Thread(c) /\ conf' = conf /\ conf \in Configurations /\ pc \in [Cpus -> PcPlaces]
      /\ realTime \in [Tasks -> Int] /\ lastEnq \in [Tasks -> Int] /\ step \in [Cpus -> Nat]
      /\ \A u \in Tasks : u # Idle
  <2>1. Thread(c)
    BY DEF Thread, Schedule
  <2>2. \A u \in Tasks : u # Idle
    BY SchedSimAssumption DEF Tasks, Idle
  <2> QED BY <2>1, <2>2, MainUntouched DEF TypeInv, TypeOK
<1>1. PICK prev, again, q, next, rest : Switched(c, prev, again, q, next, rest)
  BY SwitchHappens
<1>2. /\ prev \in Tasks \cup {Idle} /\ prev = cur[c] /\ (next # Idle => next \in Tasks)
      /\ cur'[c] = next /\ (\A d \in Cpus : d # c => cur'[d] = cur[d])
      /\ pc[c] = "sched" /\ pc'[c] = "sync" /\ UNCHANGED <<step, timeout>>
      /\ lastEnq' = [t \in Tasks |-> IF again /\ prev # next /\ t = prev
                                     THEN step[c] + 1 ELSE lastEnq[t]]
      /\ realTime' = [t \in Tasks |-> IF next # Idle /\ prev # next /\ t = next
                                      THEN realTime[t] + Waited(c, t) ELSE realTime[t]]
  BY <1>1, Zenon DEF Switched
<1>3. /\ again => prev \in Tasks /\ state[prev] = "ONPROC" /\ \A d \in Cpus : d # c => cur[d] # prev
      /\ next # Idle /\ next # prev => state[next] = "RUNNABLE" /\ \A d \in Cpus : cur[d] # next
      /\ \A u \in Tasks : u # next /\ u # prev => state'[u] = state[u]
      /\ ~again /\ prev \in Tasks => state'[prev] = state[prev]
      /\ again /\ next # prev => state'[prev] = "RUNNABLE"
      /\ next # Idle => state'[next] = "ONPROC"
      /\ next # Idle /\ next = prev => again
  BY <1>1, Zenon DEF Switched
<1>4. Now(c) = step[c] + 1 /\ Now(c)' = step[c] + 1
  BY <1>2 DEF Now
<1>5. ASSUME NEW u \in Tasks PROVE conf.task[u].arrival \in Int /\ TimeKept(u)
  <2>1. conf.task[u].arrival \in Nat
    BY <1>0, ConfigurationsAssumption DEF IsConfiguration
  <2> QED BY <2>1 DEF RealInv
<1>6. ASSUME NEW u \in Tasks, u = next, next # prev PROVE TimeKept(u)'
  <2>1. state[u] = "RUNNABLE" /\ state'[u] = "ONPROC" /\ \A d \in Cpus : cur'[d] = u => d = c
    BY <1>0, <1>2, <1>3, <1>6
  <2>2. realTime[u] = lastEnq[u] - conf.task[u].arrival
    BY <1>5, <2>1 DEF TimeKept
  <2>3. realTime'[u] = realTime[u] + (step[c] - lastEnq[u] + 1)
    BY <1>0, <1>2, <1>6 DEF Waited
  <2>4. realTime'[u] = Now(c)' - conf'.task[u].arrival
    BY <1>0, <1>4, <1>5, <2>2, <2>3
  <2> QED BY <2>1, <2>4 DEF TimeKept
<1>7. ASSUME NEW u \in Tasks, u = prev, again, next # prev PROVE TimeKept(u)'
  <2>1. state[u] = "ONPROC" /\ state'[u] = "RUNNABLE"
    BY <1>3, <1>7
  <2>2. realTime[u] = Now(c) - conf.task[u].arrival
    BY <1>2, <1>5, <1>7, <2>1 DEF TimeKept
  <2>3. realTime'[u] = realTime[u] /\ lastEnq'[u] = step[c] + 1
    BY <1>2, <1>7
  <2> QED BY <1>0, <1>4, <2>1, <2>2, <2>3 DEF TimeKept
<1>8. ASSUME NEW u \in Tasks, u = next, next = prev PROVE TimeKept(u)'
  <2>1. state'[u] = state[u] /\ cur[c] = u
    BY <1>0, <1>2, <1>3, <1>8
  <2>2. realTime'[u] = realTime[u] /\ lastEnq'[u] = lastEnq[u] /\ timeout'[u] = timeout[u]
    BY <1>2, <1>8
  <2> QED BY <1>0, <1>4, <1>5, <2>1, <2>2, OthersTime
<1>9. ASSUME NEW u \in Tasks, u # next, ~(u = prev /\ again) PROVE TimeKept(u)'
  <2>1. state'[u] = state[u]
    BY <1>3, <1>9
  <2>2. realTime'[u] = realTime[u] /\ lastEnq'[u] = lastEnq[u] /\ timeout'[u] = timeout[u]
    BY <1>2, <1>9
  <2>3. cur'[c] # u
    BY <1>2, <1>9
  <2> QED BY <1>0, <1>5, <2>1, <2>2, <2>3, OthersTime
<1> QED BY <1>6, <1>7, <1>8, <1>9

LEMMA ThreadTimes ==
  ASSUME TypeInv, PlaceInv, PlaceInv', RealInv, NEW c \in Cpus, Thread(c)
  PROVE  \A u \in Tasks : TimeKept(u)'
<1>0. pc \in [Cpus -> PcPlaces] /\ step \in [Cpus -> Nat] /\ \A u \in Tasks : TimeKept(u)
  BY DEF TypeInv, TypeOK, RealInv
<1>1. CASE EventsDone(c) \/ TickIdle(c) \/ SchedKeep(c) \/ SynchronizeCpus(c)
  <2>1. UNCHANGED <<step, state, realTime, lastEnq, timeout, cur>>
    BY <1>1 DEF EventsDone, TickIdle, SchedKeep, SynchronizeCpus, SyncAlone, Arrive, Count,
                rqVars, timeVars, burstVars, eventVars
  <2>2. cur[c] # Idle => Now(c)' = Now(c)
    BY <1>0, <1>1, <2>1 DEF EventsDone, TickIdle, SchedKeep, SynchronizeCpus, SyncAlone, Arrive, Count, Now
  <2> QED BY <1>0, <2>1, <2>2, TimesStay
<1>2. CASE LoopTest(c)
  <2>1. UNCHANGED <<state, realTime, lastEnq, timeout, cur>>
    BY <1>2 DEF LoopTest, rqVars, timeVars, burstVars, eventVars
  <2>2. Now(c)' = Now(c)
    BY <1>0, <1>2 DEF LoopTest, Now
  <2> QED BY <1>0, <2>1, <2>2, TimesStay
<1>3. CASE LoadBalance(c) /\ ~\E t \in Tasks : Move(c, t)
  <2>1. UNCHANGED <<step, state, realTime, lastEnq, timeout, cur>>
    BY <1>3 DEF LoadBalance, LbSkip, LbStart, LbScan, LbBalanced, LbNeither, LbChoose, LockLower,
                UnlockOwn, LockHigher, LockOwn, LockStep, Steal, LbStale, rqVars, timeVars,
                burstVars, eventVars
  <2>2. pc[c] \in Leaving /\ pc'[c] \in Leaving
    <3>1. pc'[c] # "abort"
      BY DEF PlaceInv, ThreadKept
    <3> QED BY <1>0, <1>3, <3>1
            DEF LoadBalance, LbSkip, LbStart, LbScan, LbBalanced, LbNeither, LbChoose, LockLower,
                UnlockOwn, LockHigher, LockOwn, LockStep, Steal, LbStale, EndTrial, LbFinish,
                Leaving, LbPlaces
  <2>3. Now(c)' = Now(c)
    BY <2>1, <2>2 DEF Now, Leaving, LbPlaces
  <2> QED BY <1>0, <2>1, <2>3, TimesStay
<1> QED BY <1>1, <1>2, <1>3, WakeTimes, CompleteAwakeTimes, FirstPickTimes, TickTimes, MoveTimes,
           SwitchTimes
        DEF Thread, ProcessEvents, SchedulerTick, LoadBalance, Schedule

\* The main thread enters the tasks, each with an event for its arrival.
LEMMA MainTimes ==
  ASSUME TypeInv, PlaceInv, RealInv, Main \/ Barrier0 \/ Barrier1 \/ UNCHANGED vars
  PROVE  RealInv'
<1>0. /\ \A u \in Tasks : TimeKept(u) /\ TaskKept(u)
      /\ timeout \in [Tasks -> Int] /\ nextTask \in 0..NrTasks
  BY DEF RealInv, PlaceInv, TypeInv, TypeOK
<1>1. UNCHANGED <<conf, queue, cur, state, lastEnq, realTime>>
  BY DEF Main, AddTask, CreateThreads, Join, Barrier0, Barrier1, Barrier, vars, rqVars, burstVars, timeVars
<1>2. \A c \in Cpus : Now(c)' = Now(c) /\ (pc'[c] \in BeforePick => pc[c] \in BeforePick)
  BY QuietSteps DEF Now, BeforePick
<1>3. ASSUME NEW c \in Cpus PROVE EarlyKept(c)'
  <2>1. EarlyKept(c)
    BY DEF RealInv
  <2> QED BY <1>1, <1>2, <2>1 DEF EarlyKept
<1>4. ASSUME NEW u \in Tasks PROVE TimeKept(u)'
  <2>1. CASE AddTask /\ u = nextTask
    <3>1. timeout'[u] = conf.task[u].arrival
      BY <1>0, <2>1 DEF AddTask, InsertEvent
    <3>2. state[u] = "STARTING"
      BY <1>0, <2>1 DEF AddTask, TaskKept
    <3>3. realTime[u] = 0
      BY <1>0, <3>2 DEF TimeKept
    <3> QED BY <1>1, <3>1, <3>2, <3>3 DEF TimeKept
  <2>2. CASE AddTask /\ u # nextTask
    <3>1. timeout'[u] = timeout[u] /\ main = "add" /\ main' = main /\ nextTask' = nextTask + 1
      BY <1>0, <2>2 DEF AddTask, InsertEvent
    <3>2. u < nextTask' => u < nextTask
      BY <1>0, <2>2, <3>1, SchedSimAssumption DEF Tasks
    <3>3. TimeLeft(u)
      BY <1>1, <1>2, <3>1, <3>2 DEF TimeLeft
    <3> QED BY <1>0, <3>3, TimeStays
  <2>3. CASE ~AddTask
    <3>1. UNCHANGED timeout
      BY <2>3 DEF Main, CreateThreads, Join, Barrier0, Barrier1, Barrier, vars, eventVars
    <3>2. (main' = "add" => u < nextTask') => (main = "add" => u < nextTask)
      <4>1. CASE CreateThreads
        BY <1>0, <4>1, SchedSimAssumption DEF CreateThreads, Tasks
      <4>2. CASE Join
        BY <4>2 DEF Join
      <4>3. CASE Barrier0 \/ Barrier1 \/ UNCHANGED vars
        BY <4>3 DEF Barrier0, Barrier1, Barrier, vars, mainVars
      <4> QED BY <2>3, <4>1, <4>2, <4>3 DEF Main
    <3>3. TimeLeft(u)
      BY <1>1, <1>2, <3>1, <3>2 DEF TimeLeft
    <3> QED BY <1>0, <3>3, TimeStays
  <2> QED BY <2>1, <2>2, <2>3
<1> QED BY <1>3, <1>4 DEF RealInv

LEMMA NextRealInv ==
  ASSUME ArrivesInTime, StepsTogether, TypeInv, PlaceInv, PlaceInv', RealInv, [Next]_vars
  PROVE  RealInv'
<1>1. ASSUME NEW c \in Cpus, Thread(c) PROVE RealInv'
  <2>1. \A d \in Cpus : EarlyKept(d)'
    BY <1>1, EarlyStays
  <2>2. \A u \in Tasks : TimeKept(u)'
    BY <1>1, ThreadTimes
  <2> QED BY <2>1, <2>2 DEF RealInv
<1> QED BY <1>1, MainTimes DEF Next, Terminated

LEMMA RealInvariance ==
  ASSUME IoTakesTime, ArrivesInTime
  PROVE  Spec => []RealInv
<1>1. Init => RealInv
  <2>1. SUFFICES ASSUME Init PROVE RealInv
    OBVIOUS
  <2>2. ASSUME NEW c \in Cpus PROVE EarlyKept(c)
    <3>1. queue[c] = <<>> /\ \A t \in Tasks : state[t] = "STARTING"
      BY <2>1 DEF Init
    <3>2. ToSet(queue[c]) = {}
      <4>1. <<>> \in Seq(Tasks)
        OBVIOUS
      <4>2. ToSet(<<>>) = {}
        BY <4>1, ElementsAt
      <4> QED BY <3>1, <4>2
    <3> QED BY <3>1, <3>2 DEF EarlyKept
  <2>3. ASSUME NEW t \in Tasks PROVE TimeKept(t)
    BY <2>1, <2>3 DEF Init, TimeKept, Tasks
  <2> QED BY <2>2, <2>3 DEF RealInv
<1>2. ArrivesInTime /\ StepsTogether /\ TypeInv /\ PlaceInv /\ PlaceInv' /\ RealInv /\ [Next]_vars
      => RealInv'
  BY NextRealInv
<1> QED BY <1>1, <1>2, PlaceInvariance, StepsTogetherHolds, PTL DEF Spec

\* real_time is the time since the task's arrival, by whatever pieces it was charged:
\* ticks, I/O in advance, and waits that end with a migration or a context switch.
THEOREM RealTimeIsExact ==
  ASSUME IoTakesTime, ArrivesInTime
  PROVE  Spec => []RealTimeExact
<1>1. TypeInv /\ PlaceInv /\ RealInv => RealTimeExact
  <2>1. SUFFICES ASSUME RealInv, NEW t \in Tasks
                 PROVE  LET since(when) == when - conf.task[t].arrival IN
                        /\ state[t] = "RUNNABLE" => realTime[t] = since(lastEnq[t])
                        /\ state[t] = "SLEEP" => realTime[t] = since(timeout[t])
                        /\ state[t] = "ONPROC" => \A c \in RunningOn(t) : realTime[t] = since(Now(c))
    BY DEF RealTimeExact
  <2>2. TimeKept(t)
    BY <2>1 DEF RealInv
  <2> QED BY <2>2 DEF TimeKept, RunningOn
<1> QED BY <1>1, PlaceInvariance, RealInvariance, PTL

-----------------------------------------------------------------------------
(* Sums over phases *)

\* A non-empty set of natural numbers has a smallest one: what there is of induction
\* for definitions by recursion.
LEMMA SmallestExists ==
  ASSUME NEW T \in SUBSET Nat, T # {}
  PROVE  \E x \in T : \A y \in T : x <= y
<1>1. PICK R : R = {ss \in Nat \X Nat : ss[1] < ss[2]}
  OBVIOUS
<1>2. IsWellFoundedOn(R, Nat)
  BY <1>1, NatLessThanWellFounded DEF OpToRel
<1>3. PICK x \in T : \A y \in T : <<y, x>> \notin R
  BY <1>2, WFMin
<1>4. \A y \in T : ~(y < x)
  BY <1>1, <1>3
<1> QED BY <1>4

LEMMA EveryNatural ==
  ASSUME NEW T \in SUBSET Nat, 0 \in T, \A n \in T : n + 1 \in T
  PROVE  T = Nat
<1>1. SUFFICES ASSUME T # Nat PROVE FALSE
  OBVIOUS
<1>2. Nat \ T # {}
  BY <1>1
<1>3. PICK x \in Nat \ T : \A y \in Nat \ T : x <= y
  BY <1>2, SmallestExists
<1>4. x - 1 \in Nat
  BY <1>3
<1>5. x - 1 \in T
  BY <1>3, <1>4
<1> QED BY <1>3, <1>5

\* The sum of w below n, for every n, is a function.
LEMMA SumsExist ==
  ASSUME NEW w \in [Nat -> Nat]
  PROVE  \E f \in [Nat -> Nat] : f = [n \in Nat |-> IF n = 0 THEN 0 ELSE f[n - 1] + w[n - 1]]
<1> DEFINE Sum(g, n) == /\ g \in [0..n -> Nat] /\ g[0] = 0
                        /\ \A i \in 0..(n - 1) : g[i + 1] = g[i] + w[i]
           T == {n \in Nat : \E g : Sum(g, n)}
           U == {i \in Nat : \A m, n \in Nat : \A g, h :
                   Sum(g, m) /\ Sum(h, n) /\ i <= m /\ i <= n => g[i] = h[i]}
<1>1. T = Nat
  <2>1. 0 \in T
    <3>1. PICK g \in [0..0 -> Nat] : g = [i \in 0..0 |-> 0]
      OBVIOUS
    <3>2. Sum(g, 0)
      BY <3>1
    <3> QED BY <3>2
  <2>2. ASSUME NEW n \in T PROVE n + 1 \in T
    <3>0. n \in Nat /\ \E g : Sum(g, n)
      OBVIOUS
    <3>1. PICK g : Sum(g, n)
      BY <3>0
    <3>2. PICK h : h = [i \in 0..(n + 1) |-> IF i = n + 1 THEN g[n] + w[n] ELSE g[i]]
      OBVIOUS
    <3>3. h \in [0..(n + 1) -> Nat] /\ h[0] = 0
      <4>1. ASSUME NEW i \in 0..(n + 1) PROVE h[i] \in Nat
        <5>1. CASE i = n + 1
          <6>1. g[n] \in Nat /\ w[n] \in Nat
            BY <3>0, <3>1
          <6>2. h[i] = g[n] + w[n]
            BY <3>2, <5>1
          <6>3. \A x, y \in Nat : x + y \in Nat
            OBVIOUS
          <6> HIDE DEF Sum, T, U
          <6> QED BY <6>1, <6>2, <6>3
        <5>2. CASE i # n + 1
          <6>1. i \in 0..n
            BY <3>0, <5>2
          <6>2. h[i] = g[i]
            BY <3>2, <5>2
          <6> QED BY <3>1, <6>1, <6>2
        <5> QED BY <5>1, <5>2
      <4>2. h[0] = 0
        BY <3>0, <3>1, <3>2
      <4> QED BY <3>2, <4>1, <4>2
    <3>4. ASSUME NEW i \in 0..n PROVE h[i + 1] = h[i] + w[i]
      <4>1. CASE i = n
        BY <3>0, <3>2, <4>1
      <4>2. CASE i # n
        BY <3>0, <3>1, <3>2, <4>2
      <4> QED BY <4>1, <4>2
    <3>5. Sum(h, n + 1)
      <4>1. 0..((n + 1) - 1) = 0..n
        BY <3>0
      <4> QED BY <3>3, <3>4, <4>1
    <3>6. n + 1 \in Nat /\ \E x : Sum(x, n + 1)
      <4> HIDE DEF Sum
      <4> QED BY <3>0, <3>5
    <3> HIDE DEF Sum
    <3> QED BY <3>6
  <2> HIDE DEF T
  <2>3. T \in SUBSET Nat
    BY DEF T
  <2> QED BY <2>1, <2>2, <2>3, EveryNatural
<1>2. U = Nat
  <2>1. 0 \in U
    OBVIOUS
  <2>2. ASSUME NEW i \in U PROVE i + 1 \in U
    <3>0. /\ i \in Nat /\ i + 1 \in Nat
          /\ \A m, n \in Nat : \A g, h : Sum(g, m) /\ Sum(h, n) /\ i <= m /\ i <= n => g[i] = h[i]
      <4> HIDE DEF Sum
      <4>1. i \in Nat
        OBVIOUS
      <4> QED BY <4>1
    <3>1. SUFFICES ASSUME NEW m \in Nat, NEW n \in Nat, NEW g, NEW h, Sum(g, m), Sum(h, n),
                          i + 1 <= m, i + 1 <= n
                   PROVE  g[i + 1] = h[i + 1]
      <4> HIDE DEF Sum
      <4> QED BY <3>0
    <3>2. i <= m /\ i <= n /\ i \in 0..(m - 1) /\ i \in 0..(n - 1)
      BY <3>0, <3>1
    <3>3. g[i] = h[i]
      <4> HIDE DEF Sum
      <4> QED BY <3>0, <3>1, <3>2
    <3>4. g[i + 1] = g[i] + w[i] /\ h[i + 1] = h[i] + w[i]
      BY <3>1, <3>2
    <3> QED BY <3>3, <3>4
  <2> HIDE DEF U
  <2>3. U \in SUBSET Nat
    BY DEF U
  <2> QED BY <2>1, <2>2, <2>3, EveryNatural
<1> DEFINE G(n) == CHOOSE g : Sum(g, n)
<1>3. ASSUME NEW n \in Nat PROVE Sum(G(n), n)
  <2>1. \E g : Sum(g, n)
    BY <1>1
  <2> HIDE DEF Sum
  <2> QED BY <2>1
<1> HIDE DEF G
<1>4. PICK f : f = [n \in Nat |-> G(n)[n]]
  OBVIOUS
<1>5. f \in [Nat -> Nat] /\ f[0] = 0
  <2>1. ASSUME NEW n \in Nat PROVE G(n)[n] \in Nat
    BY <1>3
  <2>2. G(0)[0] = 0
    BY <1>3
  <2> QED BY <1>4, <2>1, <2>2
<1>6. ASSUME NEW n \in Nat, n # 0 PROVE f[n] = f[n - 1] + w[n - 1]
  <2>1. PICK k \in Nat : n = k + 1
    <3>1. n - 1 \in Nat /\ n = (n - 1) + 1
      BY <1>6
    <3> QED BY <3>1
  <2>2. Sum(G(n), n) /\ Sum(G(k), k)
    BY <1>3
  <2>3. G(n)[k + 1] = G(n)[k] + w[k]
    BY <2>1, <2>2
  <2>4. G(n)[k] = G(k)[k]
    <3> HIDE DEF Sum
    <3>1. k \in U
      <4> HIDE DEF U
      <4> QED BY <1>2, <2>1
    <3>2. k <= n /\ k <= k
      BY <2>1
    <3> QED BY <2>1, <2>2, <3>1, <3>2
  <2> QED BY <1>4, <2>1, <2>3, <2>4
<1> QED BY <1>4, <1>5, <1>6

-----------------------------------------------------------------------------
(* Work *)

\* What the phases of t before each one amount to, and the next such sum.
Past(t, io) == SumBefore(Lasting(t, io))

LEMMA PastSums ==
  ASSUME conf \in Configurations, NEW t \in Tasks, NEW io \in BOOLEAN
  PROVE  /\ Past(t, io) \in [Nat -> Nat] /\ Past(t, io)[0] = 0
         /\ \A n \in Nat : n < NrPhases(t) =>
              Past(t, io)[n + 1] = Past(t, io)[n] + IF IsIoPhase(n) <=> io THEN PhaseLen(t, n) ELSE 0
<1>1. PICK w : w = Lasting(t, io)
  OBVIOUS
<1>2. ASSUME NEW n \in Nat
      PROVE  /\ w[n] = IF n < NrPhases(t) /\ (IsIoPhase(n) <=> io) THEN PhaseLen(t, n) ELSE 0
             /\ w[n] \in Nat
  <2>1. w[n] = IF n < NrPhases(t) /\ (IsIoPhase(n) <=> io) THEN PhaseLen(t, n) ELSE 0
    BY <1>1 DEF Lasting
  <2>2. n < NrPhases(t) => PhaseLen(t, n) \in Nat
    BY ConfigurationTypes
  <2> QED BY <2>1, <2>2
<1>3. w \in [Nat -> Nat]
  <2>1. w = [n \in Nat |-> w[n]]
    BY <1>1 DEF Lasting
  <2> QED BY <1>2, <2>1
<1>4. PICK f : f = SumBefore(w)
  OBVIOUS
<1>5. f = [n \in Nat |-> IF n = 0 THEN 0 ELSE f[n - 1] + w[n - 1]] /\ f \in [Nat -> Nat]
  <2>1. \E g : g = [n \in Nat |-> IF n = 0 THEN 0 ELSE g[n - 1] + w[n - 1]]
    BY <1>3, SumsExist
  <2>2. f = [n \in Nat |-> IF n = 0 THEN 0 ELSE f[n - 1] + w[n - 1]]
    BY <1>4, <2>1 DEF SumBefore
  <2>3. f \in [Nat -> Nat]
    <3>1. PICK T \in SUBSET Nat : T = {n \in Nat : f[n] \in Nat}
      OBVIOUS
    <3>2. f[0] = 0
      BY <2>2
    <3>3. ASSUME NEW n \in T PROVE n + 1 \in T
      <4>1. n \in Nat /\ f[n] \in Nat /\ w[n] \in Nat
        BY <1>2, <3>1
      <4>2. n + 1 \in Nat /\ n + 1 # 0 /\ (n + 1) - 1 = n
        BY <4>1
      <4>3. f[n + 1] = f[n] + w[n]
        BY <2>2, <4>2
      <4> QED BY <3>1, <4>1, <4>2, <4>3
    <3>4. T = Nat
      BY <3>1, <3>2, <3>3, EveryNatural
    <3>5. \A n \in Nat : f[n] \in Nat
      BY <3>1, <3>4
    <3> QED BY <2>2, <3>5
  <2> QED BY <2>2, <2>3
<1>6. f = Past(t, io)
  BY <1>1, <1>4 DEF Past
<1>7. ASSUME NEW n \in Nat PROVE f[n + 1] = f[n] + w[n]
  <2>1. n + 1 \in Nat /\ n + 1 # 0 /\ (n + 1) - 1 = n
    OBVIOUS
  <2> QED BY <1>5, <2>1
<1>8. f[0] = 0
  BY <1>5
<1>9. \A n \in Nat : n < NrPhases(t) => f[n + 1] = f[n] + IF IsIoPhase(n) <=> io THEN PhaseLen(t, n) ELSE 0
  BY <1>2, <1>7
<1> QED BY <1>5, <1>6, <1>8, <1>9

\* WorkConserved, with what it takes: a task that is not through is on one of its
\* phases, and one that has not arrived on the first.
WorkKept(t) ==
    /\ state[t] = "STARTING" => phase[t] = 0
    /\ state[t] # "COMPLETED" => phase[t] < NrPhases(t)
    /\ userTime[t] = Past(t, FALSE)[phase[t]]
                       + IF state[t] \in {"RUNNABLE", "ONPROC"} THEN PhaseLen(t, phase[t]) - ticks[t] ELSE 0
    /\ sysTime[t] = Past(t, TRUE)[phase[t]]
                       + IF state[t] = "SLEEP" THEN PhaseLen(t, phase[t]) ELSE 0

WorkInv == \A t \in Tasks : WorkKept(t)

LEMMA PastStays ==
  ASSUME conf' = conf, NEW t \in Tasks
  PROVE  /\ \A io \in BOOLEAN : Past(t, io)' = Past(t, io)
         /\ NrPhases(t)' = NrPhases(t)
         /\ \A i \in Nat : PhaseLen(t, i)' = PhaseLen(t, i)
<1>1. NrPhases(t)' = NrPhases(t) /\ \A i \in Nat : PhaseLen(t, i)' = PhaseLen(t, i)
  BY DEF NrPhases, PhaseLen
<1>2. ASSUME NEW io \in BOOLEAN PROVE Past(t, io)' = Past(t, io)
  <2>1. Lasting(t, io)' = Lasting(t, io)
    BY <1>1 DEF Lasting
  <2> QED BY <2>1 DEF Past
<1> QED BY <1>1, <1>2

\* The end of a phase: it is CPU time, or I/O.
LEMMA PhaseOver ==
  ASSUME conf \in Configurations, NEW t \in Tasks, NEW n \in Nat, n < NrPhases(t)
  PROVE  /\ Past(t, FALSE)[n + 1] = Past(t, FALSE)[n] + IF IsIoPhase(n) THEN 0 ELSE PhaseLen(t, n)
         /\ Past(t, TRUE)[n + 1] = Past(t, TRUE)[n] + IF IsIoPhase(n) THEN PhaseLen(t, n) ELSE 0
<1>1. ASSUME NEW io \in BOOLEAN
      PROVE  Past(t, io)[n + 1] = Past(t, io)[n] + IF IsIoPhase(n) <=> io THEN PhaseLen(t, n) ELSE 0
  BY PastSums
<1>2. Past(t, FALSE)[n + 1] = Past(t, FALSE)[n] + IF IsIoPhase(n) <=> FALSE THEN PhaseLen(t, n) ELSE 0
  BY <1>1
<1>3. Past(t, TRUE)[n + 1] = Past(t, TRUE)[n] + IF IsIoPhase(n) <=> TRUE THEN PhaseLen(t, n) ELSE 0
  BY <1>1
<1> QED BY <1>2, <1>3

\* A task whose burst goes on as before, on a processor, a queue or between two.
WorkLeft(t) ==
    /\ state'[t] = state[t] \/ {state[t], state'[t]} \subseteq {"RUNNABLE", "ONPROC"}
    /\ phase'[t] = phase[t] /\ ticks'[t] = ticks[t]
    /\ userTime'[t] = userTime[t] /\ sysTime'[t] = sysTime[t]

LEMMA WorkStays ==
  ASSUME conf' = conf, NEW t \in Tasks, phase[t] \in Nat, WorkKept(t), WorkLeft(t)
  PROVE  WorkKept(t)'
<1>1. PICK past : past = [io \in BOOLEAN |-> Past(t, io)]
  OBVIOUS
<1>2. PICK nr, len : nr = NrPhases(t) /\ len = PhaseLen(t, phase[t])
  OBVIOUS
<1>3. /\ Past(t, FALSE) = past[FALSE] /\ Past(t, FALSE)' = past[FALSE]
      /\ Past(t, TRUE) = past[TRUE] /\ Past(t, TRUE)' = past[TRUE]
  BY <1>1, PastStays
<1>4. NrPhases(t)' = nr /\ PhaseLen(t, phase[t])' = len
  BY <1>2 DEF WorkLeft, NrPhases, PhaseLen
<1>5. phase'[t] = phase[t]
  BY DEF WorkLeft
<1> QED BY <1>2, <1>3, <1>4, <1>5 DEF WorkKept, WorkLeft

\* An event starts the first phase of a task, or the one after its I/O.
LEMMA WakeWork ==
  ASSUME TypeInv, PlaceInv, WorkInv, NEW c \in Cpus, NEW t \in Tasks,
         NewTask(c, t) \/ AwakeTask(c, t) \/ CompleteAwake(c, t)
  PROVE  WorkInv'
<1>0. /\ conf' = conf /\ conf \in Configurations /\ phase \in [Tasks -> Nat] /\ ticks \in [Tasks -> Int]
      /\ state \in [Tasks -> TaskStates] /\ userTime \in [Tasks -> Nat] /\ sysTime \in [Tasks -> Nat]
  <2>1. Thread(c)
    BY DEF Thread, ProcessEvents
  <2> QED BY <2>1, MainUntouched DEF TypeInv, TypeOK
<1>1. UNCHANGED <<userTime, sysTime>>
  BY DEF NewTask, AwakeTask, CompleteAwake, Wake, timeVars
<1>2. state[t] \in {"STARTING", "SLEEP"} /\ (state[t] = "SLEEP" => IsIoPhase(phase[t]))
  <2>1. TakesEvent(c, t)
    BY DEF NewTask, AwakeTask, CompleteAwake
  <2> QED BY <2>1, EventTaken DEF PlaceInv, TaskKept
<1>3. ASSUME NEW u \in Tasks, u # t PROVE WorkKept(u)'
  <2>1. WorkLeft(u)
    BY <1>0, <1>1, <1>3 DEF WorkLeft, NewTask, AwakeTask, CompleteAwake, Wake
  <2> QED BY <1>0, <2>1, WorkStays DEF WorkInv
<1>4. PICK n \in Nat : n = phase[t]
  BY <1>0
<1>5. PICK nr : nr = NrPhases(t)
  OBVIOUS
<1>6. PICK uf \in [Nat -> Nat] : uf = Past(t, FALSE)
  BY <1>0, PastSums
<1>7. PICK sf \in [Nat -> Nat] : sf = Past(t, TRUE)
  BY <1>0, PastSums
<1>8. PICK len : len = [i \in Nat |-> PhaseLen(t, i)]
  OBVIOUS
<1>9. /\ nr \in Nat \ {0} /\ n < nr /\ \A i \in Nat : i < nr => len[i] \in Nat
      /\ (state[t] = "STARTING" => n = 0)
      /\ userTime[t] = uf[n] + 0
      /\ sysTime[t] = sf[n] + IF state[t] = "SLEEP" THEN len[n] ELSE 0
  <2>1. nr \in Nat \ {0} /\ \A i \in Nat : i < nr => len[i] \in Nat
    BY <1>0, <1>5, <1>8, ConfigurationTypes
  <2>2. WorkKept(t)
    BY DEF WorkInv
  <2> QED BY <1>2, <1>4, <1>5, <1>6, <1>7, <1>8, <2>1, <2>2 DEF WorkKept
<1>10. state[t] = "SLEEP" => uf[n + 1] = uf[n] + 0 /\ sf[n + 1] = sf[n] + len[n]
  <2>1. n < NrPhases(t) /\ PhaseLen(t, n) = len[n]
    BY <1>5, <1>8, <1>9
  <2> QED BY <1>0, <1>2, <1>4, <1>6, <1>7, <2>1, PhaseOver
<1>11. /\ NrPhases(t)' = nr /\ Past(t, FALSE)' = uf /\ Past(t, TRUE)' = sf
       /\ \A i \in Nat : PhaseLen(t, i)' = len[i]
  BY <1>0, <1>5, <1>6, <1>7, <1>8, PastStays
<1>12. PICK m \in Nat : m = phase'[t] /\ PhaseLen(t, phase[t])' = len[m]
  <2>1. phase'[t] \in Nat
    BY <1>0 DEF NewTask, AwakeTask, CompleteAwake, Wake
  <2>2. PICK m \in Nat : m = phase'[t]
    BY <2>1
  <2>3. PhaseLen(t, m)' = len[m]
    BY <1>11
  <2>4. PhaseLen(t, phase[t])' = PhaseLen(t, m)'
    BY <2>2 DEF PhaseLen
  <2> QED BY <2>2, <2>3, <2>4
<1>13. /\ m = IF state[t] = "STARTING" THEN n ELSE n + 1
       /\ \/ state'[t] = "RUNNABLE" /\ m < nr /\ ticks'[t] = len[m]
          \/ state'[t] = "COMPLETED"
  <2>1. CASE NewTask(c, t)
    BY <1>0, <1>4, <1>8, <1>9, <1>12, <2>1 DEF NewTask, Wake
  <2>2. CASE AwakeTask(c, t)
    BY <1>0, <1>4, <1>5, <1>8, <1>12, <2>2 DEF AwakeTask, Wake
  <2>3. CASE CompleteAwake(c, t)
    BY <1>0, <1>4, <1>12, <2>3 DEF CompleteAwake
  <2> QED BY <2>1, <2>2, <2>3
<1>14. userTime[t] = uf[m] + 0 /\ sysTime[t] = sf[m] + 0
  <2>1. CASE state[t] = "STARTING"
    BY <1>9, <1>13, <2>1
  <2>2. CASE state[t] = "SLEEP"
    <3>1. len[n] \in Nat /\ uf[n] \in Nat /\ sf[n] \in Nat
      BY <1>9
    <3> QED BY <1>9, <1>10, <1>13, <2>2, <3>1
  <2> QED BY <1>2, <2>1, <2>2
<1>15. WorkKept(t)'
  <2>1. len[m] \in Nat => len[m] - len[m] = 0
    OBVIOUS
  <2>2. m < nr => len[m] \in Nat
    BY <1>9
  <2> QED BY <1>1, <1>11, <1>12, <1>13, <1>14, <2>1, <2>2 DEF WorkKept
<1> QED BY <1>3, <1>15 DEF WorkInv

\* A tick moves one unit from what remains of the burst to user_time; the last one
\* ends the phase, and the whole of the I/O that follows is charged at once.
LEMMA TickWork ==
  ASSUME TypeInv, PlaceInv, WorkInv, NEW c \in Cpus, NEW t \in Tasks,
         TickRun(c, t) \/ TickComplete(c, t) \/ TickSleep(c, t)
  PROVE  WorkInv'
<1>0. /\ conf' = conf /\ conf \in Configurations /\ phase \in [Tasks -> Nat] /\ ticks \in [Tasks -> Int]
      /\ state \in [Tasks -> TaskStates] /\ userTime \in [Tasks -> Nat] /\ sysTime \in [Tasks -> Nat]
      /\ cur \in [Cpus -> Tasks \cup {Idle}] /\ t # Idle
  <2>1. Thread(c)
    BY DEF Thread, SchedulerTick
  <2>2. t # Idle
    BY SchedSimAssumption DEF Tasks, Idle
  <2> QED BY <2>1, <2>2, MainUntouched DEF TypeInv, TypeOK
<1>1. /\ pc[c] = "tick" /\ cur[c] = t
      /\ userTime' = [userTime EXCEPT ![t] = @ + 1] /\ ticks' = [ticks EXCEPT ![t] = @ - 1]
  BY DEF TickRun, TickComplete, TickSleep, ChargeTick
<1>2. OnProc(c)
  BY <1>0, <1>1 DEF PlaceInv, ThreadKept, Leaving, LbPlaces
<1>3. state[t] = "ONPROC" /\ ~IsIoPhase(phase[t])
  BY <1>1, <1>2, OnProcOnly DEF PlaceInv, TaskKept
<1>4. PICK n \in Nat : n = phase[t]
  BY <1>0
<1>5. PICK nr : nr = NrPhases(t)
  OBVIOUS
<1>6. PICK uf \in [Nat -> Nat] : uf = Past(t, FALSE)
  BY <1>0, PastSums
<1>7. PICK sf \in [Nat -> Nat] : sf = Past(t, TRUE)
  BY <1>0, PastSums
<1>8. PICK len : len = [i \in Nat |-> PhaseLen(t, i)]
  OBVIOUS
<1>9. /\ nr \in Nat \ {0} /\ n < nr /\ \A i \in Nat : i < nr => len[i] \in Nat
      /\ userTime[t] = uf[n] + (len[n] - ticks[t])
      /\ sysTime[t] = sf[n] + 0
  <2>1. nr \in Nat \ {0} /\ \A i \in Nat : i < nr => len[i] \in Nat
    BY <1>0, <1>5, <1>8, ConfigurationTypes
  <2>2. WorkKept(t)
    BY DEF WorkInv
  <2> QED BY <1>3, <1>4, <1>5, <1>6, <1>7, <1>8, <2>1, <2>2 DEF WorkKept
<1>10. uf[n + 1] = uf[n] + len[n] /\ sf[n + 1] = sf[n] + 0
  <2>1. n < NrPhases(t) /\ PhaseLen(t, n) = len[n]
    BY <1>5, <1>8, <1>9
  <2> QED BY <1>0, <1>3, <1>4, <1>6, <1>7, <2>1, PhaseOver
<1>11. /\ NrPhases(t)' = nr /\ Past(t, FALSE)' = uf /\ Past(t, TRUE)' = sf
       /\ \A i \in Nat : PhaseLen(t, i)' = len[i]
  BY <1>0, <1>5, <1>6, <1>7, <1>8, PastStays
<1>12. PICK m \in Nat : m = phase'[t] /\ PhaseLen(t, phase[t])' = len[m]
  <2>1. phase'[t] \in Nat
    BY <1>0 DEF TickRun, TickComplete, TickSleep, EndBurst
  <2>2. PICK m \in Nat : m = phase'[t]
    BY <2>1
  <2>3. PhaseLen(t, m)' = len[m]
    BY <1>11
  <2>4. PhaseLen(t, phase[t])' = PhaseLen(t, m)'
    BY <2>2 DEF PhaseLen
  <2> QED BY <2>2, <2>3, <2>4
<1>13. PICK io \in Int : /\ sysTime' = [sysTime EXCEPT ![t] = @ + io]
                         /\ \/ TickRun(c, t) /\ io = 0
                            \/ TickComplete(c, t) /\ io = 0
                            \/ TickSleep(c, t) /\ io = len[n + 1] /\ n + 1 < nr
  <2>1. CASE TickRun(c, t) \/ TickComplete(c, t)
    <3>1. PICK io \in Int : io = 0
      OBVIOUS
    <3> QED BY <2>1, <3>1 DEF TickRun, TickComplete, ChargeTick
  <2>2. CASE TickSleep(c, t)
    <3>1. n + 1 < nr /\ sysTime' = [sysTime EXCEPT ![t] = @ + len[n + 1]]
      <4>1. PICK io : io = PhaseLen(t, phase[t] + 1)
        OBVIOUS
      <4>2. io = len[n + 1]
        <5>1. n + 1 \in Nat /\ phase[t] + 1 = n + 1
          BY <1>4
        <5> QED BY <1>8, <4>1, <5>1
      <4>3. sysTime' = [sysTime EXCEPT ![t] = @ + io] /\ phase[t] + 1 < NrPhases(t)
        BY <2>2, <4>1 DEF TickSleep, ChargeTick
      <4> QED BY <1>4, <1>5, <4>2, <4>3
    <3>2. PICK io \in Int : io = len[n + 1]
      BY <1>9, <3>1
    <3> QED BY <2>2, <3>1, <3>2
  <2> QED BY <2>1, <2>2
<1>14. ASSUME NEW u \in Tasks, u # t PROVE WorkKept(u)'
  <2>1. /\ state'[u] = state[u] /\ phase'[u] = phase[u]
    BY <1>0, <1>14 DEF TickRun, TickComplete, TickSleep, EndBurst
  <2>2. WorkLeft(u)
    BY <1>0, <1>1, <1>13, <1>14, <2>1 DEF WorkLeft
  <2> QED BY <1>0, <2>2, WorkStays DEF WorkInv
<1>15. /\ uf[n] \in Nat /\ sf[n] \in Nat /\ len[n] \in Nat /\ ticks[t] \in Int
       /\ userTime'[t] = uf[n] + (len[n] - ticks[t]) + 1 /\ ticks'[t] = ticks[t] - 1
       /\ sysTime'[t] = sf[n] + io
  BY <1>0, <1>1, <1>9, <1>13
<1>16. WorkKept(t)'
  <2>1. CASE TickRun(c, t) /\ io = 0
    <3>1. state'[t] = "ONPROC" /\ m = n
      BY <1>3, <1>4, <1>12, <2>1 DEF TickRun
    <3>2. userTime'[t] = uf[n] + (len[n] - ticks'[t]) /\ sysTime'[t] = sf[n] + 0
      BY <1>15, <2>1
    <3> QED BY <1>9, <1>11, <1>12, <3>1, <3>2 DEF WorkKept
  <2>2. CASE ~(TickRun(c, t) /\ io = 0)
    <3>1. m = n + 1 /\ ticks[t] = 1
      BY <1>0, <1>4, <1>12, <1>13, <2>2 DEF TickComplete, TickSleep, EndBurst, LastTick
    <3>2. userTime'[t] = uf[m] + 0 /\ sysTime'[t] = sf[m] + io
      BY <1>10, <1>15, <3>1
    <3>3. CASE TickComplete(c, t) /\ io = 0
      <4>1. state'[t] = "COMPLETED"
        BY <1>0, <3>3 DEF TickComplete
      <4> QED BY <1>11, <1>12, <3>2, <3>3, <4>1 DEF WorkKept
    <3>4. CASE TickSleep(c, t) /\ io = len[n + 1] /\ n + 1 < nr
      <4>1. state'[t] = "SLEEP"
        BY <1>0, <3>4 DEF TickSleep
      <4> QED BY <1>11, <1>12, <3>1, <3>2, <3>4, <4>1 DEF WorkKept
    <3> QED BY <1>13, <2>2, <3>3, <3>4
  <2> QED BY <2>1, <2>2
<1> QED BY <1>14, <1>16 DEF WorkInv

LEMMA NextWorkInv ==
  ASSUME TypeInv, PlaceInv, WorkInv, [Next]_vars
  PROVE  WorkInv'
<1>0. /\ phase \in [Tasks -> Nat] /\ state \in [Tasks -> TaskStates]
      /\ conf' = conf
  <2>1. (\E c \in Cpus : Thread(c)) => conf' = conf
    BY MainUntouched
  <2>2. Main \/ Barrier0 \/ Barrier1 \/ UNCHANGED vars => conf' = conf
    BY DEF Main, AddTask, CreateThreads, Join, Barrier0, Barrier1, Barrier, vars
  <2> QED BY <2>1, <2>2 DEF Next, Terminated, TypeInv, TypeOK
<1>1. SUFFICES ASSUME \A c \in Cpus, t \in Tasks :
                        /\ ~NewTask(c, t) /\ ~AwakeTask(c, t) /\ ~CompleteAwake(c, t)
                        /\ ~TickRun(c, t) /\ ~TickComplete(c, t) /\ ~TickSleep(c, t),
                      NEW t \in Tasks
               PROVE  WorkLeft(t)
  <2>1. (\A t \in Tasks : WorkLeft(t)) => WorkInv'
    BY <1>0, WorkStays DEF WorkInv
  <2> QED BY <2>1, WakeWork, TickWork
<1>2. UNCHANGED <<phase, ticks, userTime, sysTime>>
  <2>1. CASE Main \/ Barrier0 \/ Barrier1 \/ UNCHANGED vars
    BY <2>1 DEF Main, AddTask, CreateThreads, Join, Barrier0, Barrier1, Barrier, vars, burstVars, timeVars
  <2>2. ASSUME NEW c \in Cpus, Thread(c) PROVE UNCHANGED <<phase, ticks, userTime, sysTime>>
    <3>1. CASE LoopTest(c) \/ EventsDone(c) \/ TickIdle(c) \/ Schedule(c) \/ SynchronizeCpus(c) \/ FirstPick(c)
      BY <3>1 DEF LoopTest, EventsDone, TickIdle, Schedule, SchedKeep, SchedSwitch, SynchronizeCpus,
                  SyncAlone, Arrive, Count, FirstPick, burstVars, timeVars
    <3>2. CASE LoadBalance(c)
      BY <3>2 DEF LoadBalance, LbSkip, LbStart, LbScan, LbBalanced, LbNeither, LbChoose, LockLower,
                  UnlockOwn, LockHigher, LockOwn, LockStep, Steal, LbStale, Move, burstVars, timeVars
    <3> QED BY <1>1, <2>2, <3>1, <3>2 DEF Thread, ProcessEvents, SchedulerTick
  <2> QED BY <2>1, <2>2 DEF Next, Terminated
<1>3. state'[t] = state[t] \/ {state[t], state'[t]} \subseteq {"RUNNABLE", "ONPROC"}
  <2>1. CASE Main \/ Barrier0 \/ Barrier1 \/ UNCHANGED vars
    BY <2>1 DEF Main, AddTask, CreateThreads, Join, Barrier0, Barrier1, Barrier, vars, burstVars
  <2>2. ASSUME NEW c \in Cpus, Thread(c)
        PROVE  state'[t] = state[t] \/ {state[t], state'[t]} \subseteq {"RUNNABLE", "ONPROC"}
    <3>1. CASE LoopTest(c) \/ EventsDone(c) \/ TickIdle(c) \/ SchedKeep(c) \/ SynchronizeCpus(c)
      BY <3>1 DEF LoopTest, EventsDone, TickIdle, SchedKeep, SynchronizeCpus, SyncAlone, Arrive, Count,
                  burstVars
    <3>2. CASE LoadBalance(c)
      BY <3>2 DEF LoadBalance, LbSkip, LbStart, LbScan, LbBalanced, LbNeither, LbChoose, LockLower,
                  UnlockOwn, LockHigher, LockOwn, LockStep, Steal, LbStale, Move, burstVars
    <3>3. CASE FirstPick(c)
      <4>1. CASE queue[c] = <<>>
        BY <3>3, <4>1 DEF FirstPick
      <4>2. CASE queue[c] # <<>>
        <5>1. PICK u \in Tasks : u = Head(queue[c]) /\ u \in ToSet(queue[c])
          BY <4>2, HeadOfQueue
        <5>2. state' = [state EXCEPT ![u] = "ONPROC"] /\ state[u] = "RUNNABLE"
          BY <3>3, <4>2, <5>1, QueuedOnly DEF FirstPick
        <5> QED BY <1>0, <5>2
      <4> QED BY <4>1, <4>2
    <3>4. CASE SchedSwitch(c)
      <4>1. PICK prev, again, q, next, rest : Switched(c, prev, again, q, next, rest)
        BY <3>4, SwitchHappens
      <4>2. /\ again => state[prev] = "ONPROC"
            /\ next # Idle /\ next # prev => state[next] = "RUNNABLE"
            /\ \A u \in Tasks : u # next /\ u # prev => state'[u] = state[u]
            /\ ~again /\ prev \in Tasks => state'[prev] = state[prev]
            /\ again /\ next # prev => state'[prev] = "RUNNABLE"
            /\ next # Idle => state'[next] = "ONPROC"
            /\ next # Idle /\ next = prev => again
        BY <4>1, Zenon DEF Switched
      <4>3. t # Idle
        BY SchedSimAssumption DEF Tasks, Idle
      <4>4. CASE t = next
        BY <4>2, <4>3, <4>4
      <4>5. CASE t # next /\ t = prev
        BY <4>2, <4>5
      <4> QED BY <4>2, <4>4, <4>5
    <3> QED BY <1>1, <2>2, <3>1, <3>2, <3>3, <3>4 DEF Thread, ProcessEvents, SchedulerTick, Schedule
  <2> QED BY <2>1, <2>2 DEF Next, Terminated
<1> QED BY <1>2, <1>3 DEF WorkLeft

\* user_time and sys_time are what the profile says at every moment, by whichever
\* CPUs and in however many pieces the task has been run.
THEOREM WorkIsConserved ==
  ASSUME IoTakesTime
  PROVE  Spec => []WorkConserved
<1>1. Init => WorkInv
  <2>1. SUFFICES ASSUME Init, NEW t \in Tasks PROVE WorkKept(t)
    BY DEF WorkInv
  <2>2. /\ state[t] = "STARTING" /\ phase[t] = 0 /\ userTime[t] = 0 /\ sysTime[t] = 0
        /\ conf \in Configurations
    BY <2>1 DEF Init
  <2>3. PICK nr \in Nat \ {0} : nr = NrPhases(t)
    BY <2>2, ConfigurationTypes
  <2>4. Past(t, FALSE)[0] = 0 /\ Past(t, TRUE)[0] = 0
    BY <2>2, PastSums
  <2>5. 0 < NrPhases(t)
    BY <2>3
  <2>6. PICK uf, sf : uf = Past(t, FALSE) /\ sf = Past(t, TRUE)
    OBVIOUS
  <2>7. userTime[t] = uf[phase[t]] + 0 /\ sysTime[t] = sf[phase[t]] + 0
    <3>1. uf[phase[t]] = 0 /\ sf[phase[t]] = 0
      BY <2>2, <2>4, <2>6, Zenon
    <3> QED BY <2>2, <3>1
  <2> QED BY <2>2, <2>5, <2>6, <2>7 DEF WorkKept
<1>2. TypeInv /\ PlaceInv /\ WorkInv /\ [Next]_vars => WorkInv'
  BY NextWorkInv
<1>3. WorkInv => WorkConserved
  BY DEF WorkInv, WorkKept, WorkConserved, Past
<1> QED BY <1>1, <1>2, <1>3, PlaceInvariance, PTL DEF Spec

=============================================================================
