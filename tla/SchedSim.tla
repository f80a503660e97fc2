------------------------------ MODULE SchedSim ------------------------------
(***************************************************************************)
(* The CPU scheduling simulator (Planificacion/schedsim): main enters the  *)
(* tasks of the input file and creates one thread per simulated CPU; each  *)
(* thread advances in ticks, handles the wake-ups that are due, balances   *)
(* the load, switches context and meets the others at the end of the step. *)
(*                                                                         *)
(* Granularity.  A critical section under one run queue lock is one        *)
(* action, enabled when the lock is free.  load_balance, which reads the   *)
(* loads of other CPUs without their locks and trades its own lock for a   *)
(* remote one, is split at every lock operation and every such read.       *)
(***************************************************************************)
EXTENDS SimParams, SchedClass

CONSTANTS
    NrTasks,         \* tasks of the input file, numbered in its order
    LbPeriod,        \* load_balancing_period (-l)
    MaxTrials,       \* max_trials of load_balance: 5 in the code
    Configurations   \* the command lines and input files considered

Tasks == 0..(NrTasks - 1)
Idle == -1      \* the idle task of whichever CPU
NoCpu == -1     \* nobody holds a lock

\* A command line (-s, -p) with an input file: each task has a priority, an
\* arrival time and the lengths of its phases, which alternate CPU, I/O, CPU ...
Configuration ==
    [sched : SchedNames, preemptive : BOOLEAN,
     task : [Tasks -> [prio : Int, arrival : Nat, phase : Seq(Nat) \ {<<>>}]]]

ASSUME SchedSimAssumption ==
    /\ NrTasks \in Nat \ {0}
    /\ LbPeriod \in Nat \ {0}
    /\ MaxTrials \in Nat \ {0}

\* Membership in Configuration, in a form that does not enumerate it.
IsConfiguration(k) ==
    /\ k.sched \in SchedNames /\ k.preemptive \in BOOLEAN
    /\ DOMAIN k.task = Tasks
    /\ \A t \in Tasks : /\ k.task[t].prio \in Int /\ k.task[t].arrival \in Nat
                        /\ k.task[t].phase \in Seq(Nat) \ {<<>>}

ASSUME ConfigurationsAssumption == \A k \in Configurations : IsConfiguration(k)

VARIABLES
    conf,        \* the configuration of this execution; never changes
    \* ---- main thread
    main,        \* "add", "create", "join" or "ended"
    nextTask,    \* next task of the list to be entered
    \* ---- simulation threads
    pc, step,
    trials, scan, load, peer,   \* locals of load_balance: nr_trials, i, load_cpus, remote CPU
    stolen,                     \* stolen_task between the two halves of move_one_task
    \* ---- run queues, one per CPU
    queue, cur, resched, nrun, nextLb, lock,
    events,      \* sched_events: the tasks with a pending event, soonest first
    \* ---- task descriptors
    state, phase, ticks, onRq, lastCpu, lastEnq, front, counter,
    userTime, realTime, sysTime,
    timeout,     \* of the task's pending event; a STARTING task's is NEW_TASK,
                 \* a SLEEPing one's is TASK_AWAKE
    \* ---- shared by all threads
    completed

mainVars   == <<main, nextTask>>
threadVars == <<pc, step>>
lbVars     == <<trials, scan, load, peer, stolen>>
rqVars     == <<queue, cur, resched, nrun, nextLb, lock>>
timeVars   == <<userTime, realTime, sysTime>>
classVars  == <<onRq, lastCpu, front, counter>>
burstVars  == <<state, phase, ticks, lastEnq>>
eventVars  == <<events, timeout>>
vars == <<conf, mainVars, threadVars, lbVars, rqVars, timeVars, classVars,
          burstVars, eventVars, completed>>

NrPhases(t) == Len(conf.task[t].phase)
PhaseLen(t, i) == conf.task[t].phase[i + 1]     \* cur_phase counts from 0
IsIoPhase(i) == i % 2 = 1
Prio(t) == IF t = Idle THEN 0 ELSE conf.task[t].prio
Ticks(t) == IF t = Idle THEN 0 ELSE ticks[t]
PrioOf == [t \in Tasks |-> conf.task[t].prio]

-----------------------------------------------------------------------------
\* sched_init, and the zeroes of the task descriptors (memset).
Init ==
    /\ conf \in Configurations
    /\ main = "add" /\ nextTask = 0
    /\ pc = [c \in Cpus |-> "none"]
    /\ step = [c \in Cpus |-> 0]
    /\ trials = [c \in Cpus |-> 0]
    /\ scan = [c \in Cpus |-> 0]
    /\ load = [c \in Cpus |-> [d \in Cpus |-> 0]]
    /\ peer = [c \in Cpus |-> NoCpu]
    /\ stolen = [c \in Cpus |-> Idle]
    /\ queue = [c \in Cpus |-> <<>>]
    /\ cur = [c \in Cpus |-> Idle]
    /\ resched = [c \in Cpus |-> FALSE]
    /\ nrun = [c \in Cpus |-> 0]
    /\ nextLb = [c \in Cpus |-> c % NrCpus]
    /\ lock = [c \in Cpus |-> NoCpu]
    /\ events = [c \in Cpus |-> <<>>]
    /\ state = [t \in Tasks |-> "STARTING"]
    /\ phase = [t \in Tasks |-> 0]
    /\ ticks = [t \in Tasks |-> 0]
    /\ onRq = [t \in Tasks |-> FALSE]
    /\ lastCpu = [t \in Tasks |-> 0]
    /\ lastEnq = [t \in Tasks |-> 0]
    /\ front = [t \in Tasks |-> FALSE]
    /\ counter = [t \in Tasks |-> 0]
    /\ userTime = [t \in Tasks |-> 0]
    /\ realTime = [t \in Tasks |-> 0]
    /\ sysTime = [t \in Tasks |-> 0]
    /\ timeout = [t \in Tasks |-> 0]
    /\ completed = 0

-----------------------------------------------------------------------------
(* Events *)

\* Wrong: the list is not kept in order of time.
InsertEventUnsorted(c, t, when) ==
    /\ timeout' = [timeout EXCEPT ![t] = when]
    /\ events' = [events EXCEPT ![c] = InsertSList(@, t)]

\* insert_sched_event: behind the events with the same timeout.
InsertEvent(c, t, when) ==
    /\ timeout' = [timeout EXCEPT ![t] = when]
    /\ events' = [events EXCEPT ![c] = SortedInsert(@, t, TRUE, timeout')]

\* get_next_sched_event: only the first event, and only in the very step it is for.
Due(c, when) == events[c] # <<>> /\ timeout[Head(events[c])] = when

-----------------------------------------------------------------------------
(* Main thread: sched_start *)

\* Tasks are dealt out to the CPUs in turn and wait for their arrival there.
AddTask ==
    /\ main = "add" /\ nextTask \in Tasks
    /\ LET t == nextTask IN
       /\ lastCpu' = [lastCpu EXCEPT ![t] = t % NrCpus]
       /\ \E n \in InitialCounter(conf.sched) : counter' = [counter EXCEPT ![t] = n]
       /\ InsertEvent(t % NrCpus, t, conf.task[t].arrival)
    /\ nextTask' = nextTask + 1
    /\ UNCHANGED <<conf, main, threadVars, lbVars, rqVars, timeVars, onRq, front,
                   burstVars, completed>>

\* pthread_create, for every CPU.  A thread created later is one that is slow
\* to take its first step.
CreateThreads ==
    /\ main = "add" /\ nextTask = NrTasks
    /\ main' = "join"
    /\ pc' = [c \in Cpus |-> "boot"]
    /\ UNCHANGED <<conf, nextTask, step, lbVars, rqVars, timeVars, classVars,
                   burstVars, eventVars, completed>>

\* pthread_join of every thread; then statistics are printed and memory freed.
Join ==
    /\ main = "join" /\ \A c \in Cpus : pc[c] = "exit"
    /\ main' = "ended"
    /\ UNCHANGED <<conf, nextTask, threadVars, lbVars, rqVars, timeVars, classVars,
                   burstVars, eventVars, completed>>

-----------------------------------------------------------------------------
(* Run queues *)

Unlocked(c) == lock[c] = NoCpu

\* The run queue of c with t queued, t's remaining ticks being as in tk.
QueueWith(c, t, tk) == Queued(conf.sched, queue[c], t, front[t], PrioOf, tk)

\* do_enqueue_task(t, rq of c, c, 0): a task that was not on this CPU before is
\* queued, counted, and may preempt the current task, which then is to be put
\* in front of its equals.  tk: the remaining ticks, which a waking task only gets
\* in the same step.
Enqueue(c, t, tk) ==
    LET curTicks == IF cur[c] = Idle THEN 0 ELSE tk[cur[c]]
        preempts == Preempts(conf.sched, conf.preemptive, Prio(t), tk[t],
                             Prio(cur[c]), curTicks)
    IN  /\ nrun' = [nrun EXCEPT ![c] = @ + 1]
        /\ lastCpu' = [lastCpu EXCEPT ![t] = c]
        /\ onRq' = [onRq EXCEPT ![t] = TRUE]
        /\ IF onRq[t]
           THEN UNCHANGED <<queue, counter, resched, front>>
           ELSE /\ queue' = [queue EXCEPT ![c] = QueueWith(c, t, tk)]
                /\ counter' = [counter EXCEPT ![t] = CounterWhenQueued(conf.sched, @)]
                /\ resched' = [resched EXCEPT ![c] = @ \/ preempts]
                /\ front' = [u \in Tasks |-> (preempts /\ u = cur[c]) \/ (front[u] /\ u # t)]

-----------------------------------------------------------------------------
(* process_sched_events, for the step c is about to enter *)

Entering(c) == IF pc[c] = "boot" THEN 0 ELSE step[c] + 1

TakesEvent(c, t) ==
    /\ pc[c] \in {"boot", "events"}
    /\ Due(c, Entering(c))
    /\ t = Head(events[c])
    /\ events' = [events EXCEPT ![c] = Tail(@)]

\* A task becomes runnable and starts on phase i; on an I/O phase the program
\* gives up ("Critical error"), and with it every thread.
Wake(c, t, i) ==
    /\ state' = [state EXCEPT ![t] = "RUNNABLE"]
    /\ phase' = [phase EXCEPT ![t] = i]
    /\ ticks' = [ticks EXCEPT ![t] = PhaseLen(t, i)]
    /\ lastEnq' = [lastEnq EXCEPT ![t] = Entering(c)]
    /\ Unlocked(c)
    /\ Enqueue(c, t, ticks')
    /\ pc' = IF IsIoPhase(i) THEN [pc EXCEPT ![c] = "abort"] ELSE pc
    /\ UNCHANGED <<conf, mainVars, step, lbVars, cur, nextLb, lock, timeVars,
                   timeout, completed>>

NewTask(c, t) ==
    /\ TakesEvent(c, t) /\ state[t] = "STARTING"
    /\ Wake(c, t, phase[t])

AwakeTask(c, t) ==
    /\ TakesEvent(c, t) /\ state[t] # "STARTING"
    /\ phase[t] + 1 < NrPhases(t)
    /\ Wake(c, t, phase[t] + 1)

\* The I/O phase was the task's last one.
CompleteAwake(c, t) ==
    /\ TakesEvent(c, t) /\ state[t] # "STARTING"
    /\ phase[t] + 1 >= NrPhases(t)
    /\ phase' = [phase EXCEPT ![t] = @ + 1]
    /\ state' = [state EXCEPT ![t] = "COMPLETED"]
    /\ UNCHANGED <<conf, mainVars, threadVars, lbVars, rqVars, timeVars, classVars,
                   ticks, lastEnq, timeout, completed>>

EventsDone(c) ==
    /\ pc[c] \in {"boot", "events"} /\ ~Due(c, Entering(c))
    /\ pc' = [pc EXCEPT ![c] = IF @ = "boot" THEN "pick" ELSE "lb"]
    /\ UNCHANGED <<conf, mainVars, step, lbVars, rqVars, timeVars, classVars,
                   burstVars, eventVars, completed>>

-----------------------------------------------------------------------------
(* sched_cpu *)

\* pick_next_task for the very first time: no real time is charged here.
FirstPick(c) ==
    /\ pc[c] = "pick" /\ Unlocked(c)
    /\ IF queue[c] = <<>>
       THEN UNCHANGED <<queue, cur, onRq, state>>
       ELSE LET t == Head(queue[c]) IN
            /\ queue' = [queue EXCEPT ![c] = Tail(@)]
            /\ cur' = [cur EXCEPT ![c] = t]
            /\ onRq' = [onRq EXCEPT ![t] = FALSE]
            /\ state' = [state EXCEPT ![t] = "ONPROC"]
    /\ pc' = [pc EXCEPT ![c] = "loop"]
    /\ UNCHANGED <<conf, mainVars, step, lbVars, resched, nrun, nextLb, lock, timeVars,
                   lastCpu, front, counter, phase, ticks, lastEnq, eventVars, completed>>

\* The while condition; after a full round simulation_step++ comes first.
LoopTest(c) ==
    LET s == IF pc[c] = "next" THEN step[c] + 1 ELSE step[c] IN
    /\ pc[c] \in {"loop", "next"}
    /\ step' = [step EXCEPT ![c] = s]
    /\ pc' = [pc EXCEPT ![c] = IF completed < NrCpus /\ s < MaxSteps THEN "tick" ELSE "exit"]
    /\ UNCHANGED <<conf, mainVars, lbVars, rqVars, timeVars, classVars, burstVars,
                   eventVars, completed>>

-----------------------------------------------------------------------------
(* scheduler_tick *)

TickIdle(c) ==
    /\ pc[c] = "tick" /\ Unlocked(c) /\ cur[c] = Idle
    /\ pc' = [pc EXCEPT ![c] = "events"]
    /\ UNCHANGED <<conf, mainVars, step, lbVars, rqVars, timeVars, classVars,
                   burstVars, eventVars, completed>>

\* One tick charged to the current task t; `io` is real time charged in advance.
ChargeTick(c, t, io) ==
    /\ pc[c] = "tick" /\ Unlocked(c) /\ cur[c] = t
    /\ userTime' = [userTime EXCEPT ![t] = @ + 1]
    /\ realTime' = [realTime EXCEPT ![t] = @ + 1 + io]
    /\ sysTime' = [sysTime EXCEPT ![t] = @ + io]
    /\ lastCpu' = [lastCpu EXCEPT ![t] = c]
    /\ counter' = [counter EXCEPT ![t] = CounterAfterTick(conf.sched, @)]
    /\ ticks' = [ticks EXCEPT ![t] = @ - 1]
    /\ UNCHANGED <<conf, mainVars, step, lbVars, queue, cur, nextLb, lock, onRq,
                   front, lastEnq, completed>>

\* Wrong: off by one.
LastTickEarly(t) == ticks[t] <= 2

\* (--runnable_ticks_left)==0
LastTick(t) == ticks[t] = 1

TickRun(c, t) ==
    /\ ~LastTick(t)
    /\ ChargeTick(c, t, 0)
    /\ resched' = [resched EXCEPT ![c] = @ \/ CounterExpires(conf.sched, counter[t])]
    /\ pc' = [pc EXCEPT ![c] = "events"]
    /\ UNCHANGED <<nrun, state, phase, eventVars>>

\* Wrong: the task that leaves is still counted.
EndBurstUncounted(c, t) ==
    /\ LastTick(t)
    /\ nrun' = nrun
    /\ resched' = [resched EXCEPT ![c] = TRUE]
    /\ phase' = [phase EXCEPT ![t] = @ + 1]

\* The burst is over: the task leaves the CPU for good or for its I/O.
EndBurst(c, t) ==
    /\ LastTick(t)
    /\ nrun' = [nrun EXCEPT ![c] = @ - 1]
    /\ resched' = [resched EXCEPT ![c] = TRUE]
    /\ phase' = [phase EXCEPT ![t] = @ + 1]

TickComplete(c, t) ==
    /\ EndBurst(c, t) /\ phase[t] + 1 >= NrPhases(t)
    /\ ChargeTick(c, t, 0)
    /\ state' = [state EXCEPT ![t] = "COMPLETED"]
    /\ pc' = [pc EXCEPT ![c] = "events"]
    /\ UNCHANGED eventVars

\* Asleep until the interval after the I/O; the wake-up is an event of this CPU.
TickSleep(c, t) ==
    /\ EndBurst(c, t) /\ phase[t] + 1 < NrPhases(t)
    /\ LET io == PhaseLen(t, phase[t] + 1) IN
       /\ ChargeTick(c, t, io)
       /\ InsertEvent(c, t, step[c] + io + 1)
    /\ state' = [state EXCEPT ![t] = "SLEEP"]
    /\ pc' = [pc EXCEPT ![c] = IF IsIoPhase(phase[t] + 1) THEN "events" ELSE "abort"]

-----------------------------------------------------------------------------
(* load_balance *)

\* An idle CPU always balances; any other one when its period has come.
LbNext(c) == IF nrun[c] = 0 THEN step[c] ELSE nextLb[c]

LbSkip(c) ==
    /\ pc[c] = "lb" /\ Unlocked(c)
    /\ NrCpus = 1 \/ LbNext(c) # step[c]
    /\ nextLb' = [nextLb EXCEPT ![c] = LbNext(c)]
    /\ pc' = [pc EXCEPT ![c] = "sched"]
    /\ UNCHANGED <<conf, mainVars, step, lbVars, queue, cur, resched, nrun, lock,
                   timeVars, classVars, burstVars, eventVars, completed>>

LbStart(c) ==
    /\ pc[c] = "lb" /\ Unlocked(c)
    /\ NrCpus > 1 /\ LbNext(c) = step[c]
    /\ nextLb' = [nextLb EXCEPT ![c] = LbNext(c)]
    /\ lock' = [lock EXCEPT ![c] = c]
    /\ pc' = [pc EXCEPT ![c] = "scan"]
    /\ UNCHANGED <<conf, mainVars, step, lbVars, queue, cur, resched, nrun,
                   timeVars, classVars, burstVars, eventVars, completed>>

\* One load is read, without the lock of the run queue it belongs to.
LbScan(c) ==
    /\ pc[c] = "scan"
    /\ load' = [load EXCEPT ![c][scan[c]] = nrun[scan[c]]]
    /\ scan' = [scan EXCEPT ![c] = @ + 1]
    /\ pc' = [pc EXCEPT ![c] = IF scan[c] + 1 = NrCpus THEN "decide" ELSE "scan"]
    /\ UNCHANGED <<conf, mainVars, step, trials, peer, stolen, rqVars, timeVars,
                   classVars, burstVars, eventVars, completed>>

MaxLoad(c) == Max({load[c][d] : d \in Cpus})
MinLoad(c) == Min({load[c][d] : d \in Cpus})
CpuMax(c) == Min({d \in Cpus : load[c][d] = MaxLoad(c)})    \* the first such CPU
CpuMin(c) == Min({d \in Cpus : load[c][d] = MinLoad(c)})
Balanced(c) == MaxLoad(c) - MinLoad(c) <= 1

\* This CPU pushes a task away if it looked the most loaded one, else it pulls.
Pushes(c) == load[c][c] = MaxLoad(c)
Source(c) == IF Pushes(c) THEN c ELSE peer[c]
Target(c) == IF Pushes(c) THEN peer[c] ELSE c

\* Wrong: the time of the next balancing is not moved on.
NextPeriodSame(c) == nextLb[c]

NextPeriod(c) == nextLb[c] + LbPeriod

\* The end of load_balance: next period, locks in `held` released, locals gone.
LbFinish(c, held) ==
    /\ nextLb' = [nextLb EXCEPT ![c] = NextPeriod(c)]
    /\ lock' = [d \in Cpus |-> IF d \in held THEN NoCpu ELSE lock[d]]
    /\ pc' = [pc EXCEPT ![c] = "sched"]
    /\ trials' = [trials EXCEPT ![c] = 0]
    /\ scan' = [scan EXCEPT ![c] = 0]
    /\ load' = [load EXCEPT ![c] = [d \in Cpus |-> 0]]
    /\ peer' = [peer EXCEPT ![c] = NoCpu]

\* Wrong: off by one.
LastTrialLate(c) == trials[c] + 1 > MaxTrials

LastTrial(c) == trials[c] + 1 = MaxTrials

\* nr_trials++ and round again, the locks in `held` but this CPU's own released.
EndTrial(c, held) ==
    IF LastTrial(c)
    THEN LbFinish(c, held)
    ELSE /\ trials' = [trials EXCEPT ![c] = @ + 1]
         /\ scan' = [scan EXCEPT ![c] = 0]
         /\ peer' = [peer EXCEPT ![c] = NoCpu]
         /\ lock' = [d \in Cpus |-> IF d \in held \ {c} THEN NoCpu ELSE lock[d]]
         /\ pc' = [pc EXCEPT ![c] = "scan"]
         /\ UNCHANGED <<load, nextLb>>

LbBalanced(c) ==
    /\ pc[c] = "decide" /\ Balanced(c)
    /\ LbFinish(c, {c})
    /\ UNCHANGED <<conf, mainVars, step, stolen, queue, cur, resched, nrun, timeVars,
                   classVars, burstVars, eventVars, completed>>

\* Neither the most nor the least loaded: nothing to do in this trial.
LbNeither(c) ==
    /\ pc[c] = "decide" /\ ~Balanced(c)
    /\ load[c][c] # MaxLoad(c) /\ load[c][c] # MinLoad(c)
    /\ EndTrial(c, {c})
    /\ UNCHANGED <<conf, mainVars, step, stolen, queue, cur, resched, nrun, timeVars,
                   classVars, burstVars, eventVars, completed>>

LbChoose(c) ==
    /\ pc[c] = "decide" /\ ~Balanced(c)
    /\ Pushes(c) \/ load[c][c] = MinLoad(c)
    /\ peer' = [peer EXCEPT ![c] = IF Pushes(c) THEN CpuMin(c) ELSE CpuMax(c)]
    /\ pc' = [pc EXCEPT ![c] = "dlock"]
    /\ UNCHANGED <<conf, mainVars, step, trials, scan, load, stolen, rqVars, timeVars,
                   classVars, burstVars, eventVars, completed>>

\* Wrong: the order of the run queues reversed.
GoesDownReversed(c) == c < peer[c]

\* Wrong: this CPU's own lock is never given up first.
GoesDownAlways(c) == TRUE

\* double_lock_rq: locks are taken from the higher CPU to the lower one.
GoesDown(c) == c > peer[c]

LockStep(c, l, holder, to) ==
    /\ lock' = [lock EXCEPT ![l] = holder]
    /\ pc' = [pc EXCEPT ![c] = to]
    /\ UNCHANGED <<conf, mainVars, step, lbVars, queue, cur, resched, nrun, nextLb,
                   timeVars, classVars, burstVars, eventVars, completed>>

LockLower(c) ==
    /\ pc[c] = "dlock" /\ GoesDown(c) /\ Unlocked(peer[c])
    /\ LockStep(c, peer[c], c, "check")

UnlockOwn(c) ==
    /\ pc[c] = "dlock" /\ ~GoesDown(c)
    /\ LockStep(c, c, NoCpu, "lockpeer")

LockHigher(c) ==
    /\ pc[c] = "lockpeer" /\ Unlocked(peer[c])
    /\ LockStep(c, peer[c], c, "lockown")

LockOwn(c) ==
    /\ pc[c] = "lockown" /\ Unlocked(c)
    /\ LockStep(c, c, c, "check")

\* Wrong: the loads are not looked at again.
WorthMovingUnchecked(c) == TRUE

\* Wrong: off by one.
WorthMovingLax(c) == nrun[Source(c)] - nrun[Target(c)] >= 1

\* The loads may have changed since they were read: look again, now under both locks.
WorthMoving(c) == nrun[Source(c)] - nrun[Target(c)] > 1

\* Wrong: not the task that is removed from the queue.
VictimHead(c) == Head(queue[Source(c)])

\* steal_task_*: the tail of the run queue.
Victim(c) == Last(queue[Source(c)])

\* First half of move_one_task; stealing from an empty queue dereferences NULL.
Steal(c) ==
    /\ pc[c] = "check" /\ WorthMoving(c)
    /\ IF queue[Source(c)] = <<>>
       THEN /\ pc' = [pc EXCEPT ![c] = "abort"]
            /\ UNCHANGED <<stolen, queue, onRq, nrun>>
       ELSE LET t == Victim(c) IN
            /\ stolen' = [stolen EXCEPT ![c] = t]
            /\ queue' = [queue EXCEPT ![Source(c)] = RemoveTail(@)]
            /\ onRq' = [onRq EXCEPT ![t] = FALSE]
            /\ nrun' = [nrun EXCEPT ![Source(c)] = @ - 1]
            /\ pc' = [pc EXCEPT ![c] = "move"]
    /\ UNCHANGED <<conf, mainVars, step, trials, scan, load, peer, cur, resched, nextLb,
                   lock, timeVars, lastCpu, front, counter, burstVars, eventVars, completed>>

LbStale(c) ==
    /\ pc[c] = "check" /\ ~WorthMoving(c)
    /\ EndTrial(c, {c, peer[c]})
    /\ UNCHANGED <<conf, mainVars, step, stolen, queue, cur, resched, nrun, timeVars,
                   classVars, burstVars, eventVars, completed>>

\* Wrong: off by one.
WaitedShort(c, t) == step[c] - lastEnq[t]

\* The time t has been on a run queue when the step of c is over.
Waited(c, t) == step[c] - lastEnq[t] + 1

\* Second half: the task waited on its old queue up to the end of this step.
Move(c, t) ==
    /\ pc[c] = "move" /\ t = stolen[c]
    /\ stolen' = [stolen EXCEPT ![c] = Idle]
    /\ Enqueue(Target(c), t, ticks)
    /\ realTime' = [realTime EXCEPT ![t] = @ + Waited(c, t)]
    /\ lastEnq' = [lastEnq EXCEPT ![t] = step[c] + 1]
    /\ EndTrial(c, {c, peer[c]})
    /\ UNCHANGED <<conf, mainVars, step, cur, userTime, sysTime, state, phase, ticks,
                   eventVars, completed>>

-----------------------------------------------------------------------------
(* schedule *)

SchedKeep(c) ==
    /\ pc[c] = "sched" /\ Unlocked(c)
    /\ ~resched[c] /\ cur[c] # Idle
    /\ pc' = [pc EXCEPT ![c] = "sync"]
    /\ UNCHANGED <<conf, mainVars, step, lbVars, rqVars, timeVars, classVars, burstVars,
                   eventVars, completed>>

\* Wrong: a task that has just gone to sleep is queued again.
CanGoOnAnyway(t) == t # Idle

\* prev->state==TS_ONPROC; the idle task is never queued.
CanGoOn(t) == t # Idle /\ state[t] = "ONPROC"

\* The current task goes back to the queue if it can go on, the head of the queue
\* comes next; need_resched is cleared.
SchedSwitch(c) ==
    LET prev == cur[c]
        again == CanGoOn(prev)
        q == IF again /\ ~onRq[prev] THEN QueueWith(c, prev, ticks) ELSE queue[c]
        next == IF q = <<>> THEN Idle ELSE Head(q)
        out == again /\ prev # next
        in == next # Idle /\ prev # next
    IN
    /\ pc[c] = "sched" /\ Unlocked(c)
    /\ resched[c] \/ prev = Idle
    /\ queue' = [queue EXCEPT ![c] = IF q = <<>> THEN q ELSE Tail(q)]
    /\ cur' = [cur EXCEPT ![c] = next]
    /\ resched' = [resched EXCEPT ![c] = FALSE]
    /\ onRq' = [t \in Tasks |-> t # next /\ (onRq[t] \/ (again /\ t = prev))]
    /\ front' = [t \in Tasks |-> front[t] /\ ~(again /\ ~onRq[t] /\ t = prev)]
    /\ counter' = [t \in Tasks |-> IF again /\ ~onRq[t] /\ t = prev
                                   THEN CounterWhenQueued(conf.sched, counter[t])
                                   ELSE counter[t]]
    /\ state' = [t \in Tasks |-> CASE in /\ t = next -> "ONPROC"
                                   [] out /\ t = prev -> "RUNNABLE"
                                   [] OTHER -> state[t]]
    /\ lastEnq' = [t \in Tasks |-> IF out /\ t = prev THEN step[c] + 1 ELSE lastEnq[t]]
    /\ realTime' = [t \in Tasks |-> IF in /\ t = next
                                    THEN realTime[t] + Waited(c, t)
                                    ELSE realTime[t]]
    /\ pc' = [pc EXCEPT ![c] = "sync"]
    /\ UNCHANGED <<conf, mainVars, step, lbVars, nrun, nextLb, lock, userTime, sysTime,
                   lastCpu, phase, ticks, eventVars, completed>>

-----------------------------------------------------------------------------
(* synchronize_cpus *)

\* Wrong: tasks that sleep are forgotten.
HasCompletedNow(c) == nrun[c] = 0

HasCompleted(c) == nrun[c] = 0 /\ events[c] = <<>>

SyncAlone(c) ==
    /\ pc[c] = "sync" /\ NrCpus = 1
    /\ completed' = IF HasCompleted(c) THEN 1 ELSE 0
    /\ pc' = [pc EXCEPT ![c] = "next"]
    /\ UNCHANGED <<conf, mainVars, step, lbVars, rqVars, timeVars, classVars, burstVars,
                   eventVars>>

\* Wrong: nobody resets the counter.
CompletedKept(c) == completed

\* CPU 0 resets the shared counter before it waits.
CompletedAtArrival(c) == IF c = 0 THEN 0 ELSE completed

Arrive(c) ==
    /\ pc[c] = "sync" /\ NrCpus > 1
    /\ completed' = CompletedAtArrival(c)
    /\ pc' = [pc EXCEPT ![c] = "wait0"]
    /\ UNCHANGED <<conf, mainVars, step, lbVars, rqVars, timeVars, classVars, burstVars,
                   eventVars>>

\* sys_barrier_wait on simulation_barrier[0] and [1] (pthread barriers).
Barrier(at, to) ==
    /\ \A c \in Cpus : pc[c] = at
    /\ pc' = [c \in Cpus |-> to]
    /\ UNCHANGED <<conf, mainVars, step, lbVars, rqVars, timeVars, classVars, burstVars,
                   eventVars, completed>>

Barrier0 == Barrier("wait0", "count")
Barrier1 == Barrier("wait1", "next")

\* The increment is protected by simulation_lock.
Count(c) ==
    /\ pc[c] = "count"
    /\ completed' = IF HasCompleted(c) THEN completed + 1 ELSE completed
    /\ pc' = [pc EXCEPT ![c] = "wait1"]
    /\ UNCHANGED <<conf, mainVars, step, lbVars, rqVars, timeVars, classVars, burstVars,
                   eventVars>>

-----------------------------------------------------------------------------
ProcessEvents(c) ==
    EventsDone(c) \/ \E t \in Tasks : NewTask(c, t) \/ AwakeTask(c, t) \/ CompleteAwake(c, t)

SchedulerTick(c) ==
    TickIdle(c) \/ \E t \in Tasks : TickRun(c, t) \/ TickComplete(c, t) \/ TickSleep(c, t)

LoadBalance(c) ==
    \/ LbSkip(c) \/ LbStart(c) \/ LbScan(c)
    \/ LbBalanced(c) \/ LbNeither(c) \/ LbChoose(c)
    \/ LockLower(c) \/ UnlockOwn(c) \/ LockHigher(c) \/ LockOwn(c)
    \/ Steal(c) \/ LbStale(c) \/ \E t \in Tasks : Move(c, t)

Schedule(c) == SchedKeep(c) \/ SchedSwitch(c)

SynchronizeCpus(c) == SyncAlone(c) \/ Arrive(c) \/ Count(c)

\* A step of the thread that simulates CPU c.
Thread(c) ==
    \/ FirstPick(c) \/ LoopTest(c)
    \/ ProcessEvents(c) \/ SchedulerTick(c) \/ LoadBalance(c) \/ Schedule(c)
    \/ SynchronizeCpus(c)

Main == AddTask \/ CreateThreads \/ Join

\* The process has exited.
Terminated == main = "ended" /\ UNCHANGED vars

Next == Main \/ Barrier0 \/ Barrier1 \/ (\E c \in Cpus : Thread(c)) \/ Terminated

Spec == Init /\ [][Next]_vars

\* The operating system runs every thread: one that can take a step does, and a
\* thread waiting for a mutex gets it once the others have stopped taking it,
\* which they have at the barrier of the step at the latest.
FairSpec ==
    /\ Spec
    /\ WF_vars(Main) /\ WF_vars(Barrier0) /\ WF_vars(Barrier1)
    /\ \A c \in Cpus : WF_vars(Thread(c))

-----------------------------------------------------------------------------
(* Properties *)

LbPlaces == {"scan", "decide", "dlock", "lockpeer", "lockown", "check", "move"}
StepPlaces == {"tick", "events", "lb", "sched", "sync"} \cup LbPlaces
PcPlaces == {"none", "boot", "pick", "loop", "wait0", "count", "wait1", "next", "exit",
             "abort"} \cup StepPlaces
TaskStates == {"STARTING", "RUNNABLE", "ONPROC", "SLEEP", "COMPLETED"}

\* Every variable has values of the kind the C declarations and the protocol
\* allow; nr_trials in particular stays below max_trials, which bounds the tasks
\* one call of load_balance moves.
TypeOK ==
    /\ conf \in Configurations
    /\ main \in {"add", "join", "ended"} /\ nextTask \in 0..NrTasks
    /\ pc \in [Cpus -> PcPlaces] /\ step \in [Cpus -> Nat]
    /\ trials \in [Cpus -> 0..(MaxTrials - 1)] /\ scan \in [Cpus -> 0..NrCpus]
    /\ load \in [Cpus -> [Cpus -> Int]] /\ peer \in [Cpus -> Cpus \cup {NoCpu}]
    /\ stolen \in [Cpus -> Tasks \cup {Idle}]
    /\ queue \in [Cpus -> Seq(Tasks)] /\ cur \in [Cpus -> Tasks \cup {Idle}]
    /\ resched \in [Cpus -> BOOLEAN] /\ nrun \in [Cpus -> Int]
    /\ nextLb \in [Cpus -> Nat] /\ lock \in [Cpus -> Cpus \cup {NoCpu}]
    /\ events \in [Cpus -> Seq(Tasks)] /\ timeout \in [Tasks -> Int]
    /\ state \in [Tasks -> TaskStates] /\ phase \in [Tasks -> Nat]
    /\ ticks \in [Tasks -> Int] /\ onRq \in [Tasks -> BOOLEAN]
    /\ lastCpu \in [Tasks -> Cpus] /\ lastEnq \in [Tasks -> Int]
    /\ front \in [Tasks -> BOOLEAN] /\ counter \in [Tasks -> Int]
    /\ userTime \in [Tasks -> Nat] /\ realTime \in [Tasks -> Int]
    /\ sysTime \in [Tasks -> Nat]
    /\ completed \in Nat

\* The slots of a per-CPU list s that hold task t.
SlotsOf(t, s) == {p \in Cpus \X (1..NrTasks) : p[2] <= Len(s[p[1]]) /\ s[p[1]][p[2]] = t}
RunningOn(t) == {c \in Cpus : cur[c] = t}
InHandOf(t) == {c \in Cpus : stolen[c] = t}

\* A task is where its state says and nowhere else: a runnable one in one slot of
\* one run queue (or in the hands of one balancing CPU), the one on a processor
\* current there and on no queue, a sleeping or arriving one in one event list.
\* Wake-ups, context switches and migrations by other CPUs all move tasks.
OnePlace ==
    main # "add" => \A t \in Tasks :
      LET slots == Cardinality(SlotsOf(t, queue))
          hands == Cardinality(InHandOf(t))
          waits == Cardinality(SlotsOf(t, events))
      IN /\ onRq[t] <=> slots = 1
         /\ slots + hands = IF state[t] = "RUNNABLE" THEN 1 ELSE 0
         /\ waits = IF state[t] \in {"STARTING", "SLEEP"} THEN 1 ELSE 0
         /\ state[t] = "ONPROC" => Cardinality(RunningOn(t)) = 1
         /\ state[t] \in {"STARTING", "RUNNABLE"} => RunningOn(t) = {}

\* nr_runnable, which load_balance trusts to find a task to steal and
\* cpu_has_completed to end the simulation, counts the queue and the current task.
RunnableCount ==
    \A c \in Cpus :
      nrun[c] = Len(queue[c]) + IF cur[c] # Idle /\ state[cur[c]] = "ONPROC" THEN 1 ELSE 0

\* No thread asks for an element of an empty run queue, or meets a phase of the
\* wrong kind (the three "Critical error" exits).
NoAbort == \A c \in Cpus : pc[c] # "abort"

\* Events are only looked at in the very step they are for, and only the first of
\* the list: none may ever be left behind, or it and all after it never fire.
NoOverdueEvent ==
    \A c \in Cpus : \A i \in 1..Len(events[c]) :
      timeout[events[c][i]] >=
        CASE pc[c] \in {"none", "boot", "exit"} -> 0
          [] pc[c] \in {"pick", "loop", "tick", "events"} -> step[c] + 1
          [] OTHER -> step[c] + 2

\* next_load_balancing is compared for equality with the step: it may not fall
\* behind, or the CPU never balances again unless it becomes idle.
BalancingNeverMissed ==
    NrCpus > 1 => \A c \in Cpus :
      /\ pc[c] \in {"boot", "pick", "loop", "tick", "events", "lb"} => nextLb[c] >= step[c]
      /\ pc[c] \in {"sched", "sync", "wait0", "count", "wait1", "next"} => nextLb[c] > step[c]

\* The lock a thread waits for while it holds others.
Wants(c) ==
    CASE pc[c] = "dlock" /\ GoesDown(c) -> {peer[c]}
      [] pc[c] = "lockpeer" -> {peer[c]}
      [] pc[c] = "lockown" -> {c}
      [] OTHER -> {}

\* The locking protocol of double_lock_rq: a thread that holds a run queue lock
\* waits only for the lock of a lower CPU, so no cycle of waiting threads forms.
LockOrder == \A c, d \in Cpus : lock[d] = c => \A w \in Wants(c) : w < d

\* A migration improves the balance even though the loads it was decided on are
\* stale: when the task arrives, its old CPU still has more than the new one.
MigrationImproves ==
    \A c \in Cpus : pc[c] = "move" => nrun[Source(c)] > nrun[Target(c)]

\* The step whose start (or end, once the tick has been charged) c has reached.
Now(c) == IF pc[c] \in {"none", "boot", "pick", "loop", "tick", "exit"} THEN step[c] ELSE step[c] + 1

\* real_time is "elapsed time since the application entered the system", however
\* the task has been queued, run, put to sleep and migrated.
RealTimeExact ==
    \A t \in Tasks :
      LET since(when) == when - conf.task[t].arrival IN
      /\ state[t] = "RUNNABLE" => realTime[t] = since(lastEnq[t])
      /\ state[t] = "SLEEP" => realTime[t] = since(timeout[t])
      /\ state[t] = "ONPROC" => \A c \in RunningOn(t) : realTime[t] = since(Now(c))

\* What the profile says of phase i, if it is an I/O phase as io says.
Lasting(t, io) ==
    [i \in Nat |-> IF i < NrPhases(t) /\ (IsIoPhase(i) <=> io) THEN PhaseLen(t, i) ELSE 0]

\* The sum of the first n of a sequence of lengths, for every n.
SumBefore(len) == LET sum[n \in Nat] == IF n = 0 THEN 0 ELSE sum[n - 1] + len[n - 1] IN sum

\* No tick of a CPU burst is lost, or run twice, by preemption and migration, and
\* no I/O phase is skipped: user_time and sys_time are what the profile says.
WorkConserved ==
    \A t \in Tasks :
      LET past(io) == SumBefore(Lasting(t, io))[phase[t]]
          active == state[t] \in {"RUNNABLE", "ONPROC"}
          asleep == state[t] = "SLEEP"
      IN  /\ userTime[t] = past(FALSE) + IF active THEN PhaseLen(t, phase[t]) - ticks[t] ELSE 0
          /\ sysTime[t] = past(TRUE) + IF asleep THEN PhaseLen(t, phase[t]) ELSE 0

\* In the preemptive SJF and PRIO, the current task does not keep the CPU from a
\* better one: from the moment one is queued (by a wake-up here, or a migration
\* from another CPU at any point of the step) a reschedule is pending.
NoLostPreemption ==
    conf.preemptive /\ conf.sched \in {"SJF", "PRIO"} =>
      \A c \in Cpus :
        LET key == Key(conf.sched, PrioOf, ticks) IN
        /\ cur[c] # Idle /\ state[cur[c]] = "ONPROC" /\ queue[c] # <<>>
        /\ key[Head(queue[c])] < key[cur[c]]
        => resched[c]

\* In RR and TJFEX no task starts a tick with its slice used up.
QuantumRespected ==
    conf.sched \in Sliced =>
      \A c \in Cpus : pc[c] = "tick" /\ cur[c] # Idle => counter[cur[c]] \in 1..Quantum

\* A task that wakes up queues behind the waiting tasks that are as good as it is;
\* only a preempted one may go in front ("to avoid unfair situations").
WakesBehindEquals ==
    [][\A c \in Cpus, t \in Tasks :
         LET key == Key(conf.sched, PrioOf, ticks') IN
         state[t] = "SLEEP" /\ t \in ToSet(queue'[c]) =>
           \A i \in 1..(Len(queue'[c]) - 1) :
             queue'[c][i] = t => key[queue'[c][i + 1]] # key[t]]_vars

\* The simulation stops before its last step only when every task has completed:
\* each CPU votes on its own queue and events after the first barrier.
StopsWhenDone ==
    \A c \in Cpus :
      pc[c] = "exit" /\ step[c] < MaxSteps => \A t \in Tasks : state[t] = "COMPLETED"

\* A task that is still runnable gets "a chance to be selected again" (the comment
\* in schedule()): it is on a run queue, on a processor or between two queues.
NoTaskLost ==
    \A t \in Tasks :
      state[t] \in {"RUNNABLE", "ONPROC"} =>
        SlotsOf(t, queue) # {} \/ RunningOn(t) # {} \/ InHandOf(t) # {}

\* The program ends: no thread is left at a barrier or waiting for a lock.
Termination == <>(main = "ended")

\* Given enough steps every task runs to completion.
AllTasksComplete == <>(\A t \in Tasks : state[t] = "COMPLETED")

-----------------------------------------------------------------------------
(* The threads follow the loop and barrier protocol of SyncCpus. *)

SyncPlace(p) ==
    CASE p \in {"none", "boot", "pick"} -> "boot"
      [] p \in StepPlaces -> "work"
      [] OTHER -> p

syncPc == [c \in Cpus |-> SyncPlace(pc[c])]

Sync == INSTANCE SyncCpus WITH pc <- syncPc

SyncSpec == Sync!Spec

=============================================================================
