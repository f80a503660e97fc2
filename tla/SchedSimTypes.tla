--------------------------- MODULE SchedSimTypes ---------------------------
(***************************************************************************)
(* Type correctness of SchedSim, for any number of CPUs the arrays of the  *)
(* simulator can hold, any tasks, and any command line and input file.     *)
(***************************************************************************)
EXTENDS SchedSim, SListProofs

-----------------------------------------------------------------------------
(* Constants, and the operators the actions are built from *)

\* What the input file gives: a phase is a number of ticks, and there is a first one.
LEMMA ConfigurationTypes ==
  ASSUME conf \in Configurations, NEW t \in Tasks
  PROVE  /\ conf.sched \in SchedNames
         /\ Prio(t) \in Int
         /\ conf.task[t].arrival \in Nat
         /\ NrPhases(t) \in Nat \ {0}
         /\ \A i \in Nat : i < NrPhases(t) => PhaseLen(t, i) \in Nat
         /\ t # Idle
<1>1. IsConfiguration(conf)
  BY ConfigurationsAssumption
<1>2. conf.task[t].phase \in Seq(Nat) /\ conf.task[t].phase # <<>>
  BY <1>1 DEF IsConfiguration
<1>3. NrPhases(t) \in Nat /\ NrPhases(t) # 0
  BY <1>2, LenProperties, EmptySeq DEF NrPhases
<1>4. ASSUME NEW i \in Nat, i < NrPhases(t) PROVE PhaseLen(t, i) \in Nat
  <2>1. i + 1 \in 1..Len(conf.task[t].phase)
    BY <1>3, <1>4 DEF NrPhases
  <2> QED BY <1>2, <2>1, ElementOfSeq DEF PhaseLen
<1>5. t # Idle
  BY SchedSimAssumption DEF Tasks, Idle
<1> QED BY <1>1, <1>3, <1>4, <1>5 DEF IsConfiguration, Prio

\* Wherever a task is queued, the queue stays a list of tasks.
LEMMA QueuedType ==
  ASSUME NEW S, NEW q \in Seq(S), NEW t \in S, NEW sched, NEW fr \in BOOLEAN, NEW prio, NEW tk
  PROVE  Queued(sched, q, t, fr, prio, tk) \in Seq(S)
<1> DEFINE key == Key(sched, prio, tk)
           ascending == sched \notin Longest
<1>1. InsertSList(q, t) \in Seq(S)
  BY AppendProperties DEF InsertSList
<1>2. SortedInsert(q, t, ascending, key) \in Seq(S)
  BY SortedInsertType
<1>3. SortedInsertFront(q, t, ascending, key) \in Seq(S)
  BY SortedInsertType
<1>4. CASE sched \in Fifo
  BY <1>1, <1>4 DEF Queued
<1>5. CASE sched \notin Fifo /\ fr
  BY <1>3, <1>5 DEF Queued
<1>6. CASE sched \notin Fifo /\ ~fr
  BY <1>2, <1>6 DEF Queued
<1> QED BY <1>4, <1>5, <1>6

\* The private counters of the classes are integers.
LEMMA CounterTypes ==
  ASSUME NEW sched \in SchedNames, NEW n \in Int
  PROVE  /\ InitialCounter(sched) \subseteq Int
         /\ CounterWhenQueued(sched, n) \in Int
         /\ CounterAfterTick(sched, n) \in Int
<1>1. CASE sched \in Sliced
  BY <1>1, QuantumAssumption
     DEF InitialCounter, CounterWhenQueued, CounterAfterTick, Counting, Sliced
<1>2. CASE sched = "LOT"
  BY <1>2, QuantumAssumption
     DEF InitialCounter, CounterWhenQueued, CounterAfterTick, Counting, Sliced
<1>3. CASE sched \notin Counting
  BY <1>3, QuantumAssumption
     DEF InitialCounter, CounterWhenQueued, CounterAfterTick, Counting, Sliced
<1> QED BY <1>1, <1>2, <1>3 DEF Counting

\* The elements of a list, and what is left when one is taken at either end.
LEMMA ListEnds ==
  ASSUME NEW S, NEW q \in Seq(S), q # <<>>
  PROVE  Head(q) \in S /\ Tail(q) \in Seq(S) /\ Last(q) \in S /\ RemoveTail(q) \in Seq(S)
<1>1. Len(q) \in Nat /\ Len(q) # 0 /\ \A i \in 1..Len(q) : q[i] \in S
  BY LenProperties, EmptySeq, ElementOfSeq
<1>2. Head(q) \in S /\ Tail(q) \in Seq(S)
  BY HeadTailProperties
<1>3. Last(q) \in S
  BY <1>1 DEF Last
<1>4. SubSeq(q, 1, Len(q) - 1) \in Seq(S)
  BY <1>1, SubSeqProperties
<1> QED BY <1>2, <1>3, <1>4 DEF RemoveTail, Front

\* Among finitely many loads there is a largest and a smallest one.
LEMMA ExtremeLoads ==
  ASSUME NEW f, NEW n \in Nat, \A i \in 0..n : f[i] \in Int
  PROVE  /\ \E m \in 0..n : \A i \in 0..n : f[i] <= f[m]
         /\ \E m \in 0..n : \A i \in 0..n : f[m] <= f[i]
<1> DEFINE Largest(k) == \E m \in 0..k : \A i \in 0..k : f[i] <= f[m]
           Smallest(k) == \E m \in 0..k : \A i \in 0..k : f[m] <= f[i]
           T == {k \in 0..n : ~ (Largest(k) /\ Smallest(k))}
<1>1. SUFFICES ASSUME T # {} PROVE FALSE
  <2>1. n \in T \/ (Largest(n) /\ Smallest(n))
    OBVIOUS
  <2> QED BY <1>1, <2>1
<1>2. PICK k \in T : \A j \in T : k <= j
  <2>1. T \in SUBSET Nat
    OBVIOUS
  <2> HIDE DEF T
  <2> QED BY <1>1, <2>1, LeastElement
<1>3. k # 0
  <2>1. f[0] \in Int
    OBVIOUS
  <2>2. Largest(0) /\ Smallest(0)
    BY <2>1
  <2> QED BY <2>2
<1>4. k - 1 \in 0..n /\ k \in 0..n /\ k - 1 \notin T
  <2>1. k \in 0..n
    BY <1>2
  <2>2. k - 1 \in 0..n
    BY <1>3, <2>1
  <2> HIDE DEF T
  <2>3. k - 1 \notin T
    BY <1>2, <2>1
  <2> QED BY <2>1, <2>2, <2>3
<1>5. Largest(k - 1) /\ Smallest(k - 1)
  BY <1>4
<1>6. Largest(k)
  <2>1. PICK m \in 0..(k - 1) : \A i \in 0..(k - 1) : f[i] <= f[m]
    BY <1>5
  <2>2. f[m] \in Int /\ f[k] \in Int
    BY <1>4, <2>1
  <2>3. CASE f[k] <= f[m]
    <3>1. m \in 0..k /\ \A i \in 0..k : i = k \/ i \in 0..(k - 1)
      BY <1>4
    <3> QED BY <2>1, <2>3, <3>1
  <2>4. CASE f[m] <= f[k]
    <3>1. k \in 0..k /\ \A i \in 0..k : i = k \/ i \in 0..(k - 1)
      BY <1>4
    <3>2. \A i \in 0..(k - 1) : f[i] \in Int
      BY <1>4
    <3>3. \A i \in 0..k : f[i] <= f[k]
      BY <2>1, <2>2, <2>4, <3>1, <3>2
    <3> QED BY <3>1, <3>3
  <2> QED BY <2>2, <2>3, <2>4
<1>7. Smallest(k)
  <2>1. PICK m \in 0..(k - 1) : \A i \in 0..(k - 1) : f[m] <= f[i]
    BY <1>5
  <2>2. f[m] \in Int /\ f[k] \in Int
    BY <1>4, <2>1
  <2>3. CASE f[m] <= f[k]
    <3>1. m \in 0..k /\ \A i \in 0..k : i = k \/ i \in 0..(k - 1)
      BY <1>4
    <3> QED BY <2>1, <2>3, <3>1
  <2>4. CASE f[k] <= f[m]
    <3>1. k \in 0..k /\ \A i \in 0..k : i = k \/ i \in 0..(k - 1)
      BY <1>4
    <3>2. \A i \in 0..(k - 1) : f[i] \in Int
      BY <1>4
    <3>3. \A i \in 0..k : f[k] <= f[i]
      BY <2>1, <2>2, <2>4, <3>1, <3>2
    <3> QED BY <3>1, <3>3
  <2> QED BY <2>2, <2>3, <2>4
<1> QED BY <1>2, <1>6, <1>7

\* The CPU that load_balance chooses exists, and it is not this CPU unless the
\* loads are balanced: cpu_max and cpu_min hold the extreme loads.
LEMMA ChosenCpus ==
  ASSUME load \in [Cpus -> [Cpus -> Int]], NEW c \in Cpus
  PROVE  /\ CpuMax(c) \in Cpus /\ load[c][CpuMax(c)] = MaxLoad(c)
         /\ CpuMin(c) \in Cpus /\ load[c][CpuMin(c)] = MinLoad(c)
         /\ MaxLoad(c) \in Int /\ MinLoad(c) \in Int
<1> DEFINE f == load[c]
           loads == {f[d] : d \in Cpus}
<1>1. \A i \in 0..(NrCpus - 1) : f[i] \in Int
  BY DEF Cpus
<1>2. NrCpus - 1 \in Nat
  BY NrCpusAssumption
<1>3. /\ \E m \in Cpus : \A i \in Cpus : f[i] <= f[m]
      /\ \E m \in Cpus : \A i \in Cpus : f[m] <= f[i]
  <2> HIDE DEF f
  <2> QED BY <1>1, <1>2, ExtremeLoads DEF Cpus
<1>4. \A x \in loads : x \in Int
  BY <1>1 DEF Cpus
<1>5. \E x \in loads : \A y \in loads : x >= y
  <2>1. PICK m \in Cpus : \A i \in Cpus : f[i] <= f[m]
    BY <1>3
  <2>2. f[m] \in loads /\ \A y \in loads : f[m] >= y
    BY <1>4, <2>1
  <2> QED BY <2>2
<1>6. \E x \in loads : \A y \in loads : x <= y
  <2>1. PICK m \in Cpus : \A i \in Cpus : f[m] <= f[i]
    BY <1>3
  <2>2. f[m] \in loads /\ \A y \in loads : f[m] <= y
    BY <1>4, <2>1
  <2> QED BY <2>2
<1>7. MaxLoad(c) \in loads /\ MinLoad(c) \in loads
  BY <1>5, <1>6 DEF MaxLoad, MinLoad, Max, Min
<1>8. ASSUME NEW v \in loads
      PROVE  LET D == {d \in Cpus : load[c][d] = v} IN Min(D) \in D
  <2> DEFINE D == {d \in Cpus : load[c][d] = v}
  <2>1. D \in SUBSET Nat
    BY NrCpusAssumption DEF Cpus
  <2>4. D # {}
    <3>1. PICK d \in Cpus : v = f[d]
      OBVIOUS
    <3>2. d \in D
      BY <3>1
    <3> QED BY <3>2
  <2> HIDE DEF D
  <2>2. \E m \in D : \A d \in D : m <= d
    BY <2>1, <2>4, LeastElement
  <2>3. Min(D) \in D
    BY <2>2 DEF Min
  <2> QED BY <2>3 DEF D
<1> QED BY <1>4, <1>7, <1>8 DEF CpuMax, CpuMin

-----------------------------------------------------------------------------
(* The inductive invariant: what type correctness needs to know besides *)

\* The places of load_balance in which another CPU has been chosen.
PeerPlaces == {"dlock", "lockpeer", "lockown", "check", "move"}

\* A task that has not arrived yet is before its first phase.
StartsAtFirstPhase == \A t \in Tasks : state[t] = "STARTING" => phase[t] = 0

\* The scan of the loads starts at CPU 0 and stays within the arrays.
ScanInRange ==
    \A c \in Cpus : /\ pc[c] = "scan" => scan[c] < NrCpus
                    /\ pc[c] \notin LbPlaces \cup {"abort"} => scan[c] = 0

\* The other CPU is one.
PeerChosen == \A c \in Cpus : pc[c] \in PeerPlaces => peer[c] \in Cpus

\* No thread runs before the tasks have been entered.
ThreadsAfterTasks == main = "add" => \A c \in Cpus : pc[c] = "none"

TypeInv ==
    /\ TypeOK
    /\ ThreadsAfterTasks
    /\ StartsAtFirstPhase
    /\ ScanInRange
    /\ PeerChosen

LEMMA InitTypeInv == Init => TypeInv
<1>1. SUFFICES ASSUME Init PROVE TypeInv
  OBVIOUS
<1>2. 0 \in Cpus /\ \A c \in Cpus : c \in Nat /\ c % NrCpus \in Nat
  BY NrCpusAssumption DEF Cpus
<1>3. TypeOK
  BY <1>1, <1>2, SchedSimAssumption, NrCpusAssumption
     DEF Init, TypeOK, PcPlaces, StepPlaces, LbPlaces, TaskStates, Idle, NoCpu
<1> QED BY <1>1, <1>3, NrCpusAssumption
        DEF Init, TypeInv, ThreadsAfterTasks, StartsAtFirstPhase, ScanInRange, PeerChosen, PeerPlaces

\* insert_sched_event keeps the event lists lists of tasks.
LEMMA InsertEventType ==
  ASSUME events \in [Cpus -> Seq(Tasks)], timeout \in [Tasks -> Int],
         NEW c \in Cpus, NEW t \in Tasks, NEW when \in Int, InsertEvent(c, t, when)
  PROVE  events' \in [Cpus -> Seq(Tasks)] /\ timeout' \in [Tasks -> Int]
<1>1. SortedInsert(events[c], t, TRUE, timeout') \in Seq(Tasks)
  BY SortedInsertType
<1> QED BY <1>1 DEF InsertEvent

\* do_enqueue_task, when it runs for a CPU and a task that exist.
LEMMA EnqueueType ==
  ASSUME TypeOK, NEW c \in Cpus, NEW t \in Tasks, NEW tk, Enqueue(c, t, tk)
  PROVE  /\ queue' \in [Cpus -> Seq(Tasks)] /\ nrun' \in [Cpus -> Int]
         /\ resched' \in [Cpus -> BOOLEAN] /\ lastCpu' \in [Tasks -> Cpus]
         /\ onRq' \in [Tasks -> BOOLEAN] /\ front' \in [Tasks -> BOOLEAN]
         /\ counter' \in [Tasks -> Int]
<1>1. QueueWith(c, t, tk) \in Seq(Tasks)
  BY QueuedType DEF QueueWith, TypeOK
<1>2. CounterWhenQueued(conf.sched, counter[t]) \in Int
  BY ConfigurationTypes, CounterTypes DEF TypeOK
<1>0. /\ queue \in [Cpus -> Seq(Tasks)] /\ nrun \in [Cpus -> Int]
      /\ resched \in [Cpus -> BOOLEAN] /\ lastCpu \in [Tasks -> Cpus]
      /\ onRq \in [Tasks -> BOOLEAN] /\ front \in [Tasks -> BOOLEAN]
      /\ counter \in [Tasks -> Int]
  BY DEF TypeOK
<1>6. /\ nrun' = [nrun EXCEPT ![c] = @ + 1]
      /\ lastCpu' = [lastCpu EXCEPT ![t] = c]
      /\ onRq' = [onRq EXCEPT ![t] = TRUE]
  BY DEF Enqueue
<1>3. /\ nrun' \in [Cpus -> Int] /\ lastCpu' \in [Tasks -> Cpus]
      /\ onRq' \in [Tasks -> BOOLEAN]
  BY <1>0, <1>6
<1>4. CASE onRq[t]
  BY <1>3, <1>4 DEF Enqueue, TypeOK
<1>5. CASE ~onRq[t]
  <2>4. /\ queue' = [queue EXCEPT ![c] = QueueWith(c, t, tk)]
        /\ counter' = [counter EXCEPT ![t] = CounterWhenQueued(conf.sched, @)]
    BY <1>5 DEF Enqueue
  <2>1. queue' \in [Cpus -> Seq(Tasks)] /\ counter' \in [Tasks -> Int]
    BY <1>0, <1>1, <1>2, <2>4
  <2>2. front' \in [Tasks -> BOOLEAN]
    BY <1>5 DEF Enqueue, TypeOK
  <2>3. resched' \in [Cpus -> BOOLEAN]
    BY <1>5 DEF Enqueue, TypeOK
  <2> QED BY <1>3, <2>1, <2>2, <2>3
<1> QED BY <1>4, <1>5

-----------------------------------------------------------------------------
(* Every step preserves it *)

\* Dealing a task out to a CPU.
LEMMA DealtOut == \A n \in Nat : n % NrCpus \in Cpus
  BY NrCpusAssumption DEF Cpus

\* sched_start.
LEMMA MainTypeInv ==
  ASSUME TypeInv, Main
  PROVE  TypeInv'
<1>1. CASE AddTask
  <2> DEFINE t == nextTask
  <2>1. t \in Tasks /\ nextTask' = t + 1
    BY <1>1 DEF AddTask
  <2>2. t \in Nat /\ nextTask' \in 0..NrTasks
    BY <2>1, SchedSimAssumption DEF Tasks
  <2>3. t % NrCpus \in Cpus
    BY <2>2, DealtOut
  <2>4. /\ conf \in Configurations /\ events \in [Cpus -> Seq(Tasks)]
        /\ timeout \in [Tasks -> Int] /\ counter \in [Tasks -> Int]
        /\ lastCpu \in [Tasks -> Cpus]
    BY DEF TypeInv, TypeOK
  <2>5. conf.task[t].arrival \in Int /\ conf.sched \in SchedNames
    BY <2>1, <2>4, ConfigurationTypes
  <2>6. InitialCounter(conf.sched) \subseteq Int
    BY <2>5, CounterTypes
  <2>7. events' \in [Cpus -> Seq(Tasks)] /\ timeout' \in [Tasks -> Int]
    <3>1. InsertEvent(t % NrCpus, t, conf.task[t].arrival)
      BY <1>1 DEF AddTask
    <3> QED BY <2>1, <2>3, <2>4, <2>5, <3>1, InsertEventType
  <2>8. counter' \in [Tasks -> Int]
    BY <1>1, <2>1, <2>4, <2>6 DEF AddTask
  <2>9. lastCpu' \in [Tasks -> Cpus]
    BY <1>1, <2>1, <2>3, <2>4 DEF AddTask
  <2>10. TypeOK'
    BY <1>1, <2>2, <2>7, <2>8, <2>9
       DEF TypeInv, TypeOK, AddTask, threadVars, lbVars, rqVars, timeVars, burstVars
  <2> QED BY <1>1, <2>10
          DEF TypeInv, ThreadsAfterTasks, StartsAtFirstPhase, ScanInRange, PeerChosen, AddTask,
              threadVars, lbVars, burstVars
<1>2. CASE CreateThreads
  <2>1. TypeOK'
    BY <1>2
       DEF CreateThreads, TypeInv, TypeOK, PcPlaces, lbVars, rqVars, timeVars, classVars, burstVars,
           eventVars
  <2>2. /\ main' = "join" /\ pc' = [c \in Cpus |-> "boot"]
        /\ scan' = scan /\ peer' = peer /\ state' = state /\ phase' = phase
    BY <1>2 DEF CreateThreads, lbVars, burstVars
  <2>3. \A c \in Cpus : scan[c] = 0
    BY <1>2 DEF CreateThreads, TypeInv, ThreadsAfterTasks, ScanInRange, LbPlaces
  <2>4. ThreadsAfterTasks' /\ StartsAtFirstPhase' /\ ScanInRange' /\ PeerChosen'
    BY <2>2, <2>3
       DEF TypeInv, ThreadsAfterTasks, StartsAtFirstPhase, ScanInRange, PeerChosen, PeerPlaces
  <2> QED BY <2>1, <2>4 DEF TypeInv
<1>3. CASE Join
  <2>1. TypeOK'
    BY <1>3
       DEF Join, TypeInv, TypeOK, threadVars, lbVars, rqVars, timeVars, classVars, burstVars,
           eventVars
  <2>2. /\ main' # "add" /\ pc' = pc
        /\ scan' = scan /\ peer' = peer /\ state' = state /\ phase' = phase
    BY <1>3 DEF Join, threadVars, lbVars, burstVars
  <2> QED BY <2>1, <2>2
          DEF TypeInv, ThreadsAfterTasks, StartsAtFirstPhase, ScanInRange, PeerChosen
<1> QED BY <1>1, <1>2, <1>3 DEF Main

\* A step of a thread that exists.
LEMMA ThreadStep ==
  ASSUME TypeInv, NEW c \in Cpus, pc[c] # "none", main' = main
  PROVE  ThreadsAfterTasks'
BY DEF TypeInv, ThreadsAfterTasks

\* process_sched_events: a task starts on a phase it has.
LEMMA WakeTypeInv ==
  ASSUME TypeInv, NEW c \in Cpus, NEW t \in Tasks, NEW i \in Nat, i < NrPhases(t),
         pc[c] \in {"boot", "events"},
         events[c] # <<>>, events' = [events EXCEPT ![c] = Tail(@)], Wake(c, t, i)
  PROVE  TypeInv'
<1>0. conf \in Configurations /\ step \in [Cpus -> Nat]
  BY DEF TypeInv, TypeOK
<1>1. PhaseLen(t, i) \in Nat /\ Entering(c) \in Int
  BY <1>0, ConfigurationTypes DEF Entering
<1>2. events' \in [Cpus -> Seq(Tasks)]
  <2>1. Tail(events[c]) \in Seq(Tasks)
    BY ListEnds DEF TypeInv, TypeOK
  <2> QED BY <2>1 DEF TypeInv, TypeOK
<1>3. /\ queue' \in [Cpus -> Seq(Tasks)] /\ nrun' \in [Cpus -> Int]
      /\ resched' \in [Cpus -> BOOLEAN] /\ lastCpu' \in [Tasks -> Cpus]
      /\ onRq' \in [Tasks -> BOOLEAN] /\ front' \in [Tasks -> BOOLEAN]
      /\ counter' \in [Tasks -> Int]
  BY EnqueueType DEF TypeInv, Wake
<1>4. /\ state' = [state EXCEPT ![t] = "RUNNABLE"] /\ phase' = [phase EXCEPT ![t] = i]
      /\ ticks' = [ticks EXCEPT ![t] = PhaseLen(t, i)]
      /\ lastEnq' = [lastEnq EXCEPT ![t] = Entering(c)]
      /\ pc' = pc \/ pc' = [pc EXCEPT ![c] = "abort"]
  BY DEF Wake
<1>5. TypeOK'
  <2>1. pc' \in [Cpus -> PcPlaces]
    BY <1>4 DEF TypeInv, TypeOK, PcPlaces
  <2>2. state' \in [Tasks -> TaskStates] /\ phase' \in [Tasks -> Nat]
    BY <1>4 DEF TypeInv, TypeOK, TaskStates
  <2>3. ticks' \in [Tasks -> Int] /\ lastEnq' \in [Tasks -> Int]
    <3>1. ticks \in [Tasks -> Int] /\ lastEnq \in [Tasks -> Int]
      BY DEF TypeInv, TypeOK
    <3> QED BY <1>1, <1>4, <3>1
  <2> QED BY <1>2, <1>3, <2>1, <2>2, <2>3
          DEF TypeInv, TypeOK, Wake, mainVars, lbVars, timeVars
<1>6. ScanInRange' /\ PeerChosen'
  BY <1>4 DEF TypeInv, TypeOK, ScanInRange, PeerChosen, PeerPlaces, LbPlaces, Wake, lbVars
<1>7. StartsAtFirstPhase'
  BY <1>4 DEF TypeInv, TypeOK, StartsAtFirstPhase
<1>8. ThreadsAfterTasks'
  BY ThreadStep DEF Wake, mainVars
<1> QED BY <1>5, <1>6, <1>7, <1>8 DEF TypeInv

LEMMA ProcessEventsTypeInv ==
  ASSUME TypeInv, NEW c \in Cpus, ProcessEvents(c)
  PROVE  TypeInv'
<1>1. CASE EventsDone(c)
  <2>1. TypeOK'
    BY <1>1
       DEF EventsDone, TypeInv, TypeOK, PcPlaces, StepPlaces, mainVars, lbVars, rqVars, timeVars,
           classVars, burstVars, eventVars
  <2>2. ScanInRange' /\ PeerChosen'
    BY <1>1
       DEF EventsDone, TypeInv, TypeOK, ScanInRange, PeerChosen, PeerPlaces, LbPlaces, lbVars
  <2>3. ThreadsAfterTasks'
    BY <1>1, ThreadStep DEF EventsDone, mainVars
  <2> QED BY <1>1, <2>1, <2>2, <2>3 DEF EventsDone, TypeInv, StartsAtFirstPhase, burstVars
<1>2. ASSUME NEW t \in Tasks, NewTask(c, t) PROVE TypeInv'
  <2>3. conf \in Configurations /\ (state[t] = "STARTING" => phase[t] = 0)
    BY DEF TypeInv, TypeOK, StartsAtFirstPhase
  <2>4. NrPhases(t) \in Nat \ {0}
    BY <2>3, ConfigurationTypes
  <2>1. phase[t] = 0 /\ 0 < NrPhases(t)
    BY <1>2, <2>3, <2>4 DEF NewTask
  <2>2. /\ pc[c] \in {"boot", "events"} /\ events[c] # <<>>
        /\ events' = [events EXCEPT ![c] = Tail(@)] /\ Wake(c, t, 0)
    BY <1>2, <2>1 DEF NewTask, TakesEvent, Due
  <2>5. 0 \in Nat
    OBVIOUS
  <2> QED BY <2>1, <2>2, <2>5, WakeTypeInv
<1>3. ASSUME NEW t \in Tasks, AwakeTask(c, t) PROVE TypeInv'
  <2>1. phase[t] + 1 < NrPhases(t)
    BY <1>3 DEF AwakeTask
  <2>2. /\ pc[c] \in {"boot", "events"} /\ events[c] # <<>>
        /\ events' = [events EXCEPT ![c] = Tail(@)] /\ Wake(c, t, phase[t] + 1)
    BY <1>3 DEF AwakeTask, TakesEvent, Due
  <2>3. phase[t] + 1 \in Nat
    <3>1. phase \in [Tasks -> Nat]
      BY DEF TypeInv, TypeOK
    <3> QED BY <3>1
  <2> QED BY <2>1, <2>2, <2>3, WakeTypeInv
<1>4. ASSUME NEW t \in Tasks, CompleteAwake(c, t) PROVE TypeInv'
  <2>1. Tail(events[c]) \in Seq(Tasks)
    <3>1. events[c] # <<>> /\ events[c] \in Seq(Tasks)
      BY <1>4 DEF CompleteAwake, TakesEvent, Due, TypeInv, TypeOK
    <3> QED BY <3>1, ListEnds
  <2>3. /\ events \in [Cpus -> Seq(Tasks)] /\ phase \in [Tasks -> Nat]
        /\ state \in [Tasks -> TaskStates]
    BY DEF TypeInv, TypeOK
  <2>2. /\ events' \in [Cpus -> Seq(Tasks)] /\ phase' \in [Tasks -> Nat]
        /\ state' \in [Tasks -> TaskStates]
    BY <1>4, <2>1, <2>3 DEF CompleteAwake, TakesEvent, TaskStates
  <2>4. TypeOK'
    BY <1>4, <2>2
       DEF CompleteAwake, TypeInv, TypeOK, mainVars, threadVars, lbVars, rqVars, timeVars,
           classVars
  <2>5. StartsAtFirstPhase'
    BY <1>4, <2>3 DEF CompleteAwake, TypeInv, StartsAtFirstPhase
  <2>6. pc' = pc /\ scan' = scan /\ peer' = peer
    BY <1>4 DEF CompleteAwake, threadVars, lbVars
  <2>7. ThreadsAfterTasks'
    BY <1>4, ThreadStep DEF CompleteAwake, TakesEvent, mainVars
  <2> QED BY <2>4, <2>5, <2>6, <2>7 DEF TypeInv, ScanInRange, PeerChosen
<1> QED BY <1>1, <1>2, <1>3, <1>4 DEF ProcessEvents

\* scheduler_tick.
LEMMA TickTypeInv ==
  ASSUME TypeInv, NEW c \in Cpus, SchedulerTick(c)
  PROVE  TypeInv'
<1>1. /\ conf \in Configurations /\ pc \in [Cpus -> PcPlaces] /\ step \in [Cpus -> Nat]
      /\ resched \in [Cpus -> BOOLEAN] /\ nrun \in [Cpus -> Int]
      /\ events \in [Cpus -> Seq(Tasks)] /\ timeout \in [Tasks -> Int]
      /\ state \in [Tasks -> TaskStates] /\ phase \in [Tasks -> Nat] /\ ticks \in [Tasks -> Int]
      /\ lastCpu \in [Tasks -> Cpus] /\ counter \in [Tasks -> Int]
      /\ userTime \in [Tasks -> Nat] /\ realTime \in [Tasks -> Int] /\ sysTime \in [Tasks -> Nat]
  BY DEF TypeInv, TypeOK
\* Leaving "tick" for a place that is not one of load_balance.
<1>2. ASSUME pc[c] = "tick", UNCHANGED mainVars, UNCHANGED lbVars,
             \E p \in {"events", "abort"} : pc' = [pc EXCEPT ![c] = p]
      PROVE  pc' \in [Cpus -> PcPlaces] /\ ThreadsAfterTasks' /\ ScanInRange' /\ PeerChosen'
  <2>1. PICK p \in {"events", "abort"} : pc' = [pc EXCEPT ![c] = p]
    BY <1>2
  <2>2. pc' \in [Cpus -> PcPlaces]
    BY <1>1, <2>1 DEF PcPlaces, StepPlaces
  <2>3. ScanInRange'
    BY <1>1, <1>2, <2>1 DEF TypeInv, ScanInRange, LbPlaces, lbVars
  <2>4. PeerChosen'
    BY <1>1, <1>2, <2>1 DEF TypeInv, PeerChosen, PeerPlaces, lbVars
  <2>5. ThreadsAfterTasks'
    BY <1>2, ThreadStep DEF mainVars
  <2> QED BY <2>2, <2>3, <2>4, <2>5
<1>3. CASE TickIdle(c)
  <2>1. pc' \in [Cpus -> PcPlaces] /\ ThreadsAfterTasks' /\ ScanInRange' /\ PeerChosen'
    BY <1>2, <1>3 DEF TickIdle
  <2>2. TypeOK'
    BY <1>3, <2>1
       DEF TickIdle, TypeInv, TypeOK, mainVars, lbVars, rqVars, timeVars, classVars, burstVars,
           eventVars
  <2> QED BY <1>3, <2>1, <2>2 DEF TickIdle, TypeInv, StartsAtFirstPhase, burstVars
<1>4. ASSUME NEW t \in Tasks, NEW io \in Nat, ChargeTick(c, t, io)
      PROVE  /\ userTime' \in [Tasks -> Nat] /\ realTime' \in [Tasks -> Int]
             /\ sysTime' \in [Tasks -> Nat] /\ lastCpu' \in [Tasks -> Cpus]
             /\ counter' \in [Tasks -> Int] /\ ticks' \in [Tasks -> Int]
  <2>1. CounterAfterTick(conf.sched, counter[t]) \in Int
    BY <1>1, ConfigurationTypes, CounterTypes
  <2>2. /\ userTime' = [userTime EXCEPT ![t] = @ + 1]
        /\ realTime' = [realTime EXCEPT ![t] = @ + 1 + io]
        /\ sysTime' = [sysTime EXCEPT ![t] = @ + io]
        /\ lastCpu' = [lastCpu EXCEPT ![t] = c]
        /\ counter' = [counter EXCEPT ![t] = CounterAfterTick(conf.sched, @)]
        /\ ticks' = [ticks EXCEPT ![t] = @ - 1]
    BY <1>4 DEF ChargeTick
  <2>3. userTime' \in [Tasks -> Nat] /\ sysTime' \in [Tasks -> Nat] /\ realTime' \in [Tasks -> Int]
    BY <1>1, <2>2, SMTT(60)
  <2>4. lastCpu' \in [Tasks -> Cpus] /\ counter' \in [Tasks -> Int] /\ ticks' \in [Tasks -> Int]
    BY <1>1, <2>1, <2>2, SMTT(60)
  <2> QED BY <2>3, <2>4
\* What the tasks' descriptors may become.
<1>5. ASSUME NEW t \in Tasks, EndBurst(c, t), NEW s \in {"COMPLETED", "SLEEP"},
             state' = [state EXCEPT ![t] = s]
      PROVE  /\ nrun' \in [Cpus -> Int] /\ resched' \in [Cpus -> BOOLEAN]
             /\ phase' \in [Tasks -> Nat] /\ state' \in [Tasks -> TaskStates]
             /\ StartsAtFirstPhase'
  <2>1. nrun' \in [Cpus -> Int] /\ resched' \in [Cpus -> BOOLEAN] /\ phase' \in [Tasks -> Nat]
    BY SMTT(20), <1>1, <1>5 DEF EndBurst
  <2>2. state' \in [Tasks -> TaskStates]
    BY <1>1, <1>5 DEF TaskStates
  <2>3. StartsAtFirstPhase'
    BY <1>1, <1>5 DEF EndBurst, TypeInv, StartsAtFirstPhase
  <2> QED BY <2>1, <2>2, <2>3
<1>6. ASSUME NEW t \in Tasks, TickRun(c, t) PROVE TypeInv'
  <2>1. pc' \in [Cpus -> PcPlaces] /\ ThreadsAfterTasks' /\ ScanInRange' /\ PeerChosen'
    BY <1>2, <1>6 DEF TickRun, ChargeTick
  <2>2. resched' \in [Cpus -> BOOLEAN]
    BY <1>1, <1>6 DEF TickRun, CounterExpires
  <2>3. TypeOK'
    BY <1>4, <1>6, <2>1, <2>2
       DEF TickRun, ChargeTick, TypeInv, TypeOK, mainVars, lbVars, eventVars
  <2> QED BY <1>6, <2>1, <2>3 DEF TickRun, TypeInv, StartsAtFirstPhase
<1>7. ASSUME NEW t \in Tasks, TickComplete(c, t) PROVE TypeInv'
  <2>1. pc' \in [Cpus -> PcPlaces] /\ ThreadsAfterTasks' /\ ScanInRange' /\ PeerChosen'
    BY <1>2, <1>7 DEF TickComplete, ChargeTick
  <2>2. /\ nrun' \in [Cpus -> Int] /\ resched' \in [Cpus -> BOOLEAN]
        /\ phase' \in [Tasks -> Nat] /\ state' \in [Tasks -> TaskStates]
        /\ StartsAtFirstPhase'
    BY <1>5, <1>7 DEF TickComplete
  <2>3. TypeOK'
    BY <1>4, <1>7, <2>1, <2>2
       DEF TickComplete, ChargeTick, TypeInv, TypeOK, mainVars, lbVars, eventVars
  <2> QED BY <2>1, <2>2, <2>3 DEF TypeInv
<1>8. ASSUME NEW t \in Tasks, TickSleep(c, t) PROVE TypeInv'
  <2> DEFINE io == PhaseLen(t, phase[t] + 1)
  <2>0. io \in Nat
    <3>1. phase[t] + 1 \in Nat /\ phase[t] + 1 < NrPhases(t)
      BY <1>1, <1>8 DEF TickSleep
    <3> QED BY <1>1, <3>1, ConfigurationTypes
  <2>4. ChargeTick(c, t, io) /\ InsertEvent(c, t, step[c] + io + 1)
    BY <1>8 DEF TickSleep
  <2>5. events' \in [Cpus -> Seq(Tasks)] /\ timeout' \in [Tasks -> Int]
    <3>1. step[c] + io + 1 \in Int
      BY SMTT(20), <1>1, <2>0
    <3> HIDE DEF io
    <3> QED BY <1>1, <2>4, <3>1, InsertEventType
  <2>1. pc' \in [Cpus -> PcPlaces] /\ ThreadsAfterTasks' /\ ScanInRange' /\ PeerChosen'
    BY <1>2, <1>8 DEF TickSleep, ChargeTick
  <2>2. /\ nrun' \in [Cpus -> Int] /\ resched' \in [Cpus -> BOOLEAN]
        /\ phase' \in [Tasks -> Nat] /\ state' \in [Tasks -> TaskStates]
        /\ StartsAtFirstPhase'
    BY <1>5, <1>8 DEF TickSleep
  <2>6. /\ userTime' \in [Tasks -> Nat] /\ realTime' \in [Tasks -> Int]
        /\ sysTime' \in [Tasks -> Nat] /\ lastCpu' \in [Tasks -> Cpus]
        /\ counter' \in [Tasks -> Int] /\ ticks' \in [Tasks -> Int]
    BY <1>4, <2>0, <2>4
  <2> HIDE DEF io
  <2>3. TypeOK'
    BY <2>1, <2>2, <2>4, <2>5, <2>6
       DEF ChargeTick, TypeInv, TypeOK, mainVars, lbVars
  <2> QED BY <2>1, <2>2, <2>3 DEF TypeInv
<1> QED BY <1>3, <1>6, <1>7, <1>8 DEF SchedulerTick

\* Two ways a trial of load_balance ends: with the whole of it, or with another scan.
LEMMA LbFinishType ==
  ASSUME TypeInv, NEW c \in Cpus, NEW held, LbFinish(c, held), main' = main, pc[c] # "none",
         UNCHANGED <<state, phase>>
  PROVE  /\ nextLb' \in [Cpus -> Nat] /\ lock' \in [Cpus -> Cpus \cup {NoCpu}]
         /\ pc' \in [Cpus -> PcPlaces] /\ trials' \in [Cpus -> 0..(MaxTrials - 1)]
         /\ scan' \in [Cpus -> 0..NrCpus] /\ load' \in [Cpus -> [Cpus -> Int]]
         /\ peer' \in [Cpus -> Cpus \cup {NoCpu}]
         /\ ThreadsAfterTasks' /\ StartsAtFirstPhase' /\ ScanInRange' /\ PeerChosen'
<1>1. /\ nextLb \in [Cpus -> Nat] /\ lock \in [Cpus -> Cpus \cup {NoCpu}]
      /\ pc \in [Cpus -> PcPlaces] /\ trials \in [Cpus -> 0..(MaxTrials - 1)]
      /\ scan \in [Cpus -> 0..NrCpus] /\ load \in [Cpus -> [Cpus -> Int]]
      /\ peer \in [Cpus -> Cpus \cup {NoCpu}]
  BY DEF TypeInv, TypeOK
<1>2. /\ nextLb' = [nextLb EXCEPT ![c] = NextPeriod(c)]
      /\ lock' = [d \in Cpus |-> IF d \in held THEN NoCpu ELSE lock[d]]
      /\ pc' = [pc EXCEPT ![c] = "sched"]
      /\ trials' = [trials EXCEPT ![c] = 0]
      /\ scan' = [scan EXCEPT ![c] = 0]
      /\ load' = [load EXCEPT ![c] = [d \in Cpus |-> 0]]
      /\ peer' = [peer EXCEPT ![c] = NoCpu]
  BY DEF LbFinish
<1>3. nextLb' \in [Cpus -> Nat] /\ lock' \in [Cpus -> Cpus \cup {NoCpu}]
  BY <1>1, <1>2, SchedSimAssumption DEF NextPeriod
<1>4. pc' \in [Cpus -> PcPlaces] /\ peer' \in [Cpus -> Cpus \cup {NoCpu}]
  BY <1>1, <1>2 DEF PcPlaces, StepPlaces
<1>5. trials' \in [Cpus -> 0..(MaxTrials - 1)] /\ scan' \in [Cpus -> 0..NrCpus]
  BY <1>1, <1>2, SchedSimAssumption, NrCpusAssumption
<1>6. load' \in [Cpus -> [Cpus -> Int]]
  BY <1>1, <1>2
<1>7. ScanInRange' /\ PeerChosen'
  BY <1>1, <1>2 DEF TypeInv, ScanInRange, PeerChosen, PeerPlaces, LbPlaces
<1>8. ThreadsAfterTasks' /\ StartsAtFirstPhase'
  BY ThreadStep DEF TypeInv, StartsAtFirstPhase
<1> QED BY <1>3, <1>4, <1>5, <1>6, <1>7, <1>8

LEMMA EndTrialType ==
  ASSUME TypeInv, NEW c \in Cpus, NEW held, EndTrial(c, held), main' = main, pc[c] # "none",
         UNCHANGED <<state, phase>>
  PROVE  /\ nextLb' \in [Cpus -> Nat] /\ lock' \in [Cpus -> Cpus \cup {NoCpu}]
         /\ pc' \in [Cpus -> PcPlaces] /\ trials' \in [Cpus -> 0..(MaxTrials - 1)]
         /\ scan' \in [Cpus -> 0..NrCpus] /\ load' \in [Cpus -> [Cpus -> Int]]
         /\ peer' \in [Cpus -> Cpus \cup {NoCpu}]
         /\ ThreadsAfterTasks' /\ StartsAtFirstPhase' /\ ScanInRange' /\ PeerChosen'
<1>1. CASE LastTrial(c)
  BY <1>1, LbFinishType DEF EndTrial
<1>2. CASE ~LastTrial(c)
  <2>1. /\ nextLb \in [Cpus -> Nat] /\ lock \in [Cpus -> Cpus \cup {NoCpu}]
        /\ pc \in [Cpus -> PcPlaces] /\ trials \in [Cpus -> 0..(MaxTrials - 1)]
        /\ scan \in [Cpus -> 0..NrCpus] /\ load \in [Cpus -> [Cpus -> Int]]
        /\ peer \in [Cpus -> Cpus \cup {NoCpu}]
    BY DEF TypeInv, TypeOK
  <2>2. /\ trials' = [trials EXCEPT ![c] = @ + 1]
        /\ scan' = [scan EXCEPT ![c] = 0]
        /\ peer' = [peer EXCEPT ![c] = NoCpu]
        /\ lock' = [d \in Cpus |-> IF d \in held \ {c} THEN NoCpu ELSE lock[d]]
        /\ pc' = [pc EXCEPT ![c] = "scan"]
        /\ load' = load /\ nextLb' = nextLb
    BY <1>2 DEF EndTrial
  <2>3. trials' \in [Cpus -> 0..(MaxTrials - 1)]
    <3>1. trials[c] \in 0..(MaxTrials - 1) /\ trials[c] + 1 # MaxTrials
      BY <1>2, <2>1 DEF LastTrial
    <3>2. trials[c] + 1 \in 0..(MaxTrials - 1)
      BY <3>1, SchedSimAssumption
    <3> QED BY <2>1, <2>2, <3>2
  <2>4. scan' \in [Cpus -> 0..NrCpus] /\ peer' \in [Cpus -> Cpus \cup {NoCpu}]
    BY <2>1, <2>2, NrCpusAssumption
  <2>5. pc' \in [Cpus -> PcPlaces] /\ lock' \in [Cpus -> Cpus \cup {NoCpu}]
    BY <2>1, <2>2 DEF PcPlaces, StepPlaces, LbPlaces
  <2>6. ScanInRange' /\ PeerChosen'
    BY <2>1, <2>2, NrCpusAssumption DEF TypeInv, ScanInRange, PeerChosen, PeerPlaces, LbPlaces
  <2>7. ThreadsAfterTasks' /\ StartsAtFirstPhase'
    BY ThreadStep DEF TypeInv, StartsAtFirstPhase
  <2> QED BY <2>1, <2>2, <2>3, <2>4, <2>5, <2>6, <2>7
<1> QED BY <1>1, <1>2

\* load_balance.
LEMMA BalanceTypeInv ==
  ASSUME TypeInv, NEW c \in Cpus, LoadBalance(c)
  PROVE  TypeInv'
<1>1. /\ pc \in [Cpus -> PcPlaces] /\ step \in [Cpus -> Nat]
      /\ scan \in [Cpus -> 0..NrCpus] /\ load \in [Cpus -> [Cpus -> Int]]
      /\ peer \in [Cpus -> Cpus \cup {NoCpu}] /\ stolen \in [Cpus -> Tasks \cup {Idle}]
      /\ queue \in [Cpus -> Seq(Tasks)] /\ nrun \in [Cpus -> Int]
      /\ nextLb \in [Cpus -> Nat] /\ lock \in [Cpus -> Cpus \cup {NoCpu}]
      /\ onRq \in [Tasks -> BOOLEAN] /\ lastEnq \in [Tasks -> Int]
      /\ realTime \in [Tasks -> Int]
  BY DEF TypeInv, TypeOK
<1> USE DEF LbPlaces, PeerPlaces, StepPlaces, PcPlaces
<1>2. CASE LbSkip(c)
  <2>1. nextLb' \in [Cpus -> Nat] /\ pc' \in [Cpus -> PcPlaces]
    BY <1>1, <1>2 DEF LbSkip, LbNext
  <2>2. TypeOK'
    BY <1>2, <2>1
       DEF LbSkip, TypeInv, TypeOK, mainVars, lbVars, timeVars, classVars, burstVars, eventVars
  <2>3. ScanInRange' /\ PeerChosen'
    BY <1>1, <1>2 DEF LbSkip, TypeInv, ScanInRange, PeerChosen, lbVars
  <2>4. ThreadsAfterTasks' /\ StartsAtFirstPhase'
    BY <1>2, ThreadStep DEF LbSkip, TypeInv, StartsAtFirstPhase, mainVars, burstVars
  <2> QED BY <2>2, <2>3, <2>4 DEF TypeInv
<1>3. CASE LbStart(c)
  <2>1. /\ nextLb' \in [Cpus -> Nat] /\ pc' \in [Cpus -> PcPlaces]
        /\ lock' \in [Cpus -> Cpus \cup {NoCpu}]
    BY <1>1, <1>3 DEF LbStart, LbNext
  <2>2. TypeOK'
    BY <1>3, <2>1
       DEF LbStart, TypeInv, TypeOK, mainVars, lbVars, timeVars, classVars, burstVars, eventVars
  <2>3. ScanInRange' /\ PeerChosen'
    BY <1>1, <1>3, NrCpusAssumption DEF LbStart, TypeInv, ScanInRange, PeerChosen, lbVars
  <2>4. ThreadsAfterTasks' /\ StartsAtFirstPhase'
    BY <1>3, ThreadStep DEF LbStart, TypeInv, StartsAtFirstPhase, mainVars, burstVars
  <2> QED BY <2>2, <2>3, <2>4 DEF TypeInv
<1>4. CASE LbScan(c)
  <2>1. scan[c] < NrCpus /\ scan[c] \in 0..NrCpus
    BY <1>1, <1>4 DEF LbScan, TypeInv, ScanInRange
  <2>2. scan[c] \in Cpus
    BY <2>1, NrCpusAssumption DEF Cpus
  <2>3. load' \in [Cpus -> [Cpus -> Int]]
    BY <1>1, <1>4, <2>2 DEF LbScan
  <2>4. scan' \in [Cpus -> 0..NrCpus] /\ pc' \in [Cpus -> PcPlaces]
    BY <1>1, <1>4, <2>1, NrCpusAssumption DEF LbScan
  <2>5. TypeOK'
    BY <1>4, <2>3, <2>4
       DEF LbScan, TypeInv, TypeOK, mainVars, rqVars, timeVars, classVars, burstVars, eventVars
  <2>6. ScanInRange'
    BY <1>1, <1>4, <2>1, NrCpusAssumption DEF LbScan, TypeInv, ScanInRange
  <2>7. PeerChosen'
    BY <1>1, <1>4 DEF LbScan, TypeInv, PeerChosen
  <2>8. ThreadsAfterTasks' /\ StartsAtFirstPhase'
    BY <1>4, ThreadStep DEF LbScan, TypeInv, StartsAtFirstPhase, mainVars, burstVars
  <2> QED BY <2>5, <2>6, <2>7, <2>8 DEF TypeInv
<1>5. CASE LbBalanced(c)
  <2>1. TypeOK'
    BY <1>5, LbFinishType
       DEF LbBalanced, TypeInv, TypeOK, mainVars, timeVars, classVars, burstVars, eventVars
  <2> QED BY <1>5, <2>1, LbFinishType DEF LbBalanced, TypeInv, mainVars, burstVars
<1>6. CASE LbNeither(c)
  <2>1. TypeOK'
    BY <1>6, EndTrialType
       DEF LbNeither, TypeInv, TypeOK, mainVars, timeVars, classVars, burstVars, eventVars
  <2> QED BY <1>6, <2>1, EndTrialType DEF LbNeither, TypeInv, mainVars, burstVars
<1>7. CASE LbChoose(c)
  <2>1. CpuMin(c) \in Cpus /\ CpuMax(c) \in Cpus
    BY <1>1, ChosenCpus
  <2>2. peer' \in [Cpus -> Cpus \cup {NoCpu}] /\ pc' \in [Cpus -> PcPlaces]
    BY <1>1, <1>7, <2>1 DEF LbChoose
  <2>3. TypeOK'
    BY <1>7, <2>2
       DEF LbChoose, TypeInv, TypeOK, mainVars, rqVars, timeVars, classVars, burstVars, eventVars
  <2>4. ScanInRange' /\ PeerChosen'
    BY <1>1, <1>7, <2>1 DEF LbChoose, TypeInv, ScanInRange, PeerChosen
  <2>5. ThreadsAfterTasks' /\ StartsAtFirstPhase'
    BY <1>7, ThreadStep DEF LbChoose, TypeInv, StartsAtFirstPhase, mainVars, burstVars
  <2> QED BY <2>3, <2>4, <2>5 DEF TypeInv
<1>8. ASSUME NEW l, NEW holder \in Cpus \cup {NoCpu}, pc[c] \in PeerPlaces,
             NEW to \in {"lockpeer", "lockown", "check"}, LockStep(c, l, holder, to)
      PROVE  TypeInv'
  <2>1. lock' \in [Cpus -> Cpus \cup {NoCpu}] /\ pc' \in [Cpus -> PcPlaces]
    BY <1>1, <1>8 DEF LockStep
  <2>2. TypeOK'
    BY <1>8, <2>1
       DEF LockStep, TypeInv, TypeOK, mainVars, lbVars, timeVars, classVars, burstVars, eventVars
  <2>3. ScanInRange' /\ PeerChosen'
    BY <1>1, <1>8 DEF LockStep, TypeInv, ScanInRange, PeerChosen, lbVars
  <2>4. ThreadsAfterTasks' /\ StartsAtFirstPhase'
    BY <1>8, ThreadStep DEF LockStep, TypeInv, StartsAtFirstPhase, mainVars, burstVars
  <2> QED BY <2>2, <2>3, <2>4 DEF TypeInv
<1>9. CASE LockLower(c) \/ UnlockOwn(c) \/ LockHigher(c) \/ LockOwn(c)
  BY <1>8, <1>9 DEF LockLower, UnlockOwn, LockHigher, LockOwn
<1>10. CASE Steal(c)
  <2>1. Source(c) \in Cpus
    BY <1>10 DEF Steal, Source, TypeInv, PeerChosen
  <2>2. /\ stolen' \in [Cpus -> Tasks \cup {Idle}] /\ queue' \in [Cpus -> Seq(Tasks)]
        /\ onRq' \in [Tasks -> BOOLEAN] /\ nrun' \in [Cpus -> Int]
    <3>1. CASE queue[Source(c)] = <<>>
      BY <1>1, <1>10, <3>1 DEF Steal
    <3>2. CASE queue[Source(c)] # <<>>
      <4>1. Victim(c) \in Tasks /\ RemoveTail(queue[Source(c)]) \in Seq(Tasks)
        BY <1>1, <2>1, <3>2, ListEnds DEF Victim
      <4>2. /\ stolen' = [stolen EXCEPT ![c] = Victim(c)]
            /\ queue' = [queue EXCEPT ![Source(c)] = RemoveTail(@)]
            /\ onRq' = [onRq EXCEPT ![Victim(c)] = FALSE]
            /\ nrun' = [nrun EXCEPT ![Source(c)] = @ - 1]
        BY <1>10, <3>2 DEF Steal
      <4>3. stolen' \in [Cpus -> Tasks \cup {Idle}] /\ onRq' \in [Tasks -> BOOLEAN]
        BY <1>1, <4>1, <4>2
      <4>4. queue' \in [Cpus -> Seq(Tasks)] /\ nrun' \in [Cpus -> Int]
        BY SMTT(20), <1>1, <2>1, <4>1, <4>2
      <4> QED BY <4>3, <4>4
    <3> QED BY <3>1, <3>2
  <2>3. \E to \in {"abort", "move"} : pc' = [pc EXCEPT ![c] = to]
    BY <1>10 DEF Steal
  <2>4. pc' \in [Cpus -> PcPlaces]
    BY <1>1, <2>3
  <2>5. TypeOK'
    BY <1>10, <2>2, <2>4
       DEF Steal, TypeInv, TypeOK, mainVars, timeVars, burstVars, eventVars
  <2>6. ScanInRange' /\ PeerChosen'
    BY <1>1, <1>10, <2>3 DEF Steal, TypeInv, ScanInRange, PeerChosen
  <2>7. ThreadsAfterTasks' /\ StartsAtFirstPhase'
    BY <1>10, ThreadStep DEF Steal, TypeInv, StartsAtFirstPhase, mainVars, burstVars
  <2> QED BY <2>5, <2>6, <2>7 DEF TypeInv
<1>11. CASE LbStale(c)
  <2>1. TypeOK'
    BY <1>11, EndTrialType
       DEF LbStale, TypeInv, TypeOK, mainVars, timeVars, classVars, burstVars, eventVars
  <2> QED BY <1>11, <2>1, EndTrialType DEF LbStale, TypeInv, mainVars, burstVars
<1>12. ASSUME NEW t \in Tasks, Move(c, t) PROVE TypeInv'
  <2>1. Target(c) \in Cpus
    BY <1>12 DEF Move, Target, TypeInv, PeerChosen
  <2>2. /\ queue' \in [Cpus -> Seq(Tasks)] /\ nrun' \in [Cpus -> Int]
        /\ resched' \in [Cpus -> BOOLEAN] /\ lastCpu' \in [Tasks -> Cpus]
        /\ onRq' \in [Tasks -> BOOLEAN] /\ front' \in [Tasks -> BOOLEAN]
        /\ counter' \in [Tasks -> Int]
    BY <1>12, <2>1, EnqueueType DEF Move, TypeInv
  <2>3. /\ stolen' \in [Cpus -> Tasks \cup {Idle}] /\ realTime' \in [Tasks -> Int]
        /\ lastEnq' \in [Tasks -> Int]
    <3>1. Waited(c, t) \in Int /\ step[c] + 1 \in Int
      BY <1>1 DEF Waited
    <3>2. /\ stolen' = [stolen EXCEPT ![c] = Idle]
          /\ realTime' = [realTime EXCEPT ![t] = @ + Waited(c, t)]
          /\ lastEnq' = [lastEnq EXCEPT ![t] = step[c] + 1]
      BY <1>12 DEF Move
    <3> QED BY <1>1, <3>1, <3>2
  <2>4. /\ nextLb' \in [Cpus -> Nat] /\ lock' \in [Cpus -> Cpus \cup {NoCpu}]
        /\ pc' \in [Cpus -> PcPlaces] /\ trials' \in [Cpus -> 0..(MaxTrials - 1)]
        /\ scan' \in [Cpus -> 0..NrCpus] /\ load' \in [Cpus -> [Cpus -> Int]]
        /\ peer' \in [Cpus -> Cpus \cup {NoCpu}]
        /\ ThreadsAfterTasks' /\ StartsAtFirstPhase' /\ ScanInRange' /\ PeerChosen'
    BY <1>12, EndTrialType DEF Move, mainVars
  <2>5. TypeOK'
    BY <1>12, <2>2, <2>3, <2>4 DEF Move, TypeInv, TypeOK, mainVars, eventVars
  <2> QED BY <2>4, <2>5 DEF TypeInv
<1> QED BY <1>2, <1>3, <1>4, <1>5, <1>6, <1>7, <1>9, <1>10, <1>11, <1>12 DEF LoadBalance

\* schedule.
LEMMA ScheduleTypeInv ==
  ASSUME TypeInv, NEW c \in Cpus, Schedule(c)
  PROVE  TypeInv'
<1>1. /\ conf \in Configurations /\ pc \in [Cpus -> PcPlaces] /\ step \in [Cpus -> Nat]
      /\ queue \in [Cpus -> Seq(Tasks)] /\ cur \in [Cpus -> Tasks \cup {Idle}]
      /\ resched \in [Cpus -> BOOLEAN] /\ state \in [Tasks -> TaskStates]
      /\ onRq \in [Tasks -> BOOLEAN] /\ front \in [Tasks -> BOOLEAN]
      /\ counter \in [Tasks -> Int] /\ lastEnq \in [Tasks -> Int] /\ realTime \in [Tasks -> Int]
  BY DEF TypeInv, TypeOK
<1>2. /\ pc[c] = "sched" /\ pc' = [pc EXCEPT ![c] = "sync"] /\ UNCHANGED <<main, scan, peer>>
  BY DEF Schedule, SchedKeep, SchedSwitch, mainVars, lbVars
<1>3. /\ pc' \in [Cpus -> PcPlaces] /\ ThreadsAfterTasks' /\ ScanInRange' /\ PeerChosen'
  BY <1>1, <1>2, ThreadStep
     DEF PcPlaces, StepPlaces, TypeInv, ScanInRange, PeerChosen, PeerPlaces, LbPlaces
<1>4. CASE SchedKeep(c)
  <2>1. TypeOK'
    BY <1>3, <1>4
       DEF SchedKeep, TypeInv, TypeOK, mainVars, lbVars, rqVars, timeVars, classVars, burstVars,
           eventVars
  <2> QED BY <1>3, <1>4, <2>1 DEF SchedKeep, TypeInv, StartsAtFirstPhase, burstVars
<1>5. CASE SchedSwitch(c)
  <2> DEFINE prev == cur[c]
             again == CanGoOn(prev)
             q == IF again /\ ~onRq[prev] THEN QueueWith(c, prev, ticks) ELSE queue[c]
             next == IF q = <<>> THEN Idle ELSE Head(q)
             in == next # Idle /\ prev # next
             out == again /\ prev # next
  <2>1. q \in Seq(Tasks)
    <3>1. CASE again /\ ~onRq[prev]
      <4>1. prev \in Tasks /\ queue[c] \in Seq(Tasks) /\ front[prev] \in BOOLEAN
        BY <1>1, <3>1 DEF CanGoOn
      <4>2. QueueWith(c, prev, ticks) \in Seq(Tasks)
        BY <4>1, QueuedType DEF QueueWith
      <4> QED BY <3>1, <4>2
    <3>2. CASE ~(again /\ ~onRq[prev])
      BY <1>1, <3>2
    <3> QED BY <3>1, <3>2
  <2>2. next \in Tasks \cup {Idle} /\ (IF q = <<>> THEN q ELSE Tail(q)) \in Seq(Tasks)
    <3> HIDE DEF q
    <3> QED BY <2>1, ListEnds
  <2>3. /\ queue' = [queue EXCEPT ![c] = IF q = <<>> THEN q ELSE Tail(q)]
        /\ cur' = [cur EXCEPT ![c] = next]
        /\ resched' = [resched EXCEPT ![c] = FALSE]
        /\ onRq' = [t \in Tasks |-> t # next /\ (onRq[t] \/ (again /\ t = prev))]
        /\ front' = [t \in Tasks |-> front[t] /\ ~(again /\ ~onRq[t] /\ t = prev)]
        /\ counter' = [t \in Tasks |-> IF again /\ ~onRq[t] /\ t = prev
                                       THEN CounterWhenQueued(conf.sched, counter[t])
                                       ELSE counter[t]]
        /\ state' = [t \in Tasks |-> CASE in /\ t = next -> "ONPROC"
                                       [] out /\ t = prev -> "RUNNABLE"
                                       [] OTHER -> state[t]]
        /\ lastEnq' = [t \in Tasks |-> IF out /\ t = prev THEN step[c] + 1 ELSE lastEnq[t]]
        /\ realTime' = [t \in Tasks |-> IF in /\ t = next
                                        THEN realTime[t] + Waited(c, t)
                                        ELSE realTime[t]]
    BY <1>5 DEF SchedSwitch
  <2> HIDE DEF q, next, prev, again, in, out
  <2>4. /\ queue' \in [Cpus -> Seq(Tasks)] /\ cur' \in [Cpus -> Tasks \cup {Idle}]
        /\ resched' \in [Cpus -> BOOLEAN]
    BY <1>1, <2>2, <2>3
  <2>5. onRq' \in [Tasks -> BOOLEAN] /\ front' \in [Tasks -> BOOLEAN]
    BY <1>1, <2>3
  <2>6. counter' \in [Tasks -> Int]
    <3>1. \A t \in Tasks : CounterWhenQueued(conf.sched, counter[t]) \in Int
      BY <1>1, ConfigurationTypes, CounterTypes
    <3> QED BY <1>1, <2>3, <3>1
  <2>7. lastEnq' \in [Tasks -> Int] /\ realTime' \in [Tasks -> Int]
    <3>1. step[c] + 1 \in Int /\ \A t \in Tasks : realTime[t] + Waited(c, t) \in Int
      BY <1>1 DEF Waited
    <3> QED BY <1>1, <2>3, <3>1
  <2>8. /\ state' \in [Tasks -> TaskStates]
        /\ \A t \in Tasks : state'[t] = "STARTING" => state[t] = "STARTING"
    <3>1. \A t \in Tasks : state'[t] \in {"ONPROC", "RUNNABLE", state[t]}
      BY <2>3
    <3>2. DOMAIN state' = Tasks /\ state' = [t \in Tasks |-> state'[t]]
      BY <2>3
    <3> QED BY <1>1, <3>1, <3>2 DEF TaskStates
  <2>9. TypeOK'
    BY <1>3, <1>5, <2>4, <2>5, <2>6, <2>7, <2>8
       DEF SchedSwitch, TypeInv, TypeOK, mainVars, lbVars, eventVars
  <2>10. StartsAtFirstPhase'
    BY <1>5, <2>8 DEF SchedSwitch, TypeInv, StartsAtFirstPhase
  <2> QED BY <1>3, <2>9, <2>10 DEF TypeInv
<1> QED BY <1>4, <1>5 DEF Schedule

\* sched_cpu and synchronize_cpus: only the first pick touches a run queue.
LEMMA LoopTypeInv ==
  ASSUME TypeInv, NEW c \in Cpus, FirstPick(c) \/ LoopTest(c) \/ SynchronizeCpus(c)
  PROVE  TypeInv'
<1>1. /\ pc \in [Cpus -> PcPlaces] /\ step \in [Cpus -> Nat] /\ completed \in Nat
      /\ queue \in [Cpus -> Seq(Tasks)] /\ cur \in [Cpus -> Tasks \cup {Idle}]
      /\ state \in [Tasks -> TaskStates] /\ onRq \in [Tasks -> BOOLEAN]
  BY DEF TypeInv, TypeOK
<1>2. /\ pc[c] \notin {"none", "abort"} \cup LbPlaces /\ UNCHANGED <<main, scan, peer>>
      /\ \E to \in {"loop", "tick", "exit", "next", "wait0", "wait1"} :
           pc' = [pc EXCEPT ![c] = to]
  BY DEF FirstPick, LoopTest, SynchronizeCpus, SyncAlone, Arrive, Count, mainVars, lbVars, LbPlaces
<1>3. pc' \in [Cpus -> PcPlaces] /\ ThreadsAfterTasks' /\ ScanInRange' /\ PeerChosen'
  BY <1>1, <1>2, ThreadStep
     DEF PcPlaces, StepPlaces, TypeInv, ScanInRange, PeerChosen, PeerPlaces, LbPlaces
<1>4. CASE FirstPick(c)
  <2>1. CASE queue[c] = <<>>
    <3>1. TypeOK'
      BY <1>3, <1>4, <2>1
         DEF FirstPick, TypeInv, TypeOK, mainVars, lbVars, timeVars, eventVars
    <3> QED BY <1>3, <1>4, <2>1, <3>1 DEF FirstPick, TypeInv, StartsAtFirstPhase
  <2>2. CASE queue[c] # <<>>
    <3> DEFINE t == Head(queue[c])
    <3>1. t \in Tasks /\ Tail(queue[c]) \in Seq(Tasks)
      BY <1>1, <2>2, ListEnds
    <3>2. /\ queue' = [queue EXCEPT ![c] = Tail(@)]
          /\ cur' = [cur EXCEPT ![c] = t]
          /\ onRq' = [onRq EXCEPT ![t] = FALSE]
          /\ state' = [state EXCEPT ![t] = "ONPROC"]
      BY <1>4, <2>2 DEF FirstPick
    <3> HIDE DEF t
    <3>3. /\ queue' \in [Cpus -> Seq(Tasks)] /\ cur' \in [Cpus -> Tasks \cup {Idle}]
      BY <1>1, <3>1, <3>2
    <3>4. /\ onRq' \in [Tasks -> BOOLEAN] /\ state' \in [Tasks -> TaskStates]
      BY <1>1, <3>1, <3>2 DEF TaskStates
    <3>5. TypeOK'
      BY <1>3, <1>4, <3>3, <3>4
         DEF FirstPick, TypeInv, TypeOK, mainVars, lbVars, timeVars, eventVars
    <3>6. StartsAtFirstPhase'
      BY <1>1, <1>4, <3>1, <3>2 DEF FirstPick, TypeInv, StartsAtFirstPhase
    <3> QED BY <1>3, <3>5, <3>6 DEF TypeInv
  <2> QED BY <2>1, <2>2
<1>5. CASE LoopTest(c)
  <2>1. step' \in [Cpus -> Nat]
    BY <1>1, <1>5 DEF LoopTest
  <2>2. TypeOK'
    BY <1>3, <1>5, <2>1
       DEF LoopTest, TypeInv, TypeOK, mainVars, lbVars, rqVars, timeVars, classVars, burstVars,
           eventVars
  <2> QED BY <1>3, <1>5, <2>2 DEF LoopTest, TypeInv, StartsAtFirstPhase, burstVars
<1>6. CASE SynchronizeCpus(c)
  <2>1. completed' \in Nat
    BY <1>1, <1>6 DEF SynchronizeCpus, SyncAlone, Arrive, CompletedAtArrival, Count
  <2>2. UNCHANGED <<conf, mainVars, step, lbVars, rqVars, timeVars, classVars, burstVars,
                    eventVars>>
    BY <1>6 DEF SynchronizeCpus, SyncAlone, Arrive, Count
  <2>3. TypeOK'
    BY <1>3, <2>1, <2>2
       DEF TypeInv, TypeOK, mainVars, lbVars, rqVars, timeVars, classVars, burstVars, eventVars
  <2> QED BY <1>3, <2>2, <2>3 DEF TypeInv, StartsAtFirstPhase, burstVars
<1> QED BY <1>4, <1>5, <1>6

\* The barriers.
LEMMA BarrierTypeInv ==
  ASSUME TypeInv, Barrier0 \/ Barrier1
  PROVE  TypeInv'
<1>1. /\ \A c \in Cpus : pc[c] \in {"wait0", "wait1"}
      /\ \E to \in {"count", "next"} : pc' = [c \in Cpus |-> to]
      /\ UNCHANGED <<conf, mainVars, step, lbVars, rqVars, timeVars, classVars, burstVars,
                     eventVars, completed>>
  BY DEF Barrier0, Barrier1, Barrier
<1>2. pc' \in [Cpus -> PcPlaces]
  BY <1>1 DEF PcPlaces
<1>3. TypeOK'
  BY <1>1, <1>2
     DEF TypeInv, TypeOK, mainVars, lbVars, rqVars, timeVars, classVars, burstVars, eventVars
<1>4. ThreadsAfterTasks' /\ StartsAtFirstPhase'
  <2>1. 0 \in Cpus
    BY NrCpusAssumption DEF Cpus
  <2>2. main # "add"
    BY <1>1, <2>1 DEF TypeInv, ThreadsAfterTasks
  <2> QED BY <1>1, <2>2 DEF TypeInv, ThreadsAfterTasks, StartsAtFirstPhase, mainVars, burstVars
<1>5. ScanInRange' /\ PeerChosen'
  BY <1>1 DEF TypeInv, ScanInRange, PeerChosen, PeerPlaces, LbPlaces, lbVars
<1> QED BY <1>3, <1>4, <1>5 DEF TypeInv

LEMMA NextTypeInv == TypeInv /\ [Next]_vars => TypeInv'
<1>1. SUFFICES ASSUME TypeInv, [Next]_vars PROVE TypeInv'
  OBVIOUS
<1>2. CASE UNCHANGED vars
  <2>1. TypeOK'
    <3>1. UNCHANGED <<conf, main, nextTask, pc, step, trials, scan, load, peer, stolen>>
      BY <1>2 DEF vars, mainVars, threadVars, lbVars
    <3>2. UNCHANGED <<queue, cur, resched, nrun, nextLb, lock, events, timeout, completed>>
      BY <1>2 DEF vars, rqVars, eventVars
    <3>3. UNCHANGED <<state, phase, ticks, onRq, lastCpu, lastEnq, front, counter, userTime,
                      realTime, sysTime>>
      BY <1>2 DEF vars, timeVars, classVars, burstVars
    <3> QED BY <1>1, <3>1, <3>2, <3>3 DEF TypeInv, TypeOK
  <2> QED BY <1>1, <1>2, <2>1
          DEF vars, TypeInv, ThreadsAfterTasks, StartsAtFirstPhase, ScanInRange, PeerChosen,
              mainVars, threadVars, lbVars, burstVars
<1>3. ASSUME NEW c \in Cpus, Thread(c) PROVE TypeInv'
  BY <1>1, <1>3, ProcessEventsTypeInv, TickTypeInv, BalanceTypeInv, ScheduleTypeInv, LoopTypeInv
     DEF Thread
<1> QED BY <1>1, <1>2, <1>3, MainTypeInv, BarrierTypeInv DEF Next, Terminated

LEMMA TypeInvariance == Spec => []TypeInv
  BY InitTypeInv, NextTypeInv, PTL DEF Spec

\* Every variable keeps to its type; nr_trials in particular never reaches
\* max_trials, and the scan of the loads never runs past nr_cpus.
THEOREM TypeCorrect == Spec => []TypeOK
  BY TypeInvariance, PTL DEF TypeInv

=============================================================================
