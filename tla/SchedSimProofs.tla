--------------------------- MODULE SchedSimProofs ---------------------------
(***************************************************************************)
(* The threads of SchedSim follow the protocol of SyncCpus, their locking  *)
(* of the run queues cannot deadlock, a migration improves the balance,    *)
(* and no CPU forgets to balance: for any number of CPUs, tasks and steps. *)
(***************************************************************************)
EXTENDS SchedSimTypes

-----------------------------------------------------------------------------
(* Refinement of SyncCpus *)

\* One thread moves to place p; the abstract thread moves accordingly.
LEMMA SyncMove ==
  ASSUME pc \in [Cpus -> PcPlaces], NEW c \in Cpus, NEW p, pc' = [pc EXCEPT ![c] = p]
  PROVE  syncPc' = [syncPc EXCEPT ![c] = SyncPlace(p)]
BY DEF syncPc

\* The places, as SyncCpus sees them.
LEMMA SyncPlaces ==
  /\ \A p \in {"none", "boot", "pick"} : SyncPlace(p) = "boot"
  /\ \A p \in StepPlaces : SyncPlace(p) = "work"
  /\ \A p \in {"loop", "wait0", "count", "wait1", "next", "exit", "abort"} : SyncPlace(p) = p
BY DEF SyncPlace, StepPlaces, LbPlaces

\* A move the abstract thread does not make.
LEMMA SyncStutter ==
  ASSUME pc \in [Cpus -> PcPlaces], NEW c \in Cpus, NEW p, pc' = [pc EXCEPT ![c] = p],
         SyncPlace(p) = SyncPlace(pc[c]), UNCHANGED <<step, completed>>
  PROVE  UNCHANGED Sync!syncVars
<1>1. syncPc' = [syncPc EXCEPT ![c] = SyncPlace(p)]
  BY SyncMove
<1>2. syncPc' = syncPc
  BY <1>1 DEF syncPc
<1> QED BY <1>2 DEF Sync!syncVars

\* A "Critical error".
LEMMA SyncAbort ==
  ASSUME pc \in [Cpus -> PcPlaces], NEW c \in Cpus, pc' = [pc EXCEPT ![c] = "abort"],
         pc[c] \in {"boot"} \cup StepPlaces, UNCHANGED <<step, completed>>
  PROVE  Sync!Next
<1>1. syncPc' = [syncPc EXCEPT ![c] = "abort"]
  <2>1. SyncPlace("abort") = "abort"
    BY SyncPlaces
  <2>2. syncPc' = [syncPc EXCEPT ![c] = SyncPlace("abort")]
    BY SyncMove
  <2> QED BY <2>1, <2>2
<1>2. syncPc[c] \in {"boot", "work"}
  BY SyncPlaces DEF syncPc
<1>3. Sync!Abort(c)
  BY <1>1, <1>2 DEF Sync!Abort
<1> QED BY <1>3 DEF Sync!Next, Cpus, Sync!Cpus

LEMMA InitSync == Init => Sync!Init
  BY SyncPlaces DEF Init, Sync!Init, Sync!Cpus, Cpus, syncPc

\* The work of a step, event processing included, does not show in SyncCpus unless
\* it fails.
LEMMA WorkIsHidden ==
  ASSUME TypeInv, NEW c \in Cpus,
         ProcessEvents(c) \/ SchedulerTick(c) \/ LoadBalance(c) \/ Schedule(c)
  PROVE  [Sync!Next]_(Sync!syncVars)
<1>1. pc \in [Cpus -> PcPlaces]
  BY DEF TypeInv, TypeOK
<1>2. UNCHANGED <<step, completed>>
  <2>1. CASE ProcessEvents(c)
    BY <2>1 DEF ProcessEvents, EventsDone, NewTask, AwakeTask, CompleteAwake, Wake, threadVars
  <2>2. CASE SchedulerTick(c)
    BY <2>2 DEF SchedulerTick, TickIdle, TickRun, TickComplete, TickSleep, ChargeTick
  <2>3. CASE LoadBalance(c)
    BY <2>3
       DEF LoadBalance, LbSkip, LbStart, LbScan, LbBalanced, LbNeither, LbChoose, LockLower,
           UnlockOwn, LockHigher, LockOwn, LockStep, Steal, LbStale, Move
  <2>4. CASE Schedule(c)
    BY <2>4 DEF Schedule, SchedKeep, SchedSwitch
  <2> QED BY <2>1, <2>2, <2>3, <2>4
\* Where each part of the work leads.
<1>3. CASE pc' = pc
  BY <1>2, <1>3 DEF Sync!syncVars, syncPc
<1>4. CASE /\ pc[c] \in {"boot"} \cup StepPlaces
           /\ pc' = [pc EXCEPT ![c] = "abort"]
  BY <1>1, <1>2, <1>4, SyncAbort
<1>5. CASE pc[c] = "boot" /\ pc' = [pc EXCEPT ![c] = "pick"]
  <2>1. SyncPlace("pick") = SyncPlace(pc[c])
    BY <1>5, SyncPlaces
  <2> QED BY <1>1, <1>2, <1>5, <2>1, SyncStutter
<1>6. CASE pc[c] \in StepPlaces /\ \E p \in StepPlaces : pc' = [pc EXCEPT ![c] = p]
  <2>1. PICK p \in StepPlaces : pc' = [pc EXCEPT ![c] = p]
    BY <1>6
  <2>2. SyncPlace(p) = SyncPlace(pc[c])
    BY <1>6, <2>1, SyncPlaces
  <2> QED BY <1>1, <1>2, <2>1, <2>2, SyncStutter
<1> USE DEF StepPlaces, LbPlaces
<1>7. CASE ProcessEvents(c)
  BY <1>3, <1>4, <1>5, <1>6, <1>7
     DEF ProcessEvents, EventsDone, NewTask, AwakeTask, CompleteAwake, TakesEvent, Wake, threadVars
<1>8. CASE SchedulerTick(c)
  <2>1. pc[c] = "tick" /\ \E p \in {"events", "abort"} : pc' = [pc EXCEPT ![c] = p]
    BY <1>8 DEF SchedulerTick, TickIdle, TickRun, TickComplete, TickSleep, ChargeTick
  <2> QED BY <1>4, <1>6, <2>1
<1>9. CASE LoadBalance(c)
  <2>1. /\ pc[c] \in {"lb"} \cup LbPlaces
        /\ \E p \in {"abort", "sched"} \cup LbPlaces : pc' = [pc EXCEPT ![c] = p]
    BY <1>9
       DEF LoadBalance, LbSkip, LbStart, LbScan, LbBalanced, LbNeither, LbChoose, LockLower,
           UnlockOwn, LockHigher, LockOwn, LockStep, Steal, LbStale, Move, EndTrial, LbFinish
  <2> QED BY <1>4, <1>6, <2>1
<1>10. CASE Schedule(c)
  BY <1>6, <1>10 DEF Schedule, SchedKeep, SchedSwitch
<1> QED BY <1>7, <1>8, <1>9, <1>10

\* What is left of sched_cpu is what SyncCpus describes.
LEMMA LoopIsSync ==
  ASSUME TypeInv, NEW c \in Cpus, FirstPick(c) \/ LoopTest(c) \/ SynchronizeCpus(c)
  PROVE  Sync!Next
<1>1. pc \in [Cpus -> PcPlaces] /\ c \in Sync!Cpus
  BY DEF TypeInv, TypeOK, Cpus, Sync!Cpus
<1>2. syncPc[c] = SyncPlace(pc[c])
  BY DEF syncPc
<1>3. CASE FirstPick(c)
  <2>1. pc[c] = "pick" /\ pc' = [pc EXCEPT ![c] = "loop"] /\ UNCHANGED <<step, completed>>
    BY <1>3 DEF FirstPick
  <2>2. syncPc[c] = "boot" /\ SyncPlace("loop") = "loop"
    BY <1>2, <2>1, SyncPlaces
  <2>3. syncPc' = [syncPc EXCEPT ![c] = SyncPlace("loop")]
    BY <1>1, <2>1, SyncMove
  <2>4. Sync!Boot(c)
    BY <2>1, <2>2, <2>3 DEF Sync!Boot
  <2> QED BY <1>1, <2>4 DEF Sync!Next
<1>4. CASE LoopTest(c)
  <2> DEFINE s == IF pc[c] = "next" THEN step[c] + 1 ELSE step[c]
             p == IF completed < NrCpus /\ s < MaxSteps THEN "tick" ELSE "exit"
  <2>1. /\ pc[c] \in {"loop", "next"} /\ step' = [step EXCEPT ![c] = s]
        /\ pc' = [pc EXCEPT ![c] = p] /\ completed' = completed
    BY <1>4 DEF LoopTest
  <2>2. syncPc[c] = pc[c]
    BY <1>2, <2>1, SyncPlaces
  <2>3. SyncPlace("tick") = "work" /\ SyncPlace("exit") = "exit"
    BY SyncPlaces DEF StepPlaces
  <2>4. SyncPlace(p) = IF completed < NrCpus /\ s < MaxSteps THEN "work" ELSE "exit"
    BY <2>3
  <2>5. syncPc' = [syncPc EXCEPT ![c] = SyncPlace(p)]
    <3> HIDE DEF p
    <3> QED BY <1>1, <2>1, SyncMove
  <2>6. Sync!LoopTest(c)
    BY <2>1, <2>2, <2>4, <2>5 DEF Sync!LoopTest
  <2> QED BY <1>1, <2>6 DEF Sync!Next
<1>5. CASE SyncAlone(c)
  <2>1. /\ pc[c] = "sync" /\ NrCpus = 1 /\ pc' = [pc EXCEPT ![c] = "next"] /\ step' = step
        /\ completed' = IF HasCompleted(c) THEN 1 ELSE 0
    BY <1>5 DEF SyncAlone
  <2>2. syncPc[c] = "work" /\ SyncPlace("next") = "next"
    BY <1>2, <2>1, SyncPlaces DEF StepPlaces
  <2>3. syncPc' = [syncPc EXCEPT ![c] = SyncPlace("next")]
    BY <1>1, <2>1, SyncMove
  <2>4. \E done \in BOOLEAN : completed' = IF done THEN 1 ELSE 0
    BY <2>1
  <2>5. Sync!Alone(c)
    BY <2>1, <2>2, <2>3, <2>4 DEF Sync!Alone
  <2> QED BY <1>1, <2>5 DEF Sync!Next
<1>6. CASE Arrive(c)
  <2>1. /\ pc[c] = "sync" /\ NrCpus > 1 /\ pc' = [pc EXCEPT ![c] = "wait0"] /\ step' = step
        /\ completed' = IF c = 0 THEN 0 ELSE completed
    BY <1>6 DEF Arrive, CompletedAtArrival
  <2>2. syncPc[c] = "work" /\ SyncPlace("wait0") = "wait0"
    BY <1>2, <2>1, SyncPlaces DEF StepPlaces
  <2>3. syncPc' = [syncPc EXCEPT ![c] = SyncPlace("wait0")]
    BY <1>1, <2>1, SyncMove
  <2>4. Sync!Arrive(c)
    BY <2>1, <2>2, <2>3 DEF Sync!Arrive
  <2> QED BY <1>1, <2>4 DEF Sync!Next
<1>7. CASE Count(c)
  <2>1. /\ pc[c] = "count" /\ pc' = [pc EXCEPT ![c] = "wait1"] /\ step' = step
        /\ completed' = IF HasCompleted(c) THEN completed + 1 ELSE completed
    BY <1>7 DEF Count
  <2>2. syncPc[c] = "count" /\ SyncPlace("wait1") = "wait1"
    BY <1>2, <2>1, SyncPlaces
  <2>3. syncPc' = [syncPc EXCEPT ![c] = SyncPlace("wait1")]
    BY <1>1, <2>1, SyncMove
  <2>4. \E done \in BOOLEAN : completed' = IF done THEN completed + 1 ELSE completed
    BY <2>1
  <2>5. Sync!Count(c)
    BY <2>1, <2>2, <2>3, <2>4 DEF Sync!Count
  <2> QED BY <1>1, <2>5 DEF Sync!Next
<1> QED BY <1>3, <1>4, <1>5, <1>6, <1>7 DEF SynchronizeCpus

LEMMA BarriersAreSync == Barrier0 \/ Barrier1 => Sync!Next
<1>1. ASSUME NEW at \in {"wait0", "wait1"}, NEW to \in {"count", "next"}, Barrier(at, to)
      PROVE  /\ \A c \in Sync!Cpus : syncPc[c] = at
             /\ syncPc' = [c \in Sync!Cpus |-> to]
             /\ UNCHANGED <<step, completed>>
  <2>1. SyncPlace(at) = at /\ SyncPlace(to) = to
    BY SyncPlaces
  <2> QED BY <1>1, <2>1 DEF Barrier, syncPc, Cpus, Sync!Cpus
<1>2. CASE Barrier0
  BY <1>1, <1>2 DEF Barrier0, Sync!Next, Sync!Barrier0
<1>3. CASE Barrier1
  BY <1>1, <1>3 DEF Barrier1, Sync!Next, Sync!Barrier1
<1> QED BY <1>2, <1>3

LEMMA NextSync == TypeInv /\ [Next]_vars => [Sync!Next]_(Sync!syncVars)
<1>1. SUFFICES ASSUME TypeInv, [Next]_vars PROVE [Sync!Next]_(Sync!syncVars)
  OBVIOUS
<1>2. ASSUME UNCHANGED <<pc, step, completed>> PROVE UNCHANGED Sync!syncVars
  BY <1>2 DEF Sync!syncVars, syncPc
<1>3. CASE UNCHANGED vars
  BY <1>2, <1>3 DEF vars, threadVars
<1>4. CASE AddTask \/ Join
  BY <1>2, <1>4 DEF AddTask, Join, threadVars
<1>5. CASE CreateThreads
  <2>1. /\ \A c \in Cpus : pc[c] = "none" /\ pc'[c] = "boot"
        /\ UNCHANGED <<step, completed>>
    BY <1>1, <1>5 DEF CreateThreads, TypeInv, ThreadsAfterTasks
  <2>2. syncPc' = syncPc
    BY <2>1, SyncPlaces DEF syncPc
  <2> QED BY <2>1, <2>2 DEF Sync!syncVars
<1>6. ASSUME NEW c \in Cpus, Thread(c) PROVE [Sync!Next]_(Sync!syncVars)
  BY <1>1, <1>6, WorkIsHidden, LoopIsSync DEF Thread
<1>7. CASE Terminated
  BY <1>3, <1>7 DEF Terminated
<1> QED BY <1>1, <1>3, <1>4, <1>5, <1>6, <1>7, BarriersAreSync DEF Next, Main

\* The simulation threads implement the protocol of SyncCpus: whatever the
\* scheduling work of a step does, it is hidden behind the barriers and the vote.
THEOREM ImplementsSync == Spec => SyncSpec
  BY InitSync, NextSync, TypeInvariance, PTL DEF Spec, SyncSpec, Sync!Spec

\* What is proved of SyncCpus, for the threads of the simulator.
SyncTheorems == INSTANCE SyncCpusProofs WITH pc <- syncPc

\* The threads of the simulator keep the inductive invariant of SyncCpus.
LEMMA ThreadsFollowSync == Spec => []SyncTheorems!IInv
<1>1. Sync!Init => SyncTheorems!Init
  BY DEF Sync!Init, SyncTheorems!Init, Sync!Cpus, SyncTheorems!Cpus
<1>2. Sync!Next => SyncTheorems!Next
  BY DEF Sync!Next, SyncTheorems!Next, Sync!Cpus, SyncTheorems!Cpus,
         Sync!Boot, SyncTheorems!Boot, Sync!Abort, SyncTheorems!Abort,
         Sync!LoopTest, SyncTheorems!LoopTest, Sync!Alone, SyncTheorems!Alone,
         Sync!Arrive, SyncTheorems!Arrive, Sync!Count, SyncTheorems!Count,
         Sync!Barrier0, SyncTheorems!Barrier0, Sync!Barrier1, SyncTheorems!Barrier1
<1>3. UNCHANGED Sync!syncVars => UNCHANGED SyncTheorems!syncVars
  BY DEF Sync!syncVars, SyncTheorems!syncVars
<1>4. SyncSpec => SyncTheorems!Spec
  BY <1>1, <1>2, <1>3, PTL DEF SyncSpec, Sync!Spec, SyncTheorems!Spec
<1>5. SyncTheorems!Spec => []SyncTheorems!IInv
  BY SyncTheorems!Invariance, NrCpusAssumption, MaxStepsAssumption
<1> QED BY <1>4, <1>5, ImplementsSync, PTL

\* No simulation thread leaves its loop while another one still has a barrier of
\* synchronize_cpus before it, and no two threads simulate different steps.
THEOREM NoThreadLeftBehind == Spec => [](Sync!ExitAgreement /\ Sync!Lockstep)
<1>1. SyncTheorems!IInv => SyncTheorems!ExitAgreement /\ SyncTheorems!Lockstep
  BY DEF SyncTheorems!IInv, SyncTheorems!SameStep, SyncTheorems!StepOf, SyncTheorems!Lockstep,
         SyncTheorems!Waiting
<1>2. SyncTheorems!ExitAgreement /\ SyncTheorems!Lockstep => Sync!ExitAgreement /\ Sync!Lockstep
  BY DEF Sync!ExitAgreement, SyncTheorems!ExitAgreement, Sync!Lockstep, SyncTheorems!Lockstep,
         Sync!Waiting, SyncTheorems!Waiting, Sync!Cpus, SyncTheorems!Cpus
<1> QED BY <1>1, <1>2, ThreadsFollowSync, PTL

-----------------------------------------------------------------------------
(* Locks and migrations *)

\* The run queue locks a thread holds, by its place in load_balance.
HeldBy(c) ==
    CASE pc[c] \in {"scan", "decide", "dlock"} -> {c}
      [] pc[c] = "lockown" -> {peer[c]}
      [] pc[c] \in {"check", "move"} -> {c, peer[c]}
      [] OTHER -> {}

\* The mutexes are held by whom the code thinks; a thread that has died of a
\* "Critical error" is not spoken of.
LocksHeld ==
    \A c \in Cpus : pc[c] # "abort" => \A d \in Cpus : lock[d] = c <=> d \in HeldBy(c)

\* load_balance never chooses its own CPU; the two-step way of taking both locks is
\* the one of the lower CPU.
PeerIsAnother ==
    \A c \in Cpus : /\ pc[c] \in PeerPlaces => peer[c] # c
                    /\ pc[c] \in {"lockpeer", "lockown"} => c < peer[c]

\* The inductive invariant of the locking.
LockInv == LocksHeld /\ PeerIsAnother

\* What a thread leaves alone: the local variables of the others, and the locks
\* that others hold.
LEMMA OthersUntouched ==
  ASSUME TypeInv, NEW c \in Cpus, NEW d \in Cpus, d # c, Thread(c)
  PROVE  pc'[d] = pc[d] /\ peer'[d] = peer[d] /\ load'[d] = load[d] /\ nextLb'[d] = nextLb[d]
         /\ step'[d] = step[d]
<1>1. /\ pc \in [Cpus -> PcPlaces] /\ peer \in [Cpus -> Cpus \cup {NoCpu}]
      /\ load \in [Cpus -> [Cpus -> Int]] /\ nextLb \in [Cpus -> Nat] /\ step \in [Cpus -> Nat]
  BY DEF TypeInv, TypeOK
<1>2. CASE FirstPick(c)
  BY <1>1, <1>2 DEF FirstPick, lbVars
<1>3. CASE LoopTest(c)
  BY <1>1, <1>3 DEF LoopTest, lbVars, rqVars
<1>4. CASE ProcessEvents(c)
  BY <1>1, <1>4
     DEF ProcessEvents, EventsDone, NewTask, AwakeTask, CompleteAwake, Wake, threadVars, lbVars,
         rqVars
<1>5. CASE SchedulerTick(c)
  BY <1>1, <1>5
     DEF SchedulerTick, TickIdle, TickRun, TickComplete, TickSleep, ChargeTick, lbVars, rqVars
<1>6. CASE LbSkip(c) \/ LbStart(c) \/ LbScan(c) \/ LbChoose(c) \/ Steal(c)
  BY <1>1, <1>6 DEF LbSkip, LbStart, LbScan, LbChoose, Steal, lbVars, rqVars
<1>7. CASE LockLower(c) \/ UnlockOwn(c) \/ LockHigher(c) \/ LockOwn(c)
  BY <1>1, <1>7 DEF LockLower, UnlockOwn, LockHigher, LockOwn, LockStep, lbVars
<1>8. CASE LbBalanced(c) \/ LbNeither(c) \/ LbStale(c) \/ \E t \in Tasks : Move(c, t)
  <2>1. step' = step /\ \E held : LbFinish(c, held) \/ EndTrial(c, held)
    BY <1>8 DEF LbBalanced, LbNeither, LbStale, Move
  <2> QED BY <1>1, <2>1 DEF EndTrial, LbFinish
<1>9. CASE Schedule(c)
  BY <1>1, <1>9 DEF Schedule, SchedKeep, SchedSwitch, lbVars, rqVars
<1>10. CASE SynchronizeCpus(c)
  BY <1>1, <1>10 DEF SynchronizeCpus, SyncAlone, Arrive, Count, lbVars, rqVars
<1> QED BY <1>2, <1>3, <1>4, <1>5, <1>6, <1>7, <1>8, <1>9, <1>10 DEF Thread, LoadBalance

\* Outside load_balance a critical section is over when the step is.
LEMMA LocksOnlyInBalance ==
  ASSUME TypeInv, NEW c \in Cpus, Thread(c), ~LoadBalance(c)
  PROVE  /\ lock' = lock /\ peer' = peer
         /\ pc[c] \notin LbPlaces \cup {"abort"} /\ pc'[c] \notin LbPlaces
<1>1. pc \in [Cpus -> PcPlaces]
  BY DEF TypeInv, TypeOK
<1> USE DEF LbPlaces
<1>2. CASE FirstPick(c)
  BY <1>1, <1>2 DEF FirstPick, lbVars
<1>3. CASE LoopTest(c)
  BY <1>1, <1>3 DEF LoopTest, lbVars, rqVars
<1>4. CASE ProcessEvents(c)
  BY <1>1, <1>4
     DEF ProcessEvents, EventsDone, NewTask, AwakeTask, CompleteAwake, TakesEvent, Wake,
         threadVars, lbVars, rqVars
<1>5. CASE SchedulerTick(c)
  BY <1>1, <1>5
     DEF SchedulerTick, TickIdle, TickRun, TickComplete, TickSleep, ChargeTick, lbVars, rqVars
<1>6. CASE Schedule(c)
  BY <1>1, <1>6 DEF Schedule, SchedKeep, SchedSwitch, lbVars, rqVars
<1>7. CASE SynchronizeCpus(c)
  BY <1>1, <1>7 DEF SynchronizeCpus, SyncAlone, Arrive, Count, lbVars, rqVars
<1> QED BY <1>2, <1>3, <1>4, <1>5, <1>6, <1>7 DEF Thread

\* A thread that keeps its places and locks keeps its part of the invariant.
LEMMA LockInvStep ==
  ASSUME TypeInv, LockInv, NEW c \in Cpus, Thread(c),
         \A d \in Cpus : lock'[d] # lock[d] => {lock[d], lock'[d]} = {c, NoCpu},
         pc'[c] # "abort" => \A d \in Cpus : lock'[d] = c <=> d \in HeldBy(c)',
         pc'[c] \in PeerPlaces => peer'[c] # c,
         pc'[c] \in {"lockpeer", "lockown"} => c < peer'[c]
  PROVE  LockInv'
<1>1. ASSUME NEW e \in Cpus, e # c
      PROVE  /\ pc'[e] = pc[e] /\ peer'[e] = peer[e] /\ HeldBy(e)' = HeldBy(e)
             /\ \A d \in Cpus : lock'[d] = e <=> lock[d] = e
  <2>1. pc'[e] = pc[e] /\ peer'[e] = peer[e]
    BY <1>1, OthersUntouched
  <2>2. HeldBy(e)' = HeldBy(e)
    BY <2>1 DEF HeldBy
  <2>3. e # NoCpu
    BY NrCpusAssumption DEF Cpus, NoCpu
  <2> QED BY <1>1, <2>1, <2>2, <2>3
<1>2. LocksHeld'
  BY <1>1 DEF LockInv, LocksHeld
<1>3. PeerIsAnother'
  BY <1>1 DEF LockInv, PeerIsAnother
<1> QED BY <1>2, <1>3 DEF LockInv

\* The end of a trial releases what the thread holds, but its own lock if another
\* trial follows.
LEMMA ReleaseStep ==
  ASSUME TypeInv, LockInv, NEW c \in Cpus, Thread(c), pc[c] \in {"decide", "check", "move"},
         LbFinish(c, HeldBy(c)) \/ EndTrial(c, HeldBy(c))
  PROVE  LockInv'
<1>1. /\ pc \in [Cpus -> PcPlaces] /\ peer \in [Cpus -> Cpus \cup {NoCpu}]
      /\ c # NoCpu /\ c \in HeldBy(c) /\ \A d \in Cpus : lock[d] = c <=> d \in HeldBy(c)
  <2>1. pc \in [Cpus -> PcPlaces] /\ peer \in [Cpus -> Cpus \cup {NoCpu}]
    BY DEF TypeInv, TypeOK
  <2>2. c # NoCpu
    BY NrCpusAssumption DEF Cpus, NoCpu
  <2>3. c \in HeldBy(c)
    BY DEF HeldBy
  <2>4. \A d \in Cpus : lock[d] = c <=> d \in HeldBy(c)
    BY DEF LockInv, LocksHeld
  <2> QED BY <2>1, <2>2, <2>3, <2>4
<1>2. CASE LbFinish(c, HeldBy(c))
  <2>1. /\ lock' = [d \in Cpus |-> IF d \in HeldBy(c) THEN NoCpu ELSE lock[d]]
        /\ pc'[c] = "sched"
    BY <1>1, <1>2 DEF LbFinish
  <2>2. HeldBy(c)' = {}
    BY <2>1 DEF HeldBy
  <2>3. \A d \in Cpus : lock'[d] # lock[d] => {lock[d], lock'[d]} = {c, NoCpu}
    BY <1>1, <2>1
  <2>4. \A d \in Cpus : lock'[d] = c <=> d \in HeldBy(c)'
    BY <1>1, <2>1, <2>2
  <2> QED BY <2>1, <2>3, <2>4, LockInvStep DEF PeerPlaces
<1>3. CASE EndTrial(c, HeldBy(c)) /\ ~LastTrial(c)
  <2>1. /\ lock' = [d \in Cpus |-> IF d \in HeldBy(c) \ {c} THEN NoCpu ELSE lock[d]]
        /\ pc'[c] = "scan"
    BY <1>1, <1>3 DEF EndTrial
  <2>2. HeldBy(c)' = {c}
    BY <2>1 DEF HeldBy
  <2>3. \A d \in Cpus : lock'[d] # lock[d] => {lock[d], lock'[d]} = {c, NoCpu}
    BY <1>1, <2>1
  <2>4. \A d \in Cpus : lock'[d] = c <=> d \in HeldBy(c)'
    BY <1>1, <2>1, <2>2
  <2> QED BY <2>1, <2>3, <2>4, LockInvStep DEF PeerPlaces
<1> QED BY <1>2, <1>3 DEF EndTrial

LEMMA BalanceLockInv ==
  ASSUME TypeInv, LockInv, NEW c \in Cpus, LoadBalance(c)
  PROVE  LockInv'
<1>1. /\ pc \in [Cpus -> PcPlaces] /\ lock \in [Cpus -> Cpus \cup {NoCpu}]
      /\ peer \in [Cpus -> Cpus \cup {NoCpu}] /\ load \in [Cpus -> [Cpus -> Int]]
      /\ (pc[c] \in PeerPlaces => peer[c] \in Cpus)
  BY DEF TypeInv, TypeOK, PeerChosen
<1>2. c # NoCpu /\ c \in Int /\ (peer[c] \in Cpus => peer[c] \in Int)
  BY NrCpusAssumption DEF Cpus, NoCpu
<1>3. /\ pc[c] # "abort" => \A d \in Cpus : lock[d] = c <=> d \in HeldBy(c)
      /\ pc[c] \in PeerPlaces => peer[c] # c
      /\ pc[c] \in {"lockpeer", "lockown"} => c < peer[c]
  BY DEF LockInv, LocksHeld, PeerIsAnother
<1>4. Thread(c)
  BY DEF Thread
<1>5. CASE LbSkip(c)
  <2>1. lock' = lock /\ pc[c] = "lb" /\ pc'[c] = "sched"
    BY <1>1, <1>5 DEF LbSkip
  <2>2. HeldBy(c) = {} /\ HeldBy(c)' = {}
    BY <2>1 DEF HeldBy
  <2> QED BY <1>3, <1>4, <2>1, <2>2, LockInvStep DEF PeerPlaces
<1>6. CASE LbStart(c)
  <2>1. /\ lock' = [lock EXCEPT ![c] = c] /\ lock[c] = NoCpu
        /\ pc[c] = "lb" /\ pc'[c] = "scan"
    BY <1>1, <1>6 DEF LbStart, Unlocked
  <2>2. HeldBy(c) = {} /\ HeldBy(c)' = {c}
    BY <2>1 DEF HeldBy
  <2>3. \A d \in Cpus : lock'[d] # lock[d] => {lock[d], lock'[d]} = {c, NoCpu}
    BY <1>1, <2>1
  <2>4. \A d \in Cpus : lock'[d] = c <=> d \in HeldBy(c)'
    BY <1>1, <1>3, <2>1, <2>2
  <2> QED BY <1>4, <2>1, <2>3, <2>4, LockInvStep DEF PeerPlaces
<1>7. CASE LbScan(c)
  <2>1. lock' = lock /\ pc[c] = "scan" /\ pc'[c] \in {"scan", "decide"}
    BY <1>1, <1>7 DEF LbScan, rqVars
  <2>2. HeldBy(c) = {c} /\ HeldBy(c)' = {c}
    BY <2>1 DEF HeldBy
  <2> QED BY <1>3, <1>4, <2>1, <2>2, LockInvStep DEF PeerPlaces
<1>8. CASE LbBalanced(c)
  <2>1. pc[c] = "decide" /\ HeldBy(c) = {c} /\ LbFinish(c, {c})
    BY <1>8 DEF LbBalanced, HeldBy
  <2> QED BY <1>4, <2>1, ReleaseStep
<1>9. CASE LbNeither(c)
  <2>1. pc[c] = "decide" /\ HeldBy(c) = {c} /\ EndTrial(c, {c})
    BY <1>9 DEF LbNeither, HeldBy
  <2> QED BY <1>4, <2>1, ReleaseStep
<1>10. CASE LbChoose(c)
  <2>1. lock' = lock /\ pc[c] = "decide" /\ pc'[c] = "dlock"
    BY <1>1, <1>10 DEF LbChoose, rqVars
  <2>2. HeldBy(c) = {c} /\ HeldBy(c)' = {c}
    BY <2>1 DEF HeldBy
  <2>3. peer'[c] # c
    <3>1. /\ load[c][CpuMax(c)] = MaxLoad(c) /\ load[c][CpuMin(c)] = MinLoad(c)
          /\ MaxLoad(c) \in Int /\ MinLoad(c) \in Int
      BY <1>1, ChosenCpus
    <3>2. MaxLoad(c) # MinLoad(c)
      BY <1>10, <3>1 DEF LbChoose, Balanced
    <3>3. peer'[c] = IF Pushes(c) THEN CpuMin(c) ELSE CpuMax(c)
      BY <1>1, <1>10 DEF LbChoose
    <3>4. IF Pushes(c) THEN load[c][c] = MaxLoad(c) ELSE load[c][c] = MinLoad(c)
      BY <1>10 DEF LbChoose, Pushes
    <3> QED BY <3>1, <3>2, <3>3, <3>4
  <2> QED BY <1>3, <1>4, <2>1, <2>2, <2>3, LockInvStep
<1>11. CASE LockLower(c)
  <2>1. /\ pc[c] = "dlock" /\ lock[peer[c]] = NoCpu /\ lock' = [lock EXCEPT ![peer[c]] = c]
        /\ pc'[c] = "check" /\ peer' = peer
    BY <1>1, <1>11 DEF LockLower, Unlocked, LockStep, lbVars
  <2>2. HeldBy(c) = {c} /\ HeldBy(c)' = {c, peer[c]} /\ peer[c] \in Cpus /\ peer[c] # c
    BY <1>1, <1>3, <2>1 DEF HeldBy, PeerPlaces
  <2>3. \A d \in Cpus : lock'[d] # lock[d] => {lock[d], lock'[d]} = {c, NoCpu}
    BY <1>1, <2>1, <2>2
  <2>4. \A d \in Cpus : lock'[d] = c <=> d \in HeldBy(c)'
    BY <1>1, <1>3, <2>1, <2>2
  <2> QED BY <1>4, <2>1, <2>2, <2>3, <2>4, LockInvStep
<1>12. CASE UnlockOwn(c)
  <2>1. /\ pc[c] = "dlock" /\ ~(c > peer[c]) /\ lock' = [lock EXCEPT ![c] = NoCpu]
        /\ pc'[c] = "lockpeer" /\ peer' = peer
    BY <1>1, <1>12 DEF UnlockOwn, GoesDown, LockStep, lbVars
  <2>2. HeldBy(c) = {c} /\ HeldBy(c)' = {} /\ peer[c] \in Cpus /\ peer[c] # c
    BY <1>1, <1>3, <2>1 DEF HeldBy, PeerPlaces
  <2>3. \A d \in Cpus : lock'[d] # lock[d] => {lock[d], lock'[d]} = {c, NoCpu}
    BY <1>1, <1>3, <2>1, <2>2
  <2>4. \A d \in Cpus : lock'[d] = c <=> d \in HeldBy(c)'
    BY <1>1, <1>2, <1>3, <2>1, <2>2
  <2>5. c < peer'[c]
    BY <1>2, <2>1, <2>2
  <2> QED BY <1>4, <2>1, <2>2, <2>3, <2>4, <2>5, LockInvStep
<1>13. CASE LockHigher(c)
  <2>1. /\ pc[c] = "lockpeer" /\ lock[peer[c]] = NoCpu /\ lock' = [lock EXCEPT ![peer[c]] = c]
        /\ pc'[c] = "lockown" /\ peer' = peer
    BY <1>1, <1>13 DEF LockHigher, Unlocked, LockStep, lbVars
  <2>2. /\ HeldBy(c) = {} /\ HeldBy(c)' = {peer[c]} /\ peer[c] \in Cpus /\ peer[c] # c
        /\ c < peer[c]
    BY <1>1, <1>3, <2>1 DEF HeldBy, PeerPlaces
  <2>3. \A d \in Cpus : lock'[d] # lock[d] => {lock[d], lock'[d]} = {c, NoCpu}
    BY <1>1, <2>1, <2>2
  <2>4. \A d \in Cpus : lock'[d] = c <=> d \in HeldBy(c)'
    BY <1>1, <1>3, <2>1, <2>2
  <2> QED BY <1>4, <2>1, <2>2, <2>3, <2>4, LockInvStep
<1>14. CASE LockOwn(c)
  <2>1. /\ pc[c] = "lockown" /\ lock[c] = NoCpu /\ lock' = [lock EXCEPT ![c] = c]
        /\ pc'[c] = "check" /\ peer' = peer
    BY <1>1, <1>14 DEF LockOwn, Unlocked, LockStep, lbVars
  <2>2. HeldBy(c) = {peer[c]} /\ HeldBy(c)' = {c, peer[c]} /\ peer[c] # c
    BY <1>1, <1>3, <2>1 DEF HeldBy, PeerPlaces
  <2>3. \A d \in Cpus : lock'[d] # lock[d] => {lock[d], lock'[d]} = {c, NoCpu}
    BY <1>1, <2>1
  <2>4. \A d \in Cpus : lock'[d] = c <=> d \in HeldBy(c)'
    BY <1>1, <1>3, <2>1, <2>2
  <2> QED BY <1>4, <2>1, <2>2, <2>3, <2>4, LockInvStep
<1>15. CASE Steal(c)
  <2>1. /\ pc[c] = "check" /\ lock' = lock /\ pc'[c] \in {"abort", "move"} /\ peer' = peer
    BY <1>1, <1>15 DEF Steal
  <2>2. pc'[c] = "move" => HeldBy(c)' = HeldBy(c)
    BY <2>1 DEF HeldBy
  <2> QED BY <1>3, <1>4, <2>1, <2>2, LockInvStep DEF PeerPlaces
<1>16. CASE LbStale(c)
  <2>1. pc[c] = "check" /\ HeldBy(c) = {c, peer[c]} /\ EndTrial(c, {c, peer[c]})
    BY <1>16 DEF LbStale, HeldBy
  <2> QED BY <1>4, <2>1, ReleaseStep
<1>17. CASE \E t \in Tasks : Move(c, t)
  <2>1. pc[c] = "move" /\ HeldBy(c) = {c, peer[c]} /\ EndTrial(c, {c, peer[c]})
    BY <1>17 DEF Move, HeldBy
  <2> QED BY <1>4, <2>1, ReleaseStep
<1> QED BY <1>5, <1>6, <1>7, <1>8, <1>9, <1>10, <1>11, <1>12, <1>13, <1>14, <1>15, <1>16, <1>17
        DEF LoadBalance

\* The steps outside the threads' own work: sched_start and the barriers.
LEMMA QuietSteps ==
  ASSUME TypeInv, Main \/ Barrier0 \/ Barrier1 \/ UNCHANGED vars
  PROVE  /\ UNCHANGED <<lock, peer, load, nrun, step, nextLb>>
         /\ \/ pc' = pc
            \/ \A c \in Cpus : \/ pc[c] = "none" /\ pc'[c] = "boot"
                               \/ pc[c] = "wait0" /\ pc'[c] = "count"
                               \/ pc[c] = "wait1" /\ pc'[c] = "next"
<1>1. CASE AddTask \/ Join
  BY <1>1 DEF AddTask, Join, threadVars, lbVars, rqVars
<1>2. CASE CreateThreads
  BY <1>2 DEF CreateThreads, TypeInv, ThreadsAfterTasks, lbVars, rqVars
<1>3. CASE Barrier0 \/ Barrier1
  BY <1>3 DEF Barrier0, Barrier1, Barrier, lbVars, rqVars
<1>4. CASE UNCHANGED vars
  BY <1>4 DEF vars, threadVars, lbVars, rqVars
<1> QED BY <1>1, <1>2, <1>3, <1>4 DEF Main

LEMMA InitLockInv == Init => LockInv
<1>1. Init => LocksHeld
  BY NrCpusAssumption DEF Init, LocksHeld, HeldBy, Cpus, NoCpu
<1>2. Init => PeerIsAnother
  BY DEF Init, PeerIsAnother, PeerPlaces
<1> QED BY <1>1, <1>2 DEF LockInv

LEMMA NextLockInv == TypeInv /\ LockInv /\ [Next]_vars => LockInv'
<1>1. SUFFICES ASSUME TypeInv, LockInv, [Next]_vars PROVE LockInv'
  OBVIOUS
<1>2. ASSUME NEW c \in Cpus, Thread(c), ~LoadBalance(c) PROVE LockInv'
  <2>1. /\ lock' = lock /\ peer' = peer
        /\ pc[c] \notin LbPlaces \cup {"abort"} /\ pc'[c] \notin LbPlaces
    BY <1>1, <1>2, LocksOnlyInBalance
  <2>2. HeldBy(c) = {} /\ HeldBy(c)' = {}
    BY <2>1 DEF HeldBy, LbPlaces
  <2>3. \A d \in Cpus : lock[d] = c <=> d \in HeldBy(c)
    BY <1>1, <2>1 DEF LockInv, LocksHeld
  <2> QED BY <1>1, <1>2, <2>1, <2>2, <2>3, LockInvStep DEF PeerPlaces, LbPlaces
<1>3. CASE Main \/ Barrier0 \/ Barrier1 \/ UNCHANGED vars
  <2>1. UNCHANGED <<lock, peer>>
    BY <1>1, <1>3, QuietSteps
  <2>2. CASE pc' = pc
    BY <1>1, <2>1, <2>2 DEF LockInv, LocksHeld, HeldBy, PeerIsAnother, PeerPlaces
  <2>3. CASE \A c \in Cpus : \/ pc[c] = "none" /\ pc'[c] = "boot"
                             \/ pc[c] = "wait0" /\ pc'[c] = "count"
                             \/ pc[c] = "wait1" /\ pc'[c] = "next"
    <3>1. \A c \in Cpus : HeldBy(c) = {} /\ HeldBy(c)' = {}
      BY <2>3 DEF HeldBy
    <3>2. \A c, d \in Cpus : ~(lock[d] = c)
      BY <1>1, <2>3, <3>1 DEF LockInv, LocksHeld
    <3>3. LocksHeld'
      BY <2>1, <3>1, <3>2 DEF LocksHeld
    <3>4. PeerIsAnother'
      BY <2>3 DEF PeerIsAnother, PeerPlaces
    <3> QED BY <3>3, <3>4 DEF LockInv
  <2> QED BY <1>1, <1>3, <2>2, <2>3, QuietSteps
<1> QED BY <1>1, <1>2, <1>3, BalanceLockInv DEF Next, Terminated

LEMMA LockInvariance == Spec => []LockInv
  BY InitLockInv, NextLockInv, InitTypeInv, TypeInvariance, PTL DEF Spec

\* Deadlock freedom of double_lock_rq: a thread that waits for a run queue lock
\* holds none of a lower CPU, so the waiting threads cannot form a cycle, however
\* many of them balance at once.
THEOREM LocksInOrder == Spec => []LockOrder
<1>1. TypeInv /\ LockInv => LockOrder
  <2>1. SUFFICES ASSUME TypeInv, LockInv, NEW c \in Cpus, NEW d \in Cpus, lock[d] = c,
                        NEW w \in Wants(c)
                 PROVE  w < d
    BY DEF LockOrder
  <2>2. pc[c] \in {"dlock", "lockpeer", "lockown"}
    BY <2>1 DEF Wants
  <2>3. d \in HeldBy(c)
    BY <2>1, <2>2 DEF LockInv, LocksHeld
  <2> QED BY <2>1, <2>2, <2>3 DEF HeldBy, Wants, GoesDown, LockInv, PeerIsAnother
<1> QED BY <1>1, LockInvariance, TypeInvariance, PTL

\* nr_runnable of a CPU only changes by the hand of a thread that has its lock, or
\* while nobody does.
LEMMA CountUnderLock ==
  ASSUME TypeInv, LockInv, NEW c \in Cpus, Thread(c), NEW d \in Cpus, nrun'[d] # nrun[d]
  PROVE  lock[d] \in {c, NoCpu}
<1>1. nrun \in [Cpus -> Int] /\ (pc[c] \in PeerPlaces => peer[c] \in Cpus)
  BY DEF TypeInv, TypeOK, PeerChosen
<1>2. CASE \E t \in Tasks : Steal(c) \/ Move(c, t)
  <2>1. pc[c] \in {"check", "move"} /\ d \in {Source(c), Target(c)}
    BY <1>1, <1>2 DEF Steal, Move, Enqueue
  <2>2. d \in HeldBy(c)
    BY <2>1 DEF Source, Target, HeldBy
  <2> QED BY <2>1, <2>2 DEF LockInv, LocksHeld
<1>3. CASE ProcessEvents(c)
  BY <1>1, <1>3
     DEF ProcessEvents, EventsDone, NewTask, AwakeTask, CompleteAwake, Wake, Enqueue, Unlocked,
         rqVars
<1>4. CASE SchedulerTick(c)
  BY <1>1, <1>4
     DEF SchedulerTick, TickIdle, TickRun, TickComplete, TickSleep, ChargeTick, EndBurst,
         Unlocked, rqVars
<1>5. nrun' = nrun \/ ProcessEvents(c) \/ SchedulerTick(c) \/ (\E t \in Tasks : Steal(c) \/ Move(c, t))
  <2>1. 0 \in Tasks
    BY SchedSimAssumption DEF Tasks
  <2>2. CASE LoadBalance(c)
    BY <2>1, <2>2
       DEF LoadBalance, LbSkip, LbStart, LbScan, LbBalanced, LbNeither, LbChoose, LockLower,
           UnlockOwn, LockHigher, LockOwn, LockStep, LbStale, rqVars
  <2>3. CASE FirstPick(c) \/ LoopTest(c) \/ Schedule(c) \/ SynchronizeCpus(c)
    BY <2>3
       DEF FirstPick, LoopTest, Schedule, SchedKeep, SchedSwitch, SynchronizeCpus, SyncAlone,
           Arrive, Count, rqVars
  <2> QED BY <2>2, <2>3 DEF Thread
<1> QED BY <1>2, <1>3, <1>4, <1>5

\* Only a steal leads to the second half of a migration, and it leaves the balance
\* better than it would be the other way round.
LEMMA StealImproves ==
  ASSUME TypeInv, LockInv, NEW c \in Cpus, Thread(c), pc'[c] = "move"
  PROVE  nrun'[Source(c)'] > nrun'[Target(c)']
<1>1. /\ pc \in [Cpus -> PcPlaces] /\ nrun \in [Cpus -> Int]
      /\ (pc[c] \in PeerPlaces => peer[c] \in Cpus /\ peer[c] # c)
  BY DEF TypeInv, TypeOK, PeerChosen, LockInv, PeerIsAnother
<1>2. LoadBalance(c)
  BY LocksOnlyInBalance DEF LbPlaces
<1>3. Steal(c)
  BY <1>1, <1>2
     DEF LoadBalance, LbSkip, LbStart, LbScan, LbBalanced, LbNeither, LbChoose, LockLower,
         UnlockOwn, LockHigher, LockOwn, LockStep, LbStale, Move, EndTrial, LbFinish
<1>4. /\ pc[c] = "check" /\ UNCHANGED <<load, peer>>
      /\ nrun[Source(c)] - nrun[Target(c)] > 1
      /\ nrun' = [nrun EXCEPT ![Source(c)] = @ - 1]
  BY <1>1, <1>3 DEF Steal, WorthMoving
<1>5. /\ Source(c) \in Cpus /\ Target(c) \in Cpus /\ Source(c) # Target(c)
      /\ Source(c)' = Source(c) /\ Target(c)' = Target(c)
  BY <1>1, <1>4 DEF Source, Target, PeerPlaces, Pushes, MaxLoad
<1> QED BY <1>1, <1>4, <1>5

LEMMA NextMigrationImproves ==
  TypeInv /\ LockInv /\ MigrationImproves /\ [Next]_vars => MigrationImproves'
<1>1. SUFFICES ASSUME TypeInv, LockInv, MigrationImproves, [Next]_vars, NEW e \in Cpus,
                      pc'[e] = "move"
               PROVE  nrun'[Source(e)'] > nrun'[Target(e)']
  BY DEF MigrationImproves
<1>2. ASSUME pc[e] = "move", UNCHANGED <<peer[e], load[e]>>,
             \A d \in Cpus : lock[d] = e => nrun'[d] = nrun[d]
      PROVE  nrun'[Source(e)'] > nrun'[Target(e)']
  <2>1. Source(e)' = Source(e) /\ Target(e)' = Target(e)
    BY <1>2 DEF Source, Target, Pushes, MaxLoad
  <2>2. Source(e) \in HeldBy(e) /\ Target(e) \in HeldBy(e)
    BY <1>2 DEF Source, Target, HeldBy
  <2>3. HeldBy(e) \subseteq Cpus
    BY <1>1, <1>2 DEF HeldBy, TypeInv, PeerChosen, PeerPlaces
  <2>4. lock[Source(e)] = e /\ lock[Target(e)] = e
    BY <1>1, <1>2, <2>2, <2>3 DEF LockInv, LocksHeld
  <2> QED BY <1>1, <1>2, <2>1, <2>2, <2>3, <2>4 DEF MigrationImproves
<1>3. ASSUME NEW c \in Cpus, Thread(c)
      PROVE  nrun'[Source(e)'] > nrun'[Target(e)']
  <2>1. CASE c = e
    BY <1>1, <1>3, <2>1, StealImproves
  <2>2. CASE c # e
    <3>1. pc[e] = "move" /\ UNCHANGED <<peer[e], load[e]>>
      BY <1>1, <1>3, <2>2, OthersUntouched
    <3>2. ASSUME NEW d \in Cpus, lock[d] = e PROVE nrun'[d] = nrun[d]
      <4>1. e # NoCpu
        BY NrCpusAssumption DEF Cpus, NoCpu
      <4> QED BY <1>1, <1>3, <2>2, <3>2, <4>1, CountUnderLock
    <3> QED BY <1>2, <3>1, <3>2
  <2> QED BY <2>1, <2>2
<1>4. CASE Main \/ Barrier0 \/ Barrier1 \/ UNCHANGED vars
  <2>1. UNCHANGED <<peer, load, nrun>> /\ pc[e] = "move"
    BY <1>1, <1>4, QuietSteps
  <2> QED BY <1>2, <2>1
<1> QED BY <1>1, <1>3, <1>4 DEF Next, Terminated

\* A task is only ever moved to a CPU with fewer runnable tasks, by the counts at
\* the time it arrives there: load_balance looks again under both locks, and
\* nobody else changes the counts until the move is complete.
THEOREM MigrationsImprove == Spec => []MigrationImproves
<1>1. Init => MigrationImproves
  BY DEF Init, MigrationImproves
<1> QED BY <1>1, NextMigrationImproves, TypeInvariance, LockInvariance, PTL DEF Spec

-----------------------------------------------------------------------------
(* The period of load balancing *)

\* Before load_balance, while in it, and after it.
BeforeBalance == {"none", "boot", "pick", "loop", "tick", "events", "lb"} \cup LbPlaces
AfterBalance == {"sched", "sync", "wait0", "count", "wait1", "next"}

\* next_load_balancing is ahead of the step, or this very step while load_balance
\* has still to move it on.
PeriodAhead(c) ==
    /\ pc[c] \in BeforeBalance => nextLb[c] >= step[c]
    /\ pc[c] \in AfterBalance => nextLb[c] > step[c]

PeriodInv == NrCpus > 1 => \A c \in Cpus : PeriodAhead(c)

\* Each step of a thread keeps its own next_load_balancing ahead.
LEMMA PeriodStep ==
  ASSUME TypeInv, NrCpus > 1, NEW c \in Cpus, PeriodAhead(c), Thread(c)
  PROVE  PeriodAhead(c)'
<1>1. /\ pc \in [Cpus -> PcPlaces] /\ nextLb \in [Cpus -> Nat] /\ step \in [Cpus -> Nat]
  BY DEF TypeInv, TypeOK
<1> USE DEF BeforeBalance, AfterBalance, LbPlaces
<1>2. ASSUME UNCHANGED <<step, nextLb>>,
             pc'[c] \in BeforeBalance => pc[c] \in BeforeBalance \cup AfterBalance,
             pc'[c] \in AfterBalance => pc[c] \in AfterBalance
      PROVE  PeriodAhead(c)'
  BY <1>1, <1>2 DEF PeriodAhead
<1>3. CASE FirstPick(c)
  BY <1>1, <1>2, <1>3 DEF FirstPick
<1>4. CASE LoopTest(c)
  <2>1. /\ pc[c] \in {"loop", "next"} /\ pc'[c] \in {"tick", "exit"} /\ nextLb' = nextLb
        /\ step'[c] = IF pc[c] = "next" THEN step[c] + 1 ELSE step[c]
    BY <1>1, <1>4 DEF LoopTest, rqVars
  <2> QED BY <1>1, <2>1 DEF PeriodAhead
<1>5. CASE ProcessEvents(c)
  <2>1. /\ UNCHANGED <<step, nextLb>> /\ pc[c] \in {"boot", "events"}
        /\ pc'[c] \in {"boot", "events", "pick", "lb", "abort"}
    BY <1>1, <1>5
       DEF ProcessEvents, EventsDone, NewTask, AwakeTask, CompleteAwake, TakesEvent, Wake,
           threadVars, rqVars
  <2> QED BY <1>2, <2>1
<1>6. CASE SchedulerTick(c)
  <2>1. /\ UNCHANGED <<step, nextLb>> /\ pc[c] = "tick" /\ pc'[c] \in {"events", "abort"}
    BY <1>1, <1>6
       DEF SchedulerTick, TickIdle, TickRun, TickComplete, TickSleep, ChargeTick, rqVars
  <2> QED BY <1>2, <2>1
<1>7. CASE LbSkip(c)
  <2>1. /\ step' = step /\ pc[c] = "lb" /\ pc'[c] = "sched"
        /\ nextLb'[c] = LbNext(c) /\ LbNext(c) # step[c]
    BY <1>1, <1>7 DEF LbSkip
  <2>2. LbNext(c) = nextLb[c]
    BY <2>1 DEF LbNext
  <2> QED BY <1>1, <2>1, <2>2 DEF PeriodAhead
<1>8. CASE LbStart(c)
  <2>1. step' = step /\ pc'[c] = "scan" /\ nextLb'[c] = step[c]
    BY <1>1, <1>8 DEF LbStart
  <2> QED BY <1>1, <2>1 DEF PeriodAhead
<1>9. CASE \/ LbScan(c) \/ LbChoose(c) \/ Steal(c)
           \/ LockLower(c) \/ UnlockOwn(c) \/ LockHigher(c) \/ LockOwn(c)
  <2>1. /\ UNCHANGED <<step, nextLb>> /\ pc[c] \in LbPlaces /\ pc'[c] \in LbPlaces \cup {"abort"}
    BY <1>1, <1>9
       DEF LbScan, LbChoose, Steal, LockLower, UnlockOwn, LockHigher, LockOwn, LockStep, rqVars
  <2> QED BY <1>2, <2>1
<1>10. CASE LbBalanced(c) \/ LbNeither(c) \/ LbStale(c) \/ \E t \in Tasks : Move(c, t)
  <2>1. /\ step' = step /\ pc[c] \in {"decide", "check", "move"}
        /\ \E held : LbFinish(c, held) \/ EndTrial(c, held)
    BY <1>10 DEF LbBalanced, LbNeither, LbStale, Move
  <2>2. \/ pc'[c] = "sched" /\ nextLb'[c] = nextLb[c] + LbPeriod
        \/ pc'[c] = "scan" /\ nextLb' = nextLb
    BY <1>1, <2>1 DEF EndTrial, LbFinish, NextPeriod
  <2> QED BY <1>1, <2>1, <2>2, SchedSimAssumption DEF PeriodAhead
<1>11. CASE Schedule(c)
  <2>1. UNCHANGED <<step, nextLb>> /\ pc[c] = "sched" /\ pc'[c] = "sync"
    BY <1>1, <1>11 DEF Schedule, SchedKeep, SchedSwitch, rqVars
  <2> QED BY <1>2, <2>1
<1>12. CASE SynchronizeCpus(c)
  <2>1. /\ UNCHANGED <<step, nextLb>> /\ pc[c] \in {"sync", "count"}
        /\ pc'[c] \in {"wait0", "wait1", "next"}
    BY <1>1, <1>12 DEF SynchronizeCpus, SyncAlone, Arrive, Count, rqVars
  <2> QED BY <1>2, <2>1
<1> QED BY <1>3, <1>4, <1>5, <1>6, <1>7, <1>8, <1>9, <1>10, <1>11, <1>12 DEF Thread, LoadBalance

LEMMA NextPeriodInv == TypeInv /\ PeriodInv /\ [Next]_vars => PeriodInv'
<1>1. SUFFICES ASSUME TypeInv, NrCpus > 1, [Next]_vars, NEW d \in Cpus, PeriodAhead(d)
               PROVE  PeriodAhead(d)'
  BY DEF PeriodInv
<1>2. ASSUME NEW c \in Cpus, Thread(c) PROVE PeriodAhead(d)'
  <2>1. CASE c = d
    BY <1>1, <1>2, <2>1, PeriodStep
  <2>2. CASE c # d
    <3>1. pc'[d] = pc[d] /\ nextLb'[d] = nextLb[d] /\ step'[d] = step[d]
      BY <1>1, <1>2, <2>2, OthersUntouched
    <3> QED BY <1>1, <3>1 DEF PeriodAhead, BeforeBalance, AfterBalance, LbPlaces
  <2> QED BY <2>1, <2>2
<1>3. CASE Main \/ Barrier0 \/ Barrier1 \/ UNCHANGED vars
  <2>1. /\ UNCHANGED <<step, nextLb>>
        /\ \/ pc'[d] = pc[d]
           \/ pc[d] = "none" /\ pc'[d] = "boot"
           \/ pc[d] = "wait0" /\ pc'[d] = "count"
           \/ pc[d] = "wait1" /\ pc'[d] = "next"
    BY <1>1, <1>3, QuietSteps
  <2> QED BY <1>1, <2>1 DEF PeriodAhead, BeforeBalance, AfterBalance, LbPlaces
<1> QED BY <1>1, <1>2, <1>3 DEF Next, Terminated

\* next_load_balancing, which is compared with the step for equality, never falls
\* behind it, whatever other CPUs do to the run queue: every CPU balances again.
THEOREM BalancingComesAgain == Spec => []BalancingNeverMissed
<1>1. Init => PeriodInv
  <2>1. \A c \in Cpus : c \in Nat
    BY NrCpusAssumption DEF Cpus
  <2>2. \A n \in Nat : n % NrCpus >= 0
    BY NrCpusAssumption
  <2> QED BY <2>1, <2>2
          DEF Init, PeriodInv, PeriodAhead, BeforeBalance, AfterBalance, LbPlaces
<1>2. PeriodInv => BalancingNeverMissed
  BY DEF PeriodInv, PeriodAhead, BeforeBalance, AfterBalance, BalancingNeverMissed
<1> QED BY <1>1, <1>2, NextPeriodInv, TypeInvariance, PTL DEF Spec

=============================================================================
