--------------------------- MODULE SyncCpusProofs ---------------------------
(***************************************************************************)
(* ExitAgreement and Lockstep of SyncCpus, for any number of CPUs and any  *)
(* number of steps.                                                        *)
(***************************************************************************)
EXTENDS SyncCpus, TLAPS

\* Between the two barriers.
Voting == {"count", "wait1"}

\* Inside the loop body, before the first barrier.
Inside == {"work", "wait0"}

\* The step a thread is in, or will be in after its pending simulation_step++.
StepOf(c) == IF pc[c] = "next" THEN step[c] + 1 ELSE step[c]

\* The inductive invariant.  A thread that votes sees all others vote; all
\* threads are in the same step; and those that have left the loop and those that
\* are inside it have drawn their conclusions from the value cpus_completed still
\* has: only the vote, and CPU 0 being inside, change it.
VotesTogether == \A c, d \in Cpus : pc[c] \in Voting => pc[d] \in Voting
SameStep == \A c, d \in Cpus : StepOf(c) = StepOf(d)
ExitReason == \A c \in Cpus : pc[c] = "exit" => completed >= NrCpus \/ step[c] >= MaxSteps
StayReason == \A c \in Cpus : pc[c] \in Inside => completed < NrCpus /\ step[c] < MaxSteps

IInv ==
    /\ TypeOK
    /\ VotesTogether
    /\ SameStep
    /\ ExitReason
    /\ StayReason
    /\ ExitAgreement

\* The invariant holds initially.
LEMMA InitIInv == Init => IInv
  BY NrCpusAssumption
     DEF Init, IInv, TypeOK, Places, VotesTogether, Voting, SameStep, StepOf, ExitReason,
         StayReason, Inside, ExitAgreement

\* Every step of every thread, and both barriers, preserve it.
LEMMA NextIInv == IInv /\ [Next]_syncVars => IInv'
<1> USE NrCpusAssumption, MaxStepsAssumption
       DEF Cpus, TypeOK, Places, Voting, StepOf, Inside, Waiting
<1>1. SUFFICES ASSUME IInv, [Next]_syncVars PROVE IInv'
  OBVIOUS
<1>2. ASSUME NEW c \in Cpus, Boot(c) PROVE IInv'
  BY <1>1, <1>2 DEF Boot, IInv, VotesTogether, SameStep, ExitReason, StayReason, ExitAgreement
<1>10. ASSUME NEW c \in Cpus, Abort(c) PROVE IInv'
  BY SMTT(20), <1>1, <1>10 DEF Abort, IInv, VotesTogether, SameStep, ExitReason, StayReason, ExitAgreement
<1>3. ASSUME NEW c \in Cpus, LoopTest(c) PROVE IInv'
  <2>1. TypeOK' BY <1>1, <1>3 DEF LoopTest, IInv
  <2>2. VotesTogether' BY <1>1, <1>3 DEF LoopTest, IInv, VotesTogether
  <2>3. step'[c] = StepOf(c) /\ pc'[c] \in {"work", "exit"}
    BY <1>1, <1>3 DEF LoopTest, IInv
  <2>4. \A d \in Cpus : d # c => step'[d] = step[d] /\ pc'[d] = pc[d]
    BY <1>1, <1>3 DEF LoopTest, IInv
  <2>5. SameStep'
    <3>1. ASSUME NEW d \in Cpus PROVE StepOf(d)' = StepOf(d)
      <4>1. CASE d = c BY <2>3, <4>1
      <4>2. CASE d # c BY <2>4, <4>2
      <4> QED BY <4>1, <4>2
    <3> QED BY <1>1, <3>1 DEF IInv, SameStep
  <2>6. ExitReason' /\ StayReason'
    BY <1>1, <1>3, <2>3, <2>4 DEF LoopTest, IInv, ExitReason, StayReason
  <2>7. ExitAgreement'
    <3>1. SUFFICES ASSUME NEW a \in Cpus, NEW b \in Cpus, pc'[a] = "exit", pc'[b] \in Waiting
                   PROVE FALSE
      BY DEF ExitAgreement
    <3>2. a # b BY <3>1
    <3>3. pc'[b] \notin Voting
      BY <1>1, <1>3, <2>2, <3>1 DEF VotesTogether
    <3>4. completed' < NrCpus /\ step'[b] < MaxSteps
      BY <2>6, <3>1, <3>3 DEF StayReason
    <3>5. completed' >= NrCpus \/ step'[a] >= MaxSteps
      BY <2>6, <3>1 DEF ExitReason
    <3>6. step'[a] = step'[b]
      BY <2>5, <3>1 DEF SameStep
    <3> QED BY <3>4, <3>5, <3>6, <2>1
  <2> QED BY <2>1, <2>2, <2>5, <2>6, <2>7 DEF IInv
<1>4. ASSUME NEW c \in Cpus, Alone(c) PROVE IInv'
  <2>1. \A d \in Cpus : d = c BY <1>4 DEF Alone
  <2>2. TypeOK' BY <1>1, <1>4 DEF Alone, IInv
  <2> QED BY <1>1, <1>4, <2>1, <2>2
          DEF Alone, IInv, VotesTogether, SameStep, ExitReason, StayReason, ExitAgreement
<1>5. ASSUME NEW c \in Cpus, Arrive(c) PROVE IInv'
  <2>1. TypeOK' BY <1>1, <1>5 DEF Arrive, IInv
  <2>2. \A d \in Cpus : pc[d] # "exit"
    BY <1>1, <1>5 DEF Arrive, IInv, ExitAgreement
  <2>3. completed' < NrCpus
    BY <1>1, <1>5 DEF Arrive, IInv, StayReason
  <2> QED BY <1>1, <1>5, <2>1, <2>2, <2>3
          DEF Arrive, IInv, VotesTogether, SameStep, ExitReason, StayReason, ExitAgreement
<1>6. ASSUME NEW c \in Cpus, Count(c) PROVE IInv'
  <2>1. TypeOK' BY <1>1, <1>6 DEF Count, IInv
  <2>2. \A d \in Cpus : pc[d] \in Voting
    BY <1>1, <1>6 DEF Count, IInv, VotesTogether
  <2> QED BY SMTT(20), <1>1, <1>6, <2>1, <2>2
          DEF Count, IInv, VotesTogether, SameStep, ExitReason, StayReason, ExitAgreement
<1>7. CASE Barrier0
  BY <1>1, <1>7
     DEF Barrier0, IInv, VotesTogether, SameStep, ExitReason, StayReason, ExitAgreement
<1>8. CASE Barrier1
  BY <1>1, <1>8
     DEF Barrier1, IInv, VotesTogether, SameStep, ExitReason, StayReason, ExitAgreement
<1>9. CASE UNCHANGED syncVars
  BY <1>1, <1>9
     DEF syncVars, IInv, VotesTogether, SameStep, ExitReason, StayReason, ExitAgreement
<1> QED BY <1>1, <1>2, <1>3, <1>4, <1>5, <1>6, <1>7, <1>8, <1>9, <1>10 DEF Next

LEMMA Invariance == Spec => []IInv
  BY InitIInv, NextIInv, PTL DEF Spec

\* No thread leaves the simulation loop while another has still to pass one of the
\* barriers of synchronize_cpus, whatever the CPUs vote.
THEOREM ExitAgreementHolds == Spec => []ExitAgreement
  BY Invariance, PTL DEF IInv

\* The threads never simulate two different steps at the same time.
THEOREM LockstepHolds == Spec => []Lockstep
<1>1. IInv => Lockstep
  BY DEF IInv, SameStep, StepOf, Lockstep, Waiting
<1> QED BY Invariance, <1>1, PTL

=============================================================================
