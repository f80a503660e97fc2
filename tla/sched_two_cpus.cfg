\* Two CPUs: load balancing against ticks, wake-ups and context switches.
CONSTANTS
    NrCpus = 2
    MaxSteps = 14
    Quantum = 2
    NrTasks = 4
    LbPeriod = 2
    MaxTrials = 5
    Configurations <- TwoCpuConfigurations
SPECIFICATION FairSpec
INVARIANTS
    RunnableCount
    NoAbort
    BalancingNeverMissed
    LockOrder
    MigrationImproves
    RealTimeExact
    NoLostPreemption
    StopsWhenDone
PROPERTIES
    SyncSpec
    AllTasksComplete
    Termination
