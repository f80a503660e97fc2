\* Two CPUs, a task migrated before the receiving CPU has started.
CONSTANTS
    NrCpus = 2
    MaxSteps = 8
    Quantum = 2
    NrTasks = 3
    LbPeriod = 2
    MaxTrials = 5
    Configurations <- EarlyConfigurations
SPECIFICATION Spec
INVARIANTS
    RealTimeExact
