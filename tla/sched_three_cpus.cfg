\* Three CPUs: two migrations under way while a third CPU looks on.
CONSTANTS
    NrCpus = 3
    MaxSteps = 4
    Quantum = 2
    NrTasks = 7
    LbPeriod = 2
    MaxTrials = 2
    Configurations <- ThreeCpuConfigurations
SPECIFICATION Spec
INVARIANTS
    TypeOK
    OnePlace
    LockOrder
    MigrationImproves
