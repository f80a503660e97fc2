\* One CPU, RR: an I/O phase of length zero.
CONSTANTS
    NrCpus = 1
    MaxSteps = 8
    Quantum = 2
    NrTasks = 1
    LbPeriod = 2
    MaxTrials = 5
    Configurations <- ZeroIoConfigurations
SPECIFICATION Spec
INVARIANTS
    NoTaskLost
