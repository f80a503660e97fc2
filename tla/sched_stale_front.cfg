\* One CPU, preemptive PRIO: TF_INSERT_FRONT on a task that sleeps.
CONSTANTS
    NrCpus = 1
    MaxSteps = 8
    Quantum = 2
    NrTasks = 3
    LbPeriod = 2
    MaxTrials = 5
    Configurations <- FrontConfigurations
SPECIFICATION Spec
PROPERTIES
    WakesBehindEquals
