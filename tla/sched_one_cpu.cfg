\* One CPU, all seven scheduling classes: queues, context switches, accounting.
CONSTANTS
    NrCpus = 1
    MaxSteps = 14
    Quantum = 2
    NrTasks = 3
    LbPeriod = 2
    MaxTrials = 5
    Configurations <- OneCpuConfigurations
SPECIFICATION Spec
INVARIANTS
    OnePlace
    RealTimeExact
    WorkConserved
    NoLostPreemption
    QuantumRespected
    NoOverdueEvent
