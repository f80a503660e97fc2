\* Two daemons, the second started when the first is there or after it has ended.
CONSTANTS
    NumDaemons = 2
    Files = {f}
    Bytes = {a, b}
    MaxLen = 2
    MaxInodes = 2
    MaxChanges = 4
SPECIFICATION FairSpec
CHECK_DEADLOCK FALSE
INVARIANTS
    TypeOK
    OneDaemon
    NoDifferenceForgotten
PROPERTIES
    EndsWhenAsked
