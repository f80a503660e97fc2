\* A file that is deleted before its creation has been handled.
CONSTANTS
    NumDaemons = 2
    Files = {f}
    Bytes = {a, b}
    MaxLen = 2
    MaxInodes = 2
    MaxChanges = 4
SPECIFICATION Spec
CHECK_DEADLOCK FALSE
PROPERTIES
    EndsOnlyWhenAsked
