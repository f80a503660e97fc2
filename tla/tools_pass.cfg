\* The stopwatch on two clocks, the LED driver with two processes, and archives of up to
\* two files.  The programs end: an archiver that is done, a stopwatch without reloj.conf.
CONSTANTS
    short = short
    long = long
    Clocks = {realtime, cputime}
    NoFile = NoFile
    MaxTime = 2
    Procs = {p1, p2}
    Leds = {num}
    MsgLen = 2
    BufLen = 4
    MaxRead = 3
    MaxPtr = 4
    MaxCount = 2
    Files = {short, long}
    NameLen <- NameLengths
    IntSize = 1
    EntrySize = 4
    Bytes = {x, EOF}
    EOF = EOF
    MaxLen = 2
    MaxFiles = 2
SPECIFICATION Spec
CHECK_DEADLOCK FALSE
INVARIANTS
    WatchTypeOK
    MeasuresFirstRun
    LedTypeOK
    OneOpener
    MessageInOrder
    UsersPinModule
    TarTypeOK
    RoundTrip
    NoHalfArchive
