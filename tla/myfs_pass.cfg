\* Two files on three data blocks, with unlink, segmentation faults and remounts.
CONSTANTS
    Names = {f, g}
    NumNodes = 3
    NumEntries = 2
    NumBits = 6
    DiskBlocks = 3
    FirstData = 1
    BlockSize = 2
    MaxSize = 3
    MaxWrite = 2
    MaxOpen = 1
SPECIFICATION Spec
SYMMETRY NameSymmetry
INVARIANTS
    TypeOK
    BlocksExclusive
    QuotaExact
    WriteThrough
PROPERTIES
    WritesExact
    ImplementsFileStore
