\* my_write sets the size of the file even when it was larger.
CONSTANTS
    Names = {f, g}
    NumNodes = 3
    NumEntries = 2
    NumBits = 6
    DiskBlocks = 3
    FirstData = 1
    BlockSize = 2
    MaxSize = 3
    MaxWrite = 2
    MaxOpen = 1
SPECIFICATION Spec
PROPERTIES
    WriteNeverShrinks
