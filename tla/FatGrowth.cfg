SPECIFICATION Spec
CONSTANTS
    LastCluster = 5
    f1 = f1
    f2 = f2
    FatSectors = {f1, f2}
    FatOf <- TwoSectors
    EndOfChain = EndOfChain
    Info = Info
    NoSector = NoSector
    a = a
    b = b
    Names = {a, b}
    NoName = NoName
    Slots = 1
    Units = 2
    MaxSize = 3
    Leftover <- OldTable
    MaxCalls = 2
    Mishaps = 1
INVARIANTS SoundAfterLoss
CHECK_DEADLOCK FALSE
