SPECIFICATION Spec
CONSTANTS
    PortCount = 3
    Attached <- ThreePorts
    MaxDisks = 2
    Capacity <- CapacityThree
    FlushSupported <- FlushFirst
    Sectors = {0, 1}
    Lba28Sectors = 1
    Lba48 <- Lba48Three
    WordSize = 4
    Values = {v1, v2}
    None = None
    LateAnswers = FALSE
SYMMETRY ValueSymmetry
INVARIANTS TypeOK WriteIntegrity ReadIntegrity FlushDurable DiskTable
PROPERTIES ErrorIsFinal ImplementsBlockDisk
