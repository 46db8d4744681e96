SPECIFICATION Spec
CONSTANTS
    PortCount = 1
    Attached <- OnePort
    MaxDisks = 1
    Capacity <- CapacityOne
    FlushSupported <- FlushOne
    Sectors = {0, 1}
    Lba28Sectors = 2
    Lba48 <- Lba48One
    WordSize = 16
    Values = {v1, v2}
    None = None
    LateAnswers = TRUE
SYMMETRY ValueSymmetry
INVARIANTS WriteIntegrity
