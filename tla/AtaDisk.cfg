SPECIFICATION FairSpec
CONSTANTS
    Sectors <- DiskSectors
    MaxCount = 2
    Lba28Sectors = 2
    ByteSize = 3
    LbaSize = 5
    Pages <- DiskPages
    Values = {v1, v2}
INVARIANTS TypeOK Reachable
PROPERTIES CallReturns ImplementsSectorDevice
