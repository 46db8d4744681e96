SPECIFICATION Spec
CONSTANTS
    x = x
    y = y
    z = z
    t = t
    Names = {x, y, z, t}
    NoName = NoName
    NeedsLong = {x, y}
    Lossy = {x, y}
    Text <- MCText
    Short <- MCShort
    Sum <- MCSum
    MaxNumber = 2
    Slots = 6
    PerSector = 2
    Mishaps = 2
INVARIANTS ListedIsFound NoOrphan
PROPERTIES ImplementsNameTable
