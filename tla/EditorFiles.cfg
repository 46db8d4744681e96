SPECIFICATION HSpec
CONSTANTS
    a = a
    b = b
    Rows = 2
    Columns = 2
    Chars <- OneChar
    Return = Return
    Newline = Newline
    Other = Other
    Names = {f, g}
    NoName = NoName
    NoFile = NoFile
    Directory = Directory
    Contents <- SomeContents
SYMMETRY Swap
INVARIANT FlagsTell
PROPERTIES OpenIsExact SaveIsExact AskedFirst
