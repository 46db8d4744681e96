SPECIFICATION HSpec
CONSTANTS
    a = a
    b = b
    Rows = 4
    Columns = 2
    Chars <- TwoChars
    Return = Return
    Newline = Newline
    Other = Other
    Names <- NoNames
    NoName = NoName
    NoFile = NoFile
    Directory = Directory
    Contents = {}
INVARIANTS TypeOK Shape
PROPERTIES ImplementsText
