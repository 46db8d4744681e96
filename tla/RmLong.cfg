SPECIFICATION Spec
CONSTANTS
    Names <- MCNames
    MaxPath = 6
    StackFrames = 4
    MaxNodes = 4
    MaxDepth = 2
INVARIANTS StackSuffices
