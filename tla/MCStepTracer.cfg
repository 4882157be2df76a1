SPECIFICATION Spec
CONSTANTS
    Program <- MCProgram
    IntEntry = 2
    Cell <- MCCell
    Bytes <- MCBytes
    Size = 6
    MinSpaces = 4
    MaxCalls = 12
    MaxCommands = 4
INVARIANTS TypeOK TraceWhole SoundTarget
PROPERTIES HeldIsReleased
CHECK_DEADLOCK FALSE
