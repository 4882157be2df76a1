SPECIFICATION Spec
CONSTANTS
    Addr <- MCAddr
    Byte <- MCByte
    MaxBlocks = 2
    SetRegsAddr = 1
    Stored = {1}
    MaxCommands = 3
    Lax = {}
INVARIANTS TypeOK AccessOnce MirrorTrue
PROPERTIES Programmed ProgramDone
CHECK_DEADLOCK FALSE
