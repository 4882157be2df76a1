SPECIFICATION Spec
CONSTANTS
    Addr <- MCAddr
    Program <- MCProgram
    Succ <- MCSucc
    After <- MCAfter
    ResetAddr = 0
    IsrAddr = 4
    MaxFast = 1
    BreakAddr = {1}
    Numbers = {1}
    Commands = {"targetTrackerOn","targetTrackerOff","stepInto","stepRun","stepOver","completeTargetProgram","ResetTarget","ProgramTarget","setFastBreakpoint","setBreakpoint","INTERRUPT"}
    Lax = {}
    MaxCommands = 2
INVARIANTS TypeOK RegistersShown MemoryAsNeeded StepsOne
PROPERTIES Transparent BreakpointStops OrdersTakeEffect
CHECK_DEADLOCK FALSE
