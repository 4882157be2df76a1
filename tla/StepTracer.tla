----------------------------- MODULE StepTracer -----------------------------
(***************************************************************************)
(* The step tracer (StepTracer/StepTracer.cpp): it has the Z80 wait in     *)
(* every access, records the accesses in a ring that the host empties,     *)
(* holds the Z80 while the ring has little room, and compares each access  *)
(* with what an emulated Z80 does that runs on a copy of the memory.       *)
(*                                                                         *)
(* The Z80 and the Pi's main loop interleave between its calls.  Of the    *)
(* bus access layer this takes what BusAccess shows of it: callbacks of a  *)
(* grant run while the Z80 is off the bus, and a RESET asked for in them   *)
(* is on the wire before it comes back, or after it when another socket's  *)
(* IRQ was pending.  The machine may interrupt the Z80, and other clients  *)
(* may write into its memory in grants of their own.                       *)
(***************************************************************************)
EXTENDS Naturals, Sequences, FiniteSets

CONSTANTS
    Program,      \* instructions: [cycles |-> their accesses after the fetch, next |-> address]
    IntEntry,     \* the Z80's response to an interrupt, as an instruction of Program
    Cell,         \* addresses of data in the memory
    Bytes,        \* what another client may write into a cell
    Size,         \* NUM_TRACE_VALS
    MinSpaces,    \* MIN_SPACES_IN_TRACES
    MaxCalls,     \* bound on the accesses of a trace
    MaxCommands   \* bound on the commands of the host other than reading the trace,
                  \* the interrupts and the block writes of other clients

NONE == [kind |-> "NONE", addr |-> 0, data |-> 0]
Kinds == {"M1", "RD", "WR", "IOWR", "INTACK"}
Access == [kind : Kinds, addr : Nat, data : Nat]
IsMemory(c) == c.kind \notin {"IOWR", "INTACK"}

ASSUME SizeAssumption ==
    /\ MinSpaces \in Nat /\ Size \in Nat /\ 4 <= MinSpaces /\ MinSpaces < Size
    /\ MaxCalls \in Nat /\ MaxCommands \in Nat /\ Bytes \subseteq Nat

ASSUME ProgramAssumption ==
    /\ 0 \in DOMAIN Program /\ DOMAIN Program \subseteq Nat
    /\ \A pc \in DOMAIN Program :
          /\ Program[pc].next \in DOMAIN Program
          /\ Program[pc].cycles \in Seq(Access)
          /\ \A i \in DOMAIN Program[pc].cycles :
                Program[pc].cycles[i].kind = "RD" => Program[pc].cycles[i].addr \in Cell

\* No instruction leads to the response to an interrupt, which goes on to memory (it
\* pushes the program counter) and acknowledges one interrupt only.
ASSUME InterruptAssumption ==
    /\ IntEntry \in DOMAIN Program \ {0}
    /\ Program[IntEntry].cycles # <<>> /\ IsMemory(Program[IntEntry].cycles[1])
    /\ \A pc \in DOMAIN Program :
          /\ Program[pc].next # IntEntry
          /\ \A i \in DOMAIN Program[pc].cycles : Program[pc].cycles[i].kind # "INTACK"

\* No instruction of the Z80 accesses more than one port.
ASSUME PortAssumption ==
    \A pc \in DOMAIN Program : \A i, j \in DOMAIN Program[pc].cycles :
        ~IsMemory(Program[pc].cycles[i]) /\ ~IsMemory(Program[pc].cycles[j]) => i = j

\* An instruction that writes a cell does not access it again.
ASSUME CellAssumption ==
    \A pc \in DOMAIN Program : \A i, j \in DOMAIN Program[pc].cycles :
        LET c == Program[pc].cycles[i]
            d == Program[pc].cycles[j]
        IN i < j /\ c.kind = "WR" /\ d.kind \in {"RD", "WR"} => c.addr # d.addr

VARIABLES
    z80,        \* the Z80: instruction, accesses of it done, memory
    cycle,      \* its access in progress, or NONE
    wait,       \* WAIT is low
    asserted,   \* _waitAsserted: the Pi has seen it
    reset,      \* RESET: "NO", "ASKED" or "LOW"
    socket,     \* the tracer's bus socket: enabled, waits, hold (holdInWaitReq)
    mode,       \* _recordAll, _compareToEmulated, _isActive, _primeFromMemPending
    holding,    \* _recordIsHoldingTarget
    traces,     \* traceCount of the entries of the ring
    stats,      \* isrCalls and whether there were errors
    emu,        \* the emulated Z80: instruction, memory, the accesses of the last
                \* instruction (_stepCycles) and how many the Z80 has made (_stepCyclePos)
    commands,   \* commands of the host so far
    read, made,           \* history: number of the next entry the host should read, the
                          \* accesses the Z80 has begun with the waits on in this trace,
    missed, torn,         \* one of them nobody saw, a RESET found the memories different,
    disturbed             \* an interrupt, another client's write or a late RESET since

cpu    == <<z80, cycle, wait, asserted, reset>>
tracer == <<socket, mode, traces, holding, stats, emu>>
history == <<read, made, missed, torn, disturbed>>
vars   == <<cpu, tracer, commands, history>>

(*------------------------------ instructions -----------------------------*)
Fetch  == [kind |-> "M1", addr |-> 0, data |-> 0]
First(pc) == [Fetch EXCEPT !.kind = IF pc = IntEntry THEN "INTACK" ELSE @, !.addr = pc]
Accesses(pc) == <<First(pc)>> \o Program[pc].cycles
\* The access with the data that is on the bus
Seen(c, mem) == IF c.kind = "RD" THEN [c EXCEPT !.data = mem[c.addr]] ELSE c
Stored(c, mem) == IF c.kind = "WR" THEN [mem EXCEPT ![c.addr] = c.data] ELSE mem

\* Z80Execute: a whole instruction at a time, on the tracer's copy of the memory.
MemoryAfter(acc, mem) ==
    [a \in Cell |-> IF \E i \in DOMAIN acc : acc[i].kind = "WR" /\ acc[i].addr = a
                    THEN (CHOOSE c \in {acc[i] : i \in DOMAIN acc} : c.kind = "WR" /\ c.addr = a).data
                    ELSE mem[a]]
Execute(e) ==
    LET acc == Accesses(e.pc)
    IN [pc |-> Program[e.pc].next, mem |-> MemoryAfter(acc, e.mem),
        steps |-> [i \in DOMAIN acc |-> Seen(acc[i], e.mem)], pos |-> 0]

(*-------------------------------- the Z80 --------------------------------*)
\* It does not start an access while RESET is low.
StartCycle ==
    /\ cycle = NONE /\ reset # "LOW"
    /\ stats.calls < MaxCalls
    /\ cycle' = Seen(Accesses(z80.pc)[z80.done + 1], z80.mem)
    /\ wait' = socket.waits
    /\ made' = IF socket.waits /\ mode.active THEN made + 1 ELSE made
    /\ UNCHANGED <<z80, asserted, reset, tracer, commands, read, missed, torn, disturbed>>

\* An access ends once it does not have to wait.
CycleEnds ==
    /\ cycle # NONE /\ ~wait
    /\ LET last == z80.done + 1 = Len(Accesses(z80.pc))
       IN z80' = [pc   |-> IF last THEN Program[z80.pc].next ELSE z80.pc,
                  done |-> IF last THEN 0 ELSE z80.done + 1,
                  mem  |-> Stored(cycle, z80.mem)]
    /\ cycle' = NONE
    /\ UNCHANGED <<wait, asserted, reset, tracer, commands, history>>

\* Between two instructions it takes an interrupt: the machine's heartbeat has raised IRQ
\* (McZXSpectrum). The emulated Z80 is never told (Z80INT).
Interrupt ==
    /\ cycle = NONE /\ reset # "LOW"
    /\ z80.done = 0 /\ z80.pc # IntEntry
    /\ z80' = [z80 EXCEPT !.pc = IntEntry]
    /\ disturbed' = TRUE
    /\ UNCHANGED <<cycle, wait, asserted, reset, tracer, read, made, missed, torn>>

\* A grant of another client, whose callback writes memory and may ask for a RESET
\* (McManager::targetExec). The emulated Z80's copy of the memory is left as it is.
BlockWrite ==
    /\ cycle = NONE /\ reset # "LOW"
    /\ \E a \in Cell, v \in Bytes : z80' = [z80 EXCEPT !.mem = [@ EXCEPT ![a] = v]]
    /\ reset' \in {reset, "ASKED", "LOW"}
    /\ disturbed' = TRUE
    /\ UNCHANGED <<cycle, wait, asserted, tracer, read, made, missed, torn>>

(*----------------------------- the wait system ---------------------------*)
\* waitRelease: the Z80 goes on, whether the access has been looked at or not.
\* Mutant: the line is let go of and the flag is left.
WaitRelease_Flagged == wait' = FALSE /\ UNCHANGED asserted
WaitRelease == wait' = FALSE /\ asserted' = FALSE

\* handleWaitInterrupt, comparison with the emulated Z80
Due(e) == e.pos = Len(e.steps)
Compare(c) ==
    LET e == IF Due(emu) THEN Execute(emu) ELSE emu
    IN /\ emu'   = IF mode.compare THEN [e EXCEPT !.pos = @ + 1] ELSE emu
       /\ stats' = [calls |-> stats.calls + 1,
                    errors |-> stats.errors \/ (mode.compare /\ e.steps[e.pos + 1] # c)]

\* handleWaitInterrupt, recording
\* Mutant: only a ring without any room holds the Z80.
Short_Full(n) == n = Size - 1
Short(n) == Size - n < MinSpaces
Record ==
    IF ~mode.record \/ Len(traces) = Size - 1 THEN UNCHANGED <<traces, holding, socket>>
    ELSE /\ traces' = Append(traces, stats.calls)
         /\ IF Short(Len(traces')) THEN holding' = TRUE /\ socket' = [socket EXCEPT !.hold = TRUE]
                                   ELSE UNCHANGED <<holding, socket>>

\* serviceWaitActivity: a new wait
NewWait ==
    /\ wait /\ ~asserted
    /\ asserted' = TRUE
    /\ IF socket.enabled /\ mode.active
       THEN Record /\ Compare(cycle)
       ELSE UNCHANGED <<socket, traces, holding, stats, emu>>
    /\ UNCHANGED <<z80, cycle, wait, reset, mode, commands, history>>

\* serviceWaitActivity: a wait ends, unless the Z80 is held in an access to memory; a
\* RESET that was asked for begins, unless it is the turn of another socket's signal.
EndWait ==
    /\ asserted /\ ~(socket.hold /\ IsMemory(cycle))
    /\ WaitRelease
    /\ reset' \in IF reset = "ASKED" THEN {"ASKED", "LOW"} ELSE {reset}
    /\ UNCHANGED <<z80, cycle, tracer, commands, history>>

\* With no waits on memory a RESET need not wait for one.
ResetStart ==
    /\ reset = "ASKED" /\ ~socket.waits /\ ~asserted
    /\ reset' = "LOW"
    /\ UNCHANGED <<z80, cycle, wait, asserted, tracer, commands, history>>

Cleared == traces' = <<>> /\ stats' = [calls |-> 0, errors |-> FALSE]

\* RESET is over: the tracer hears of it and begins a new trace (resetComplete).
\* Mutant: the rest of the instruction that RESET has struck is still expected.
RestOfSteps_Kept == [steps |-> emu.steps, pos |-> emu.pos]
RestOfSteps == [steps |-> <<>>, pos |-> 0]
ResetEnd ==
    /\ reset = "LOW" /\ cycle = NONE
    /\ reset' = "NO"
    /\ z80' = [z80 EXCEPT !.pc = 0, !.done = 0]
    /\ IF socket.enabled
       THEN /\ Cleared
            /\ mode' = [mode EXCEPT !.active = TRUE]
            /\ emu' = [emu EXCEPT !.pc = 0, !.steps = RestOfSteps.steps, !.pos = RestOfSteps.pos]
            /\ read' = 0 /\ made' = 0
            /\ missed' = FALSE /\ torn' = (emu.mem # z80.mem) /\ disturbed' = FALSE
       ELSE UNCHANGED <<traces, stats, mode, emu, history>>
    /\ UNCHANGED <<cycle, wait, asserted, socket, holding, commands>>

\* A grant of the bus, to the tracer or to a client that is none of its business: the
\* memory is copied, the waits are switched on and a RESET is asked for. It is driven
\* before the Z80 comes back unless the IRQ of another socket has been pending.
Granted ==
    /\ cycle = NONE /\ reset # "LOW"
    /\ socket.enabled /\ mode.prime
    /\ mode' = [mode EXCEPT !.prime = FALSE]
    /\ emu' = [emu EXCEPT !.mem = z80.mem]
    /\ socket' = [socket EXCEPT !.waits = TRUE, !.hold = FALSE]
    /\ reset' \in {"LOW", "ASKED"}
    /\ disturbed' = (disturbed \/ reset' # "LOW")
    /\ UNCHANGED <<z80, cycle, wait, asserted, traces, holding, stats, commands,
                   read, made, missed, torn>>

(*-------------------------------- the host -------------------------------*)
\* start: what is wanted, and a bus request. The hosts of the repository stop the tracer
\* before they start it again.
Start(record, compare) ==
    /\ ~socket.enabled
    /\ socket' = [socket EXCEPT !.enabled = TRUE]
    /\ mode' = [mode EXCEPT !.record = record, !.compare = compare, !.prime = TRUE]
    /\ UNCHANGED <<cpu, traces, holding, stats, emu, history>>

Stop ==
    /\ socket.enabled
    /\ socket' = [enabled |-> FALSE, waits |-> FALSE, hold |-> FALSE]
    /\ mode' = [mode EXCEPT !.active = FALSE]
    /\ Cleared /\ read' = 0 /\ made' = 0
    /\ WaitRelease
    /\ UNCHANGED <<z80, cycle, reset, holding, emu, missed, torn, disturbed>>

ResetTarget ==
    /\ reset' = IF reset = "NO" THEN "ASKED" ELSE reset
    /\ UNCHANGED <<z80, cycle, wait, asserted, tracer, history>>

Command ==
    /\ commands < MaxCommands
    /\ commands' = commands + 1
    /\ \/ \E record, compare \in BOOLEAN : Start(record, compare)
       \/ Stop \/ ResetTarget \/ Interrupt \/ BlockWrite

\* getTraceBin takes all there is, getTraceLong one entry; then the Z80 may go on.
\* Mutant: the room that has to be there is the whole ring.
Roomy_Whole(n) == Size - n > Size
Roomy(n) == Size - n > MinSpaces
GetTrace(n) ==
    /\ traces # <<>>
    /\ traces' = SubSeq(traces, n + 1, Len(traces))
    /\ read' = traces[n] + 1
    /\ IF holding /\ Roomy(Len(traces'))
       THEN /\ holding' = FALSE /\ socket' = [socket EXCEPT !.hold = FALSE]
            /\ WaitRelease
            /\ missed' = (missed \/ (wait /\ ~asserted /\ mode.active))
       ELSE UNCHANGED <<holding, socket, wait, asserted, missed>>
    /\ UNCHANGED <<z80, cycle, reset, mode, stats, emu, commands, made, torn, disturbed>>
GetTraceBin  == GetTrace(Len(traces))
GetTraceLong == GetTrace(1)

(*------------------------------ specification ----------------------------*)
Init ==
    /\ z80 \in [pc : {0}, done : {0}, mem : [Cell -> {0}]]
    /\ cycle = NONE /\ wait = FALSE /\ asserted = FALSE /\ reset = "NO"
    /\ socket = [enabled |-> FALSE, waits |-> FALSE, hold |-> FALSE]
    /\ mode = [record |-> FALSE, compare |-> FALSE, active |-> FALSE, prime |-> FALSE]
    /\ holding = FALSE /\ traces = <<>> /\ stats = [calls |-> 0, errors |-> FALSE]
    /\ emu = [pc |-> 0, mem |-> z80.mem, steps |-> <<>>, pos |-> 0]
    /\ commands = 0
    /\ read = 0 /\ made = 0 /\ missed = FALSE /\ torn = FALSE /\ disturbed = FALSE

Next ==
    \/ StartCycle \/ CycleEnds \/ NewWait \/ EndWait \/ ResetStart \/ ResetEnd \/ Granted
    \/ Command \/ GetTraceBin \/ GetTraceLong

\* The Z80 runs, the main loop goes round, and the host reads the trace as long as there
\* is one.
Fairness == /\ WF_vars(StartCycle) /\ WF_vars(NewWait) /\ WF_vars(EndWait) /\ WF_vars(CycleEnds)
            /\ WF_vars(ResetEnd) /\ WF_vars(GetTraceLong)

Spec == Init /\ [][Next]_vars /\ Fairness

(*------------------------------- properties ------------------------------*)
\* Type correctness; a hold is the tracer's own.
TypeOK ==
    /\ z80 \in [pc : DOMAIN Program, done : Nat, mem : [Cell -> Nat]]
    /\ z80.done <= Len(Program[z80.pc].cycles)
    /\ cycle \in Access \cup {NONE} /\ (wait => cycle # NONE)
    /\ wait \in BOOLEAN /\ asserted \in BOOLEAN /\ (asserted => wait)
    /\ reset \in {"NO", "ASKED", "LOW"}
    /\ socket \in [enabled : BOOLEAN, waits : BOOLEAN, hold : BOOLEAN]
    /\ mode \in [record : BOOLEAN, compare : BOOLEAN, active : BOOLEAN, prime : BOOLEAN]
    /\ traces \in Seq(0..MaxCalls) /\ Len(traces) < Size
    /\ stats \in [calls : 0..MaxCalls, errors : BOOLEAN]
    /\ emu \in [pc : DOMAIN Program, mem : [Cell -> Nat], steps : Seq(Access), pos : Nat]
    /\ emu.pos <= Len(emu.steps)
    /\ holding \in BOOLEAN /\ (socket.hold => holding) /\ commands \in 0..MaxCommands
    /\ read \in Nat /\ made \in Nat
    /\ missed \in BOOLEAN /\ torn \in BOOLEAN /\ disturbed \in BOOLEAN

\* What the host reads are the accesses that the tracer was told of, without a gap: the
\* ring never is too full for one, although the hold ends no access but one to memory.
\* And these are all the accesses that the Z80 has made with the waits on since the trace
\* began, the one not looked at yet aside, until getTrace lets go of one unseen (missed).
\* (hwDebugTraceAll.py counts the gaps)
TraceWhole ==
    mode.active /\ mode.record =>
        /\ read + Len(traces) = stats.calls
        /\ \A i \in DOMAIN traces : traces[i] = read + i - 1
        /\ ~missed => made = stats.calls + IF wait /\ ~asserted THEN 1 ELSE 0

\* Which flags go together: no waits and no traces without a trace in progress, the
\* access is that of the instruction, and one that is not counted yet can be.
NextAccess == Accesses(z80.pc)[z80.done + 1]
FlagsAgree ==
    /\ (mode.active => socket.enabled) /\ (socket.waits => socket.enabled)
    /\ (wait => socket.waits) /\ (socket.hold => socket.waits)
    /\ (mode.prime => ~socket.waits) /\ (~socket.waits => traces = <<>>)
    /\ (cycle # NONE => cycle.kind = NextAccess.kind)
    /\ (wait /\ ~asserted => stats.calls < MaxCalls)

\* There is room for the accesses that the Z80 can still make: at the limit it is held
\* in an access to memory, or goes on to one; but an interrupt may come in between after
\* one to a port.
Limit == Size - MinSpaces + 1
Held  == asserted /\ IsMemory(cycle)
PortCounted == cycle # NONE /\ ~IsMemory(cycle) /\ (wait => asserted)
MemoryNext  == \/ cycle = NONE /\ IsMemory(NextAccess)
               \/ cycle # NONE /\ IsMemory(cycle) /\ wait /\ ~asserted
AckCounted  == PortCounted /\ cycle.kind = "INTACK"
AckNext     == \/ cycle = NONE /\ NextAccess.kind = "INTACK"
               \/ cycle # NONE /\ cycle.kind = "INTACK" /\ wait /\ ~asserted
RoomLeft ==
    mode.active /\ mode.record =>
        /\ ~socket.hold => Len(traces) < Limit
        /\ socket.hold => Len(traces) <= Limit + 2
        /\ socket.hold /\ Len(traces) = Limit + 2 => Held
        /\ socket.hold /\ Len(traces) = Limit + 1 =>
              Held \/ AckCounted \/ (MemoryNext /\ z80.done # 0)
        /\ socket.hold /\ Len(traces) = Limit => Held \/ PortCounted \/ MemoryNext \/ AckNext

\* The inductive invariant behind TraceWhole.
TracerInv == TypeOK /\ FlagsAgree /\ RoomLeft /\ TraceWhole

\* A target whose hardware is sound is never reported, as long as no access escapes the
\* tracer, no RESET strikes between what the emulated Z80 has written and the Z80, and
\* since the RESET that began the trace there has been no interrupt and no write of
\* another client. The program reads no port, and what it writes is the same after
\* every RESET (Z80RESET leaves the registers of the emulated Z80 as they are).
SoundTarget == stats.errors => missed \/ torn \/ disturbed

\* What the first n of the accesses acc make of the memory m0 is m.
Writes(c, a) == c.kind = "WR" /\ c.addr = a
Wrote(acc, n, m0, m) ==
    \A a \in Cell : \/ \E i \in 1..n : Writes(acc[i], a) /\ m[a] = acc[i].data
                    \/ m[a] = m0[a] /\ \A i \in 1..n : ~Writes(acc[i], a)

\* The accesses of the instruction that have been compared, and what the emulated Z80
\* makes of it: it is an instruction ahead of a memory m0 on which the Z80 has begun.
Compared  == z80.done + IF cycle # NONE /\ (wait => asserted) THEN 1 ELSE 0
Comparing == /\ mode.active /\ mode.compare /\ socket.waits /\ reset # "LOW"
             /\ ~missed /\ ~torn /\ ~disturbed
Ahead(m0) ==
    LET acc == Accesses(z80.pc)
    IN /\ Wrote(acc, z80.done, m0, z80.mem) /\ Wrote(acc, Len(acc), m0, emu.mem)
       /\ emu.steps = [i \in DOMAIN acc |-> Seen(acc[i], m0)]
EmuAgrees ==
    Comparing =>
        /\ Compared = 0 => Due(emu) /\ emu.pc = z80.pc /\ emu.mem = z80.mem
        /\ Compared > 0 => /\ emu.pos = Compared /\ emu.pc = Program[z80.pc].next
                           /\ \E m0 \in [Cell -> Nat] : Ahead(m0)

\* The inductive invariant behind SoundTarget.
BusAgrees == /\ reset = "LOW" => ~wait
             /\ cycle # NONE => cycle = Seen(NextAccess, z80.mem)
EmuInv == BusAgrees /\ EmuAgrees /\ SoundTarget

\* A Z80 that is held for want of room goes on in the end if the host reads the trace.
HeldIsReleased == socket.hold ~> ~socket.hold
=============================================================================
