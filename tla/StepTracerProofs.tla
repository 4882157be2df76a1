-------------------------- MODULE StepTracerProofs --------------------------
(***************************************************************************)
(* The step tracer loses no access for want of room, and reports sound     *)
(* hardware only after the events that SoundTarget names: proofs for every *)
(* size of the ring and every program whose instructions access at most    *)
(* one port.                                                               *)
(***************************************************************************)
EXTENDS StepTracer, SequenceTheorems, TLAPS

-----------------------------------------------------------------------------
(* Instructions *)

\* The accesses of an instruction are its opcode fetch, or the acknowledgement of an
\* interrupt, and those of the program.
LEMMA AccessesType ==
    ASSUME NEW pc \in DOMAIN Program
    PROVE  /\ Accesses(pc) \in Seq(Access)
           /\ Len(Accesses(pc)) = Len(Program[pc].cycles) + 1
           /\ Accesses(pc)[1].kind = IF pc = IntEntry THEN "INTACK" ELSE "M1"
           /\ \A i \in 1..Len(Program[pc].cycles) : Accesses(pc)[i + 1] = Program[pc].cycles[i]
           /\ Len(Program[pc].cycles) \in Nat
<1>1. First(pc) \in Access /\ First(pc).kind = IF pc = IntEntry THEN "INTACK" ELSE "M1"
    BY ProgramAssumption DEF First, Fetch, Access, Kinds
<1>2. Program[pc].cycles \in Seq(Access)
    BY ProgramAssumption
<1>3. Accesses(pc) = <<First(pc)>> \o Program[pc].cycles
    BY DEF Accesses
<1> HIDE DEF Accesses, First
<1> QED
    BY <1>1, <1>2, <1>3

\* Only the response to an interrupt acknowledges one, and it goes on to memory.
LEMMA AckIsFirst ==
    ASSUME NEW pc \in DOMAIN Program, NEW d \in 0..Len(Program[pc].cycles),
           Accesses(pc)[d + 1].kind = "INTACK"
    PROVE  /\ d = 0 /\ pc = IntEntry /\ 1 < Len(Accesses(pc))
           /\ IsMemory(Accesses(pc)[2])
<1>0. Program[pc].cycles \in Seq(Access)
    BY ProgramAssumption
<1>1. d = 0
  <2> SUFFICES ASSUME d # 0 PROVE FALSE
      OBVIOUS
  <2>1. d \in 1..Len(Program[pc].cycles)
      BY AccessesType
  <2>2. d \in DOMAIN Program[pc].cycles /\ Accesses(pc)[d + 1] = Program[pc].cycles[d]
      BY <1>0, <2>1, AccessesType
  <2> QED
      BY <2>2, InterruptAssumption
<1>2. pc = IntEntry
  <2>1. Accesses(pc)[1].kind = "INTACK"
      BY <1>1
  <2> QED
      BY <2>1, AccessesType
<1>3. Program[pc].cycles # <<>> /\ IsMemory(Program[pc].cycles[1])
    BY <1>2, InterruptAssumption
<1>4. 1 \in 1..Len(Program[pc].cycles)
    BY <1>0, <1>3
<1>5. Accesses(pc)[2] = Program[pc].cycles[1]
    BY <1>4, AccessesType
<1> QED
    BY <1>1, <1>2, <1>3, <1>4, <1>5, AccessesType

\* After an access to a port, or the acknowledgement of an interrupt, the Z80 goes on to
\* one to memory.
LEMMA MemoryFollowsPort ==
    ASSUME NEW pc \in DOMAIN Program, NEW d \in 0..Len(Program[pc].cycles),
           ~IsMemory(Accesses(pc)[d + 1])
    PROVE  /\ d + 1 < Len(Accesses(pc)) => IsMemory(Accesses(pc)[d + 2])
           /\ IsMemory(Accesses(Program[pc].next)[1])
<1>1. Program[pc].next \in DOMAIN Program /\ Program[pc].next # IntEntry
    BY ProgramAssumption, InterruptAssumption
<1>2. IsMemory(Accesses(Program[pc].next)[1])
    BY <1>1, AccessesType DEF IsMemory
<1>3. CASE d = 0
  <2>1. Accesses(pc)[d + 1].kind = "INTACK"
      BY <1>3, AccessesType DEF IsMemory
  <2>2. IsMemory(Accesses(pc)[2])
      BY <2>1, AckIsFirst
  <2> QED
      BY <1>2, <1>3, <2>2
<1>4. ASSUME d # 0, d + 1 < Len(Accesses(pc)) PROVE IsMemory(Accesses(pc)[d + 2])
  <2>0. d \in 1..Len(Program[pc].cycles)
      BY <1>4, AccessesType
  <2>1. d + 1 \in 1..Len(Program[pc].cycles)
      BY <2>0, <1>4, AccessesType
  <2>2. Accesses(pc)[d + 1] = Program[pc].cycles[d]
      BY <2>0, AccessesType
  <2>3. Accesses(pc)[d + 2] = Program[pc].cycles[d + 1]
      BY <2>1, AccessesType
  <2>4. Program[pc].cycles \in Seq(Access)
      BY ProgramAssumption
  <2>5. DOMAIN Program[pc].cycles = 1..Len(Program[pc].cycles)
      BY <2>4
  <2>6. CASE ~IsMemory(Accesses(pc)[d + 2])
    <3>1. d \in DOMAIN Program[pc].cycles /\ d + 1 \in DOMAIN Program[pc].cycles
        BY <2>0, <2>1, <2>5
    <3>2. ~IsMemory(Program[pc].cycles[d]) /\ ~IsMemory(Program[pc].cycles[d + 1])
        BY <2>2, <2>3, <2>6
    <3>3. d = d + 1
        BY <3>1, <3>2, PortAssumption
    <3> QED
        BY <2>0, <3>3
  <2> QED
      BY <2>6
<1> QED
    BY <1>2, <1>3, <1>4

\* Data on the bus changes nothing but the data of an access.
LEMMA SeenType ==
    ASSUME NEW c \in Access, NEW mem \in [Cell -> Nat], c.kind = "RD" => c.addr \in Cell
    PROVE  Seen(c, mem) \in Access /\ Seen(c, mem).kind = c.kind
BY DEF Seen, Access

LEMMA StoredType ==
    ASSUME NEW c \in Access \cup {NONE}, NEW mem \in [Cell -> Nat]
    PROVE  Stored(c, mem) \in [Cell -> Nat]
<1>1. c.data \in Nat
    BY DEF Access, NONE
<1> QED
    BY <1>1 DEF Stored

\* A read of an instruction is one of a cell.
LEMMA ReadsCells ==
    ASSUME NEW pc \in DOMAIN Program, NEW i \in 1..Len(Accesses(pc)), Accesses(pc)[i].kind = "RD"
    PROVE  Accesses(pc)[i].addr \in Cell
<1>1. i # 1
    BY AccessesType
<1>2. i - 1 \in 1..Len(Program[pc].cycles) /\ (i - 1) + 1 = i
    BY <1>1, AccessesType
<1>3. Accesses(pc)[i] = Program[pc].cycles[i - 1]
    BY <1>2, AccessesType
<1>4. Program[pc].cycles \in Seq(Access)
    BY ProgramAssumption
<1>5. i - 1 \in DOMAIN Program[pc].cycles
    BY <1>2, <1>4
<1> QED
    BY <1>3, <1>5, ProgramAssumption

\* The emulated Z80 comes to another instruction with a list of accesses to compare.
EmuType == [pc : DOMAIN Program, mem : [Cell -> Nat], steps : Seq(Access), pos : Nat]
LEMMA ExecuteType ==
    ASSUME NEW e, e.pc \in DOMAIN Program, e.mem \in [Cell -> Nat]
    PROVE  /\ Execute(e) \in EmuType
           /\ Execute(e).pos = 0 /\ Len(Execute(e).steps) \in Nat \ {0}
<1> DEFINE acc == Accesses(e.pc)
           steps == [i \in DOMAIN acc |-> Seen(acc[i], e.mem)]
<1>1. acc \in Seq(Access) /\ Len(acc) \in Nat \ {0}
    BY AccessesType
<1>2. \A i \in DOMAIN acc : acc[i] \in Access /\ (acc[i].kind = "RD" => acc[i].addr \in Cell)
  <2>1. DOMAIN acc = 1..Len(acc)
      BY <1>1
  <2>2. ASSUME NEW i \in DOMAIN acc PROVE acc[i] \in Access
      BY <1>1
  <2> QED
      BY <2>1, <2>2, ReadsCells
<1>3. \A i \in DOMAIN acc : Seen(acc[i], e.mem) \in Access
    BY <1>2, SeenType
<1>4. steps \in Seq(Access) /\ Len(steps) = Len(acc)
  <2> HIDE DEF acc
  <2> QED
      BY <1>1, <1>3
<1>5. MemoryAfter(acc, e.mem) \in [Cell -> Nat]
  <2> SUFFICES ASSUME NEW a \in Cell,
                      \E i \in DOMAIN acc : acc[i].kind = "WR" /\ acc[i].addr = a
               PROVE  (CHOOSE c \in {acc[i] : i \in DOMAIN acc} : c.kind = "WR" /\ c.addr = a).data \in Nat
      BY DEF MemoryAfter
  <2> DEFINE all == {acc[i] : i \in DOMAIN acc}
             P(c) == c.kind = "WR" /\ c.addr = a
  <2>1. \E c \in all : P(c)
      OBVIOUS
  <2>2. (CHOOSE c \in all : P(c)) \in all
      BY <2>1
  <2>3. \A c \in all : c \in Access
      BY <1>2
  <2> QED
      BY <2>2, <2>3 DEF Access
<1>6. Program[e.pc].next \in DOMAIN Program
    BY ProgramAssumption
<1>7. Execute(e) = [pc |-> Program[e.pc].next, mem |-> MemoryAfter(acc, e.mem), steps |-> steps, pos |-> 0]
    BY DEF Execute
<1> HIDE DEF acc, steps
<1> QED
    BY <1>1, <1>4, <1>5, <1>6, <1>7 DEF EmuType

-----------------------------------------------------------------------------
(* Initially *)

LEMMA InitTracer == Init => TracerInv
<1> SUFFICES ASSUME Init PROVE TracerInv
    OBVIOUS
<1> USE DEF Init
<1>1. 0 \in DOMAIN Program /\ Len(Program[0].cycles) \in Nat
    BY ProgramAssumption, AccessesType
<1>2. TypeOK
  <2>1. z80.pc = 0 /\ z80.done = 0 /\ z80 \in [pc : DOMAIN Program, done : Nat, mem : [Cell -> Nat]]
      BY <1>1
  <2>2. emu.steps \in Seq(Access) /\ Len(emu.steps) = 0 /\ traces \in Seq(0..MaxCalls) /\ Len(traces) = 0
      OBVIOUS
  <2>3. z80.done <= Len(Program[z80.pc].cycles)
      BY <1>1, <2>1
  <2>4. emu \in EmuType /\ emu.pos <= Len(emu.steps)
      BY <1>1, <2>1, <2>2 DEF EmuType
  <2>5. stats \in [calls : 0..MaxCalls, errors : BOOLEAN] /\ Len(traces) < Size /\ commands \in 0..MaxCommands
      BY <2>2, SizeAssumption
  <2> QED
      BY <2>1, <2>2, <2>3, <2>4, <2>5 DEF TypeOK, EmuType
<1>3. FlagsAgree
    BY DEF FlagsAgree
<1>4. RoomLeft /\ TraceWhole
    BY DEF RoomLeft, TraceWhole
<1> QED
    BY <1>2, <1>3, <1>4 DEF TracerInv

-----------------------------------------------------------------------------
(* The Z80 *)

\* What the step of every other action starts from.
LEMMA StartCycleStep == TracerInv /\ StartCycle => TracerInv'
<1> SUFFICES ASSUME TracerInv, StartCycle PROVE TracerInv'
    OBVIOUS
<1> USE DEF TracerInv
<1>1. /\ cycle = NONE /\ cycle' = Seen(NextAccess, z80.mem) /\ wait' = socket.waits
      /\ stats.calls < MaxCalls
      /\ made' = IF socket.waits /\ mode.active THEN made + 1 ELSE made
      /\ UNCHANGED <<z80, asserted, reset, tracer, commands, read, missed, torn, disturbed>>
    BY DEF StartCycle, NextAccess
<1>2. NextAccess \in Access /\ (NextAccess.kind = "RD" => NextAccess.addr \in Cell)
  <2>1. z80.pc \in DOMAIN Program /\ z80.done + 1 \in 1..Len(Accesses(z80.pc))
      BY AccessesType DEF TypeOK
  <2> QED
      BY <2>1, AccessesType, ReadsCells DEF NextAccess
<1>3. cycle' \in Access /\ cycle'.kind = NextAccess.kind /\ cycle' # NONE
  <2>1. cycle' \in Access /\ cycle'.kind = NextAccess.kind
      BY <1>1, <1>2, SeenType DEF TypeOK
  <2> QED
      BY <2>1 DEF Access, Kinds, NONE
<1>4. ~wait /\ ~asserted
    BY <1>1 DEF TypeOK
<1>5. TypeOK'
  <2>1. made' \in Nat
      BY <1>1 DEF TypeOK
  <2> QED
      BY <1>1, <1>3, <1>4, <2>1 DEF TypeOK, tracer
<1>6. FlagsAgree'
    BY <1>1, <1>3, <1>4 DEF FlagsAgree, NextAccess, tracer, TypeOK
<1>7. RoomLeft'
  <2>1. IsMemory(cycle)' = IsMemory(NextAccess)
      BY <1>3 DEF IsMemory
  <2>2. /\ ~Held /\ ~PortCounted /\ (MemoryNext => IsMemory(NextAccess)) /\ ~AckCounted
        /\ (AckNext => NextAccess.kind = "INTACK")
      BY <1>1, <1>4 DEF Held, PortCounted, MemoryNext, AckCounted, AckNext
  <2>3. socket.hold => wait'
      BY <1>1 DEF FlagsAgree
  <2>4. socket.hold /\ MemoryNext => MemoryNext'
      BY <1>1, <1>3, <1>4, <2>1, <2>2, <2>3 DEF MemoryNext
  <2>5. socket.hold /\ AckNext => AckNext'
      BY <1>1, <1>3, <1>4, <2>2, <2>3 DEF AckNext
  <2> QED
      BY <1>1, <2>2, <2>4, <2>5 DEF RoomLeft, tracer, Limit
<1>8. TraceWhole'
  <2> SUFFICES ASSUME mode.active, mode.record, ~missed
               PROVE  made' = stats.calls + IF wait' /\ ~asserted' THEN 1 ELSE 0
      BY <1>1 DEF TraceWhole, tracer
  <2>1. made = stats.calls /\ stats.calls \in Nat
    <3>1. made = stats.calls + IF wait /\ ~asserted THEN 1 ELSE 0
        BY DEF TraceWhole
    <3> QED
        BY <1>4, <3>1 DEF TypeOK
  <2> QED
      BY <1>1, <1>4, <2>1
<1> QED
    BY <1>5, <1>6, <1>7, <1>8

LEMMA CycleEndsStep == TracerInv /\ CycleEnds => TracerInv'
<1> SUFFICES ASSUME TracerInv, CycleEnds PROVE TracerInv'
    OBVIOUS
<1> USE DEF TracerInv
<1> DEFINE last == z80.done + 1 = Len(Accesses(z80.pc))
<1>1. /\ cycle # NONE /\ ~wait /\ cycle' = NONE
      /\ z80' = [pc |-> IF last THEN Program[z80.pc].next ELSE z80.pc,
                 done |-> IF last THEN 0 ELSE z80.done + 1, mem |-> Stored(cycle, z80.mem)]
      /\ UNCHANGED <<wait, asserted, reset, tracer, commands, history>>
    BY DEF CycleEnds
<1>2. /\ z80.pc \in DOMAIN Program /\ Program[z80.pc].next \in DOMAIN Program
      /\ z80.done \in 0..Len(Program[z80.pc].cycles)
      /\ Len(Program[z80.pc].cycles) \in Nat /\ Len(Program[Program[z80.pc].next].cycles) \in Nat
      /\ Len(Accesses(z80.pc)) = Len(Program[z80.pc].cycles) + 1
  <2>1. z80.pc \in DOMAIN Program /\ z80.done \in Nat /\ z80.done <= Len(Program[z80.pc].cycles)
      BY DEF TypeOK
  <2>2. Program[z80.pc].next \in DOMAIN Program
      BY <2>1, ProgramAssumption
  <2> HIDE DEF last
  <2> QED
      BY <2>1, <2>2, AccessesType
<1>3. Stored(cycle, z80.mem) \in [Cell -> Nat]
    BY StoredType DEF TypeOK
<1>4. z80' \in [pc : DOMAIN Program, done : Nat, mem : [Cell -> Nat]]
    BY <1>1, <1>2, <1>3
<1>5. (z80.done <= Len(Program[z80.pc].cycles))'
    BY <1>1, <1>2
<1>6. TypeOK'
    BY <1>1, <1>4, <1>5 DEF TypeOK, tracer, history
<1>7. FlagsAgree'
    BY <1>1 DEF FlagsAgree, tracer
<1>8. ~Held /\ ~MemoryNext /\ ~AckNext
    BY <1>1 DEF Held, MemoryNext, AckNext, TypeOK
<1>9. ~IsMemory(cycle) => IsMemory(NextAccess)'
  <2> SUFFICES ASSUME ~IsMemory(cycle) PROVE IsMemory(NextAccess)'
      OBVIOUS
  <2>1. ~IsMemory(NextAccess)
      BY <1>1 DEF IsMemory, FlagsAgree
  <2>2. CASE last
      BY <1>1, <1>2, <2>1, <2>2, MemoryFollowsPort DEF NextAccess
  <2>3. CASE ~last
    <3>1. z80.done + 1 < Len(Accesses(z80.pc))
        BY <1>2, <2>3
    <3>2. IsMemory(Accesses(z80.pc)[z80.done + 2])
        BY <1>2, <2>1, <3>1, MemoryFollowsPort DEF NextAccess
    <3>3. z80'.pc = z80.pc /\ z80'.done + 1 = z80.done + 2
        BY <1>1, <1>2, <2>3
    <3> QED
        BY <3>2, <3>3 DEF NextAccess
  <2> QED
      BY <2>2, <2>3
<1>10. RoomLeft'
  <2>1. PortCounted => MemoryNext'
      BY <1>1, <1>9 DEF PortCounted, MemoryNext
  <2>2. AckCounted => PortCounted /\ z80'.done # 0
    <3> SUFFICES ASSUME AckCounted PROVE z80'.done # 0
        BY DEF AckCounted
    <3>1. Accesses(z80.pc)[z80.done + 1].kind = "INTACK"
        BY <1>1 DEF AckCounted, FlagsAgree, NextAccess
    <3>2. z80.done = 0 /\ 1 < Len(Accesses(z80.pc))
        BY <1>2, <3>1, AckIsFirst
    <3> QED
        BY <1>1, <1>2, <3>2
  <2> QED
      BY <1>1, <1>8, <2>1, <2>2 DEF RoomLeft, tracer, Limit
<1>11. TraceWhole'
    BY <1>1 DEF TraceWhole, tracer, history
<1> QED
    BY <1>6, <1>7, <1>10, <1>11

-----------------------------------------------------------------------------
(* The wait system *)

\* An access is counted, and recorded: there is room for it.
LEMMA NewWaitStep == TracerInv /\ NewWait => TracerInv'
<1> SUFFICES ASSUME TracerInv, NewWait PROVE TracerInv'
    OBVIOUS
<1>1. TypeOK /\ FlagsAgree /\ RoomLeft /\ TraceWhole
    BY DEF TracerInv
<1>2. /\ wait /\ ~asserted /\ asserted' = TRUE
      /\ UNCHANGED <<z80, cycle, wait, reset, mode, commands, history>>
    BY DEF NewWait
<1>3. cycle \in Access /\ cycle # NONE /\ stats.calls < MaxCalls
    BY <1>1, <1>2 DEF TypeOK, FlagsAgree
<1>4. CASE ~(socket.enabled /\ mode.active)
  <2>1. UNCHANGED <<socket, traces, holding, stats, emu>>
      BY <1>4 DEF NewWait
  <2>2. TypeOK'
      BY <1>1, <1>2, <2>1 DEF TypeOK, history
  <2>3. FlagsAgree'
      BY <1>1, <1>2, <2>1 DEF FlagsAgree, NextAccess
  <2>4. ~mode.active
      BY <1>1, <1>4 DEF FlagsAgree
  <2>5. RoomLeft' /\ TraceWhole'
      BY <1>2, <2>4 DEF RoomLeft, TraceWhole
  <2> QED
      BY <2>2, <2>3, <2>5 DEF TracerInv
<1>5. CASE socket.enabled /\ mode.active
  <2>1. Record /\ Compare(cycle)
      BY <1>5 DEF NewWait
  <2>2. stats' \in [calls : 0..MaxCalls, errors : BOOLEAN] /\ stats'.calls = stats.calls + 1
    <3> DEFINE e == IF Due(emu) THEN Execute(emu) ELSE emu
               wrong == mode.compare /\ e.steps[e.pos + 1] # cycle
    <3>1. stats' = [calls |-> stats.calls + 1, errors |-> stats.errors \/ wrong]
        BY <2>1 DEF Compare
    <3> HIDE DEF wrong, e
    <3>2. stats.calls \in Nat /\ stats.errors \in BOOLEAN
        BY <1>1 DEF TypeOK
    <3>3. stats.calls + 1 \in 0..MaxCalls
        BY <1>3, <3>2, SizeAssumption
    <3>4. (stats.errors \/ wrong) \in BOOLEAN
        OBVIOUS
    <3> QED
        BY <3>1, <3>3, <3>4
  <2>3. emu' \in EmuType /\ emu'.pos <= Len(emu'.steps)
    <3> DEFINE e == IF Due(emu) THEN Execute(emu) ELSE emu
    <3>1. emu' = IF mode.compare THEN [e EXCEPT !.pos = @ + 1] ELSE emu
        BY <2>1 DEF Compare
    <3>2. emu \in EmuType /\ emu.pos <= Len(emu.steps) /\ Len(emu.steps) \in Nat
        BY <1>1 DEF TypeOK, EmuType
    <3>3. CASE Due(emu)
      <4>1. e \in EmuType /\ e.pos = 0 /\ Len(e.steps) \in Nat \ {0}
          BY <3>2, <3>3, ExecuteType DEF EmuType
      <4> HIDE DEF e
      <4>2. CASE mode.compare
        <5>1. emu' = [e EXCEPT !.pos = 1]
            BY <3>1, <4>1, <4>2
        <5>2. emu' \in EmuType /\ emu'.pos = 1 /\ emu'.steps = e.steps
            BY <4>1, <5>1 DEF EmuType
        <5> QED
            BY <4>1, <5>2
      <4> QED
          BY <3>1, <3>2, <4>2
    <3>4. CASE ~Due(emu)
      <4>1. emu' = [emu EXCEPT !.pos = @ + 1] \/ emu' = emu
          BY <3>1, <3>4
      <4>2. emu.pos \in Nat /\ emu.pos + 1 <= Len(emu.steps)
          BY <3>2, <3>4 DEF EmuType, Due
      <4>3. CASE emu' = [emu EXCEPT !.pos = @ + 1]
        <5>1. emu' \in EmuType /\ emu'.pos = emu.pos + 1 /\ emu'.steps = emu.steps
            BY <3>2, <4>2, <4>3 DEF EmuType
        <5> QED
            BY <4>2, <5>1
      <4> QED
          BY <3>2, <4>1, <4>3
    <3> QED
        BY <3>3, <3>4
  <2>4. CASE ~mode.record
    <3>1. UNCHANGED <<traces, holding, socket>>
        BY <2>1, <2>4 DEF Record
    <3>2. TypeOK'
        BY <1>1, <1>2, <2>2, <2>3, <3>1 DEF TypeOK, history, EmuType
    <3>3. FlagsAgree'
        BY <1>1, <1>2, <3>1 DEF FlagsAgree, NextAccess
    <3>4. RoomLeft' /\ TraceWhole'
        BY <1>2, <2>4 DEF RoomLeft, TraceWhole
    <3> QED
        BY <3>2, <3>3, <3>4 DEF TracerInv
  <2>5. CASE mode.record
    <3>1. /\ Limit \in Nat /\ Limit = Size - MinSpaces + 1 /\ Limit + 2 < Size
          /\ Size \in Nat /\ MinSpaces \in Nat
        BY SizeAssumption DEF Limit
    <3>2. Len(traces) \in Nat /\ traces \in Seq(0..MaxCalls)
        BY <1>1 DEF TypeOK
    <3>3. /\ ~Held /\ ~PortCounted /\ (MemoryNext => IsMemory(cycle)) /\ ~AckCounted
          /\ (AckNext => cycle.kind = "INTACK")
        BY <1>2, <1>3 DEF Held, PortCounted, MemoryNext, AckCounted, AckNext
    <3>4. /\ ~socket.hold => Len(traces) < Limit
          /\ socket.hold => Len(traces) <= Limit + 1
          /\ socket.hold /\ Len(traces) = Limit + 1 => IsMemory(cycle)
          /\ socket.hold /\ Len(traces) = Limit => IsMemory(cycle) \/ cycle.kind = "INTACK"
      <4>1. /\ ~socket.hold => Len(traces) < Limit
            /\ socket.hold => Len(traces) <= Limit + 2 /\ Len(traces) # Limit + 2
            /\ socket.hold /\ Len(traces) = Limit + 1 => IsMemory(cycle)
            /\ socket.hold /\ Len(traces) = Limit => IsMemory(cycle) \/ cycle.kind = "INTACK"
          BY <1>1, <1>5, <2>5, <3>3 DEF RoomLeft
      <4> QED
          BY <3>1, <3>2, <4>1
    <3>5. Len(traces) # Size - 1 /\ Len(traces) <= Limit + 1
        BY <3>1, <3>2, <3>4
    <3>6. /\ traces' = Append(traces, stats.calls)
          /\ IF Short(Len(traces')) THEN holding' = TRUE /\ socket' = [socket EXCEPT !.hold = TRUE]
                                    ELSE UNCHANGED <<holding, socket>>
        BY <2>1, <2>5, <3>5 DEF Record
    <3>7. stats.calls \in 0..MaxCalls
        BY <1>1 DEF TypeOK
    <3>8. traces' \in Seq(0..MaxCalls) /\ Len(traces') = Len(traces) + 1
        BY <3>2, <3>6, <3>7
    <3>9. Short(Len(traces')) <=> Limit <= Len(traces')
        BY <3>1, <3>2, <3>8 DEF Short
    <3>10. socket' \in [enabled : BOOLEAN, waits : BOOLEAN, hold : BOOLEAN]
           /\ socket'.enabled = socket.enabled /\ socket'.waits = socket.waits
           /\ socket'.hold = (socket.hold \/ Limit <= Len(traces'))
           /\ holding' \in BOOLEAN /\ (socket'.hold => holding')
        BY <1>1, <3>6, <3>9 DEF TypeOK
    <3>11. TypeOK'
      <4>1. Len(traces') < Size
          BY <3>1, <3>2, <3>5, <3>8
      <4>2. UNCHANGED <<read, made, missed, torn, disturbed>>
          BY <1>2 DEF history
      <4> QED
          BY <1>1, <1>2, <2>2, <2>3, <3>8, <3>10, <4>1, <4>2 DEF TypeOK, EmuType
    <3>12. FlagsAgree'
        BY <1>1, <1>2, <3>10 DEF FlagsAgree, NextAccess
    <3>13. RoomLeft'
      <4>1. IsMemory(cycle) => Held'
          BY <1>2 DEF Held, IsMemory
      <4>2. ~IsMemory(cycle) => PortCounted'
          BY <1>2, <1>3 DEF PortCounted, IsMemory
      <4>3. Limit' = Limit
          BY DEF Limit
      <4>4. cycle.kind = "INTACK" => AckCounted'
          BY <1>2, <1>3 DEF AckCounted, PortCounted, IsMemory
      <4>5. /\ Len(traces') <= Limit + 2
            /\ Len(traces') = Limit + 2 => IsMemory(cycle)
            /\ Len(traces') = Limit + 1 => IsMemory(cycle) \/ cycle.kind = "INTACK"
          BY <3>1, <3>2, <3>4, <3>5, <3>8
      <4>6. ~socket'.hold => Len(traces') < Limit
          BY <3>1, <3>2, <3>8, <3>10
      <4> QED
          BY <4>1, <4>2, <4>3, <4>4, <4>5, <4>6 DEF RoomLeft
    <3>14. TraceWhole'
      <4>1. /\ read \in Nat /\ read + Len(traces) = stats.calls
            /\ \A i \in DOMAIN traces : traces[i] = read + i - 1
          BY <1>1, <1>5, <2>5 DEF TraceWhole, TypeOK
      <4>2. read' = read
          BY <1>2 DEF history
      <4>3. read' + Len(traces') = stats'.calls
          BY <2>2, <3>2, <3>8, <4>1, <4>2
      <4>4. ASSUME NEW i \in DOMAIN traces' PROVE traces'[i] = read' + i - 1
        <5>1. i \in 1..(Len(traces) + 1)
            BY <3>8
        <5>2. CASE i = Len(traces) + 1
          <6>1. traces'[i] = stats.calls
              BY <3>2, <3>6, <5>2
          <6> QED
              BY <3>2, <4>1, <4>2, <5>2, <6>1
        <5>3. CASE i \in 1..Len(traces)
          <6>1. traces'[i] = traces[i] /\ i \in DOMAIN traces
              BY <3>2, <3>6, <3>7, <5>3
          <6> QED
              BY <4>1, <4>2, <6>1
        <5> QED
            BY <3>2, <5>1, <5>2, <5>3
      <4>5. ~missed => made = stats.calls + 1
          BY <1>1, <1>2, <1>5, <2>5 DEF TraceWhole
      <4>6. ~missed' => made' = stats'.calls + IF wait' /\ ~asserted' THEN 1 ELSE 0
        <5>1. made' = made /\ missed' = missed /\ asserted' /\ stats'.calls + 0 = stats.calls + 1
            BY <1>2, <2>2, <3>7, SizeAssumption DEF history
        <5> QED
            BY <4>5, <5>1
      <4> QED
          BY <4>3, <4>4, <4>6 DEF TraceWhole
    <3> QED
        BY <3>11, <3>12, <3>13, <3>14 DEF TracerInv
  <2> QED
      BY <2>4, <2>5
<1> QED
    BY <1>4, <1>5

\* A wait ends: the Z80 was not held, or in an access to a port.
LEMMA EndWaitStep == TracerInv /\ EndWait => TracerInv'
<1> SUFFICES ASSUME TracerInv, EndWait PROVE TracerInv'
    OBVIOUS
<1>1. TypeOK /\ FlagsAgree /\ RoomLeft /\ TraceWhole
    BY DEF TracerInv
<1>2. /\ asserted /\ ~(socket.hold /\ IsMemory(cycle))
      /\ wait' = FALSE /\ asserted' = FALSE /\ reset' \in {reset, "LOW"}
      /\ UNCHANGED <<z80, cycle, tracer, commands, history>>
    BY DEF EndWait, WaitRelease
<1>3. TypeOK'
  <2>1. reset' \in {"NO", "ASKED", "LOW"}
      BY <1>1, <1>2 DEF TypeOK
  <2>2. UNCHANGED <<z80, cycle, socket, mode, traces, holding, stats, emu, commands,
                    read, made, missed, torn, disturbed>>
      BY <1>2 DEF tracer, history
  <2>3. wait' = FALSE /\ asserted' = FALSE
      BY <1>2
  <2> QED
    <3>1. TypeOK
        BY <1>1
    <3>2. /\ z80' \in [pc : DOMAIN Program, done : Nat, mem : [Cell -> Nat]]
          /\ z80'.done <= Len(Program[z80'.pc].cycles)
          /\ cycle' \in Access \cup {NONE}
        BY <2>2, <3>1 DEF TypeOK
    <3>3. /\ emu' \in [pc : DOMAIN Program, mem : [Cell -> Nat], steps : Seq(Access), pos : Nat]
          /\ emu'.pos <= Len(emu'.steps)
          /\ traces' \in Seq(0..MaxCalls) /\ Len(traces') < Size
        BY <2>2, <3>1 DEF TypeOK
    <3>4. /\ socket' \in [enabled : BOOLEAN, waits : BOOLEAN, hold : BOOLEAN]
          /\ mode' \in [record : BOOLEAN, compare : BOOLEAN, active : BOOLEAN, prime : BOOLEAN]
          /\ stats' \in [calls : 0..MaxCalls, errors : BOOLEAN]
        BY <2>2, <3>1 DEF TypeOK
    <3>5. /\ holding' \in BOOLEAN /\ (socket'.hold => holding') /\ commands' \in 0..MaxCommands
          /\ read' \in Nat /\ made' \in Nat
          /\ missed' \in BOOLEAN /\ torn' \in BOOLEAN /\ disturbed' \in BOOLEAN
        BY <2>2, <3>1 DEF TypeOK
    <3> QED
        BY <2>1, <2>3, <3>2, <3>3, <3>4, <3>5 DEF TypeOK
<1>4. FlagsAgree'
    BY <1>1, <1>2 DEF FlagsAgree, NextAccess, tracer
<1>5. RoomLeft'
  <2>1. socket.hold => ~Held /\ ~MemoryNext /\ ~AckNext
      BY <1>1, <1>2 DEF Held, MemoryNext, AckNext, TypeOK
  <2>2. (PortCounted => PortCounted') /\ (AckCounted => AckCounted')
      BY <1>2 DEF PortCounted, AckCounted
  <2> QED
      BY <1>1, <1>2, <2>1, <2>2 DEF RoomLeft, tracer, Limit
<1>6. TraceWhole'
    BY <1>1, <1>2 DEF TraceWhole, tracer, history
<1> QED
    BY <1>3, <1>4, <1>5, <1>6 DEF TracerInv

\* A RESET that begins or is asked for changes nothing but the line.
LEMMA ResetLineStep == TracerInv /\ (ResetStart \/ (ResetTarget /\ commands' \in 0..MaxCommands)) => TracerInv'
<1> SUFFICES ASSUME TracerInv, ResetStart \/ (ResetTarget /\ commands' \in 0..MaxCommands) PROVE TracerInv'
    OBVIOUS
<1>1. TypeOK /\ FlagsAgree /\ RoomLeft /\ TraceWhole
    BY DEF TracerInv
<1>2. /\ reset' \in {"NO", "ASKED", "LOW"} /\ commands' \in 0..MaxCommands
      /\ UNCHANGED <<z80, cycle, wait, asserted, tracer, history>>
    BY <1>1 DEF ResetStart, ResetTarget, TypeOK
<1>3. TypeOK'
    BY <1>1, <1>2 DEF TypeOK, tracer, history
<1>4. FlagsAgree' /\ RoomLeft' /\ TraceWhole'
    BY <1>1, <1>2 DEF FlagsAgree, RoomLeft, TraceWhole, NextAccess, Limit, Held, PortCounted, MemoryNext,
                      AckCounted, AckNext, tracer, history
<1> QED
    BY <1>3, <1>4 DEF TracerInv

-----------------------------------------------------------------------------
(* What disturbs the Z80 *)

\* An interrupt leaves room for its acknowledgement: the Z80 was about to fetch.
LEMMA InterruptStep == TracerInv /\ Interrupt /\ commands' \in 0..MaxCommands => TracerInv'
<1> SUFFICES ASSUME TracerInv, Interrupt, commands' \in 0..MaxCommands PROVE TracerInv'
    OBVIOUS
<1>1. TypeOK /\ FlagsAgree /\ RoomLeft /\ TraceWhole
    BY DEF TracerInv
<1>2. /\ cycle = NONE /\ z80.done = 0 /\ z80' = [z80 EXCEPT !.pc = IntEntry] /\ disturbed' = TRUE
      /\ UNCHANGED <<cycle, wait, asserted, reset, tracer, read, made, missed, torn>>
    BY DEF Interrupt
<1>3. IntEntry \in DOMAIN Program
    BY InterruptAssumption
<1>4. /\ z80' \in [pc : DOMAIN Program, done : Nat, mem : [Cell -> Nat]]
      /\ z80'.done = 0 /\ z80'.pc = IntEntry /\ z80'.done <= Len(Program[z80'.pc].cycles)
  <2>1. z80' \in [pc : DOMAIN Program, done : Nat, mem : [Cell -> Nat]]
        /\ z80'.done = 0 /\ z80'.pc = IntEntry
      BY <1>1, <1>2, <1>3 DEF TypeOK
  <2> QED
      BY <1>3, <2>1, AccessesType
<1>5. TypeOK'
  <2>1. /\ cycle' = cycle /\ wait' = wait /\ asserted' = asserted /\ reset' = reset
        /\ UNCHANGED <<socket, mode, traces, holding, stats, emu, read, made, missed, torn>>
      BY <1>2 DEF tracer
  <2>2. /\ cycle' \in Access \cup {NONE} /\ (wait' => cycle' # NONE)
        /\ wait' \in BOOLEAN /\ asserted' \in BOOLEAN /\ (asserted' => wait')
        /\ reset' \in {"NO", "ASKED", "LOW"}
      BY <1>1, <2>1 DEF TypeOK
  <2>3. /\ socket' \in [enabled : BOOLEAN, waits : BOOLEAN, hold : BOOLEAN]
        /\ mode' \in [record : BOOLEAN, compare : BOOLEAN, active : BOOLEAN, prime : BOOLEAN]
        /\ traces' \in Seq(0..MaxCalls) /\ Len(traces') < Size
        /\ stats' \in [calls : 0..MaxCalls, errors : BOOLEAN]
      BY <1>1, <2>1 DEF TypeOK
  <2>4. /\ emu' \in [pc : DOMAIN Program, mem : [Cell -> Nat], steps : Seq(Access), pos : Nat]
        /\ emu'.pos <= Len(emu'.steps)
        /\ holding' \in BOOLEAN /\ (socket'.hold => holding')
        /\ read' \in Nat /\ made' \in Nat /\ missed' \in BOOLEAN /\ torn' \in BOOLEAN
      BY <1>1, <2>1 DEF TypeOK
  <2>5. commands' \in 0..MaxCommands /\ disturbed' \in BOOLEAN
      BY <1>2
  <2> QED
      BY <1>4, <2>2, <2>3, <2>4, <2>5 DEF TypeOK
<1>6. FlagsAgree'
    BY <1>1, <1>2 DEF FlagsAgree, tracer
<1>7. RoomLeft'
  <2>1. AckNext'
    <3>1. NextAccess' = Accesses(IntEntry)[1]
        BY <1>4 DEF NextAccess
    <3> QED
        BY <1>2, <1>3, <3>1, AccessesType DEF AckNext
  <2>2. ~wait /\ ~asserted
      BY <1>1, <1>2 DEF TypeOK
  <2>3. ~Held /\ ~AckCounted /\ ~PortCounted
      BY <1>2, <2>2 DEF Held, AckCounted, PortCounted
  <2> QED
      BY <1>1, <1>2, <2>1, <2>3 DEF RoomLeft, tracer, Limit
<1>8. TraceWhole'
    BY <1>1, <1>2 DEF TraceWhole, tracer
<1> QED
    BY <1>5, <1>6, <1>7, <1>8 DEF TracerInv

\* Another client's write changes the memory and perhaps the line of RESET.
LEMMA BlockWriteStep == TracerInv /\ BlockWrite /\ commands' \in 0..MaxCommands => TracerInv'
<1> SUFFICES ASSUME TracerInv, BlockWrite, commands' \in 0..MaxCommands PROVE TracerInv'
    OBVIOUS
<1>1. TypeOK /\ FlagsAgree /\ RoomLeft /\ TraceWhole
    BY DEF TracerInv
<1>2. /\ cycle = NONE /\ disturbed' = TRUE /\ reset' \in {reset, "ASKED", "LOW"}
      /\ UNCHANGED <<cycle, wait, asserted, tracer, read, made, missed, torn>>
    BY DEF BlockWrite
<1>3. PICK a \in Cell, v \in Bytes : z80' = [z80 EXCEPT !.mem = [@ EXCEPT ![a] = v]]
    BY DEF BlockWrite
<1>4. /\ z80' \in [pc : DOMAIN Program, done : Nat, mem : [Cell -> Nat]]
      /\ z80'.done = z80.done /\ z80'.pc = z80.pc
  <2>1. v \in Nat
      BY SizeAssumption
  <2> QED
      BY <1>1, <1>3, <2>1 DEF TypeOK
<1>5. TypeOK'
    BY <1>1, <1>2, <1>4 DEF TypeOK, tracer
<1>6. FlagsAgree'
    BY <1>1, <1>2 DEF FlagsAgree, tracer
<1>7. RoomLeft'
    BY <1>1, <1>2, <1>4 DEF RoomLeft, NextAccess, Limit, Held, PortCounted, MemoryNext, AckCounted, AckNext,
                            tracer
<1>8. TraceWhole'
    BY <1>1, <1>2 DEF TraceWhole, tracer
<1> QED
    BY <1>5, <1>6, <1>7, <1>8 DEF TracerInv

-----------------------------------------------------------------------------
(* The tracer *)

\* An empty trace is one without gaps, and leaves room.
LEMMA EmptyTrace ==
    ASSUME traces' = <<>>, read' = 0, made' = 0, ~wait', stats'.calls = 0, Limit \in Nat \ {0}
    PROVE  RoomLeft' /\ TraceWhole'
<1>1. Len(traces') = 0 /\ DOMAIN traces' = {} /\ Limit' = Limit
    BY DEF Limit
<1> QED
    BY <1>1 DEF RoomLeft, TraceWhole

LEMMA LimitType == Limit \in Nat /\ 1 < Limit /\ Limit + 2 < Size
BY SizeAssumption DEF Limit

\* The tracer begins a new trace after a RESET.
LEMMA ResetEndStep == TracerInv /\ ResetEnd => TracerInv'
<1> SUFFICES ASSUME TracerInv, ResetEnd PROVE TracerInv'
    OBVIOUS
<1>1. TypeOK /\ FlagsAgree /\ RoomLeft /\ TraceWhole
    BY DEF TracerInv
<1>2. /\ cycle = NONE /\ reset' = "NO" /\ z80' = [z80 EXCEPT !.pc = 0, !.done = 0]
      /\ UNCHANGED <<cycle, wait, asserted, socket, holding, commands>>
    BY DEF ResetEnd
<1>3. /\ z80' \in [pc : DOMAIN Program, done : Nat, mem : [Cell -> Nat]]
      /\ z80'.done <= Len(Program[z80'.pc].cycles)
  <2>1. z80' \in [pc : DOMAIN Program, done : Nat, mem : [Cell -> Nat]] /\ z80'.done = 0 /\ z80'.pc = 0
      BY <1>1, <1>2, ProgramAssumption DEF TypeOK
  <2>2. Len(Program[0].cycles) \in Nat
      BY ProgramAssumption, AccessesType
  <2> QED
      BY <2>1, <2>2
<1>4. ~wait /\ ~asserted
    BY <1>1, <1>2 DEF TypeOK
<1>5. CASE socket.enabled
  <2>1. /\ traces' = <<>> /\ stats' = [calls |-> 0, errors |-> FALSE]
        /\ mode' = [mode EXCEPT !.active = TRUE]
        /\ emu' = [emu EXCEPT !.pc = 0, !.steps = <<>>, !.pos = 0]
        /\ read' = 0 /\ made' = 0 /\ missed' = FALSE /\ torn' \in BOOLEAN /\ disturbed' = FALSE
      BY <1>5 DEF ResetEnd, Cleared, RestOfSteps
  <2>2. emu' \in EmuType /\ emu'.pos = 0 /\ Len(emu'.steps) = 0
    <3>1. <<>> \in Seq(Access) /\ Len(<<>>) = 0
        OBVIOUS
    <3> QED
        BY <1>1, <2>1, <3>1, ProgramAssumption DEF TypeOK, EmuType
  <2>3. /\ traces' \in Seq(0..MaxCalls) /\ Len(traces') < Size
        /\ stats' \in [calls : 0..MaxCalls, errors : BOOLEAN] /\ stats'.calls = 0
      BY <2>1, SizeAssumption
  <2>4. mode' \in [record : BOOLEAN, compare : BOOLEAN, active : BOOLEAN, prime : BOOLEAN]
        /\ mode'.prime = mode.prime
      BY <1>1, <2>1 DEF TypeOK
  <2>5. TypeOK'
    <3>1. emu' \in [pc : DOMAIN Program, mem : [Cell -> Nat], steps : Seq(Access), pos : Nat]
          /\ emu'.pos <= Len(emu'.steps)
        BY <2>2 DEF EmuType
    <3>2. /\ reset' \in {"NO", "ASKED", "LOW"} /\ read' \in Nat /\ made' \in Nat
          /\ missed' \in BOOLEAN /\ torn' \in BOOLEAN /\ disturbed' \in BOOLEAN
        BY <1>2, <2>1
    <3> QED
        BY <1>1, <1>2, <1>3, <1>4, <2>3, <2>4, <3>1, <3>2 DEF TypeOK
  <2>6. FlagsAgree'
      BY <1>1, <1>2, <1>4, <1>5, <2>1, <2>4 DEF FlagsAgree
  <2>7. RoomLeft' /\ TraceWhole'
      BY <1>2, <1>4, <2>1, <2>3, EmptyTrace, LimitType
  <2> QED
      BY <2>5, <2>6, <2>7 DEF TracerInv
<1>6. CASE ~socket.enabled
  <2>1. UNCHANGED <<traces, stats, mode, emu, history>>
      BY <1>6 DEF ResetEnd
  <2>2. TypeOK'
      BY <1>1, <1>2, <1>3, <2>1 DEF TypeOK, history
  <2>3. FlagsAgree'
      BY <1>1, <1>2, <1>4, <2>1 DEF FlagsAgree
  <2>4. RoomLeft' /\ TraceWhole'
      BY <1>1, <1>6, <2>1 DEF RoomLeft, TraceWhole, FlagsAgree
  <2> QED
      BY <2>2, <2>3, <2>4 DEF TracerInv
<1> QED
    BY <1>5, <1>6

\* The grant finds no waits and no traces: it comes before the first access is traced.
LEMMA GrantedStep == TracerInv /\ Granted => TracerInv'
<1> SUFFICES ASSUME TracerInv, Granted PROVE TracerInv'
    OBVIOUS
<1>1. TypeOK /\ FlagsAgree /\ RoomLeft /\ TraceWhole
    BY DEF TracerInv
<1>2. /\ cycle = NONE /\ socket.enabled /\ mode.prime
      /\ mode' = [mode EXCEPT !.prime = FALSE] /\ emu' = [emu EXCEPT !.mem = z80.mem]
      /\ socket' = [socket EXCEPT !.waits = TRUE, !.hold = FALSE] /\ reset' \in {"LOW", "ASKED"}
      /\ disturbed' = (disturbed \/ reset' # "LOW")
      /\ UNCHANGED <<z80, cycle, wait, asserted, traces, holding, stats, commands,
                     read, made, missed, torn>>
    BY DEF Granted
<1>3. /\ mode' \in [record : BOOLEAN, compare : BOOLEAN, active : BOOLEAN, prime : BOOLEAN]
      /\ ~mode'.prime /\ mode'.active = mode.active /\ mode'.record = mode.record
      /\ socket' \in [enabled : BOOLEAN, waits : BOOLEAN, hold : BOOLEAN]
      /\ socket'.enabled /\ socket'.waits /\ ~socket'.hold
    BY <1>1, <1>2 DEF TypeOK
<1>4. emu' \in EmuType /\ emu'.pos = emu.pos /\ emu'.steps = emu.steps
    BY <1>1, <1>2 DEF TypeOK, EmuType
<1>5. traces = <<>> /\ ~wait
    BY <1>1, <1>2 DEF FlagsAgree
<1>6. TypeOK'
  <2>1. disturbed' \in BOOLEAN
      BY <1>2
  <2> QED
      BY <1>1, <1>2, <1>3, <1>4, <2>1 DEF TypeOK, EmuType
<1>7. FlagsAgree'
    BY <1>2, <1>3, <1>5 DEF FlagsAgree
<1>8. RoomLeft'
  <2>1. Len(traces') = 0 /\ Limit' = Limit
      BY <1>2, <1>5 DEF Limit
  <2> QED
      BY <1>3, <2>1, LimitType DEF RoomLeft
<1>9. TraceWhole'
    BY <1>1, <1>2, <1>3 DEF TraceWhole
<1> QED
    BY <1>6, <1>7, <1>8, <1>9 DEF TracerInv

-----------------------------------------------------------------------------
(* The host *)

\* Starting the tracer leaves the trace for the RESET to begin.
LEMMA StartStep ==
    ASSUME TracerInv, NEW r \in BOOLEAN, NEW c \in BOOLEAN, Start(r, c), commands' \in 0..MaxCommands
    PROVE  TracerInv'
<1>1. TypeOK /\ FlagsAgree
    BY DEF TracerInv
<1>2. /\ ~socket.enabled /\ socket' = [socket EXCEPT !.enabled = TRUE]
      /\ mode' = [mode EXCEPT !.record = r, !.compare = c, !.prime = TRUE]
      /\ UNCHANGED <<z80, cycle, wait, asserted, reset, traces, holding, stats, emu, history>>
    BY DEF Start, cpu
<1>3. /\ mode' \in [record : BOOLEAN, compare : BOOLEAN, active : BOOLEAN, prime : BOOLEAN]
      /\ mode'.active = mode.active
      /\ socket' \in [enabled : BOOLEAN, waits : BOOLEAN, hold : BOOLEAN]
      /\ socket'.enabled /\ socket'.waits = socket.waits /\ socket'.hold = socket.hold
    BY <1>1, <1>2 DEF TypeOK
<1>4. ~mode.active /\ ~socket.waits
    BY <1>1, <1>2 DEF FlagsAgree
<1>5. TypeOK'
    BY <1>1, <1>2, <1>3 DEF TypeOK, history
<1>6. FlagsAgree'
    BY <1>1, <1>2, <1>3, <1>4 DEF FlagsAgree, NextAccess
<1>7. RoomLeft' /\ TraceWhole'
    BY <1>3, <1>4 DEF RoomLeft, TraceWhole
<1> QED
    BY <1>5, <1>6, <1>7 DEF TracerInv

\* Stopping it ends the trace, the waits and the hold.
LEMMA StopStep == TracerInv /\ Stop /\ commands' \in 0..MaxCommands => TracerInv'
<1> SUFFICES ASSUME TracerInv, Stop, commands' \in 0..MaxCommands PROVE TracerInv'
    OBVIOUS
<1>1. TypeOK /\ FlagsAgree
    BY DEF TracerInv
<1>2. /\ socket' = [enabled |-> FALSE, waits |-> FALSE, hold |-> FALSE]
      /\ mode' = [mode EXCEPT !.active = FALSE]
      /\ traces' = <<>> /\ stats' = [calls |-> 0, errors |-> FALSE] /\ read' = 0 /\ made' = 0
      /\ wait' = FALSE /\ asserted' = FALSE
      /\ UNCHANGED <<z80, cycle, reset, holding, emu, missed, torn, disturbed>>
    BY DEF Stop, Cleared, WaitRelease
<1>3. /\ mode' \in [record : BOOLEAN, compare : BOOLEAN, active : BOOLEAN, prime : BOOLEAN]
      /\ ~mode'.active /\ mode'.prime = mode.prime
    BY <1>1, <1>2 DEF TypeOK
<1>4. /\ traces' \in Seq(0..MaxCalls) /\ Len(traces') < Size
      /\ stats' \in [calls : 0..MaxCalls, errors : BOOLEAN] /\ stats'.calls = 0
    BY <1>2, SizeAssumption
<1>5. TypeOK'
    BY <1>1, <1>2, <1>3, <1>4 DEF TypeOK
<1>6. FlagsAgree'
    BY <1>1, <1>2, <1>3 DEF FlagsAgree, NextAccess
<1>7. RoomLeft' /\ TraceWhole'
    BY <1>3 DEF RoomLeft, TraceWhole
<1> QED
    BY <1>5, <1>6, <1>7 DEF TracerInv

\* Reading moves the gap-free trace on; the Z80 is let go only when there is room.
LEMMA GetTraceStep ==
    ASSUME TracerInv, NEW n, n \in 1..Len(traces), GetTrace(n)
    PROVE  TracerInv'
<1>1. TypeOK /\ FlagsAgree /\ RoomLeft /\ TraceWhole
    BY DEF TracerInv
<1>2. /\ traces' = SubSeq(traces, n + 1, Len(traces)) /\ read' = traces[n] + 1
      /\ UNCHANGED <<z80, cycle, reset, mode, stats, emu, commands, made, torn, disturbed>>
    BY DEF GetTrace
<1>3. /\ traces \in Seq(0..MaxCalls) /\ Len(traces) \in Nat /\ MaxCalls \in Nat /\ Len(traces) < Size
      /\ n \in Nat /\ 1 <= n /\ n <= Len(traces)
    BY <1>1, SizeAssumption DEF TypeOK
<1>4. /\ traces' \in Seq(0..MaxCalls) /\ Len(traces') = Len(traces) - n
      /\ \A i \in 1..(Len(traces) - n) : traces'[i] = traces[i + n]
  <2>1. n + 1 \in Int /\ \A i \in (n + 1)..Len(traces) : traces[i] \in 0..MaxCalls
      BY <1>3
  <2>2. /\ traces' \in Seq(0..MaxCalls)
        /\ Len(traces') = IF n + 1 <= Len(traces) THEN Len(traces) - (n + 1) + 1 ELSE 0
        /\ \A i \in 1..(Len(traces) - (n + 1) + 1) : traces'[i] = traces[n + 1 + i - 1]
      BY <1>2, <1>3, <2>1, SubSeqProperties
  <2>3. Len(traces') = Len(traces) - n
      BY <1>3, <2>2
  <2>4. ASSUME NEW i \in 1..(Len(traces) - n) PROVE traces'[i] = traces[i + n]
    <3>1. i \in 1..(Len(traces) - (n + 1) + 1) /\ n + 1 + i - 1 = i + n
        BY <1>3
    <3>2. traces'[i] = traces[n + 1 + i - 1]
        BY <2>2, <3>1
    <3> QED
        BY <3>1, <3>2
  <2> QED
      BY <2>2, <2>3, <2>4
<1>5. traces # <<>>
    BY DEF GetTrace
<1>6. traces[n] \in 0..MaxCalls
    BY <1>3
<1>7. read' \in Nat
  <2> MaxCalls \in Nat
      BY SizeAssumption
  <2> QED
      BY <1>2, <1>6
<1>8. TraceWhole'
  <2>1. ASSUME mode.active /\ mode.record
        PROVE  /\ (read + Len(traces) = stats.calls)'
               /\ \A i \in DOMAIN traces' : traces'[i] = read' + i - 1
               /\ ~missed' => made = stats.calls + IF wait' /\ ~asserted' THEN 1 ELSE 0
    <3>1. /\ read \in Nat /\ read + Len(traces) = stats.calls
          /\ \A i \in 1..Len(traces) : traces[i] = read + i - 1
      <4>1. DOMAIN traces = 1..Len(traces) /\ read \in Nat
          BY <1>1, <1>3 DEF TypeOK
      <4> QED
          BY <1>1, <2>1, <4>1 DEF TraceWhole
    <3>2. read' = read + n
        BY <1>2, <3>1
    <3>3. (read + Len(traces) = stats.calls)'
      <4>1. Len(traces') = Len(traces) - n
          BY <1>4
      <4>2. read' + Len(traces') = read + Len(traces)
          BY <1>3, <3>1, <3>2, <4>1
      <4> QED
          BY <1>2, <3>1, <4>2
    <3>4. ASSUME NEW i \in DOMAIN traces' PROVE traces'[i] = read' + i - 1
      <4>1. i \in 1..(Len(traces) - n)
          BY <1>4
      <4>2. i + n \in 1..Len(traces)
          BY <1>3, <4>1
      <4>3. traces'[i] = read + (i + n) - 1
        <5>1. traces'[i] = traces[i + n]
            BY <1>4, <4>1
        <5>2. traces[i + n] = read + (i + n) - 1
            BY <3>1, <4>2
        <5> QED
            BY <5>1, <5>2
      <4>4. i \in Nat /\ n \in Nat /\ read \in Nat
          BY <1>3, <3>1, <4>1
      <4>5. read + (i + n) - 1 = (read + n) + i - 1
          BY <4>4
      <4> QED
          BY <3>2, <4>3, <4>5
    <3>5. ~missed' => made = stats.calls + IF wait' /\ ~asserted' THEN 1 ELSE 0
      <4>1. ~missed => made = stats.calls + IF wait /\ ~asserted THEN 1 ELSE 0
          BY <1>1, <2>1 DEF TraceWhole
      <4>2. CASE holding /\ Roomy(Len(traces'))
        <5>1. wait' = FALSE /\ missed' = (missed \/ (wait /\ ~asserted /\ mode.active))
            BY <4>2 DEF GetTrace, WaitRelease
        <5>2. ~missed' => ~missed /\ ~(wait /\ ~asserted)
            BY <2>1, <5>1
        <5> QED
            BY <4>1, <5>1, <5>2
      <4>3. CASE ~(holding /\ Roomy(Len(traces')))
        <5>1. UNCHANGED <<wait, asserted, missed>>
            BY <4>3 DEF GetTrace
        <5> QED
            BY <4>1, <5>1
      <4> QED
          BY <4>2, <4>3
    <3> QED
        BY <3>3, <3>4, <3>5
  <2> QED
      BY <1>2, <2>1 DEF TraceWhole
<1>9. Limit' = Limit /\ Limit \in Nat /\ Limit = Size - MinSpaces + 1 /\ Size \in Nat /\ MinSpaces \in Nat
    BY SizeAssumption DEF Limit
<1>10. CASE holding /\ Roomy(Len(traces'))
  <2>1. /\ holding' = FALSE /\ socket' = [socket EXCEPT !.hold = FALSE]
        /\ wait' = FALSE /\ asserted' = FALSE /\ missed' \in BOOLEAN
      BY <1>10 DEF GetTrace, WaitRelease
  <2>2. /\ socket' \in [enabled : BOOLEAN, waits : BOOLEAN, hold : BOOLEAN]
        /\ socket'.enabled = socket.enabled /\ socket'.waits = socket.waits /\ ~socket'.hold
      BY <1>1, <2>1 DEF TypeOK
  <2>3. Len(traces') < Limit
      BY <1>3, <1>4, <1>9, <1>10 DEF Roomy
  <2>4. TypeOK'
    <3>1. traces' \in Seq(0..MaxCalls) /\ Len(traces') < Size
        BY <1>3, <1>4, SizeAssumption
    <3> QED
        BY <1>1, <1>2, <1>7, <2>1, <2>2, <3>1 DEF TypeOK
  <2>5. FlagsAgree'
      BY <1>1, <1>2, <1>5, <2>1, <2>2 DEF FlagsAgree, NextAccess
  <2>6. RoomLeft'
      BY <1>9, <2>2, <2>3 DEF RoomLeft
  <2> QED
      BY <1>8, <2>4, <2>5, <2>6 DEF TracerInv
<1>11. CASE ~(holding /\ Roomy(Len(traces')))
  <2>1. UNCHANGED <<holding, socket, wait, asserted, missed>>
      BY <1>11 DEF GetTrace
  <2>2. TypeOK'
    <3>1. traces' \in Seq(0..MaxCalls) /\ Len(traces') < Size
        BY <1>3, <1>4, SizeAssumption
    <3> QED
        BY <1>1, <1>2, <1>7, <2>1, <3>1 DEF TypeOK
  <2>3. FlagsAgree'
      BY <1>1, <1>2, <1>5, <2>1 DEF FlagsAgree, NextAccess
  <2>4. RoomLeft'
    <3>1. SUFFICES ASSUME mode.active, mode.record
                   PROVE  /\ ~socket.hold => Len(traces') < Limit
                          /\ socket.hold => Len(traces') <= Limit + 1
                          /\ socket.hold /\ Len(traces') = Limit + 1 => Held
                          /\ socket.hold /\ Len(traces') = Limit => Held \/ PortCounted \/ MemoryNext
      <4>1. /\ (Held' <=> Held) /\ (PortCounted' <=> PortCounted) /\ (MemoryNext' <=> MemoryNext)
            /\ UNCHANGED <<socket, mode>>
          BY <1>2, <2>1 DEF Held, PortCounted, MemoryNext, NextAccess
      <4>2. Len(traces') \in Nat
          BY <1>3, <1>4
      <4> QED
          BY <1>9, <4>1, <4>2 DEF RoomLeft
    <3>2. Len(traces') < Len(traces) /\ Len(traces') \in Nat
        BY <1>3, <1>4
    <3>3. socket.hold => /\ Len(traces) <= Limit + 2 /\ (Len(traces) = Limit + 2 => Held)
                         /\ Len(traces) = Limit + 1 => Held \/ PortCounted \/ MemoryNext
        BY <1>1, <3>1 DEF RoomLeft, AckCounted
    <3>4. ~socket.hold => Len(traces) < Limit
        BY <1>1, <3>1 DEF RoomLeft
    <3>5. socket.hold => Len(traces') <= Limit + 1
        BY <1>3, <1>9, <3>2, <3>3
    <3>6. socket.hold /\ Len(traces') = Limit + 1 => Len(traces) = Limit + 2
        BY <1>3, <1>9, <3>2, <3>3
    <3>7. socket.hold /\ Len(traces') = Limit => Len(traces) = Limit + 1 \/ Len(traces) = Limit + 2
      <4>1. \A l, m, k \in Nat : m = l /\ m < k /\ k <= l + 2 => k = l + 1 \/ k = l + 2
          OBVIOUS
      <4> QED
          BY <1>3, <1>9, <3>2, <3>3, <4>1
    <3>8. ~socket.hold => Len(traces') < Limit
        BY <1>3, <1>9, <3>2, <3>4
    <3> HIDE DEF Limit
    <3> QED
        BY <3>3, <3>5, <3>6, <3>7, <3>8
  <2> QED
      BY <1>8, <2>2, <2>3, <2>4 DEF TracerInv
<1> QED
    BY <1>10, <1>11

-----------------------------------------------------------------------------
(* The specification *)

\* Every step keeps the invariant.
LEMMA StepKeepsTracer == TracerInv /\ [Next]_vars => TracerInv'
<1> SUFFICES ASSUME TracerInv, [Next]_vars PROVE TracerInv'
    OBVIOUS
<1>1. CASE Command
  <2>1. commands' \in 0..MaxCommands
      BY <1>1, SizeAssumption DEF Command, TracerInv, TypeOK
  <2> QED
      BY <1>1, <2>1, StartStep, StopStep, ResetLineStep, InterruptStep, BlockWriteStep DEF Command
<1>2. CASE GetTraceBin \/ GetTraceLong
  <2>1. PICK n \in 1..Len(traces) : GetTrace(n)
    <3>1. traces # <<>> /\ traces \in Seq(0..MaxCalls)
        BY <1>2 DEF GetTraceBin, GetTraceLong, GetTrace, TracerInv, TypeOK
    <3>2. 1 \in 1..Len(traces) /\ Len(traces) \in 1..Len(traces)
        BY <3>1
    <3> QED
        BY <1>2, <3>2 DEF GetTraceBin, GetTraceLong
  <2> QED
      BY <2>1, GetTraceStep
<1>3. CASE UNCHANGED vars
    BY <1>3 DEF vars, cpu, tracer, history, TracerInv, TypeOK, FlagsAgree, RoomLeft, TraceWhole,
                NextAccess, Limit, Held, PortCounted, MemoryNext, AckCounted, AckNext
<1> QED
    BY <1>1, <1>2, <1>3, StartCycleStep, CycleEndsStep, NewWaitStep, EndWaitStep, ResetLineStep,
       ResetEndStep, GrantedStep DEF Next

\* The inductive invariant of the tracer holds for every ring and every program.
THEOREM TracerInvariant == Spec => []TracerInv
<1>1. Init => TracerInv
    BY InitTracer
<1>2. TracerInv /\ [Next]_vars => TracerInv'
    BY StepKeepsTracer
<1> QED
    BY <1>1, <1>2, PTL DEF Spec

\* Every behaviour of the tracer keeps the types, and a hold is the tracer's own.
THEOREM TracerTypes == Spec => []TypeOK
<1>1. TracerInv => TypeOK
    BY DEF TracerInv
<1> QED
    BY <1>1, TracerInvariant, PTL

\* The host that reads the trace gets every access that the tracer was told of once and
\* in order, and it was told of all that the Z80 has made with the waits on, but for one
\* that getTrace let go of unseen: for any size of the ring with four entries kept free.
THEOREM NoAccessLost == Spec => []TraceWhole
<1>1. TracerInv => TraceWhole
    BY DEF TracerInv
<1> QED
    BY <1>1, TracerInvariant, PTL

-----------------------------------------------------------------------------
(* The emulated Z80                                                        *)

\* An instruction with its fetch does not access a cell again that it has written.
LEMMA WrittenLast ==
    ASSUME NEW pc \in DOMAIN Program, NEW i \in 1..Len(Accesses(pc)), NEW j \in 1..Len(Accesses(pc)), i < j,
           Accesses(pc)[i].kind = "WR", Accesses(pc)[j].kind \in {"RD", "WR"}
    PROVE  Accesses(pc)[i].addr # Accesses(pc)[j].addr
<1> DEFINE q == Program[pc].cycles
<1>1. q \in Seq(Access) /\ DOMAIN q = 1..Len(q) /\ Len(q) \in Nat /\ Len(Accesses(pc)) = Len(q) + 1
  <2>1. q \in Seq(Access)
      BY ProgramAssumption
  <2>2. Len(Accesses(pc)) = Len(q) + 1
      BY AccessesType
  <2> HIDE DEF q
  <2>3. DOMAIN q = 1..Len(q) /\ Len(q) \in Nat
      BY <2>1
  <2> QED
      BY <2>1, <2>2, <2>3
<1>2. i # 1 /\ j # 1
    BY AccessesType
<1>3. i - 1 \in 1..Len(q) /\ j - 1 \in 1..Len(q) /\ i - 1 < j - 1 /\ (i - 1) + 1 = i /\ (j - 1) + 1 = j
    BY <1>1, <1>2
<1>4. Accesses(pc)[i] = q[i - 1] /\ Accesses(pc)[j] = q[j - 1]
    BY <1>3, AccessesType
<1>5. i - 1 \in DOMAIN q /\ j - 1 \in DOMAIN q
    BY <1>1, <1>3
<1> QED
    BY <1>3, <1>4, <1>5, CellAssumption

\* An access with its data is the access but for the data of a read.
LEMMA SeenIs ==
    ASSUME NEW c \in Access, NEW m
    PROVE  /\ Seen(c, m).kind = c.kind /\ Seen(c, m).addr = c.addr
           /\ c.kind # "RD" => Seen(c, m) = c
           /\ c.kind = "RD" => Seen(c, m) = [c EXCEPT !.data = m[c.addr]]
BY DEF Seen, Access

LEMMA AccessIs ==
    ASSUME NEW pc \in DOMAIN Program, NEW i \in 1..Len(Accesses(pc))
    PROVE  Accesses(pc)[i] \in Access /\ Accesses(pc)[i].kind \in Kinds
<1>1. Accesses(pc) \in Seq(Access)
    BY AccessesType
<1>2. Accesses(pc)[i] \in Access
    BY <1>1
<1> QED
    BY <1>2 DEF Access

\* Nothing is written by no accesses.
LEMMA WroteNone == \A acc, m : Wrote(acc, 0, m, m)
BY DEF Wrote

\* One more access, as the Z80 ends it
LEMMA WroteMore ==
    ASSUME NEW pc \in DOMAIN Program, NEW n \in Nat, n < Len(Accesses(pc)),
           NEW m0 \in [Cell -> Nat], NEW m \in [Cell -> Nat], Wrote(Accesses(pc), n, m0, m)
    PROVE  Wrote(Accesses(pc), n + 1, m0, Stored(Seen(Accesses(pc)[n + 1], m), m))
<1> DEFINE acc == Accesses(pc)
           c   == acc[n + 1]
           w   == Stored(Seen(c, m), m)
<1>1. n + 1 \in 1..Len(acc) /\ n + 1 \in 1..(n + 1) /\ 1..n \subseteq 1..(n + 1)
    BY AccessesType
<1>2. c \in Access
    BY <1>1, AccessIs
<1> HIDE DEF acc
<1>3. ASSUME NEW a \in Cell
      PROVE  w[a] = IF Writes(c, a) THEN c.data ELSE m[a]
  <2>1. Seen(c, m).kind = c.kind /\ Seen(c, m).addr = c.addr /\ (c.kind # "RD" => Seen(c, m) = c)
      BY <1>2, SeenIs
  <2>2. CASE c.kind = "WR"
    <3>1. w = [m EXCEPT ![c.addr] = c.data]
        BY <2>1, <2>2 DEF Stored
    <3> QED
        BY <1>3, <2>2, <3>1 DEF Writes
  <2>3. CASE c.kind # "WR"
      BY <2>1, <2>3 DEF Stored, Writes
  <2> QED
      BY <2>2, <2>3
<1> HIDE DEF w
<1>4. ASSUME NEW a \in Cell
      PROVE  \/ \E i \in 1..(n + 1) : Writes(acc[i], a) /\ w[a] = acc[i].data
             \/ w[a] = m0[a] /\ \A i \in 1..(n + 1) : ~Writes(acc[i], a)
  <2>1. CASE Writes(c, a)
      BY <1>1, <1>3, <1>4, <2>1
  <2>2. CASE ~Writes(c, a)
    <3>1. w[a] = m[a]
        BY <1>3, <1>4, <2>2
    <3>2. \/ \E i \in 1..n : Writes(acc[i], a) /\ m[a] = acc[i].data
          \/ m[a] = m0[a] /\ \A i \in 1..n : ~Writes(acc[i], a)
        BY <1>4 DEF Wrote, acc
    <3>3. \A i \in 1..(n + 1) : i \in 1..n \/ i = n + 1
        OBVIOUS
    <3> QED
        BY <1>1, <2>2, <3>1, <3>2, <3>3
  <2> QED
      BY <2>1, <2>2
<1>5. Wrote(acc, n + 1, m0, w)
    BY <1>4 DEF Wrote
<1> QED
    BY <1>5 DEF w, acc

\* A cell that is read has not been written before.
LEMMA ReadsAgree ==
    ASSUME NEW pc \in DOMAIN Program, NEW n \in Nat, n < Len(Accesses(pc)),
           NEW m0 \in [Cell -> Nat], NEW m \in [Cell -> Nat], Wrote(Accesses(pc), n, m0, m)
    PROVE  Seen(Accesses(pc)[n + 1], m) = Seen(Accesses(pc)[n + 1], m0)
<1> DEFINE c == Accesses(pc)[n + 1]
<1>1. n + 1 \in 1..Len(Accesses(pc)) /\ \A i \in 1..n : i \in 1..Len(Accesses(pc)) /\ i < n + 1
    BY AccessesType
<1>2. c \in Access
    BY <1>1, AccessIs
<1>3. CASE c.kind = "RD"
  <2>1. c.addr \in Cell
      BY <1>1, <1>3, ReadsCells
  <2>2. ASSUME NEW i \in 1..n PROVE ~Writes(Accesses(pc)[i], c.addr)
    <3>1. i \in 1..Len(Accesses(pc)) /\ i < n + 1 /\ n + 1 \in 1..Len(Accesses(pc))
        BY <1>1
    <3>2. Accesses(pc)[i].kind = "WR" => Accesses(pc)[i].addr # c.addr
        BY <1>3, <3>1, WrittenLast
    <3> QED
        BY <3>2 DEF Writes
  <2>3. m[c.addr] = m0[c.addr]
    <3>1. \/ \E i \in 1..n : Writes(Accesses(pc)[i], c.addr) /\ m[c.addr] = Accesses(pc)[i].data
          \/ m[c.addr] = m0[c.addr] /\ \A i \in 1..n : ~Writes(Accesses(pc)[i], c.addr)
        BY <2>1 DEF Wrote
    <3> HIDE DEF c
    <3> QED
        BY <2>2, <3>1
  <2>4. /\ Seen(c, m) = [c EXCEPT !.data = m[c.addr]]
        /\ Seen(c, m0) = [c EXCEPT !.data = m0[c.addr]]
      BY <1>2, <1>3, SeenIs
  <2> QED
      BY <2>3, <2>4
<1>4. CASE c.kind # "RD"
    BY <1>2, <1>4, SeenIs
<1> QED
    BY <1>3, <1>4

\* What an instruction makes of a memory is one memory,
LEMMA WroteOne ==
    ASSUME NEW pc \in DOMAIN Program, NEW m0 \in [Cell -> Nat], NEW m \in [Cell -> Nat], NEW k \in [Cell -> Nat],
           Wrote(Accesses(pc), Len(Accesses(pc)), m0, m), Wrote(Accesses(pc), Len(Accesses(pc)), m0, k)
    PROVE  m = k
<1> DEFINE acc == Accesses(pc)
           n   == Len(acc)
<1>0. \A i, j \in 1..n : i < j \/ j < i \/ i = j
    BY AccessesType
<1>1. ASSUME NEW a \in Cell PROVE m[a] = k[a]
  <2>1. CASE \A i \in 1..n : ~Writes(acc[i], a)
      BY <1>1, <2>1 DEF Wrote
  <2>2. CASE ~\A i \in 1..n : ~Writes(acc[i], a)
    <3>1. PICK i \in 1..n : Writes(acc[i], a) /\ m[a] = acc[i].data
        BY <1>1, <2>2 DEF Wrote
    <3>2. PICK j \in 1..n : Writes(acc[j], a) /\ k[a] = acc[j].data
        BY <1>1, <2>2 DEF Wrote
    <3>3. ~(i < j) /\ ~(j < i)
        BY <3>1, <3>2, WrittenLast DEF Writes
    <3>4. i = j
        BY <1>0, <3>3
    <3> QED
        BY <3>1, <3>2, <3>4
  <2> QED
      BY <2>1, <2>2
<1> QED
    BY <1>1

\* which the emulated Z80 comes to at once.
LEMMA MemoryAfterIs ==
    ASSUME NEW pc \in DOMAIN Program, NEW m
    PROVE  Wrote(Accesses(pc), Len(Accesses(pc)), m, MemoryAfter(Accesses(pc), m))
<1> DEFINE acc == Accesses(pc)
           n   == Len(acc)
           w   == MemoryAfter(acc, m)
           all == {acc[i] : i \in DOMAIN acc}
<1>0. (\A i, j \in 1..n : i < j \/ j < i \/ i = j) /\ DOMAIN acc = 1..n
  <2>1. acc \in Seq(Access) /\ Len(acc) \in Nat
      BY AccessesType
  <2> QED
      BY <2>1
<1>1. ASSUME NEW a \in Cell
      PROVE  \/ \E i \in 1..n : Writes(acc[i], a) /\ w[a] = acc[i].data
             \/ w[a] = m[a] /\ \A i \in 1..n : ~Writes(acc[i], a)
  <2>1. w[a] = IF \E i \in DOMAIN acc : acc[i].kind = "WR" /\ acc[i].addr = a
               THEN (CHOOSE c \in all : c.kind = "WR" /\ c.addr = a).data
               ELSE m[a]
      BY <1>1 DEF MemoryAfter
  <2>2. CASE \E i \in DOMAIN acc : acc[i].kind = "WR" /\ acc[i].addr = a
    <3> DEFINE P(c) == c.kind = "WR" /\ c.addr = a
               x    == CHOOSE c \in all : P(c)
    <3>1. \E c \in all : P(c)
        BY <2>2
    <3>2. x \in all /\ P(x)
        BY <3>1
    <3>3. w[a] = x.data
        BY <2>1, <2>2
    <3> HIDE DEF x
    <3>4. PICK i \in 1..n : x = acc[i]
        BY <1>0, <3>2
    <3> QED
        BY <3>2, <3>3, <3>4 DEF Writes
  <2>3. CASE ~\E i \in DOMAIN acc : acc[i].kind = "WR" /\ acc[i].addr = a
      BY <1>0, <2>1, <2>3 DEF Writes
  <2> QED
      BY <2>2, <2>3
<1> HIDE DEF w
<1>2. Wrote(acc, n, m, w)
    BY <1>1 DEF Wrote
<1> QED
    BY <1>2 DEF w

\* Steps that leave the Z80 and the emulated one where they are, while comparing
LEMMA EmuIdle ==
    ASSUME EmuInv, z80' = z80, cycle' = cycle, reset' = "LOW" => ~wait',
           Comparing' => Comparing /\ Compared' = Compared /\ emu' = emu,
           stats'.errors => stats.errors,
           (missed \/ torn \/ disturbed) /\ stats'.errors => missed' \/ torn' \/ disturbed'
    PROVE  EmuInv'
<1>1. BusAgrees /\ EmuAgrees /\ SoundTarget
    BY DEF EmuInv
<1>2. BusAgrees'
    BY <1>1 DEF BusAgrees, NextAccess
<1>3. EmuAgrees'
  <2> SUFFICES ASSUME Comparing'
               PROVE  /\ Compared' = 0 => Due(emu') /\ emu'.pc = z80'.pc /\ emu'.mem = z80'.mem
                      /\ Compared' > 0 => /\ emu'.pos = Compared' /\ emu'.pc = Program[z80'.pc].next
                                          /\ \E m0 \in [Cell -> Nat] : Ahead(m0)'
      BY DEF EmuAgrees, Due
  <2>1. Comparing /\ Compared' = Compared /\ emu' = emu
      OBVIOUS
  <2>2. \A m0 : Ahead(m0)' <=> Ahead(m0)
      BY <2>1 DEF Ahead, Wrote
  <2>3. /\ Compared = 0 => Due(emu) /\ emu.pc = z80.pc /\ emu.mem = z80.mem
        /\ Compared > 0 => /\ emu.pos = Compared /\ emu.pc = Program[z80.pc].next
                           /\ \E m0 \in [Cell -> Nat] : Ahead(m0)
      BY <1>1, <2>1 DEF EmuAgrees
  <2> QED
      BY <2>1, <2>2, <2>3
<1>4. SoundTarget'
    BY <1>1 DEF SoundTarget
<1> QED
    BY <1>2, <1>3, <1>4 DEF EmuInv

LEMMA StartCycleEmu == TracerInv /\ EmuInv /\ StartCycle => EmuInv'
<1> SUFFICES ASSUME TracerInv, EmuInv, StartCycle PROVE EmuInv'
    OBVIOUS
<1>1. /\ TypeOK /\ FlagsAgree /\ BusAgrees /\ EmuAgrees /\ SoundTarget
    BY DEF TracerInv, EmuInv
<1>2. /\ cycle = NONE /\ reset # "LOW" /\ cycle' = Seen(NextAccess, z80.mem) /\ wait' = socket.waits
      /\ z80' = z80 /\ asserted' = asserted /\ reset' = reset /\ emu' = emu /\ stats' = stats /\ socket' = socket
      /\ mode' = mode /\ missed' = missed /\ torn' = torn /\ disturbed' = disturbed
    BY DEF StartCycle, NextAccess, tracer
<1>3. z80.pc \in DOMAIN Program /\ z80.done \in Nat /\ z80.done + 1 \in 1..Len(Accesses(z80.pc)) /\ ~asserted
    BY <1>1, <1>2, AccessesType DEF TypeOK
<1>4. cycle' # NONE
    BY <1>2, <1>3, AccessIs, SeenIs DEF NextAccess, NONE, Kinds
<1>5. BusAgrees'
    BY <1>2 DEF BusAgrees, NextAccess
<1>6. EmuAgrees'
  <2> SUFFICES ASSUME Comparing'
               PROVE  /\ Compared' = 0 => Due(emu') /\ emu'.pc = z80'.pc /\ emu'.mem = z80'.mem
                      /\ Compared' > 0 => /\ emu'.pos = Compared' /\ emu'.pc = Program[z80'.pc].next
                                          /\ \E m0 \in [Cell -> Nat] : Ahead(m0)'
      BY DEF EmuAgrees, Due
  <2>1. Comparing /\ wait' = TRUE
      BY <1>2 DEF Comparing
  <2>2. Compared = z80.done /\ Compared' = z80.done
      BY <1>2, <1>3, <1>4, <2>1 DEF Compared
  <2>3. \A m0 : Ahead(m0)' <=> Ahead(m0)
      BY <1>2 DEF Ahead, Wrote
  <2>4. /\ Compared = 0 => Due(emu) /\ emu.pc = z80.pc /\ emu.mem = z80.mem
        /\ Compared > 0 => /\ emu.pos = Compared /\ emu.pc = Program[z80.pc].next
                           /\ \E m0 \in [Cell -> Nat] : Ahead(m0)
      BY <1>1, <2>1 DEF EmuAgrees
  <2> QED
      BY <1>2, <2>2, <2>3, <2>4
<1>7. SoundTarget'
    BY <1>1, <1>2 DEF SoundTarget
<1> QED
    BY <1>5, <1>6, <1>7 DEF EmuInv

\* An access ends, and with the last one the two Z80s are at the same place again.
LEMMA CycleEndsEmu == TracerInv /\ EmuInv /\ CycleEnds => EmuInv'
<1> SUFFICES ASSUME TracerInv, EmuInv, CycleEnds PROVE EmuInv'
    OBVIOUS
<1> DEFINE acc  == Accesses(z80.pc)
           last == z80.done + 1 = Len(acc)
           k    == Stored(cycle, z80.mem)
<1>1. /\ TypeOK /\ FlagsAgree /\ BusAgrees /\ EmuAgrees /\ SoundTarget
    BY DEF TracerInv, EmuInv
<1>2. /\ cycle # NONE /\ ~wait /\ cycle' = NONE /\ wait' = wait /\ reset' = reset
      /\ z80' = [pc   |-> IF last THEN Program[z80.pc].next ELSE z80.pc,
                 done |-> IF last THEN 0 ELSE z80.done + 1, mem |-> k]
      /\ UNCHANGED <<asserted, tracer, commands, history>>
    BY DEF CycleEnds
<1>3. /\ z80.pc \in DOMAIN Program /\ z80.done \in Nat /\ z80.done < Len(acc) /\ Len(acc) \in Nat
      /\ z80.mem \in [Cell -> Nat] /\ emu.mem \in [Cell -> Nat] /\ acc \in Seq(Access)
    BY <1>1, AccessesType DEF TypeOK
<1>4. cycle = Seen(acc[z80.done + 1], z80.mem)
    BY <1>1, <1>2 DEF BusAgrees, NextAccess
<1>5. BusAgrees'
    BY <1>1, <1>2 DEF BusAgrees
<1>6. k \in [Cell -> Nat]
    BY <1>1, <1>3, StoredType DEF TypeOK
<1>7. EmuAgrees'
  <2> SUFFICES ASSUME Comparing'
               PROVE  /\ Compared' = 0 => Due(emu') /\ emu'.pc = z80'.pc /\ emu'.mem = z80'.mem
                      /\ Compared' > 0 => /\ emu'.pos = Compared' /\ emu'.pc = Program[z80'.pc].next
                                          /\ \E m0 \in [Cell -> Nat] : Ahead(m0)'
      BY DEF EmuAgrees, Due
  <2>1. Comparing /\ emu' = emu
      BY <1>2 DEF Comparing, tracer, history
  <2>2. Compared = z80.done + 1 /\ Compared > 0
      BY <1>2, <1>3 DEF Compared
  <2>3. emu.pos = z80.done + 1 /\ emu.pc = Program[z80.pc].next
      BY <1>1, <2>1, <2>2 DEF EmuAgrees
  <2>4. PICK m0 \in [Cell -> Nat] : Ahead(m0)
      BY <1>1, <2>1, <2>2 DEF EmuAgrees
  <2>5. /\ Wrote(acc, z80.done, m0, z80.mem) /\ Wrote(acc, Len(acc), m0, emu.mem)
        /\ emu.steps = [i \in DOMAIN acc |-> Seen(acc[i], m0)]
      BY <2>4 DEF Ahead
  <2> HIDE DEF k
  <2>6. Wrote(acc, z80.done + 1, m0, k)
      BY <1>3, <1>4, <2>5, WroteMore DEF k
  <2>7. CASE last
    <3>1. z80'.pc = Program[z80.pc].next /\ z80'.done = 0 /\ z80'.mem = k
        BY <1>2, <2>7
    <3>2. Compared' = 0
        BY <1>2, <3>1 DEF Compared
    <3>3. Wrote(acc, Len(acc), m0, k)
        BY <2>6, <2>7
    <3>4. k = emu.mem
        BY <1>3, <1>6, <2>5, <3>3, WroteOne
    <3>5. Len(emu.steps) = Len(acc)
      <4> HIDE DEF acc
      <4> QED
          BY <1>3, <2>5
    <3>6. Due(emu)
        BY <2>3, <2>7, <3>5 DEF Due
    <3> QED
        BY <2>1, <2>3, <3>1, <3>2, <3>4, <3>6
  <2>8. CASE ~last
    <3>1. z80'.pc = z80.pc /\ z80'.done = z80.done + 1 /\ z80'.mem = k
        BY <1>2, <2>8
    <3>2. Compared' = z80.done + 1
        BY <1>2, <1>3, <3>1 DEF Compared
    <3>3. Ahead(m0)'
        BY <2>1, <2>5, <2>6, <3>1 DEF Ahead, Wrote
    <3> QED
        BY <1>3, <2>1, <2>3, <3>1, <3>2, <3>3
  <2> QED
      BY <2>7, <2>8
<1>8. SoundTarget'
    BY <1>1, <1>2 DEF SoundTarget, tracer, history
<1> QED
    BY <1>5, <1>7, <1>8 DEF EmuInv

\* An access is compared: at the fetch the emulated Z80 goes ahead, and what it reads is
\* what the Z80 reads.
LEMMA NewWaitEmu == TracerInv /\ EmuInv /\ NewWait => EmuInv'
<1> SUFFICES ASSUME TracerInv, EmuInv, NewWait PROVE EmuInv'
    OBVIOUS
<1> DEFINE acc == Accesses(z80.pc)
           e   == IF Due(emu) THEN Execute(emu) ELSE emu
<1>1. /\ TypeOK /\ FlagsAgree /\ BusAgrees /\ EmuAgrees /\ SoundTarget
    BY DEF TracerInv, EmuInv
<1>2. /\ wait /\ ~asserted /\ asserted' = TRUE
      /\ UNCHANGED <<z80, cycle, wait, reset, mode, commands, history>>
    BY DEF NewWait
<1>3. /\ z80.pc \in DOMAIN Program /\ z80.done \in Nat /\ z80.done < Len(acc) /\ Len(acc) \in Nat
      /\ z80.mem \in [Cell -> Nat] /\ emu.mem \in [Cell -> Nat] /\ acc \in Seq(Access) /\ cycle # NONE
    BY <1>1, <1>2, AccessesType DEF TypeOK
<1>4. cycle = Seen(acc[z80.done + 1], z80.mem) /\ reset # "LOW"
    BY <1>1, <1>2, <1>3 DEF BusAgrees, NextAccess
<1>5. BusAgrees'
    BY <1>1, <1>2 DEF BusAgrees, NextAccess
<1>6. socket'.waits = socket.waits /\ socket.waits = TRUE
  <2>1. socket' = socket \/ socket' = [socket EXCEPT !.hold = TRUE]
      BY DEF NewWait, Record
  <2> QED
      BY <1>1, <1>2, <2>1 DEF TypeOK, FlagsAgree
<1>7. Comparing' <=> Comparing
    BY <1>2, <1>6 DEF Comparing, history
<1>8. CASE ~Comparing
  <2>1. SoundTarget'
    <3>1. CASE mode.active /\ mode.compare
        BY <1>2, <1>4, <1>6, <1>8, <3>1 DEF Comparing, SoundTarget, history
    <3>2. CASE ~(mode.active /\ mode.compare)
      <4>1. stats'.errors => stats.errors
        <5>1. CASE socket.enabled /\ mode.active
          <6>1. Compare(cycle)
              BY <5>1 DEF NewWait
          <6>2. \E b : stats' = [calls |-> stats.calls + 1, errors |-> stats.errors \/ (mode.compare /\ b)]
              BY <6>1, Zenon DEF Compare
          <6>3. PICK b : stats'.errors = (stats.errors \/ (mode.compare /\ b))
              BY <6>2
          <6> QED
              BY <3>2, <5>1, <6>3
        <5>2. CASE ~(socket.enabled /\ mode.active)
          <6>1. stats' = stats
              BY <5>2 DEF NewWait
          <6> QED
              BY <6>1
        <5> QED
            BY <5>1, <5>2
      <4> QED
          BY <1>1, <1>2, <4>1 DEF SoundTarget, history
    <3> QED
        BY <3>1, <3>2
  <2> QED
      BY <1>5, <1>7, <1>8, <2>1 DEF EmuInv, EmuAgrees
<1>9. CASE Comparing
  <2>1. mode.active /\ mode.compare /\ ~missed /\ ~torn /\ ~disturbed
      BY <1>9 DEF Comparing
  <2>2. /\ emu' = [e EXCEPT !.pos = e.pos + 1]
        /\ stats'.errors = (stats.errors \/ e.steps[e.pos + 1] # cycle)
    <3>1. socket.enabled
        BY <1>1, <2>1 DEF FlagsAgree
    <3>2. Compare(cycle)
        BY <2>1, <3>1 DEF NewWait
    <3> QED
        BY <2>1, <3>2 DEF Compare
  <2>3. Compared = z80.done
      BY <1>2, <1>3 DEF Compared
  <2>4. Compared' = z80.done + 1 /\ Compared' > 0
      BY <1>2, <1>3 DEF Compared
  <2>5. /\ e.pos = z80.done /\ e.pc = Program[z80.pc].next
        /\ \E m0 \in [Cell -> Nat] :
              /\ Wrote(acc, z80.done, m0, z80.mem) /\ Wrote(acc, Len(acc), m0, e.mem)
              /\ e.steps = [i \in DOMAIN acc |-> Seen(acc[i], m0)]
    <3>1. CASE z80.done = 0
      <4>1. Due(emu) /\ emu.pc = z80.pc /\ emu.mem = z80.mem
          BY <1>1, <1>9, <2>3, <3>1 DEF EmuAgrees
      <4>2. e = [pc |-> Program[z80.pc].next, mem |-> MemoryAfter(acc, z80.mem),
                 steps |-> [i \in DOMAIN acc |-> Seen(acc[i], z80.mem)], pos |-> 0]
          BY <4>1 DEF Execute
      <4>3. Wrote(acc, z80.done, z80.mem, z80.mem) /\ Wrote(acc, Len(acc), z80.mem, e.mem)
          BY <1>3, <3>1, <4>2, WroteNone, MemoryAfterIs
      <4> HIDE DEF e, acc
      <4>4. e.pos = 0 /\ e.pc = Program[z80.pc].next /\ e.steps = [i \in DOMAIN acc |-> Seen(acc[i], z80.mem)]
          BY <4>2
      <4> QED
          BY <1>3, <3>1, <4>3, <4>4
    <3>2. CASE z80.done # 0
      <4>1. emu.pos = z80.done /\ emu.pc = Program[z80.pc].next
          BY <1>1, <1>3, <1>9, <2>3, <3>2 DEF EmuAgrees
      <4>2. PICK m0 \in [Cell -> Nat] : Ahead(m0)
          BY <1>1, <1>3, <1>9, <2>3, <3>2 DEF EmuAgrees
      <4>3. /\ Wrote(acc, z80.done, m0, z80.mem) /\ Wrote(acc, Len(acc), m0, emu.mem)
            /\ emu.steps = [i \in DOMAIN acc |-> Seen(acc[i], m0)]
          BY <4>2 DEF Ahead
      <4>4. Len(emu.steps) = Len(acc)
        <5> HIDE DEF acc
        <5> QED
            BY <1>3, <4>3
      <4>5. e = emu
          BY <1>3, <4>1, <4>4 DEF Due
      <4> QED
          BY <4>1, <4>3, <4>5
    <3> QED
        BY <3>1, <3>2
  <2>6. PICK m0 \in [Cell -> Nat] : /\ Wrote(acc, z80.done, m0, z80.mem) /\ Wrote(acc, Len(acc), m0, e.mem)
                                    /\ e.steps = [i \in DOMAIN acc |-> Seen(acc[i], m0)]
      BY <2>5
  <2>7. e.steps[e.pos + 1] = cycle
    <3>1. e.steps[z80.done + 1] = Seen(acc[z80.done + 1], m0)
      <4>1. z80.done + 1 \in DOMAIN acc
        <5> HIDE DEF acc
        <5> QED
            BY <1>3
      <4> QED
          BY <2>6, <4>1
    <3>2. Seen(acc[z80.done + 1], z80.mem) = Seen(acc[z80.done + 1], m0)
      <4>1. Wrote(acc, z80.done, m0, z80.mem)
          BY <2>6
      <4> HIDE DEF e
      <4> QED
          BY <1>3, <4>1, ReadsAgree
    <3> QED
        BY <1>4, <2>5, <3>1, <3>2
  <2>8. SoundTarget'
      BY <1>1, <2>1, <2>2, <2>7 DEF SoundTarget
  <2>9. emu'.pos = z80.done + 1 /\ emu'.pc = e.pc /\ emu'.mem = e.mem /\ emu'.steps = e.steps
    <3>1. e = [pc |-> e.pc, mem |-> e.mem, steps |-> e.steps, pos |-> e.pos]
        BY <1>1 DEF TypeOK, Execute
    <3> HIDE DEF e
    <3> QED
        BY <2>2, <2>5, <3>1
  <2>10. Ahead(m0)'
    <3> HIDE DEF e
    <3> QED
        BY <1>2, <2>6, <2>9 DEF Ahead, Wrote
  <2>11. EmuAgrees'
    <3>1. emu'.pos = Compared' /\ emu'.pc = Program[z80'.pc].next /\ \E n \in [Cell -> Nat] : Ahead(n)'
        BY <1>2, <2>4, <2>5, <2>9, <2>10
    <3> QED
        BY <2>4, <3>1 DEF EmuAgrees
  <2> QED
      BY <1>5, <2>8, <2>11 DEF EmuInv
<1> QED
    BY <1>8, <1>9

\* A RESET or a grant begins anew; the memories are the same then, or the RESET tore them.
LEMMA ResetEndEmu == TracerInv /\ EmuInv /\ ResetEnd => EmuInv'
<1> SUFFICES ASSUME TracerInv, EmuInv, ResetEnd PROVE EmuInv'
    OBVIOUS
<1>1. /\ TypeOK /\ FlagsAgree /\ BusAgrees /\ EmuAgrees /\ SoundTarget
    BY DEF TracerInv, EmuInv
<1>2. /\ cycle = NONE /\ cycle' = NONE /\ reset' = "NO" /\ z80' = [z80 EXCEPT !.pc = 0, !.done = 0]
    BY DEF ResetEnd
<1>3. BusAgrees'
    BY <1>2 DEF BusAgrees
<1>4. z80'.pc = 0 /\ z80'.done = 0 /\ z80'.mem = z80.mem /\ Compared' = 0
  <2>1. z80'.pc = 0 /\ z80'.done = 0 /\ z80'.mem = z80.mem
      BY <1>1, <1>2 DEF TypeOK
  <2> QED
      BY <1>2, <2>1 DEF Compared
<1>5. CASE socket.enabled
  <2>1. stats'.errors = FALSE /\ torn' = (emu.mem # z80.mem)
        /\ emu' = [emu EXCEPT !.pc = 0, !.steps = <<>>, !.pos = 0]
      BY <1>5 DEF ResetEnd, Cleared, RestOfSteps
  <2>2. emu'.pc = 0 /\ emu'.steps = <<>> /\ emu'.pos = 0 /\ emu'.mem = emu.mem
      BY <1>1, <2>1 DEF TypeOK
  <2>3. Due(emu')
      BY <2>2 DEF Due
  <2>4. ~torn' => emu'.mem = z80'.mem
    <3>1. torn' = (emu.mem # z80.mem)
        BY <2>1
    <3> QED
        BY <1>4, <2>2, <3>1, Zenon
  <2>5. Comparing' => ~torn'
      BY DEF Comparing
  <2>6. EmuAgrees'
    <3>1. /\ Due(emu)' /\ emu'.pc = z80'.pc /\ Compared' = 0 /\ ~(Compared' > 0)
        BY <1>4, <2>2, <2>3 DEF Due
    <3> QED
        BY <2>4, <2>5, <3>1 DEF EmuAgrees
  <2> QED
      BY <1>3, <2>1, <2>6 DEF EmuInv, SoundTarget
<1>6. CASE ~socket.enabled
  <2>1. UNCHANGED <<stats, mode, history>>
      BY <1>6 DEF ResetEnd
  <2>2. ~mode'.active
      BY <1>1, <1>6, <2>1 DEF FlagsAgree
  <2>3. EmuAgrees'
      BY <2>2 DEF EmuAgrees, Comparing
  <2> QED
      BY <1>1, <1>3, <2>1, <2>3 DEF EmuInv, SoundTarget, history
<1> QED
    BY <1>5, <1>6

\* Waits that end, the lines and the commands
LEMMA OthersEmu ==
    ASSUME TracerInv, EmuInv, EndWait \/ ResetStart \/ Granted \/ Command \/ UNCHANGED vars
    PROVE  EmuInv'
<1>1. /\ TypeOK /\ FlagsAgree /\ BusAgrees
    BY DEF TracerInv, EmuInv
<1>2. CASE EndWait
  <2>1. /\ asserted /\ wait' = FALSE /\ asserted' = FALSE
        /\ UNCHANGED <<z80, cycle, tracer, commands, history>>
      BY <1>2 DEF EndWait, WaitRelease
  <2>2. reset' # "LOW" => reset # "LOW"
      BY <1>2 DEF EndWait
  <2>3. wait /\ cycle # NONE
      BY <1>1, <2>1 DEF TypeOK
  <2>4. Compared' = Compared
      BY <2>1, <2>3 DEF Compared
  <2>5. Comparing' => Comparing
      BY <2>1, <2>2 DEF Comparing, tracer, history
  <2> QED
      BY <2>1, <2>4, <2>5, EmuIdle DEF tracer, history
<1>3. CASE ResetStart
  <2>1. ~wait
      BY <1>1, <1>3 DEF ResetStart, FlagsAgree
  <2>2. reset' = "LOW" /\ UNCHANGED <<z80, cycle, wait, asserted, tracer, commands, history>>
      BY <1>3 DEF ResetStart
  <2>3. ~Comparing'
      BY <2>2 DEF Comparing
  <2> QED
      BY <2>1, <2>2, <2>3, EmuIdle DEF tracer, history
<1>4. CASE Granted
  <2>1. ~wait
      BY <1>1, <1>4 DEF Granted, TypeOK
  <2>2. /\ disturbed' = (disturbed \/ reset' # "LOW")
        /\ UNCHANGED <<z80, cycle, wait, asserted, stats, missed, torn>>
      BY <1>4 DEF Granted
  <2>3. ~Comparing'
      BY <2>2 DEF Comparing
  <2> QED
      BY <2>1, <2>2, <2>3, EmuIdle
<1>5. CASE Command
  <2>1. CASE Stop
    <3>1. wait' = FALSE /\ UNCHANGED <<z80, cycle, missed, torn, disturbed>> /\ stats'.errors = FALSE
        BY <2>1 DEF Stop, Cleared, WaitRelease
    <3>2. mode' = [mode EXCEPT !.active = FALSE]
        BY <2>1 DEF Stop
    <3>3. ~Comparing'
        BY <1>1, <3>2 DEF TypeOK, Comparing
    <3> QED
        BY <3>1, <3>3, EmuIdle
  <2>2. CASE ResetTarget
    <3>1. UNCHANGED <<z80, cycle, wait, asserted, tracer, history>> /\ (reset' = "LOW" <=> reset = "LOW")
        BY <2>2 DEF ResetTarget
    <3>2. Compared' = Compared
        BY <3>1 DEF Compared
    <3>3. Comparing' => Comparing
        BY <3>1 DEF Comparing, tracer, history
    <3>4. reset' = "LOW" => ~wait'
        BY <1>1, <3>1 DEF BusAgrees
    <3> QED
        BY <3>1, <3>2, <3>3, <3>4, EmuIdle DEF tracer, history
  <2>3. ASSUME NEW r \in BOOLEAN, NEW c \in BOOLEAN, Start(r, c) PROVE EmuInv'
    <3>1. UNCHANGED <<cpu, traces, holding, stats, emu, history>> /\ ~socket.enabled
          /\ mode' = [mode EXCEPT !.record = r, !.compare = c, !.prime = TRUE]
        BY <2>3 DEF Start
    <3>2. ~mode.active
        BY <1>1, <3>1 DEF FlagsAgree
    <3>3. ~Comparing'
        BY <1>1, <3>1, <3>2 DEF TypeOK, Comparing
    <3>4. reset' = "LOW" => ~wait'
        BY <1>1, <3>1 DEF BusAgrees, cpu
    <3> QED
        BY <3>1, <3>3, <3>4, EmuIdle DEF cpu, history
  <2>4. CASE Interrupt \/ BlockWrite
    <3>1. cycle = NONE /\ cycle' = NONE /\ disturbed' = TRUE /\ wait' = wait
        BY <2>4 DEF Interrupt, BlockWrite
    <3>2. ~wait'
        BY <1>1, <3>1 DEF TypeOK
    <3>3. ~Comparing'
        BY <3>1 DEF Comparing
    <3> QED
        BY <3>1, <3>2, <3>3 DEF EmuInv, BusAgrees, EmuAgrees, SoundTarget
  <2> QED
      BY <1>5, <2>1, <2>2, <2>3, <2>4 DEF Command
<1>6. CASE UNCHANGED vars
  <2>1. UNCHANGED <<z80, cycle, wait, asserted, reset, tracer, history>>
      BY <1>6 DEF vars, cpu
  <2>2. Compared' = Compared
      BY <2>1 DEF Compared
  <2>3. Comparing' => Comparing
      BY <2>1 DEF Comparing, tracer, history
  <2>4. reset' = "LOW" => ~wait'
      BY <1>1, <2>1 DEF BusAgrees
  <2> QED
      BY <2>1, <2>2, <2>3, <2>4, EmuIdle DEF tracer, history
<1> QED
    BY <1>2, <1>3, <1>4, <1>5, <1>6

\* The host that makes room lets the Z80 go on: an access that nobody has seen is noted.
LEMMA GetTraceEmu ==
    ASSUME TracerInv, EmuInv, NEW n, GetTrace(n)
    PROVE  EmuInv'
<1>1. /\ TypeOK /\ FlagsAgree /\ BusAgrees
    BY DEF TracerInv, EmuInv
<1>2. UNCHANGED <<z80, cycle, reset, mode, stats, emu, commands, made, torn, disturbed>>
    BY DEF GetTrace
<1>3. CASE holding /\ Roomy(Len(traces'))
  <2>1. /\ socket' = [socket EXCEPT !.hold = FALSE] /\ wait' = FALSE /\ asserted' = FALSE
        /\ missed' = (missed \/ (wait /\ ~asserted /\ mode.active))
      BY <1>3 DEF GetTrace, WaitRelease
  <2>2. Comparing' => Comparing /\ Compared' = Compared
    <3> SUFFICES ASSUME Comparing' PROVE Comparing /\ Compared' = Compared
        OBVIOUS
    <3>1. mode.active /\ ~missed' /\ socket'.waits
        BY <1>2 DEF Comparing
    <3>2. ~missed /\ (wait => asserted) /\ socket.waits
        BY <1>1, <2>1, <3>1 DEF TypeOK
    <3> QED
        BY <1>2, <2>1, <3>2 DEF Comparing, Compared
  <2> QED
      BY <1>2, <2>1, <2>2, EmuIdle
<1>4. CASE ~(holding /\ Roomy(Len(traces')))
  <2>1. UNCHANGED <<holding, socket, wait, asserted, missed>>
      BY <1>4 DEF GetTrace
  <2>2. Comparing' <=> Comparing
      BY <1>2, <2>1 DEF Comparing
  <2>3. Compared' = Compared
      BY <1>2, <2>1 DEF Compared
  <2>4. reset' = "LOW" => ~wait'
      BY <1>1, <1>2, <2>1 DEF BusAgrees
  <2> QED
      BY <1>2, <2>1, <2>2, <2>3, <2>4, EmuIdle
<1> QED
    BY <1>3, <1>4

\* For every program that reads no port and every memory, a comparison with the emulated
\* Z80 that reports an error has missed an access, has begun on a memory that a RESET
\* tore from the Z80's, or has seen an interrupt, another client's write or a late RESET
\* (StepTracer.cpp, handleWaitInterrupt): else it runs an instruction ahead in step.
THEOREM SoundTargetsPass == Spec => []SoundTarget
<1>1. Init => EmuInv
  <2> SUFFICES ASSUME Init PROVE EmuInv
      OBVIOUS
  <2>1. cycle = NONE /\ reset = "NO" /\ stats.errors = FALSE /\ mode.active = FALSE
      BY DEF Init
  <2> QED
      BY <2>1 DEF EmuInv, BusAgrees, EmuAgrees, SoundTarget, Comparing
<1>2. TracerInv /\ EmuInv /\ [Next]_vars => EmuInv'
  <2> SUFFICES ASSUME TracerInv, EmuInv, [Next]_vars PROVE EmuInv'
      OBVIOUS
  <2>1. CASE GetTraceBin \/ GetTraceLong
      BY <2>1, GetTraceEmu DEF GetTraceBin, GetTraceLong
  <2>2. CASE EndWait \/ ResetStart \/ Granted \/ Command \/ UNCHANGED vars
      BY <2>2, OthersEmu
  <2> QED
      BY <2>1, <2>2, StartCycleEmu, CycleEndsEmu, NewWaitEmu, ResetEndEmu DEF Next
<1>3. EmuInv => SoundTarget
    BY DEF EmuInv
<1> QED
    BY <1>1, <1>2, <1>3, TracerInvariant, PTL DEF Spec
=============================================================================
