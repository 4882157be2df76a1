---------------------------- MODULE ClientsProofs ----------------------------
(***************************************************************************)
(* The clients of the bus, for every memory, program of the Z80 and order  *)
(* of commands: the types hold, a block access of the bus controller       *)
(* happens once or not at all, the mirror that the debugger looks at is    *)
(* true, and a program is put down in memory as the host has loaded it.    *)
(***************************************************************************)
EXTENDS Clients, SequenceTheorems, TLAPS

-----------------------------------------------------------------------------
(* Types, by what they are about *)

BusTypes ==
    /\ want \subseteq Sockets /\ master \in {"CPU", "PI"} /\ busrq \in BOOLEAN /\ busack \in BOOLEAN
    /\ starter \in Sockets \cup {NONE} /\ (busrq <=> starter # NONE)
    /\ reason \in [Sockets -> Reasons]
RoundTypes == round \in Seq(Sockets \X Reasons)
FlagTypes ==
    /\ reset \in {"NO", "ASKED", "LOW"} /\ pc \in {"LOOP", "SYNC"}
    /\ mc \in [program : BOOLEAN, exec : BOOLEAN, display : BOOLEAN]
    /\ acc \in [pending : BOOLEAN, write : BOOLEAN, addr : Addr, val : Byte]
    /\ mirrorMode \in BOOLEAN /\ tracking \in BOOLEAN /\ mirrorDue \in BOOLEAN /\ watched \in BOOLEAN
    /\ commands \in 0..MaxCommands
DataTypes ==
    /\ target \in TargetStates /\ ram \in [Addr -> Memory] /\ mirror \in [Addr -> Memory]
    /\ order \in [Addr -> Byte \cup {NONE}]
Types == BusTypes /\ RoundTypes /\ FlagTypes /\ DataTypes

LEMMA TypesSuffice == Types => TypeOK
<1> SUFFICES ASSUME Types PROVE TypeOK
    OBVIOUS
<1>1. \A i \in DOMAIN round : round[i] \in Sockets \X Reasons
    BY DEF Types, RoundTypes
<1>2. /\ target.regs \in BOOLEAN /\ target.image \in [Addr -> Byte]
      /\ \A i \in DOMAIN target.blocks : target.blocks[i] \in Block
  <2>1. target.blocks \in Seq(Block) /\ target.regs \in BOOLEAN /\ target.image \in [Addr -> Byte]
      BY DEF Types, DataTypes, TargetStates
  <2> QED
      BY <2>1
<1> QED
    BY <1>1, <1>2 DEF TypeOK, Types, BusTypes, FlagTypes, DataTypes

LEMMA Names == /\ Sockets = {"HW", "TT", "BC", "MC"} /\ NONE \notin Sockets
               /\ DOMAIN SocketOrder = {1, 2, 3, 4} /\ SocketOrder \in Seq(Sockets)
               /\ SocketOrder[1] = "HW" /\ SocketOrder[2] = "TT" /\ SocketOrder[3] = "BC" /\ SocketOrder[4] = "MC"
<1>1. DOMAIN SocketOrder = {1, 2, 3, 4}
    BY DEF SocketOrder
<1>2. /\ SocketOrder[1] = "HW" /\ SocketOrder[2] = "TT" /\ SocketOrder[3] = "BC" /\ SocketOrder[4] = "MC"
    BY DEF SocketOrder
<1>3. Sockets = {"HW", "TT", "BC", "MC"}
    BY <1>1, <1>2 DEF Sockets
<1>4. SocketOrder \in Seq(Sockets)
    BY <1>3 DEF SocketOrder
<1> QED
    BY <1>1, <1>2, <1>3, <1>4 DEF NONE

LEMMA BytesAreMemory == /\ Byte \subseteq Memory /\ "JUMP" \in Memory /\ "SETREGS" \in Memory
                        /\ 0 \in Addr /\ SetRegsAddr \in Addr /\ SetRegsAddr # 0 /\ "00" \in Byte
                        /\ MaxCommands \in Nat /\ Addr \subseteq Nat /\ Stored \subseteq Addr
BY TargetStateAssumption, ClientsAssumption DEF Memory

\* The first of some sockets is one of them.
LEMMA FirstIsSocket ==
    ASSUME NEW ss \in SUBSET Sockets, ss # {}
    PROVE  First(ss) \in Sockets
<1> DEFINE P(i) == /\ SocketOrder[i] \in ss
                   /\ \A j \in 1..(i-1) : SocketOrder[j] \notin ss
<1>1. \E i \in DOMAIN SocketOrder : P(i)
  <2>1. "HW" \in ss => P(1)
      BY Names
  <2>2. "HW" \notin ss /\ "TT" \in ss => P(2)
      BY Names
  <2>3. "HW" \notin ss /\ "TT" \notin ss /\ "BC" \in ss => P(3)
    <3>1. 1..(3 - 1) = {1, 2}
        OBVIOUS
    <3> QED
        BY <3>1, Names
  <2>4. "HW" \notin ss /\ "TT" \notin ss /\ "BC" \notin ss => "MC" \in ss
      BY Names
  <2>5. "HW" \notin ss /\ "TT" \notin ss /\ "BC" \notin ss /\ "MC" \in ss => P(4)
    <3>1. 1..(4 - 1) = {1, 2, 3}
        OBVIOUS
    <3> QED
        BY <3>1, Names
  <2> HIDE DEF P
  <2> QED
      BY <2>1, <2>2, <2>3, <2>4, <2>5, Names
<1> DEFINE c == CHOOSE i \in DOMAIN SocketOrder : P(i)
<1>2. c \in DOMAIN SocketOrder
    BY <1>1
<1>3. First(ss) = SocketOrder[c]
    BY DEF First
<1> HIDE DEF c
<1> QED
    BY <1>2, <1>3, Names

\* The socket of a request in progress, after a step of the line.
LEMMA StarterTypes ==
    ASSUME BusTypes, StarterFollows, want' \subseteq Sockets, busrq' \in BOOLEAN, busrq' /\ ~busrq => want' # {}
    PROVE  starter' \in Sockets \cup {NONE} /\ (busrq' <=> starter' # NONE)
<1>1. busrq' /\ ~busrq => First(want') \in Sockets
    BY FirstIsSocket
<1> QED
    BY <1>1, Names DEF StarterFollows, BusTypes

LEMMA AskTypes ==
    ASSUME BusTypes, NEW s \in Sockets, NEW r \in Reasons, TargetReqBus(s, r)
    PROVE  BusTypes'
<1>1. /\ want' = want \cup {s} /\ busrq' \in {busrq, TRUE} /\ UNCHANGED <<master, busack>>
      /\ reason' = [reason EXCEPT ![s] = r] /\ StarterFollows
    BY DEF TargetReqBus, Arb!Ask
<1>2. want' \subseteq Sockets /\ want' # {} /\ reason' \in [Sockets -> Reasons] /\ busrq' \in BOOLEAN
  <2>1. busrq' \in BOOLEAN
    <3>1. busrq \in BOOLEAN
        BY DEF BusTypes
    <3> QED
        BY <1>1, <3>1
  <2> QED
      BY <1>1, <2>1 DEF BusTypes
<1>3. starter' \in Sockets \cup {NONE} /\ (busrq' <=> starter' # NONE)
    BY <1>1, <1>2, StarterTypes
<1> QED
    BY <1>1, <1>2, <1>3 DEF BusTypes

LEMMA InitTypes == Init => Types
<1> SUFFICES ASSUME Init PROVE Types
    OBVIOUS
<1>1. BusTypes
    BY Names DEF Init, Arb!Init, BusTypes, Reasons
<1>2. RoundTypes
    BY DEF Init, RoundTypes
<1>3. FlagTypes
  <2>1. NoAccess \in [pending : BOOLEAN, write : BOOLEAN, addr : Addr, val : Byte] /\ 0 \in 0..MaxCommands
      BY BytesAreMemory DEF NoAccess
  <2> QED
      BY <2>1 DEF Init, FlagTypes
<1>4. DataTypes
  <2>1. clear \in TargetStates
      BY BytesAreMemory DEF clear, TargetStates
  <2>2. [a \in Addr |-> "00"] \in [Addr -> Memory] /\ [a \in Addr |-> NONE] \in [Addr -> Byte \cup {NONE}]
      BY BytesAreMemory
  <2> QED
      BY <2>1, <2>2 DEF Init, DataTypes
<1> QED
    BY <1>1, <1>2, <1>3, <1>4 DEF Types

\* The callbacks of a grant
LEMMA RoundsTypes ==
    ASSUME NEW r \in Reasons
    PROVE  Rounds(r) \in Seq(Sockets \X Reasons)
<1>1. ASSUME NEW q \in Reasons PROVE Callbacks(q) \in Seq(Sockets \X Reasons)
  <2>1. CASE tracking
    <3>1. Callbacks(q) = [i \in {1, 2, 3, 4} |-> <<SocketOrder[i], q>>]
        BY <2>1, Names DEF Callbacks
    <3>2. {1, 2, 3, 4} = 1..4
        OBVIOUS
    <3>3. \A i \in 1..4 : <<SocketOrder[i], q>> \in Sockets \X Reasons
        BY <3>2, Names
    <3>4. Callbacks(q) = [i \in 1..4 |-> <<SocketOrder[i], q>>]
        BY <3>1, <3>2
    <3> QED
        BY <3>3, <3>4
  <2>2. CASE ~tracking
    <3> DEFINE o == <<"HW", "BC", "MC">>
    <3>1. DOMAIN o = 1..3 /\ \A i \in 1..3 : o[i] \in Sockets
        BY Names
    <3>2. Callbacks(q) = [i \in DOMAIN o |-> <<o[i], q>>]
        BY <2>2 DEF Callbacks
    <3> HIDE DEF o
    <3>3. Callbacks(q) = [i \in 1..3 |-> <<o[i], q>>]
        BY <3>1, <3>2
    <3>4. \A i \in 1..3 : <<o[i], q>> \in Sockets \X Reasons
        BY <3>1
    <3> QED
        BY <3>3, <3>4
  <2> QED
      BY <2>1, <2>2
<1>2. "MIRROR" \in Reasons
    BY DEF Reasons
<1>3. ASSUME NEW u \in Seq(Sockets \X Reasons), NEW v \in Seq(Sockets \X Reasons)
      PROVE  u \o v \in Seq(Sockets \X Reasons)
    OBVIOUS
<1> QED
    BY <1>1, <1>2, <1>3 DEF Rounds

LEMMA LineTypes ==
    ASSUME Types, Pull \/ Yield \/ Resume \/ Take \/ GiveBack \/ GiveUp \/ ResetStart \/ ResetEnd
    PROVE  Types'
<1>0. BusTypes /\ RoundTypes /\ FlagTypes /\ DataTypes
    BY DEF Types
<1>1. DataTypes'
    BY <1>0 DEF Pull, Yield, Resume, Take, GiveBack, GiveUp, ResetStart, ResetEnd, data, history, DataTypes
<1>2. FlagTypes'
  <2>1. watched' \in BOOLEAN
      BY <1>0 DEF Pull, Yield, Resume, Take, GiveBack, GiveUp, ResetStart, ResetEnd, history, FlagTypes
  <2>2. reset' \in {"NO", "ASKED", "LOW"}
      BY <1>0 DEF Pull, Yield, Resume, Take, GiveBack, GiveUp, ResetStart, ResetEnd, FlagTypes
  <2>3. UNCHANGED flags /\ UNCHANGED commands
      BY DEF Pull, Yield, Resume, Take, GiveBack, GiveUp, ResetStart, ResetEnd
  <2> QED
      BY <1>0, <2>1, <2>2, <2>3 DEF FlagTypes, flags
<1>3. RoundTypes'
  <2>1. CASE Take
    <3>1. busrq /\ round' = Rounds(reason[starter])
        BY <2>1 DEF Take, Arb!Take
    <3>2. reason[starter] \in Reasons
        BY <1>0, <3>1 DEF BusTypes
    <3> QED
        BY <3>1, <3>2, RoundsTypes DEF RoundTypes
  <2>2. CASE ~Take
      BY <1>0, <2>2 DEF Pull, Yield, Resume, GiveBack, GiveUp, ResetStart, ResetEnd, RoundTypes
  <2> QED
      BY <2>1, <2>2
<1>4. BusTypes'
  <2>1. CASE Pull \/ GiveBack \/ GiveUp
    <3>1. /\ want' \subseteq Sockets /\ master' \in {"CPU", "PI"} /\ busrq' \in BOOLEAN /\ busack' \in BOOLEAN
          /\ reason' = reason /\ StarterFollows /\ (busrq' => want' # {})
        BY <1>0, <2>1 DEF Pull, GiveBack, GiveUp, Arb!Pull, Arb!GiveBack, Arb!GiveUp, BusTypes
    <3>2. starter' \in Sockets \cup {NONE} /\ (busrq' <=> starter' # NONE)
        BY <1>0, <3>1, StarterTypes
    <3> QED
        BY <1>0, <3>1, <3>2 DEF BusTypes
  <2>2. CASE Take
      BY <1>0, <2>2 DEF Take, Arb!Take, BusTypes
  <2>3. CASE Yield \/ Resume \/ ResetStart \/ ResetEnd
    <3>1. busack' \in BOOLEAN /\ UNCHANGED <<want, master, busrq, starter, reason>>
        BY <1>0, <2>3 DEF Yield, Resume, ResetStart, ResetEnd, Arb!Yield, Arb!Resume, BusTypes, bus
    <3> QED
        BY <1>0, <3>1 DEF BusTypes
  <2> QED
      BY <2>1, <2>2, <2>3
<1> QED
    BY <1>1, <1>2, <1>3, <1>4 DEF Types

\* What the blocks of a target state cover
Covered(t) == UNION {Cells(t.blocks[i]) : i \in DOMAIN t.blocks}

\* Two blocks of which the second follows on from the first, and the one of both
LEMMA BlocksJoin ==
    ASSUME NEW b1 \in Block, NEW b2 \in Block, NEW b3 \in Block,
           b1.start + b1.len = b2.start, b3.start = b1.start, b3.len = b1.len + b2.len
    PROVE  Cells(b3) = Cells(b1) \cup Cells(b2)
<1>1. b1.start \in Nat /\ b1.len \in Nat /\ b2.len \in Nat
    BY DEF Block
<1>2. ASSUME NEW a \in Addr
      PROVE  (b3.start <= a /\ a < b3.start + b3.len)
                <=> (b1.start <= a /\ a < b1.start + b1.len) \/ (b2.start <= a /\ a < b2.start + b2.len)
  <2>1. a \in Nat
      BY BytesAreMemory
  <2> QED
      BY <1>1, <2>1
<1> QED
    BY <1>2 DEF Cells

\* A block that is added is covered from then on, and nothing else changes.
LEMMA AddBlockAdds ==
    ASSUME NEW t \in TargetStates, NEW b \in Block, NEW v \in Byte
    PROVE  LET n == addMemoryBlock(t, b, v)
           IN  /\ n \in TargetStates /\ n.regs = t.regs
               /\ Room(t, b) => /\ Covered(n) = Covered(t) \cup Cells(b)
                                /\ n.image = [a \in Addr |-> IF a \in Cells(b) THEN v ELSE t.image[a]]
<1> DEFINE i == CHOOSE k \in Continued(t, b) : TRUE
           longer == LongerBy(t, i, b)
           further == [t EXCEPT !.blocks = Append(t.blocks, b)]
           listed == IF Continued(t, b) # {} THEN longer ELSE further
           image == [a \in Addr |-> IF a \in Cells(b) THEN v ELSE t.image[a]]
<1>1. /\ t.blocks \in Seq(Block) /\ t.regs \in BOOLEAN /\ t.image \in [Addr -> Byte]
      /\ t = [blocks |-> t.blocks, image |-> t.image, regs |-> t.regs]
    BY DEF TargetStates
<1>2. image \in [Addr -> Byte]
    BY <1>1
<1>3. CASE Continued(t, b) # {}
  <2>1. i \in DOMAIN t.blocks /\ t.blocks[i].start + t.blocks[i].len = b.start
    <3>1. i \in Continued(t, b)
        BY <1>3
    <3> QED
        BY <3>1 DEF Continued
  <2> HIDE DEF i
  <2> DEFINE joined == [t.blocks[i] EXCEPT !.len = @ + b.len]
             blocks == [t.blocks EXCEPT ![i] = joined]
  <2>2. t.blocks[i] \in Block
      BY <1>1, <2>1
  <2>3. joined \in Block /\ joined.start = t.blocks[i].start /\ joined.len = t.blocks[i].len + b.len
      BY <2>2 DEF Block
  <2>4. Cells(joined) = Cells(t.blocks[i]) \cup Cells(b)
      BY <2>1, <2>2, <2>3, BlocksJoin
  <2> HIDE DEF joined
  <2>5. /\ blocks \in Seq(Block) /\ DOMAIN blocks = DOMAIN t.blocks /\ blocks[i] = joined
        /\ \A k \in DOMAIN t.blocks : k # i => blocks[k] = t.blocks[k]
    <3>1. blocks \in Seq(Block)
        BY <1>1, <2>1, <2>3
    <3> QED
        BY <2>1, <3>1
  <2>6. UNION {Cells(blocks[k]) : k \in DOMAIN blocks} = Covered(t) \cup Cells(b)
      BY <2>1, <2>4, <2>5 DEF Covered
  <2>7. longer = [blocks |-> blocks, image |-> t.image, regs |-> t.regs]
    <3>1. longer = [t EXCEPT !.blocks = blocks]
        BY DEF LongerBy, joined
    <3> HIDE DEF blocks
    <3> QED
        BY <1>1, <3>1
  <2> HIDE DEF longer, blocks
  <2>8. Room(t, b)
      BY <1>3 DEF Room
  <2>9. addMemoryBlock(t, b, v) = [blocks |-> blocks, image |-> image, regs |-> t.regs]
    <3>1. addMemoryBlock(t, b, v) = [longer EXCEPT !.image = [a \in Addr |-> IF a \in Cells(b) THEN v ELSE @[a]]]
        BY <1>3, <2>8 DEF addMemoryBlock, longer, i
    <3> QED
        BY <2>7, <3>1
  <2> HIDE DEF image
  <2>10. addMemoryBlock(t, b, v) \in TargetStates
      BY <1>1, <1>2, <2>5, <2>9 DEF TargetStates
  <2>11. Covered(addMemoryBlock(t, b, v)) = Covered(t) \cup Cells(b)
      BY <2>6, <2>9 DEF Covered
  <2>12. addMemoryBlock(t, b, v).regs = t.regs /\ addMemoryBlock(t, b, v).image = image
      BY <2>9
  <2> QED
      BY <2>10, <2>11, <2>12 DEF image
<1>4. CASE Continued(t, b) = {} /\ Room(t, b)
  <2> DEFINE blocks == Append(t.blocks, b)
  <2>1. /\ blocks \in Seq(Block) /\ Len(blocks) = Len(t.blocks) + 1 /\ Len(t.blocks) \in Nat
        /\ blocks[Len(t.blocks) + 1] = b /\ \A k \in 1..Len(t.blocks) : blocks[k] = t.blocks[k]
      BY <1>1, AppendProperties, LenProperties
  <2>2. DOMAIN blocks = 1..(Len(t.blocks) + 1) /\ DOMAIN t.blocks = 1..Len(t.blocks)
      BY <1>1, <2>1
  <2>3. addMemoryBlock(t, b, v) = [blocks |-> blocks, image |-> image, regs |-> t.regs]
    <3>1. further = [blocks |-> blocks, image |-> t.image, regs |-> t.regs]
        BY <1>1
    <3>2. addMemoryBlock(t, b, v) = [further EXCEPT !.image = [a \in Addr |-> IF a \in Cells(b) THEN v ELSE @[a]]]
        BY <1>4 DEF addMemoryBlock
    <3> HIDE DEF further, blocks
    <3> QED
        BY <3>1, <3>2
  <2> HIDE DEF blocks, image
  <2>4. UNION {Cells(blocks[k]) : k \in DOMAIN blocks} = Covered(t) \cup Cells(b)
    <3>1. DOMAIN blocks = DOMAIN t.blocks \cup {Len(t.blocks) + 1}
        BY <2>1, <2>2
    <3> QED
        BY <2>1, <2>2, <3>1 DEF Covered
  <2>5. addMemoryBlock(t, b, v) \in TargetStates
      BY <1>1, <1>2, <2>1, <2>3 DEF TargetStates
  <2>6. Covered(addMemoryBlock(t, b, v)) = Covered(t) \cup Cells(b)
      BY <2>3, <2>4 DEF Covered
  <2>7. addMemoryBlock(t, b, v).regs = t.regs /\ addMemoryBlock(t, b, v).image = image
      BY <2>3
  <2> QED
      BY <2>5, <2>6, <2>7 DEF image
<1>5. CASE ~Room(t, b)
    BY <1>5 DEF addMemoryBlock
<1> QED
    BY <1>3, <1>4, <1>5

LEMMA BlockWriteTypes ==
    ASSUME DataTypes, NEW cells, NEW f \in [Addr -> Memory], BlockWrite(cells, f)
    PROVE  ram' \in [Addr -> Memory] /\ mirror' \in [Addr -> Memory]
BY DEF DataTypes, BlockWrite, Patch

\* What the machine manager puts down, and where
StartHere == mc.exec /\ target.regs /\ ~tracking
Content   == [a \in Addr |-> IF StartHere /\ a \in DOMAIN StartCode THEN StartCode[a] ELSE target.image[a]]
Written   == Loaded \cup (IF StartHere THEN DOMAIN StartCode ELSE {})

LEMMA ContentTypes ==
    ASSUME DataTypes
    PROVE  Content \in [Addr -> Memory] /\ DOMAIN StartCode = {0, SetRegsAddr}
<1>1. StartCode \in [{0, SetRegsAddr} -> Memory]
    BY BytesAreMemory DEF StartCode
<1>2. target.image \in [Addr -> Byte]
    BY DEF DataTypes, TargetStates
<1> QED
    BY <1>1, <1>2, BytesAreMemory DEF Content

LEMMA CallbackTypes == Types /\ Callback => Types'
<1> SUFFICES ASSUME Types, Callback PROVE Types'
    OBVIOUS
<1>0. BusTypes /\ RoundTypes /\ FlagTypes /\ DataTypes
    BY DEF Types
<1>1. /\ commands' = commands /\ target' = target /\ order' = order /\ watched' = watched /\ pc' = pc
      /\ tracking' = tracking /\ mirrorMode' = mirrorMode /\ mirrorDue' = mirrorDue
    BY DEF Callback, HwCallback, BcCallback, McCallback, flags, data, history
<1>2. BusTypes'
  <2>1. UNCHANGED bus
      BY DEF Callback, HwCallback, BcCallback, McCallback
  <2> QED
      BY <1>0, <2>1 DEF BusTypes, bus
<1>3. RoundTypes'
    BY <1>0, HeadTailProperties DEF Callback, RoundTypes
<1>4. ASSUME NEW r, HwCallback(r) PROVE FlagTypes' /\ DataTypes'
    BY <1>0, <1>4 DEF HwCallback, FlagTypes, DataTypes, flags, history
<1>5. CASE BcCallback
  <2>1. acc' \in [pending : BOOLEAN, write : BOOLEAN, addr : Addr, val : Byte]
    <3>1. NoAccess \in [pending : BOOLEAN, write : BOOLEAN, addr : Addr, val : Byte]
        BY BytesAreMemory DEF NoAccess
    <3> QED
        BY <1>0, <1>5, <3>1 DEF BcCallback, Served, FlagTypes
  <2>2. FlagTypes'
      BY <1>0, <1>1, <1>5, <2>1 DEF BcCallback, FlagTypes
  <2>3. [a \in Addr |-> acc.val] \in [Addr -> Memory]
      BY <1>0, BytesAreMemory DEF FlagTypes
  <2>4. ram' \in [Addr -> Memory] /\ mirror' \in [Addr -> Memory]
    <3>1. CASE acc.pending /\ acc.write
        BY <1>0, <1>5, <2>3, <3>1, BlockWriteTypes DEF BcCallback
    <3>2. CASE ~(acc.pending /\ acc.write)
        BY <1>0, <1>5, <3>2 DEF BcCallback, DataTypes
    <3> QED
        BY <3>1, <3>2
  <2> QED
      BY <1>0, <1>1, <1>2, <1>3, <2>2, <2>4 DEF DataTypes, Types
<1>6. CASE McCallback
  <2>1. mc' \in [program : BOOLEAN, exec : BOOLEAN, display : BOOLEAN] /\ reset' \in {"NO", "ASKED", "LOW"}
      BY <1>0, <1>6 DEF McCallback, FlagTypes
  <2>2. FlagTypes'
      BY <1>0, <1>1, <1>6, <2>1 DEF McCallback, FlagTypes
  <2>3. ram' \in [Addr -> Memory] /\ mirror' \in [Addr -> Memory]
    <3>1. CASE mc.program
      <4>1. BlockWrite(Written, Content)
          BY <1>6, <3>1 DEF McCallback, Written, Content, StartHere
      <4> QED
          BY <1>0, <4>1, ContentTypes, BlockWriteTypes
    <3>2. CASE ~mc.program
        BY <1>0, <1>6, <3>2 DEF McCallback, DataTypes
    <3> QED
        BY <3>1, <3>2
  <2> QED
      BY <1>0, <1>1, <1>2, <1>3, <2>2, <2>3 DEF DataTypes, Types
<1>7. CASE UNCHANGED <<bus, reset, flags, data, commands, history>>
  <2>1. UNCHANGED <<reset, mc, acc, ram, mirror>>
      BY <1>7 DEF flags, data
  <2>2. FlagTypes'
      BY <1>0, <1>1, <2>1 DEF FlagTypes
  <2> QED
      BY <1>0, <1>1, <1>2, <1>3, <2>1, <2>2 DEF DataTypes, Types
<1> QED
    BY <1>2, <1>3, <1>4, <1>5, <1>6, <1>7 DEF Callback, Types

LEMMA RunningTypes ==
    ASSUME Types, DisplayRefresh \/ AccessReturns \/ PendingOff \/ RequestMirror
                  \/ (\E a \in Stored, v \in Byte : Z80Write(a, v))
    PROVE  Types'
<1>0. BusTypes /\ RoundTypes /\ FlagTypes /\ DataTypes
    BY DEF Types
<1>1. ASSUME NEW a \in Stored, NEW v \in Byte, Z80Write(a, v) PROVE Types'
  <2>1. a \in Addr /\ v \in Memory
      BY BytesAreMemory
  <2>2. DataTypes'
      BY <1>0, <1>1, <2>1 DEF Z80Write, Followed, DataTypes, history
  <2> QED
      BY <1>0, <1>1, <2>2 DEF Z80Write, BusTypes, RoundTypes, FlagTypes, Types, bus, flags, history
<1>2. CASE DisplayRefresh
  <2>1. BusTypes'
    <3>1. "MC" \in Sockets /\ "DISPLAY" \in Reasons
        BY Names DEF Reasons
    <3>2. CASE tracking
        BY <1>0, <1>2, <3>2 DEF DisplayRefresh, BusTypes, bus
    <3> QED
        BY <1>0, <1>2, <3>1, <3>2, AskTypes DEF DisplayRefresh
  <2>2. mc' \in [program : BOOLEAN, exec : BOOLEAN, display : BOOLEAN]
      BY <1>0, <1>2 DEF DisplayRefresh, FlagTypes
  <2> QED
      BY <1>0, <1>2, <2>1, <2>2 DEF DisplayRefresh, RoundTypes, FlagTypes, DataTypes, Types, data, history
<1>3. CASE AccessReturns
  <2>1. acc' \in [pending : BOOLEAN, write : BOOLEAN, addr : Addr, val : Byte]
      BY <1>3, BytesAreMemory DEF AccessReturns, GivenUp, NoAccess
  <2> QED
      BY <1>0, <1>3, <2>1 DEF AccessReturns, BusTypes, RoundTypes, FlagTypes, DataTypes, Types, bus, data
<1>4. CASE PendingOff
  <2>1. BusTypes' /\ RoundTypes'
      BY <1>0, <1>4 DEF PendingOff, BusTypes, RoundTypes, bus
  <2>2. FlagTypes' /\ DataTypes'
      BY <1>0, <1>4 DEF PendingOff, FlagTypes, DataTypes, data, history
  <2> QED
      BY <2>1, <2>2 DEF Types
<1>5. CASE RequestMirror
  <2>1. BusTypes'
    <3>1. "TT" \in Sockets /\ MirrorReason \in Reasons
        BY Names DEF Reasons, MirrorReason
    <3> QED
        BY <1>0, <1>5, <3>1, AskTypes DEF RequestMirror
  <2>2. RoundTypes' /\ DataTypes'
      BY <1>0, <1>5 DEF RequestMirror, RoundTypes, DataTypes, data, history
  <2>3. FlagTypes'
      BY <1>0, <1>5 DEF RequestMirror, FlagTypes, data, history
  <2> QED
      BY <2>1, <2>2, <2>3 DEF Types
<1> QED
    BY <1>1, <1>2, <1>3, <1>4, <1>5

LEMMA CommandTypes == Types /\ Command => Types'
<1> SUFFICES ASSUME Types, Command PROVE Types'
    OBVIOUS
<1>0. BusTypes /\ RoundTypes /\ FlagTypes /\ DataTypes
    BY DEF Types
<1>1. commands' \in 0..MaxCommands
    BY <1>0, BytesAreMemory DEF Command, FlagTypes
<1>2. CASE ClearTarget
  <2>1. clear \in TargetStates /\ [a \in Addr |-> NONE] \in [Addr -> Byte \cup {NONE}]
      BY BytesAreMemory DEF clear, TargetStates
  <2> QED
      BY <1>0, <1>1, <1>2, <2>1 DEF ClearTarget, BusTypes, RoundTypes, FlagTypes, DataTypes, Types, bus, flags
<1>3. CASE SetRegisters
  <2>1. target' \in TargetStates
      BY <1>0, <1>3 DEF SetRegisters, setTargetRegisters, DataTypes, TargetStates
  <2> QED
      BY <1>0, <1>1, <1>3, <2>1 DEF SetRegisters, BusTypes, RoundTypes, FlagTypes, DataTypes, Types, bus, flags, history
<1>4. CASE ResetTarget
    BY <1>0, <1>1, <1>4
       DEF ResetTarget, BusTypes, RoundTypes, FlagTypes, DataTypes, Types, bus, flags, data, history
<1>5. ASSUME NEW b \in Block, NEW v \in Byte, AddBlock(b, v) PROVE Types'
  <2>1. target' \in TargetStates
      BY <1>0, <1>5, AddBlockAdds DEF AddBlock, DataTypes
  <2>2. order' \in [Addr -> Byte \cup {NONE}]
      BY <1>0, <1>5 DEF AddBlock, DataTypes
  <2> QED
      BY <1>0, <1>1, <1>5, <2>1, <2>2 DEF AddBlock, BusTypes, RoundTypes, FlagTypes, DataTypes, Types, bus, flags
<1>6. ASSUME NEW exec \in BOOLEAN, ProgramTarget(exec) PROVE Types'
  <2>1. BusTypes'
    <3>1. "MC" \in Sockets /\ "PROGRAMMING" \in Reasons
        BY Names DEF Reasons
    <3>2. CASE target.blocks = <<>>
        BY <1>0, <1>6, <3>2 DEF ProgramTarget, BusTypes, bus
    <3> QED
        BY <1>0, <1>6, <3>1, <3>2, AskTypes DEF ProgramTarget
  <2>2. mc' \in [program : BOOLEAN, exec : BOOLEAN, display : BOOLEAN]
      BY <1>0, <1>6 DEF ProgramTarget, FlagTypes
  <2> QED
      BY <1>0, <1>1, <1>6, <2>1, <2>2 DEF ProgramTarget, RoundTypes, FlagTypes, DataTypes, Types, data, history
<1>7. ASSUME NEW write \in BOOLEAN, NEW a \in Addr, NEW v \in Byte, BlockAccessSync(write, a, v) PROVE Types'
  <2>1. BusTypes'
    <3>1. "BC" \in Sockets /\ "GENERAL" \in Reasons
        BY Names DEF Reasons
    <3> QED
        BY <1>0, <1>7, <3>1, AskTypes DEF BlockAccessSync
  <2> QED
      BY <1>0, <1>1, <1>7, <2>1 DEF BlockAccessSync, RoundTypes, FlagTypes, DataTypes, Types, data
<1>8. ASSUME NEW r \in BOOLEAN, TrackerOn(r) PROVE Types'
  <2>1. BusTypes' /\ RoundTypes'
      BY <1>0, <1>8 DEF TrackerOn, BusTypes, RoundTypes, bus
  <2>2. FlagTypes'
      BY <1>0, <1>1, <1>8 DEF TrackerOn, FlagTypes
  <2>3. DataTypes'
      BY <1>0, <1>8 DEF TrackerOn, DataTypes, data
  <2> QED
      BY <2>1, <2>2, <2>3 DEF Types
<1>9. CASE TrackerOff
  <2>1. tracking' \in BOOLEAN
    <3>1. tracking' = tracking \/ tracking' = FALSE
        BY <1>9 DEF TrackerOff
    <3>2. CASE tracking' = tracking
        BY <1>0, <3>2 DEF FlagTypes
    <3> QED
        BY <3>1, <3>2
  <2>2. BusTypes' /\ RoundTypes'
      BY <1>0, <1>9 DEF TrackerOff, BusTypes, RoundTypes, bus
  <2>3. FlagTypes'
      BY <1>0, <1>1, <1>9, <2>1 DEF TrackerOff, FlagTypes, history
  <2>4. DataTypes'
      BY <1>0, <1>9 DEF TrackerOff, DataTypes, data, history
  <2> QED
      BY <2>2, <2>3, <2>4 DEF Types
<1>10. \A a \in Addr, n \in 1..2 : [start |-> a, len |-> n] \in Block
    BY BytesAreMemory DEF Block
<1> QED
    BY <1>2, <1>3, <1>4, <1>5, <1>6, <1>7, <1>8, <1>9, <1>10, BytesAreMemory DEF Command

LEMMA StepKeepsTypes == Types /\ [Next]_vars => Types'
<1> SUFFICES ASSUME Types, [Next]_vars PROVE Types'
    OBVIOUS
<1>1. CASE UNCHANGED vars
    BY <1>1 DEF vars, bus, flags, data, history, Types, BusTypes, RoundTypes, FlagTypes, DataTypes
<1> QED
    BY <1>1, LineTypes, CallbackTypes, RunningTypes, CommandTypes DEF Next

\* What the types rest on: what each action does to each group of variables.
THEOREM ClientTypes == Spec => []Types
<1>1. Init => Types
    BY InitTypes
<1>2. Types /\ [Next]_vars => Types'
    BY StepKeepsTypes
<1> QED
    BY <1>1, <1>2, PTL DEF Spec

\* The clients keep their types, and a bus request in progress has the socket it was begun
\* for: with any memory, any rules of the host and any number of commands.
THEOREM TypesHold == Spec => []TypeOK
BY ClientTypes, TypesSuffice, PTL

-----------------------------------------------------------------------------
(* The block access *)

LEMMA InitAccess == Init => AccessInv
BY DEF Init, AccessInv, AccessOnce, NoAccess, NONE

\* Only the call itself, its callback and its return touch what AccessInv is about.
LEMMA AccessUntouched == AccessInv /\ UNCHANGED <<pc, acc, call>> => AccessInv'
BY DEF AccessInv, AccessOnce

LEMMA CallbackAccess == AccessInv /\ Callback => AccessInv'
<1> SUFFICES ASSUME AccessInv, Callback PROVE AccessInv'
    OBVIOUS
<1>1. CASE BcCallback
  <2>1. CASE ~acc.pending
      BY <1>1, <2>1, AccessUntouched DEF BcCallback
  <2>2. CASE acc.pending
    <3>1. pc = "SYNC" /\ call.served = 0 /\ call.answer = NONE
        BY <2>2 DEF AccessInv
    <3>2. /\ acc' = NoAccess /\ pc' = pc
          /\ call' = [call EXCEPT !.served = IF @ < 2 THEN @ + 1 ELSE @]
        BY <1>1, <2>2 DEF BcCallback, Served
    <3>3. call'.answer = NONE /\ ("served" \in DOMAIN call => call'.served = 1)
        BY <3>1, <3>2
    <3> QED
        BY <3>1, <3>2, <3>3 DEF AccessInv, AccessOnce, NoAccess, NONE
  <2> QED
      BY <2>1, <2>2
<1>2. CASE ~BcCallback
  <2>1. UNCHANGED <<pc, acc, call>>
      BY <1>2 DEF Callback, HwCallback, McCallback, flags, history
  <2> QED
      BY <2>1, AccessUntouched
<1> QED
    BY <1>1, <1>2

LEMMA StepKeepsAccess == AccessInv /\ [Next]_vars => AccessInv'
<1> SUFFICES ASSUME AccessInv, [Next]_vars PROVE AccessInv'
    OBVIOUS
<1>1. CASE Callback
    BY <1>1, CallbackAccess
<1>2. CASE AccessReturns
  <2>1. /\ pc = "SYNC" /\ pc' = "LOOP" /\ acc' = NoAccess
        /\ call' = [call EXCEPT !.answer = IF acc.pending THEN "NO_BUS_ACK" ELSE "OK"]
      BY <1>2 DEF AccessReturns, GivenUp
  <2>2. call.served = IF acc.pending THEN 0 ELSE 1
      BY <2>1 DEF AccessInv
  <2> QED
      BY <2>1, <2>2 DEF AccessInv, AccessOnce, NoAccess, NONE
<1>3. CASE Command
  <2>1. ASSUME NEW write \in BOOLEAN, NEW a \in Addr, NEW v, BlockAccessSync(write, a, v)
        PROVE  AccessInv'
      BY <2>1 DEF BlockAccessSync, AccessInv, AccessOnce, NONE
  <2>2. CASE \/ ClearTarget \/ SetRegisters \/ ResetTarget \/ TrackerOff
             \/ (\E b, v : AddBlock(b, v)) \/ (\E exec \in BOOLEAN : ProgramTarget(exec))
             \/ (\E r \in BOOLEAN : TrackerOn(r))
    <3>1. UNCHANGED <<pc, acc, call>>
        BY <2>2 DEF ClearTarget, SetRegisters, ResetTarget, TrackerOff, AddBlock, ProgramTarget, TrackerOn,
                    flags, history
    <3> QED
        BY <3>1, AccessUntouched
  <2> QED
      BY <1>3, <2>1, <2>2 DEF Command
<1>4. CASE \/ Pull \/ Yield \/ Resume \/ Take \/ GiveBack \/ GiveUp \/ ResetStart \/ ResetEnd
           \/ (\E a \in Stored, v \in Byte : Z80Write(a, v))
           \/ DisplayRefresh \/ PendingOff \/ RequestMirror \/ UNCHANGED vars
  <2>1. UNCHANGED <<pc, acc, call>>
      BY <1>4 DEF Pull, Yield, Resume, Take, GiveBack, GiveUp, ResetStart, ResetEnd, Z80Write,
                  DisplayRefresh, PendingOff, RequestMirror, vars, flags, history
  <2> QED
      BY <2>1, AccessUntouched
<1> QED
    BY <1>1, <1>2, <1>3, <1>4 DEF Next

\* The inductive invariant of a block access, whatever the rules the host keeps to.
THEOREM AccessInvariant == Spec => []AccessInv
<1>1. Init => AccessInv
    BY InitAccess
<1>2. AccessInv /\ [Next]_vars => AccessInv'
    BY StepKeepsAccess
<1> QED
    BY <1>1, <1>2, PTL DEF Spec

\* blockAccessSync tells the truth: OK for an access that took place once during the call,
\* and one it has given up never takes place.
THEOREM AccessHappensOnce == Spec => []AccessOnce
<1>1. AccessInv => AccessOnce
    BY DEF AccessInv
<1> QED
    BY <1>1, AccessInvariant, PTL

-----------------------------------------------------------------------------
(* The mirror *)

\* What the tracker asks for
ForTracker == DOMAIN reason = Sockets /\ ("TT" \in want => reason["TT"] = "MIRROR")

\* A request of another socket takes nothing from the tracker's.
LEMMA OtherAsks ==
    ASSUME ForTracker, NEW s \in {"BC", "MC"}, NEW r, TargetReqBus(s, r)
    PROVE  ForTracker'
<1>1. want' = want \cup {s} /\ reason' = [reason EXCEPT ![s] = r]
    BY DEF TargetReqBus, Arb!Ask
<1>2. DOMAIN reason' = Sockets /\ reason'["TT"] = reason["TT"] /\ ("TT" \in want' <=> "TT" \in want)
    BY <1>1 DEF ForTracker, Sockets, SocketOrder
<1> QED
    BY <1>2 DEF ForTracker

\* The tracker's own request is for the mirror.
LEMMA TrackerAsks ==
    ASSUME ForTracker, TargetReqBus("TT", MirrorReason)
    PROVE  ForTracker'
<1>1. reason' = [reason EXCEPT !["TT"] = "MIRROR"] /\ "TT" \in Sockets
    BY DEF TargetReqBus, MirrorReason, Sockets, SocketOrder
<1> QED
    BY <1>1 DEF ForTracker

\* The first callback of a grant for the mirror is the card's.
LEMMA CardFirst == Rounds("MIRROR") # <<>> /\ Head(Rounds("MIRROR")) = <<"HW", "MIRROR">>
<1>1. CASE tracking
    BY <1>1 DEF Rounds, Callbacks, SocketOrder
<1>2. CASE ~tracking
    BY <1>2 DEF Rounds, Callbacks
<1> QED
    BY <1>1, <1>2

\* The rest of MirrorAgrees
Undisturbed == /\ tracking \in BOOLEAN /\ mirrorMode \in BOOLEAN
               /\ mc \in [program : BOOLEAN, exec : BOOLEAN, display : BOOLEAN]
               /\ ((acc.pending /\ acc.write) \/ mc.program => ~tracking /\ ~mirrorMode)
Copied == Watching => mirror = ram \/ (master = "PI" /\ round # <<>> /\ Head(round) = <<"HW", "MIRROR">>)

LEMMA MirrorParts == MirrorAgrees <=> ForTracker /\ Undisturbed /\ Copied
BY DEF MirrorAgrees, ForTracker, Undisturbed, Copied
LEMMA MirrorPartsNext == ForTracker' /\ Undisturbed' /\ Copied' => MirrorAgrees'
BY DEF MirrorAgrees, ForTracker, Undisturbed, Copied

LEMMA InitMirror == Init => MirrorAgrees
<1> SUFFICES ASSUME Init PROVE ForTracker /\ Undisturbed /\ Copied
    BY MirrorParts
<1> QED
    BY DEF Init, Arb!Init, ForTracker, Undisturbed, Copied, Watching, NoAccess

LEMMA BusSteps ==
    ASSUME MirrorAgrees, Pull \/ Yield \/ Resume \/ GiveUp \/ ResetStart \/ ResetEnd
    PROVE  MirrorAgrees'
<1>0. ForTracker /\ Undisturbed /\ Copied
    BY MirrorParts
<1>1. UNCHANGED <<tracking, mirrorMode, mc, acc, mirror, ram, watched, master, round, reason>>
    BY DEF Pull, Yield, Resume, GiveUp, ResetStart, ResetEnd, Arb!Pull, Arb!Yield, Arb!Resume, Arb!GiveUp,
           bus, flags, data, history
<1>2. Undisturbed' /\ Copied'
    BY <1>0, <1>1 DEF Undisturbed, Copied, Watching
<1>3. CASE Pull
    BY <1>0, <1>1, <1>2, <1>3, MirrorPartsNext DEF Pull, Arb!Pull, ForTracker
<1>4. CASE GiveUp
    BY <1>0, <1>1, <1>2, <1>4, MirrorPartsNext DEF GiveUp, Arb!GiveUp, ForTracker
<1>5. CASE Yield \/ Resume \/ ResetStart \/ ResetEnd
    BY <1>0, <1>1, <1>2, <1>5, MirrorPartsNext
       DEF Yield, Resume, ResetStart, ResetEnd, Arb!Yield, Arb!Resume, ForTracker, bus
<1> QED
    BY <1>3, <1>4, <1>5

LEMMA GrantSteps ==
    ASSUME MirrorAgrees, Take \/ Callback \/ GiveBack
    PROVE  MirrorAgrees'
<1>0. ForTracker /\ Undisturbed /\ Copied
    BY MirrorParts
<1>1. CASE Take
  <2>1. /\ master = "CPU" /\ busrq /\ want' = {} /\ master' = "PI" /\ round' = Rounds(reason[starter])
        /\ watched' = (watched \/ ("TT" \in want /\ starter = "TT"))
        /\ UNCHANGED <<reason, tracking, mirrorMode, mc, acc, mirror, ram>>
      BY <1>1 DEF Take, Arb!Take, flags, data
  <2>2. ForTracker' /\ Undisturbed'
      BY <1>0, <2>1 DEF ForTracker, Undisturbed
  <2>3. CASE "TT" \in want /\ starter = "TT"
    <3>1. round' = Rounds("MIRROR")
        BY <1>0, <2>1, <2>3 DEF ForTracker
    <3> QED
        BY <2>1, <2>2, <3>1, CardFirst, MirrorPartsNext DEF Copied
  <2>4. CASE ~("TT" \in want /\ starter = "TT")
    <3>1. Watching' => mirror' = ram'
        BY <1>0, <2>1, <2>4 DEF Copied, Watching
    <3> QED
        BY <2>2, <3>1, MirrorPartsNext DEF Copied
  <2> QED
      BY <2>3, <2>4
<1>2. CASE GiveBack
  <2>1. /\ master = "PI" /\ round = <<>> /\ want' = want /\ busrq' = FALSE
        /\ UNCHANGED <<reason, tracking, mirrorMode, mc, acc, mirror, ram, watched, round>>
      BY <1>2 DEF GiveBack, Arb!GiveBack, flags, data, history
  <2>2. ForTracker' /\ Undisturbed'
      BY <1>0, <2>1 DEF ForTracker, Undisturbed
  <2>3. Copied'
      BY <1>0, <2>1 DEF Copied, Watching
  <2> QED
      BY <2>2, <2>3, MirrorPartsNext
<1>3. CASE Callback
  <2>1. /\ master = "PI" /\ round # <<>> /\ UNCHANGED <<want, busrq, starter, reason, master>>
        /\ UNCHANGED <<tracking, mirrorMode, watched>>
      BY <1>3 DEF Callback, HwCallback, BcCallback, McCallback, bus, flags, history
  <2>2. ForTracker'
      BY <1>0, <2>1 DEF ForTracker
  <2>3. CASE HwCallback(Head(round)[2]) /\ Head(round)[1] = "HW"
    <3>1. /\ mirror' = (IF Head(round)[2] = "MIRROR" /\ mirrorMode THEN ram ELSE mirror)
          /\ UNCHANGED <<ram, mc, acc>>
        BY <2>3 DEF HwCallback, flags
    <3>2. Undisturbed'
        BY <1>0, <2>1, <3>1 DEF Undisturbed
    <3>3. Watching' => mirror' = ram'
      <4>1. SUFFICES ASSUME Watching PROVE mirror' = ram
          BY <2>1, <3>1 DEF Watching
      <4>2. mirror = ram \/ Head(round) = <<"HW", "MIRROR">>
          BY <1>0, <4>1 DEF Copied
      <4> QED
          BY <3>1, <4>1, <4>2 DEF Watching
    <3> QED
        BY <2>2, <3>2, <3>3, MirrorPartsNext DEF Copied
  <2>4. CASE Head(round)[1] # "HW"
    <3>1. Watching => mirror = ram
        BY <1>0, <2>4 DEF Copied
    <3>2. CASE UNCHANGED <<bus, reset, flags, data, commands, history>>
      <4>1. UNCHANGED <<mc, acc, mirror, ram>>
          BY <3>2 DEF flags, data
      <4> QED
          BY <1>0, <2>1, <2>2, <3>1, <4>1, MirrorPartsNext DEF Undisturbed, Copied, Watching
    <3>3. CASE BcCallback
      <4>1. mc' = mc /\ (acc'.pending => acc' = acc)
          BY <3>3 DEF BcCallback, Served, NoAccess
      <4>2. Undisturbed'
          BY <1>0, <2>1, <4>1 DEF Undisturbed
      <4>3. Watching => UNCHANGED <<mirror, ram>>
          BY <1>0, <3>3 DEF BcCallback, Undisturbed, Watching
      <4> QED
          BY <2>1, <2>2, <3>1, <4>2, <4>3, MirrorPartsNext DEF Copied, Watching
    <3>4. CASE McCallback
      <4>1. acc' = acc /\ mc' = [mc EXCEPT !.program = FALSE, !.display = FALSE]
          BY <3>4 DEF McCallback
      <4>2. mc' \in [program : BOOLEAN, exec : BOOLEAN, display : BOOLEAN] /\ ~mc'.program
          BY <1>0, <4>1 DEF Undisturbed
      <4>3. Undisturbed'
          BY <1>0, <2>1, <4>1, <4>2 DEF Undisturbed
      <4>4. Watching => UNCHANGED <<mirror, ram>>
          BY <1>0, <3>4 DEF McCallback, Undisturbed, Watching
      <4> QED
          BY <2>1, <2>2, <3>1, <4>3, <4>4, MirrorPartsNext DEF Copied, Watching
    <3> QED
        BY <1>3, <2>4, <3>2, <3>3, <3>4 DEF Callback
  <2> QED
      BY <1>3, <2>3, <2>4 DEF Callback
<1> QED
    BY <1>1, <1>2, <1>3

LEMMA RunningSteps ==
    ASSUME MirrorAgrees, "DEBUG_ALONE" \notin Lax,
           DisplayRefresh \/ AccessReturns \/ PendingOff \/ RequestMirror
           \/ (\E a \in Stored, v \in Byte : Z80Write(a, v))
    PROVE  MirrorAgrees'
<1>0. ForTracker /\ Undisturbed /\ Copied
    BY MirrorParts
<1>1. ASSUME NEW a \in Stored, NEW v \in Byte, Z80Write(a, v) PROVE MirrorAgrees'
  <2>1. /\ master = "CPU" /\ ram' = [ram EXCEPT ![a] = v] /\ mirror' = Followed(a, v)
        /\ UNCHANGED <<want, busrq, starter, reason, master, tracking, mirrorMode, mc, acc, watched>>
      BY <1>1 DEF Z80Write, bus, flags, history
  <2>2. ForTracker' /\ Undisturbed'
      BY <1>0, <2>1 DEF ForTracker, Undisturbed
  <2>3. Watching' => mirror' = ram'
      BY <1>0, <2>1 DEF Copied, Watching, Followed
  <2> QED
      BY <2>2, <2>3, MirrorPartsNext DEF Copied
<1>2. CASE DisplayRefresh
  <2>1. /\ mc' = [mc EXCEPT !.display = TRUE] /\ master = "CPU"
        /\ UNCHANGED <<tracking, mirrorMode, acc, mirror, ram, watched>>
      BY <1>2 DEF DisplayRefresh, data, history
  <2>2. Undisturbed'
      BY <1>0, <2>1 DEF Undisturbed
  <2>3. ForTracker'
    <3>1. CASE tracking
        BY <1>0, <1>2, <3>1 DEF DisplayRefresh, ForTracker, bus
    <3>2. CASE ~tracking
        BY <1>0, <1>2, <3>2, OtherAsks DEF DisplayRefresh
    <3> QED
        BY <3>1, <3>2
  <2>4. Copied'
      BY <1>0, <2>1 DEF Copied, Watching
  <2> QED
      BY <2>2, <2>3, <2>4, MirrorPartsNext
<1>3. CASE AccessReturns
  <2>1. /\ ~acc'.pending
        /\ UNCHANGED <<want, busrq, starter, reason, master, round, tracking, mirrorMode, mc, mirror, ram, watched>>
      BY <1>3 DEF AccessReturns, GivenUp, NoAccess, bus, data
  <2> QED
      BY <1>0, <2>1, MirrorPartsNext DEF ForTracker, Undisturbed, Copied, Watching
<1>4. CASE PendingOff
  <2>1. /\ ~tracking' /\ tracking' \in BOOLEAN
        /\ UNCHANGED <<want, busrq, starter, reason, mirrorMode, mc, acc>>
      BY <1>4 DEF PendingOff, bus
  <2> QED
      BY <1>0, <2>1, MirrorPartsNext DEF ForTracker, Undisturbed, Copied, Watching
<1>5. CASE RequestMirror
  <2>1. /\ master = "CPU" /\ TargetReqBus("TT", MirrorReason)
        /\ UNCHANGED <<tracking, mirrorMode, mc, acc, mirror, ram, watched>>
      BY <1>5 DEF RequestMirror, data, history
  <2>2. ForTracker'
      BY <1>0, <2>1, TrackerAsks
  <2>3. Undisturbed' /\ Copied'
      BY <1>0, <2>1 DEF Undisturbed, Copied, Watching
  <2> QED
      BY <2>2, <2>3, MirrorPartsNext
<1> QED
    BY <1>1, <1>2, <1>3, <1>4, <1>5

LEMMA CommandSteps ==
    ASSUME MirrorAgrees, AccessInv, "DEBUG_ALONE" \notin Lax, Command
    PROVE  MirrorAgrees'
<1>0. ForTracker /\ Undisturbed /\ Copied /\ pc = "LOOP" /\ master = "CPU" /\ ~acc.pending
    BY MirrorParts DEF Command, AccessInv
<1>1. CASE ClearTarget \/ SetRegisters \/ ResetTarget \/ (\E b, v : AddBlock(b, v))
  <2>1. UNCHANGED <<want, busrq, starter, reason, master, round, tracking, mirrorMode, mc, acc, mirror, ram, watched>>
      BY <1>1 DEF ClearTarget, SetRegisters, ResetTarget, AddBlock, bus, flags, data, history
  <2> QED
      BY <1>0, <2>1, MirrorPartsNext DEF ForTracker, Undisturbed, Copied, Watching
<1>2. ASSUME NEW exec \in BOOLEAN, ProgramTarget(exec) PROVE MirrorAgrees'
  <2>1. /\ ~tracking /\ ~mirrorMode /\ UNCHANGED <<tracking, mirrorMode, acc>>
        /\ \/ UNCHANGED <<bus, mc>>
           \/ TargetReqBus("MC", "PROGRAMMING") /\ mc' = [mc EXCEPT !.program = TRUE, !.exec = exec]
      BY <1>0, <1>2 DEF ProgramTarget, MayTouch, Undisturbed
  <2>2. ForTracker'
    <3>1. CASE UNCHANGED <<bus, mc>>
        BY <1>0, <3>1 DEF ForTracker, bus
    <3> QED
        BY <1>0, <2>1, <3>1, OtherAsks
  <2>3. mc' \in [program : BOOLEAN, exec : BOOLEAN, display : BOOLEAN]
      BY <1>0, <2>1 DEF Undisturbed
  <2>4. Undisturbed' /\ Copied'
      BY <1>0, <2>1, <2>3 DEF Undisturbed, Copied, Watching
  <2> QED
      BY <2>2, <2>4, MirrorPartsNext
<1>3. ASSUME NEW write \in BOOLEAN, write => MayTouch, NEW a \in Addr, NEW v, BlockAccessSync(write, a, v)
      PROVE  MirrorAgrees'
  <2>1. /\ write => ~tracking /\ ~mirrorMode
        /\ acc'.write = write /\ master = "CPU" /\ TargetReqBus("BC", "GENERAL")
        /\ UNCHANGED <<tracking, mirrorMode, mc, mirror, ram, watched>>
      BY <1>0, <1>3 DEF BlockAccessSync, MayTouch, Undisturbed, data
  <2>2. ForTracker'
      BY <1>0, <2>1, OtherAsks
  <2>3. Undisturbed' /\ Copied'
      BY <1>0, <2>1 DEF Undisturbed, Copied, Watching
  <2> QED
      BY <2>2, <2>3, MirrorPartsNext
<1>4. ASSUME MayTrack, NEW r \in BOOLEAN, TrackerOn(r) PROVE MirrorAgrees'
  <2>1. /\ ~mc.program /\ tracking' = TRUE /\ mirrorMode' = TRUE /\ watched' = FALSE
        /\ UNCHANGED <<want, busrq, starter, reason, mc, acc>>
      BY <1>0, <1>4 DEF TrackerOn, MayTrack, bus
  <2> QED
      BY <1>0, <2>1, MirrorPartsNext DEF ForTracker, Undisturbed, Copied, Watching
<1>5. CASE TrackerOff
  <2>1. /\ mirrorMode' = FALSE /\ tracking' \in {tracking, FALSE}
        /\ UNCHANGED <<want, busrq, starter, reason, mc, acc>>
      BY <1>5 DEF TrackerOff, bus
  <2>2. tracking' \in BOOLEAN /\ (tracking' => tracking)
    <3>1. CASE tracking' = tracking
        BY <1>0, <3>1 DEF Undisturbed
    <3>2. CASE tracking' = FALSE
        BY <3>2
    <3> QED
        BY <2>1, <3>1, <3>2
  <2>3. ForTracker'
      BY <1>0, <2>1 DEF ForTracker
  <2>4. mc' \in [program : BOOLEAN, exec : BOOLEAN, display : BOOLEAN]
        /\ ((acc'.pending /\ acc'.write) \/ mc'.program => ~tracking' /\ ~mirrorMode')
      BY <1>0, <2>1, <2>2 DEF Undisturbed
  <2> QED
      BY <2>1, <2>2, <2>3, <2>4, MirrorPartsNext DEF Undisturbed, Copied, Watching
<1> QED
    BY <1>1, <1>2, <1>3, <1>4, <1>5 DEF Command

LEMMA StepKeepsMirror ==
    ASSUME "DEBUG_ALONE" \notin Lax
    PROVE  MirrorAgrees /\ AccessInv /\ [Next]_vars => MirrorAgrees'
<1> SUFFICES ASSUME MirrorAgrees, AccessInv, [Next]_vars PROVE MirrorAgrees'
    OBVIOUS
<1>1. CASE UNCHANGED vars
  <2>1. UNCHANGED <<want, busrq, starter, reason, master, round, tracking, mirrorMode, mc, acc, mirror, ram, watched>>
      BY <1>1 DEF vars, bus, flags, data, history
  <2> QED
      BY <2>1, MirrorParts, MirrorPartsNext DEF ForTracker, Undisturbed, Copied, Watching
<1> QED
    BY <1>1, BusSteps, GrantSteps, RunningSteps, CommandSteps DEF Next

\* While the tracker is on, the mirror the debugger looks at is the memory, from the first
\* grant on that was begun for the tracker (HwRAMROM::handleBusActionComplete): for a host
\* that does not write to the memory meanwhile (it may read), for every memory, every
\* program and every order of requests, grants and failures.
THEOREM MirrorIsTrue ==
    ASSUME "DEBUG_ALONE" \notin Lax
    PROVE  Spec => []MirrorTrue
<1>1. Init => MirrorAgrees
    BY InitMirror
<1>2. MirrorAgrees /\ AccessInv /\ [Next]_vars => MirrorAgrees'
    BY StepKeepsMirror
<1>3. MirrorAgrees => MirrorTrue
    BY DEF MirrorAgrees, MirrorTrue, Watching
<1> QED
    BY <1>1, <1>2, <1>3, AccessInvariant, PTL DEF Spec

-----------------------------------------------------------------------------
(* The program in memory *)

\* What the host has ordered is what the target state holds: each address that a block
\* covers, with the value in the image.
OrderKept == \A a \in Addr : order[a] = IF a \in Covered(target) THEN target.image[a] ELSE NONE

LEMMA InitOrder == Init => OrderKept
<1> SUFFICES ASSUME Init PROVE OrderKept
    OBVIOUS
<1>1. target.blocks = <<>> /\ order = [a \in Addr |-> NONE]
    BY DEF Init, clear
<1>2. Covered(target) = {}
    BY <1>1 DEF Covered
<1> QED
    BY <1>1, <1>2 DEF OrderKept

\* The commands that change the program, and those that leave it alone
LEMMA StepKeepsOrder ==
    ASSUME "ROOM" \notin Lax
    PROVE  Types /\ OrderKept /\ [Next]_vars => OrderKept'
<1> SUFFICES ASSUME Types, OrderKept, [Next]_vars PROVE OrderKept'
    OBVIOUS
<1>0. target \in TargetStates /\ order \in [Addr -> Byte \cup {NONE}]
    BY DEF Types, DataTypes
<1>1. CASE ClearTarget
  <2>1. target' = clear /\ order' = [a \in Addr |-> NONE]
      BY <1>1 DEF ClearTarget
  <2>2. Covered(clear) = {}
      BY DEF Covered, clear
  <2> QED
      BY <2>1, <2>2 DEF OrderKept
<1>2. ASSUME NEW b \in Block, NEW v \in Byte, AddBlock(b, v) PROVE OrderKept'
  <2>1. /\ Room(target, b) /\ target' = addMemoryBlock(target, b, v)
        /\ order' = [a \in Addr |-> IF a \in Cells(b) THEN v ELSE order[a]]
      BY <1>2 DEF AddBlock
  <2>2. /\ Covered(target') = Covered(target) \cup Cells(b)
        /\ target'.image = [a \in Addr |-> IF a \in Cells(b) THEN v ELSE target.image[a]]
      BY <1>0, <2>1, AddBlockAdds
  <2> QED
      BY <2>1, <2>2 DEF OrderKept
<1>3. CASE SetRegisters
  <2>1. order' = order /\ target'.blocks = target.blocks /\ target'.image = target.image
      BY <1>0, <1>3 DEF SetRegisters, setTargetRegisters, history, TargetStates
  <2>2. Covered(target') = Covered(target)
      BY <2>1 DEF Covered
  <2> QED
      BY <2>1, <2>2 DEF OrderKept
<1>4. ASSUME target' = target, order' = order PROVE OrderKept'
    BY <1>4 DEF OrderKept
<1>5. CASE Command
  <2>1. CASE ResetTarget \/ TrackerOff \/ (\E exec \in BOOLEAN : ProgramTarget(exec))
             \/ (\E w \in BOOLEAN : \E a, v : BlockAccessSync(w, a, v)) \/ (\E r \in BOOLEAN : TrackerOn(r))
      BY <1>4, <2>1 DEF ResetTarget, TrackerOff, ProgramTarget, BlockAccessSync, TrackerOn, data, history
  <2>2. \A a \in Addr, n \in 1..2 : [start |-> a, len |-> n] \in Block
      BY BytesAreMemory DEF Block
  <2> QED
      BY <1>1, <1>2, <1>3, <1>5, <2>1, <2>2 DEF Command
<1>6. CASE Callback
    BY <1>4, <1>6 DEF Callback, HwCallback, BcCallback, McCallback, data, history
<1>7. CASE \/ Pull \/ Yield \/ Resume \/ Take \/ GiveBack \/ GiveUp \/ ResetStart \/ ResetEnd
    BY <1>4, <1>7 DEF Pull, Yield, Resume, Take, GiveBack, GiveUp, ResetStart, ResetEnd, data, history
<1>8. CASE \/ (\E a \in Stored, v \in Byte : Z80Write(a, v))
           \/ DisplayRefresh \/ AccessReturns \/ PendingOff \/ RequestMirror \/ UNCHANGED vars
    BY <1>4, <1>8 DEF Z80Write, DisplayRefresh, AccessReturns, PendingOff, RequestMirror, vars, data, history
<1> QED
    BY <1>5, <1>6, <1>7, <1>8 DEF Next

\* Only its own callback takes the machine manager's flag away.
LEMMA OnlyCallbackProgrammes ==
    ASSUME Types, [Next]_vars, mc.program, ~mc'.program
    PROVE  McCallback
<1>0. mc \in [program : BOOLEAN, exec : BOOLEAN, display : BOOLEAN]
    BY DEF Types, FlagTypes
<1>1. mc' # mc
    OBVIOUS
<1>2. ~DisplayRefresh
    BY <1>0 DEF DisplayRefresh
<1>3. ~Command
  <2>1. ~(\E exec \in BOOLEAN : ProgramTarget(exec))
      BY <1>0 DEF ProgramTarget
  <2> QED
      BY <1>1, <2>1 DEF Command, ClearTarget, SetRegisters, ResetTarget, AddBlock, BlockAccessSync, TrackerOn,
                        TrackerOff, flags
<1>4. ~UNCHANGED vars
    BY <1>1 DEF vars, flags
<1>5. Callback
    BY <1>1, <1>2, <1>3, <1>4 DEF Next, Pull, Yield, Resume, Take, GiveBack, GiveUp, ResetStart, ResetEnd, Z80Write,
                                  AccessReturns, PendingOff, RequestMirror, flags
<1> QED
    BY <1>1, <1>5 DEF Callback, HwCallback, BcCallback, flags

\* What it writes is what the host ordered.
LEMMA CallbackWrites ==
    ASSUME Types, Undisturbed, OrderKept, McCallback, mc.program
    PROVE  \A a \in Addr :
              IF a \in DOMAIN StartCode /\ mc.exec /\ target.regs THEN ram'[a] = StartCode[a]
              ELSE ram'[a] = IF order[a] = NONE THEN ram[a] ELSE order[a]
<1>1. ~tracking
    BY DEF Undisturbed
<1>2. StartHere <=> mc.exec /\ target.regs
    BY <1>1 DEF StartHere
<1>3. BlockWrite(Written, Content)
    BY DEF McCallback, Written, Content, StartHere
<1>4. ram' = [a \in Addr |-> IF a \in Written THEN Content[a] ELSE ram[a]]
    BY <1>1, <1>3 DEF BlockWrite, Patch
<1>5. \A a \in Addr : target.image[a] # NONE
    BY ByteAssumption DEF Types, DataTypes, TargetStates
<1>6. Loaded = Covered(target)
    BY DEF Loaded, Covered
<1> SUFFICES ASSUME NEW a \in Addr
             PROVE  IF a \in DOMAIN StartCode /\ mc.exec /\ target.regs THEN ram'[a] = StartCode[a]
                    ELSE ram'[a] = IF order[a] = NONE THEN ram[a] ELSE order[a]
    OBVIOUS
<1>7. CASE a \in DOMAIN StartCode /\ mc.exec /\ target.regs
    BY <1>2, <1>4, <1>7 DEF Written, Content
<1>8. CASE ~(a \in DOMAIN StartCode /\ mc.exec /\ target.regs)
  <2>1. a \in Written <=> a \in Covered(target)
      BY <1>2, <1>6, <1>8 DEF Written
  <2>2. Content[a] = target.image[a]
      BY <1>2, <1>8 DEF Content
  <2> QED
      BY <1>4, <1>5, <1>8, <2>1, <2>2 DEF OrderKept
<1> QED
    BY <1>7, <1>8

\* The program a host has loaded is what gets into the target's memory, whatever the
\* blocks it came in and whoever's grant it is written in, for every memory, every bound
\* on the commands and every order of them, as long as the host leaves a target it
\* debugs alone and the table of blocks has room.
THEOREM ProgramAsOrdered ==
    ASSUME "DEBUG_ALONE" \notin Lax, "ROOM" \notin Lax
    PROVE  Spec => Programmed
<1> DEFINE Inv  == Types /\ AccessInv /\ MirrorAgrees /\ OrderKept
           Step == mc.program /\ ~mc'.program =>
                      \A a \in Addr :
                         IF a \in DOMAIN StartCode /\ mc.exec /\ target.regs THEN ram'[a] = StartCode[a]
                         ELSE ram'[a] = IF order[a] = NONE THEN ram[a] ELSE order[a]
<1>1. Init => Inv
    BY InitTypes, InitAccess, InitMirror, InitOrder
<1>2. Inv /\ [Next]_vars => Inv'
    BY StepKeepsTypes, StepKeepsAccess, StepKeepsMirror, StepKeepsOrder
<1>3. Inv /\ [Next]_vars => [Step]_vars
    BY OnlyCallbackProgrammes, CallbackWrites, MirrorParts
<1>4. Spec => [][Step]_vars
  <2> HIDE DEF Inv, Step
  <2> QED
      BY <1>1, <1>2, <1>3, PTL DEF Spec
<1> QED
    BY <1>4 DEF Programmed

=============================================================================
