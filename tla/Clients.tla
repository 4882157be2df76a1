------------------------------ MODULE Clients ------------------------------
(***************************************************************************)
(* The clients of the bus access layer at work on one target: the machine  *)
(* manager programs it and refreshes the display, the bus controller reads *)
(* and writes its memory for the host, the target tracker watches it, and  *)
(* the RAM/ROM card keeps a mirror of the memory while it is watched.      *)
(*                                                                         *)
(* They share one bus, and one grant serves all of them: a request is a    *)
(* flag of the client and a request of its socket, and the flag is acted   *)
(* on in whatever grant comes next.  What they see of the layer is taken   *)
(* from BusArbiter, which BusAccess is shown to implement; added here are  *)
(* the order in which the sockets are called and the reason they are told. *)
(*                                                                         *)
(* The Pi is single threaded: its main loop runs the clients, except while *)
(* blockAccessSync waits (pc = "SYNC") or the layer's callbacks run        *)
(* (master = "PI").  The Z80 runs freely in between.                       *)
(***************************************************************************)
EXTENDS TargetState, FiniteSets

CONSTANTS
    SetRegsAddr,     \* setRegistersCodeAddr of the machine
    Stored,          \* addresses the program of the Z80 writes to
    MaxCommands,     \* bound on the commands of the host
    Lax              \* rules the host does not keep: DEBUG_ALONE, ROOM

ASSUME ClientsAssumption == SetRegsAddr \in Addr \ {0} /\ Stored \subseteq Addr /\ MaxCommands \in Nat

\* The sockets in the order of their registration in main.cpp and McManager::init:
\* the order of the callbacks and of precedence.
SocketOrder == <<"HW", "TT", "BC", "MC">>
Sockets     == {SocketOrder[i] : i \in DOMAIN SocketOrder}
Reasons     == {"GENERAL", "DISPLAY", "PROGRAMMING", "MIRROR"}
Memory      == Byte \cup {"JUMP", "SETREGS"}   \* contents of target memory
NONE        == "NONE"
ASSUME ByteAssumption == NONE \notin Byte

VARIABLES
    want, master, busrq, busack,   \* the bus, see BusArbiter
    starter,     \* _busActionSocket, while a bus request is in progress
    reason,      \* busMasterReason of each socket
    round,       \* callbacks of the grant still to come, <<socket, reason>>
    reset,       \* RESET of the Z80: "NO", "ASKED" or "LOW"
    mc,          \* pending flags of the machine manager
    acc,         \* pending block access of the bus controller
    pc,          \* "LOOP", or "SYNC" in blockAccessSync
    target,      \* what TargetState holds
    ram, mirror, \* the target's memory and the card's copy of it
    mirrorMode,  \* _mirrorMode of the card
    tracking,    \* the tracker's socket is enabled
    mirrorDue,   \* _postInjectMemoryMirror
    commands,    \* commands of the host so far
    order, call, watched   \* history: what the host ordered to be programmed, how its
                           \* access went, whether the tracker was granted a request begun
                           \* for it

bus     == <<want, master, busrq, busack, starter, reason>>
flags   == <<mc, acc, pc, tracking, mirrorDue, mirrorMode>>
data    == <<target, ram, mirror>>
history == <<order, call, watched>>
vars    == <<bus, round, reset, flags, data, commands, history>>

Arb == INSTANCE BusArbiter WITH Socket <- Sockets

(*----------------------------- the bus layer -----------------------------*)
\* busActionCheck: the first socket that wants the bus begins an action.
First(ss) == SocketOrder[CHOOSE i \in DOMAIN SocketOrder :
                 /\ SocketOrder[i] \in ss
                 /\ \A j \in 1..(i-1) : SocketOrder[j] \notin ss]
\* Mutant: it is kept beyond the end of the action.
StarterFollows_Kept == starter' = IF busrq' /\ ~busrq THEN First(want') ELSE starter
StarterFollows == starter' = IF ~busrq' THEN NONE
                             ELSE IF busrq THEN starter ELSE First(want')

\* targetReqBus: unless the layer is busy, with a RESET or another signal, the line is
\* pulled at once.
TargetReqBus(s, r) ==
    /\ Arb!Ask(s)
    /\ reset = "LOW" => busrq' = busrq
    /\ reason' = [reason EXCEPT ![s] = r]
    /\ StarterFollows

\* busActionCallback: every enabled socket in turn, and all over again for the mirror
\* after programming.
Callbacks(r) == LET hear == IF tracking THEN SocketOrder ELSE <<"HW", "BC", "MC">>
                IN [i \in DOMAIN hear |-> <<hear[i], r>>]
Rounds(r) == IF r = "PROGRAMMING" THEN Callbacks(r) \o Callbacks("MIRROR") ELSE Callbacks(r)

Pull ==
    /\ reset # "LOW" /\ Arb!Pull /\ StarterFollows
    /\ UNCHANGED <<reason, round, reset, flags, data, commands, history>>
Yield  == Arb!Yield  /\ UNCHANGED <<starter, reason, round, reset, flags, data, commands, history>>
Resume == Arb!Resume /\ UNCHANGED <<starter, reason, round, reset, flags, data, commands, history>>

\* busActionHandleActive, BUSACK has come: the flags go, then the callbacks begin.
Take ==
    /\ Arb!Take
    /\ round' = Rounds(reason[starter])
    /\ watched' = (watched \/ ("TT" \in want /\ starter = "TT"))
    /\ UNCHANGED <<starter, reason, reset, flags, data, commands, order, call>>

\* controlRelease: a RESET asked for in the callbacks is on the wire first.
GiveBack ==
    /\ round = <<>>
    /\ Arb!GiveBack /\ StarterFollows
    /\ reset' = IF reset = "ASKED" THEN "LOW" ELSE reset
    /\ UNCHANGED <<reason, round, flags, data, commands, history>>

\* Time is up before BUSACK has come. The clients pay no attention to BUSRQ_FAIL.
GiveUp ==
    /\ busrq /\ ~busack
    /\ Arb!GiveUp /\ StarterFollows
    /\ UNCHANGED <<reason, round, reset, flags, data, commands, history>>

ResetStart ==
    /\ reset = "ASKED" /\ ~busrq /\ master = "CPU"
    /\ reset' = "LOW"
    /\ UNCHANGED <<bus, round, flags, data, commands, history>>
ResetEnd ==
    /\ reset = "LOW" /\ master = "CPU"
    /\ reset' = "NO"
    /\ UNCHANGED <<bus, round, flags, data, commands, history>>

(*------------------------- the card and the Z80 --------------------------*)
Patch(m, cells, f) == [a \in Addr |-> IF a \in cells THEN f[a] ELSE m[a]]

\* HwManager::blockWrite and HwRAMROM::blockWrite: the mirror takes the place of the
\* memory while the bus is not to be touched. busAccessAvailable (TargetTracker.cpp:164)
\* also asks for a hold and for an emulated memory: here the only holds are the tracker's,
\* and no memory is emulated, so that it comes to the tracker being off.
BlockWrite(cells, f) ==
    IF tracking THEN mirror' = Patch(mirror, cells, f) /\ UNCHANGED ram
                ELSE ram' = Patch(ram, cells, f) /\ UNCHANGED mirror

\* A write of the Z80. In mirror mode the card follows every memory cycle.
Followed(a, v) == IF mirrorMode THEN [mirror EXCEPT ![a] = v] ELSE mirror
Z80Write(a, v) ==
    /\ master = "CPU" /\ ~busack /\ reset # "LOW"
    /\ ram' = [ram EXCEPT ![a] = v]
    /\ mirror' = Followed(a, v)
    /\ UNCHANGED <<bus, round, reset, flags, target, commands, history>>

\* handleBusActionComplete of the card
HwCallback(r) ==
    /\ mirror' = IF r = "MIRROR" /\ mirrorMode THEN ram ELSE mirror
    /\ UNCHANGED <<bus, reset, flags, target, ram, commands, history>>

(*-------------------------- the bus controller ---------------------------*)
\* What _memAccessAddr and the others hold means nothing without _memAccessPending.
NoAccess == [pending |-> FALSE, write |-> FALSE, addr |-> 0, val |-> "00"]

\* busActionCompleteStatic
Served(x) == NoAccess
BcCallback ==
    /\ IF ~acc.pending THEN UNCHANGED <<acc, ram, mirror, call>>
       ELSE /\ acc' = Served(acc)
            /\ IF acc.write THEN BlockWrite({acc.addr}, [a \in Addr |-> acc.val])
                            ELSE UNCHANGED <<ram, mirror>>
            /\ call' = [call EXCEPT !.served = IF @ < 2 THEN @ + 1 ELSE @]
    /\ UNCHANGED <<bus, reset, mc, pc, tracking, mirrorDue, mirrorMode, target, commands, order, watched>>

\* blockAccessSync, up to the wait
BlockAccessSync(write, a, v) ==
    /\ pc' = "SYNC"
    /\ acc' = [pending |-> TRUE, write |-> write, addr |-> a, val |-> v]
    /\ call' = [served |-> 0, answer |-> NONE]
    /\ TargetReqBus("BC", "GENERAL")
    /\ UNCHANGED <<round, reset, mc, tracking, mirrorDue, mirrorMode, data, order, watched>>

\* The access is done, or MAX_WAIT_FOR_BUS_ACCESS_US are over; the request stays.
\* Mutant: the caller is told, the flag stays.
GivenUp_Pending(x) == x
GivenUp(x) == NoAccess
AccessReturns ==
    /\ pc = "SYNC" /\ master = "CPU"
    /\ pc' = "LOOP"
    /\ acc' = GivenUp(acc)
    /\ call' = [call EXCEPT !.answer = IF acc.pending THEN "NO_BUS_ACK" ELSE "OK"]
    /\ UNCHANGED <<bus, round, reset, mc, tracking, mirrorDue, mirrorMode, data, commands, order, watched>>

(*-------------------------- the machine manager --------------------------*)
\* displayRefresh of a machine with a memory mapped display; tracking stands for
\* ~busAccessAvailable, as in BlockWrite.
\* Mutant: no second request while the first one's flag is up.
RefreshDue_Once == ~mc.display
RefreshDue == TRUE
DisplayRefresh ==
    /\ pc = "LOOP" /\ master = "CPU" /\ RefreshDue
    /\ mc' = [mc EXCEPT !.display = TRUE]
    /\ IF tracking THEN UNCHANGED bus ELSE TargetReqBus("MC", "DISPLAY")
    /\ UNCHANGED <<round, reset, acc, pc, tracking, mirrorDue, mirrorMode, data, commands, history>>

\* targetExec: a program with start registers gets code that loads them, and a jump to
\* it at the reset vector; under the tracker the registers are injected instead.
StartCode == [a \in {0, SetRegsAddr} |-> IF a = 0 THEN "JUMP" ELSE "SETREGS"]
HardReset == ~(target.regs /\ tracking)

\* busActionCompleteStatic: whatever the bus was requested for.
Loaded == UNION {Cells(target.blocks[i]) : i \in DOMAIN target.blocks}
McCallback ==
    /\ IF ~mc.program THEN UNCHANGED <<ram, mirror, reset>>
       ELSE LET start   == mc.exec /\ target.regs /\ ~tracking
                cells   == Loaded \cup (IF start THEN DOMAIN StartCode ELSE {})
                content == [a \in Addr |-> IF start /\ a \in DOMAIN StartCode THEN StartCode[a]
                                           ELSE target.image[a]]
            IN /\ BlockWrite(cells, content)
               /\ reset' = IF mc.exec /\ HardReset THEN "ASKED" ELSE reset
    /\ mc' = [mc EXCEPT !.program = FALSE, !.display = FALSE]
    /\ UNCHANGED <<bus, acc, pc, tracking, mirrorDue, mirrorMode, target, commands, history>>

\* One callback of the grant; the tracker has no use for it.
Callback ==
    /\ master = "PI" /\ round # <<>>
    /\ round' = Tail(round)
    /\ LET s == Head(round)[1]  r == Head(round)[2] IN
       \/ s = "HW" /\ HwCallback(r)
       \/ s = "TT" /\ UNCHANGED <<bus, reset, flags, data, commands, history>>
       \/ s = "BC" /\ BcCallback
       \/ s = "MC" /\ McCallback

(*------------------------------- the tracker -----------------------------*)
\* enable(true), with or without a RESET
TrackerOn(withReset) ==
    /\ tracking' = TRUE /\ mirrorMode' = TRUE /\ mirrorDue' = TRUE
    /\ reset' = IF withReset /\ reset = "NO" THEN "ASKED" ELSE reset
    /\ watched' = FALSE
    /\ UNCHANGED <<bus, round, mc, acc, pc, data, order, call>>

\* enable(false): in the middle of an injection the socket stays on for a while.
TrackerOff ==
    /\ mirrorMode' = FALSE
    /\ tracking' \in {tracking, FALSE}
    /\ UNCHANGED <<bus, round, reset, mc, acc, pc, mirrorDue, data, history>>
PendingOff ==
    /\ tracking /\ ~mirrorMode /\ master = "CPU"
    /\ tracking' = FALSE
    /\ UNCHANGED <<bus, round, reset, mc, acc, pc, mirrorDue, mirrorMode, data, commands, history>>

\* handleInjection, after the first register query, in a cycle of the Z80 (waitHandleNew
\* comes without BUSACK only) and whoever else has asked for the bus.
\* Mutant: the reason for a display refresh, as _requestDisplayWhileStepping gives it.
MirrorReason_Display == "DISPLAY"
MirrorReason == "MIRROR"
RequestMirror ==
    /\ tracking /\ mirrorDue /\ master = "CPU" /\ ~busack
    /\ mirrorDue' = FALSE
    /\ TargetReqBus("TT", MirrorReason)
    /\ UNCHANGED <<round, reset, mc, acc, pc, tracking, mirrorMode, data, commands, history>>

(*-------------------------------- the host -------------------------------*)
\* What a host keeps to and the code does not enforce: it neither programs nor writes to
\* the target while it debugs it, nor begins to debug it before a program is written.
MayTouch == (tracking \/ mirrorMode) => "DEBUG_ALONE" \in Lax
MayTrack == mc.program => "DEBUG_ALONE" \in Lax

ClearTarget ==
    /\ target' = clear
    /\ order' = [a \in Addr |-> NONE]
    /\ UNCHANGED <<bus, round, reset, flags, ram, mirror, call, watched>>

\* FileTarget, SRECTarget: one record of the file
AddBlock(b, v) ==
    /\ Room(target, b) \/ "ROOM" \in Lax
    /\ target' = addMemoryBlock(target, b, v)
    /\ order' = [a \in Addr |-> IF a \in Cells(b) THEN v ELSE order[a]]
    /\ UNCHANGED <<bus, round, reset, flags, ram, mirror, call, watched>>

SetRegisters ==
    /\ target' = setTargetRegisters(target)
    /\ UNCHANGED <<bus, round, reset, flags, ram, mirror, history>>

\* targetProgrammingStart
ProgramTarget(exec) ==
    /\ MayTouch
    /\ IF target.blocks = <<>> THEN UNCHANGED <<bus, mc>>
       ELSE TargetReqBus("MC", "PROGRAMMING") /\ mc' = [mc EXCEPT !.program = TRUE, !.exec = exec]
    /\ UNCHANGED <<round, reset, acc, pc, tracking, mirrorDue, mirrorMode, data, history>>

ResetTarget ==
    /\ reset' = IF reset = "NO" THEN "ASKED" ELSE reset
    /\ UNCHANGED <<bus, round, flags, data, history>>

Command ==
    /\ pc = "LOOP" /\ master = "CPU" /\ commands < MaxCommands
    /\ commands' = commands + 1
    /\ \/ ClearTarget \/ SetRegisters \/ ResetTarget
       \/ \E a \in Addr, v \in Byte : \E b \in {[start |-> a, len |-> n] : n \in 1..2} :
              Cells(b) # {} /\ a + b.len - 1 \in Addr /\ AddBlock(b, v)
       \/ \E exec \in BOOLEAN : ProgramTarget(exec)
       \/ \E a \in Addr : BlockAccessSync(FALSE, a, "00")
       \/ MayTouch /\ \E a \in Addr, v \in Byte : BlockAccessSync(TRUE, a, v)
       \/ MayTrack /\ \E r \in BOOLEAN : TrackerOn(r)
       \/ TrackerOff

(*------------------------------ specification ----------------------------*)
Init ==
    /\ Arb!Init
    /\ starter = NONE /\ reason = [s \in Sockets |-> "GENERAL"]
    /\ round = <<>> /\ reset = "NO"
    /\ mc = [program |-> FALSE, exec |-> FALSE, display |-> FALSE]
    /\ acc = NoAccess
    /\ pc = "LOOP"
    /\ target = clear
    /\ ram = [a \in Addr |-> "00"] /\ mirror = ram /\ mirrorMode = FALSE
    /\ tracking = FALSE /\ mirrorDue = TRUE
    /\ commands = 0
    /\ order = [a \in Addr |-> NONE]
    /\ call = [served |-> 0, answer |-> NONE]
    /\ watched = FALSE

Next ==
    \/ Pull \/ Yield \/ Resume \/ Take \/ Callback \/ GiveBack \/ GiveUp
    \/ ResetStart \/ ResetEnd
    \/ \E a \in Stored, v \in Byte : Z80Write(a, v)
    \/ DisplayRefresh \/ AccessReturns \/ PendingOff \/ RequestMirror
    \/ Command

\* The main loop comes round, refreshes the display and waits no longer than it says; a
\* grant runs to its end; a Z80 asked for the bus again and again hands it over.
Fairness ==
    /\ WF_vars(Pull) /\ SF_vars(Yield) /\ SF_vars(Take) /\ WF_vars(Callback)
    /\ WF_vars(GiveBack) /\ WF_vars(ResetEnd)
    /\ SF_vars(DisplayRefresh) /\ WF_vars(AccessReturns) /\ WF_vars(PendingOff)

Spec == Init /\ [][Next]_vars /\ Fairness

(*------------------------------- properties ------------------------------*)
\* Type correctness; a request in progress has the socket it was begun for.
TypeOK ==
    /\ want \subseteq Sockets /\ master \in {"CPU", "PI"} /\ busrq \in BOOLEAN /\ busack \in BOOLEAN
    /\ starter \in Sockets \cup {NONE} /\ (busrq <=> starter # NONE)
    /\ reason \in [Sockets -> Reasons]
    /\ \A i \in DOMAIN round : round[i] \in Sockets \X Reasons
    /\ reset \in {"NO", "ASKED", "LOW"}
    /\ mc \in [program : BOOLEAN, exec : BOOLEAN, display : BOOLEAN]
    /\ acc \in [pending : BOOLEAN, write : BOOLEAN, addr : Addr, val : Byte]
    /\ pc \in {"LOOP", "SYNC"}
    /\ target.regs \in BOOLEAN /\ target.image \in [Addr -> Byte]
    /\ \A i \in DOMAIN target.blocks : target.blocks[i] \in Block
    /\ ram \in [Addr -> Memory] /\ mirror \in [Addr -> Memory]
    /\ mirrorMode \in BOOLEAN /\ tracking \in BOOLEAN /\ mirrorDue \in BOOLEAN
    /\ commands \in 0..MaxCommands
    /\ order \in [Addr -> Byte \cup {NONE}] /\ watched \in BOOLEAN

\* When the machine manager puts a program down as written, the target's memory holds
\* what the host has loaded since it cleared the target, in whatever pieces and order it
\* came and whoever's request the grant answered; the start code aside, the rest is as
\* it was. (McManager::busActionCompleteStatic, TargetState::addMemoryBlock)
Programmed ==
    [][mc.program /\ ~mc'.program =>
          \A a \in Addr :
             IF a \in DOMAIN StartCode /\ mc.exec /\ target.regs THEN ram'[a] = StartCode[a]
             ELSE ram'[a] = IF order[a] = NONE THEN ram[a] ELSE order[a]]_vars

\* blockAccessSync answers OK exactly if its access took place, once, during the call,
\* and an access it has given up does not take place later, in the grant that its
\* request gets after all.
AccessOnce ==
    /\ call.served <= 1
    /\ call.answer = "OK"         => call.served = 1
    /\ call.answer = "NO_BUS_ACK" => call.served = 0

\* What a pending access and the answer to the call it belongs to have to do with each
\* other; the inductive invariant behind AccessOnce.
AccessInv ==
    /\ pc \in {"LOOP", "SYNC"} /\ acc.pending \in BOOLEAN
    /\ (acc.pending => pc = "SYNC")
    /\ (pc = "SYNC" => call.answer = NONE /\ call.served = IF acc.pending THEN 0 ELSE 1)
    /\ AccessOnce

\* Once the tracker has been granted a bus request that was begun for it, the mirror the
\* debugger looks at is the memory of the target, for as long as the card follows the Z80.
\* A request that joins one begun for another socket (a read of the host) is not counted:
\* the card is told that one's reason and does not copy.
MirrorTrue == tracking /\ mirrorMode /\ watched /\ master = "CPU" => mirror = ram

\* The inductive invariant behind MirrorTrue: nothing else writes to the memory while it
\* is watched, and a grant begun for the tracker's request is one for the mirror.
Watching == tracking /\ mirrorMode /\ watched
MirrorAgrees ==
    /\ tracking \in BOOLEAN /\ mirrorMode \in BOOLEAN /\ DOMAIN reason = Sockets
    /\ mc \in [program : BOOLEAN, exec : BOOLEAN, display : BOOLEAN]
    /\ ((acc.pending /\ acc.write) \/ mc.program => ~tracking /\ ~mirrorMode)
    /\ ("TT" \in want => reason["TT"] = "MIRROR")
    /\ (Watching => mirror = ram \/ (master = "PI" /\ round # <<>> /\ Head(round) = <<"HW", "MIRROR">>))

\* A program is written in the end although its bus request may fail: it is the display
\* refresh that asks again (displayRefresh, busActionCompleteStatic).
ProgramDone == mc.program ~> ~mc.program
=============================================================================
