---------------------------- MODULE TargetTracker ----------------------------
(***************************************************************************)
(* The debugger (TargetBus/TargetTracker.cpp): it watches the Z80's memory *)
(* cycles one by one, finds the beginnings of instructions among them, and *)
(* there feeds the Z80 with instructions of its own (with the target's     *)
(* memory paged out) that show the registers on the bus or set them.       *)
(*                                                                         *)
(* The Z80 is the environment: it runs an instruction to its end, cycle by *)
(* cycle, whatever it is given to eat. It is LOST when it takes an         *)
(* injected byte for something else than what it was meant to be.          *)
(***************************************************************************)
EXTENDS Integers, Sequences, FiniteSets

CONSTANTS
    Addr,         \* addresses of the program's instructions
    Program,      \* the machine cycles of each: M1 (PFX: one that fetches a prefix), RD, WR
    Succ, After,  \* where each may go on, and the address of the one behind it
    ResetAddr, IsrAddr,
    MaxFast, Numbers,   \* breakpoints (TargetBreakpoints)
    BreakAddr,    \* bound: addresses that breakpoints are set at
    Commands,     \* the commands that are used
    Lax,          \* rules for the use of the tracker that are not kept (see Rule)
    MaxCommands   \* bound: commands given, other than to switch the tracker on

BK == INSTANCE TargetBreakpoints

Kind  == {"M1", "PFX", "RD", "WR"}
IsM1(k) == k \in {"M1", "PFX"}
ASSUME ProgramAssumption ==
    /\ Program \in [Addr -> Seq(Kind)] /\ \A a \in Addr : Program[a] # <<>> /\ IsM1(Head(Program[a]))
    /\ Succ \in [Addr -> SUBSET Addr] /\ \A a \in Addr : Succ[a] # {}
    /\ After \in [Addr -> Addr] /\ ResetAddr \in Addr /\ IsrAddr \in Addr

\* What trackPrefixedInstructions takes for granted of a program (CB DD is an exception).
\* A cycle that fetches an opcode byte is the instruction's first, or follows a prefix;
\* and no instruction ends with a byte that looks like a prefix.
WellPrefixed(q) ==
    /\ \A i \in 1..Len(q) : i > 1 /\ IsM1(q[i]) => q[i - 1] = "PFX"
    /\ q # <<>> => q[Len(q)] # "PFX"
PrefixesLead == \A a \in Addr : WellPrefixed(Program[a])

ASSUME BoundsAssumption == BreakAddr \subseteq Addr /\ MaxFast \in Nat /\ MaxCommands \in Nat

Rule(r) == r \notin Lax

-----------------------------------------------------------------------------
(* The injected code: the cycles of the instruction that begins at each    *)
(* position of a snippet.                                                  *)

GetLen == 36
Get == [p \in {0, 1, 3, 4, 6, 7, 8, 9, 10, 11, 12, 13, 14, 15, 16, 17, 18, 19, 20, 21, 23, 24, 25,
               27, 29, 31, 34} |->
    CASE p \in {0, 17}                      -> <<"M1", "WR", "WR">>          \* push
      [] p \in {3, 6, 9, 10, 12, 13, 14}    -> <<"M1", "WR">>                \* ld (..),a
      [] p \in {7, 8, 11, 15, 16, 18, 19, 20, 23, 24} -> <<"M1">>            \* inc sp, exx, ex
      [] p \in {1, 4, 29}                   -> <<"PFX", "M1">>               \* ld a,r, ld a,i, ld r,a
      [] p \in {21, 25}                     -> <<"PFX", "M1", "WR", "WR">>   \* push ix, push iy
      [] p \in {27, 34}                     -> <<"M1", "RD">>                \* ld a,n, jr loop
      [] p = 31                             -> <<"M1", "RD", "RD">>]         \* pop af
GrabPos == 34

SetLen == 54
Set == [p \in {0, 1, 5, 9, 12, 15, 18, 19, 22, 25, 28, 31, 32, 35, 38, 40, 42, 44, 46, 48, 50, 51} |->
    CASE p \in {0, 18, 31, 50}              -> <<"M1">>                      \* nop, exx, ex, ei
      [] p \in {1, 5}                       -> <<"PFX", "M1", "RD", "RD">>   \* ld ix,nn
      [] p \in {9, 12, 15, 19, 22, 25, 28, 32, 35, 51} -> <<"M1", "RD", "RD">>  \* ld, pop, jp
      [] p \in {38, 42, 46}                 -> <<"M1", "RD">>                \* ld a,n
      [] p \in {40, 44, 48}                 -> <<"PFX", "M1">>]              \* ld i,a, ld r,a, im

Snippet == [GET |-> Get, SET |-> Set]
SnippetLen == [GET |-> GetLen, SET |-> SetLen]

\* What a write cycle after p bytes of Get shows: a register's value in the address or,
\* pushed, in two bytes of data.
\* Mutant: a pair of registers is missing.
Captured_NoIY(p, second) ==
    CASE p = 1  -> IF second THEN {"AF"} ELSE {"SP"}
      [] p = 4  -> {"HL", "R"}
      [] p = 7  -> {"I"}
      [] p = 10 -> {"DE"}
      [] p = 11 -> {"BC"}
      [] p = 13 -> {"HLDASH"}
      [] p = 14 -> {"DEDASH"}
      [] p = 15 -> {"BCDASH"}
      [] p = 18 -> IF second THEN {"AFDASH"} ELSE {}
      [] p = 23 -> IF second THEN {"IX"} ELSE {}
      [] OTHER  -> {}
Captured(p, second) == Captured_NoIY(p, second) \cup IF p = 27 /\ second THEN {"IY"} ELSE {}
Pushes    == {1, 18, 23, 27}
Registers == {"SP", "AF", "HL", "R", "I", "DE", "BC", "HLDASH", "DEDASH", "BCDASH", "AFDASH", "IX", "IY"}

-----------------------------------------------------------------------------
VARIABLES
    t,         \* the tracker and what it has set in the bus access layer
    z,         \* the Z80: pc; cycles left of its instruction; where its code comes from
    cyc,       \* the cycle in progress: kind; what the Pi answered (code, position)
    bk,        \* breakpoints
    resetReq,  \* a RESET is asked for
    stepDue,   \* _stepCompletionPending of the bus controller
    commands,  \* for the bound MaxCommands
    asked,     \* addresses that the user wants fast breakpoints at
    promised,  \* the target is to stop
    stepping,  \* a step begun at a stop
    ran        \* instructions begun since, up to 2

vars == <<t, z, cyc, bk, resetReq, stepDue, commands, asked, promised, stepping, ran>>
ghosts == <<asked, promised, stepping, ran>>

Acq  == {"NONE", "INJECT_IF_NEW_INSTR", "INJECTING", "POST_INJECT"}
Mode == {"PAUSED", "INTO", "OVER", "RUN"}
Code == {"PROG", "GET", "SET"}
Idle == [busy |-> FALSE, kind |-> "M1", code |-> "PROG", pos |-> 0]

TypeOK ==
    /\ t \in [on : BOOLEAN,               \* socket enabled, waits on memory
              hold : BOOLEAN, acq : Acq, mode : Mode,
              setRegs : BOOLEAN,
              pos : 0..SetLen - 1,        \* _snippetPos
              second : BOOLEAN,           \* _snippetWriteIdx
              pfx : BOOLEAN,              \* _prefixTracker[1]
              disablePending : BOOLEAN, resetPending : BOOLEAN,
              outActive : BOOLEAN,        \* _pageOutForInjectionActive
              mirrorDue : BOOLEAN,        \* _postInjectMemoryMirror
              overPC : Addr,              \* _stepOverPCValue
              copyPC : Addr,              \* _z80Registers.PC
              known : SUBSET Registers,   \* the others that agree with the Z80's
              pagedOut : BOOLEAN, pageInDue : BOOLEAN, reading : BOOLEAN,
              busrq : SUBSET {"MIRROR", "PROGRAM"},
              code : Code, pos0 : -1..SetLen - 1]   \* the answer to the cycle: snippet and position
    /\ ~t.setRegs => t.pos < GetLen
    /\ z \in [pc : Addr, todo : Seq(Kind), code : Code \cup {"LOST"}]
    /\ cyc \in [busy : BOOLEAN, kind : Kind, code : Code, pos : -1..SetLen - 1]
    /\ BK!IsBreakpoints(bk, Addr)
    /\ resetReq \in BOOLEAN /\ stepDue \in BOOLEAN /\ commands \in 0..MaxCommands
    /\ asked \subseteq Addr /\ promised \in BOOLEAN /\ stepping \in BOOLEAN /\ ran \in 0..2

Init ==
    /\ t = [on |-> FALSE, hold |-> FALSE, acq |-> "NONE", mode |-> "PAUSED", setRegs |-> FALSE,
            pos |-> 0, second |-> FALSE, pfx |-> FALSE, disablePending |-> FALSE,
            resetPending |-> FALSE, outActive |-> FALSE, mirrorDue |-> TRUE,
            overPC |-> ResetAddr, copyPC |-> ResetAddr, known |-> {}, pagedOut |-> FALSE,
            pageInDue |-> FALSE, reading |-> FALSE, busrq |-> {}, code |-> "PROG", pos0 |-> 0]
    /\ \E a \in Addr : z = [pc |-> a, todo |-> <<>>, code |-> "PROG"]
    /\ bk = BK!NoBreakpoints(ResetAddr)
    /\ cyc = Idle /\ resetReq = FALSE /\ stepDue = FALSE /\ commands = 0
    /\ asked = {} /\ promised = FALSE /\ stepping = FALSE /\ ran = 0

Held == cyc.busy /\ t.hold

-----------------------------------------------------------------------------
(* The callback for a cycle of kind k at address a. Each operator takes    *)
(* the state s of the tracker and gives it back changed.                   *)

\* _targetPageInOnReadComplete, asked for by targetPageForInjection(false)
PageBackIn(s) == [s EXCEPT !.outActive = FALSE, !.pageInDue = TRUE]
DoPageIn(s)   == IF s.pageInDue THEN [s EXCEPT !.pagedOut = FALSE, !.pageInDue = FALSE] ELSE s

PageOut(s) == IF s.outActive THEN s ELSE [s EXCEPT !.outActive = TRUE, !.pagedOut = TRUE]

\* handleInjection when handleRegisterGet/Set say it is time to look at memory ...
\* Mutant: the bus is asked for with the memory still paged out.
GrabMemory_PagedOut(s) == IF ~s.mirrorDue THEN s
                          ELSE [s EXCEPT !.busrq = @ \cup {"MIRROR"}, !.mirrorDue = FALSE]
GrabMemory(s) == IF ~s.mirrorDue THEN s
                 ELSE [PageBackIn(s) EXCEPT !.busrq = @ \cup {"MIRROR"}, !.mirrorDue = FALSE]
\* ... and when the last byte is out.
Done_PosKept(s) == [PageBackIn(s) EXCEPT !.pfx = FALSE, !.setRegs = FALSE, !.acq = "POST_INJECT",
                                         !.mode = IF @ = "INTO" THEN "PAUSED" ELSE @]
\* Mutants: the prefix tracker still remembers the instruction that was not run;
\* a step does not end; the position of the snippet is left behind it.
Done_PrefixKept(s) == [Done_PosKept(s) EXCEPT !.pos = 0, !.pfx = s.pfx]
Done_StillInto(s)  == [Done_PosKept(s) EXCEPT !.pos = 0, !.mode = s.mode]
Done(s) == [Done_PosKept(s) EXCEPT !.pos = 0]

HandleRegisterSet(s) ==
    LET n == [s EXCEPT !.code = "SET", !.pos0 = s.pos, !.pos = @ + 1]
    IN  IF n.pos >= SetLen THEN Done(n) ELSE n

HandleRegisterGet(s, k, a) ==
    IF k = "WR"
    THEN [s EXCEPT !.code = "GET", !.pos0 = -1,
                   !.known = @ \cup Captured(s.pos, s.second), !.second = @ \/ s.pos \in Pushes]
    ELSE LET n == [s EXCEPT !.code = "GET", !.pos0 = s.pos, !.pos = @ + 1, !.second = FALSE,
                            !.copyPC = IF s.pos = 0 THEN a ELSE @]
         IN  IF n.pos >= GetLen THEN Done(n)
             ELSE IF n.pos = GrabPos THEN GrabMemory(n) ELSE n

HandleInjection(s, k, a) ==
    IF s.setRegs THEN HandleRegisterSet(PageOut(s)) ELSE HandleRegisterGet(PageOut(s), k, a)

HandlePendingDisable(s) ==
    [PageBackIn(s) EXCEPT !.disablePending = FALSE, !.on = FALSE, !.hold = FALSE]

\* handleStepOverBkpts. The address of a second opcode byte is no instruction's.
StepOverHit(s, k, a) == s.mode = "OVER" /\ IsM1(k) /\ z.todo = <<>> /\ s.overPC = a
BreakHit(k, a)       == IsM1(k) /\ z.todo = <<>> /\ a \in BK!CheckForBreak(bk)
StopAtHit(s, k, a) ==
    IF s.acq \notin {"INJECTING", "POST_INJECT"} /\ (StepOverHit(s, k, a) \/ BreakHit(k, a))
    THEN [s EXCEPT !.acq = "INJECTING", !.mode = "PAUSED"] ELSE s
\* Mutant: breakpoints are looked at in a step-over only.
HandleStepOverBkpts_OverOnly(s, k, a) == IF s.mode = "OVER" THEN StopAtHit(s, k, a) ELSE s
HandleStepOverBkpts(s, k, a) == StopAtHit(s, k, a)

\* trackPrefixedInstructions: is this the first byte of an instruction, and the tracker after it.
FirstByteOfInstr(s, k) == IsM1(k) /\ ~s.pfx
TrackPrefixed(s, k)    == [s EXCEPT !.pfx = (k = "PFX")]

\* handleTrackerIdle
HandleTrackerIdle(s, k) ==
    IF s.disablePending THEN HandlePendingDisable(s)
    ELSE [TrackPrefixed(s, k) EXCEPT !.acq = IF FirstByteOfInstr(s, k) THEN "INJECT_IF_NEW_INSTR" ELSE @]

PostInjectHold(s) ==
    IF s.acq = "POST_INJECT" /\ s.mode = "PAUSED" THEN [s EXCEPT !.hold = TRUE] ELSE s

InjectIfNew(s, k, a) ==
    IF s.disablePending THEN HandlePendingDisable(s)
    ELSE LET b == HandleStepOverBkpts(s, k, a)
             n == IF FirstByteOfInstr(b, k) /\ b.mode = "INTO"
                  THEN [TrackPrefixed(b, k) EXCEPT !.acq = "INJECTING"] ELSE TrackPrefixed(b, k)
         IN  IF n.acq = "INJECTING"
             THEN HandleInjection([n EXCEPT !.setRegs = FALSE, !.pos = 0], k, a) ELSE n

HandleWaitInterrupt(s, k, a) ==
    CASE s.acq = "INJECTING"           -> HandleInjection(s, k, a)
      [] s.acq = "INJECT_IF_NEW_INSTR" -> InjectIfNew(s, k, a)
      [] OTHER -> HandleTrackerIdle(HandleStepOverBkpts(PostInjectHold(s), k, a), k)

-----------------------------------------------------------------------------
(* Cycles *)

\* What the Z80 does next: at the beginning of an instruction, an opcode fetch.
NextKind == Head(IF z.todo = <<>> THEN Program[z.pc] ELSE z.todo)

\* A cycle begins. With the tracker on, the Z80 waits, and the callback answers.
NoAnswer(s) == [s EXCEPT !.code = "PROG", !.pos0 = 0]
Answered == IF t.on THEN HandleWaitInterrupt(NoAnswer(DoPageIn(t)), NextKind, z.pc) ELSE NoAnswer(t)

\* The rule for setting registers: the Z80 is not in the middle of an instruction, but
\* for one byte that it may read.
AtItsEnd == z.todo = <<>> \/ z.todo \in {<<"M1">>, <<"RD">>}
BusMayBeGranted == t.busrq # {} /\ (Rule("SET_ANYTIME") /\ "PROGRAM" \in t.busrq => AtItsEnd)

StartCycle ==
    /\ ~cyc.busy /\ z.code # "LOST" /\ ~BusMayBeGranted
    /\ t' = Answered
    /\ cyc' = [busy |-> TRUE, kind |-> NextKind, code |-> t'.code, pos |-> t'.pos0]
    /\ promised' = IF t'.hold THEN FALSE
                   ELSE promised \/ (t.acq = "INJECT_IF_NEW_INSTR" /\ t'.acq = "INJECTING" /\ t'.mode = "PAUSED")
    /\ UNCHANGED <<z, bk, resetReq, stepDue, commands, asked, stepping, ran>>

\* The wait is released, and the Z80 takes what is on the data bus.
Released == cyc.busy /\ ~t.hold
ReadReleased(s) == LET r == [s EXCEPT !.reading = @ \/ (cyc.code # "PROG" /\ cyc.kind # "WR")]
                   IN  IF r.reading THEN DoPageIn(r) ELSE r
LastByte == cyc.code # "PROG" /\ cyc.pos + 1 = SnippetLen[cyc.code]

OwnFetch ==
    /\ z.todo = <<>> /\ z.code = "PROG" /\ cyc.code = "PROG"
    /\ \E a \in Succ[z.pc] : z' = [z EXCEPT !.pc = a, !.todo = Tail(Program[z.pc])]
    /\ t' = [ReadReleased(t) EXCEPT !.known = {}]
    /\ ran' = IF ran < 2 THEN ran + 1 ELSE 2
OwnCycle ==
    /\ z.todo # <<>> /\ z.code = "PROG" /\ cyc.code = "PROG"
    /\ z' = [z EXCEPT !.todo = Tail(@)]
    /\ t' = ReadReleased(t) /\ UNCHANGED ran
\* An injected byte that is not the first of its instruction.
InjectedCycle ==
    /\ z.todo # <<>> /\ z.code = cyc.code /\ cyc.code # "PROG"
    /\ z' = [pc   |-> IF LastByte /\ cyc.code = "SET" THEN t.copyPC ELSE z.pc,
             todo |-> Tail(z.todo), code |-> IF LastByte THEN "PROG" ELSE z.code]
    /\ t' = [ReadReleased(t) EXCEPT !.known = IF LastByte /\ cyc.code = "SET" THEN Registers ELSE @]
    /\ UNCHANGED ran
\* An injected opcode. Setting registers may begin at its second instruction, the nop
\* before it having been eaten by an instruction of the program.
MayFetch == /\ cyc.pos \in DOMAIN Snippet[cyc.code]
            /\ z.code = cyc.code \/ (z.code = "PROG" /\ cyc.pos \in {0} \cup (IF cyc.code = "SET" THEN {1} ELSE {}))
InjectedFetch ==
    /\ z.todo = <<>> /\ cyc.code # "PROG" /\ MayFetch
    /\ z' = [z EXCEPT !.todo = Tail(Snippet[cyc.code][cyc.pos]), !.code = cyc.code]
    /\ t' = ReadReleased(t) /\ UNCHANGED ran
\* The program's instruction takes a byte that was to set registers: any byte as data,
\* and the nop as what follows a prefix.
MayAbsorb == z.todo # <<>> /\ z.code = "PROG" /\ cyc.code = "SET" /\ (IsM1(cyc.kind) => cyc.pos = 0)
Misfit ==
    /\ IF z.todo = <<>> THEN IF cyc.code = "PROG" THEN z.code # "PROG" ELSE ~MayFetch
       ELSE z.code # cyc.code
    /\ z' = IF ~MayAbsorb THEN [z EXCEPT !.code = "LOST"]
            ELSE [z EXCEPT !.todo = IF IsM1(cyc.kind) THEN <<>> ELSE Tail(@)]
    /\ t' = ReadReleased(t) /\ UNCHANGED ran

EndCycle ==
    /\ Released /\ cyc' = Idle
    /\ OwnFetch \/ OwnCycle \/ InjectedFetch \/ InjectedCycle \/ Misfit
    /\ UNCHANGED <<bk, resetReq, stepDue, commands, asked, promised, stepping>>

\* An interrupt is accepted between two instructions: the acknowledge is no memory cycle,
\* and the Z80 pushes its pc. It does not accept the next before its routine has begun,
\* and gives the bus away first.
Interrupt ==
    /\ ~cyc.busy /\ z.todo = <<>> /\ z.code # "LOST" /\ "INTERRUPT" \in Commands
    /\ z.pc # IsrAddr /\ ~BusMayBeGranted
    /\ Rule("INTERRUPT_ANYTIME") => ~t.on \/ t.acq \notin {"INJECTING", "POST_INJECT"}
    /\ z' = IF z.code = "PROG" THEN [z EXCEPT !.pc = IsrAddr, !.todo = <<"WR", "WR">>]
            ELSE [z EXCEPT !.code = "LOST"]
    /\ t' = [t EXCEPT !.known = {}]
    /\ UNCHANGED <<cyc, bk, resetReq, stepDue, commands, ghosts>>

\* BusAccess has pulsed RESET, which it does not while the target is held.
NoInjection == t.acq = "INJECTING" /\ t.pos = 0 /\ ~t.setRegs /\ ~t.outActive
ResetPulse ==
    /\ ~cyc.busy /\ resetReq /\ z.code # "LOST"
    /\ Rule("RESET_ANYTIME") /\ t.on =>
           \/ t.acq \in {"NONE", "INJECT_IF_NEW_INSTR"}
           \/ t.resetPending /\ (t.acq = "POST_INJECT" \/ NoInjection)
    /\ resetReq' = FALSE
    /\ z' = [pc |-> ResetAddr, todo |-> <<>>, code |-> "PROG"]
    /\ t' = IF ~t.on THEN [t EXCEPT !.known = {}]
            ELSE [t EXCEPT !.known = {}, !.pfx = FALSE, !.resetPending = FALSE,
                           !.acq = IF t.resetPending THEN "INJECTING" ELSE "INJECT_IF_NEW_INSTR"]
    /\ stepping' = FALSE
    /\ UNCHANGED <<cyc, bk, stepDue, commands, asked, promised, ran>>

\* The Z80 gives the bus away at the end of a cycle; every client does its work in one
\* grant. A program has come with registers: McManager::targetExec (without the tracker it
\* puts them in the program and resets).
StartSetRegisterSequence(s, a) ==
    LET c == [s EXCEPT !.copyPC = a, !.known = {}]
    IN  IF s.acq = "INJECTING" THEN c
        ELSE [c EXCEPT !.acq = "INJECTING", !.hold = FALSE, !.setRegs = TRUE, !.pos = 0]
BusGrant ==
    /\ ~cyc.busy /\ BusMayBeGranted /\ z.code # "LOST"
    /\ LET s == [t EXCEPT !.busrq = {}] IN
       IF "PROGRAM" \notin t.busrq THEN t' = s /\ UNCHANGED <<resetReq, promised, stepping>>
       ELSE IF t.on THEN /\ \E a \in Addr : t' = StartSetRegisterSequence(s, a)
                         /\ promised' = (promised \/ (t.mode = "PAUSED" /\ ~t.disablePending)) /\ stepping' = FALSE
                         /\ UNCHANGED resetReq
            ELSE t' = s /\ resetReq' = TRUE /\ UNCHANGED <<promised, stepping>>
    /\ UNCHANGED <<z, cyc, bk, stepDue, commands, asked, ran>>

\* BusController::service
ReportStep ==
    /\ stepDue /\ t.mode = "PAUSED" /\ stepDue' = FALSE
    /\ UNCHANGED <<t, z, cyc, bk, resetReq, commands, ghosts>>

-----------------------------------------------------------------------------
(* Commands. The first five are those of the bus controller and the        *)
(* machine manager; the others come from the DeZog interface.              *)

Command(c) == c \in Commands /\ commands < MaxCommands /\ commands' = commands + 1

\* targetTrackerOn, which asks nothing of the tracker. The rules: not while it is on; not
\* after it was switched off at a stop, or while its code ran, which leave POST_INJECT
\* behind (see HeldAtInstruction); not where trackPrefixed would take the rest of an
\* instruction for one.
BetweenOpcodes == (z.todo # <<>> /\ IsM1(z.todo[1])) \/ (cyc.busy /\ cyc.kind = "PFX")
TargetTrackerOn(reset) ==
    /\ "targetTrackerOn" \in Commands /\ UNCHANGED commands
    /\ Rule("REENABLE") => ~t.on
    /\ Rule("ENABLE_AFTER_STOP") => t.acq # "POST_INJECT"
    /\ Rule("ENABLE_ANYTIME") => ~BetweenOpcodes
    /\ t' = [t EXCEPT !.on = TRUE, !.mode = "PAUSED", !.hold = FALSE, !.mirrorDue = TRUE,
                      !.resetPending = @ \/ reset]
    /\ resetReq' = (resetReq \/ reset)
    /\ promised' = reset /\ stepping' = FALSE
    /\ UNCHANGED <<z, cyc, bk, stepDue, asked, ran>>

\* Mutant: a disable in the middle of an injection is not put off but done.
DisableNow_Always == TRUE
DisableNow == t.acq # "INJECTING"
TargetTrackerOff ==
    /\ Command("targetTrackerOff")
    /\ LET s == [t EXCEPT !.mode = "PAUSED", !.hold = FALSE] IN
       t' = IF DisableNow THEN [PageBackIn(s) EXCEPT !.on = FALSE]
            ELSE [s EXCEPT !.disablePending = TRUE]
    /\ promised' = FALSE /\ stepping' = FALSE
    /\ UNCHANGED <<z, cyc, bk, resetReq, stepDue, asked, ran>>

StepInto ==
    /\ Command("stepInto")
    /\ t' = [t EXCEPT !.mode = "INTO", !.hold = FALSE]
    /\ stepDue' = TRUE
    /\ promised' = (t.on /\ ~t.disablePending)
    /\ stepping' = Held /\ ran' = 0
    /\ UNCHANGED <<z, cyc, bk, resetReq, asked>>

StepRun ==
    /\ Command("stepRun")
    /\ t' = [t EXCEPT !.mode = "RUN", !.hold = FALSE]
    /\ promised' = FALSE /\ stepping' = FALSE
    /\ UNCHANGED <<z, cyc, bk, resetReq, stepDue, asked, ran>>

\* McManager::targetReset and targetProgrammingStart
ResetTarget ==
    /\ Command("ResetTarget") /\ resetReq' = TRUE
    /\ UNCHANGED <<t, z, cyc, bk, stepDue, ghosts>>
ProgramTarget ==
    /\ Command("ProgramTarget")
    /\ Rule("SET_ANYTIME") => t.acq # "INJECTING"
    /\ t' = [t EXCEPT !.busrq = @ \cup {"PROGRAM"}]
    /\ UNCHANGED <<z, cyc, bk, resetReq, stepDue, ghosts>>

\* A hit before the first instruction is seen is lost again.
MayBreak == Rule("EARLY_BREAK") => t.acq # "NONE"
StepOver ==
    /\ Command("stepOver") /\ MayBreak
    /\ t' = [t EXCEPT !.mode = "OVER", !.hold = FALSE, !.overPC = After[t.copyPC]]
    /\ promised' = FALSE /\ stepping' = FALSE
    /\ UNCHANGED <<z, cyc, bk, resetReq, stepDue, asked, ran>>
CompleteTargetProgram ==
    /\ Command("completeTargetProgram") /\ ~stepDue
    /\ t' = [t EXCEPT !.mode = "PAUSED", !.hold = FALSE]
    /\ promised' = FALSE /\ stepping' = FALSE
    /\ UNCHANGED <<z, cyc, bk, resetReq, stepDue, asked, ran>>

FastBreakpoint ==
    /\ Command("setFastBreakpoint") /\ MayBreak
    /\ \/ \E a \in BreakAddr, en \in BOOLEAN :
            /\ bk' = BK!SetFastBreakpoint(bk, a, en)
            /\ asked' = IF en THEN asked \cup {a} ELSE asked \ {a}
       \/ bk' = BK!ClearFastBreakpoints(bk) /\ asked' = {}
    /\ UNCHANGED <<t, z, cyc, resetReq, stepDue, promised, stepping, ran>>
NumberedBreakpoint ==
    /\ Command("setBreakpoint") /\ MayBreak
    /\ \/ \E i \in Numbers, a \in BreakAddr : bk' = BK!SetBreakpointPCAddr(bk, i, a)
       \/ \E i \in Numbers, en \in BOOLEAN : bk' = BK!EnableBreakpoint(bk, i, en)
       \/ \E en \in BOOLEAN : bk' = BK!EnableBreakpoints(bk, en)
    /\ UNCHANGED <<t, z, cyc, resetReq, stepDue, ghosts>>

Control == \/ \E reset \in BOOLEAN : TargetTrackerOn(reset)
           \/ TargetTrackerOff \/ StepInto \/ StepRun \/ StepOver
           \/ CompleteTargetProgram \/ ResetTarget \/ ProgramTarget
           \/ FastBreakpoint \/ NumberedBreakpoint
Run     == StartCycle \/ EndCycle \/ BusGrant \/ ResetPulse
Next    == Run \/ Interrupt \/ ReportStep \/ Control

\* The Z80 goes on when it is let, the Pi's main loop comes round, a RESET is pulsed at
\* the latest when no rule is in its way any more.
Fairness == /\ WF_vars(StartCycle) /\ WF_vars(EndCycle) /\ WF_vars(BusGrant)
            /\ SF_vars(ResetPulse) /\ WF_vars(ReportStep)
Spec == Init /\ [][Next]_vars /\ Fairness

-----------------------------------------------------------------------------
(* Properties *)

\* The Z80 takes every injected byte for what it was meant to be
\* (handleRegisterGet, handleRegisterSet).
InStep == z.code # "LOST"

\* When the target is held, it is at the first byte of an instruction, and the registers
\* that the debugger shows and disassembles from are the Z80's
\* (PAUSE_GET_REGS_AT_CUR_ADDR), for a tracker that is used by the rules.
ShownIsTrue    == t.known = Registers /\ t.copyPC = z.pc
RegistersShown == Held => z.todo = <<>> /\ z.code = "PROG" /\ cyc.code = "PROG" /\ ShownIsTrue


\* The target's memory is there for its own cycles and for the bus master, and away when
\* injected code writes: a push of the debugger never reaches the target's stack.
MemoryAsNeeded ==
    /\ cyc.busy /\ cyc.code = "PROG" => ~t.pagedOut
    /\ cyc.busy /\ cyc.code # "PROG" => t.pagedOut
    /\ ~cyc.busy /\ BusMayBeGranted => ~t.pagedOut

\* A step from one stop to the next runs one instruction, whatever its prefixes.
StepsOne == stepping /\ Held => ran = 1

\* While the tracker is on, an instruction at which the user wants a breakpoint, or that
\* a step-over waits for, begins only after its registers have been taken.
Wanted == asked \cup {bk.num[i].pc : i \in {j \in Numbers : bk.on /\ bk.num[j].on}}
             \cup (IF t.mode = "OVER" THEN {t.overPC} ELSE {})
BreakpointStops ==
    [][~cyc.busy /\ cyc'.busy /\ cyc'.code = "PROG" /\ t'.on /\ t.acq # "NONE"
         /\ z.todo = <<>> /\ z.pc \in Wanted => ShownIsTrue]_vars

\* The program runs as it does without a debugger: what is injected leaves no trace, and
\* an order to set registers is carried out before the next instruction.
Program_ == INSTANCE Z80Program WITH
    pc    <- z.pc,
    todo  <- CASE z.code = "PROG" -> z.todo [] z.code = "LOST" -> <<"LOST">> [] OTHER -> <<>>,
    order <- IF t.setRegs \/ z.code = "SET" THEN {t.copyPC} ELSE {}
Transparent == Program_!Spec

\* What was ordered takes effect: the target stops after a step, a breakpoint, a reset by
\* the debugger, and the tracker goes off when it is switched off in the middle of an
\* injection; unless the user orders otherwise before.
Ordered == promised \/ (t.on /\ t.disablePending)
OrdersTakeEffect == Ordered ~> ~Ordered
=============================================================================
