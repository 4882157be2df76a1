----------------------------- MODULE BusAccess -----------------------------
(***************************************************************************)
(* The arbiter between the BusRaider and the target Z80 (TargetBus/        *)
(* BusAccess.cpp and BusAccess_Control.cpp, on the V2.0 board).            *)
(*                                                                         *)
(* Every part of the firmware that works on the target plugs a "bus        *)
(* socket" into this layer.  A socket asks for a bus action (BUSRQ, RESET, *)
(* NMI, IRQ), may have the Z80 wait on memory or I/O cycles and may hold   *)
(* it in a wait; the layer runs one action at a time and calls every       *)
(* enabled socket back when the action completes.                          *)
(*                                                                         *)
(* The Pi is single threaded: its main loop runs the clients (pc "LOOP")   *)
(* and BusAccess::service, and one pass of service is the sequence         *)
(*   LOOP -> [CALLBACK] -> WAITS -> [CALLBACK -> RELEASE] -> LOOP          *)
(* with a step between any two reads of the hardware and before each       *)
(* socket's callback.  The Z80, its bus lines and the clocks run freely    *)
(* in between.  What a client may call, and from where, is the table Uses. *)
(***************************************************************************)
EXTENDS Integers, FiniteSets

CONSTANTS
    NumSockets,   \* bus sockets in use, in registration order
    Uses,         \* set of <<place, socket, op>>: the calls the clients make
    MaxSignals,   \* bound on the RESET, NMI and IRQ requests of a behaviour
    SlowAck       \* the Z80 may be too slow, or stopped, to withdraw BUSACK while
                  \* controlRelease waits for that

Socket   == 1..NumSockets
Signals  == {"RESET", "NMI", "IRQ"}           \* actions asserted through the mux
Actions  == Signals \cup {"BUSRQ"}
Reasons  == {"GENERAL", "PROGRAMMING", "MIRROR", "DISPLAY", "HW_ACTION"}
Rounds   == Actions \cup {"BUSRQ_FAIL", "RESET_END", "ACCESS"}
Places   == Rounds \cup {"LOOP"}
Controls == {"ENABLE", "WAIT_MEM", "WAIT_IO", "HOLD", "RELEASE", "PAGE_OUT", "PAGE_IN",
             "BUS_RESET", "SYNC"}
WaitOps  == {"MREQ", "IORQ"}

ASSUME SocketsAssumption == NumSockets \in Nat \ {0}
ASSUME BoundAssumption   == MaxSignals \in Nat /\ SlowAck \in BOOLEAN
ASSUME UsesAssumption    == Uses \subseteq Places \X Socket \X (Signals \cup Reasons \cup Controls)

(***************************************************************************)
(* The client discipline the arbitration relies on.  No client asks for    *)
(* the bus in the callback of a bus request or of an interrupt, and none   *)
(* makes a synchronous block access (busRqAndRelease).                     *)
(***************************************************************************)
NoBusIn(kind)    == \A s \in Socket, r \in Reasons : <<kind, s, r>> \notin Uses
NoSync           == \A s \in Socket, k \in Places : <<k, s, "SYNC">> \notin Uses
ClientDiscipline == NoSync /\ NoBusIn("BUSRQ") /\ NoBusIn("IRQ")

VARIABLES
    sock,          \* the sockets: enabled, pending, reason, waitOn, hold
    act,           \* the bus action in progress: state, type, sock
    late,          \* the timer of the action's current state has run out
    waitAsserted,  \* service is handling a wait
    waitHold,      \* _waitHold, the cached "some enabled socket holds"
    waitLate,      \* the minimum length of the waited cycle is over
    mux,           \* the signal the multiplexer drives, or "CLEAR"
    busrq,         \* the Pi pulls BUSRQ low
    underControl,  \* the Pi drives the target bus
    waitGen,       \* cycles for which the hardware generates WAIT (PWM idle bits)
    reading,       \* _targetReadInProgress
    pageInDue,     \* _targetPageInOnReadComplete
    pagedOut,      \* the memory cards are paged out for injection
    cycle,         \* the bus cycle the Z80 is in, or "NONE"
    waitLine,      \* WAIT is low
    busack,        \* the Z80 acknowledges the bus request
    pc,            \* where the Pi is
    cb,            \* the round of callbacks in progress: kind, reason, at
    signals        \* requests made, for the bound MaxSignals

piVars   == <<act, late, waitAsserted, waitHold, waitLate, reading, pageInDue>>
lineVars == <<mux, busrq, underControl, waitGen, pagedOut>>
cpuVars  == <<cycle, waitLine, busack>>
vars     == <<sock, piVars, lineVars, cpuVars, pc, cb, signals>>

NoAction == [state |-> "NONE", type |-> "BUSRQ", sock |-> 1]
NoRound  == [kind |-> "ACCESS", reason |-> "GENERAL", at |-> 1]

TypeOK ==
    /\ sock \in [Socket -> [enabled : BOOLEAN, pending : SUBSET Actions, reason : Reasons,
                            waitOn : SUBSET WaitOps, hold : BOOLEAN]]
    /\ act \in [state : {"NONE", "PENDING", "ASSERTED"}, type : Actions, sock : Socket]
    /\ late \in BOOLEAN
    /\ waitAsserted \in BOOLEAN
    /\ waitHold \in BOOLEAN
    /\ waitLate \in BOOLEAN
    /\ mux \in Signals \cup {"CLEAR"}
    /\ busrq \in BOOLEAN
    /\ underControl \in BOOLEAN
    /\ waitGen \subseteq WaitOps
    /\ reading \in BOOLEAN
    /\ pageInDue \in BOOLEAN
    /\ pagedOut \in BOOLEAN
    /\ cycle \in {"NONE", "MREQ", "IORQ", "INTACK"}
    /\ waitLine \in BOOLEAN
    /\ busack \in BOOLEAN
    /\ pc \in {"LOOP", "CALLBACK", "WAITS", "RELEASE"}
    /\ cb \in [kind : Rounds, reason : Reasons, at : Socket]
    /\ signals \in 0..MaxSignals

-----------------------------------------------------------------------------
(* Sockets and actions *)

\* Mutant: an interrupt goes before a RESET.
GetType_IrqFirst(s) ==
    IF    "BUSRQ" \in s.pending THEN "BUSRQ"
    ELSE IF "IRQ" \in s.pending THEN "IRQ"
    ELSE IF "NMI" \in s.pending THEN "NMI" ELSE "RESET"

\* BusSocketInfo::getType: a bus request goes before the signals.
GetType(s) ==
    IF    "BUSRQ" \in s.pending THEN "BUSRQ"
    ELSE IF "RESET" \in s.pending THEN "RESET"
    ELSE IF "NMI" \in s.pending THEN "NMI" ELSE "IRQ"

Ready(sk) == {s \in Socket : sk[s].enabled /\ sk[s].pending # {}}

\* Mutant: sockets counted from 0, as the C array is.
BusActionCheck_FromZero(a, sk) ==
    IF a.state # "NONE" \/ Ready(sk) = {} THEN a
    ELSE LET s == CHOOSE i \in Ready(sk) : \A j \in Ready(sk) : i <= j
         IN  [state |-> "PENDING", type |-> GetType(sk[s]), sock |-> s - 1]

\* busActionCheck: when idle, the first enabled socket that wants something.
BusActionCheck(a, sk) ==
    IF a.state # "NONE" \/ Ready(sk) = {} THEN a
    ELSE LET s == CHOOSE i \in Ready(sk) : \A j \in Ready(sk) : i <= j
         IN  [state |-> "PENDING", type |-> GetType(sk[s]), sock |-> s]

\* busActionHandleStart: the action, the mux and BUSRQ once a pending action is asserted.
Started(a)    == IF a.state = "PENDING" THEN [a EXCEPT !.state = "ASSERTED"] ELSE a
MuxAfter(a, m) == IF a.state = "PENDING" /\ a.type # "BUSRQ" THEN a.type ELSE m
BusrqAfter(a) == busrq \/ (a.state = "PENDING" /\ a.type = "BUSRQ")
StartAction(a) ==
    /\ act' = Started(a)
    /\ mux' = MuxAfter(a, mux)
    /\ busrq' = BusrqAfter(a)
    /\ late' = (late /\ act' = act)

\* busActionClearFlags: the type in progress is cleared on every socket.
\* Mutants: all types are cleared; only the socket that was served is cleared.
ClearDown_AllTypes(sk, type)  == [s \in Socket |-> [sk[s] EXCEPT !.pending = {}]]
ClearDown_OneSocket(sk, type) == [sk EXCEPT ![act.sock].pending = @ \ {type}]
ClearDown(sk, type) == [s \in Socket |-> [sk[s] EXCEPT !.pending = @ \ {type}]]
\* Mutants: the requests go but the action stays; the action ends but the requests stay.
BusActionClearFlags_KeepAction(type) == sock' = ClearDown(sock, type) /\ UNCHANGED <<act, late>>
BusActionClearFlags_KeepRequests(type) == act' = NoAction /\ late' = FALSE /\ UNCHANGED sock
BusActionClearFlags(type) ==
    /\ sock' = ClearDown(sock, type)
    /\ act' = NoAction
    /\ late' = FALSE

\* muxClear at the end of a signal.
SignalOff == mux' = "CLEAR"

-----------------------------------------------------------------------------
(* Waits and the release of the bus *)

\* waitEnablementUpdate: the cycles some enabled socket wants to wait on.
WaitOn(sk) == UNION {sk[s].waitOn : s \in {i \in Socket : sk[i].enabled}}

\* Hardware: a cycle whose wait generation is switched off stops waiting.
CycleLine(c) == IF c = "MREQ" THEN "MREQ" ELSE "IORQ"
SetWaitGen(gen) ==
    /\ waitGen' = gen
    /\ waitLine' = (waitLine /\ CycleLine(cycle) \in gen)

\* waitResetFlipFlops: the flip-flops let the waiting cycle go.
WaitReset == waitLine' = FALSE /\ waitAsserted' = FALSE /\ waitLate' = FALSE

\* Mutant: the cards are paged in without waiting for the end of the read.
WaitHandleReadRelease_NoWait ==
    /\ pagedOut' = (pagedOut /\ ~pageInDue)
    /\ pageInDue' = FALSE
    /\ UNCHANGED <<reading, cycle>>

\* waitHandleReadRelease: the Pi stays until the read it answered is over, and
\* pages the cards back in if asked to; or it gives up on a stopped Z80.
WaitHandleReadRelease ==
    \/ ~reading /\ UNCHANGED <<reading, pageInDue, pagedOut, cycle>>
    \/ /\ reading
       /\ cycle' = "NONE"
       /\ pagedOut' = (pagedOut /\ ~pageInDue)
       /\ pageInDue' = FALSE
       /\ UNCHANGED reading
    \/ /\ reading /\ cycle # "NONE"
       /\ reading' = FALSE
       /\ UNCHANGED <<pageInDue, pagedOut, cycle>>
WaitRelease == WaitReset /\ WaitHandleReadRelease

\* controlBusReqAcknowledged. Mutant: BUSACK is not looked at.
BusReqAcknowledged_Blind == TRUE
BusReqAcknowledged == busack

\* controlTake: the Pi drives the bus, with wait generation off. Mutant: control not noted.
ControlTake_NotNoted == waitGen' = {} /\ waitLine' = FALSE /\ UNCHANGED underControl
ControlTake == waitGen' = {} /\ waitLine' = FALSE /\ underControl' = TRUE

\* Mutants: the Pi goes on driving the bus; the request line stays low.
ControlRelease_KeepsDriving(a, acked) ==
    /\ mux' = MuxAfter(BusActionCheck(a, sock), "CLEAR") /\ busrq' = FALSE
    /\ waitGen' = WaitOn(sock) /\ WaitReset /\ busack' = (SlowAck /\ acked)
    /\ UNCHANGED underControl
ControlRelease_LineLow(a, acked) ==
    /\ mux' = MuxAfter(BusActionCheck(a, sock), "CLEAR") /\ underControl' = FALSE
    /\ waitGen' = WaitOn(sock) /\ WaitReset /\ busack' = acked /\ UNCHANGED busrq

\* controlRelease, with the bus acknowledged or not: mux and waits cleared, then the
\* next action is asserted while BUSRQ is still low, then BUSRQ and the bus are given up.
ControlRelease(a, acked) ==
    /\ mux' = MuxAfter(BusActionCheck(a, sock), "CLEAR")
    /\ busrq' = FALSE
    /\ underControl' = FALSE
    /\ waitGen' = WaitOn(sock)
    /\ WaitReset
    /\ busack' = (SlowAck /\ acked)
ReleaseAndStart(acked) ==
    /\ ControlRelease(act, acked)
    /\ act' = Started(BusActionCheck(act, sock))
    /\ late' = (late /\ act' = act)

\* setSignal(type, false): a signal frees the mux, a bus request releases the bus.
SetSignalOff(type) ==
    IF type = "BUSRQ" THEN ControlRelease(act, busack)
    ELSE SignalOff /\ UNCHANGED <<busrq, underControl, waitGen, waitAsserted, waitLate, waitLine, busack>>

-----------------------------------------------------------------------------
(* Calls of the clients *)

\* The socket's owner makes this call now: from the main loop, or when it is called back.
May(s, op) ==
    \/ pc = "LOOP" /\ <<"LOOP", s, op>> \in Uses
    \/ pc = "CALLBACK" /\ cb.at = s /\ sock[s].enabled /\ <<cb.kind, s, op>> \in Uses

\* targetReqReset, targetReqNMI, targetReqIRQ
TargetReqSignal(s, t) ==
    /\ May(s, t) /\ signals < MaxSignals
    /\ sock' = [sock EXCEPT ![s].pending = @ \cup {t}]
    /\ signals' = signals + 1
    /\ UNCHANGED <<piVars, lineVars, cpuVars, pc, cb>>

\* targetReqBus: BUSRQ is not multiplexed, so the request is started at once.
TargetReqBus(s, r) ==
    /\ May(s, r)
    /\ sock' = [sock EXCEPT ![s].pending = @ \cup {"BUSRQ"}, ![s].reason = r]
    /\ StartAction(BusActionCheck(act, sock'))
    /\ UNCHANGED <<waitAsserted, waitHold, waitLate, reading, pageInDue,
                   underControl, waitGen, pagedOut, cpuVars, pc, cb, signals>>

\* busSocketEnable
BusSocketEnable(s) ==
    /\ May(s, "ENABLE")
    /\ sock' = [sock EXCEPT ![s].enabled = ~@]
    /\ SetWaitGen(WaitOn(sock'))
    /\ UNCHANGED <<piVars, mux, busrq, underControl, pagedOut, cycle, busack, pc, cb, signals>>

\* waitOnMemory, waitOnIO
SetWaitOn(s, op, line, isOn) ==
    /\ May(s, op)
    /\ sock' = [sock EXCEPT ![s].waitOn = IF isOn THEN @ \cup {line} ELSE @ \ {line}]
    /\ SetWaitGen(WaitOn(sock'))
    /\ UNCHANGED <<piVars, mux, busrq, underControl, pagedOut, cycle, busack, pc, cb, signals>>

\* waitHold
SetWaitHold(s, hold) ==
    /\ May(s, "HOLD")
    /\ sock' = [sock EXCEPT ![s].hold = hold]
    /\ waitHold' = \E i \in Socket : sock'[i].enabled /\ sock'[i].hold
    /\ UNCHANGED <<act, late, waitAsserted, waitLate, reading, pageInDue,
                   lineVars, cpuVars, pc, cb, signals>>

\* waitRelease, called by a client
ClientWaitRelease(s) ==
    /\ May(s, "RELEASE")
    /\ WaitRelease
    /\ UNCHANGED <<sock, act, late, waitHold, mux, busrq, underControl, waitGen,
                   busack, pc, cb, signals>>

\* targetPageForInjection: out at once, in when the read in progress is over
TargetPageOut(s) ==
    /\ May(s, "PAGE_OUT")
    /\ pagedOut' = TRUE
    /\ UNCHANGED <<sock, piVars, mux, busrq, underControl, waitGen, cpuVars, pc, cb, signals>>
TargetPageIn(s) ==
    /\ May(s, "PAGE_IN")
    /\ pageInDue' = TRUE
    /\ UNCHANGED <<sock, act, late, waitAsserted, waitHold, waitLate, reading, lineVars,
                   cpuVars, pc, cb, signals>>

\* busAccessReset: lines and waits, but neither the action nor the requests
BusAccessReset(s) ==
    /\ May(s, "BUS_RESET")
    /\ pagedOut' = FALSE
    /\ mux' = "CLEAR"
    /\ reading' = FALSE
    /\ WaitReset
    /\ waitGen' = WaitOn(sock)
    /\ UNCHANGED <<sock, act, late, waitHold, pageInDue, busrq, underControl,
                   cycle, busack, pc, cb, signals>>

\* blockRead or blockWrite with busRqAndRelease: whether the Z80 ends its cycle and
\* acknowledges or not, the bus is released at the end, as after any grant.
BlockAccessSync(s) ==
    /\ May(s, "SYNC")
    /\ \E acked \in {busack, ~waitLine} :
          /\ cycle' = IF acked THEN "NONE" ELSE cycle
          /\ ReleaseAndStart(acked)
    /\ UNCHANGED <<sock, waitHold, reading, pageInDue, pagedOut, pc, cb, signals>>

ClientCall(s) ==
    \/ \E t \in Signals : TargetReqSignal(s, t)
    \/ \E r \in Reasons : TargetReqBus(s, r)
    \/ BusSocketEnable(s)
    \/ \E isOn \in BOOLEAN : SetWaitOn(s, "WAIT_MEM", "MREQ", isOn)
    \/ \E isOn \in BOOLEAN : SetWaitOn(s, "WAIT_IO", "IORQ", isOn)
    \/ \E hold \in BOOLEAN : SetWaitHold(s, hold)
    \/ ClientWaitRelease(s)
    \/ TargetPageOut(s)
    \/ TargetPageIn(s)
    \/ BusAccessReset(s)
    \/ BlockAccessSync(s)

-----------------------------------------------------------------------------
(* serviceWaitActivity: busActionCheck and busActionHandleActive *)

\* busActionCallback: the round starts with the first socket.
Callback(kind, reason) == pc' = "CALLBACK" /\ cb' = [kind |-> kind, reason |-> reason, at |-> 1]
ToWaits == pc' = "WAITS" /\ cb' = NoRound

IrqAcked == act.type = "IRQ" /\ cycle = "INTACK" /\ ~busack

\* Nothing in progress, or nothing due: a new action may become pending.
ServiceCheck ==
    /\ pc = "LOOP"
    /\ \/ act.state = "NONE"
       \/ act.state = "PENDING" /\ ~late
       \/ act.state = "ASSERTED" /\ ~late /\ ~IrqAcked /\ ~(act.type = "BUSRQ" /\ BusReqAcknowledged)
    /\ act' = BusActionCheck(act, sock)
    /\ late' = (late /\ act' = act)
    /\ ToWaits
    /\ UNCHANGED <<sock, waitAsserted, waitHold, waitLate, reading, pageInDue, lineVars,
                   cpuVars, signals>>

\* A pending action that was not started in time is cancelled; nobody is told.
CancelPending ==
    /\ pc = "LOOP" /\ act.state = "PENDING" /\ late
    /\ SetSignalOff(act.type)
    /\ BusActionClearFlags(act.type)
    /\ ToWaits
    /\ UNCHANGED <<waitHold, reading, pageInDue, pagedOut, cycle, signals>>

\* BUSACK: controlTake, then the flags, then the callbacks.
BusGranted ==
    /\ pc = "LOOP" /\ act.state = "ASSERTED" /\ act.type = "BUSRQ" /\ BusReqAcknowledged
    /\ ControlTake
    /\ BusActionClearFlags(act.type)
    /\ Callback("BUSRQ", sock[act.sock].reason)
    /\ UNCHANGED <<waitAsserted, waitHold, waitLate, reading, pageInDue, mux, busrq, pagedOut,
                   cycle, busack, signals>>

\* No BUSACK in time: the sockets hear of the failure before the flags are cleared.
BusTimedOut ==
    /\ pc = "LOOP" /\ act.state = "ASSERTED" /\ act.type = "BUSRQ" /\ ~BusReqAcknowledged /\ late
    /\ Callback("BUSRQ_FAIL", sock[act.sock].reason)
    /\ UNCHANGED <<sock, piVars, lineVars, cpuVars, signals>>

\* busAccessHandleIrqAck: the interrupt is taken back, and if its time is up as
\* well the sockets are called; they are not called for the acknowledge itself.
IrqAcknowledged ==
    /\ pc = "LOOP" /\ act.state = "ASSERTED" /\ IrqAcked
    /\ SignalOff
    /\ BusActionClearFlags(act.type)
    /\ IF late THEN Callback("IRQ", "GENERAL") ELSE ToWaits
    /\ UNCHANGED <<waitAsserted, waitHold, waitLate, reading, pageInDue, busrq, underControl,
                   waitGen, pagedOut, cpuVars, signals>>

\* The RESET, NMI or IRQ pulse was long enough.
SignalTimedOut ==
    /\ pc = "LOOP" /\ act.state = "ASSERTED" /\ act.type \in Signals /\ late /\ ~IrqAcked
    /\ Callback(act.type, "GENERAL")
    /\ UNCHANGED <<sock, piVars, lineVars, cpuVars, signals>>

-----------------------------------------------------------------------------
(* The rounds of callbacks: the client of socket cb.at may make its calls, then
   the next socket's turn comes; what follows the last one depends on the round. *)

LastCallback == pc = "CALLBACK" /\ cb.at = NumSockets /\ cb.reason # "PROGRAMMING"

NextCallback ==
    /\ pc = "CALLBACK" /\ ~LastCallback
    /\ cb' = IF cb.at < NumSockets THEN [cb EXCEPT !.at = @ + 1]
             ELSE [cb EXCEPT !.at = 1, !.reason = "MIRROR"]
    /\ UNCHANGED <<sock, piVars, lineVars, cpuVars, pc, signals>>

EndGrant ==
    /\ LastCallback /\ cb.kind = "BUSRQ"
    /\ ReleaseAndStart(busack)
    /\ ToWaits
    /\ UNCHANGED <<sock, waitHold, reading, pageInDue, pagedOut, cycle, signals>>

EndFail ==
    /\ LastCallback /\ cb.kind = "BUSRQ_FAIL"
    /\ SetSignalOff("BUSRQ")
    /\ BusActionClearFlags(act.type)
    /\ ToWaits
    /\ UNCHANGED <<waitHold, reading, pageInDue, pagedOut, cycle, signals>>

\* The action is that of the round, unless that was an acknowledged interrupt and a
\* socket has started a bus request meanwhile: then it is that request that ends.
EndSignal ==
    /\ LastCallback /\ cb.kind \in Signals
    /\ LET type == IF act.state = "NONE" THEN cb.kind ELSE act.type
       IN  /\ SetSignalOff(type)
           /\ BusActionClearFlags(type)
           /\ IF type = "RESET" THEN Callback("RESET_END", "GENERAL") ELSE ToWaits
    /\ UNCHANGED <<waitHold, reading, pageInDue, pagedOut, cycle, signals>>

EndResetEnd ==
    /\ LastCallback /\ cb.kind = "RESET_END"
    /\ ToWaits
    /\ UNCHANGED <<sock, piVars, lineVars, cpuVars, signals>>

\* The end of waitHandleNew: if a socket decoded a read, its data is driven.
EndAccess ==
    /\ LastCallback /\ cb.kind = "ACCESS"
    /\ \/ UNCHANGED reading
       \/ reading' = TRUE
    /\ pc' = "RELEASE" /\ cb' = NoRound
    /\ UNCHANGED <<sock, act, late, waitAsserted, waitHold, waitLate, pageInDue, lineVars,
                   cpuVars, signals>>

-----------------------------------------------------------------------------
(* serviceWaitActivity: the wait *)

\* waitHandleNew: page in what is due, read the bus (through the mux, which
\* drops any signal), tell every socket.
NewWait ==
    /\ pc = "WAITS" /\ ~waitAsserted /\ waitLine /\ ~busack
    /\ waitAsserted' = TRUE
    /\ waitLate' = FALSE
    /\ pagedOut' = (pagedOut /\ ~pageInDue)
    /\ pageInDue' = FALSE
    /\ mux' = "CLEAR"
    /\ Callback("ACCESS", "GENERAL")
    /\ UNCHANGED <<sock, act, late, waitHold, reading, busrq, underControl, waitGen,
                   cpuVars, signals>>

\* No wait: pending actions start here unless memory waits are on.
NoNewWait ==
    /\ pc = "WAITS" /\ ~waitAsserted /\ (~waitLine \/ busack)
    /\ IF "MREQ" \in WaitOn(sock) THEN UNCHANGED <<act, late, mux, busrq>> ELSE StartAction(act)
    /\ pc' = "LOOP"
    /\ UNCHANGED <<sock, waitAsserted, waitHold, waitLate, reading, pageInDue, underControl,
                   waitGen, pagedOut, cpuVars, cb, signals>>

InWait ==
    /\ pc = "WAITS" /\ waitAsserted
    /\ pc' = "RELEASE"
    /\ UNCHANGED <<sock, piVars, lineVars, cpuVars, cb, signals>>

\* Mutant: the hold is ignored.
Held_Ignored == FALSE
Held == cycle = "MREQ" /\ waitHold

\* A held memory cycle is not released; the timers of the action start again.
KeepHeld ==
    /\ pc = "RELEASE" /\ waitAsserted /\ Held
    /\ late' = FALSE
    /\ pc' = "LOOP"
    /\ UNCHANGED <<sock, act, waitAsserted, waitHold, waitLate, reading, pageInDue, lineVars,
                   cpuVars, cb, signals>>

\* The cycle was long enough: start what is pending, then let the Z80 go on.
EndWait ==
    /\ pc = "RELEASE" /\ waitAsserted /\ ~Held /\ waitLate
    /\ StartAction(act)
    /\ WaitRelease
    /\ pc' = "LOOP"
    /\ UNCHANGED <<sock, waitHold, underControl, waitGen, busack, cb, signals>>

StillInWait ==
    /\ pc = "RELEASE" /\ (waitAsserted => ~Held /\ ~waitLate)
    /\ pc' = "LOOP"
    /\ UNCHANGED <<sock, piVars, lineVars, cpuVars, cb, signals>>

Service ==
    \/ ServiceCheck \/ CancelPending \/ BusGranted \/ BusTimedOut
    \/ IrqAcknowledged \/ SignalTimedOut
    \/ NextCallback \/ EndGrant \/ EndFail \/ EndSignal \/ EndResetEnd \/ EndAccess
    \/ NewWait \/ NoNewWait \/ InWait \/ KeepHeld \/ EndWait \/ StillInWait

-----------------------------------------------------------------------------
(* The Z80 and the clocks *)

BusCycle(kind) ==
    /\ cycle = "NONE" /\ ~busack
    /\ kind = "INTACK" => mux = "IRQ"
    /\ cycle' = kind
    /\ waitLine' = (CycleLine(kind) \in waitGen)
    /\ UNCHANGED <<sock, piVars, lineVars, busack, pc, cb, signals>>

CycleDone ==
    /\ cycle # "NONE" /\ ~waitLine
    /\ cycle' = "NONE"
    /\ UNCHANGED <<sock, piVars, lineVars, waitLine, busack, pc, cb, signals>>

Acknowledge ==
    /\ busrq /\ ~busack /\ cycle = "NONE"
    /\ busack' = TRUE
    /\ UNCHANGED <<sock, piVars, lineVars, cycle, waitLine, pc, cb, signals>>

Withdraw ==
    /\ busack /\ ~busrq
    /\ busack' = FALSE
    /\ UNCHANGED <<sock, piVars, lineVars, cycle, waitLine, pc, cb, signals>>

ActionTimer ==
    /\ act.state # "NONE" /\ ~late
    /\ late' = TRUE
    /\ UNCHANGED <<sock, act, waitAsserted, waitHold, waitLate, reading, pageInDue, lineVars,
                   cpuVars, pc, cb, signals>>

WaitTimer ==
    /\ waitAsserted /\ ~waitLate
    /\ waitLate' = TRUE
    /\ UNCHANGED <<sock, act, late, waitAsserted, waitHold, reading, pageInDue, lineVars,
                   cpuVars, pc, cb, signals>>

Environment ==
    \/ \E kind \in {"MREQ", "IORQ", "INTACK"} : BusCycle(kind)
    \/ CycleDone \/ Acknowledge \/ Withdraw \/ ActionTimer \/ WaitTimer

\* After init: the sockets are registered and enabled as their owners want them.
Init ==
    /\ sock \in [Socket -> [enabled : BOOLEAN, pending : {{}}, reason : {"GENERAL"},
                            waitOn : {{}}, hold : {FALSE}]]
    /\ \A s \in Socket : <<"LOOP", s, "ENABLE">> \notin Uses => sock[s].enabled
    /\ act = NoAction /\ late = FALSE
    /\ waitAsserted = FALSE /\ waitHold = FALSE /\ waitLate = FALSE
    /\ mux = "CLEAR" /\ busrq = FALSE /\ underControl = FALSE /\ waitGen = {}
    /\ reading = FALSE /\ pageInDue = FALSE /\ pagedOut = FALSE
    /\ cycle = "NONE" /\ waitLine = FALSE /\ busack = FALSE
    /\ pc = "LOOP" /\ cb = NoRound /\ signals = 0

Next == Service \/ Environment \/ \E s \in Socket : ClientCall(s)

Spec == Init /\ [][Next]_vars

-----------------------------------------------------------------------------
(* What the layer promises *)

\* The Pi drives the target bus only while it pulls BUSRQ and the Z80 has given
\* the bus away: controlTake comes after BUSACK and controlRelease on every way
\* out of a grant.
DrivesOnlyGrantedBus == underControl => busrq /\ busack

\* Every socket called back for a bus request finds the bus under control, the
\* first and the last of the round alike (block accesses assume it).
GrantRoundHasBus == (pc = "CALLBACK" /\ cb.kind = "BUSRQ") => underControl

\* A RESET, NMI or IRQ line is never left driven by an action that is over: the
\* mux carries a signal only while that very action is asserted.
SignalHasAction == mux # "CLEAR" => act.state = "ASSERTED" /\ act.type = mux

\* BUSRQ is low exactly while somebody will raise it again: a bus request waits
\* for its answer, or the Pi has the bus. A request that is believed asserted with
\* the line high would fail without having been asked.
BusrqHasOwner == busrq <=> underControl \/ (act.state = "ASSERTED" /\ act.type = "BUSRQ")

\* The action in progress is still on the books of the socket it was started for; its
\* end takes off what was asked, and no second grant can follow from one request.
ActionIsWanted == act.state # "NONE" => act.type \in sock[act.sock].pending

\* Where the rounds of callbacks stand, on which the invariants above rest: control is
\* held exactly during a grant, in which nothing is in progress and no bus request is on
\* the books, and the round of a failure or a signal is that of the action still
\* asserted (an interrupt may have been acknowledged already).
InRound(kind) == pc = "CALLBACK" /\ cb.kind = kind
RoundsConsistent ==
    /\ underControl <=> InRound("BUSRQ")
    /\ InRound("BUSRQ") =>
          act.state = "NONE" /\ \A s \in Socket : "BUSRQ" \notin sock[s].pending
    /\ InRound("BUSRQ_FAIL") => act.state = "ASSERTED" /\ act.type = "BUSRQ"
    /\ \A t \in Signals : InRound(t) =>
          \/ act.state = "ASSERTED" /\ act.type = t
          \/ act.state = "NONE" /\ t = "IRQ"

\* The inductive invariant behind the arbitration of the bus and of the signals.
BusInv == /\ TypeOK
          /\ DrivesOnlyGrantedBus
          /\ SignalHasAction
          /\ BusrqHasOwner
          /\ ActionIsWanted
          /\ RoundsConsistent

\* The sockets registered before s ask for nothing.
NothingBefore(s) == \A i \in 1..(s - 1) : sock[i].enabled => sock[i].pending = {}

\* The step that gives the bus back (busActionHandleActive, controlRelease) drives
\* a signal if an enabled socket asked for one, and drives the RESET of a socket
\* unless a socket registered before it asks for something too. So the Z80 does not run
\* a single cycle of half-written memory before the RESET of the program start, except
\* when the signal of an earlier socket takes its turn: BusAccess.cpp:535 wants the RESET
\* asserted in any case, but busActionCheck drives the IRQ of the machine manager instead
\* of the RESET that the step tracer asked for in the grant.
SignalBeforeRelease ==
    [][underControl /\ ~underControl' =>
         \A s \in Socket : sock[s].enabled =>
            /\ sock[s].pending # {} => mux' # "CLEAR"
            /\ "RESET" \in sock[s].pending /\ NothingBefore(s) => mux' = "RESET"]_vars

\* A Z80 held in a memory cycle goes on only if a client lets it go (release, hold
\* or wait taken off, reset of the layer) or a bus request that it could not answer
\* is given up; no amount of service does it.
HeldCycleKept ==
    [][(waitLine /\ waitAsserted /\ cycle = "MREQ" /\ waitHold /\ ~waitLine')
         => \/ \E s \in Socket : ClientCall(s)
            \/ EndFail \/ CancelPending]_vars

\* The Z80 does not get past a waited cycle that no socket was told of, unless a
\* client releases it blindly or a bus request fails: peripherals emulated by the
\* sockets would miss the access.
WaitedCycleIsSeen ==
    [][(waitLine /\ ~waitAsserted /\ ~waitLine')
         => \/ \E s \in Socket : ClientCall(s)
            \/ EndFail \/ CancelPending]_vars

\* A bus request of an enabled socket is taken off the books only when the sockets
\* are called because the bus was granted, after they were called because it
\* failed, or when it could not even be started in time.
BusRequestAnswered ==
    [][\A s \in Socket :
         sock[s].enabled /\ "BUSRQ" \in sock[s].pending /\ "BUSRQ" \notin sock'[s].pending
           => \/ cb'.kind = "BUSRQ" /\ pc' = "CALLBACK"
              \/ cb.kind = "BUSRQ_FAIL" /\ LastCallback
              \/ act.state = "PENDING" /\ late]_vars

\* Paged-out memory comes back when the Z80 is between cycles or waits at the start
\* of a new one, never while it reads the byte the Pi has put on the bus.
PageInBetweenReads ==
    [][(pagedOut /\ ~pagedOut')
         => \/ cycle' = "NONE"
            \/ waitLine'
            \/ \E s \in Socket : BusAccessReset(s)]_vars

\* Every request of an enabled socket, for the bus or for a signal, is granted, failed or
\* cancelled in the end, unless the Z80 is kept in a wait or the socket is switched off.
RequestsSettled ==
    \A s \in Socket, t \in Signals \cup {"BUSRQ"} :
        (sock[s].enabled /\ t \in sock[s].pending)
          ~> (t \notin sock[s].pending \/ ~sock[s].enabled \/ waitHold)

\* The main loop keeps calling service and clocks keep running; nothing is assumed
\* of the Z80. Clients ask for the bus at the rate of the display refresh, far less
\* often than the loop turns, so again and again service finds no action in progress
\* before a client has started one.
ServiceIdle == act.state = "NONE" /\ ServiceCheck
Fairness    == /\ WF_vars(Service) /\ WF_vars(ActionTimer) /\ WF_vars(WaitTimer)
               /\ SF_vars(ServiceIdle)
FairSpec == Spec /\ Fairness

-----------------------------------------------------------------------------
(* The arbitration of the bus implements BusArbiter. *)

wanting == {s \in Socket : "BUSRQ" \in sock[s].pending}
master  == IF underControl THEN "PI" ELSE "CPU"
Arbiter == INSTANCE BusArbiter WITH want <- wanting

\* One master at a time, and requests are only ever answered all together: a
\* tenure or a failure of the bus request of one socket is that of all of them.
ImplementsArbiter == Arbiter!Spec

=============================================================================
