-------------------------- MODULE BusAccessSafety --------------------------
(***************************************************************************)
(* Proofs of the arbitration: for any number of sockets and any clients    *)
(* that keep ClientDiscipline, BusInv is an invariant, a signal raised     *)
(* during a grant is driven before the Z80 goes on, and the layer          *)
(* implements BusArbiter.  No step of the layer lets a held or unseen      *)
(* access of the Z80 go, drops a bus request, or pages memory in under a   *)
(* read of the Z80.                                                        *)
(***************************************************************************)
EXTENDS BusAccessProofs

USE DEF Socket, Signals, Actions, Reasons, Rounds, Places, Controls, WaitOps, SockType, ActType

-----------------------------------------------------------------------------
(* Where the bus is under control *)

\* The Pi has the bus only in the round of callbacks of a granted request.
LEMMA ControlledRound ==
    ASSUME BusInv, underControl
    PROVE  /\ pc = "CALLBACK" /\ cb.kind = "BUSRQ"
           /\ act.state = "NONE"
           /\ \A s \in Socket : "BUSRQ" \notin sock[s].pending
BY DEF BusInv, RoundsConsistent, InRound

\* A step that leaves the lines and the action alone and takes no request off, nor
\* adds one for the bus, keeps the invariant.
LEMMA QuietStep ==
    ASSUME BusInv, TypeOK', UNCHANGED <<act, mux, busrq, underControl, busack, pc, cb>>,
           \A s \in Socket : sock[s].pending \subseteq sock'[s].pending,
           \A s \in Socket : "BUSRQ" \in sock'[s].pending => "BUSRQ" \in sock[s].pending
    PROVE  BusInv'
<1>1. act.sock \in Socket
    BY DEF BusInv, TypeOK
<1>2. DrivesOnlyGrantedBus' /\ SignalHasAction' /\ BusrqHasOwner'
    BY DEF BusInv, DrivesOnlyGrantedBus, SignalHasAction, BusrqHasOwner
<1>3. ActionIsWanted'
    BY <1>1 DEF BusInv, ActionIsWanted
<1>4. RoundsConsistent'
    BY DEF BusInv, RoundsConsistent, InRound
<1> QED
    BY <1>2, <1>3, <1>4 DEF BusInv

\* What the invariant amounts to in a state without a grant, given that the rounds of
\* failures and signals belong to the action in progress.
LEMMA NoGrantInv ==
    ASSUME TypeOK', underControl' = FALSE, SignalHasAction', BusrqHasOwner', ActionIsWanted',
           ~InRound("BUSRQ")',
           InRound("BUSRQ_FAIL")' => act'.state = "ASSERTED" /\ act'.type = "BUSRQ",
           \A t \in Signals : InRound(t)' => \/ act'.state = "ASSERTED" /\ act'.type = t
                                             \/ act'.state = "NONE" /\ t = "IRQ"
    PROVE  BusInv'
BY DEF BusInv, DrivesOnlyGrantedBus, RoundsConsistent

LEMMA NoRoundInv ==
    ASSUME TypeOK', underControl' = FALSE, SignalHasAction', BusrqHasOwner', ActionIsWanted',
           pc' # "CALLBACK"
    PROVE  BusInv'
BY NoGrantInv DEF InRound

\* Starting the action that busActionCheck finds (or the one in progress) without a
\* grant: the lines follow the action.
LEMMA StartedLines ==
    ASSUME BusInv, ~underControl, underControl' = FALSE, NEW a \in ActType,
           a = act \/ (act.state = "NONE" /\ a.state = "PENDING"),
           StartAction(a)
    PROVE  /\ SignalHasAction' /\ BusrqHasOwner'
           /\ act'.sock = a.sock /\ act'.type = a.type
           /\ act'.state = (IF a.state = "PENDING" THEN "ASSERTED" ELSE a.state)
<1>1. act' = Started(a) /\ mux' = MuxAfter(a, mux) /\ busrq' = BusrqAfter(a)
    BY DEF StartAction
<1>2. /\ act'.sock = a.sock /\ act'.type = a.type
      /\ act'.state = (IF a.state = "PENDING" THEN "ASSERTED" ELSE a.state)
    BY <1>1 DEF Started
<1>3. mux # "CLEAR" => act.state = "ASSERTED" /\ act.type = mux
    BY DEF BusInv, SignalHasAction
<1>4. busrq <=> act.state = "ASSERTED" /\ act.type = "BUSRQ"
    BY DEF BusInv, BusrqHasOwner
<1>5. SignalHasAction'
    BY <1>1, <1>2, <1>3 DEF SignalHasAction, MuxAfter
<1>6. busrq' <=> act'.state = "ASSERTED" /\ act'.type = "BUSRQ"
    BY <1>1, <1>2, <1>4 DEF BusrqAfter
<1> QED
    BY <1>2, <1>5, <1>6 DEF BusrqHasOwner

-----------------------------------------------------------------------------
(* The clients *)

LEMMA TargetReqBusInv ==
    ASSUME BusInv, ClientDiscipline, NEW s \in Socket, NEW r \in Reasons,
           TargetReqBus(s, r), TypeOK'
    PROVE  BusInv'
<1>1. ~InRound("BUSRQ") /\ ~InRound("IRQ")
    BY DEF TargetReqBus, May, InRound, ClientDiscipline, NoBusIn
<1>2. ~underControl /\ underControl' = FALSE
    BY <1>1 DEF TargetReqBus, BusInv, RoundsConsistent, TypeOK
<1> DEFINE a == BusActionCheck(act, sock')
<1>3. act \in ActType /\ sock \in [Socket -> SockType] /\ sock' \in [Socket -> SockType]
    BY DEF BusInv, TypeOK
<1>4. /\ a \in ActType
      /\ act.state # "NONE" => a = act
      /\ a # act => a.state = "PENDING" /\ a.type \in sock'[a.sock].pending
    BY <1>3, CheckResult
<1>5. StartAction(a) /\ UNCHANGED <<pc, cb>>
    BY DEF TargetReqBus
<1>6. sock' = [sock EXCEPT ![s].pending = @ \cup {"BUSRQ"}, ![s].reason = r]
    BY DEF TargetReqBus
<1>7. \A i \in Socket : sock[i].pending \subseteq sock'[i].pending
    BY <1>3, <1>6
<1>8. act.state # "NONE" => act.type \in sock[act.sock].pending
    BY DEF BusInv, ActionIsWanted
<1> HIDE DEF a
<1>9. /\ SignalHasAction' /\ BusrqHasOwner'
      /\ act'.sock = a.sock /\ act'.type = a.type
      /\ act'.state = (IF a.state = "PENDING" THEN "ASSERTED" ELSE a.state)
    BY <1>2, <1>4, <1>5, StartedLines
<1>10. ActionIsWanted'
  <2>1. CASE a = act
      BY <1>3, <1>7, <1>8, <1>9, <2>1 DEF ActionIsWanted
  <2>2. CASE a # act
      BY <1>4, <1>9, <2>2 DEF ActionIsWanted
  <2> QED
      BY <2>1, <2>2
<1>11. ~InRound("BUSRQ")'
    BY <1>1, <1>5 DEF InRound
<1>12. InRound("BUSRQ_FAIL")' => act'.state = "ASSERTED" /\ act'.type = "BUSRQ"
    BY <1>4, <1>5, <1>9 DEF InRound, BusInv, RoundsConsistent
<1>13. \A t \in Signals : InRound(t)' => \/ act'.state = "ASSERTED" /\ act'.type = t
                                         \/ act'.state = "NONE" /\ t = "IRQ"
    BY <1>1, <1>4, <1>5, <1>9 DEF InRound, BusInv, RoundsConsistent
<1> QED
    BY <1>2, <1>9, <1>10, <1>11, <1>12, <1>13, NoGrantInv

LEMMA ClientCallInv ==
    ASSUME BusInv, ClientDiscipline, NEW s \in Socket, ClientCall(s)
    PROVE  BusInv'
<1>type. TypeOK'
    BY ClientCallType DEF BusInv
<1>typed. sock \in [Socket -> SockType]
    BY DEF BusInv, TypeOK
<1> USE DEF piVars, lineVars, cpuVars
<1>1. ASSUME NEW t \in Signals, TargetReqSignal(s, t) PROVE BusInv'
  <2>1. UNCHANGED <<act, mux, busrq, underControl, busack, pc, cb>>
      BY <1>1 DEF TargetReqSignal
  <2>2. sock' = [sock EXCEPT ![s].pending = @ \cup {t}]
      BY <1>1 DEF TargetReqSignal
  <2>3. /\ \A i \in Socket : sock[i].pending \subseteq sock'[i].pending
        /\ \A i \in Socket : "BUSRQ" \in sock'[i].pending => "BUSRQ" \in sock[i].pending
      BY <1>typed, <2>2
  <2> QED
      BY <1>type, <2>1, <2>3, QuietStep
<1>2. ASSUME NEW r \in Reasons, TargetReqBus(s, r) PROVE BusInv'
    BY <1>type, <1>2, TargetReqBusInv
<1>3. ASSUME BusSocketEnable(s) PROVE BusInv'
  <2>1. UNCHANGED <<act, mux, busrq, underControl, busack, pc, cb>>
      BY <1>3 DEF BusSocketEnable
  <2>2. sock' = [sock EXCEPT ![s].enabled = ~@]
      BY <1>3 DEF BusSocketEnable
  <2>3. \A i \in Socket : sock'[i].pending = sock[i].pending
      BY <1>typed, <2>2
  <2> QED
      BY <1>type, <2>1, <2>3, QuietStep
<1>4. ASSUME NEW op, NEW line, NEW isOn, SetWaitOn(s, op, line, isOn) PROVE BusInv'
  <2>1. UNCHANGED <<act, mux, busrq, underControl, busack, pc, cb>>
      BY <1>4 DEF SetWaitOn
  <2>2. sock' = [sock EXCEPT ![s].waitOn = IF isOn THEN @ \cup {line} ELSE @ \ {line}]
      BY <1>4 DEF SetWaitOn
  <2>3. \A i \in Socket : sock'[i].pending = sock[i].pending
      BY <1>typed, <2>2
  <2> QED
      BY <1>type, <2>1, <2>3, QuietStep
<1>5. ASSUME NEW hold \in BOOLEAN, SetWaitHold(s, hold) PROVE BusInv'
  <2>1. UNCHANGED <<act, mux, busrq, underControl, busack, pc, cb>>
      BY <1>5 DEF SetWaitHold
  <2>2. sock' = [sock EXCEPT ![s].hold = hold]
      BY <1>5 DEF SetWaitHold
  <2>3. \A i \in Socket : sock'[i].pending = sock[i].pending
      BY <1>typed, <2>2
  <2> QED
      BY <1>type, <2>1, <2>3, QuietStep
<1>6. ASSUME ClientWaitRelease(s) PROVE BusInv'
    BY <1>type, <1>6, QuietStep DEF ClientWaitRelease
<1>7. ASSUME TargetPageOut(s) PROVE BusInv'
    BY <1>type, <1>7, QuietStep DEF TargetPageOut
<1>8. ASSUME TargetPageIn(s) PROVE BusInv'
    BY <1>type, <1>8, QuietStep DEF TargetPageIn
<1>9. ASSUME BusAccessReset(s) PROVE BusInv'
  <2>1. mux' = "CLEAR" /\ UNCHANGED <<sock, act, busrq, underControl, busack, pc, cb>>
      BY <1>9 DEF BusAccessReset
  <2> QED
      BY <1>type, <2>1 DEF BusInv, DrivesOnlyGrantedBus, SignalHasAction, BusrqHasOwner,
                        ActionIsWanted, RoundsConsistent, InRound
<1>10. ~BlockAccessSync(s)
  <2>1. "SYNC" \in Controls
      OBVIOUS
  <2>2. ASSUME May(s, "SYNC") PROVE FALSE
    <3>1. cb.kind \in Places
        BY DEF BusInv, TypeOK
    <3> QED
        BY <2>2, <3>1 DEF May, ClientDiscipline, NoSync
  <2> QED
      BY <2>2 DEF BlockAccessSync
<1> QED
    BY <1>1, <1>2, <1>3, <1>4, <1>5, <1>6, <1>7, <1>8, <1>9, <1>10 DEF ClientCall

-----------------------------------------------------------------------------
(* The service *)

\* Clearing the flags of a type ends the action and leaves every other request.
LEMMA FlagsCleared ==
    ASSUME sock \in [Socket -> SockType], NEW type, BusActionClearFlags(type)
    PROVE  /\ act'.state = "NONE"
           /\ \A s \in Socket : sock'[s].pending = sock[s].pending \ {type}
BY DEF BusActionClearFlags, NoAction, ClearDown

\* The end of a grant starts what is pending, which cannot be a bus request, on the
\* freed mux and gives the bus back.
LEMMA EndGrantEffect ==
    ASSUME BusInv, EndGrant
    PROVE  /\ ~underControl' /\ ~busrq'
           /\ SignalHasAction' /\ ActionIsWanted'
           /\ act'.state # "NONE" => act'.type # "BUSRQ"
           /\ \A s \in Socket : sock[s].enabled =>
                 /\ sock[s].pending # {} => mux' # "CLEAR"
                 /\ "RESET" \in sock[s].pending /\ NothingBefore(s) => mux' = "RESET"
<1> DEFINE a == BusActionCheck(act, sock)
<1>1. act \in ActType /\ sock \in [Socket -> SockType]
    BY DEF BusInv, TypeOK
<1>2. /\ a \in ActType
      /\ a # act => a.state = "PENDING" /\ a.type \in sock[a.sock].pending
    BY <1>1, CheckResult
<1>3. underControl
    BY DEF EndGrant, LastCallback, BusInv, RoundsConsistent, InRound
<1>4. act.state = "NONE" /\ \A s \in Socket : "BUSRQ" \notin sock[s].pending
    BY <1>3, ControlledRound
<1>5. /\ Ready(sock) # {} => a.state = "PENDING"
      /\ \A s \in Socket : "RESET" \in sock[s].pending /\ sock[s].enabled /\ NothingBefore(s)
            => a.type = "RESET"
  <2>1. Ready(sock) # {} => a.state = "PENDING"
      BY <1>4 DEF BusActionCheck
  <2>2. ASSUME NEW s \in Socket, "RESET" \in sock[s].pending, sock[s].enabled, NothingBefore(s)
        PROVE  a.type = "RESET"
    <3>1. s \in Ready(sock) /\ \A j \in Ready(sock) : s <= j
        BY <2>2 DEF Ready, NothingBefore, Socket
    <3>2. s = CHOOSE i \in Ready(sock) : \A j \in Ready(sock) : i <= j
        BY <3>1 DEF Ready, Socket
    <3>3. a = [state |-> "PENDING", type |-> GetType(sock[s]), sock |-> s]
        BY <1>4, <3>1, <3>2 DEF BusActionCheck
    <3>4. GetType(sock[s]) = "RESET"
        BY <1>4, <2>2 DEF GetType
    <3> QED
        BY <3>3, <3>4
  <2> QED
      BY <2>1, <2>2
<1>6. /\ mux' = MuxAfter(a, "CLEAR") /\ busrq' = FALSE /\ underControl' = FALSE
      /\ act' = Started(a) /\ UNCHANGED sock
    BY DEF EndGrant, ReleaseAndStart, ControlRelease
<1> HIDE DEF a
<1>7. a.state # "NONE" => /\ a.state = "PENDING"
                          /\ a.type \in sock[a.sock].pending
                          /\ a.type # "BUSRQ"
    BY <1>2, <1>4
<1>8. /\ act'.sock = a.sock /\ act'.type = a.type
      /\ act'.state = (IF a.state = "PENDING" THEN "ASSERTED" ELSE a.state)
    BY <1>2, <1>6 DEF Started
<1>9. SignalHasAction'
    BY <1>6, <1>7, <1>8 DEF SignalHasAction, MuxAfter
<1>10. ActionIsWanted'
    BY <1>6, <1>7, <1>8 DEF ActionIsWanted
<1>11. ASSUME NEW s \in Socket, sock[s].enabled
       PROVE  /\ sock[s].pending # {} => mux' # "CLEAR"
              /\ "RESET" \in sock[s].pending /\ NothingBefore(s) => mux' = "RESET"
  <2>1. sock[s].pending # {} => s \in Ready(sock)
      BY <1>11 DEF Ready
  <2>2. a.state = "PENDING" => mux' = a.type /\ a.type \in Signals
      BY <1>2, <1>6, <1>7 DEF MuxAfter, ActType, Actions
  <2> QED
      BY <1>5, <1>11, <2>1, <2>2 DEF Signals
<1> QED
    BY <1>6, <1>7, <1>8, <1>9, <1>10, <1>11

LEMMA ServiceInv ==
    ASSUME BusInv, Service
    PROVE  BusInv'
<1>type. TypeOK'
    BY ServiceType DEF BusInv
<1>typed. act \in ActType /\ sock \in [Socket -> SockType] /\ underControl \in BOOLEAN
    BY DEF BusInv, TypeOK
<1>outside. pc # "CALLBACK" => ~underControl
    BY ControlledRound
<1> USE DEF piVars, lineVars, cpuVars
<1>1. ASSUME ServiceCheck PROVE BusInv'
  <2> DEFINE a == BusActionCheck(act, sock)
  <2>1. /\ a \in ActType
        /\ act.state # "NONE" => a = act
        /\ a # act => a.state = "PENDING" /\ a.type \in sock[a.sock].pending
      BY <1>typed, CheckResult
  <2>2. /\ act' = a /\ pc' = "WAITS" /\ pc = "LOOP"
        /\ UNCHANGED <<sock, mux, busrq, underControl>>
      BY <1>1 DEF ServiceCheck, ToWaits
  <2> HIDE DEF a
  <2>3. SignalHasAction' /\ BusrqHasOwner' /\ ActionIsWanted'
      BY <2>1, <2>2 DEF BusInv, SignalHasAction, BusrqHasOwner, ActionIsWanted
  <2> QED
      BY <1>type, <1>outside, <1>typed, <2>2, <2>3, NoRoundInv
<1>2. ASSUME CancelPending PROVE BusInv'
  <2>1. pc = "LOOP" /\ pc' = "WAITS" /\ act.state = "PENDING"
      BY <1>2 DEF CancelPending, ToWaits
  <2>2. act'.state = "NONE"
      BY <1>typed, <1>2, FlagsCleared DEF CancelPending
  <2>3. mux' = "CLEAR" /\ underControl' = FALSE /\ busrq' = FALSE
    <3>1. SetSignalOff(act.type)
        BY <1>2 DEF CancelPending
    <3>2. CASE act.type = "BUSRQ"
      <4>1. BusActionCheck(act, sock) = act
          BY <2>1 DEF BusActionCheck
      <4> QED
          BY <3>1, <3>2, <4>1 DEF SetSignalOff, ControlRelease, MuxAfter
    <3>3. CASE act.type # "BUSRQ"
      <4>1. mux' = "CLEAR" /\ UNCHANGED <<busrq, underControl>>
          BY <3>1, <3>3 DEF SetSignalOff, SignalOff
      <4>2. ~busrq
          BY <1>outside, <2>1 DEF BusInv, BusrqHasOwner
      <4>3. busrq \in BOOLEAN
          BY DEF BusInv, TypeOK
      <4> QED
          BY <1>typed, <1>outside, <2>1, <4>1, <4>2, <4>3
    <3> QED
        BY <3>2, <3>3
  <2>4. SignalHasAction' /\ BusrqHasOwner' /\ ActionIsWanted'
      BY <2>2, <2>3 DEF SignalHasAction, BusrqHasOwner, ActionIsWanted
  <2> QED
      BY <1>type, <2>1, <2>3, <2>4, NoRoundInv
<1>3. ASSUME BusGranted PROVE BusInv'
  <2>1. /\ act.state = "ASSERTED" /\ act.type = "BUSRQ" /\ busack /\ underControl' = TRUE
        /\ UNCHANGED <<mux, busrq, busack>>
      BY <1>3 DEF BusGranted, BusReqAcknowledged, ControlTake
  <2>2. act'.state = "NONE" /\ \A s \in Socket : "BUSRQ" \notin sock'[s].pending
      BY <1>typed, <1>3, <2>1, FlagsCleared DEF BusGranted
  <2>3. pc' = "CALLBACK" /\ cb'.kind = "BUSRQ"
      BY <1>3 DEF BusGranted, Callback
  <2>4. busrq /\ mux = "CLEAR"
      BY <2>1 DEF BusInv, BusrqHasOwner, SignalHasAction, TypeOK
  <2>5. /\ DrivesOnlyGrantedBus' /\ SignalHasAction' /\ BusrqHasOwner' /\ ActionIsWanted'
      BY <2>1, <2>2, <2>4 DEF DrivesOnlyGrantedBus, SignalHasAction, BusrqHasOwner, ActionIsWanted
  <2>6. RoundsConsistent'
      BY <2>1, <2>2, <2>3 DEF RoundsConsistent, InRound
  <2> QED
      BY <1>type, <2>5, <2>6 DEF BusInv
<1>4. ASSUME BusTimedOut PROVE BusInv'
  <2>1. /\ pc = "LOOP" /\ act.state = "ASSERTED" /\ act.type = "BUSRQ"
        /\ UNCHANGED <<sock, act, mux, busrq, underControl>>
        /\ pc' = "CALLBACK" /\ cb'.kind = "BUSRQ_FAIL"
      BY <1>4 DEF BusTimedOut, Callback
  <2>2. SignalHasAction' /\ BusrqHasOwner' /\ ActionIsWanted'
      BY <2>1 DEF BusInv, SignalHasAction, BusrqHasOwner, ActionIsWanted
  <2> QED
      BY <1>type, <1>typed, <1>outside, <2>1, <2>2, NoGrantInv DEF InRound
<1>5. ASSUME IrqAcknowledged PROVE BusInv'
  <2>1. /\ pc = "LOOP" /\ act.state = "ASSERTED" /\ act.type = "IRQ"
        /\ mux' = "CLEAR" /\ UNCHANGED <<busrq, underControl>>
        /\ \/ pc' = "CALLBACK" /\ cb'.kind = "IRQ"
           \/ pc' = "WAITS"
      BY <1>5 DEF IrqAcknowledged, IrqAcked, SignalOff, Callback, ToWaits
  <2>2. act'.state = "NONE"
      BY <1>typed, <1>5, FlagsCleared DEF IrqAcknowledged
  <2>3. SignalHasAction' /\ BusrqHasOwner' /\ ActionIsWanted'
      BY <1>outside, <2>1, <2>2 DEF BusInv, SignalHasAction, BusrqHasOwner, ActionIsWanted
  <2> QED
      BY <1>type, <1>typed, <1>outside, <2>1, <2>2, <2>3, NoGrantInv DEF InRound
<1>6. ASSUME SignalTimedOut PROVE BusInv'
  <2>1. /\ pc = "LOOP" /\ act.state = "ASSERTED" /\ act.type \in Signals
        /\ UNCHANGED <<sock, act, mux, busrq, underControl>>
        /\ pc' = "CALLBACK" /\ cb'.kind = act.type
      BY <1>6 DEF SignalTimedOut, Callback
  <2>2. SignalHasAction' /\ BusrqHasOwner' /\ ActionIsWanted'
      BY <2>1 DEF BusInv, SignalHasAction, BusrqHasOwner, ActionIsWanted
  <2> QED
      BY <1>type, <1>typed, <1>outside, <2>1, <2>2, NoGrantInv DEF InRound
<1>7. ASSUME NextCallback PROVE BusInv'
  <2>1. pc' = pc /\ UNCHANGED <<sock, act, mux, busrq, underControl, busack>>
      BY <1>7 DEF NextCallback
  <2>2. cb'.kind = cb.kind
      BY <1>7 DEF NextCallback, BusInv, TypeOK
  <2> QED
      BY <1>type, <2>1, <2>2 DEF BusInv, DrivesOnlyGrantedBus, SignalHasAction, BusrqHasOwner,
                              ActionIsWanted, RoundsConsistent, InRound
<1>8. ASSUME EndGrant PROVE BusInv'
  <2>1. pc' = "WAITS"
      BY <1>8 DEF EndGrant, ToWaits
  <2>2. underControl' = FALSE /\ BusrqHasOwner' /\ SignalHasAction' /\ ActionIsWanted'
      BY <1>type, <1>8, EndGrantEffect DEF BusrqHasOwner, TypeOK
  <2> QED
      BY <1>type, <2>1, <2>2, NoRoundInv
<1>9. ASSUME EndFail PROVE BusInv'
  <2>1. pc' = "WAITS" /\ act.state = "ASSERTED" /\ act.type = "BUSRQ"
      BY <1>9 DEF EndFail, ToWaits, LastCallback, BusInv, RoundsConsistent, InRound
  <2>2. BusActionCheck(act, sock) = act
      BY <2>1 DEF BusActionCheck
  <2>3. mux' = "CLEAR" /\ busrq' = FALSE /\ underControl' = FALSE
      BY <1>9, <2>1, <2>2 DEF EndFail, SetSignalOff, ControlRelease, MuxAfter
  <2>4. act'.state = "NONE"
      BY <1>typed, <1>9, FlagsCleared DEF EndFail
  <2>5. SignalHasAction' /\ BusrqHasOwner' /\ ActionIsWanted'
      BY <2>3, <2>4 DEF SignalHasAction, BusrqHasOwner, ActionIsWanted
  <2> QED
      BY <1>type, <2>1, <2>3, <2>5, NoRoundInv
<1>10. ASSUME EndSignal PROVE BusInv'
  <2>1. pc = "CALLBACK" /\ cb.kind \in Signals
      BY <1>10 DEF EndSignal, LastCallback
  <2>2. act.state = "NONE" \/ (act.state = "ASSERTED" /\ act.type = cb.kind)
      BY <2>1 DEF BusInv, RoundsConsistent, InRound
  <2>3. /\ SetSignalOff(cb.kind) /\ BusActionClearFlags(cb.kind)
        /\ IF cb.kind = "RESET" THEN Callback("RESET_END", "GENERAL") ELSE ToWaits
      BY <1>10, <2>2 DEF EndSignal
  <2>4. mux' = "CLEAR" /\ UNCHANGED <<busrq, underControl>>
      BY <2>1, <2>3 DEF SetSignalOff, SignalOff
  <2>5. \/ pc' = "CALLBACK" /\ cb'.kind = "RESET_END"
        \/ pc' = "WAITS"
      BY <2>3 DEF Callback, ToWaits
  <2>6. ~underControl
      BY <2>1, ControlledRound
  <2>7. act'.state = "NONE"
      BY <1>typed, <2>3, FlagsCleared
  <2>8. ~busrq
      BY <2>1, <2>2, <2>6 DEF BusInv, BusrqHasOwner
  <2>9. SignalHasAction' /\ BusrqHasOwner' /\ ActionIsWanted'
      BY <2>4, <2>6, <2>7, <2>8 DEF SignalHasAction, BusrqHasOwner, ActionIsWanted
  <2> QED
      BY <1>type, <1>typed, <2>4, <2>5, <2>6, <2>9, NoGrantInv DEF InRound
<1>11. ASSUME EndResetEnd PROVE BusInv'
  <2>1. /\ pc = "CALLBACK" /\ cb.kind = "RESET_END" /\ pc' = "WAITS"
        /\ UNCHANGED <<sock, act, mux, busrq, underControl>>
      BY <1>11 DEF EndResetEnd, LastCallback, ToWaits
  <2>2. ~underControl
      BY <2>1, ControlledRound
  <2>3. SignalHasAction' /\ BusrqHasOwner' /\ ActionIsWanted'
      BY <2>1 DEF BusInv, SignalHasAction, BusrqHasOwner, ActionIsWanted
  <2> QED
      BY <1>type, <1>typed, <2>1, <2>2, <2>3, NoRoundInv
<1>12. ASSUME EndAccess PROVE BusInv'
  <2>1. /\ pc = "CALLBACK" /\ cb.kind = "ACCESS" /\ pc' = "RELEASE"
        /\ UNCHANGED <<sock, act, mux, busrq, underControl>>
      BY <1>12 DEF EndAccess, LastCallback
  <2>2. ~underControl
      BY <2>1, ControlledRound
  <2>3. SignalHasAction' /\ BusrqHasOwner' /\ ActionIsWanted'
      BY <2>1 DEF BusInv, SignalHasAction, BusrqHasOwner, ActionIsWanted
  <2> QED
      BY <1>type, <1>typed, <2>1, <2>2, <2>3, NoRoundInv
<1>13. ASSUME NewWait PROVE BusInv'
  <2>1. /\ pc = "WAITS" /\ pc' = "CALLBACK" /\ cb'.kind = "ACCESS" /\ mux' = "CLEAR"
        /\ UNCHANGED <<sock, act, busrq, underControl>>
      BY <1>13 DEF NewWait, Callback
  <2>2. SignalHasAction' /\ BusrqHasOwner' /\ ActionIsWanted'
      BY <2>1 DEF BusInv, SignalHasAction, BusrqHasOwner, ActionIsWanted
  <2> QED
      BY <1>type, <1>typed, <1>outside, <2>1, <2>2, NoGrantInv DEF InRound
<1>14. ASSUME NoNewWait PROVE BusInv'
  <2>1. pc = "WAITS" /\ pc' = "LOOP" /\ UNCHANGED <<sock, underControl>>
      BY <1>14 DEF NoNewWait
  <2>2. CASE "MREQ" \in WaitOn(sock)
    <3>1. UNCHANGED <<act, mux, busrq>>
        BY <1>14, <2>2 DEF NoNewWait
    <3>2. SignalHasAction' /\ BusrqHasOwner' /\ ActionIsWanted'
        BY <2>1, <3>1 DEF BusInv, SignalHasAction, BusrqHasOwner, ActionIsWanted
    <3> QED
        BY <1>type, <1>typed, <1>outside, <2>1, <3>2, NoRoundInv
  <2>3. CASE "MREQ" \notin WaitOn(sock)
    <3>1. StartAction(act)
        BY <1>14, <2>3 DEF NoNewWait
    <3>2. /\ SignalHasAction' /\ BusrqHasOwner'
          /\ act'.sock = act.sock /\ act'.type = act.type
          /\ act'.state = (IF act.state = "PENDING" THEN "ASSERTED" ELSE act.state)
        BY <1>typed, <1>outside, <2>1, <3>1, StartedLines
    <3>3. ActionIsWanted'
        BY <2>1, <3>2 DEF BusInv, ActionIsWanted
    <3> QED
        BY <1>type, <1>typed, <1>outside, <2>1, <3>2, <3>3, NoRoundInv
  <2> QED
      BY <2>2, <2>3
<1>15. ASSUME InWait PROVE BusInv'
  <2>1. /\ pc = "WAITS" /\ pc' = "RELEASE"
        /\ UNCHANGED <<sock, act, mux, busrq, underControl>>
      BY <1>15 DEF InWait
  <2>2. SignalHasAction' /\ BusrqHasOwner' /\ ActionIsWanted'
      BY <2>1 DEF BusInv, SignalHasAction, BusrqHasOwner, ActionIsWanted
  <2> QED
      BY <1>type, <1>typed, <1>outside, <2>1, <2>2, NoRoundInv
<1>16. ASSUME KeepHeld PROVE BusInv'
  <2>1. /\ pc = "RELEASE" /\ pc' = "LOOP"
        /\ UNCHANGED <<sock, act, mux, busrq, underControl>>
      BY <1>16 DEF KeepHeld
  <2>2. SignalHasAction' /\ BusrqHasOwner' /\ ActionIsWanted'
      BY <2>1 DEF BusInv, SignalHasAction, BusrqHasOwner, ActionIsWanted
  <2> QED
      BY <1>type, <1>typed, <1>outside, <2>1, <2>2, NoRoundInv
<1>17. ASSUME EndWait PROVE BusInv'
  <2>1. /\ pc = "RELEASE" /\ pc' = "LOOP" /\ UNCHANGED <<sock, underControl>>
        /\ StartAction(act)
      BY <1>17 DEF EndWait
  <2>2. /\ SignalHasAction' /\ BusrqHasOwner'
        /\ act'.sock = act.sock /\ act'.type = act.type
        /\ act'.state = (IF act.state = "PENDING" THEN "ASSERTED" ELSE act.state)
      BY <1>typed, <1>outside, <2>1, StartedLines
  <2>3. ActionIsWanted'
      BY <2>1, <2>2 DEF BusInv, ActionIsWanted
  <2> QED
      BY <1>type, <1>typed, <1>outside, <2>1, <2>2, <2>3, NoRoundInv
<1>18. ASSUME StillInWait PROVE BusInv'
  <2>1. /\ pc = "RELEASE" /\ pc' = "LOOP"
        /\ UNCHANGED <<sock, act, mux, busrq, underControl>>
      BY <1>18 DEF StillInWait
  <2>2. SignalHasAction' /\ BusrqHasOwner' /\ ActionIsWanted'
      BY <2>1 DEF BusInv, SignalHasAction, BusrqHasOwner, ActionIsWanted
  <2> QED
      BY <1>type, <1>typed, <1>outside, <2>1, <2>2, NoRoundInv
<1> QED
    BY <1>1, <1>2, <1>3, <1>4, <1>5, <1>6, <1>7, <1>8, <1>9, <1>10, <1>11, <1>12, <1>13,
       <1>14, <1>15, <1>16, <1>17, <1>18 DEF Service

-----------------------------------------------------------------------------
(* The Z80 and the clocks *)

LEMMA EnvironmentInv ==
    ASSUME BusInv, Environment
    PROVE  BusInv'
<1>type. TypeOK'
    BY EnvironmentType DEF BusInv
<1> USE DEF piVars, lineVars, cpuVars
<1>1. ASSUME NEW kind, BusCycle(kind) PROVE BusInv'
    BY <1>type, <1>1, QuietStep DEF BusCycle
<1>2. ASSUME CycleDone PROVE BusInv'
    BY <1>type, <1>2, QuietStep DEF CycleDone
<1>3. ASSUME Acknowledge PROVE BusInv'
  <2>1. busack' = TRUE /\ UNCHANGED <<sock, act, mux, busrq, underControl, pc, cb>>
      BY <1>3 DEF Acknowledge
  <2> QED
      BY <1>type, <2>1 DEF BusInv, DrivesOnlyGrantedBus, SignalHasAction, BusrqHasOwner,
                        ActionIsWanted, RoundsConsistent, InRound
<1>4. ASSUME Withdraw PROVE BusInv'
  <2>1. ~busrq /\ UNCHANGED <<sock, act, mux, busrq, underControl, pc, cb>>
      BY <1>4 DEF Withdraw
  <2>2. ~underControl
      BY <2>1 DEF BusInv, DrivesOnlyGrantedBus
  <2> QED
      BY <1>type, <2>1, <2>2 DEF BusInv, DrivesOnlyGrantedBus, SignalHasAction, BusrqHasOwner,
                              ActionIsWanted, RoundsConsistent, InRound
<1>5. ASSUME ActionTimer PROVE BusInv'
    BY <1>type, <1>5, QuietStep DEF ActionTimer
<1>6. ASSUME WaitTimer PROVE BusInv'
    BY <1>type, <1>6, QuietStep DEF WaitTimer
<1> QED
    BY <1>1, <1>2, <1>3, <1>4, <1>5, <1>6 DEF Environment

LEMMA InitInv ==
    ASSUME Init
    PROVE  BusInv
<1>1. TypeOK
    BY InitType
<1>2. /\ act.state = "NONE" /\ mux = "CLEAR" /\ ~busrq /\ ~underControl /\ pc = "LOOP"
    BY DEF Init, NoAction
<1> QED
    BY <1>1, <1>2 DEF BusInv, DrivesOnlyGrantedBus, SignalHasAction, BusrqHasOwner,
                      ActionIsWanted, RoundsConsistent, InRound

LEMMA NextInv ==
    ASSUME BusInv, ClientDiscipline, [Next]_vars
    PROVE  BusInv'
<1>1. CASE Next
    BY <1>1, ServiceInv, EnvironmentInv, ClientCallInv DEF Next
<1>2. CASE UNCHANGED vars
  <2>1. TypeOK'
      BY <1>2, NextType DEF BusInv
  <2> QED
      BY <1>2, <2>1, QuietStep DEF vars, piVars, lineVars, cpuVars
<1> QED
    BY <1>1, <1>2

-----------------------------------------------------------------------------
(* The theorems *)

\* The inductive invariant. The four promises about the bus and the signals are not
\* inductive one by one: that the end of a grant cannot start a bus request while it
\* raises the request line needs RoundsConsistent, and that no action outlives its
\* request needs ActionIsWanted.
THEOREM BusInvariant == ASSUME ClientDiscipline PROVE Spec => []BusInv
<1>1. Init => BusInv
    BY InitInv
<1>2. BusInv /\ [Next]_vars => BusInv'
    BY NextInv
<1> QED
    BY <1>1, <1>2, PTL DEF Spec

\* The Pi drives the address and data bus only with BUSRQ low and BUSACK given.
THEOREM BusExclusion == ASSUME ClientDiscipline PROVE Spec => []DrivesOnlyGrantedBus
<1>1. BusInv => DrivesOnlyGrantedBus
    BY DEF BusInv
<1> QED
    BY <1>1, BusInvariant, PTL

\* Every callback of a bus request finds the bus under control, so the block accesses
\* the sockets make there reach the target's memory.
THEOREM GrantedRounds == ASSUME ClientDiscipline PROVE Spec => []GrantRoundHasBus
<1>1. BusInv => GrantRoundHasBus
    BY DEF BusInv, RoundsConsistent, InRound, GrantRoundHasBus
<1> QED
    BY <1>1, BusInvariant, PTL

\* No RESET, NMI or IRQ line is driven without its action, and BUSRQ is low only for
\* a request that waits for its answer or a grant.
THEOREM LinesHaveOwners ==
    ASSUME ClientDiscipline PROVE Spec => [](SignalHasAction /\ BusrqHasOwner)
<1>1. BusInv => SignalHasAction /\ BusrqHasOwner
    BY DEF BusInv
<1> QED
    BY <1>1, BusInvariant, PTL


\* Only the end of the round of a grant gives the bus back.
LEMMA BusGivenBack ==
    ASSUME BusInv, ClientDiscipline, Next, underControl, ~underControl'
    PROVE  EndGrant
<1>1. pc = "CALLBACK" /\ cb.kind = "BUSRQ"
    BY ControlledRound
<1> USE DEF piVars, lineVars, cpuVars
<1>2. ASSUME NEW s \in Socket, ClientCall(s) PROVE FALSE
  <2>1. ~BlockAccessSync(s)
      BY <1>1 DEF BlockAccessSync, May, ClientDiscipline, NoSync
  <2>2. UNCHANGED underControl
      BY <1>2, <2>1 DEF ClientCall, TargetReqSignal, TargetReqBus, BusSocketEnable, SetWaitOn,
           SetWaitHold, ClientWaitRelease, TargetPageOut, TargetPageIn, BusAccessReset
  <2> QED
      BY <2>2
<1>3. ASSUME Environment PROVE FALSE
  <2>1. UNCHANGED underControl
      BY <1>3 DEF Environment, BusCycle, CycleDone, Acknowledge, Withdraw, ActionTimer, WaitTimer
  <2> QED
      BY <2>1
<1>4. ASSUME Service PROVE EndGrant
  <2>1. NextCallback \/ EndGrant
      BY <1>1, <1>4 DEF Service, ServiceCheck, CancelPending, BusGranted, BusTimedOut,
           IrqAcknowledged, SignalTimedOut, EndFail, EndSignal, EndResetEnd, EndAccess,
           NewWait, NoNewWait, InWait, KeepHeld, EndWait, StillInWait, LastCallback
  <2>2. NextCallback => UNCHANGED underControl
      BY DEF NextCallback
  <2> QED
      BY <2>1, <2>2
<1> QED
    BY <1>2, <1>3, <1>4 DEF Next

\* When the Pi gives the bus back, a signal is driven if an enabled socket asked for one,
\* and it is the RESET that was asked for unless an earlier socket asked too.
THEOREM SignalsBeforeRelease == ASSUME ClientDiscipline PROVE Spec => SignalBeforeRelease
<1>1. ASSUME BusInv, [Next]_vars
      PROVE  [underControl /\ ~underControl' =>
                \A s \in Socket : sock[s].enabled =>
                   /\ sock[s].pending # {} => mux' # "CLEAR"
                   /\ "RESET" \in sock[s].pending /\ NothingBefore(s) => mux' = "RESET"]_vars
  <2>1. CASE UNCHANGED vars
      BY <2>1
  <2>2. CASE Next
    <3>1. ASSUME underControl, ~underControl'
          PROVE  EndGrant
        BY <2>2, <1>1, <3>1, BusGivenBack
    <3> QED
        BY <1>1, <3>1, EndGrantEffect
  <2> QED
      BY <1>1, <2>1, <2>2
<1> QED
    BY <1>1, BusInvariant, PTL DEF Spec, SignalBeforeRelease

-----------------------------------------------------------------------------
(* The refinement: wanting and master are functions of the requests and of control *)

\* A step that leaves the bus requests, the lines and the control of the bus alone is
\* a stutter of the arbiter.
LEMMA ArbiterStutters ==
    ASSUME UNCHANGED <<busrq, underControl, busack>>,
           \A s \in Socket : "BUSRQ" \in sock'[s].pending <=> "BUSRQ" \in sock[s].pending
    PROVE  UNCHANGED Arbiter!vars
BY DEF Arbiter!vars, wanting, master

LEMMA ClientRefines ==
    ASSUME BusInv, ClientDiscipline, NEW s \in Socket, ClientCall(s)
    PROVE  [Arbiter!Next]_Arbiter!vars
<1>type. sock \in [Socket -> SockType]
    BY DEF BusInv, TypeOK
<1> USE DEF piVars, lineVars, cpuVars
<1>1. ASSUME NEW t \in Signals, TargetReqSignal(s, t) PROVE UNCHANGED Arbiter!vars
  <2>1. sock' = [sock EXCEPT ![s].pending = @ \cup {t}]
      BY <1>1 DEF TargetReqSignal
  <2>2. \A i \in Socket : "BUSRQ" \in sock'[i].pending <=> "BUSRQ" \in sock[i].pending
      BY <1>type, <2>1
  <2>3. UNCHANGED <<busrq, underControl, busack>>
      BY <1>1 DEF TargetReqSignal
  <2> QED
      BY <2>2, <2>3, ArbiterStutters
<1>2. ASSUME NEW r \in Reasons, TargetReqBus(s, r) PROVE Arbiter!Ask(s)
  <2>1. sock' = [sock EXCEPT ![s].pending = @ \cup {"BUSRQ"}, ![s].reason = r]
      BY <1>2 DEF TargetReqBus
  <2>2. wanting' = wanting \cup {s}
      BY <1>type, <2>1 DEF wanting
  <2>3. UNCHANGED <<underControl, busack>>
      BY <1>2 DEF TargetReqBus
  <2>4. busrq' = BusrqAfter(BusActionCheck(act, sock'))
      BY <1>2 DEF TargetReqBus, StartAction
  <2>5. busrq' \in {busrq, TRUE}
      BY <2>4 DEF BusrqAfter, BusInv, TypeOK
  <2> QED
      BY <2>2, <2>3, <2>5 DEF Arbiter!Ask, master
<1>3. ASSUME BusSocketEnable(s) PROVE UNCHANGED Arbiter!vars
  <2>1. sock' = [sock EXCEPT ![s].enabled = ~@]
      BY <1>3 DEF BusSocketEnable
  <2>2. \A i \in Socket : "BUSRQ" \in sock'[i].pending <=> "BUSRQ" \in sock[i].pending
      BY <1>type, <2>1
  <2>3. UNCHANGED <<busrq, underControl, busack>>
      BY <1>3 DEF BusSocketEnable
  <2> QED
      BY <2>2, <2>3, ArbiterStutters
<1>4. ASSUME NEW op, NEW line, NEW isOn, SetWaitOn(s, op, line, isOn)
      PROVE  UNCHANGED Arbiter!vars
  <2>1. sock' = [sock EXCEPT ![s].waitOn = IF isOn THEN @ \cup {line} ELSE @ \ {line}]
      BY <1>4 DEF SetWaitOn
  <2>2. \A i \in Socket : "BUSRQ" \in sock'[i].pending <=> "BUSRQ" \in sock[i].pending
      BY <1>type, <2>1
  <2>3. UNCHANGED <<busrq, underControl, busack>>
      BY <1>4 DEF SetWaitOn
  <2> QED
      BY <2>2, <2>3, ArbiterStutters
<1>5. ASSUME NEW hold \in BOOLEAN, SetWaitHold(s, hold) PROVE UNCHANGED Arbiter!vars
  <2>1. sock' = [sock EXCEPT ![s].hold = hold]
      BY <1>5 DEF SetWaitHold
  <2>2. \A i \in Socket : "BUSRQ" \in sock'[i].pending <=> "BUSRQ" \in sock[i].pending
      BY <1>type, <2>1
  <2>3. UNCHANGED <<busrq, underControl, busack>>
      BY <1>5 DEF SetWaitHold
  <2> QED
      BY <2>2, <2>3, ArbiterStutters
<1>6. ASSUME \/ ClientWaitRelease(s) \/ TargetPageOut(s) \/ TargetPageIn(s) \/ BusAccessReset(s)
      PROVE  UNCHANGED Arbiter!vars
    BY <1>6, ArbiterStutters
       DEF ClientWaitRelease, TargetPageOut, TargetPageIn, BusAccessReset
<1>7. ~BlockAccessSync(s)
  <2>1. cb.kind \in Places /\ "LOOP" \in Places
      BY DEF BusInv, TypeOK
  <2> QED
      BY <2>1 DEF BlockAccessSync, May, ClientDiscipline, NoSync
<1> QED
    BY <1>1, <1>2, <1>3, <1>4, <1>5, <1>6, <1>7 DEF ClientCall, Arbiter!Next

LEMMA EnvironmentRefines ==
    ASSUME BusInv, Environment
    PROVE  [Arbiter!Next]_Arbiter!vars
<1> USE DEF piVars, lineVars, cpuVars
<1>1. ASSUME \/ \E kind \in {"MREQ", "IORQ", "INTACK"} : BusCycle(kind)
             \/ CycleDone \/ ActionTimer \/ WaitTimer
      PROVE  UNCHANGED Arbiter!vars
    BY <1>1, ArbiterStutters DEF BusCycle, CycleDone, ActionTimer, WaitTimer
<1>2. ASSUME Acknowledge PROVE Arbiter!Yield
    BY <1>2 DEF Acknowledge, Arbiter!Yield, wanting, master
<1>3. ASSUME Withdraw PROVE Arbiter!Resume
    BY <1>3 DEF Withdraw, Arbiter!Resume, wanting, master
<1> QED
    BY <1>1, <1>2, <1>3 DEF Environment, Arbiter!Next

\* A pending bus request that service starts is the arbiter's pull of the line.
LEMMA StartRefines ==
    ASSUME BusInv, ~underControl, StartAction(act), UNCHANGED <<sock, underControl, busack>>
    PROVE  [Arbiter!Pull]_Arbiter!vars
<1>1. act.sock \in Socket /\ busrq \in BOOLEAN
    BY DEF BusInv, TypeOK
<1>2. CASE act.state = "PENDING" /\ act.type = "BUSRQ"
  <2>1. busrq' = TRUE
      BY <1>2 DEF StartAction, BusrqAfter
  <2>2. ~busrq
      BY <1>2 DEF BusInv, BusrqHasOwner
  <2>3. "BUSRQ" \in sock[act.sock].pending
      BY <1>2 DEF BusInv, ActionIsWanted
  <2>4. wanting # {} /\ UNCHANGED wanting
      BY <1>1, <2>3 DEF wanting
  <2> QED
      BY <2>1, <2>2, <2>4 DEF Arbiter!Pull, master
<1>3. CASE ~(act.state = "PENDING" /\ act.type = "BUSRQ")
  <2>1. busrq' = busrq
      BY <1>1, <1>3 DEF StartAction, BusrqAfter
  <2> QED
      BY <2>1, ArbiterStutters
<1> QED
    BY <1>2, <1>3

\* The end of every bus request at once.
LEMMA AllAnswered ==
    ASSUME sock \in [Socket -> SockType], BusActionClearFlags("BUSRQ")
    PROVE  wanting' = {}
<1>1. \A s \in Socket : "BUSRQ" \notin sock'[s].pending
    BY FlagsCleared
<1> QED
    BY <1>1 DEF wanting

LEMMA OthersKept ==
    ASSUME sock \in [Socket -> SockType], NEW type, type # "BUSRQ", BusActionClearFlags(type)
    PROVE  \A s \in Socket : "BUSRQ" \in sock'[s].pending <=> "BUSRQ" \in sock[s].pending
BY FlagsCleared

LEMMA ServiceRefines ==
    ASSUME BusInv, Service
    PROVE  [Arbiter!Next]_Arbiter!vars
<1>type. /\ sock \in [Socket -> SockType] /\ act \in ActType
      /\ busack \in BOOLEAN /\ underControl \in BOOLEAN /\ SlowAck \in BOOLEAN
    BY BoundAssumption DEF BusInv, TypeOK
<1>typed. pc # "CALLBACK" => ~underControl
    BY ControlledRound
<1> USE DEF piVars, lineVars, cpuVars
<1>1. ASSUME \/ ServiceCheck \/ BusTimedOut \/ SignalTimedOut \/ NextCallback \/ EndResetEnd
             \/ EndAccess \/ NewWait \/ InWait \/ KeepHeld \/ StillInWait
      PROVE  UNCHANGED Arbiter!vars
  <2>1. UNCHANGED <<sock, busrq, underControl, busack>>
      BY <1>1 DEF ServiceCheck, BusTimedOut, SignalTimedOut, NextCallback, EndResetEnd,
                  EndAccess, NewWait, InWait, KeepHeld, StillInWait
  <2> QED
      BY <2>1, ArbiterStutters
<1>2. ASSUME CancelPending PROVE [Arbiter!GiveUp]_Arbiter!vars
  <2>1. pc = "LOOP" /\ SetSignalOff(act.type) /\ BusActionClearFlags(act.type)
      BY <1>2 DEF CancelPending
  <2>2. CASE act.type = "BUSRQ"
    <3>1. wanting' = {}
        BY <1>type, <2>1, <2>2, AllAnswered
    <3>2. busrq' = FALSE /\ underControl' = FALSE /\ busack' \in {busack, FALSE}
        BY <1>type, <2>1, <2>2 DEF SetSignalOff, ControlRelease
    <3> QED
        BY <1>typed, <2>1, <3>1, <3>2 DEF Arbiter!GiveUp, master
  <2>3. CASE act.type # "BUSRQ"
    <3>1. UNCHANGED <<busrq, underControl, busack>>
        BY <2>1, <2>3 DEF SetSignalOff
    <3> QED
        BY <1>type, <2>1, <2>3, <3>1, OthersKept, ArbiterStutters
  <2> QED
      BY <2>2, <2>3
<1>3. ASSUME BusGranted PROVE Arbiter!Take
  <2>1. /\ pc = "LOOP" /\ act.state = "ASSERTED" /\ act.type = "BUSRQ" /\ busack
        /\ underControl' = TRUE /\ UNCHANGED <<busrq, busack>> /\ BusActionClearFlags("BUSRQ")
      BY <1>3 DEF BusGranted, BusReqAcknowledged, ControlTake
  <2>2. busrq /\ ~underControl
      BY <1>typed, <2>1 DEF BusInv, BusrqHasOwner
  <2>3. wanting' = {}
      BY <1>type, <2>1, AllAnswered
  <2> QED
      BY <2>1, <2>2, <2>3 DEF Arbiter!Take, master
<1>4. ASSUME IrqAcknowledged PROVE UNCHANGED Arbiter!vars
  <2>1. BusActionClearFlags("IRQ") /\ UNCHANGED <<busrq, underControl, busack>>
      BY <1>4 DEF IrqAcknowledged, IrqAcked
  <2> QED
      BY <1>type, <2>1, OthersKept, ArbiterStutters
<1>5. ASSUME EndGrant PROVE Arbiter!GiveBack
  <2>1. underControl
      BY <1>5 DEF EndGrant, LastCallback, BusInv, RoundsConsistent, InRound
  <2>2. /\ underControl' = FALSE /\ busrq' = FALSE /\ busack' \in {busack, FALSE}
        /\ UNCHANGED sock
      BY <1>type, <1>5 DEF EndGrant, ReleaseAndStart, ControlRelease
  <2> QED
      BY <2>1, <2>2 DEF Arbiter!GiveBack, master, wanting
<1>6. ASSUME EndFail PROVE Arbiter!GiveUp
  <2>1. pc = "CALLBACK" /\ cb.kind = "BUSRQ_FAIL"
      BY <1>6 DEF EndFail, LastCallback
  <2>2. act.type = "BUSRQ" /\ ~underControl
      BY <2>1 DEF BusInv, RoundsConsistent, InRound
  <2>3. underControl' = FALSE /\ busrq' = FALSE /\ busack' \in {busack, FALSE}
      BY <1>type, <1>6 DEF EndFail, SetSignalOff, ControlRelease
  <2>4. wanting' = {}
      BY <1>type, <1>6, <2>2, AllAnswered DEF EndFail
  <2> QED
      BY <2>2, <2>3, <2>4 DEF Arbiter!GiveUp, master
<1>7. ASSUME EndSignal PROVE UNCHANGED Arbiter!vars
  <2>1. cb.kind \in Signals /\ pc = "CALLBACK"
      BY <1>7 DEF EndSignal, LastCallback
  <2>2. act.state = "NONE" \/ (act.state = "ASSERTED" /\ act.type = cb.kind)
      BY <2>1 DEF BusInv, RoundsConsistent, InRound
  <2>3. SetSignalOff(cb.kind) /\ BusActionClearFlags(cb.kind)
      BY <1>7, <2>2 DEF EndSignal
  <2>4. cb.kind # "BUSRQ" /\ UNCHANGED <<busrq, underControl, busack>>
      BY <2>1, <2>3 DEF SetSignalOff
  <2> QED
      BY <1>type, <2>3, <2>4, OthersKept, ArbiterStutters
<1>8. ASSUME NoNewWait PROVE [Arbiter!Pull]_Arbiter!vars
  <2>1. pc = "WAITS" /\ UNCHANGED <<sock, underControl, busack>>
      BY <1>8 DEF NoNewWait
  <2>2. UNCHANGED busrq \/ StartAction(act)
      BY <1>8 DEF NoNewWait
  <2> QED
      BY <1>typed, <2>1, <2>2, StartRefines, ArbiterStutters
<1>9. ASSUME EndWait PROVE [Arbiter!Pull]_Arbiter!vars
  <2>1. pc = "RELEASE" /\ UNCHANGED <<sock, underControl, busack>> /\ StartAction(act)
      BY <1>9 DEF EndWait
  <2> QED
      BY <1>typed, <2>1, StartRefines
<1> QED
    BY <1>1, <1>2, <1>3, <1>4, <1>5, <1>6, <1>7, <1>8, <1>9 DEF Service, Arbiter!Next

\* The bus has one master at a time, one tenure answers all the sockets that want the
\* bus, and a request is never dropped for one socket alone.
THEOREM Refinement == ASSUME ClientDiscipline PROVE Spec => ImplementsArbiter
<1>1. Init => Arbiter!Init
  <2>1. ASSUME Init PROVE wanting = {} /\ master = "CPU" /\ busrq = FALSE /\ busack = FALSE
    <3>1. \A s \in Socket : sock[s].pending = {}
        BY <2>1 DEF Init
    <3> QED
        BY <2>1, <3>1 DEF Init, wanting, master
  <2> QED
      BY <2>1 DEF Arbiter!Init
<1>2. ASSUME BusInv, [Next]_vars PROVE [Arbiter!Next]_Arbiter!vars
  <2>1. CASE Next
      BY <1>2, <2>1, ClientRefines, ServiceRefines, EnvironmentRefines DEF Next
  <2>2. CASE UNCHANGED vars
      BY <2>2, ArbiterStutters DEF vars, lineVars, cpuVars
  <2> QED
      BY <1>2, <2>1, <2>2
<1> QED
    BY <1>1, <1>2, BusInvariant, PTL DEF Spec, ImplementsArbiter, Arbiter!Spec

-----------------------------------------------------------------------------
(* What a step may never do *)

\* The Z80 waits in a cycle, and has none while it acknowledges a bus request.
CyclesAgree ==
    /\ waitLine => cycle # "NONE"
    /\ busack => cycle = "NONE"

StepInv == BusInv /\ CyclesAgree

-----------------------------------------------------------------------------
(* What ends a wait of the Z80 *)

\* The layer is in no signal's round with a bus request in progress.
LEMMA SignalRound ==
    ASSUME BusInv, EndSignal
    PROVE  LET type == IF act.state = "NONE" THEN cb.kind ELSE act.type
           IN  type \in Signals /\ SetSignalOff(type) /\ BusActionClearFlags(type)
<1>1. pc = "CALLBACK" /\ cb.kind \in Signals
    BY DEF EndSignal, LastCallback
<1>2. act.state # "NONE" => act.type = cb.kind
    BY <1>1 DEF BusInv, RoundsConsistent, InRound
<1> QED
    BY <1>1, <1>2 DEF EndSignal

\* A step of the layer that lets the Z80 out of a wait is the end of that wait, of an
\* access the layer has seen and does not hold, or a bus request that is given up.
LEMMA WaitEnds ==
    ASSUME StepInv, Service, waitLine, ~waitLine'
    PROVE  \/ EndFail \/ CancelPending
           \/ EndWait /\ waitAsserted /\ ~(cycle = "MREQ" /\ waitHold)
<1> USE DEF piVars, lineVars, cpuVars
<1>1. ~busack
    BY DEF StepInv, CyclesAgree
<1>2. ~underControl
    BY <1>1 DEF StepInv, BusInv, DrivesOnlyGrantedBus
<1>3. ~EndGrant
    BY <1>2 DEF StepInv, BusInv, RoundsConsistent, InRound, EndGrant, LastCallback
<1>4. ~EndSignal
  <2>1. ASSUME EndSignal PROVE FALSE
    <3> DEFINE type == IF act.state = "NONE" THEN cb.kind ELSE act.type
    <3>1. type \in Signals /\ SetSignalOff(type)
        BY <2>1, SignalRound DEF StepInv
    <3> HIDE DEF type
    <3> QED
        BY <3>1 DEF SetSignalOff
  <2> QED
      BY <2>1
<1>5. ~BusGranted
    BY <1>1 DEF BusGranted, BusReqAcknowledged
<1>6. ~(ServiceCheck \/ BusTimedOut \/ IrqAcknowledged \/ SignalTimedOut)
    BY DEF ServiceCheck, BusTimedOut, IrqAcknowledged, SignalTimedOut
<1>7. ~(NextCallback \/ EndResetEnd \/ EndAccess \/ NewWait \/ NoNewWait \/ InWait \/ KeepHeld \/ StillInWait)
    BY DEF NextCallback, EndResetEnd, EndAccess, NewWait, NoNewWait, InWait, KeepHeld, StillInWait
<1>8. EndWait => waitAsserted /\ ~(cycle = "MREQ" /\ waitHold)
    BY DEF EndWait, Held
<1> QED
    BY <1>3, <1>4, <1>5, <1>6, <1>7, <1>8 DEF Service

\* Nothing but the Pi ends a wait.
LEMMA WaitStays ==
    ASSUME StepInv, Environment, waitLine
    PROVE  waitLine'
<1>1. cycle # "NONE"
    BY DEF StepInv, CyclesAgree
<1> QED
    BY <1>1 DEF Environment, BusCycle, CycleDone, Acknowledge, Withdraw, ActionTimer, WaitTimer, cpuVars

-----------------------------------------------------------------------------
(* CyclesAgree is inductive *)

LEMMA ClientCycles ==
    ASSUME StepInv, ClientDiscipline, NEW s \in Socket, ClientCall(s)
    PROVE  CyclesAgree'
<1> USE DEF StepInv, CyclesAgree, piVars, lineVars, cpuVars
<1>1. ~BlockAccessSync(s)
  <2>1. cb.kind \in Rounds
      BY DEF BusInv, TypeOK
  <2> QED
      BY <2>1 DEF BlockAccessSync, May, ClientDiscipline, NoSync
<1>2. ASSUME NEW t \in Signals, TargetReqSignal(s, t) PROVE CyclesAgree'
    BY <1>2 DEF TargetReqSignal
<1>3. ASSUME NEW r \in Reasons, TargetReqBus(s, r) PROVE CyclesAgree'
    BY <1>3 DEF TargetReqBus
<1>4. CASE BusSocketEnable(s)
    BY <1>4 DEF BusSocketEnable, SetWaitGen
<1>5. ASSUME NEW isOn \in BOOLEAN, SetWaitOn(s, "WAIT_MEM", "MREQ", isOn) \/ SetWaitOn(s, "WAIT_IO", "IORQ", isOn)
      PROVE  CyclesAgree'
  <2>1. UNCHANGED <<cycle, busack>>
      BY <1>5 DEF SetWaitOn
  <2>2. waitLine' => waitLine
      BY <1>5 DEF SetWaitOn, SetWaitGen
  <2> QED
      BY <2>1, <2>2
<1>6. ASSUME NEW hold \in BOOLEAN, SetWaitHold(s, hold) PROVE CyclesAgree'
    BY <1>6 DEF SetWaitHold
<1>7. CASE ClientWaitRelease(s)
    BY <1>7 DEF ClientWaitRelease, WaitRelease, WaitReset, WaitHandleReadRelease
<1>8. CASE TargetPageOut(s) \/ TargetPageIn(s)
    BY <1>8 DEF TargetPageOut, TargetPageIn
<1>9. CASE BusAccessReset(s)
    BY <1>9 DEF BusAccessReset, WaitReset
<1> QED
    BY <1>1, <1>2, <1>3, <1>4, <1>5, <1>6, <1>7, <1>8, <1>9 DEF ClientCall

LEMMA ServiceCycles ==
    ASSUME StepInv, Service
    PROVE  CyclesAgree'
<1> USE DEF StepInv, CyclesAgree, piVars, lineVars, cpuVars
<1>1. ASSUME ControlRelease(act, busack), UNCHANGED cycle PROVE CyclesAgree'
    BY <1>1 DEF ControlRelease, WaitReset
<1>2. ASSUME NEW type, SetSignalOff(type), UNCHANGED cycle PROVE CyclesAgree'
    BY <1>1, <1>2 DEF SetSignalOff
<1>3. CASE CancelPending
    BY <1>2, <1>3 DEF CancelPending
<1>4. CASE EndFail
    BY <1>2, <1>4 DEF EndFail
<1>5. CASE EndSignal
  <2>1. UNCHANGED cycle
      BY <1>5 DEF EndSignal
  <2>2. \E type : SetSignalOff(type)
      BY <1>5 DEF EndSignal
  <2> QED
      BY <1>2, <2>1, <2>2
<1>6. CASE EndGrant
    BY <1>1, <1>6 DEF EndGrant, ReleaseAndStart
<1>7. CASE BusGranted
    BY <1>7 DEF BusGranted, ControlTake
<1>8. CASE ServiceCheck \/ BusTimedOut \/ IrqAcknowledged \/ SignalTimedOut
    BY <1>8 DEF ServiceCheck, BusTimedOut, IrqAcknowledged, SignalTimedOut
<1>9. CASE \/ NextCallback \/ EndResetEnd \/ EndAccess \/ NewWait \/ NoNewWait
           \/ InWait \/ KeepHeld \/ StillInWait
    BY <1>9 DEF NextCallback, EndResetEnd, EndAccess, NewWait, NoNewWait, InWait, KeepHeld, StillInWait
<1>10. CASE EndWait
    BY <1>10 DEF EndWait, WaitRelease, WaitReset, WaitHandleReadRelease
<1> QED
    BY <1>3, <1>4, <1>5, <1>6, <1>7, <1>8, <1>9, <1>10 DEF Service

LEMMA EnvironmentCycles ==
    ASSUME StepInv, Environment
    PROVE  CyclesAgree'
<1> USE DEF StepInv, CyclesAgree, cpuVars
<1>1. ASSUME NEW kind \in {"MREQ", "IORQ", "INTACK"}, BusCycle(kind) PROVE CyclesAgree'
    BY <1>1 DEF BusCycle
<1>2. CASE CycleDone \/ Acknowledge \/ Withdraw
    BY <1>2 DEF CycleDone, Acknowledge, Withdraw
<1>3. CASE ActionTimer \/ WaitTimer
    BY <1>3 DEF ActionTimer, WaitTimer
<1> QED
    BY <1>1, <1>2, <1>3 DEF Environment

\* BusInv holds, and the Z80's cycles agree with its lines.
THEOREM StepInvariant == ASSUME ClientDiscipline PROVE Spec => []StepInv
<1>1. Init => StepInv
    BY InitInv DEF Init, StepInv, CyclesAgree
<1>2. ASSUME StepInv, [Next]_vars PROVE StepInv'
  <2>1. BusInv'
      BY <1>2, NextInv DEF StepInv
  <2>2. CASE UNCHANGED vars
    <3>1. UNCHANGED cpuVars
        BY <2>2 DEF vars
    <3> QED
        BY <1>2, <2>1, <3>1 DEF StepInv, CyclesAgree, cpuVars
  <2>3. CASE Next
      BY <1>2, <2>1, <2>3, ClientCycles, ServiceCycles, EnvironmentCycles DEF Next, StepInv
  <2> QED
      BY <1>2, <2>2, <2>3
<1> QED
    BY <1>1, <1>2, PTL DEF Spec

-----------------------------------------------------------------------------
(* The properties of steps *)

\* A Z80 held in a memory cycle is let go by a client or by a bus request that is
\* given up, and by no amount of service.
THEOREM HeldIsKept == ASSUME ClientDiscipline PROVE Spec => HeldCycleKept
<1>1. ASSUME StepInv, [Next]_vars
      PROVE  [(waitLine /\ waitAsserted /\ cycle = "MREQ" /\ waitHold /\ ~waitLine')
                => \/ \E s \in Socket : ClientCall(s)
                   \/ EndFail \/ CancelPending]_vars
    BY <1>1, WaitEnds, WaitStays DEF Next
<1> QED
    BY <1>1, StepInvariant, PTL DEF Spec, HeldCycleKept

\* No waited access gets past the layer before the sockets were told of it, but by a
\* client or a bus request that is given up.
THEOREM WaitsAreSeen == ASSUME ClientDiscipline PROVE Spec => WaitedCycleIsSeen
<1>1. ASSUME StepInv, [Next]_vars
      PROVE  [(waitLine /\ ~waitAsserted /\ ~waitLine')
                => \/ \E s \in Socket : ClientCall(s)
                   \/ EndFail \/ CancelPending]_vars
    BY <1>1, WaitEnds, WaitStays DEF Next
<1> QED
    BY <1>1, StepInvariant, PTL DEF Spec, WaitedCycleIsSeen

\* Memory is paged in by the end of the Z80's read, or with the Z80 at the start of an
\* access, or by a reset of the layer.
THEOREM PagedInBetweenReads == Spec => PageInBetweenReads
<1>1. ASSUME [Next]_vars
      PROVE  [(pagedOut /\ ~pagedOut')
                => \/ cycle' = "NONE"
                   \/ waitLine'
                   \/ \E s \in Socket : BusAccessReset(s)]_vars
  <2> USE DEF piVars, lineVars, cpuVars
  <2>1. ASSUME WaitRelease, pagedOut, ~pagedOut' PROVE cycle' = "NONE"
      BY <2>1 DEF WaitRelease, WaitHandleReadRelease
  <2>2. ASSUME NEW s \in Socket, ClientCall(s), pagedOut, ~pagedOut'
        PROVE  cycle' = "NONE" \/ BusAccessReset(s)
    <3>1. ClientWaitRelease(s) \/ BusAccessReset(s)
        BY <2>2 DEF ClientCall, TargetReqSignal, TargetReqBus, BusSocketEnable, SetWaitOn, SetWaitHold,
             TargetPageOut, TargetPageIn, BlockAccessSync
    <3> QED
        BY <2>1, <2>2, <3>1 DEF ClientWaitRelease
  <2>3. ASSUME Service, pagedOut, ~pagedOut' PROVE cycle' = "NONE" \/ waitLine'
    <3>1. NewWait \/ EndWait
        BY <2>3 DEF Service, ServiceCheck, CancelPending, BusGranted, BusTimedOut, IrqAcknowledged,
             SignalTimedOut, NextCallback, EndGrant, EndFail, EndSignal, EndResetEnd, EndAccess,
             NoNewWait, InWait, KeepHeld, StillInWait
    <3>2. CASE NewWait
        BY <3>2 DEF NewWait
    <3>3. CASE EndWait
        BY <2>1, <2>3, <3>3 DEF EndWait
    <3> QED
        BY <3>1, <3>2, <3>3
  <2>4. ASSUME Environment PROVE UNCHANGED pagedOut
      BY <2>4 DEF Environment, BusCycle, CycleDone, Acknowledge, Withdraw, ActionTimer, WaitTimer
  <2> QED
      BY <1>1, <2>2, <2>3, <2>4 DEF Next
<1> QED
    BY <1>1, PTL DEF Spec, PageInBetweenReads

-----------------------------------------------------------------------------
(* No bus request is dropped *)

\* A client's call takes no request off.
LEMMA ClientsKeepRequests ==
    ASSUME TypeOK, NEW c \in Socket, ClientCall(c), NEW s \in Socket
    PROVE  sock[s].pending \subseteq sock'[s].pending
<1> USE DEF piVars, lineVars, cpuVars
<1>1. sock \in [Socket -> SockType]
    BY DEF TypeOK
<1>2. CASE \E t \in Signals : TargetReqSignal(c, t)
    BY <1>1, <1>2 DEF TargetReqSignal
<1>3. CASE \E r \in Reasons : TargetReqBus(c, r)
    BY <1>1, <1>3 DEF TargetReqBus
<1>4. CASE BusSocketEnable(c)
    BY <1>1, <1>4 DEF BusSocketEnable
<1>5. ASSUME NEW isOn \in BOOLEAN, SetWaitOn(c, "WAIT_MEM", "MREQ", isOn) \/ SetWaitOn(c, "WAIT_IO", "IORQ", isOn)
      PROVE  sock[s].pending \subseteq sock'[s].pending
  <2>1. \E w : sock' = [sock EXCEPT ![c].waitOn = w]
      BY <1>5, Zenon DEF SetWaitOn
  <2> QED
      BY <1>1, <2>1
<1>6. CASE \E hold \in BOOLEAN : SetWaitHold(c, hold)
    BY <1>1, <1>6 DEF SetWaitHold
<1>7. CASE \/ ClientWaitRelease(c) \/ TargetPageOut(c) \/ TargetPageIn(c) \/ BusAccessReset(c)
           \/ BlockAccessSync(c)
    BY <1>7 DEF ClientWaitRelease, TargetPageOut, TargetPageIn, BusAccessReset, BlockAccessSync
<1> QED
    BY <1>2, <1>3, <1>4, <1>5, <1>6, <1>7 DEF ClientCall

\* A bus request is taken off when the bus was granted, after a failure that every
\* socket was told of, or unstarted.
THEOREM RequestsAreAnswered == ASSUME ClientDiscipline PROVE Spec => BusRequestAnswered
<1>1. ASSUME BusInv, Next, NEW s \in Socket, "BUSRQ" \in sock[s].pending, "BUSRQ" \notin sock'[s].pending
      PROVE  \/ cb'.kind = "BUSRQ" /\ pc' = "CALLBACK"
             \/ cb.kind = "BUSRQ_FAIL" /\ LastCallback
             \/ act.state = "PENDING" /\ late
  <2> USE DEF piVars, lineVars, cpuVars
  <2>1. TypeOK /\ sock \in [Socket -> SockType]
      BY <1>1 DEF BusInv, TypeOK
  <2>2. ~(\E c \in Socket : ClientCall(c))
      BY <1>1, <2>1, ClientsKeepRequests
  <2>3. ~Environment
      BY <1>1 DEF Environment, BusCycle, CycleDone, Acknowledge, Withdraw, ActionTimer, WaitTimer
  <2>4. ~EndSignal
    <3>1. ASSUME EndSignal PROVE FALSE
      <4> DEFINE type == IF act.state = "NONE" THEN cb.kind ELSE act.type
      <4>1. type \in Signals /\ BusActionClearFlags(type)
          BY <1>1, <3>1, SignalRound
      <4> HIDE DEF type
      <4> QED
          BY <1>1, <2>1, <4>1, FlagsCleared
    <3> QED
        BY <3>1
  <2>5. ~IrqAcknowledged
    <3>1. ASSUME IrqAcknowledged PROVE FALSE
      <4>1. act.type = "IRQ" /\ BusActionClearFlags(act.type)
          BY <3>1 DEF IrqAcknowledged, IrqAcked
      <4> QED
          BY <1>1, <2>1, <4>1, FlagsCleared
    <3> QED
        BY <3>1
  <2>6. CancelPending \/ BusGranted \/ EndFail
      BY <1>1, <2>2, <2>3, <2>4, <2>5 DEF Next, Service, ServiceCheck, BusTimedOut, SignalTimedOut,
           NextCallback, EndGrant, EndResetEnd, EndAccess, NewWait, NoNewWait, InWait, KeepHeld,
           EndWait, StillInWait
  <2> QED
      BY <2>6 DEF CancelPending, BusGranted, Callback, EndFail
<1>2. ASSUME BusInv, [Next]_vars
      PROVE  [\A s \in Socket :
                sock[s].enabled /\ "BUSRQ" \in sock[s].pending /\ "BUSRQ" \notin sock'[s].pending
                  => \/ cb'.kind = "BUSRQ" /\ pc' = "CALLBACK"
                     \/ cb.kind = "BUSRQ_FAIL" /\ LastCallback
                     \/ act.state = "PENDING" /\ late]_vars
    BY <1>1, <1>2
<1> QED
    BY <1>2, BusInvariant, PTL DEF Spec, BusRequestAnswered

=============================================================================
