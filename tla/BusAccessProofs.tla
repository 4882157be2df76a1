-------------------------- MODULE BusAccessProofs --------------------------
(***************************************************************************)
(* Proofs that the bus access layer keeps its promises for any number of   *)
(* sockets and any table of client calls that respects ClientDiscipline.   *)
(***************************************************************************)
EXTENDS BusAccess, TLAPS, WellFoundedInduction

USE DEF Socket, Signals, Actions, Reasons, Rounds, Places, Controls, WaitOps

-----------------------------------------------------------------------------
(* The operators the steps are built from *)

\* A non-empty set of sockets has a first one, so busActionCheck finds its socket.
LEMMA FirstSocket ==
    ASSUME NEW S, S \subseteq Socket, S # {}
    PROVE  \E i \in S : \A j \in S : i <= j
<1> DEFINE Less == {ss \in Nat \X Nat : ss[1] < ss[2]}
<1>1. IsWellFoundedOn(Less, Nat)
    BY NatLessThanWellFounded DEF OpToRel
<1>2. S \subseteq Nat
    BY SocketsAssumption
<1>3. PICK i \in S : \A j \in S : ~(<<j, i>> \in Less)
  <2> HIDE DEF Less
  <2> QED
      BY <1>1, <1>2, WFMin
<1>4. \A j \in S : ~(j < i)
    BY <1>2, <1>3
<1> QED
    BY <1>2, <1>4

SockType == [enabled : BOOLEAN, pending : SUBSET Actions, reason : Reasons,
             waitOn : SUBSET WaitOps, hold : BOOLEAN]
ActType  == [state : {"NONE", "PENDING", "ASSERTED"}, type : Actions, sock : Socket]

\* busActionCheck leaves an action in progress alone; if it finds a new one, that is
\* pending, of an enabled socket, and of a type this socket wants.
LEMMA CheckResult ==
    ASSUME NEW a \in ActType, NEW sk \in [Socket -> SockType]
    PROVE  /\ BusActionCheck(a, sk) \in ActType
           /\ a.state # "NONE" => BusActionCheck(a, sk) = a
           /\ BusActionCheck(a, sk) # a =>
                 /\ BusActionCheck(a, sk).state = "PENDING"
                 /\ BusActionCheck(a, sk).type \in sk[BusActionCheck(a, sk).sock].pending
                 /\ sk[BusActionCheck(a, sk).sock].enabled
<1>1. CASE a.state # "NONE" \/ Ready(sk) = {}
    BY <1>1 DEF BusActionCheck
<1>2. CASE a.state = "NONE" /\ Ready(sk) # {}
  <2> DEFINE s == CHOOSE i \in Ready(sk) : \A j \in Ready(sk) : i <= j
  <2>1. \E i \in Ready(sk) : \A j \in Ready(sk) : i <= j
      BY <1>2, FirstSocket DEF Ready
  <2>2. s \in Ready(sk)
      BY <2>1
  <2>3. s \in Socket /\ sk[s].enabled /\ sk[s].pending # {} /\ sk[s].pending \subseteq Actions
      BY <2>2 DEF Ready, SockType
  <2>4. GetType(sk[s]) \in sk[s].pending
      BY <2>3 DEF GetType
  <2>5. BusActionCheck(a, sk) = [state |-> "PENDING", type |-> GetType(sk[s]), sock |-> s]
      BY <1>2 DEF BusActionCheck
  <2> HIDE DEF s
  <2> QED
      BY <1>2, <2>3, <2>4, <2>5 DEF ActType
<1> QED
    BY <1>1, <1>2

LEMMA ClearDownType ==
    ASSUME NEW sk \in [Socket -> SockType], NEW type
    PROVE  /\ ClearDown(sk, type) \in [Socket -> SockType]
           /\ \A s \in Socket : type \notin ClearDown(sk, type)[s].pending
BY DEF ClearDown, SockType

-----------------------------------------------------------------------------
(* Type correctness *)

USE DEF SockType, ActType

\* What a step that starts the action a (found by busActionCheck) does to the types.
LEMMA StartActionType ==
    ASSUME TypeOK, NEW a \in ActType, StartAction(a)
    PROVE  /\ act' \in ActType
           /\ late' \in BOOLEAN
           /\ mux' \in Signals \cup {"CLEAR"}
           /\ busrq' \in BOOLEAN
BY DEF TypeOK, StartAction, Started, MuxAfter, BusrqAfter

LEMMA WaitOnType ==
    ASSUME NEW sk \in [Socket -> SockType]
    PROVE  WaitOn(sk) \subseteq WaitOps
BY DEF WaitOn

LEMMA WaitReleaseType ==
    ASSUME TypeOK, WaitRelease
    PROVE  /\ waitLine' \in BOOLEAN
           /\ waitAsserted' \in BOOLEAN
           /\ waitLate' \in BOOLEAN
           /\ reading' \in BOOLEAN
           /\ pageInDue' \in BOOLEAN
           /\ pagedOut' \in BOOLEAN
           /\ cycle' \in {"NONE", "MREQ", "IORQ", "INTACK"}
BY DEF TypeOK, WaitRelease, WaitReset, WaitHandleReadRelease

LEMMA ControlReleaseType ==
    ASSUME TypeOK, NEW acked \in BOOLEAN, ControlRelease(act, acked)
    PROVE  /\ mux' \in Signals \cup {"CLEAR"}
           /\ busrq' \in BOOLEAN
           /\ underControl' \in BOOLEAN
           /\ waitGen' \subseteq WaitOps
           /\ waitLine' \in BOOLEAN
           /\ waitAsserted' \in BOOLEAN
           /\ waitLate' \in BOOLEAN
           /\ busack' \in BOOLEAN
<1>1. BusActionCheck(act, sock) \in ActType
    BY CheckResult DEF TypeOK
<1>2. WaitOn(sock) \subseteq WaitOps
    BY WaitOnType DEF TypeOK
<1> QED
    BY <1>1, <1>2, BoundAssumption DEF TypeOK, ControlRelease, WaitReset, MuxAfter

LEMMA SignalOffType ==
    ASSUME TypeOK, NEW type, SetSignalOff(type)
    PROVE  /\ mux' \in Signals \cup {"CLEAR"}
           /\ busrq' \in BOOLEAN
           /\ underControl' \in BOOLEAN
           /\ waitGen' \subseteq WaitOps
           /\ waitLine' \in BOOLEAN
           /\ waitAsserted' \in BOOLEAN
           /\ waitLate' \in BOOLEAN
           /\ busack' \in BOOLEAN
<1>1. CASE type = "BUSRQ"
  <2>1. ControlRelease(act, busack) /\ busack \in BOOLEAN
      BY <1>1 DEF SetSignalOff, TypeOK
  <2> QED
      BY <2>1, ControlReleaseType
<1>2. CASE type # "BUSRQ"
    BY <1>2 DEF SetSignalOff, SignalOff, TypeOK
<1> QED
    BY <1>1, <1>2

LEMMA ClearFlagsType ==
    ASSUME TypeOK, NEW type, BusActionClearFlags(type)
    PROVE  sock' \in [Socket -> SockType] /\ act' \in ActType /\ late' \in BOOLEAN
<1>1. ClearDown(sock, type) \in [Socket -> SockType]
    BY ClearDownType DEF TypeOK
<1>2. 1 \in Socket
    BY SocketsAssumption
<1> QED
    BY <1>1, <1>2 DEF BusActionClearFlags, NoAction

LEMMA RoundType ==
    ASSUME NEW kind \in Rounds, NEW reason \in Reasons
    PROVE  /\ Callback(kind, reason) => /\ pc' \in {"LOOP", "CALLBACK", "WAITS", "RELEASE"}
                                       /\ cb' \in [kind : Rounds, reason : Reasons, at : Socket]
           /\ ToWaits => /\ pc' \in {"LOOP", "CALLBACK", "WAITS", "RELEASE"}
                         /\ cb' \in [kind : Rounds, reason : Reasons, at : Socket]
           /\ NoRound \in [kind : Rounds, reason : Reasons, at : Socket]
<1>1. 1 \in Socket
    BY SocketsAssumption
<1> QED
    BY <1>1 DEF Callback, ToWaits, NoRound

LEMMA ClientCallType ==
    ASSUME TypeOK, NEW s \in Socket, ClientCall(s)
    PROVE  TypeOK'
<1> USE DEF TypeOK, piVars, lineVars, cpuVars
<1>1. ASSUME NEW t \in Signals, TargetReqSignal(s, t) PROVE TypeOK'
    BY <1>1, BoundAssumption DEF TargetReqSignal
<1>2. ASSUME NEW r \in Reasons, TargetReqBus(s, r) PROVE TypeOK'
  <2>1. sock' \in [Socket -> SockType]
      BY <1>2 DEF TargetReqBus
  <2>2. BusActionCheck(act, sock') \in ActType
      BY <2>1, CheckResult
  <2>3. StartAction(BusActionCheck(act, sock'))
      BY <1>2 DEF TargetReqBus
  <2>4. /\ act' \in ActType /\ late' \in BOOLEAN
        /\ mux' \in Signals \cup {"CLEAR"} /\ busrq' \in BOOLEAN
      BY <2>2, <2>3, StartActionType
  <2> QED
      BY <1>2, <2>1, <2>4 DEF TargetReqBus
<1>3. ASSUME BusSocketEnable(s) PROVE TypeOK'
  <2> DEFINE flipped == [sock[s] EXCEPT !.enabled = ~@]
  <2>1. flipped \in SockType
    <3>1. sock[s] \in SockType /\ (~sock[s].enabled) \in BOOLEAN
        OBVIOUS
    <3> QED
        BY <3>1
  <2>2. sock' = [sock EXCEPT ![s] = flipped]
      BY <1>3 DEF BusSocketEnable
  <2>3. sock' \in [Socket -> SockType]
      BY <2>1, <2>2
  <2>4. WaitOn(sock') \subseteq WaitOps
      BY <2>3, WaitOnType
  <2>5. waitLine' \in BOOLEAN
      BY <1>3 DEF BusSocketEnable, SetWaitGen
  <2>6. waitGen' \subseteq WaitOps
      BY <1>3, <2>4 DEF BusSocketEnable, SetWaitGen
  <2>7. UNCHANGED <<piVars, mux, busrq, underControl, pagedOut, cycle, busack, pc, cb, signals>>
      BY <1>3 DEF BusSocketEnable
  <2> QED
      BY <2>3, <2>5, <2>6, <2>7
<1>4. ASSUME NEW op, NEW line \in WaitOps, NEW isOn, SetWaitOn(s, op, line, isOn) PROVE TypeOK'
  <2>1. sock' \in [Socket -> SockType]
      BY <1>4 DEF SetWaitOn
  <2>2. WaitOn(sock') \subseteq WaitOps
      BY <2>1, WaitOnType
  <2>3. waitLine' \in BOOLEAN
      BY <1>4 DEF SetWaitOn, SetWaitGen
  <2>4. waitGen' \subseteq WaitOps
      BY <1>4, <2>2 DEF SetWaitOn, SetWaitGen
  <2>5. UNCHANGED <<piVars, mux, busrq, underControl, pagedOut, cycle, busack, pc, cb, signals>>
      BY <1>4 DEF SetWaitOn
  <2> QED
      BY <2>1, <2>3, <2>4, <2>5
<1>5. ASSUME NEW hold \in BOOLEAN, SetWaitHold(s, hold) PROVE TypeOK'
    BY <1>5 DEF SetWaitHold
<1>6. ASSUME ClientWaitRelease(s) PROVE TypeOK'
    BY <1>6, WaitReleaseType DEF ClientWaitRelease
<1>7. ASSUME TargetPageOut(s) PROVE TypeOK'
    BY <1>7 DEF TargetPageOut
<1>10. ASSUME TargetPageIn(s) PROVE TypeOK'
    BY <1>10 DEF TargetPageIn
<1>8. ASSUME BusAccessReset(s) PROVE TypeOK'
  <2>1. WaitOn(sock) \subseteq WaitOps
      BY WaitOnType
  <2>2. waitGen' \subseteq WaitOps
      BY <1>8, <2>1 DEF BusAccessReset
  <2>3. /\ pagedOut' \in BOOLEAN /\ mux' \in Signals \cup {"CLEAR"} /\ reading' \in BOOLEAN
        /\ waitLine' \in BOOLEAN /\ waitAsserted' \in BOOLEAN /\ waitLate' \in BOOLEAN
      BY <1>8 DEF BusAccessReset, WaitReset
  <2>4. UNCHANGED <<sock, act, late, waitHold, pageInDue, busrq, underControl,
                    cycle, busack, pc, cb, signals>>
      BY <1>8 DEF BusAccessReset
  <2> QED
      BY <2>2, <2>3, <2>4
<1>9. ASSUME BlockAccessSync(s) PROVE TypeOK'
  <2>1. BusActionCheck(act, sock) \in ActType
      BY CheckResult
  <2>2. PICK acked \in {busack, ~waitLine} :
            cycle' = (IF acked THEN "NONE" ELSE cycle) /\ ReleaseAndStart(acked)
      BY <1>9 DEF BlockAccessSync
  <2>3. acked \in BOOLEAN
      OBVIOUS
  <2>4. /\ ControlRelease(act, acked) /\ act' = Started(BusActionCheck(act, sock))
         /\ late' \in BOOLEAN /\ cycle' \in {"NONE", "MREQ", "IORQ", "INTACK"}
      BY <2>2 DEF ReleaseAndStart
  <2>5. UNCHANGED <<sock, waitHold, reading, pageInDue, pagedOut, pc, cb, signals>>
      BY <1>9 DEF BlockAccessSync
  <2>6. act' \in ActType
      BY <2>1, <2>4 DEF Started
  <2> QED
      BY <2>3, <2>4, <2>5, <2>6, ControlReleaseType
<1> QED
    BY <1>1, <1>2, <1>3, <1>4, <1>5, <1>6, <1>7, <1>8, <1>9, <1>10 DEF ClientCall, WaitOps

\* The steps of service that keep the sockets and the lines: only the action, the
\* place of the Pi and the round change.
LEMMA ServiceType ==
    ASSUME TypeOK, Service
    PROVE  TypeOK'
<1> USE DEF TypeOK, piVars, lineVars, cpuVars
<1>first. 1 \in Socket
    BY SocketsAssumption
<1>1. ASSUME ServiceCheck PROVE TypeOK'
  <2>1. BusActionCheck(act, sock) \in ActType
      BY CheckResult
  <2>2. act' \in ActType /\ late' \in BOOLEAN
      BY <1>1, <2>1 DEF ServiceCheck
  <2>3. ToWaits /\ UNCHANGED <<sock, waitAsserted, waitHold, waitLate, reading, pageInDue,
                               lineVars, cpuVars, signals>>
      BY <1>1 DEF ServiceCheck
  <2> QED
      BY <1>first, <2>2, <2>3 DEF ToWaits, NoRound
<1>2. ASSUME CancelPending PROVE TypeOK'
  <2>1. sock' \in [Socket -> SockType] /\ act' \in ActType /\ late' \in BOOLEAN
      BY <1>2, ClearFlagsType DEF CancelPending
  <2>2. /\ SetSignalOff(act.type) /\ ToWaits
        /\ UNCHANGED <<waitHold, reading, pageInDue, pagedOut, cycle, signals>>
      BY <1>2 DEF CancelPending
  <2> QED
      BY <1>first, <2>1, <2>2, SignalOffType DEF ToWaits, NoRound
<1>3. ASSUME BusGranted PROVE TypeOK'
  <2>1. sock' \in [Socket -> SockType] /\ act' \in ActType /\ late' \in BOOLEAN
      BY <1>3, ClearFlagsType DEF BusGranted
  <2>2. pc' = "CALLBACK" /\ cb' \in [kind : Rounds, reason : Reasons, at : Socket]
      BY <1>first, <1>3 DEF BusGranted, Callback
  <2>3. waitGen' \subseteq WaitOps /\ waitLine' \in BOOLEAN /\ underControl' \in BOOLEAN
      BY <1>3 DEF BusGranted, ControlTake
  <2>4. UNCHANGED <<waitAsserted, waitHold, waitLate, reading, pageInDue, mux, busrq, pagedOut,
                    cycle, busack, signals>>
      BY <1>3 DEF BusGranted
  <2> QED
      BY <2>1, <2>2, <2>3, <2>4
<1>4. ASSUME BusTimedOut PROVE TypeOK'
  <2>1. pc' = "CALLBACK" /\ cb' \in [kind : Rounds, reason : Reasons, at : Socket]
      BY <1>first, <1>4 DEF BusTimedOut, Callback
  <2> QED
      BY <1>4, <2>1 DEF BusTimedOut
<1>5. ASSUME IrqAcknowledged PROVE TypeOK'
  <2>1. sock' \in [Socket -> SockType] /\ act' \in ActType /\ late' \in BOOLEAN
      BY <1>5, ClearFlagsType DEF IrqAcknowledged
  <2>2. /\ pc' \in {"LOOP", "CALLBACK", "WAITS", "RELEASE"}
        /\ cb' \in [kind : Rounds, reason : Reasons, at : Socket]
      BY <1>5, RoundType DEF IrqAcknowledged
  <2>3. /\ mux' = "CLEAR"
        /\ UNCHANGED <<waitAsserted, waitHold, waitLate, reading, pageInDue, busrq,
                       underControl, waitGen, pagedOut, cpuVars, signals>>
      BY <1>5 DEF IrqAcknowledged, SignalOff
  <2> QED
      BY <2>1, <2>2, <2>3
<1>6. ASSUME SignalTimedOut PROVE TypeOK'
  <2>1. pc' = "CALLBACK" /\ cb' \in [kind : Rounds, reason : Reasons, at : Socket]
      BY <1>first, <1>6 DEF SignalTimedOut, Callback
  <2> QED
      BY <1>6, <2>1 DEF SignalTimedOut
<1>7. ASSUME NextCallback PROVE TypeOK'
  <2>1. cb' \in [kind : Rounds, reason : Reasons, at : Socket]
    <3>1. CASE cb.at < NumSockets
      <4>1. cb.at + 1 \in Socket
          BY <3>1, SocketsAssumption
      <4>2. cb' = [cb EXCEPT !.at = cb.at + 1]
          BY <1>7, <3>1 DEF NextCallback
      <4> QED
          BY <4>1, <4>2
    <3>2. CASE ~(cb.at < NumSockets)
        BY <1>first, <1>7, <3>2 DEF NextCallback
    <3> QED
        BY <3>1, <3>2
  <2>2. UNCHANGED <<sock, piVars, lineVars, cpuVars, pc, signals>>
      BY <1>7 DEF NextCallback
  <2> QED
      BY <2>1, <2>2
<1>8. ASSUME EndGrant PROVE TypeOK'
  <2>1. BusActionCheck(act, sock) \in ActType
      BY CheckResult
  <2>2. /\ ControlRelease(act, busack) /\ act' = Started(BusActionCheck(act, sock))
        /\ late' \in BOOLEAN /\ busack \in BOOLEAN
      BY <1>8 DEF EndGrant, ReleaseAndStart
  <2>3. act' \in ActType
      BY <2>1, <2>2 DEF Started
  <2>4. ToWaits /\ UNCHANGED <<sock, waitHold, reading, pageInDue, pagedOut, cycle, signals>>
      BY <1>8 DEF EndGrant
  <2> QED
      BY <1>first, <2>2, <2>3, <2>4, ControlReleaseType DEF ToWaits, NoRound
<1>9. ASSUME EndFail PROVE TypeOK'
  <2>1. sock' \in [Socket -> SockType] /\ act' \in ActType /\ late' \in BOOLEAN
      BY <1>9, ClearFlagsType DEF EndFail
  <2>2. /\ SetSignalOff("BUSRQ") /\ ToWaits
        /\ UNCHANGED <<waitHold, reading, pageInDue, pagedOut, cycle, signals>>
      BY <1>9 DEF EndFail
  <2> QED
      BY <1>first, <2>1, <2>2, SignalOffType DEF ToWaits, NoRound
<1>10. ASSUME EndSignal PROVE TypeOK'
  <2> DEFINE type == IF act.state = "NONE" THEN cb.kind ELSE act.type
  <2>1. /\ SetSignalOff(type) /\ BusActionClearFlags(type)
        /\ IF type = "RESET" THEN Callback("RESET_END", "GENERAL") ELSE ToWaits
        /\ UNCHANGED <<waitHold, reading, pageInDue, pagedOut, cycle, signals>>
      BY <1>10 DEF EndSignal
  <2> HIDE DEF type
  <2>2. sock' \in [Socket -> SockType] /\ act' \in ActType /\ late' \in BOOLEAN
      BY <2>1, ClearFlagsType
  <2>3. /\ pc' \in {"LOOP", "CALLBACK", "WAITS", "RELEASE"}
        /\ cb' \in [kind : Rounds, reason : Reasons, at : Socket]
      BY <2>1, RoundType
  <2> QED
      BY <2>1, <2>2, <2>3, SignalOffType
<1>11. ASSUME EndResetEnd PROVE TypeOK'
    BY <1>first, <1>11 DEF EndResetEnd, ToWaits, NoRound
<1>12. ASSUME EndAccess PROVE TypeOK'
  <2>1. reading' \in BOOLEAN /\ pc' = "RELEASE"
      BY <1>12 DEF EndAccess
  <2>2. cb' \in [kind : Rounds, reason : Reasons, at : Socket]
      BY <1>12, RoundType DEF EndAccess
  <2>3. UNCHANGED <<sock, act, late, waitAsserted, waitHold, waitLate, pageInDue, lineVars,
                    cpuVars, signals>>
      BY <1>12 DEF EndAccess
  <2> QED
      BY <2>1, <2>2, <2>3
<1>13. ASSUME NewWait PROVE TypeOK'
  <2>1. /\ waitAsserted' \in BOOLEAN /\ waitLate' \in BOOLEAN
        /\ pagedOut' \in BOOLEAN /\ pageInDue' \in BOOLEAN /\ mux' = "CLEAR"
      BY <1>13 DEF NewWait
  <2>2. pc' = "CALLBACK" /\ cb' \in [kind : Rounds, reason : Reasons, at : Socket]
      BY <1>first, <1>13 DEF NewWait, Callback
  <2>3. UNCHANGED <<sock, act, late, waitHold, reading, busrq, underControl, waitGen,
                    cpuVars, signals>>
      BY <1>13 DEF NewWait
  <2> QED
      BY <2>1, <2>2, <2>3
<1>14. ASSUME NoNewWait PROVE TypeOK'
  <2>1. /\ act' \in ActType /\ late' \in BOOLEAN
        /\ mux' \in Signals \cup {"CLEAR"} /\ busrq' \in BOOLEAN
    <3>1. CASE "MREQ" \in WaitOn(sock)
        BY <1>14, <3>1 DEF NoNewWait
    <3>2. CASE "MREQ" \notin WaitOn(sock)
        BY <1>14, <3>2, StartActionType DEF NoNewWait
    <3> QED
        BY <3>1, <3>2
  <2>2. pc' = "LOOP" /\ UNCHANGED <<sock, waitAsserted, waitHold, waitLate, reading, pageInDue,
                                    underControl, waitGen, pagedOut, cpuVars, cb, signals>>
      BY <1>14 DEF NoNewWait
  <2> QED
      BY <2>1, <2>2
<1>15. ASSUME InWait PROVE TypeOK'
    BY <1>15 DEF InWait
<1>16. ASSUME KeepHeld PROVE TypeOK'
  <2>1. late' \in BOOLEAN /\ pc' = "LOOP"
      BY <1>16 DEF KeepHeld
  <2>2. UNCHANGED <<sock, act, waitAsserted, waitHold, waitLate, reading, pageInDue, lineVars,
                    cpuVars, cb, signals>>
      BY <1>16 DEF KeepHeld
  <2> QED
      BY <2>1, <2>2
<1>17. ASSUME EndWait PROVE TypeOK'
  <2>1. /\ act' \in ActType /\ late' \in BOOLEAN
        /\ mux' \in Signals \cup {"CLEAR"} /\ busrq' \in BOOLEAN
      BY <1>17, StartActionType DEF EndWait
  <2>2. WaitRelease /\ pc' = "LOOP"
        /\ UNCHANGED <<sock, waitHold, underControl, waitGen, busack, cb, signals>>
      BY <1>17 DEF EndWait
  <2> QED
      BY <2>1, <2>2, WaitReleaseType
<1>18. ASSUME StillInWait PROVE TypeOK'
    BY <1>18 DEF StillInWait
<1> QED
    BY <1>1, <1>2, <1>3, <1>4, <1>5, <1>6, <1>7, <1>8, <1>9, <1>10, <1>11, <1>12, <1>13,
       <1>14, <1>15, <1>16, <1>17, <1>18 DEF Service

LEMMA EnvironmentType ==
    ASSUME TypeOK, Environment
    PROVE  TypeOK'
<1> USE DEF TypeOK, piVars, lineVars, cpuVars
<1>1. ASSUME NEW kind \in {"MREQ", "IORQ", "INTACK"}, BusCycle(kind) PROVE TypeOK'
  <2>1. waitLine' \in BOOLEAN /\ cycle' \in {"NONE", "MREQ", "IORQ", "INTACK"}
      BY <1>1 DEF BusCycle
  <2>2. UNCHANGED <<sock, piVars, lineVars, busack, pc, cb, signals>>
      BY <1>1 DEF BusCycle
  <2> QED
      BY <2>1, <2>2
<1>2. ASSUME CycleDone PROVE TypeOK'
    BY <1>2 DEF CycleDone
<1>3. ASSUME Acknowledge PROVE TypeOK'
    BY <1>3 DEF Acknowledge
<1>4. ASSUME Withdraw PROVE TypeOK'
  <2>1. busack' \in BOOLEAN
      BY <1>4 DEF Withdraw
  <2>2. UNCHANGED <<sock, piVars, lineVars, cycle, waitLine, pc, cb, signals>>
      BY <1>4 DEF Withdraw
  <2> QED
      BY <2>1, <2>2
<1>5. ASSUME ActionTimer PROVE TypeOK'
    BY <1>5 DEF ActionTimer
<1>6. ASSUME WaitTimer PROVE TypeOK'
    BY <1>6 DEF WaitTimer
<1> QED
    BY <1>1, <1>2, <1>3, <1>4, <1>5, <1>6 DEF Environment

LEMMA InitType ==
    ASSUME Init
    PROVE  TypeOK
<1>1. 1 \in Socket
    BY SocketsAssumption
<1>2. sock \in [Socket -> SockType]
    BY DEF Init
<1>3. act \in ActType /\ cb \in [kind : Rounds, reason : Reasons, at : Socket]
    BY <1>1, RoundType DEF Init, NoAction
<1>4. /\ late \in BOOLEAN /\ waitAsserted \in BOOLEAN /\ waitHold \in BOOLEAN
      /\ waitLate \in BOOLEAN /\ mux \in Signals \cup {"CLEAR"} /\ busrq \in BOOLEAN
      /\ underControl \in BOOLEAN /\ waitGen \subseteq WaitOps
      /\ reading \in BOOLEAN /\ pageInDue \in BOOLEAN /\ pagedOut \in BOOLEAN
      /\ cycle \in {"NONE", "MREQ", "IORQ", "INTACK"}
      /\ waitLine \in BOOLEAN /\ busack \in BOOLEAN
      /\ pc \in {"LOOP", "CALLBACK", "WAITS", "RELEASE"}
    BY DEF Init
<1>5. signals \in 0..MaxSignals
    BY BoundAssumption DEF Init
<1> QED
    BY <1>2, <1>3, <1>4, <1>5 DEF TypeOK

LEMMA NextType ==
    ASSUME TypeOK, [Next]_vars
    PROVE  TypeOK'
<1>1. CASE Next
    BY <1>1, ServiceType, EnvironmentType, ClientCallType DEF Next
<1>2. CASE UNCHANGED vars
    BY <1>2 DEF TypeOK, vars, piVars, lineVars, cpuVars
<1> QED
    BY <1>1, <1>2

\* Whatever the clients call and from wherever they call it, the state of the layer
\* is one its data structures can represent; in particular the action in progress
\* always names a registered socket and one of the four kinds of action.
THEOREM TypeCorrect == Spec => []TypeOK
<1>1. Init => TypeOK
    BY InitType
<1>2. TypeOK /\ [Next]_vars => TypeOK'
    BY NextType
<1> QED
    BY <1>1, <1>2, PTL DEF Spec

=============================================================================
