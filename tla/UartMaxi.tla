------------------------------ MODULE UartMaxi ------------------------------
(***************************************************************************)
(* The serial port of the Pi to the ESP32 (System/UartMaxi.cpp): two ring  *)
(* buffers between the main loop and the UART's interrupt, and the two     *)
(* FIFOs of the UART.                                                      *)
(*                                                                         *)
(* The main loop runs in steps between which the interrupt may come (pc);  *)
(* while the interrupt handler runs (isr), or inside txPumpPrime with its  *)
(* interrupts off, the other one does not.  The UART goes on all the time. *)
(* A byte is the number of its turn, so the order of bytes can be told.    *)
(***************************************************************************)
EXTENDS RingBufferPosn

CONSTANTS
    RxLen, TxLen,   \* sizes of the ring buffers
    FifoLen,        \* depth of the UART's FIFOs
    TxTrigger,      \* the transmit interrupt comes when the FIFO drains to this level
    MaxRx, MaxTx,   \* bounds: bytes received and bytes handed to write
    MaxSetups       \* bound: changes of the baud rate

ASSUME SizesAssumption  == RxLen \in Nat \ {0, 1} /\ TxLen \in Nat \ {0, 1}
ASSUME FifoAssumption   == FifoLen \in Nat /\ TxTrigger \in 0..(FifoLen - 1)
ASSUME BoundsAssumption == MaxRx \in Nat /\ MaxTx \in Nat /\ MaxSetups \in Nat

VARIABLES
    rxRing, rxBuf,    \* _rxBufferPosn and _pRxBuffer
    txRing, txBuf,    \* _txBufferPosn and _pTxBuffer
    rxFull, txFull,   \* _rxBufferFullCount and _txBufferFullCount
    rxFifo,           \* the receive FIFO of the UART
    txLevel,          \* bytes in the transmit FIFO
    txMask, txRaw,    \* transmit interrupt: enabled, raised
    pc,               \* where the main loop is
    left,             \* bytes the write in progress still has to store
    ch,               \* the byte that the read in progress returns
    isr,              \* where the interrupt handler is; "NONE" when it does not run, "DONE"
                      \* when it has just run and the main loop moves first
    arrived,          \* bytes the line has delivered
    offered,          \* bytes handed to write so far
    accepted,         \* those that were stored, in order
    wire,             \* the bytes given to the transmit FIFO, in order
    got,              \* the byte that read returned last
    setups            \* changes of the baud rate

rxVars   == <<rxRing, rxBuf, rxFull, rxFifo, arrived, got>>
txVars   == <<txRing, txBuf, txFull, txLevel, txMask, txRaw, offered, accepted, wire>>
mainVars == <<pc, left, ch, setups>>
vars     == <<rxVars, txVars, mainVars, isr>>

TypeOK ==
    /\ rxRing \in [put : 0..(RxLen - 1), get : 0..RxLen]
    /\ rxBuf \in [0..(RxLen - 1) -> 0..MaxRx]
    /\ txRing \in [put : 0..TxLen, get : 0..(TxLen - 1)]
    /\ txBuf \in [0..(TxLen - 1) -> 0..MaxTx]
    /\ rxFull \in Nat /\ txFull \in Nat
    /\ rxFifo \in Seq(1..MaxRx) /\ Len(rxFifo) <= FifoLen
    /\ txLevel \in 0..FifoLen
    /\ txMask \in BOOLEAN /\ txRaw \in BOOLEAN
    /\ pc \in {"IDLE", "WRITE", "ROOM", "STORE", "ADVANCE", "WRAP", "PRIME",
               "READ_ADVANCE", "READ_WRAP", "CLEAR_PUT", "CLEAR_GET"}
    /\ left \in 0..MaxTx
    /\ ch \in 0..MaxRx
    /\ isr \in {"NONE", "RX", "TX", "DONE"}
    /\ arrived \in 0..MaxRx
    /\ offered \in 0..MaxTx
    /\ accepted \in Seq(1..MaxTx)
    /\ wire \in Seq(0..MaxTx)
    /\ got \in 0..MaxRx
    /\ setups \in 0..MaxSetups

Init ==
    /\ rxRing = [put |-> 0, get |-> 0] /\ rxBuf = [i \in 0..(RxLen - 1) |-> 0]
    /\ txRing = [put |-> 0, get |-> 0] /\ txBuf = [i \in 0..(TxLen - 1) |-> 0]
    /\ rxFull = 0 /\ txFull = 0
    /\ rxFifo = <<>> /\ txLevel = 0 /\ txMask = FALSE /\ txRaw = FALSE
    /\ pc = "IDLE" /\ left = 0 /\ ch = 0 /\ isr = "NONE"
    /\ arrived = 0 /\ offered = 0 /\ setups = 0
    /\ accepted = <<>> /\ wire = <<>> /\ got = 0

-----------------------------------------------------------------------------
(* Transmission, main loop *)

MainAt(place) == isr \in {"NONE", "DONE"} /\ pc = place

\* write: n bytes one after the other, then the pump is primed once. The interrupt
\* may come between any two accesses to the positions.
Write(n) ==
    /\ MainAt("IDLE") /\ offered + n <= MaxTx
    /\ left' = n
    /\ pc' = "WRITE"
    /\ UNCHANGED <<rxVars, txVars, ch, setups, isr>>

\* writeBase: canPut reads _getPos once to see whether the ring is empty ...
WriteCheck ==
    /\ MainAt("WRITE")
    /\ pc' = IF CanGet(txRing.put, txRing.get) THEN "ROOM" ELSE "STORE"
    /\ UNCHANGED <<rxVars, txVars, left, ch, setups, isr>>

NextByte ==
    /\ left' = left - 1
    /\ offered' = offered + 1
    /\ pc' = IF left > 1 THEN "WRITE" ELSE "PRIME"

\* ... and once more to see whether there is room; without room the byte is refused.
WriteRoom ==
    /\ MainAt("ROOM")
    /\ IF Room(txRing.put, txRing.get, TxLen)
       THEN pc' = "STORE" /\ UNCHANGED <<left, offered, txFull>>
       ELSE NextByte /\ txFull' = txFull + 1
    /\ UNCHANGED <<rxVars, txRing, txBuf, txLevel, txMask, txRaw, accepted, wire, ch, setups, isr>>

WriteStore ==
    /\ MainAt("STORE")
    /\ txBuf' = [txBuf EXCEPT ![txRing.put] = offered + 1]
    /\ pc' = "ADVANCE"
    /\ UNCHANGED <<rxVars, txRing, txFull, txLevel, txMask, txRaw, offered, accepted, wire,
                   left, ch, setups, isr>>

\* hasPut
WriteAdvance ==
    /\ MainAt("ADVANCE")
    /\ txRing' = [txRing EXCEPT !.put = @ + 1]
    /\ accepted' = Append(accepted, offered + 1)
    /\ pc' = "WRAP"
    /\ UNCHANGED <<rxVars, txBuf, txFull, txLevel, txMask, txRaw, offered, wire,
                   left, ch, setups, isr>>
WriteWrap ==
    /\ MainAt("WRAP")
    /\ txRing' = [txRing EXCEPT !.put = Wrapped(@, TxLen)]
    /\ NextByte
    /\ isr' = "NONE"
    /\ UNCHANGED <<rxVars, txBuf, txFull, txLevel, txMask, txRaw, accepted, wire, ch, setups>>

\* One byte from the ring to the transmit FIFO, which takes the interrupt back when
\* the FIFO is filled above the trigger. Mutant: hasGot comes before the byte is read.
TxToFifo_GotFirst ==
    /\ txRing' = [txRing EXCEPT !.get = Wrapped(@ + 1, TxLen)]
    /\ wire' = Append(wire, txBuf[txRing'.get])
    /\ txLevel' = txLevel + 1 /\ txRaw' = (txRaw /\ txLevel' <= TxTrigger)
TxToFifo ==
    /\ wire' = Append(wire, txBuf[txRing.get])
    /\ txRing' = [txRing EXCEPT !.get = Wrapped(@ + 1, TxLen)]
    /\ txLevel' = txLevel + 1
    /\ txRaw' = (txRaw /\ txLevel' <= TxTrigger)

TxPending == CanGet(txRing.put, txRing.get)

\* txPumpPrime, with interrupts off: fill the FIFO; if it is full, have an interrupt
\* raised when it drains.
PrimeByte ==
    /\ MainAt("PRIME") /\ TxPending /\ txLevel < FifoLen
    /\ TxToFifo
    /\ UNCHANGED <<rxVars, txBuf, txFull, txMask, offered, accepted, mainVars, isr>>

\* Mutant: the interrupt is not enabled.
EnableTx_Forgotten == UNCHANGED txMask
EnableTx == txMask' = TRUE

PrimeEnd ==
    /\ MainAt("PRIME") /\ (TxPending => txLevel = FifoLen)
    /\ IF TxPending THEN EnableTx ELSE UNCHANGED txMask
    /\ pc' = "IDLE"
    /\ UNCHANGED <<rxVars, txRing, txBuf, txFull, txLevel, txRaw, offered, accepted, wire,
                   left, ch, setups, isr>>

-----------------------------------------------------------------------------
(* Reception and set-up, main loop *)

\* poll and read: the byte, then hasGot in two stores
Read ==
    /\ MainAt("IDLE") /\ CanGet(rxRing.put, rxRing.get)
    /\ ch' = rxBuf[rxRing.get]
    /\ pc' = "READ_ADVANCE"
    /\ UNCHANGED <<rxVars, txVars, left, setups, isr>>
ReadAdvance ==
    /\ MainAt("READ_ADVANCE")
    /\ rxRing' = [rxRing EXCEPT !.get = @ + 1]
    /\ got' = ch
    /\ pc' = "READ_WRAP"
    /\ UNCHANGED <<rxBuf, rxFull, rxFifo, arrived, txVars, left, ch, setups, isr>>
ReadWrap ==
    /\ MainAt("READ_WRAP")
    /\ rxRing' = [rxRing EXCEPT !.get = Wrapped(@, RxLen)]
    /\ pc' = "IDLE"
    /\ UNCHANGED <<rxBuf, rxFull, rxFifo, arrived, got, txVars, left, ch, setups, isr>>

\* The baud rate is changed: setup programs the UART anew, with the transmit
\* interrupt off, and clear empties the receive buffer, _putPos first.
Setup ==
    /\ MainAt("IDLE") /\ setups < MaxSetups
    /\ txMask' = FALSE /\ txRaw' = FALSE
    /\ rxFull' = 0 /\ txFull' = 0
    /\ setups' = setups + 1
    /\ pc' = "CLEAR_PUT"
    /\ UNCHANGED <<rxRing, rxBuf, rxFifo, arrived, got, txRing, txBuf, txLevel,
                   offered, accepted, wire, left, ch, isr>>
ClearPut ==
    /\ MainAt("CLEAR_PUT")
    /\ rxRing' = [rxRing EXCEPT !.put = 0]
    /\ pc' = "CLEAR_GET"
    /\ UNCHANGED <<rxBuf, rxFull, rxFifo, arrived, got, txVars, left, ch, setups, isr>>
ClearGet ==
    /\ MainAt("CLEAR_GET")
    /\ rxRing' = [rxRing EXCEPT !.get = 0]
    /\ rxFull' = 0 /\ txFull' = 0
    /\ pc' = "IDLE"
    /\ UNCHANGED <<rxBuf, rxFifo, arrived, got, txRing, txBuf, txLevel, txMask, txRaw,
                   offered, accepted, wire, left, ch, setups, isr>>

-----------------------------------------------------------------------------
(* The interrupt handler *)

\* The UART raises an interrupt for received bytes or for the drained transmit FIFO;
\* the handler takes back what it is shown.
IsrEnter ==
    /\ isr = "NONE" /\ pc # "PRIME"
    /\ rxFifo # <<>> \/ (txMask /\ txRaw)
    /\ txRaw' = (txRaw /\ ~txMask)
    /\ isr' = "RX"
    /\ UNCHANGED <<rxVars, txRing, txBuf, txFull, txLevel, txMask, offered, accepted, wire, mainVars>>

IsrRx ==
    /\ isr = "RX" /\ rxFifo # <<>>
    /\ rxFifo' = Tail(rxFifo)
    /\ IF CanPut(rxRing.put, rxRing.get, RxLen)
       THEN /\ rxBuf' = [rxBuf EXCEPT ![rxRing.put] = Head(rxFifo)]
            /\ rxRing' = [rxRing EXCEPT !.put = Wrapped(@ + 1, RxLen)]
            /\ UNCHANGED rxFull
       ELSE rxFull' = rxFull + 1 /\ UNCHANGED <<rxBuf, rxRing>>
    /\ UNCHANGED <<arrived, got, txVars, mainVars, isr>>
IsrRxDone ==
    /\ isr = "RX" /\ rxFifo = <<>>
    /\ isr' = "TX"
    /\ UNCHANGED <<rxVars, txVars, mainVars>>

IsrTx ==
    /\ isr = "TX" /\ TxPending /\ txLevel < FifoLen
    /\ TxToFifo
    /\ UNCHANGED <<rxVars, txBuf, txFull, txMask, offered, accepted, mainVars, isr>>

\* The FIFO is full, or the ring is empty and the transmit interrupt is switched off.
\* Two interrupts are further apart than the two stores of hasPut.
IsrLeave ==
    /\ isr = "TX" /\ (TxPending => txLevel = FifoLen)
    /\ txMask' = (txMask /\ txLevel = FifoLen)
    /\ isr' = IF pc = "WRAP" THEN "DONE" ELSE "NONE"
    /\ UNCHANGED <<rxVars, txRing, txBuf, txFull, txLevel, txRaw, offered, accepted, wire, mainVars>>

-----------------------------------------------------------------------------
(* The UART *)

RxArrive ==
    /\ arrived < MaxRx
    /\ arrived' = arrived + 1
    /\ rxFifo' = IF Len(rxFifo) < FifoLen THEN Append(rxFifo, arrived + 1) ELSE rxFifo
    /\ UNCHANGED <<rxRing, rxBuf, rxFull, got, txVars, mainVars, isr>>

\* A byte leaves; the interrupt is raised as the level passes the trigger. The
\* handler fills the FIFO faster than the line empties it.
TxShift ==
    /\ txLevel > 0 /\ isr # "TX"
    /\ txLevel' = txLevel - 1
    /\ txRaw' = (txRaw \/ txLevel' = TxTrigger)
    /\ UNCHANGED <<rxVars, txRing, txBuf, txFull, txMask, offered, accepted, wire, mainVars, isr>>

\* What the main loop goes on with once it has begun
MainStep == \/ WriteCheck \/ WriteRoom \/ WriteStore \/ WriteAdvance \/ WriteWrap
            \/ PrimeByte \/ PrimeEnd
            \/ ReadAdvance \/ ReadWrap \/ ClearPut \/ ClearGet
Isr      == IsrEnter \/ IsrRx \/ IsrRxDone \/ IsrTx \/ IsrLeave

Next == \/ MainStep \/ Isr \/ RxArrive \/ TxShift
        \/ Read \/ Setup \/ \E n \in 1..MaxTx : Write(n)

Spec == Init /\ [][Next]_vars

\* Code that has begun goes on, interrupts are taken and the UART sends what it has.
FairSpec == Spec /\ WF_vars(MainStep) /\ WF_vars(Isr) /\ WF_vars(TxShift)

-----------------------------------------------------------------------------
(* What the serial port promises *)

Sent == {wire[i] : i \in 1..Len(wire)}

\* No byte that write has accepted is overtaken on the line by a later one or
\* overwritten in the ring before it was sent: a byte on the wire means that all
\* accepted before it have been there.
TxNothingSkipped ==
    \A i \in 1..Len(accepted), j \in 1..Len(accepted) :
        i < j /\ accepted[j] \in Sent => accepted[i] \in Sent

\* Every byte that write has accepted is sent in the end: between txPumpPrime and
\* the handler the transmit interrupt is never lost, unless the baud rate is changed
\* (setup switches the interrupt off and leaves the ring as it is).
AcceptedIsSent ==
    \A b \in 1..MaxTx :
        (\E i \in 1..Len(accepted) : accepted[i] = b) ~> (b \in Sent \/ setups > 0)

\* The receive buffer is a queue to its reader, though positions are seen between
\* their two stores: no byte is lost, repeated or reordered, and one is refused only
\* when all but one of the slots are taken or while the buffer is being cleared.
rxClearing == pc = "CLEAR_GET"
rxQueue    == Contents(rxBuf, rxRing.put, IF rxClearing THEN 0 ELSE rxRing.get, RxLen)
Queue == INSTANCE ByteQueue WITH
    Byte <- 1..MaxRx, Cap <- RxLen - 1, q <- rxQueue, clearing <- rxClearing, refused <- rxFull
RxIsQueue == Queue!Spec

\* Where a position may be between its two stores, what a write still may hand over, and
\* what stays as it is while the interrupt comes: the slot that is being read, and the
\* room ahead of a cleared _putPos.
Writing == {"WRITE", "ROOM", "STORE", "ADVANCE", "WRAP"}
PosnsAgree ==
    /\ (rxRing.get = RxLen => pc = "READ_WRAP") /\ (txRing.put = TxLen => pc = "WRAP")
    /\ (pc \in Writing => left > 0) /\ offered + left <= MaxTx
    /\ (pc = "READ_ADVANCE" => CanGet(rxRing.put, rxRing.get) /\ ch = rxBuf[rxRing.get])
    /\ (rxClearing => rxRing.get = 0 \/ rxRing.put < rxRing.get)

\* The inductive invariant behind RxIsQueue.
UartInv == TypeOK /\ PosnsAgree

-----------------------------------------------------------------------------
(* "Generic interrupt-safe ring buffer" (RingBufferPosn.h:3): what that would mean for
   transmission. *)

\* The line carries the accepted bytes, in order and once each.
TxWireInOrder ==
    /\ Len(wire) <= Len(accepted)
    /\ \A i \in 1..Len(wire) : wire[i] = accepted[i]

=============================================================================
