--------------------------- MODULE UartMaxiProofs ---------------------------
(***************************************************************************)
(* The serial port of the Pi, for rings and FIFOs of every size: the types *)
(* hold, the receive buffer implements ByteQueue, and no byte that write   *)
(* has accepted is overtaken by a later one.                               *)
(***************************************************************************)
EXTENDS UartMaxi, SequenceTheorems, TLAPS

(* TypeOK and PosnsAgree by the half of the driver they are about *)
RxOK ==
    /\ rxRing \in [put : 0..(RxLen - 1), get : 0..RxLen]
    /\ rxBuf \in [0..(RxLen - 1) -> 0..MaxRx]
    /\ rxFull \in Nat /\ rxFifo \in Seq(1..MaxRx) /\ Len(rxFifo) <= FifoLen
    /\ arrived \in 0..MaxRx /\ got \in 0..MaxRx /\ ch \in 0..MaxRx
    /\ (rxRing.get = RxLen => pc = "READ_WRAP")
    /\ (pc = "READ_ADVANCE" => CanGet(rxRing.put, rxRing.get) /\ ch = rxBuf[rxRing.get])
    /\ (rxClearing => rxRing.get = 0 \/ rxRing.put < rxRing.get)
TxOK ==
    /\ txRing \in [put : 0..TxLen, get : 0..(TxLen - 1)]
    /\ txBuf \in [0..(TxLen - 1) -> 0..MaxTx]
    /\ txFull \in Nat /\ txLevel \in 0..FifoLen /\ txMask \in BOOLEAN /\ txRaw \in BOOLEAN
    /\ accepted \in Seq(1..MaxTx) /\ wire \in Seq(0..MaxTx)
    /\ (txRing.put = TxLen => pc = "WRAP")
MainOK ==
    /\ pc \in {"IDLE", "WRITE", "ROOM", "STORE", "ADVANCE", "WRAP", "PRIME",
               "READ_ADVANCE", "READ_WRAP", "CLEAR_PUT", "CLEAR_GET"}
    /\ left \in 0..MaxTx /\ offered \in 0..MaxTx
    /\ isr \in {"NONE", "RX", "TX", "DONE"} /\ setups \in 0..MaxSetups
    /\ (pc \in Writing => left > 0) /\ offered + left <= MaxTx

LEMMA Halves == UartInv <=> RxOK /\ TxOK /\ MainOK
BY DEF UartInv, TypeOK, PosnsAgree, RxOK, TxOK, MainOK

LEMMA HalvesNext == RxOK' /\ TxOK' /\ MainOK' => UartInv'
BY DEF UartInv, TypeOK, PosnsAgree, RxOK, TxOK, MainOK

LEMMA Constants ==
    /\ RxLen \in Nat /\ 1 < RxLen /\ TxLen \in Nat /\ 1 < TxLen
    /\ FifoLen \in Nat /\ TxTrigger \in Nat /\ TxTrigger < FifoLen
    /\ MaxRx \in Nat /\ MaxTx \in Nat /\ MaxSetups \in Nat
BY SizesAssumption, FifoAssumption, BoundsAssumption

LEMMA InitUart == Init => UartInv
<1> SUFFICES ASSUME Init PROVE RxOK /\ TxOK /\ MainOK
    BY Halves
<1>1. RxOK
    BY Constants DEF Init, RxOK, rxClearing
<1>2. TxOK
    BY Constants DEF Init, TxOK
<1>3. MainOK
    BY Constants DEF Init, MainOK, Writing
<1> QED
    BY <1>1, <1>2, <1>3

-----------------------------------------------------------------------------
(* Transmission *)

\* The receiver is none of the business of a step that leaves it, and the places it
\* looks at, alone.
LEMMA RxUntouched ==
    ASSUME RxOK, UNCHANGED <<rxVars, ch>>,
           pc' = pc \/ pc' \notin {"READ_ADVANCE", "CLEAR_GET"}, rxRing.get = RxLen => pc' = "READ_WRAP"
    PROVE  RxOK'
BY DEF RxOK, rxVars, rxClearing

\* Nor is the transmitter that of one that leaves it alone.
LEMMA TxUntouched ==
    ASSUME TxOK, UNCHANGED <<txRing, txBuf, txFull, txLevel, txMask, txRaw, accepted, wire>>,
           pc' = pc \/ pc # "WRAP"
    PROVE  TxOK'
BY DEF TxOK

\* A byte of a write is done with.
LEMMA NextByteStep ==
    ASSUME MainOK, NextByte, pc \in Writing, isr' \in {isr, "NONE"}, setups' = setups
    PROVE  MainOK' /\ pc' \in {"WRITE", "PRIME"}
<1>1. /\ left \in 1..MaxTx /\ offered \in Nat /\ offered + left <= MaxTx
      /\ left' = left - 1 /\ offered' = offered + 1 /\ pc' = IF left > 1 THEN "WRITE" ELSE "PRIME"
    BY Constants DEF MainOK, NextByte
<1>2. left' \in 0..MaxTx /\ offered' \in 0..MaxTx /\ offered' + left' <= MaxTx
    BY <1>1, Constants
<1>3. pc' = "WRITE" => left' > 0
    BY <1>1
<1> QED
    BY <1>1, <1>2, <1>3 DEF MainOK, Writing

LEMMA WriteSteps ==
    ASSUME UartInv,
           WriteCheck \/ WriteRoom \/ WriteStore \/ WriteAdvance \/ WriteWrap
           \/ (\E n \in 1..MaxTx : Write(n))
    PROVE  UartInv'
<1>0. RxOK /\ TxOK /\ MainOK
    BY Halves
<1>a. UNCHANGED <<rxVars, ch>> /\ pc' \notin {"READ_ADVANCE", "CLEAR_GET"} /\ rxRing.get # RxLen
    BY <1>0 DEF RxOK, WriteCheck, WriteRoom, WriteStore, WriteAdvance, WriteWrap, Write, NextByte, MainAt
<1>b. RxOK'
    BY <1>0, <1>a, RxUntouched
<1>1. ASSUME NEW n \in 1..MaxTx, Write(n) PROVE TxOK' /\ MainOK'
  <2>1. TxOK'
      BY <1>0, <1>1, TxUntouched DEF Write, MainAt, txVars
  <2>2. offered \in Nat /\ n \in Nat /\ offered + n <= MaxTx /\ 0 < n /\ n <= MaxTx
      BY <1>0, <1>1, Constants DEF Write, MainOK
  <2> QED
      BY <1>0, <1>1, <2>1, <2>2, Constants DEF Write, MainOK, txVars
<1>2. CASE WriteCheck
    BY <1>0, <1>2, <1>b, TxUntouched, HalvesNext DEF WriteCheck, MainAt, MainOK, txVars, Writing
<1>3. CASE WriteRoom
  <2>1. txFull' \in Nat /\ UNCHANGED <<txRing, txBuf, txLevel, txMask, txRaw, accepted, wire, setups, isr>>
      BY <1>0, <1>3 DEF WriteRoom, TxOK
  <2>2. MainOK'
    <3>1. CASE Room(txRing.put, txRing.get, TxLen)
        BY <1>0, <1>3, <3>1 DEF WriteRoom, MainAt, MainOK, Writing
    <3>2. CASE ~Room(txRing.put, txRing.get, TxLen)
        BY <1>0, <1>3, <3>2, NextByteStep DEF WriteRoom, MainAt, Writing
    <3> QED
        BY <3>1, <3>2
  <2>3. TxOK'
      BY <1>0, <1>3, <2>1 DEF TxOK, WriteRoom, MainAt
  <2> QED
      BY <1>b, <2>2, <2>3, HalvesNext
<1>4. CASE WriteStore
  <2>1. offered + 1 \in 0..MaxTx
      BY <1>0, <1>4, Constants DEF WriteStore, MainAt, MainOK, Writing
  <2>2. txBuf' \in [0..(TxLen - 1) -> 0..MaxTx]
      BY <1>0, <1>4, <2>1 DEF WriteStore, TxOK
  <2>3. TxOK' /\ MainOK'
      BY <1>0, <1>4, <2>2 DEF WriteStore, MainAt, TxOK, MainOK, Writing
  <2> QED
      BY <1>b, <2>3, HalvesNext
<1>5. CASE WriteAdvance
  <2>1. offered + 1 \in 1..MaxTx
      BY <1>0, <1>5, Constants DEF WriteAdvance, MainAt, MainOK, Writing
  <2>2. accepted' \in Seq(1..MaxTx)
      BY <1>0, <1>5, <2>1, AppendProperties DEF WriteAdvance, TxOK
  <2>3. txRing' \in [put : 0..TxLen, get : 0..(TxLen - 1)] /\ pc' = "WRAP"
    <3>1. txRing.put \in 0..TxLen /\ txRing.put # TxLen
        BY <1>0, <1>5 DEF WriteAdvance, MainAt, TxOK
    <3>2. txRing.put + 1 \in 0..TxLen
        BY <3>1, Constants
    <3> QED
        BY <1>0, <1>5, <3>2 DEF WriteAdvance, TxOK
  <2>4. TxOK' /\ MainOK'
      BY <1>0, <1>5, <2>2, <2>3 DEF WriteAdvance, MainAt, TxOK, MainOK, Writing
  <2> QED
      BY <1>b, <2>4, HalvesNext
<1>6. CASE WriteWrap
  <2>1. txRing' \in [put : 0..TxLen, get : 0..(TxLen - 1)] /\ txRing'.put # TxLen
    <3>1. txRing.put \in 0..TxLen
        BY <1>0 DEF TxOK
    <3>2. Wrapped(txRing.put, TxLen) \in 0..TxLen /\ Wrapped(txRing.put, TxLen) # TxLen
        BY <3>1, Constants DEF Wrapped
    <3> QED
        BY <1>0, <1>6, <3>2 DEF WriteWrap, TxOK
  <2>2. MainOK'
      BY <1>0, <1>6, NextByteStep DEF WriteWrap, MainAt, Writing
  <2>3. TxOK'
      BY <1>0, <1>6, <2>1 DEF WriteWrap, TxOK
  <2> QED
      BY <1>b, <2>2, <2>3, HalvesNext
<1> QED
    BY <1>1, <1>2, <1>3, <1>4, <1>5, <1>6, <1>b, HalvesNext

\* A byte moves on to the FIFO, which has room for it.
LEMMA TxToFifoStep ==
    ASSUME TxOK, TxToFifo, txLevel < FifoLen, UNCHANGED <<txBuf, txFull, txMask, accepted, pc>>
    PROVE  TxOK'
<1>1. txRing.get \in 0..(TxLen - 1) /\ txBuf[txRing.get] \in 0..MaxTx
    BY DEF TxOK
<1>2. wire' \in Seq(0..MaxTx)
    BY <1>1, AppendProperties DEF TxOK, TxToFifo
<1>3. /\ txRing' \in [put : 0..TxLen, get : 0..(TxLen - 1)] /\ txRing'.put = txRing.put
  <2>1. Wrapped(txRing.get + 1, TxLen) \in 0..(TxLen - 1)
      BY <1>1, Constants DEF Wrapped
  <2> QED
      BY <2>1 DEF TxOK, TxToFifo
<1>4. txLevel' \in 0..FifoLen /\ txRaw' \in BOOLEAN
  <2>1. txLevel \in 0..FifoLen /\ txLevel < FifoLen
      BY DEF TxOK
  <2>2. txLevel' = txLevel + 1 /\ txRaw' \in BOOLEAN
      BY DEF TxOK, TxToFifo
  <2> QED
      BY <2>1, <2>2, Constants
<1> QED
    BY <1>2, <1>3, <1>4 DEF TxOK

LEMMA TxSteps ==
    ASSUME UartInv, PrimeByte \/ PrimeEnd \/ IsrTx \/ IsrLeave \/ TxShift
    PROVE  UartInv'
<1>0. RxOK /\ TxOK /\ MainOK
    BY Halves
<1>1. RxOK'
    BY <1>0, RxUntouched DEF RxOK, PrimeByte, PrimeEnd, IsrTx, IsrLeave, TxShift, mainVars, MainAt
<1>2. MainOK'
    BY <1>0 DEF PrimeByte, PrimeEnd, IsrTx, IsrLeave, TxShift, mainVars, MainAt, MainOK, Writing
<1>3. CASE PrimeByte \/ IsrTx
    BY <1>0, <1>1, <1>2, <1>3, TxToFifoStep, HalvesNext DEF PrimeByte, IsrTx, mainVars
<1>4. CASE PrimeEnd \/ IsrLeave
    BY <1>0, <1>1, <1>2, <1>4, HalvesNext DEF PrimeEnd, IsrLeave, EnableTx, MainAt, mainVars, TxOK
<1>5. CASE TxShift
  <2>1. txLevel' \in 0..FifoLen /\ txRaw' \in BOOLEAN
      BY <1>0, <1>5, Constants DEF TxShift, TxOK
  <2> QED
      BY <1>0, <1>1, <1>2, <1>5, <2>1, HalvesNext DEF TxShift, TxOK, mainVars
<1> QED
    BY <1>3, <1>4, <1>5

-----------------------------------------------------------------------------
(* Reception and set-up *)

LEMMA ReadSteps ==
    ASSUME UartInv, Read \/ ReadAdvance \/ ReadWrap
    PROVE  UartInv'
<1>0. RxOK /\ TxOK /\ MainOK
    BY Halves
<1>1. TxOK'
    BY <1>0, TxUntouched DEF Read, ReadAdvance, ReadWrap, MainAt, txVars
<1>2. MainOK'
    BY <1>0 DEF Read, ReadAdvance, ReadWrap, MainAt, MainOK, txVars, Writing
<1>3. rxRing.put \in 0..(RxLen - 1) /\ rxRing.get \in 0..RxLen
    BY <1>0 DEF RxOK
<1>4. CASE Read
  <2>1. rxRing.get \in 0..(RxLen - 1)
      BY <1>0, <1>3, <1>4, Constants DEF Read, MainAt, RxOK
  <2>2. ch' \in 0..MaxRx /\ ch' = rxBuf[rxRing.get]
      BY <1>0, <1>4, <2>1 DEF Read, RxOK
  <2> QED
      BY <1>0, <1>1, <1>2, <1>4, <2>1, <2>2, Constants, HalvesNext DEF Read, MainAt, RxOK, rxVars, rxClearing
<1>5. CASE ReadAdvance
  <2>1. rxRing.get + 1 \in 0..RxLen
    <3>1. rxRing.get # RxLen
        BY <1>0, <1>5 DEF ReadAdvance, MainAt, RxOK
    <3> QED
        BY <1>3, <3>1, Constants
  <2>2. rxRing' \in [put : 0..(RxLen - 1), get : 0..RxLen]
      BY <1>0, <1>5, <2>1 DEF ReadAdvance, RxOK
  <2> QED
      BY <1>0, <1>1, <1>2, <1>5, <2>2, HalvesNext DEF ReadAdvance, MainAt, RxOK, rxClearing
<1>6. CASE ReadWrap
  <2>1. Wrapped(rxRing.get, RxLen) \in 0..RxLen /\ Wrapped(rxRing.get, RxLen) # RxLen
      BY <1>3, Constants DEF Wrapped
  <2>2. rxRing' \in [put : 0..(RxLen - 1), get : 0..RxLen] /\ rxRing'.get # RxLen
      BY <1>0, <1>6, <2>1 DEF ReadWrap, RxOK
  <2> QED
      BY <1>0, <1>1, <1>2, <1>6, <2>2, HalvesNext DEF ReadWrap, MainAt, RxOK, rxClearing
<1> QED
    BY <1>4, <1>5, <1>6

LEMMA SetupSteps ==
    ASSUME UartInv, Setup \/ ClearPut \/ ClearGet
    PROVE  UartInv'
<1>0. RxOK /\ TxOK /\ MainOK
    BY Halves
<1>1. rxRing.get # RxLen
    BY <1>0 DEF RxOK, Setup, ClearPut, ClearGet, MainAt
<1>2. CASE Setup
  <2>1. TxOK'
      BY <1>0, <1>2 DEF Setup, MainAt, TxOK
  <2>2. setups' \in 0..MaxSetups
      BY <1>0, <1>2, Constants DEF Setup, MainOK
  <2>3. MainOK'
      BY <1>0, <1>2, <2>2 DEF Setup, MainAt, MainOK, Writing
  <2>4. RxOK'
      BY <1>0, <1>1, <1>2 DEF Setup, MainAt, RxOK, rxClearing
  <2> QED
      BY <2>1, <2>3, <2>4, HalvesNext
<1>3. CASE ClearPut
  <2>1. TxOK' /\ MainOK'
      BY <1>0, <1>3, TxUntouched DEF ClearPut, MainAt, MainOK, txVars, Writing
  <2>2. /\ rxRing' \in [put : 0..(RxLen - 1), get : 0..RxLen] /\ rxRing'.get = rxRing.get
        /\ (rxRing'.get = 0 \/ rxRing'.put < rxRing'.get)
    <3>1. 0 \in 0..(RxLen - 1) /\ rxRing.get \in 0..RxLen
        BY <1>0, Constants DEF RxOK
    <3>2. /\ rxRing' \in [put : 0..(RxLen - 1), get : 0..RxLen]
          /\ rxRing'.get = rxRing.get /\ rxRing'.put = 0
        BY <1>0, <1>3, <3>1 DEF ClearPut, RxOK
    <3> QED
        BY <3>1, <3>2, Constants
  <2> QED
      BY <1>0, <1>1, <1>3, <2>1, <2>2, HalvesNext DEF ClearPut, MainAt, RxOK, rxClearing
<1>4. CASE ClearGet
  <2>0. /\ rxRing' = [rxRing EXCEPT !.get = 0] /\ rxFull' = 0 /\ txFull' = 0 /\ pc' = "IDLE"
        /\ UNCHANGED <<rxBuf, rxFifo, arrived, got, txRing, txBuf, txLevel, txMask, txRaw>>
        /\ UNCHANGED <<offered, accepted, wire, left, ch, setups, isr>>
      BY <1>4 DEF ClearGet
  <2>1. TxOK'
      BY <1>0, <1>1, <1>4, <2>0 DEF ClearGet, MainAt, TxOK
  <2>2. MainOK'
      BY <1>0, <2>0 DEF MainOK, Writing
  <2>3. rxRing' \in [put : 0..(RxLen - 1), get : 0..RxLen] /\ rxRing'.get = 0
    <3>1. 0 \in 0..RxLen
        BY Constants
    <3> QED
        BY <1>0, <2>0, <3>1 DEF RxOK
  <2>4. rxRing'.get # RxLen
      BY <2>3, Constants
  <2>5. RxOK'
      BY <1>0, <2>0, <2>3, <2>4 DEF RxOK, rxClearing
  <2> QED
      BY <2>1, <2>2, <2>5, HalvesNext
<1> QED
    BY <1>2, <1>3, <1>4

\* Where a received byte is put there is room: not in the slot that is being read, and
\* while the buffer is cleared not at the old read position.
LEMMA PutRoom ==
    ASSUME RxOK, CanPut(rxRing.put, rxRing.get, RxLen)
    PROVE  /\ Wrapped(rxRing.put + 1, RxLen) \in 0..(RxLen - 1)
           /\ Wrapped(rxRing.put + 1, RxLen) # rxRing.get
           /\ rxClearing => /\ Wrapped(rxRing.put + 1, RxLen) = rxRing.put + 1
                            /\ rxRing.get = 0 \/ rxRing.put + 1 < rxRing.get
<1>1. rxRing.put \in 0..(RxLen - 1) /\ rxRing.get \in 0..RxLen
    BY DEF RxOK
<1>2. rxClearing => (rxRing.get = 0 \/ rxRing.put < rxRing.get) /\ rxRing.get # RxLen
    BY DEF RxOK, rxClearing
<1> QED
    BY <1>1, <1>2, Constants DEF CanPut, Room, Wrapped

LEMMA ReceiverSteps ==
    ASSUME UartInv, IsrEnter \/ IsrRx \/ IsrRxDone \/ RxArrive
    PROVE  UartInv'
<1>0. RxOK /\ TxOK /\ MainOK
    BY Halves
<1>1. TxOK'
    BY <1>0 DEF IsrEnter, IsrRx, IsrRxDone, RxArrive, txVars, mainVars, TxOK
<1>2. MainOK'
    BY <1>0 DEF IsrEnter, IsrRx, IsrRxDone, RxArrive, txVars, mainVars, MainOK, Writing
<1>3. CASE IsrEnter \/ IsrRxDone
    BY <1>0, <1>1, <1>2, <1>3, RxUntouched, HalvesNext DEF IsrEnter, IsrRxDone, mainVars, RxOK
<1>4. CASE RxArrive
  <2>1. arrived + 1 \in 1..MaxRx /\ arrived' \in 0..MaxRx
      BY <1>0, <1>4, Constants DEF RxArrive, RxOK
  <2>2. rxFifo' \in Seq(1..MaxRx) /\ Len(rxFifo') <= FifoLen
    <3>1. rxFifo \in Seq(1..MaxRx) /\ Len(rxFifo) \in Nat /\ Len(rxFifo) <= FifoLen
        BY <1>0, LenProperties DEF RxOK
    <3>2. Append(rxFifo, arrived + 1) \in Seq(1..MaxRx) /\ Len(Append(rxFifo, arrived + 1)) = Len(rxFifo) + 1
        BY <2>1, <3>1, AppendProperties
    <3>3. rxFifo' = IF Len(rxFifo) < FifoLen THEN Append(rxFifo, arrived + 1) ELSE rxFifo
        BY <1>4 DEF RxArrive
    <3>4. CASE Len(rxFifo) < FifoLen
        BY <3>1, <3>2, <3>3, <3>4, Constants
    <3>5. CASE ~(Len(rxFifo) < FifoLen)
        BY <3>1, <3>3, <3>5
    <3> QED
        BY <3>4, <3>5
  <2> QED
      BY <1>0, <1>1, <1>2, <1>4, <2>1, <2>2, HalvesNext DEF RxArrive, mainVars, RxOK, rxClearing
<1>5. CASE IsrRx
  <2>1. /\ Head(rxFifo) \in 1..MaxRx /\ Head(rxFifo) \in 0..MaxRx
        /\ rxFifo' \in Seq(1..MaxRx) /\ Len(rxFifo') <= FifoLen
    <3>1. rxFifo \in Seq(1..MaxRx) /\ rxFifo # <<>> /\ Len(rxFifo) <= FifoLen
        BY <1>0, <1>5 DEF IsrRx, RxOK
    <3>2. Head(rxFifo) \in 1..MaxRx /\ Tail(rxFifo) \in Seq(1..MaxRx) /\ Len(Tail(rxFifo)) = Len(rxFifo) - 1
        BY <3>1, HeadTailProperties
    <3>3. Len(rxFifo) \in Nat
        BY <3>1, LenProperties
    <3> QED
        BY <1>5, <3>1, <3>2, <3>3, Constants DEF IsrRx
  <2>2. CASE CanPut(rxRing.put, rxRing.get, RxLen)
    <3>1. /\ rxBuf' = [rxBuf EXCEPT ![rxRing.put] = Head(rxFifo)]
          /\ rxRing' = [rxRing EXCEPT !.put = Wrapped(rxRing.put + 1, RxLen)]
          /\ UNCHANGED <<rxFull, arrived, got, ch, pc>>
        BY <1>5, <2>2 DEF IsrRx, mainVars
    <3>2. /\ rxRing' \in [put : 0..(RxLen - 1), get : 0..RxLen] /\ rxRing'.get = rxRing.get
          /\ rxRing'.put = Wrapped(rxRing.put + 1, RxLen)
        BY <1>0, <2>2, <3>1, PutRoom DEF RxOK
    <3>3. rxBuf' \in [0..(RxLen - 1) -> 0..MaxRx]
        BY <1>0, <2>1, <3>1 DEF RxOK
    <3>4. pc = "READ_ADVANCE" => CanGet(rxRing'.put, rxRing'.get) /\ ch = rxBuf'[rxRing'.get]
      <4>1. SUFFICES ASSUME pc = "READ_ADVANCE" PROVE CanGet(rxRing'.put, rxRing'.get) /\ ch = rxBuf'[rxRing.get]
          BY <3>2
      <4>2. rxRing.get # rxRing.put /\ ch = rxBuf[rxRing.get] /\ rxRing.get \in 0..(RxLen - 1)
          BY <1>0, <4>1, Constants DEF RxOK, CanGet
      <4>3. rxBuf'[rxRing.get] = rxBuf[rxRing.get]
          BY <1>0, <3>1, <4>2 DEF RxOK
      <4> QED
          BY <1>0, <2>2, <3>2, <4>2, <4>3, PutRoom DEF CanGet
    <3>5. rxClearing' => rxRing'.get = 0 \/ rxRing'.put < rxRing'.get
        BY <1>0, <2>2, <3>1, <3>2, PutRoom DEF rxClearing
    <3>6. RxOK'
        BY <1>0, <2>1, <3>1, <3>2, <3>3, <3>4, <3>5 DEF RxOK
    <3> QED
        BY <1>1, <1>2, <3>6, HalvesNext
  <2>3. CASE ~CanPut(rxRing.put, rxRing.get, RxLen)
    <3>1. rxFull' \in Nat /\ UNCHANGED <<rxBuf, rxRing, arrived, got, ch, pc>>
        BY <1>0, <1>5, <2>3 DEF IsrRx, mainVars, RxOK
    <3>2. RxOK'
        BY <1>0, <2>1, <3>1 DEF RxOK, rxClearing
    <3> QED
        BY <1>1, <1>2, <3>2, HalvesNext
  <2> QED
      BY <2>2, <2>3
<1> QED
    BY <1>3, <1>4, <1>5

LEMMA StepKeepsUart == UartInv /\ [Next]_vars => UartInv'
<1> SUFFICES ASSUME UartInv, [Next]_vars PROVE UartInv'
    OBVIOUS
<1>1. CASE UNCHANGED vars
  <2>1. RxOK' /\ TxOK' /\ MainOK'
    <3>1. RxOK /\ TxOK /\ MainOK
        BY Halves
    <3>2. RxOK'
        BY <1>1, <3>1 DEF vars, mainVars, rxVars, RxOK, rxClearing
    <3>3. TxOK'
        BY <1>1, <3>1 DEF vars, mainVars, txVars, TxOK
    <3>4. MainOK'
        BY <1>1, <3>1 DEF vars, mainVars, txVars, MainOK, Writing
    <3> QED
        BY <3>2, <3>3, <3>4
  <2> QED
      BY <2>1, HalvesNext
<1> QED
    BY <1>1, WriteSteps, TxSteps, ReadSteps, SetupSteps, ReceiverSteps DEF Next, MainStep, Isr

\* The inductive invariant of the driver holds for rings and FIFOs of every size.
THEOREM UartInvariant == Spec => []UartInv
<1>1. Init => UartInv
    BY InitUart
<1>2. UartInv /\ [Next]_vars => UartInv'
    BY StepKeepsUart
<1> QED
    BY <1>1, <1>2, PTL DEF Spec

\* Every behaviour keeps the types: no position leaves its ring but between the two
\* stores that move it, and no FIFO is overfilled.
THEOREM UartTypes == Spec => []TypeOK
<1>1. UartInv => TypeOK
    BY DEF UartInv
<1> QED
    BY <1>1, UartInvariant, PTL

-----------------------------------------------------------------------------
(* No accepted byte is skipped *)

\* How many slots get is behind put, and the slot d before put. A position not yet
\* wrapped counts as 0.
TxDist(put, get) == IF get <= Wrapped(put, TxLen) THEN Wrapped(put, TxLen) - get
                    ELSE Wrapped(put, TxLen) - get + TxLen
TxBack(put, d)   == IF d <= Wrapped(put, TxLen) THEN Wrapped(put, TxLen) - d
                    ELSE Wrapped(put, TxLen) - d + TxLen

\* The slot ahead of the one that a byte is stored in is not the next to be sent.
RoomAhead == pc \in {"STORE", "ADVANCE"} => Wrapped(txRing.put + 1, TxLen) # txRing.get

\* The bytes about are those handed over so far, but for the one in the slot that is put
\* next; each is in one slot.
Newest == IF pc = "WRAP" THEN offered + 1 ELSE offered
BytesSoFar ==
    /\ \A k \in 1..Len(accepted) : accepted[k] <= Newest
    /\ \A k \in 1..Len(wire) : wire[k] <= Newest
    /\ pc = "ADVANCE" => txBuf[txRing.put] = offered + 1
    /\ \A s \in 0..(TxLen - 1) : txBuf[s] <= Newest \/ (pc = "ADVANCE" /\ s = txRing.put)
OneSlotEach ==
    \A s1, s2 \in 0..(TxLen - 1) : txBuf[s1] = txBuf[s2] => s1 = s2 \/ txBuf[s1] = 0

\* A byte not sent yet is in the ring, as far before put as it was accepted before the end.
InRing ==
    \A i \in 1..Len(accepted) : accepted[i] \notin Sent =>
        /\ Len(accepted) - i < TxDist(txRing.put, txRing.get)
        /\ txBuf[TxBack(txRing.put, Len(accepted) - i + 1)] = accepted[i]

TxOrder == RoomAhead /\ BytesSoFar /\ OneSlotEach /\ InRing /\ TxNothingSkipped

\* Distances and slots, as the positions move.
LEMMA TxPlaces ==
    ASSUME NEW put \in 0..TxLen, NEW get \in 0..(TxLen - 1)
    PROVE  /\ TxDist(put, get) \in 0..(TxLen - 1)
           /\ \A d \in 1..(TxLen - 1) : TxBack(put, d) \in 0..(TxLen - 1) /\ TxBack(put, d) # put
           /\ \A d \in 1..(TxLen - 1) : TxBack(put, d) = get <=> d = TxDist(put, get)
           /\ TxDist(put, get) = 0 => put = get \/ put = TxLen
BY Constants DEF TxDist, TxBack, Wrapped

LEMMA GetMoves ==
    ASSUME NEW put \in 0..TxLen, NEW get \in 0..(TxLen - 1), TxDist(put, get) > 0
    PROVE  TxDist(put, Wrapped(get + 1, TxLen)) = TxDist(put, get) - 1
BY Constants DEF TxDist, Wrapped

LEMMA PutMoves ==
    ASSUME NEW put \in 0..(TxLen - 1), NEW get \in 0..(TxLen - 1), Wrapped(put + 1, TxLen) # get
    PROVE  /\ TxDist(put + 1, get) = TxDist(put, get) + 1
           /\ TxBack(put + 1, 1) = put
           /\ \A d \in 1..TxDist(put, get) : TxBack(put + 1, d + 1) = TxBack(put, d)
<1>1. TxDist(put + 1, get) = TxDist(put, get) + 1
    BY Constants DEF TxDist, Wrapped
<1>2. TxBack(put + 1, 1) = put
    BY Constants DEF TxBack, Wrapped
<1>3. TxDist(put, get) + 1 \in 1..(TxLen - 1)
    BY Constants DEF TxDist, Wrapped
<1>4. ASSUME NEW d \in 1..(TxLen - 2) PROVE TxBack(put + 1, d + 1) = TxBack(put, d)
    BY Constants DEF TxBack, Wrapped
<1>5. TxDist(put, get) \in 0..(TxLen - 2) /\ \A d \in 1..TxDist(put, get) : d \in 1..(TxLen - 2)
    BY <1>1, <1>3, TxPlaces, Constants
<1> QED
    BY <1>1, <1>2, <1>4, <1>5

LEMMA PutWraps ==
    ASSUME NEW put \in 0..TxLen, NEW get \in 0..(TxLen - 1)
    PROVE  /\ TxDist(Wrapped(put, TxLen), get) = TxDist(put, get)
           /\ \A d : TxBack(Wrapped(put, TxLen), d) = TxBack(put, d)
<1>1. Wrapped(Wrapped(put, TxLen), TxLen) = Wrapped(put, TxLen)
    BY Constants DEF Wrapped
<1> QED
    BY <1>1 DEF TxDist, TxBack

\* A step that leaves ring, line and accepted bytes alone, and does not come to a store.
LEMMA OrderUntouched ==
    ASSUME UartInv, TxOrder, txRing' = txRing, txBuf' = txBuf, accepted' = accepted, wire' = wire,
           pc' = "WRAP" <=> pc = "WRAP", pc' = "ADVANCE" <=> pc = "ADVANCE", RoomAhead',
           offered' = offered \/ (pc # "ADVANCE" /\ offered' = offered + 1)
    PROVE  TxOrder'
<1>1. BytesSoFar'
  <2>0. offered \in Nat
      BY Halves, Constants DEF MainOK
  <2>1. Newest \in Nat /\ Newest' \in Nat /\ Newest <= Newest'
    <3>1. /\ Newest = IF pc = "WRAP" THEN offered + 1 ELSE offered
          /\ Newest' = IF pc = "WRAP" THEN offered' + 1 ELSE offered'
        BY DEF Newest
    <3> QED
        BY <2>0, <3>1
  <2>2. \A k \in 1..Len(accepted) : accepted[k] \in Nat
    <3>1. \A k \in 1..Len(accepted) : accepted[k] \in 1..MaxTx
        BY Halves, ElementOfSeq DEF TxOK
    <3> QED
        BY <3>1, Constants
  <2>3. \A k \in 1..Len(wire) : wire[k] \in Nat
    <3>1. \A k \in 1..Len(wire) : wire[k] \in 0..MaxTx
        BY Halves, ElementOfSeq DEF TxOK
    <3> QED
        BY <3>1, Constants
  <2>4. \A s \in 0..(TxLen - 1) : txBuf[s] \in Nat
      BY Halves, Constants DEF TxOK
  <2>5. \A k \in 1..Len(accepted) : accepted[k] <= Newest'
      BY <2>1, <2>2 DEF TxOrder, BytesSoFar
  <2>6. \A k \in 1..Len(wire) : wire[k] <= Newest'
      BY <2>1, <2>3 DEF TxOrder, BytesSoFar
  <2>7. \A s \in 0..(TxLen - 1) : txBuf[s] <= Newest' \/ (pc = "ADVANCE" /\ s = txRing.put)
      BY <2>1, <2>4 DEF TxOrder, BytesSoFar
  <2> QED
      BY <2>5, <2>6, <2>7 DEF TxOrder, BytesSoFar
<1>2. OneSlotEach'
    BY DEF TxOrder, OneSlotEach
<1>3. Sent' = Sent
    BY DEF Sent
<1>4. InRing'
    BY <1>3 DEF TxOrder, InRing
<1>5. TxNothingSkipped'
    BY <1>3 DEF TxOrder, TxNothingSkipped
<1> QED
    BY <1>1, <1>2, <1>4, <1>5 DEF TxOrder

\* A byte goes to the FIFO: the oldest of those not sent yet, if there are any.
LEMMA ToFifoKeepsOrder ==
    ASSUME UartInv, TxOrder, TxToFifo, TxPending, UNCHANGED <<txBuf, accepted, offered, pc>>
    PROVE  TxOrder'
<1> DEFINE put == txRing.put  get == txRing.get  dist == TxDist(put, get)  n == Len(accepted)
           get1 == Wrapped(get + 1, TxLen)
<1>1. put \in 0..TxLen /\ get \in 0..(TxLen - 1) /\ put # get /\ n \in Nat
    BY Halves, LenProperties DEF TxOK, TxPending, CanGet
<1>2. txRing'.put = put /\ txRing'.get = get1 /\ get1 \in 0..(TxLen - 1)
  <2>1. get1 \in 0..(TxLen - 1)
      BY <1>1, Constants DEF Wrapped
  <2> QED
      BY <2>1, Halves DEF TxToFifo, TxOK
<1>3. txBuf[get] \in 0..MaxTx /\ wire \in Seq(0..MaxTx) /\ wire' = Append(wire, txBuf[get])
    BY <1>1, Halves DEF TxOK, TxToFifo
<1>4. /\ Len(wire') = Len(wire) + 1 /\ Len(wire) \in Nat /\ wire'[Len(wire) + 1] = txBuf[get]
      /\ \A k \in 1..Len(wire) : wire'[k] = wire[k]
    BY <1>3, AppendProperties, LenProperties
<1>5. Sent' = Sent \cup {txBuf[get]}
    BY <1>4 DEF Sent
<1>6. \A i \in 1..n : accepted[i] \in 1..MaxTx
    BY Halves, ElementOfSeq DEF TxOK
<1>7. dist \in 0..(TxLen - 1)
      /\ \A d \in 1..(TxLen - 1) : TxBack(put, d) \in 0..(TxLen - 1) /\ (TxBack(put, d) = get <=> d = dist)
    BY <1>1, TxPlaces
<1>8. dist > 0 => TxDist(put, get1) = dist - 1
    BY <1>1, GetMoves
<1>9. RoomAhead'
  <2>1. put < TxLen /\ get # put => get1 # Wrapped(put + 1, TxLen)
      BY <1>1, Constants DEF Wrapped
  <2>2. pc \in {"STORE", "ADVANCE"} => put # TxLen
      BY Halves DEF TxOK
  <2> QED
      BY <1>1, <1>2, <2>1, <2>2, Constants DEF RoomAhead
<1>10. BytesSoFar'
  <2>1. txBuf[get] <= Newest
      BY <1>1 DEF TxOrder, BytesSoFar
  <2>2. \A k \in 1..Len(wire') : wire'[k] <= Newest
      BY <1>4, <2>1 DEF TxOrder, BytesSoFar
  <2> QED
      BY <1>2, <2>2 DEF TxOrder, BytesSoFar, Newest
<1>11. OneSlotEach'
    BY DEF TxOrder, OneSlotEach
\* The one sent now, if it was not sent before, is the oldest.
<1>12. ASSUME NEW j \in 1..n, accepted[j] \notin Sent, accepted[j] = txBuf[get] PROVE n - j + 1 = dist
  <2>1. n - j < dist /\ txBuf[TxBack(put, n - j + 1)] = accepted[j]
      BY <1>12 DEF TxOrder, InRing
  <2>2. n - j + 1 \in 1..(TxLen - 1) /\ n - j + 1 <= dist
      BY <1>1, <1>7, <2>1, Constants
  <2>3. TxBack(put, n - j + 1) \in 0..(TxLen - 1)
      BY <1>7, <2>2
  <2>4. txBuf[get] # 0
      BY <1>6, <1>12
  <2>5. TxBack(put, n - j + 1) = get
      BY <1>1, <1>12, <2>1, <2>3, <2>4 DEF TxOrder, OneSlotEach
  <2> QED
      BY <1>7, <2>2, <2>5
<1>13. InRing'
  <2>1. SUFFICES ASSUME NEW i \in 1..n, accepted[i] \notin Sent, accepted[i] # txBuf[get]
                 PROVE  n - i < TxDist(put, get1) /\ txBuf[TxBack(put, n - i + 1)] = accepted[i]
      BY <1>2, <1>5 DEF InRing
  <2>2. n - i < dist /\ txBuf[TxBack(put, n - i + 1)] = accepted[i]
      BY <2>1 DEF TxOrder, InRing
  <2>3. n - i # dist - 1
    <3>1. n - i + 1 \in 1..(TxLen - 1)
        BY <1>1, <1>7, <2>2, Constants
    <3>2. TxBack(put, n - i + 1) # get
        BY <2>1, <2>2
    <3> QED
        BY <1>1, <1>7, <3>1, <3>2
  <2> QED
      BY <1>1, <1>7, <1>8, <2>2, <2>3
<1>14. TxNothingSkipped'
  <2>1. SUFFICES ASSUME NEW i \in 1..n, NEW j \in 1..n, i < j, accepted[j] \in Sent \cup {txBuf[get]}
                 PROVE  accepted[i] \in Sent
      BY <1>5 DEF TxNothingSkipped
  <2>2. CASE accepted[j] \in Sent
      BY <2>1, <2>2 DEF TxOrder, TxNothingSkipped
  <2>3. CASE accepted[j] \notin Sent
    <3>1. n - j + 1 = dist
        BY <1>12, <2>1, <2>3
    <3>2. ~(n - i < dist)
        BY <1>1, <2>1, <3>1
    <3> QED
        BY <3>2 DEF TxOrder, InRing
  <2> QED
      BY <2>2, <2>3
<1> QED
    BY <1>9, <1>10, <1>11, <1>13, <1>14 DEF TxOrder

LEMMA WhereThingsAre ==
    ASSUME UartInv
    PROVE  /\ txRing.put \in 0..TxLen /\ txRing.get \in 0..(TxLen - 1)
           /\ pc # "WRAP" => txRing.put \in 0..(TxLen - 1)
           /\ Len(accepted) \in Nat /\ offered \in Nat
           /\ TxDist(txRing.put, txRing.get) \in 0..(TxLen - 1)
<1>1. txRing.put \in 0..TxLen /\ txRing.get \in 0..(TxLen - 1) /\ (pc # "WRAP" => txRing.put # TxLen)
    BY Halves DEF TxOK
<1>2. pc # "WRAP" => txRing.put \in 0..(TxLen - 1)
    BY <1>1, Constants
<1>3. Len(accepted) \in Nat
    BY Halves, LenProperties DEF TxOK
<1>4. offered \in Nat
    BY Halves, Constants DEF MainOK
<1> QED
    BY <1>1, <1>2, <1>3, <1>4, TxPlaces

\* A byte is stored in the slot ahead of those not sent yet.
LEMMA StoreKeepsOrder ==
    ASSUME UartInv, TxOrder, WriteStore
    PROVE  TxOrder'
<1> DEFINE put == txRing.put  get == txRing.get  dist == TxDist(put, get)  n == Len(accepted)
           b == offered + 1
<1>1. /\ pc = "STORE" /\ pc' = "ADVANCE" /\ txBuf' = [txBuf EXCEPT ![put] = b]
      /\ txRing' = txRing /\ accepted' = accepted /\ wire' = wire /\ offered' = offered
    BY DEF WriteStore, MainAt
<1>2. put \in 0..(TxLen - 1) /\ put \in 0..TxLen /\ get \in 0..(TxLen - 1) /\ n \in Nat
      /\ offered \in Nat /\ b \in Nat /\ dist \in 0..(TxLen - 1)
    BY <1>1, WhereThingsAre
<1>3. txBuf'[put] = b /\ \A s \in 0..(TxLen - 1) : s # put => txBuf'[s] = txBuf[s]
    BY <1>1, <1>2, Halves DEF TxOK
<1>4. \A s \in 0..(TxLen - 1) : txBuf[s] \in Nat /\ txBuf[s] <= offered
  <2>1. BytesSoFar
      BY <1>1 DEF TxOrder
  <2> QED
      BY <1>1, <2>1, Halves, Constants DEF BytesSoFar, Newest, TxOK
<1>5. RoomAhead'
    BY <1>1 DEF TxOrder, RoomAhead
<1>6. BytesSoFar'
    BY <1>1, <1>3, <1>4 DEF TxOrder, BytesSoFar, Newest
<1>7. OneSlotEach'
  <2>1. \A s \in 0..(TxLen - 1) : txBuf[s] # b
      BY <1>2, <1>4
  <2> QED
      BY <1>1, <1>3, <2>1 DEF TxOrder, OneSlotEach
<1>8. InRing'
  <2>1. SUFFICES ASSUME NEW i \in 1..n, accepted[i] \notin Sent
                 PROVE  n - i < dist /\ txBuf'[TxBack(put, n - i + 1)] = accepted[i]
      BY <1>1 DEF InRing, Sent
  <2>2. n - i < dist /\ txBuf[TxBack(put, n - i + 1)] = accepted[i]
      BY <2>1 DEF TxOrder, InRing
  <2>3. n - i + 1 \in 1..(TxLen - 1)
      BY <1>2, <2>2, Constants
  <2>4. TxBack(put, n - i + 1) \in 0..(TxLen - 1) /\ TxBack(put, n - i + 1) # put
      BY <1>2, <2>3, TxPlaces
  <2> QED
      BY <1>3, <2>2, <2>4
<1>9. TxNothingSkipped'
    BY <1>1 DEF TxOrder, TxNothingSkipped, Sent
<1> QED
    BY <1>5, <1>6, <1>7, <1>8, <1>9 DEF TxOrder

\* With the step of put the byte is accepted. It is not on the line yet.
LEMMA AdvanceKeepsOrder ==
    ASSUME UartInv, TxOrder, WriteAdvance
    PROVE  TxOrder'
<1> DEFINE put == txRing.put  get == txRing.get  dist == TxDist(put, get)  n == Len(accepted)
           b == offered + 1
<1>1. /\ pc = "ADVANCE" /\ pc' = "WRAP" /\ accepted' = Append(accepted, b)
      /\ txBuf' = txBuf /\ wire' = wire /\ offered' = offered
    BY DEF WriteAdvance, MainAt
<1>2. put \in 0..(TxLen - 1) /\ put \in 0..TxLen /\ get \in 0..(TxLen - 1) /\ n \in Nat
      /\ offered \in Nat /\ dist \in 0..(TxLen - 1) /\ Wrapped(put + 1, TxLen) # get
    BY <1>1, WhereThingsAre DEF TxOrder, RoomAhead
<1>3. txRing'.put = put + 1 /\ txRing'.get = get
    BY Halves DEF WriteAdvance, TxOK
<1>4. Len(accepted') = n + 1 /\ accepted'[n + 1] = b /\ \A i \in 1..n : accepted'[i] = accepted[i]
  <2>1. accepted \in Seq(1..MaxTx) /\ b \in 1..MaxTx
    <3>1. left > 0 /\ left \in Nat /\ offered + left <= MaxTx
        BY <1>1, Halves, Constants DEF MainOK, Writing
    <3> QED
        BY <1>2, <3>1, Halves, Constants DEF TxOK
  <2> QED
      BY <1>1, <2>1, AppendProperties
<1>5. /\ TxDist(put + 1, get) = dist + 1 /\ TxBack(put + 1, 1) = put
      /\ \A d \in 1..dist : TxBack(put + 1, d + 1) = TxBack(put, d)
    BY <1>2, PutMoves
<1>6. RoomAhead'
    BY <1>1 DEF RoomAhead
<1>7. BytesSoFar'
  <2>1. \A k \in 1..(n + 1) : accepted'[k] <= b
    <3>1. \A k \in 1..n : accepted[k] \in 1..MaxTx /\ accepted[k] <= offered
        BY <1>1, Halves, ElementOfSeq DEF TxOrder, BytesSoFar, Newest, TxOK
    <3>2. SUFFICES ASSUME NEW k \in 1..(n + 1) PROVE accepted'[k] <= b
        OBVIOUS
    <3>3. CASE k = n + 1
        BY <1>2, <1>4, <3>3
    <3>4. CASE k \in 1..n
      <4>1. accepted'[k] = accepted[k] /\ accepted[k] \in 1..MaxTx /\ accepted[k] <= offered
          BY <1>4, <3>1, <3>4
      <4> QED
          BY <1>2, <4>1, Constants
    <3> QED
        BY <1>2, <3>3, <3>4
  <2>2. \A k \in 1..Len(wire) : wire[k] <= b
    <3>1. \A k \in 1..Len(wire) : wire[k] \in 0..MaxTx /\ wire[k] <= offered
        BY <1>1, Halves, ElementOfSeq DEF TxOrder, BytesSoFar, Newest, TxOK
    <3> QED
        BY <1>2, <3>1, Constants
  <2>3. \A s \in 0..(TxLen - 1) : txBuf[s] <= b
    <3>1. \A s \in 0..(TxLen - 1) : txBuf[s] \in 0..MaxTx /\ (txBuf[s] <= offered \/ s = put)
        BY <1>1, Halves DEF TxOrder, BytesSoFar, Newest, TxOK
    <3>2. txBuf[put] = b
        BY <1>1 DEF TxOrder, BytesSoFar
    <3>3. SUFFICES ASSUME NEW s \in 0..(TxLen - 1) PROVE txBuf[s] <= b
        OBVIOUS
    <3>4. txBuf[s] \in 0..MaxTx /\ (txBuf[s] <= offered \/ txBuf[s] = b)
        BY <3>1, <3>2
    <3> QED
        BY <1>2, <3>4, Constants
  <2> QED
      BY <1>1, <1>4, <2>1, <2>2, <2>3 DEF BytesSoFar, Newest
<1>8. OneSlotEach'
    BY <1>1 DEF TxOrder, OneSlotEach
<1>9. Sent' = Sent /\ b \notin Sent
  <2>1. \A k \in 1..Len(wire) : wire[k] \in 0..MaxTx /\ wire[k] <= offered
      BY <1>1, Halves, ElementOfSeq DEF TxOrder, BytesSoFar, Newest, TxOK
  <2>2. \A k \in 1..Len(wire) : wire[k] # b
      BY <1>2, <2>1, Constants
  <2> QED
      BY <1>1, <2>2 DEF Sent
<1>10. InRing'
  <2>1. SUFFICES ASSUME NEW i \in 1..(n + 1), accepted'[i] \notin Sent
                 PROVE  n + 1 - i < dist + 1 /\ txBuf[TxBack(put + 1, n + 1 - i + 1)] = accepted'[i]
      BY <1>1, <1>3, <1>4, <1>5, <1>9 DEF InRing
  <2>2. CASE i = n + 1
    <3>1. n + 1 - i = 0 /\ n + 1 - i + 1 = 1
        BY <1>2, <2>2
    <3>2. txBuf[put] = b
        BY <1>1 DEF TxOrder, BytesSoFar
    <3>3. accepted'[i] = b
        BY <1>4, <2>2
    <3>4. TxBack(put + 1, n + 1 - i + 1) = put
        BY <1>5, <3>1
    <3>5. n + 1 - i < dist + 1
        BY <1>2, <3>1
    <3> QED
        BY <3>2, <3>3, <3>4, <3>5
  <2>3. CASE i \in 1..n
    <3>1. n - i < dist /\ txBuf[TxBack(put, n - i + 1)] = accepted[i]
        BY <1>4, <2>1, <2>3 DEF TxOrder, InRing
    <3>2. n - i + 1 \in 1..dist /\ n + 1 - i < dist + 1 /\ n + 1 - i + 1 = (n - i + 1) + 1
        BY <1>2, <2>3, <3>1
    <3> QED
        BY <1>4, <1>5, <2>3, <3>1, <3>2
  <2> QED
      BY <1>2, <2>2, <2>3
<1>11. TxNothingSkipped'
  <2>1. SUFFICES ASSUME NEW i \in 1..(n + 1), NEW j \in 1..(n + 1), i < j, accepted'[j] \in Sent
                 PROVE  accepted'[i] \in Sent
      BY <1>4, <1>9 DEF TxNothingSkipped
  <2>2. j # n + 1
      BY <1>4, <1>9, <2>1
  <2>3. i \in 1..n /\ j \in 1..n
      BY <1>2, <2>1, <2>2
  <2> QED
      BY <1>4, <2>1, <2>3 DEF TxOrder, TxNothingSkipped
<1> QED
    BY <1>6, <1>7, <1>8, <1>10, <1>11 DEF TxOrder

\* Then put is wrapped, which leaves every distance as it was.
LEMMA WrapKeepsOrder ==
    ASSUME UartInv, TxOrder, WriteWrap
    PROVE  TxOrder'
<1> DEFINE put == txRing.put  get == txRing.get
<1>1. /\ pc = "WRAP" /\ pc' \notin {"STORE", "ADVANCE", "WRAP"} /\ offered' = offered + 1
      /\ txBuf' = txBuf /\ accepted' = accepted /\ wire' = wire
    BY DEF WriteWrap, NextByte, MainAt
<1>2. put \in 0..TxLen /\ get \in 0..(TxLen - 1) /\ txRing'.put = Wrapped(put, TxLen) /\ txRing'.get = get
    BY Halves DEF WriteWrap, TxOK
<1>3. TxDist(txRing'.put, txRing'.get) = TxDist(put, get) /\ \A d : TxBack(txRing'.put, d) = TxBack(put, d)
    BY <1>2, PutWraps
<1>4. RoomAhead'
    BY <1>1 DEF RoomAhead
<1>5. BytesSoFar'
    BY <1>1 DEF TxOrder, BytesSoFar, Newest
<1>6. OneSlotEach' /\ TxNothingSkipped'
    BY <1>1 DEF TxOrder, OneSlotEach, TxNothingSkipped, Sent
<1>7. InRing'
    BY <1>1, <1>3 DEF TxOrder, InRing, Sent
<1> QED
    BY <1>4, <1>5, <1>6, <1>7 DEF TxOrder

\* Where a write finds room, there is a slot ahead of the one it stores in.
LEMMA RoomIsAhead ==
    ASSUME NEW put \in 0..(TxLen - 1), NEW get \in 0..(TxLen - 1),
           put = get \/ Room(put, get, TxLen)
    PROVE  Wrapped(put + 1, TxLen) # get
BY Constants DEF Room, Wrapped

LEMMA StepKeepsOrder == UartInv /\ TxOrder /\ [Next]_vars => TxOrder'
<1> SUFFICES ASSUME UartInv, TxOrder, [Next]_vars PROVE TxOrder'
    OBVIOUS
<1>1. CASE WriteCheck \/ WriteRoom
  <2>1. /\ txRing' = txRing /\ txBuf' = txBuf /\ accepted' = accepted /\ wire' = wire
        /\ pc \in {"WRITE", "ROOM"} /\ pc' \notin {"ADVANCE", "WRAP"}
        /\ offered' = offered \/ offered' = offered + 1
      BY <1>1 DEF WriteCheck, WriteRoom, NextByte, MainAt, txVars
  <2>2. txRing.put \in 0..(TxLen - 1) /\ txRing.get \in 0..(TxLen - 1)
      BY <2>1, Halves, Constants DEF TxOK
  <2>3. pc' = "STORE" => txRing.put = txRing.get \/ Room(txRing.put, txRing.get, TxLen)
      BY <1>1 DEF WriteCheck, WriteRoom, NextByte, CanGet
  <2>4. RoomAhead'
      BY <2>1, <2>2, <2>3, RoomIsAhead DEF RoomAhead
  <2> QED
      BY <2>1, <2>4, OrderUntouched
<1>2. CASE PrimeByte \/ IsrTx
  <2>1. TxToFifo /\ TxPending /\ UNCHANGED <<txBuf, accepted, offered, pc>>
      BY <1>2 DEF PrimeByte, IsrTx, mainVars
  <2> QED
      BY <2>1, ToFifoKeepsOrder
<1>3. CASE PrimeEnd \/ Read \/ ReadAdvance \/ ReadWrap \/ Setup \/ ClearPut \/ ClearGet
           \/ (\E n \in 1..MaxTx : Write(n))
  <2>1. /\ txRing' = txRing /\ txBuf' = txBuf /\ accepted' = accepted /\ wire' = wire
        /\ offered' = offered
        /\ pc \notin {"ADVANCE", "WRAP"} /\ pc' \notin {"STORE", "ADVANCE", "WRAP"}
      BY <1>3 DEF PrimeEnd, Read, ReadAdvance, ReadWrap, Setup, ClearPut, ClearGet, Write, MainAt, txVars
  <2>2. RoomAhead'
      BY <2>1 DEF RoomAhead
  <2> QED
      BY <2>1, <2>2, OrderUntouched
<1>4. CASE IsrEnter \/ IsrRx \/ IsrRxDone \/ IsrLeave \/ RxArrive \/ TxShift \/ UNCHANGED vars
  <2>1. /\ txRing' = txRing /\ txBuf' = txBuf /\ accepted' = accepted /\ wire' = wire
        /\ offered' = offered /\ pc' = pc
      BY <1>4 DEF IsrEnter, IsrRx, IsrRxDone, IsrLeave, RxArrive, TxShift, vars, txVars, mainVars
  <2>2. RoomAhead'
      BY <2>1 DEF RoomAhead, TxOrder
  <2> QED
      BY <2>1, <2>2, OrderUntouched
<1> QED
    BY <1>1, <1>2, <1>3, <1>4, StoreKeepsOrder, AdvanceKeepsOrder, WrapKeepsOrder DEF Next, MainStep, Isr

LEMMA InitOrder == Init => TxOrder
<1> SUFFICES ASSUME Init PROVE TxOrder
    OBVIOUS
<1>1. /\ pc = "IDLE" /\ offered = 0 /\ txBuf = [i \in 0..(TxLen - 1) |-> 0]
      /\ Len(accepted) = 0 /\ Len(wire) = 0
    BY DEF Init
<1>2. RoomAhead /\ BytesSoFar
    BY <1>1 DEF RoomAhead, BytesSoFar, Newest
<1>3. OneSlotEach /\ InRing /\ TxNothingSkipped
    BY <1>1 DEF OneSlotEach, InRing, TxNothingSkipped
<1> QED
    BY <1>2, <1>3 DEF TxOrder

\* No byte that write has accepted is overtaken on the line by a later one, or overwritten
\* in the ring before it was sent, for rings and FIFOs of every size: not even when the
\* interrupt comes between the two stores of put, and the ring is sent round and round.
THEOREM NothingSkipped == Spec => []TxNothingSkipped
<1>1. Init => TxOrder
    BY InitOrder
<1>2. UartInv /\ TxOrder /\ [Next]_vars => TxOrder'
    BY StepKeepsOrder
<1>3. TxOrder => TxNothingSkipped
    BY DEF TxOrder
<1> QED
    BY <1>1, <1>2, <1>3, UartInvariant, PTL DEF Spec

-----------------------------------------------------------------------------
(* The receive buffer is a queue *)

\* Positions are taken modulo the size of the ring, at most once round.
LEMMA ModOnce ==
    ASSUME NEW L \in Nat \ {0}, NEW a \in Int
    PROVE  /\ a \in 0..(L - 1)     => a % L = a
           /\ a \in L..(2 * L - 1) => a % L = a - L
           /\ a \in (-L)..(-1)     => a % L = a + L
<1>1. a \in 0..(L - 1) => a % L = a
    BY SMT
<1>2. a \in L..(2 * L - 1) => a % L = a - L
    BY SMT
<1>3. a \in (-L)..(-1) => a % L = a + L
    BY SMT
<1> QED
    BY <1>1, <1>2, <1>3

LEMMA FunctionIsSeq ==
    ASSUME NEW S, NEW n \in Nat, NEW e \in [1..n -> S]
    PROVE  e \in Seq(S) /\ Len(e) = n
<1>1. e \in Seq(S)
    OBVIOUS
<1>2. Len(e) = n
    BY <1>1
<1> QED
    BY <1>1, <1>2

\* How many bytes a ring holds, and where the i-th of them is.
Held(put, get)   == IF get <= put THEN put - get ELSE put - get + RxLen
Slot(get, i)     == IF get + i - 1 < RxLen THEN get + i - 1 ELSE get + i - 1 - RxLen

LEMMA ContentsType ==
    ASSUME NEW buf \in [0..(RxLen - 1) -> 0..MaxRx], NEW put \in 0..(RxLen - 1), NEW get \in 0..RxLen
    PROVE  /\ Held(put, get) \in 0..(RxLen - 1)
           /\ Contents(buf, put, get, RxLen) \in Seq(0..MaxRx)
           /\ Len(Contents(buf, put, get, RxLen)) = Held(put, get)
           /\ \A i \in 1..Held(put, get) : /\ Slot(get, i) \in 0..(RxLen - 1)
                                           /\ Contents(buf, put, get, RxLen)[i] = buf[Slot(get, i)]
<1> DEFINE q == Contents(buf, put, get, RxLen)
<1>1. Held(put, get) \in 0..(RxLen - 1) /\ (put - get) % RxLen = Held(put, get)
  <2>1. put - get \in Int /\ RxLen \in Nat \ {0}
      BY Constants
  <2>2. /\ put - get \in 0..(RxLen - 1) => (put - get) % RxLen = put - get
        /\ put - get \in (-RxLen)..(-1) => (put - get) % RxLen = put - get + RxLen
      BY <2>1, ModOnce
  <2> QED
      BY <2>2, Constants DEF Held
<1>2. ASSUME NEW i \in 1..Held(put, get)
      PROVE  Slot(get, i) \in 0..(RxLen - 1) /\ (get + i - 1) % RxLen = Slot(get, i)
  <2>1. get + i - 1 \in Int /\ RxLen \in Nat \ {0} /\ i \in 1..(RxLen - 1)
      BY <1>1, Constants
  <2> DEFINE a == get + i - 1
  <2> HIDE DEF a
  <2>2. a \in Int
      BY <2>1 DEF a
  <2>3. /\ a \in 0..(RxLen - 1) => a % RxLen = a
        /\ a \in RxLen..(2 * RxLen - 1) => a % RxLen = a - RxLen
      BY <2>1, <2>2, ModOnce
  <2>4. a = get + i - 1
      BY DEF a
  <2> QED
      BY <2>1, <2>3, <2>4, Constants DEF Slot
<1>3. q = [i \in 1..Held(put, get) |-> buf[Slot(get, i)]]
  <2>1. q = [i \in 1..((put - get) % RxLen) |-> buf[(get + i - 1) % RxLen]]
      BY DEF Contents
  <2> HIDE DEF q
  <2> QED
      BY <1>1, <1>2, <2>1
<1>4. \A i \in 1..Held(put, get) : buf[Slot(get, i)] \in 0..MaxRx
    BY <1>2
<1> HIDE DEF q
<1>5. q \in Seq(0..MaxRx) /\ Len(q) = Held(put, get)
  <2> DEFINE n == Held(put, get)  e == [i \in 1..n |-> buf[Slot(get, i)]]
  <2>1. n \in Nat /\ e \in [1..n -> 0..MaxRx]
      BY <1>1, <1>4
  <2> HIDE DEF n, e
  <2>2. e \in Seq(0..MaxRx) /\ Len(e) = n
      BY <2>1, FunctionIsSeq
  <2> QED
      BY <1>3, <2>2 DEF n, e
<1> QED
    BY <1>1, <1>2, <1>3, <1>5 DEF q

\* A byte put into a ring with room is the last of the queue.
LEMMA PutAppends ==
    ASSUME NEW buf \in [0..(RxLen - 1) -> 0..MaxRx], NEW put \in 0..(RxLen - 1), NEW get \in 0..RxLen,
           NEW b \in 0..MaxRx, Held(put, get) < RxLen - 1
    PROVE  Contents([buf EXCEPT ![put] = b], Wrapped(put + 1, RxLen), get, RxLen)
              = Append(Contents(buf, put, get, RxLen), b)
<1> DEFINE n == Held(put, get)  put1 == Wrapped(put + 1, RxLen)  buf1 == [buf EXCEPT ![put] = b]
           q == Contents(buf, put, get, RxLen)  q1 == Contents(buf1, put1, get, RxLen)
<1>1. put1 \in 0..(RxLen - 1) /\ Held(put1, get) = n + 1
    BY Constants DEF Wrapped, Held
<1>2. buf1 \in [0..(RxLen - 1) -> 0..MaxRx] /\ buf1[put] = b
      /\ \A k \in 0..(RxLen - 1) : k # put => buf1[k] = buf[k]
    OBVIOUS
<1>3. /\ n \in 0..(RxLen - 1) /\ q \in Seq(0..MaxRx) /\ Len(q) = n
      /\ \A i \in 1..n : Slot(get, i) \in 0..(RxLen - 1) /\ q[i] = buf[Slot(get, i)]
    BY ContentsType
<1> HIDE DEF put1, buf1, q
<1>4. /\ q1 \in Seq(0..MaxRx) /\ Len(q1) = n + 1
      /\ \A i \in 1..(n + 1) : q1[i] = buf1[Slot(get, i)]
  <2>1. /\ Contents(buf1, put1, get, RxLen) \in Seq(0..MaxRx)
        /\ Len(Contents(buf1, put1, get, RxLen)) = Held(put1, get)
        /\ \A i \in 1..Held(put1, get) :
              Contents(buf1, put1, get, RxLen)[i] = buf1[Slot(get, i)]
      BY <1>1, <1>2, ContentsType
  <2> QED
      BY <1>1, <2>1
<1> HIDE DEF q1
<1>5. n \in Nat /\ Slot(get, n + 1) = put /\ \A i \in 1..n : Slot(get, i) # put
    BY Constants DEF Held, Slot
<1>6. /\ Append(q, b) \in Seq(0..MaxRx) /\ Len(Append(q, b)) = n + 1
      /\ \A i \in 1..n : Append(q, b)[i] = q[i]
      /\ Append(q, b)[n + 1] = b
    BY <1>3, AppendProperties
<1>n. n \in Nat
    BY <1>5
<1> HIDE DEF n
<1>7. ASSUME NEW i \in 1..(n + 1) PROVE q1[i] = Append(q, b)[i]
  <2>1. CASE i = n + 1
      BY <1>2, <1>4, <1>5, <1>6, <2>1
  <2>2. CASE i \in 1..n
    <3>1. q1[i] = buf1[Slot(get, i)] /\ Slot(get, i) \in 0..(RxLen - 1) /\ Slot(get, i) # put
        BY <1>3, <1>4, <1>5, <2>2
    <3> QED
        BY <1>2, <1>3, <1>6, <2>2, <3>1
  <2>3. i = n + 1 \/ i \in 1..n
      BY <1>n
  <2> QED
      BY <2>1, <2>2, <2>3
<1>8. q1 = Append(q, b)
    BY <1>4, <1>6, <1>7, SeqEqual
<1> QED
    BY <1>8 DEF q1, q, put1, buf1

\* Moving the read position on takes the first byte of the queue.
LEMMA GetTakes ==
    ASSUME NEW buf \in [0..(RxLen - 1) -> 0..MaxRx], NEW put \in 0..(RxLen - 1), NEW get \in 0..(RxLen - 1),
           put # get
    PROVE  LET q == Contents(buf, put, get, RxLen)
           IN  q # <<>> /\ Head(q) = buf[get] /\ Contents(buf, put, get + 1, RxLen) = Tail(q)
<1> DEFINE n == Held(put, get)  g1 == get + 1
           q == Contents(buf, put, get, RxLen)  q1 == Contents(buf, put, g1, RxLen)
<1>1. /\ n \in 1..(RxLen - 1) /\ Held(put, g1) = n - 1 /\ g1 \in 0..RxLen /\ get \in 0..RxLen
      /\ g1 = get + 1
    BY Constants DEF Held
<1>2. /\ q \in Seq(0..MaxRx) /\ Len(q) = n
      /\ \A i \in 1..n : q[i] = buf[Slot(get, i)]
    BY <1>1, ContentsType
<1> HIDE DEF n, g1
<1>3. /\ q1 \in Seq(0..MaxRx) /\ Len(q1) = n - 1
      /\ \A i \in 1..(n - 1) : q1[i] = buf[Slot(g1, i)]
  <2>1. /\ Contents(buf, put, g1, RxLen) \in Seq(0..MaxRx)
        /\ Len(Contents(buf, put, g1, RxLen)) = Held(put, g1)
        /\ \A i \in 1..Held(put, g1) : Contents(buf, put, g1, RxLen)[i] = buf[Slot(g1, i)]
      BY <1>1, ContentsType
  <2> QED
      BY <1>1, <2>1
<1>4. Slot(get, 1) = get /\ \A i \in 1..(n - 1) : Slot(g1, i) = Slot(get, i + 1)
  <2>1. Slot(get, 1) = get
      BY Constants DEF Slot
  <2>2. ASSUME NEW i \in 1..(n - 1) PROVE Slot(g1, i) = Slot(get, i + 1)
    <3>1. g1 + i - 1 = get + i /\ get + (i + 1) - 1 = get + i
        BY <1>1
    <3>2. Slot(g1, i) = IF get + i < RxLen THEN get + i ELSE get + i - RxLen
        BY <1>1, <3>1, Constants DEF Slot
    <3>3. Slot(get, i + 1) = IF get + i < RxLen THEN get + i ELSE get + i - RxLen
        BY <1>1, <3>1, Constants DEF Slot
    <3> QED
        BY <3>2, <3>3
  <2> QED
      BY <2>1, <2>2
<1> HIDE DEF q, q1
<1>5. q # <<>>
    BY <1>1, <1>2, EmptySeq
<1>6. /\ Tail(q) \in Seq(0..MaxRx) /\ Len(Tail(q)) = n - 1
      /\ \A i \in 1..(n - 1) : Tail(q)[i] = q[i + 1]
    BY <1>2, <1>5, HeadTailProperties
<1>7. Head(q) = buf[get]
    BY <1>1, <1>2, <1>4, <1>5
<1>8. ASSUME NEW i \in 1..(n - 1) PROVE q1[i] = Tail(q)[i]
  <2>1. i + 1 \in 1..n
      BY <1>1
  <2> QED
      BY <1>2, <1>3, <1>4, <1>6, <2>1
<1>9. q1 = Tail(q)
    BY <1>3, <1>6, <1>8, SeqEqual
<1> QED
    BY <1>5, <1>7, <1>9 DEF q, q1, g1

\* A read position that is wrapped is where it was.
LEMMA WrapStays ==
    ASSUME NEW buf \in [0..(RxLen - 1) -> 0..MaxRx], NEW put \in 0..(RxLen - 1)
    PROVE  Contents(buf, put, RxLen, RxLen) = Contents(buf, put, 0, RxLen)
<1> DEFINE q == Contents(buf, put, RxLen, RxLen)  q1 == Contents(buf, put, 0, RxLen)
<1>1. Held(put, RxLen) = put /\ Held(put, 0) = put /\ RxLen \in 0..RxLen /\ 0 \in 0..RxLen
    BY Constants DEF Held
<1>2. \A i \in 1..put : Slot(RxLen, i) = Slot(0, i)
    BY Constants DEF Slot
<1>3. /\ q \in Seq(0..MaxRx) /\ Len(q) = put
      /\ \A i \in 1..put : q[i] = buf[Slot(RxLen, i)]
  <2>1. /\ q \in Seq(0..MaxRx) /\ Len(q) = Held(put, RxLen)
        /\ \A i \in 1..Held(put, RxLen) : q[i] = buf[Slot(RxLen, i)]
      BY <1>1, ContentsType
  <2> QED
      BY <1>1, <2>1
<1>4. /\ q1 \in Seq(0..MaxRx) /\ Len(q1) = put
      /\ \A i \in 1..put : q1[i] = buf[Slot(0, i)]
  <2>1. /\ q1 \in Seq(0..MaxRx) /\ Len(q1) = Held(put, 0)
        /\ \A i \in 1..Held(put, 0) : q1[i] = buf[Slot(0, i)]
      BY <1>1, ContentsType
  <2> QED
      BY <1>1, <2>1
<1> HIDE DEF q, q1
<1>5. q = q1
    BY <1>2, <1>3, <1>4, SeqEqual
<1> QED
    BY <1>5 DEF q, q1

-----------------------------------------------------------------------------
(* The refinement *)

LEMMA QueueStutters ==
    ASSUME UNCHANGED <<rxRing, rxBuf, rxFull, got>>, rxClearing' = rxClearing
    PROVE  UNCHANGED Queue!vars
<1>1. rxQueue' = rxQueue
    BY DEF rxQueue, Contents
<1> QED
    BY <1>1 DEF Queue!vars

\* The slots the queue starts from, whose read position counts as 0 while it is cleared
ReadFrom == IF rxClearing THEN 0 ELSE rxRing.get

LEMMA QueueOfRing ==
    ASSUME RxOK
    PROVE  /\ rxQueue = Contents(rxBuf, rxRing.put, ReadFrom, RxLen)
           /\ rxBuf \in [0..(RxLen - 1) -> 0..MaxRx] /\ rxRing.put \in 0..(RxLen - 1)
           /\ ReadFrom \in 0..RxLen /\ rxRing.get \in 0..RxLen
           /\ Held(rxRing.put, ReadFrom) \in 0..(RxLen - 1) /\ Len(rxQueue) = Held(rxRing.put, ReadFrom)
<1>1. rxQueue = Contents(rxBuf, rxRing.put, ReadFrom, RxLen)
    BY DEF rxQueue, ReadFrom
<1>2. /\ rxBuf \in [0..(RxLen - 1) -> 0..MaxRx] /\ rxRing.put \in 0..(RxLen - 1)
      /\ ReadFrom \in 0..RxLen /\ rxRing.get \in 0..RxLen
    BY Constants DEF RxOK, ReadFrom
<1> QED
    BY <1>1, <1>2, ContentsType

\* The interrupt handler takes a byte from the FIFO.
LEMMA IsrRxRefines ==
    ASSUME UartInv, IsrRx
    PROVE  Queue!Next
<1>0. RxOK
    BY Halves
<1>1. rxClearing' = rxClearing /\ got' = got
    BY DEF IsrRx, mainVars, rxClearing
<1>2. Head(rxFifo) \in 1..MaxRx /\ Head(rxFifo) \in 0..MaxRx
  <2>1. rxFifo \in Seq(1..MaxRx) /\ rxFifo # <<>>
      BY <1>0 DEF IsrRx, RxOK
  <2>2. Head(rxFifo) \in 1..MaxRx
      BY <2>1, HeadTailProperties
  <2> QED
      BY <2>2, Constants
<1>3. rxClearing => (rxRing.get = 0 \/ rxRing.put < rxRing.get) /\ rxRing.get # RxLen
    BY <1>0 DEF RxOK, rxClearing
<1>4. CASE CanPut(rxRing.put, rxRing.get, RxLen)
  <2>1. /\ rxBuf' = [rxBuf EXCEPT ![rxRing.put] = Head(rxFifo)]
        /\ rxRing' = [rxRing EXCEPT !.put = Wrapped(rxRing.put + 1, RxLen)] /\ rxFull' = rxFull
      BY <1>4 DEF IsrRx
  <2>2. rxRing'.put = Wrapped(rxRing.put + 1, RxLen) /\ rxRing'.get = rxRing.get
      BY <1>0, <2>1 DEF RxOK
  <2>3. Held(rxRing.put, ReadFrom) < RxLen - 1
    <3>1. CASE rxClearing
        BY <1>0, <1>3, <1>4, <3>1, QueueOfRing, Constants DEF CanPut, Room, Held, ReadFrom
    <3>2. CASE ~rxClearing
        BY <1>0, <1>4, <3>2, QueueOfRing, Constants DEF CanPut, Room, Held, ReadFrom
    <3> QED
        BY <3>1, <3>2
  <2>4. rxQueue' = Contents(rxBuf', rxRing'.put, ReadFrom, RxLen)
      BY <1>1, <2>2 DEF rxQueue, ReadFrom
  <2>5. rxQueue' = Append(rxQueue, Head(rxFifo))
    <3>1. rxQueue' = Contents([rxBuf EXCEPT ![rxRing.put] = Head(rxFifo)], Wrapped(rxRing.put + 1, RxLen),
                              ReadFrom, RxLen)
        BY <2>1, <2>2, <2>4
    <3>2. /\ rxQueue = Contents(rxBuf, rxRing.put, ReadFrom, RxLen)
          /\ rxBuf \in [0..(RxLen - 1) -> 0..MaxRx] /\ rxRing.put \in 0..(RxLen - 1)
          /\ ReadFrom \in 0..RxLen
        BY <1>0, QueueOfRing
    <3>3. Contents([rxBuf EXCEPT ![rxRing.put] = Head(rxFifo)], Wrapped(rxRing.put + 1, RxLen), ReadFrom, RxLen)
             = Append(Contents(rxBuf, rxRing.put, ReadFrom, RxLen), Head(rxFifo))
        BY <1>2, <2>3, <3>2, PutAppends
    <3> QED
        BY <3>1, <3>2, <3>3
  <2>6. Len(rxQueue) < RxLen - 1
      BY <1>0, <2>3, QueueOfRing
  <2>7. Queue!Put(Head(rxFifo))
      BY <1>1, <2>1, <2>5, <2>6 DEF Queue!Put
  <2> QED
      BY <1>2, <2>7 DEF Queue!Next
<1>5. CASE ~CanPut(rxRing.put, rxRing.get, RxLen)
  <2>1. rxFull' = rxFull + 1 /\ UNCHANGED <<rxBuf, rxRing>>
      BY <1>5 DEF IsrRx
  <2>2. rxQueue' = rxQueue
      BY <1>1, <2>1 DEF rxQueue, Contents
  <2>3. ~rxClearing => Len(rxQueue) = RxLen - 1
    <3>1. SUFFICES ASSUME ~rxClearing PROVE Held(rxRing.put, rxRing.get) = RxLen - 1
        BY <1>0, QueueOfRing DEF ReadFrom
    <3>2. rxRing.put \in 0..(RxLen - 1) /\ rxRing.get \in 0..RxLen
        BY <1>0, QueueOfRing
    <3>3. ReadFrom = rxRing.get => Held(rxRing.put, rxRing.get) \in 0..(RxLen - 1)
        BY <1>0, QueueOfRing
    <3> QED
        BY <1>5, <3>2, <3>3, Constants DEF CanPut, Room, Held
  <2>4. Queue!Refuse
      BY <1>1, <2>1, <2>2, <2>3 DEF Queue!Refuse
  <2> QED
      BY <2>4 DEF Queue!Next
<1> QED
    BY <1>4, <1>5

\* The main loop reads a byte, or clears the buffer.
LEMMA ReaderRefines ==
    ASSUME UartInv, Read \/ ReadAdvance \/ ReadWrap \/ Setup \/ ClearPut \/ ClearGet
    PROVE  [Queue!Next]_Queue!vars
<1>0. RxOK
    BY Halves
<1>1. CASE Read
    BY <1>1, QueueStutters DEF Read, MainAt, rxVars, rxClearing
<1>2. CASE ReadAdvance
  <2>1. /\ ~rxClearing /\ rxClearing' = rxClearing /\ rxRing' = [rxRing EXCEPT !.get = @ + 1] /\ got' = ch
        /\ UNCHANGED <<rxBuf, rxFull>>
      BY <1>2 DEF ReadAdvance, MainAt, rxClearing
  <2>2. rxRing.get \in 0..(RxLen - 1) /\ rxRing.put # rxRing.get /\ ch = rxBuf[rxRing.get]
    <3>1. rxRing.put \in 0..(RxLen - 1) /\ rxRing.get \in 0..RxLen /\ rxRing.get # RxLen
        BY <1>0, <1>2 DEF ReadAdvance, MainAt, RxOK
    <3>2. CanGet(rxRing.put, rxRing.get) /\ ch = rxBuf[rxRing.get]
        BY <1>0, <1>2 DEF ReadAdvance, MainAt, RxOK
    <3> QED
        BY <3>1, <3>2, Constants DEF CanGet
  <2>3. rxRing'.put = rxRing.put /\ rxRing'.get = rxRing.get + 1
      BY <1>0, <2>1 DEF RxOK
  <2>4. rxQueue = Contents(rxBuf, rxRing.put, rxRing.get, RxLen)
        /\ rxQueue' = Contents(rxBuf, rxRing.put, rxRing.get + 1, RxLen)
      BY <2>1, <2>3 DEF rxQueue
  <2>5. rxQueue # <<>> /\ Head(rxQueue) = ch /\ rxQueue' = Tail(rxQueue)
      BY <1>0, <2>2, <2>4, QueueOfRing, GetTakes
  <2>6. Queue!Get
      BY <2>1, <2>5 DEF Queue!Get
  <2> QED
      BY <2>6 DEF Queue!Next
<1>3. CASE ReadWrap
  <2>1. /\ ~rxClearing /\ rxClearing' = rxClearing /\ rxRing' = [rxRing EXCEPT !.get = Wrapped(@, RxLen)]
        /\ UNCHANGED <<rxBuf, rxFull, got>>
      BY <1>3 DEF ReadWrap, MainAt, rxClearing
  <2>2. rxRing'.put = rxRing.put /\ rxRing'.get = Wrapped(rxRing.get, RxLen)
      BY <1>0, <2>1 DEF RxOK
  <2>3. rxQueue = Contents(rxBuf, rxRing.put, rxRing.get, RxLen)
        /\ rxQueue' = Contents(rxBuf, rxRing.put, Wrapped(rxRing.get, RxLen), RxLen)
      BY <2>1, <2>2 DEF rxQueue
  <2>4. Wrapped(rxRing.get, RxLen) = IF rxRing.get = RxLen THEN 0 ELSE rxRing.get
      BY <1>0, QueueOfRing, Constants DEF Wrapped
  <2>5. rxQueue' = rxQueue
      BY <1>0, <2>3, <2>4, QueueOfRing, WrapStays
  <2> QED
      BY <2>1, <2>5 DEF Queue!vars
<1>4. CASE Setup
  <2>1. rxClearing' = rxClearing /\ UNCHANGED <<rxRing, rxBuf, got>> /\ rxFull' = 0
      BY <1>4 DEF Setup, MainAt, rxClearing
  <2>2. rxQueue' = rxQueue
      BY <2>1 DEF rxQueue, Contents
  <2> QED
      BY <2>1, <2>2 DEF Queue!Next, Queue!ResetCounts
<1>5. CASE ClearPut
  <2>1. rxClearing' /\ rxRing'.put = 0 /\ UNCHANGED <<rxBuf, rxFull, got>>
      BY <1>0, <1>5 DEF ClearPut, MainAt, rxClearing, RxOK
  <2>2. rxQueue' = Contents(rxBuf, 0, 0, RxLen)
      BY <2>1 DEF rxQueue
  <2>3. Contents(rxBuf, 0, 0, RxLen) \in Seq(0..MaxRx) /\ Len(Contents(rxBuf, 0, 0, RxLen)) = 0
    <3>1. 0 \in 0..(RxLen - 1) /\ 0 \in 0..RxLen /\ Held(0, 0) = 0
        BY Constants DEF Held
    <3> QED
        BY <1>0, <3>1, QueueOfRing, ContentsType
  <2>4. rxQueue' = <<>>
    <3> DEFINE e == Contents(rxBuf, 0, 0, RxLen)
    <3>1. e \in Seq(0..MaxRx) /\ Len(e) = 0
        BY <2>3
    <3> HIDE DEF e
    <3>2. e = <<>>
        BY <3>1, EmptySeq
    <3> QED
        BY <2>2, <3>2 DEF e
  <2> QED
      BY <2>1, <2>4 DEF Queue!Next, Queue!ClearBegin
<1>6. CASE ClearGet
  <2>1. rxClearing /\ ~rxClearing' /\ rxRing' = [rxRing EXCEPT !.get = 0] /\ rxFull' = 0
        /\ UNCHANGED <<rxBuf, got>>
      BY <1>6 DEF ClearGet, MainAt, rxClearing
  <2>2. rxRing'.put = rxRing.put /\ rxRing'.get = 0
      BY <1>0, <2>1 DEF RxOK
  <2>3. rxQueue' = rxQueue
      BY <2>1, <2>2 DEF rxQueue, Contents
  <2> QED
      BY <2>1, <2>3 DEF Queue!Next, Queue!ClearEnd
<1> QED
    BY <1>1, <1>2, <1>3, <1>4, <1>5, <1>6

\* Every step of the driver is one of the queue or leaves it alone.
LEMMA StepRefines == UartInv /\ [Next]_vars => [Queue!Next]_Queue!vars
<1> SUFFICES ASSUME UartInv, [Next]_vars PROVE [Queue!Next]_Queue!vars
    OBVIOUS
<1>1. CASE UNCHANGED vars
    BY <1>1, QueueStutters DEF vars, rxVars, mainVars, rxClearing
<1>2. CASE \/ WriteCheck \/ WriteRoom \/ WriteStore \/ WriteAdvance \/ WriteWrap
           \/ PrimeByte \/ PrimeEnd \/ (\E n \in 1..MaxTx : Write(n))
    BY <1>2, QueueStutters DEF WriteCheck, WriteRoom, WriteStore, WriteAdvance, WriteWrap, NextByte,
       PrimeByte, PrimeEnd, Write, MainAt, rxVars, mainVars, rxClearing
<1>3. CASE IsrEnter \/ IsrRxDone \/ IsrTx \/ IsrLeave \/ TxShift \/ RxArrive
    BY <1>3, QueueStutters DEF IsrEnter, IsrRxDone, IsrTx, IsrLeave, TxShift, RxArrive, rxVars, mainVars,
       rxClearing
<1> QED
    BY <1>1, <1>2, <1>3, IsrRxRefines, ReaderRefines DEF Next, MainStep, Isr

LEMMA InitRefines == Init => Queue!Init
<1> SUFFICES ASSUME Init PROVE Queue!Init
    OBVIOUS
<1>1. RxOK
    BY InitUart, Halves
<1>2. rxQueue \in Seq(0..MaxRx) /\ Len(rxQueue) = 0 /\ ~rxClearing /\ got = 0 /\ rxFull = 0
  <2>1. ~rxClearing /\ rxRing.put = 0 /\ rxRing.get = 0 /\ got = 0 /\ rxFull = 0
      BY DEF Init, rxClearing
  <2>2. ReadFrom = 0 /\ Held(0, 0) = 0
      BY <2>1, Constants DEF ReadFrom, Held
  <2> QED
      BY <1>1, <2>1, <2>2, QueueOfRing, ContentsType
<1>3. rxQueue = <<>>
    BY <1>2, EmptySeq
<1> QED
    BY <1>2, <1>3 DEF Queue!Init

\* The receive buffer is a queue to its reader, whatever the interleaving of the interrupt
\* handler with the two stores of each position: for rings of every size no byte is lost,
\* repeated or reordered, and none is refused while there is room.
THEOREM ReceiveBufferIsQueue == Spec => RxIsQueue
<1>1. Init => Queue!Init
    BY InitRefines
<1>2. UartInv /\ [Next]_vars => [Queue!Next]_Queue!vars
    BY StepRefines
<1> QED
    BY <1>1, <1>2, UartInvariant, PTL DEF Spec, RxIsQueue, Queue!Spec

=============================================================================
