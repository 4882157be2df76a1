------------------------------ MODULE MiniHDLC ------------------------------
(***************************************************************************)
(* The framing of the serial link between the Pi and the ESP32             *)
(* (CommandInterface/MiniHDLC.cpp; the ESP32 has a copy of it): frames     *)
(* between boundary octets, octets that look like a boundary escaped, a    *)
(* check sequence of two octets at the end.                                *)
(*                                                                         *)
(* One sender, a line that may lose or corrupt octets, one receiver.  An   *)
(* octet is a tuple: of itself and the octet with bit 5 inverted only one  *)
(* ever is data, so that is <<"INV", octet>>.  The check sequence is taken *)
(* to tell any two contents apart; the real one has 16 bits.               *)
(***************************************************************************)
EXTENDS Naturals, Sequences, FiniteSets, SequencesExt

CONSTANTS
    Contents,        \* what the frames may hold, sequences of octets
    Tricky,          \* those whose check sequence begins with a boundary octet
    MaxFrameLength,  \* MINIHDLC_MAX_FRAME_LENGTH
    MaxFrames, MaxFaults   \* bounds on the frames sent and the faults of the line

FRAME_BOUNDARY == <<"FLAG">>
CONTROL_ESCAPE == <<"ESC">>
Invert(o) == IF o[1] = "INV" THEN o[2] ELSE <<"INV", o>>

ASSUME MiniHDLCAssumption ==
    /\ \A c \in Contents : c \in Seq(Range(c))
    /\ Tricky \subseteq Contents
    /\ MaxFrameLength \in Nat \ {0} /\ MaxFrames \in Nat /\ MaxFaults \in Nat

VARIABLES
    sent,        \* the contents of the frames sent
    line,        \* the octets on their way, and in the receiver's queue
    frame,       \* _rxBuffer up to _framePos; _frameCRC is a function of it
    inEscape,    \* _inEscapeSeq
    received,    \* the contents handed to _frameRxFn
    tooLong,     \* _frameTooLongCount
    faults       \* octets the line has lost or changed, restarts of either end

vars == <<sent, line, frame, inEscape, received, tooLong, faults>>

\* The check sequence of a content, high octet first.
High(c)  == IF c \in Tricky THEN FRAME_BOUNDARY ELSE <<"CRC", "HI", c>>
Low(c)   == <<"CRC", "LO", c>>
Check(c) == <<High(c), Low(c)>>

\* No data pass for an octet of a check sequence, as they are or inverted.
ASSUME CheckAssumption ==
    \A c \in Contents : \A o \in Range(c) : "CRC" \notin {o[1], Invert(o)[1]}

(*-------------------------------- sending --------------------------------*)
NeedsEscape(o) == o \in {FRAME_BOUNDARY, CONTROL_ESCAPE}
Escaped(o) == IF NeedsEscape(o) THEN <<CONTROL_ESCAPE, Invert(o)>> ELSE <<o>>

EscapedAll(s) == FlattenSeq([i \in DOMAIN s |-> Escaped(s[i])])

Framed(c) == <<FRAME_BOUNDARY>> \o EscapedAll(c \o Check(c)) \o <<FRAME_BOUNDARY>>

SendFrame(c) ==
    /\ Len(sent) < MaxFrames
    /\ sent' = Append(sent, c)
    /\ line' = line \o Framed(c)
    /\ UNCHANGED <<frame, inEscape, received, tooLong, faults>>

(*------------------------------- receiving -------------------------------*)
Content(f) == SubSeq(f, 1, Len(f) - 2)
\* Mutant: the check sequence is not compared.
Valid_Unchecked(f) == Len(f) >= 2
Valid(f)   == Len(f) >= 2 /\ SubSeq(f, Len(f) - 1, Len(f)) = Check(Content(f))

\* Mutant: an escape before a boundary is kept for the next frame.
EscapeAfterBoundary_Kept == inEscape
EscapeAfterBoundary == FALSE

\* Mutant: only a good frame makes room for the next.
AfterBoundary_Kept == IF Valid(frame) THEN <<>> ELSE frame
AfterBoundary == <<>>

Boundary ==
    /\ received' = IF Valid(frame) THEN Append(received, Content(frame)) ELSE received
    /\ inEscape' = EscapeAfterBoundary
    /\ frame' = AfterBoundary
    /\ UNCHANGED tooLong

\* Mutant: the limit is noticed one octet late.
Full_Late == Len(frame) = MaxFrameLength
Full == Len(frame) + 1 = MaxFrameLength

\* A frame that fills the buffer is dropped; what is left of it is taken for another.
Store(o) ==
    /\ inEscape' = FALSE
    /\ IF Full
       THEN frame' = <<>> /\ tooLong' = tooLong + 1
       ELSE frame' = Append(frame, o) /\ UNCHANGED tooLong
    /\ UNCHANGED received

HandleChar(o) ==
    IF o = FRAME_BOUNDARY THEN Boundary
    ELSE IF inEscape THEN Store(Invert(o))
    ELSE IF o = CONTROL_ESCAPE
         THEN inEscape' = TRUE /\ UNCHANGED <<frame, received, tooLong>>
    ELSE Store(o)

Receive ==
    /\ line # <<>>
    /\ line' = Tail(line)
    /\ HandleChar(Head(line))
    /\ UNCHANGED <<sent, faults>>

(*-------------------------------- the line -------------------------------*)
\* An octet is lost (the line is noisy, a queue is full) ...
Lose ==
    /\ line # <<>> /\ faults < MaxFaults
    /\ line' = Tail(line)
    /\ faults' = faults + 1
    /\ UNCHANGED <<sent, frame, inEscape, received, tooLong>>

\* ... or becomes another one.
Corrupt ==
    /\ line # <<>> /\ faults < MaxFaults
    /\ \E o \in {FRAME_BOUNDARY, CONTROL_ESCAPE, Invert(FRAME_BOUNDARY)} \ {Head(line)} :
           line' = <<o>> \o Tail(line)
    /\ faults' = faults + 1
    /\ UNCHANGED <<sent, frame, inEscape, received, tooLong>>

\* The sender restarts in the middle of a frame.
SendPart(c) ==
    /\ Len(sent) < MaxFrames /\ faults < MaxFaults
    /\ sent' = Append(sent, c)
    /\ \E n \in 1..Len(Framed(c)) - 1 : line' = line \o SubSeq(Framed(c), 1, n)
    /\ faults' = faults + 1
    /\ UNCHANGED <<frame, inEscape, received, tooLong>>

\* The receiver restarts: its object is constructed anew.
ReceiverRestarts ==
    /\ faults < MaxFaults
    /\ frame' = <<>> /\ inEscape' = FALSE
    /\ faults' = faults + 1
    /\ UNCHANGED <<sent, line, received, tooLong>>

Init ==
    /\ sent = <<>> /\ line = <<>> /\ frame = <<>> /\ inEscape = FALSE
    /\ received = <<>> /\ tooLong = 0 /\ faults = 0

Next == \/ \E c \in Contents : SendFrame(c) \/ SendPart(c)
        \/ Receive \/ Lose \/ Corrupt \/ ReceiverRestarts

Spec == Init /\ [][Next]_vars /\ WF_vars(Receive)

(*------------------------------- properties ------------------------------*)
\* Type correctness: the buffer is never full between two octets.
TypeOK ==
    /\ sent \in Seq(Contents) /\ received \in Seq(Contents)
    /\ Len(frame) < MaxFrameLength
    /\ inEscape \in BOOLEAN /\ tooLong \in Nat /\ faults \in 0..MaxFaults

\* s is t without some of its elements
Thinned(s, t) == \E f \in [DOMAIN s -> DOMAIN t] :
    /\ \A i, j \in DOMAIN s : i < j => f[i] < f[j]
    /\ \A i \in DOMAIN s : s[i] = t[f[i]]

\* Whatever the line does, what is received are frames that were sent, whole, in the
\* order they were sent and each at most once.
OnlySent == Thinned(received, sent)

\* A fault costs one frame at most: behind it the receiver finds the next frame, and a
\* frame too long for the buffer costs nobody else's. (handleChar)
Fits(c) == Len(c) + 2 < MaxFrameLength
Due == Cardinality({i \in DOMAIN sent : Fits(sent[i])})
OneFaultOneFrame == line = <<>> => Due <= Len(received) + faults

\* Every frame that fits arrives in the end, but for one at most for each fault.
Delivered == \A n \in 1..MaxFrames :
    Due >= n ~> Len(received) + faults >= n
=============================================================================
