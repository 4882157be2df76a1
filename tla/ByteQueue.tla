------------------------------ MODULE ByteQueue ------------------------------
(***************************************************************************)
(* What the receive buffer of the UART promises to the main loop: a bounded *)
(* queue that refuses a byte only when it is full or being cleared, and    *)
(* counts what it refuses.                                                 *)
(***************************************************************************)
EXTENDS Integers, Sequences

CONSTANTS Byte, Cap

VARIABLES
    q,          \* the bytes waiting, oldest first
    got,        \* the byte handed to the reader last
    clearing,   \* the reader is clearing the queue
    refused     \* bytes refused since the counts were last reset

vars == <<q, got, clearing, refused>>

Init == q = <<>> /\ got = 0 /\ ~clearing /\ refused = 0

Put(b) ==
    /\ Len(q) < Cap
    /\ q' = Append(q, b)
    /\ UNCHANGED <<got, clearing, refused>>

Refuse ==
    /\ Len(q) = Cap \/ clearing
    /\ refused' = refused + 1
    /\ UNCHANGED <<q, got, clearing>>

Get ==
    /\ q # <<>> /\ ~clearing
    /\ got' = Head(q)
    /\ q' = Tail(q)
    /\ UNCHANGED <<clearing, refused>>

ResetCounts == refused' = 0 /\ UNCHANGED <<q, got, clearing>>
ClearBegin  == q' = <<>> /\ clearing' = TRUE /\ UNCHANGED <<got, refused>>
ClearEnd    == clearing /\ clearing' = FALSE /\ refused' = 0 /\ UNCHANGED <<q, got>>

Next == (\E b \in Byte : Put(b)) \/ Refuse \/ Get \/ ResetCounts \/ ClearBegin \/ ClearEnd

Spec == Init /\ [][Next]_vars

=============================================================================
