--------------------------- MODULE RingBufferPosn ---------------------------
(***************************************************************************)
(* The positions of a ring buffer (System/RingBufferPosn.h).  put and get  *)
(* run over 0..len-1 and one slot stays free, so put = get means empty.    *)
(* hasPut and hasGot are two stores each, pos++ and then the wrap, between *)
(* which a position may be seen as len.                                    *)
(***************************************************************************)
EXTENDS Integers, Sequences

\* The part of canPut after the test for an empty ring, with _getPos read again.
\* Mutant: the free slot is used, and a full ring looks empty.
Room_Overfull(put, get, len) == TRUE
Room(put, get, len) ==
    IF put > get THEN put # len - 1 \/ get # 0
    ELSE get - put > 1

CanPut(put, get, len) == put = get \/ Room(put, get, len)
CanGet(put, get)      == put # get

\* The second store of hasPut and hasGot. Mutant: the wrap comes one position late.
Wrapped_Late(pos, len) == IF pos > len THEN 0 ELSE pos
Wrapped(pos, len) == IF pos >= len THEN 0 ELSE pos

\* count
Count(put, get, len) == IF get <= put THEN put - get ELSE len - get + put

\* What the ring holds, oldest first; a position not yet wrapped counts as 0.
Contents(buf, put, get, len) ==
    [i \in 1..((put - get) % len) |-> buf[(get + i - 1) % len]]

=============================================================================
