----------------------------- MODULE MCUartMaxi -----------------------------
(***************************************************************************)
(* UartMaxi on rings of three slots, so that both wrap within a few bytes, *)
(* and FIFOs of two, of which a ring's content may or may not fit.         *)
(***************************************************************************)
EXTENDS UartMaxi

=============================================================================
