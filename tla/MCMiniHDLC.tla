---------------------------- MODULE MCMiniHDLC ----------------------------
(***************************************************************************)
(* An empty frame, one of two octets that need escaping and one too long.  *)
(***************************************************************************)
EXTENDS MiniHDLC

MCEscapes  == <<CONTROL_ESCAPE, FRAME_BOUNDARY>>
MCLong     == <<CONTROL_ESCAPE, <<"a">>, <<"b">>, CONTROL_ESCAPE>>
MCContents == {<<>>, MCEscapes, MCLong}
MCTricky   == {MCEscapes}
=============================================================================
