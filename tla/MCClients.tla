----------------------------- MODULE MCClients -----------------------------
(***************************************************************************)
(* A target of two bytes, loaded in blocks of one or two.                  *)
(***************************************************************************)
EXTENDS Clients

MCAddr == 0..1
MCByte == {"00", "ff"}
=============================================================================
