--------------------------- MODULE MCFileTransfer ---------------------------
(***************************************************************************)
(* Files of two and three blocks, so that counts and sizes differ, and an  *)
(* empty file.                                                             *)
(***************************************************************************)
EXTENDS FileTransfer

MCFiles     == {"two", "three", "empty"}
MCNumBlocks == [f \in MCFiles |-> CASE f = "two" -> 2 [] f = "three" -> 3 [] OTHER -> 0]

=============================================================================
