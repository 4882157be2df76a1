---------------------------- MODULE MCStepTracer ----------------------------
(***************************************************************************)
(* A loop of two instructions: one that reads a cell, writes to a port and *)
(* writes the cell, and one that writes to a port; and the response to an  *)
(* interrupt, which pushes the program counter (here in one access).       *)
(***************************************************************************)
EXTENDS StepTracer

MCAccess(k, a, v) == [kind |-> k, addr |-> a, data |-> v]
MCProgram ==
    [pc \in 0..2 |->
        CASE pc = 0 -> [cycles |-> <<MCAccess("RD", 5, 0), MCAccess("IOWR", 9, 1),
                                     MCAccess("WR", 5, 1)>>, next |-> 1]
          [] pc = 1 -> [cycles |-> <<MCAccess("IOWR", 9, 2)>>, next |-> 0]
          [] pc = 2 -> [cycles |-> <<MCAccess("WR", 5, 3)>>, next |-> 1]]
MCCell == {5}
MCBytes == {2}
=============================================================================
