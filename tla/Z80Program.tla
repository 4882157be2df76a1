----------------------------- MODULE Z80Program -----------------------------
(***************************************************************************)
(* What a debugger may do to a program: the Z80 as the program sees it.    *)
(* Instructions are fetched one after the other and run to their last      *)
(* machine cycle; in between an interrupt may be accepted, and a reset or  *)
(* an order to go elsewhere takes effect. Nothing else happens.            *)
(***************************************************************************)
EXTENDS Sequences

CONSTANTS
    Addr,       \* addresses of instructions
    Program,    \* the machine cycles of each, the opcode fetch first
    Succ,       \* the addresses at which it may go on
    ResetAddr, IsrAddr

VARIABLES
    pc,     \* the next instruction
    todo,   \* cycles that the current one has left
    order   \* where the registers are to be set to: nowhere, or one address

Init == pc \in Addr /\ todo = <<>> /\ order = {}

Fetch     == /\ todo = <<>> /\ order = {}
             /\ pc' \in Succ[pc] /\ todo' = Tail(Program[pc]) /\ UNCHANGED order
Continue  == todo # <<>> /\ todo' = Tail(todo) /\ UNCHANGED <<pc, order>>
Interrupt == /\ todo = <<>> /\ order = {}
             /\ pc' = IsrAddr /\ todo' = <<"WR", "WR">> /\ UNCHANGED order
Reset     == pc' = ResetAddr /\ todo' = <<>> /\ UNCHANGED order
Order     == order = {} /\ order' \in {{a} : a \in Addr} /\ UNCHANGED <<pc, todo>>
Obey      == order # {} /\ todo = <<>> /\ pc' \in order /\ order' = {} /\ UNCHANGED todo

Next == Fetch \/ Continue \/ Interrupt \/ Reset \/ Order \/ Obey
Spec == Init /\ [][Next]_<<pc, todo, order>>
=============================================================================
