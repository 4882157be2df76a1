---------------------------- MODULE TargetState ----------------------------
(***************************************************************************)
(* The program a host has collected for the target (TargetBus/             *)
(* TargetState.cpp): an image of the target's memory, the blocks of it     *)
(* that were loaded, in order of arrival, and whether start registers came *)
(* with them.                                                              *)
(***************************************************************************)
EXTENDS Naturals, Sequences

CONSTANTS
    Addr,         \* target addresses, an interval 0..n
    Byte,         \* values of a byte, "00" among them
    MaxBlocks     \* MAX_TARGET_MEMORY_BLOCKS

ASSUME TargetStateAssumption ==
    Addr \subseteq Nat /\ 0 \in Addr /\ "00" \in Byte /\ MaxBlocks \in Nat \ {0}

Block == [start : Nat, len : Nat]
Cells(b) == {a \in Addr : b.start <= a /\ a < b.start + b.len}

TargetStates == [blocks : Seq(Block), image : [Addr -> Byte], regs : BOOLEAN]

clear == [blocks |-> <<>>, image |-> [a \in Addr |-> "00"], regs |-> FALSE]

\* The first block that the new data follows on from, if any.
Continued(t, b) == {i \in DOMAIN t.blocks :
    /\ t.blocks[i].start + t.blocks[i].len = b.start
    /\ \A j \in 1..(i-1) : t.blocks[j].start + t.blocks[j].len # b.start}

\* Mutant: the length of the new data takes the place of the block's.
LongerBy_Replaced(t, i, b) == [t EXCEPT !.blocks[i].len = b.len]
LongerBy(t, i, b) == [t EXCEPT !.blocks[i].len = @ + b.len]

\* A block more than the table holds is dropped, with a line in the log.
Room(t, b) == Continued(t, b) # {} \/ Len(t.blocks) < MaxBlocks

addMemoryBlock(t, b, v) ==
    LET listed == IF Continued(t, b) # {}
                  THEN LongerBy(t, CHOOSE i \in Continued(t, b) : TRUE, b)
                  ELSE [t EXCEPT !.blocks = Append(@, b)]
    IN IF ~Room(t, b) THEN t
       ELSE [listed EXCEPT !.image = [a \in Addr |-> IF a \in Cells(b) THEN v ELSE @[a]]]

setTargetRegisters(t) == [t EXCEPT !.regs = TRUE]
=============================================================================
