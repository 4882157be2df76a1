-------------------------- MODULE TargetBreakpoints --------------------------
(***************************************************************************)
(* The breakpoints of the target tracker (TargetBus/TargetBreakpoints.cpp):*)
(* a list of fast breakpoints known by their address, and numbered ones    *)
(* with a common switch. The operators take the breakpoints and give them  *)
(* back changed.                                                           *)
(***************************************************************************)
EXTENDS Integers, Sequences

CONSTANTS MaxFast,    \* MAX_BREAKPOINTS, for the fast list
          Numbers     \* the numbers of numbered breakpoints

NoBreakpoints(a) == [fast |-> <<>>, num |-> [i \in Numbers |-> [pc |-> a, on |-> FALSE]], on |-> TRUE]
IsBreakpoints(b, Addrs) ==
    /\ b.fast \in Seq([pc : Addrs, on : BOOLEAN]) /\ Len(b.fast) <= MaxFast
    /\ b.num \in [Numbers -> [pc : Addrs, on : BOOLEAN]]
    /\ b.on \in BOOLEAN

\* An entry is never taken out of the list, only switched off.
SetFastBreakpoint(b, a, en) ==
    IF \E i \in DOMAIN b.fast : b.fast[i].pc = a
    THEN [b EXCEPT !.fast = [i \in DOMAIN b.fast |-> IF b.fast[i].pc = a THEN [b.fast[i] EXCEPT !.on = en]
                                                     ELSE b.fast[i]]]
    ELSE IF en /\ Len(b.fast) < MaxFast
         THEN [b EXCEPT !.fast = Append(@, [pc |-> a, on |-> TRUE])] ELSE b
ClearFastBreakpoints(b)         == [b EXCEPT !.fast = <<>>]
SetBreakpointPCAddr(b, i, a)    == [b EXCEPT !.num[i].pc = a]
EnableBreakpoint(b, i, en)      == [b EXCEPT !.num[i].on = en]
EnableBreakpoints(b, en)        == [b EXCEPT !.on = en]

\* The addresses at which an opcode fetch is a hit.
CheckForBreak(b) ==
    {b.fast[i].pc : i \in {j \in DOMAIN b.fast : b.fast[j].on}}
    \cup {b.num[i].pc : i \in {j \in Numbers : b.on /\ b.num[j].on}}
=============================================================================
