--------------------------- MODULE MCTargetTracker ---------------------------
(***************************************************************************)
(* A program of four instructions, and an interrupt routine of one.        *)
(***************************************************************************)
EXTENDS TargetTracker, TLC

MCAddr    == 0..4
MCProgram == 0 :> <<"M1", "RD">>              \* ld a,n
          @@ 1 :> <<"PFX", "M1", "RD">>       \* add a,(ix+d), without the cycle of its displacement
          @@ 2 :> <<"M1", "WR", "WR">>        \* rst 0
          @@ 3 :> <<"PFX", "M1">>             \* ld r,a
          @@ 4 :> <<"M1">>                    \* nop, of the interrupt routine
MCSucc    == 0 :> {1} @@ 1 :> {2} @@ 2 :> {0} @@ 3 :> {0} @@ 4 :> {3}
MCAfter   == 0 :> 1 @@ 1 :> 2 @@ 2 :> 3 @@ 3 :> 4 @@ 4 :> 4

ASSUME MCPrefixesLead == PrefixesLead
=============================================================================
