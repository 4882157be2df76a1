----------------------------- MODULE BusArbiter -----------------------------
(***************************************************************************)
(* What the bus access layer promises its sockets about the target bus,    *)
(* without timers, waits, signals or callbacks: the bus has one master at  *)
(* a time, and one tenure of the Pi serves everybody who wanted the bus.   *)
(***************************************************************************)
CONSTANT Socket

VARIABLES
    want,      \* the sockets that asked for the bus and have not been answered
    master,    \* who drives the bus: "CPU" or "PI"
    busrq,     \* the request line to the Z80
    busack     \* its answer

vars == <<want, master, busrq, busack>>

Init == want = {} /\ master = "CPU" /\ busrq = FALSE /\ busack = FALSE

\* A socket asks; the line may be pulled at once.
Ask(s) ==
    /\ want' = want \cup {s}
    /\ busrq' \in {busrq, TRUE}
    /\ UNCHANGED <<master, busack>>

Pull ==
    /\ want # {} /\ master = "CPU" /\ ~busrq
    /\ busrq' = TRUE
    /\ UNCHANGED <<want, master, busack>>

Yield  == busrq /\ busack' = TRUE /\ UNCHANGED <<want, master, busrq>>
Resume == ~busrq /\ busack' = FALSE /\ UNCHANGED <<want, master, busrq>>

\* The Pi takes the bus for all who want it.
Take ==
    /\ master = "CPU" /\ busrq /\ busack
    /\ master' = "PI"
    /\ want' = {}
    /\ UNCHANGED <<busrq, busack>>

GiveBack ==
    /\ master = "PI"
    /\ master' = "CPU"
    /\ busrq' = FALSE
    /\ busack' \in {busack, FALSE}
    /\ UNCHANGED want

\* The Z80 did not answer in time: everybody's request fails together.
GiveUp ==
    /\ master = "CPU"
    /\ want' = {}
    /\ busrq' = FALSE
    /\ busack' \in {busack, FALSE}
    /\ UNCHANGED master

Next == \/ \E s \in Socket : Ask(s)
        \/ Pull \/ Yield \/ Resume \/ Take \/ GiveBack \/ GiveUp

Spec == Init /\ [][Next]_vars

=============================================================================
