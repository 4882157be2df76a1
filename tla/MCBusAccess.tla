---------------------------- MODULE MCBusAccess ----------------------------
(***************************************************************************)
(* BusAccess with the clients of the firmware, two sockets at a time and   *)
(* in registration order (main.cpp:96-107; the step tracer registers when  *)
(* it is first started).  Each table lists the calls a client makes and    *)
(* the place it makes them from.                                           *)
(***************************************************************************)
EXTENDS BusAccess

\* HwManager's RAM card asks for the bus when it is told of a RESET (HwRAMROM.cpp:547-561).
HwUses(s) == {<<"RESET", s, "HW_ACTION">>}

\* McManager: display refresh, programming, machine interrupt, reset; it starts a
\* program by a RESET from within the callback of the bus request (McManager.cpp).
McUses(s) ==
    {<<"LOOP", s, "PROGRAMMING">>, <<"LOOP", s, "RESET">>, <<"LOOP", s, "IRQ">>,
     <<"BUSRQ", s, "RESET">>}

\* The step tracer primes its memory under a bus request and there sets up its waits
\* and the RESET (StepTracer.cpp:205-300); it holds at cycles and releases them.
TracerUses(s) ==
    {<<"LOOP", s, "ENABLE">>, <<"LOOP", s, "MIRROR">>,
     <<"LOOP", s, "HOLD">>, <<"LOOP", s, "RELEASE">>, <<"BUSRQ", s, "WAIT_MEM">>,
     <<"BUSRQ", s, "WAIT_IO">>, <<"BUSRQ", s, "HOLD">>, <<"BUSRQ", s, "RELEASE">>, <<"BUSRQ", s, "RESET">>,
     <<"ACCESS", s, "HOLD">>}

\* The target tracker injects code from its access callback: pages the memory out and
\* in, asks for the bus to mirror, holds at instructions (TargetTracker.cpp:109-160, 887-987).
TrackerUses(s) ==
    {<<"LOOP", s, "ENABLE">>, <<"LOOP", s, "WAIT_MEM">>, <<"LOOP", s, "HOLD">>,
     <<"LOOP", s, "RELEASE">>, <<"LOOP", s, "PAGE_IN">>, <<"ACCESS", s, "HOLD">>,
     <<"ACCESS", s, "PAGE_OUT">>, <<"ACCESS", s, "PAGE_IN">>, <<"ACCESS", s, "MIRROR">>}

\* BusController: the commands of the host computer (BusController.cpp:445-560).
ControllerUses(s) ==
    {<<"LOOP", s, "GENERAL">>, <<"LOOP", s, "NMI">>,
     <<"LOOP", s, "BUS_RESET">>}

\* A RAM card that stays banked writes its register with a request and release of the
\* bus of its own, from within the callback of a bus request (HwRAMROM.cpp:593).
StayBankedUses == HwUses(1) \cup McUses(2) \cup {<<"BUSRQ", 1, "SYNC">>}

\* That card and a machine that watches the bus (McManager.cpp:325-350).
MachineUses  == StayBankedUses \cup {<<"LOOP", 2, "WAIT_IO">>, <<"LOOP", 2, "WAIT_MEM">>}
TracingUses  == McUses(1) \cup TracerUses(2)
TrackingUses == TrackerUses(1) \cup ControllerUses(2)

=============================================================================
