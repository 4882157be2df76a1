# BusRaider: a model-checked and proved description of its control logic

The BusRaider is a Raspberry Pi (with an ESP32 in front of it) that sits on the
bus of an 8-bit computer with a Z80, watches every bus cycle, emulates its memory
and peripherals, takes its bus to program it, resets it, interrupts it and debugs
it. This directory holds TLA+ modules of the parts of the firmware where order and
timing matter, TLC configurations that check them on small instances, and theorems
checked by TLAPS.

Paths below are relative to `src/PiSw/src` (the Pi) or
`src/EspSw/BusRaiderEsp32` (the ESP32).

## 1. Inventory

### The Pi

The Pi is single threaded. `main.cpp:125-150` calls the `service()` of every part
in turn, for ever; the only interrupt handler is that of the UART.

| Component | State | Operations | Interactions | What is hard | What makes it correct |
|---|---|---|---|---|---|
| **Bus access layer** `TargetBus/BusAccess.cpp`, `BusAccess_Control.cpp` | the bus sockets (enabled, requests, waits, hold), the action in progress and its timer, the wait in progress, hold and paging flags, the control lines | `targetReqBus`, `targetReqReset/NMI/IRQ`, `busSocketEnable`, `waitOnMemory/IO`, `waitHold`, `waitRelease`, `targetPageForInjection`, `busAccessReset`, `blockRead/Write`, `service` | every other part of the Pi that touches the target is a client; two callbacks per socket (bus access, bus action); the Z80 answers on its own time | the Z80 runs between any two reads of the lines; clients call back into the layer from callbacks; one grant answers many requests; timeouts | one master of the bus; every line that is pulled is raised again; every request is answered; waited and held cycles are not lost |
| **Serial port** `System/UartMaxi.cpp`, `RingBufferPosn.h` | two rings with a position per side, FIFO and interrupt mask of the UART | `write`, `txPumpPrime`, `poll`, `read`, `setup`, `clear`, `isr` | main loop against interrupt handler, UART against both | positions in two stores, positions read twice, the transmit interrupt must neither be lost nor be left on | a queue in each direction; what is accepted is sent |
| **Application** `BusRaiderApp.cpp`, `main.cpp` | last activity, baud rate, key ring | the main loop, `serialPutStr`, `serviceGetFromSerial`, auto-baud | serial port, command handler | change of baud rate under traffic | |
| **Target tracker** `TargetBus/TargetTracker.cpp`, `TargetCPUZ80.cpp` | step mode, acquisition state, injection position, paging, pending disable, register copy | `enable`, `stepInto/Over/Run/To`, `startGet/SetRegisterSequence`, the access callback | bus access layer (waits, hold, paging, mirror request), breakpoints | instruction boundaries recognised from single cycles; commands in the middle of an injection | the Z80's registers are what was injected; a hold is at an instruction; memory is paged in exactly when no injection runs |
| **Breakpoints** `TargetBreakpoints.cpp` | list of fast breakpoints | set, enable, hit test | tracker | the full list | a set breakpoint is hit |
| **Target state** `TargetState.cpp` | blocks to be programmed | add, merge, clear | machine manager | blocks that touch, limits | what is programmed is what was sent |
| **Machine manager** `Machines/McManager.cpp`, `Machines/Mc*.cpp` | current machine, pending programming, pending display refresh, host serial buffer | machine switch, reset, program and run, display refresh, host characters | bus access layer (one socket), hardware manager, command handler | one socket for two purposes; pending flags against failed requests | programming happens once, run follows it |
| **Hardware manager, RAM/ROM card** `Hardware/HwManager.cpp`, `HwRAMROM.cpp` | enabled cards, mirror and emulation modes, banking, page-out owner | configure, paging, mirror, block access | bus access layer (one socket), tracker | a request merged with another's loses its reason | cards agree with the modes; paged out means paged out |
| **Bus controller** `BusController/BusController.cpp` | pending memory access, step completion | host commands: memory, I/O, reset, pause, step; `blockAccessSync` | bus access layer, tracker, command handler | waits in a loop that calls `BusAccess::service` itself | the answer belongs to the request |
| **Step tracer** `StepTracer/StepTracer.cpp` | trace buffers, a software Z80 | start, stop, access callback | bus access layer | buffers fill while the Z80 runs: holds | no cycle lost |
| **DeZog interface** | debugger protocol | commands | tracker, bus controller | | |
| **Command handler, HDLC** `CommandInterface/*` | receiver state; file being received | frames, file start, block, end, timeout | serial port, machine manager | a lossy line; restarts in the middle of a file | a file is complete or not delivered |
| **File formats, terminal, display, Pi system support** | | parsers, drawing, hardware set-up | | none that concerns order | |

### The ESP32

| Component | State | Operations | Interactions | What is hard | What makes it correct |
|---|---|---|---|---|---|
| **Command serial** `lib/RdCommandSerial` | upload in progress, block count, last block time | upload from API and from the file system, `service`, frames from the Pi | the Pi's command handler over the serial line, web server | two kinds of upload, two timeouts, lost frames | one file at a time; an upload ends |
| **Machine interface** `src/MachineInterface.cpp` | cached status, one answer buffer | REST and telnet commands, command with answer | command serial | late answers | the answer belongs to the command |
| **Remote debug** `src/RemoteDebugProtocol.cpp` | connection | forwards text | command serial | | |
| **Services** (WiFi, web, MQTT, OTA, log, scheduler) | | | vendor libraries | mostly I/O | |

The hazards of this code, each at its line, are in `PROJECT.json`.

## 2. Plan

| Step | Modules | State |
|---|---|---|
| 1 | `BusArbiter` (abstract), `BusAccess`; theorems in `BusAccessProofs`, `BusAccessSafety` | modelled, checked, proved |
| 2 | `ByteQueue` (abstract), `RingBufferPosn`, `UartMaxi`; theorems in `UartMaxiProofs` | modelled, checked; reception and the order of transmission proved |
| 3 | `FileTransfer`: the ESP32's uploads and the Pi's receiver over a lossy line; theorems in `FileTransferProofs` | modelled, checked, proved |
| 4 | `TargetTracker` with `TargetBreakpoints`, against `Z80Program` (abstract); theorems in `TargetTrackerProofs` | modelled, checked, proved |
| 5 | `Clients` with `TargetState`: machine manager, bus controller, tracker and card on one bus, over `BusArbiter`; theorems in `ClientsProofs` | modelled, checked, proved |
| 6 | `MiniHDLC`: framing of the serial link; theorems in `MiniHDLCProofs` | modelled, checked, proved |
| 7 | `StepTracer`; theorems in `StepTracerProofs` | modelled, checked, proved |
| 8 | the ESP32's machine interface and telnet sessions, the DeZog interface once something calls it, the host serial buffer | open |

`BusAccess` comes first because every effect on the target goes through it. The
modules hold no RECURSIVE operators, and every state invariant is a conjunction of
named parts, so that the same formulas are checked by TLC and proved. How the modules
are built on each other:

    Z80Program  <-  TargetTracker  <-  TargetBreakpoints
    BusArbiter  <-  BusAccess                       (refinement, checked and proved)
    BusArbiter  ->  Clients        <-  TargetState  (Clients runs on the abstract bus)
    ByteQueue   <-  UartMaxi       <-  RingBufferPosn

## 3. The bus access layer: `BusAccess.tla`

### State and actions

`sock` is `_busSockets` (per socket: enabled, requests, reason of the bus request,
waits, hold); `act` is `_busActionState/_busActionType/_busActionSocket`; `late` and
`waitLate` say that the timer of the action and of the wait have run out (the code
compares `micros()`; the model lets a timer run out at any moment); `waitAsserted`,
`waitHold`, `reading` and `pageInDue` are the flags of the same names;
`mux`, `busrq`, `underControl`, `waitGen`, `pagedOut` are the outputs;
`cycle`, `waitLine`, `busack` are the Z80's side.

A pass of `BusAccess::service` is a sequence of steps. `pc` says where it is:

    LOOP -> [CALLBACK] -> WAITS -> [CALLBACK -> RELEASE] -> LOOP

with a step between any two reads of the hardware and a step for each socket's
callback, so the Z80 and the clocks can move wherever they can in reality. Every
way out of `busActionHandleActive` is one action (`BusGranted`, `BusTimedOut`,
`IrqAcknowledged`, `SignalTimedOut`, `CancelPending`, else `ServiceCheck`), each
round of callbacks has its end (`EndGrant`, `EndFail`, `EndSignal`, `EndResetEnd`,
`EndAccess`), and the rest is `serviceWaitActivity` (`NewWait`, `NoNewWait`,
`InWait`, `KeepHeld`, `EndWait`, `StillInWait`). The client calls are one action
each, enabled in the main loop and in the callback of the client's own socket.

Clients are a constant: `Uses`, a set of `<<place, socket, call>>`, says who may
call what from where. The theorems hold for every such table (under the discipline
below); the runs use tables read from the clients' code (`MCBusAccess.tla`).

### What it promises

* `BusArbiter` is the abstract specification: one master; a request is answered by
  one tenure or one failure that serves everybody who asked. `ImplementsArbiter`
  is the refinement, with `master` derived from `underControl` and `want` from the
  sockets' requests.
* Safety: `DrivesOnlyGrantedBus`, `GrantRoundHasBus`, `BusrqHasOwner`; `BusInv` is the
  inductive invariant, with `SignalHasAction` (no signal line outlives its action),
  `ActionIsWanted` and `RoundsConsistent`.
* Steps: `SignalBeforeRelease` (when the Z80 gets the bus back some signal is on the wire
  if any was asked for, and the RESET of a socket is, unless a socket registered before it
  has something pending), `BusRequestAnswered`, `HeldCycleKept`, `WaitedCycleIsSeen`,
  `PageInBetweenReads`. The comment of `BusAccess.cpp:535` wants the RESET without the
  exception, which the code does not keep (section 12). In `bus_tracing` the exception
  occurs: the machine manager's IRQ comes before the tracer's RESET.
* Liveness: `RequestsSettled`, for bus requests and signals alike.

Two client calls are beyond the design, and a run with them finds the invariants
broken. They are the *client discipline*: no bus request from within the callback of
a bus request or of an interrupt, and no synchronous block access
(`busRqAndRelease = true`). The code does not state the discipline and nothing
enforces it. The stay-banked `HwRAMROM` breaks it (section 12); all other clients keep it.

### Abstractions

* The V2.0 board only. The V1.7 board's one-cycle suspension and the clock
  generator are left out, and so is raw bus control by the host
  (`rawBusControl*`, with `_busServiceEnabled`), during which `service` does nothing.
* Addresses and data: no property needs them. That a block access leaves control
  lines as it found them is assumed.
* The multiplexer carries one signal or none. Reading the control bus goes through
  it and drops the signal (`NewWait`).
* `waitHandleReadRelease` waits for the end of the Z80's read, for at most 10 us;
  both ways out are modelled. Programming the wait generator always succeeds
  (in the code it is skipped when the PWM FIFO is full).
* `controlRelease` waits up to a limit for BUSACK to go; `SlowAck` lets the limit
  pass with the Z80 still acknowledging.
* A callback's own calls come in any order and number (a client may do less than
  it could, never more).

## 4. The serial port: `UartMaxi.tla`

The main loop moves in the steps of `pc`, one for each access to a volatile
position: `write` checks for an empty ring (`WRITE`), reads `_getPos` again
(`ROOM`), stores the byte, advances `_putPos` and wraps it; `read` and `clear` have
two stores as well. The handler moves in the steps of `isr`; while it runs the
main loop does not, and it does not start inside `txPumpPrime`, which runs with
interrupts off. The UART itself always goes on. `write(n)` stands for
`write(data, size)` and, with n = 1, for `write(c)`, the only one the application
uses (`BusRaiderApp.cpp:453`). A byte is the number of its turn.

`RxIsQueue`: reception implements `ByteQueue` (put, refuse when full, get, and
a clear in two steps during which a byte may be refused). `TxNothingSkipped` and
`AcceptedIsSent` are the promise for transmission; stronger ones do not hold (section 12).

Assumptions about the hardware and the speed of the Pi:

* PL011: the transmit interrupt is raised when the FIFO drains to the trigger and
  taken back by a write that fills it above the trigger, by the clear register, or at `setup`.
* The receive interrupt may come as soon as a byte is there (the trigger level and
  the receive timeout of the UART decide when).
* Two interrupts are further apart than the two stores of `hasPut`; the handler
  fills the FIFO faster than the line empties it. The finding `uart_wire` arises
  with both assumptions in force.

Not modelled: receive error bits (nothing reads them) and the allocation of buffers.

## 5. File transfer: `FileTransfer.tla`

Both ends are in one module. The ESP32's side is `CommandSerial` (flags of the two
kinds of upload, block count, command due, the file manager's chunk session); its
actions are `StartUploadFromFileSystem`, the two things `service` does for uploads
(`ServiceChunk`, `ServiceTimeout`) and `UploadAPIBlockHandler` for an HTTP block.
What one call sends (start record, block, end record, command) goes onto `link`
together. The Pi's side is `CommandHandler`: one action per kind of frame, and its
timeout. `Lose` drops a frame: HDLC throws away frames with a wrong check sum.

Time is a pause in three steps (`pause`): shorter than the Pi's limit of 3 s,
longer, and longer than the ESP32's 20 s. During a file system upload there is none
(a chunk every 10 ms); while a pause goes on the line drains; and the Pi has given
up long before 20 s are over. `long` stands for the limit of 600 s.

`DeliveredWhole` and `CompletedIsDelivered` say what arrives, `TransfersEnd` that
neither end stays busy. They are checked for `Orderly` HTTP clients, which start an
upload only when none is in progress, as `startUploadFromFileSystem` makes sure for
itself and `uploadAPIBlockHandler` does not, and stop when the ESP32 has given theirs
up. Without that discipline `DeliveredWhole` fails on a perfect line (section 12).

Even with it `DeliveredWhole` holds only for a line that loses nothing, or one frame
and that not around an upload that was given up with the Pi in the middle of its
reception (`orphan`: an unreadable file, 600 s). A count of blocks is all the Pi
compares. With the start record of the next upload lost, its blocks go into the buffer
of the first, and the counts can agree by chance; an end record and the next start
record have the same effect. The run has two losses, so that the exceptions are
reached, and the file is whole in all the other cases.

Abstractions: a file is a number of blocks, and the buffer has as many (over HTTP
it is a little longer, since the announced length is that of the request). The web
server's task and the main loop are taken to run each call whole; they may
overlap only where uploads do, which the discipline excludes. Malloc may fail on the Pi.

## 6. The debugger: `TargetTracker.tla`, `TargetBreakpoints.tla`, `Z80Program.tla`

The unit of time is a memory cycle of the Z80. `StartCycle` is the beginning of one
with the tracker's callback (`handleWaitInterrupt`) run on it, `EndCycle` its end after
the wait is released. `t` is the tracker's state, one field per member of
`TargetTracker` that matters (`acq` is `_targetStateAcqMode`, `mode` the step mode,
`pos` `_snippetPos`, `pfx` the prefix tracker, `outActive`, `mirrorDue`,
`disablePending`, `resetPending`, `setRegs`), and what it has set in the bus access
layer (socket, hold, paging, the end-of-read flags of `waitHandleReadRelease`). The
operators that take the state `s` and give it back have the names of the functions they
stand for. The Z80 (`z`) runs a constant program of instructions, each a sequence of
kinds of cycles, and eats the injected snippets byte by byte: `Get` and `Set` are the
two code tables as the cycles of the instruction at each position. `z.code = "LOST"` is
a Z80 that took an injected byte for something it was not meant to be.

`Control` holds the commands (`TargetTrackerOn` with or without RESET, `Off`, `StepInto`,
`StepRun`, `StepOver`, `CompleteTargetProgram`, `ResetTarget`, `ProgramTarget`, the
breakpoint calls), `Interrupt` and `ResetPulse` the two things that come between
instructions, `BusGrant` the grant for which the tracker or the machine manager asked.

What is checked:

* `Transparent`: the tracker implements `Z80Program`. The program runs as without a
  debugger, instruction by instruction and each to its last cycle, but for registers
  set on order, interrupts and resets. A Z80 that is lost breaks this.
* `RegistersShown`: whenever the Z80 is held, under the rules of use below, it stands at
  the first byte of an instruction and every register shown is its own. `StepsOne`: a step runs one
  instruction, prefixed ones too. `BreakpointStops`: no instruction with a breakpoint
  starts before its registers have been taken.
* `MemoryAsNeeded`: the target's memory is paged in for the program's own cycles and
  for the bus master, and out when injected code runs.
* `OrdersTakeEffect`: the target stops after a step, a breakpoint or a debugger's reset,
  and a postponed switch-off happens.

The rules a user of the tracker has to keep are named (`Rule`, switched off by putting
the name in `Lax`), because the code does not enforce them: registers are set only at
the end of an instruction (`SET_ANYTIME`), interrupts and resets do not come in the
middle of an injection (`INTERRUPT_ANYTIME`, `RESET_ANYTIME`), the tracker is switched
on between whole opcodes (`ENABLE_ANYTIME`), not while on (`REENABLE`) and not again after a
switch-off at a stop or while injected code ran (`ENABLE_AFTER_STOP`), breakpoints are set
once the tracker has seen an instruction (`EARLY_BREAK`). Breaking any of them makes a
property fail in TLC; section 12 says which code is behind it. `ENABLE_AFTER_STOP` excludes
a common use, a second debugging session: `enable(true)` leaves `_targetStateAcqMode` at
`POST_INJECT`, and the next hold is then at whatever cycle comes first. Run `tracker_again`
shows it; `RegistersShown` and the other properties speak of the rest.

Abstractions: data is absent but for the registers, of which the model knows whether
the tracker's copy agrees (`known`); an address is that of an instruction; the
displacement byte of a DD CB instruction and I/O cycles (the tracker waits on memory
only) are left out. `setMemoryEmulationMode`, `setOpcodeInjectEnable` and
`_requestDisplayWhileStepping` have no caller that changes them and are constants.
`stepOver`, breakpoints and `completeTargetProgram` are reachable only from the DeZog
interface, whose `handleMessage` has no caller at this commit (`DeZogInterface.cpp:172`);
they are modelled all the same, as they are the tracker's interface.

## 7. The clients of the bus: `Clients.tla`, `TargetState.tla`

Machine manager, bus controller, tracker and RAM/ROM card with their own pending flags
on the abstract `BusArbiter`, which `BusAccess` is proved to implement; added are the
order of the sockets, the reason that the callbacks are told and the second round for
MIRROR after PROGRAMMING (`BusAccess.cpp:587-609`). Each grant is a queue of callbacks
(`round`), each callback a step: `HwCallback`, `BcCallback`, `McCallback` act on
whatever flags they find, whoever asked. `mc` holds `_pendingProgramTarget`, its exec
flag and `_pendingDisplayRefresh`; `acc` the pending block access, `pc = "SYNC"` the
wait in `blockAccessSync`. `target` is `TargetState`: blocks as they arrive, joined when
one follows on another, and the image. `ram` is the target's memory, `mirror` the
card's. The Z80 writes to `ram` when it has the bus.

* `Programmed`: what is written is what the host loaded since it cleared the target, in
  whatever pieces, and nothing else, whichever request the grant answered.
* `ProgramDone`: although requests fail and nobody looks at BUSRQ_FAIL, a program is
  written in the end; it is the display refresh on the same socket that asks again.
* `AccessOnce`: OK means done once in the call; an access that was given up is not done
  in the grant its request gets later.
* `MirrorTrue`: from the first grant that was begun for the tracker's own request on, the
  mirror the debugger reads is the target's memory. A request for the mirror that joins one
  begun for another socket is in the model and not counted: the card is then told that
  one's reason and copies nothing (section 12).

What the host has to keep to, and nothing enforces, is in `Lax`: `DEBUG_ALONE` (it does
not program or write to the target while it debugs, though it may read, and starts to debug
after its program was written) and `ROOM` (no more blocks than the table holds). With
`DEBUG_ALONE` off `Programmed` fails (section 12).

Abstractions: one card, enabled throughout and not stay-banked; a machine with a memory
mapped display (the others never ask again after a failed request) and with start code
for registers (`setRegistersCodeAddr`, 0 for Terminal and RobsZ80); the tracker only as
far as it switches modes and asks for the mirror (`TargetTracker` has the rest).
`tracking` stands for `!busAccessAvailable()` (`TargetTracker.cpp:164`), which is also true
while any socket holds a wait or a card emulates the memory: of the clients here only the
tracker holds the Z80, and emulation is not modelled.

## 8. Framing: `MiniHDLC.tla`

One sender (`Framed`: escaping, check sequence, boundaries), a line of octets, one
receiver, `HandleChar` with its three outcomes `Boundary`, escape and `Store`. The line
loses and changes octets, a sender may restart in the middle of a frame, a receiver any
time. `OnlySent`: what comes out is a thinning of what went in, whatever the line does.
`OneFaultOneFrame` and `Delivered`: each fault costs one frame at most, and a frame too
long for the buffer costs nobody else's. An octet with bit 5 inverted is a term of
itself, and a check sequence tells any two contents apart (the real one has 16 bits);
`Tricky` contents have one with a boundary octet in it. No data pass for an octet of a
check sequence (`CheckAssumption`): so wherever the second of its octets comes up it tells
which content it is of. A changed octet becomes one that means something to the receiver,
a boundary, an escape or an inverted boundary; a change that turns a check sequence into
another one is the collision that the abstraction leaves out. The bit-oriented mode
(`handleBit`) is used by nobody and left out.

The three invariants of the run are proved for every set of contents and every size of
the buffer (section 11); `Delivered`, the liveness of the link, is checked.

## 9. The step tracer: `StepTracer.tla`

`NewWait` is the callback for an access: `Record` into the ring, `Compare` with the
emulated Z80, which runs a whole instruction ahead of the accesses (`Execute`,
`emu.steps`, `emu.pos`). `Granted` is the callback of the priming request, `ResetEnd`
that of the RESET; `GetTraceBin` and `GetTraceLong` the host's reads with their release;
`Start`, `Stop`, `ResetTarget` its other commands. `traces` keeps of each entry its
number. The Z80 runs a constant program of accesses; of the bus access layer this has
waits, holds and grants, with a RESET asked for in one that is driven before the release
or, when the machine's IRQ is ahead of it (`SignalBeforeRelease`), some time after. What
others do to the target while it is traced is there as well: `Interrupt` has the Z80 take
the IRQ that the machine raises 50 times a second (its response is the instruction
`IntEntry` of the program; the routine is the code that comes next), and `BlockWrite` is a
grant of another client that writes to the memory and may ask for a RESET.

* `TraceWhole`: what was read and what is in the ring are the accesses that the tracer was
  told of, without a gap, and those are all the Z80 has made with the waits on since the
  trace began (`made`), until `getTrace` lets go of one that the Pi has not seen yet
  (`missed`, `StepTracer.cpp:612`). The ring has to take those that come after the hold was
  asked for: a hold ends no access to a port and no acknowledgement of an interrupt, and
  the release for one access lets the Z80 into the next. The theorem needs four spare
  entries (`MIN_SPACES_IN_TRACES`, 50 in the code, `StepTracer.h:160`).
* `SoundTarget`: errors are reported only of a target that deserves it, as long as it is
  left alone. The exceptions: an access that `getTrace` released unseen (`missed`); a RESET
  in the middle of an instruction whose writes the emulated Z80 has done (`torn`); and,
  since the RESET that began the trace, an interrupt, of which the emulated Z80 is never
  told, a write of another client, or a RESET that came late (`disturbed`). So on a machine
  that interrupts the Z80 by itself, the ZX Spectrum, the comparison is of use for the time
  up to the first interrupt only (section 12).
* `HeldIsReleased`: a Z80 held for want of room goes on if the host reads.

Abstractions: `MaxCalls` accesses per trace; instructions that do not touch a memory cell
again once they have written it, and one port at most. Not in the program are reads of
ports, for which the tracer expects a constant and reports errors of sound hardware, and
writes of registers that RESET leaves unset (`z80.c:862-877`): what the program writes is
the same after every RESET. The host stops the tracer
before it starts it again, as the scripts do (`hwDebugTraceAll.py:14`): started twice
around a hold and a RESET the Z80 may stay held.

## 10. Runs

| Run | Module, cfg | Instance | What it shows |
|---|---|---|---|
| `bus_tracing` | `MCBusAccess`, `_tracing` | machine manager + step tracer, 2 signals; about 1.2 million states | `TypeOK`, `BusInv` and its consequences, `SignalBeforeRelease`, `BusRequestAnswered`, the refinement |
| `bus_tracking` | `_tracking` | target tracker + bus controller, 1 signal; 280,000 states | `HeldCycleKept`, `WaitedCycleIsSeen`, `PageInBetweenReads`, with `busAccessReset` |
| `bus_machine` | `_machine` | stay-banked card + machine manager with waits, 1 signal; 31,000 states | `RequestsSettled` |
| `uart` | `MCUartMaxi` | rings of 3, FIFOs of 2, 4 bytes each way, one change of baud rate; 530,000 states | `TypeOK`, the queue refinement, `TxNothingSkipped`, `AcceptedIsSent` |
| `uart_wire` | `_wire` | the same, 2 bytes received | a violation (section 12) |
| `file` | `MCFileTransfer` | files of 2, 3 and no blocks, 3 uploads, 2 lost frames; 279,000 states | `TypeOK`, `DeliveredWhole`, `CompletedIsDelivered`, `TransfersEnd` |
| `file_mixed` | `_mixed` | 2 uploads that may overlap, no loss | a violation (section 12) |
| `tracker` | `MCTargetTracker` | 5 instructions, prefixed, reading and writing, an interrupt routine; 2 commands and any number of switch-ons; 471,000 states | the properties of section 6 |
| `tracker_again` | `_again` | the same without `ENABLE_AFTER_STOP` | a violation (section 12) |
| `clients` | `MCClients` | memory of two cells, a table of two blocks, 3 commands; 158,000 states | the properties of section 7 |
| `hdlc` | `MCMiniHDLC` | 3 frames out of an empty one, one to be escaped and one too long; 2 faults; 212,000 states | the properties of section 8 |
| `tracer` | `MCStepTracer` | a loop of two instructions and an interrupt, 6 entries with 4 spare, 12 accesses, 4 commands, interrupts or block writes; 793,000 states | the properties of section 9 |

Bounds and why they are enough:

* Two sockets: the layer treats sockets alike but for their order, and every
  hazard listed is between one socket and another (two requests in one grant, a
  signal of one during the grant of the other, a socket called back after one that
  gave the bus away). The theorems cover any number.
* `MaxSignals` bounds the RESET, NMI and IRQ requests; two allow one signal to be
  pending while another is asserted. Bus requests are unbounded.
* Rings of three with four bytes: each position wraps at least once, the ring is
  full with two, and the FIFO may or may not take all of it. The receive ring is proved
  for every size.
* Three uploads: one that is cut, one that suffers from it and one after both. Two sizes,
  so that blocks of one file can lie outside the buffer of the other. `MaxInFlight` = 1
  makes a sender wait while two frames are on the line; frames then still arrive after a
  timeout was due.
* Two commands to the tracker: any command at any cycle of an acquisition begun by
  another. A breakpoint list of one, so that it can be full.
* Three commands to the clients: load, program and one in between (an access, a clear, a
  reset); two blocks, one joined to the other, and one too many.
* Three frames with two faults: a frame struck twice, two struck next to each other, and
  one after them. A buffer of five octets holds two with their check sequence.
* Twelve accesses fill a ring of six twice; the program has a port access next to a
  memory access, and an interrupt may come in between, which takes all of the spare room.

`CHECK_DEADLOCK FALSE` is said where the bounded environment may have nothing more to
do: after the last byte, upload, frame, access or command, or with a Z80 held by the
debugger for good, which is what a debugger is for. All bus runs check deadlock.

### Fairness

`BusAccess!FairSpec`: weak fairness of `Service` (the main loop always comes back to
it), and of the two timers (`micros()` runs). Nothing is assumed of the Z80: it may
stop in a cycle, never acknowledge, never withdraw. One strong assumption,
`SF(ServiceIdle)`: again and again `service` finds no action in progress. Bus
requests start at once in `targetReqBus`, ahead of what is already pending; clients
that asked for the bus in every turn of the loop would keep a signal waiting for
ever. They do not: the display refresh asks some tens of times a second and the
loop turns many thousand times. Even so one starvation is left by design and
excluded with it: a socket's bus request goes before its own RESET
(`getType`), so a RESET waits while bus requests of the same socket keep failing.

`UartMaxi!FairSpec`: code that has begun goes on, an interrupt that is raised is
taken, the UART sends what is in its FIFO. Nobody has to call `write` or `read`.

`FileTransfer!FairSpec`: both main loops turn (`ServiceChunk`, `ServiceTimeout`, the
Pi's actions) and time passes (`Pause`). Nothing is assumed of HTTP clients: one
that goes away is what the timeouts are for.

`TargetTracker`: the Z80 makes its cycles when it is let and the Pi's callbacks and
`service` run; strong fairness of `ResetPulse`, because the rule about resets keeps
closing and opening its window and the layer pulses a RESET in whatever idle turn
comes. No command is assumed.

`Clients`: the main loop comes round (`WF` of the layer's and the callbacks' steps,
`AccessReturns`, `PendingOff`), with strong fairness where another step may
close the window again: a Z80 asked for the bus over and over yields at some time, a
grant is taken at some time although requests before it failed, and the display is
refreshed although accesses keep the loop busy.

`MiniHDLC`: what has arrived is read. `StepTracer`: the Z80 runs, the loop goes round,
and, for `HeldIsReleased` only, the host reads the trace as long as there is one; that
is the host's part of the bargain and not the code's.

## 11. Theorems

| Theorem | States |
|---|---|
| `BusAccessProofs!TypeCorrect` | `Spec => []TypeOK`, for every number of sockets and every table `Uses` |
| `BusAccessSafety!BusInvariant` | under `ClientDiscipline`, `Spec => []BusInv` |
| `BusExclusion`, `GrantedRounds`, `LinesHaveOwners` | `[]DrivesOnlyGrantedBus`, `[]GrantRoundHasBus`, `[]SignalHasAction` and `[]BusrqHasOwner`, from `BusInv` |
| `SignalsBeforeRelease` | `SignalBeforeRelease`, with the type of the signal and the exception of earlier sockets, from `BusInv` |
| `Refinement` | `Spec => Arbiter!Spec`, from `BusInv` |
| `HeldIsKept`, `WaitsAreSeen`, `RequestsAreAnswered` | under `ClientDiscipline`, `HeldCycleKept`, `WaitedCycleIsSeen` and `BusRequestAnswered` |
| `PagedInBetweenReads` | `PageInBetweenReads`, whatever the clients do |
| `UartMaxiProofs!UartInvariant`, `UartTypes` | `[]UartInv` and `[]TypeOK`, for all sizes of the rings and the FIFO |
| `ReceiveBufferIsQueue` | `Spec => RxIsQueue`, from `UartInv` |
| `NothingSkipped` | `[]TxNothingSkipped` |
| `FileTransferProofs!FileTypes` | `Spec => []TypeOK`, for all files, losses and clients, orderly or not |
| `StreamInvariant`, `FileDeliveredWhole` | for orderly clients on any line, `[]OneLossInv` and `[]DeliveredWhole` |
| `CompletedFilesDelivered` | for orderly clients on any line, `[]CompletedIsDelivered` |
| `ClientsProofs!AccessInvariant`, `AccessHappensOnce` | `[]AccessInv` and `[]AccessOnce` |
| `MirrorIsTrue` | `[]MirrorTrue`, where the host keeps to `DEBUG_ALONE`; merged requests for the mirror come before it holds and do not break it |
| `ProgramAsOrdered` | `Programmed`, where the host keeps to `DEBUG_ALONE` and `ROOM` |
| `ClientsProofs!TypesHold` | `[]TypeOK`, whatever the host does |
| `StepTracerProofs!TracerInvariant`, `TracerTypes`, `NoAccessLost` | `[]TracerInv`, `[]TypeOK`, `[]TraceWhole`, for every program and size of the ring, interrupts included |
| `SoundTargetsPass` | `[]SoundTarget` with its exceptions, for every program and memory |
| `TargetTrackerProofs!TrackerInvariant`, `StaysInStep`, `TypesHold` | `[]TrackerInv`, `[]InStep`, `[]TypeOK`, for every program whose prefixes lead, under the rules of use |
| `RegistersAreShown`, `MemoryIsAsNeeded`, `AStepIsOne` | `[]RegistersShown`, `[]MemoryAsNeeded`, `[]StepsOne`, under the same, `ENABLE_AFTER_STOP` among them |
| `StopsAtBreakpoints` | `BreakpointStops`, where there is a fast breakpoint for every address |
| `ProgramUndisturbed` | `Spec => Transparent`, the refinement of `Z80Program` |
| `MiniHDLCProofs!TypesHold`, `OnlyFramesSent`, `FaultsCostOneFrame` | `[]TypeOK`, `[]OnlySent`, `[]OneFaultOneFrame`, for all contents, buffers, frames and faults |

The arguments:

* **Bus.** `DrivesOnlyGrantedBus` and `BusrqHasOwner` are not inductive: that
  `EndGrant` finds BUSRQ low, and that a failing request is the one that is asserted,
  depends on where the round of callbacks stands. `RoundsConsistent` supplies that:
  control is held exactly during a grant's round, in which nothing is in progress and no
  bus request is on the books, and the round of a failure or a signal belongs to the
  action still asserted. The middle part needs the client discipline: a bus request
  made there would be started by `targetReqBus`, and `controlRelease` would then raise
  its line. `ActionIsWanted` is what makes the end of an action take off a request
  that exists, and in the refinement that the line is pulled only while somebody wants
  the bus (`BusArbiter!Pull`). Each step of `Next` is one step of a proof; the frame
  lemma `QuietStep` handles the calls that only touch waits and holds.
* **Waits and requests.** The properties of steps need one more fact, `CyclesAgree`: a
  Z80 that waits stands in a cycle, and one that acknowledges stands in none. So no grant
  and no release ends a wait, and only the clients and a request that is given up are
  left. A request leaves the books in three places only, `EndGrant`, `EndFail` and the
  cancellation of one that never started; that the round of the failure told every
  socket first is `RoundsConsistent`.
* **Serial port.** A position equals the length of its ring only between two stores
  (`PosnsAgree`), so the contents as the reader sees them (`Contents`, with a position
  taken modulo the length) change in one store and not in the other. Each step is then
  a `Put`, `Get`, `Refuse`, a part of a clear, or a stutter of `ByteQueue`. The clear
  needs the last part of `PosnsAgree`: between its two stores the interrupt fills the
  room in front of the reader's old position at most. For transmission `InRing` says where
  an accepted byte waits, counted back from `_putPos`; it survives the store before the
  wrap because the slot put into is one that no byte waits in (`OneSlotEach`,
  `RoomAhead`), and the bytes on the line then are those before the ring's (`BytesSoFar`).
* **File transfer.** The counts of the ESP32 agree with each other (`Counts`). The
  frames on the line follow one another as an upload sends them (`InOrder`, `Follows`),
  the first goes on from what the Pi has (`RxExpects`), and the upload in progress goes
  on from the last (`SenderInOrder`). `OneMore` and `OneLess` extend a stream by a frame
  and take one away; the lemmas on `Frames` use the first, those on the Pi's handlers the
  second. At an end record the count then is that of the file and all of its blocks.
  After a loss that is over. A block that is lost leaves the Pi with fewer blocks than
  went before the next frame (`BehindInv`), which it stays until the counts disagree at
  the end record or the next start record sets it right. A start record must not be lost
  while the Pi receives something: `Fresh` says that it comes behind an end record or
  when the Pi receives nothing, as long as no upload is given up half received. An end
  record or a command may be lost: what follows it expects nothing (`LossStream`).
  `OneLossInv` puts these together by the number of losses.
  `CompletedFilesDelivered` adds, until the first disturbance, that the Pi takes part in
  what comes next (`PiReady`), and that the end records on the line make up for the files
  not delivered yet (`CountsUp`, which states the number of them by the partial sums,
  since a recursive count would need an induction).
* **Block access and mirror.** A pending access implies a call that waits, and its
  callback clears the flag (`AccessInv`). The mirror: while the debugger is alone nobody
  has anything pending to write, so a grant of another's request changes nothing; one that
  was begun for the tracker starts a round for the mirror, in which the card comes first,
  and from then on the card follows the Z80 (`MirrorAgrees`). The program: `OrderKept` says that
  the blocks and the image hold what the host has ordered, through the joining of blocks
  and a table that has room; the round that writes it finds it unchanged.
* **Debugger.** What the tracker takes for granted of the Z80 is an equality that nobody
  computes: its position in a snippet and the cycles left of the instruction the Z80 has
  taken from it (`GetLeaves`, `SetLeaves`, `Place`). It has to hold in the middle of a
  cycle too, so it is stated of what will be left when the cycle is over (`Left`,
  `Eating`); then the end of a cycle disturbs little, and a command in between leaves it
  alone. Around it stand what has been shown so far (`Seen`), that a prefix is known
  (`Prefix`), the paging, with the page-in that waits for the next cycle (`Paging`), and
  who may have asked for the bus (`Requests`). `Stopped` and `Stepping` carry a step from
  one stop to the next. For breakpoints `Points` adds that the list has every address once.
  In the refinement each action is one of four moves of the program (a byte taken in, a
  reset, an interrupt, registers set) or a stutter.
* **Step tracer.** `RoomLeft`: without a hold the ring is below the limit; with one it is
  two above at most, and then the Z80 stands in a memory access. At the limit it stands in
  a memory access, or in the one port access of its instruction, or goes on to a fetch or
  an acknowledgement; one above it has just acknowledged an interrupt or goes on to memory
  within an instruction. It is here that one port per instruction and
  `InterruptAssumption` are used. That no access is missing from the count (`made`) needs
  no more than the flags of the wait. Comparison: while nothing has escaped or disturbed
  it (`Comparing`), both Z80s have begun the instruction on some
  memory `m0`; the emulated one has made all of its accesses to it, the Z80 those that it
  has done (`Wrote`). Since a cell is not accessed again once it is written
  (`CellAssumption`), a read finds in the Z80's memory what was in `m0`.
* **Framing, lemmas.** What escaping does for contents of every length needs induction.
  The library's rule has an operator for a parameter, which the provers cannot
  instantiate; a set of naturals does as well (`Inductive`, from `LessIsWellFounded`). The
  recursion in `FlattenSeq` is on the length: `FlatteningUnique` shows that it determines
  its function, `FlattenIs` that it is the one of the definition, and `FlattenAppend` and
  `FlattenCons` take a sequence apart at either end. From these follow
  `EscapedAppend` and `EscapedCons`, the shape of a frame (`FrameShape`) and that no
  boundary is inside one.
* **Framing, nothing made up.** `OnlySent` says nothing of frames half received.
  `SentBefore` lays everything in one row, the frames handed over as the second octets of
  their check sequences, then the receiver's buffer, then the line (`Through`), and asks
  that those octets belong to frames sent, in their order (`Placed`). A lost octet, a
  changed one and a restart only take some of them away (`TakenBy`), and a valid frame
  has its own at its end.
* **Framing, one fault, one frame.** The frames that lie whole on the line are counted
  (`Carries`), no two of them sharing more than a boundary. Either the receiver is between
  frames as far as the count goes (`Between`), or it has the beginning of one and the rest
  comes next (`Within`, `Arriving`). `Short` then bounds the frames due by those handed
  over, those to come and the faults. Each octet of a frame keeps it arriving; the
  boundary that ends it hands it over; a fault destroys at most one frame, since a frame
  behind it begins with a boundary of its own, at which the receiver forgets what it has.

Assumptions are the ASSUMEs of the modules, which TLC evaluates for the runs'
constants, and what the theorems name: `ClientDiscipline`; `Orderly = TRUE` for the
files delivered; `"DEBUG_ALONE" \notin Lax` for the mirror, and `"ROOM" \notin Lax` too for
the program, as in the run `clients`;
`RulesKept` and `PrefixesLead` for the tracker, and `EnoughFast` for its breakpoints, as in
the run `tracker` (`MCTargetTracker` assumes `PrefixesLead` of its program). The rule
`EARLY_BREAK` matters to `OrdersTakeEffect` only. `PrefixesLead` excludes programs with an
instruction like `set 3,l` (CB DD, section 12), and with fewer slots than addresses a
breakpoint is refused (`TargetBreakpoints.cpp:115`) and missed. `SizeAssumption` of the
step tracer asks for four spare entries at least and for a ring that is longer,
`InterruptAssumption` that the response to an interrupt pushes the program counter and
takes no second one, `PortAssumption` and `CellAssumption` for what instructions keep to. Memory addresses are
naturals, and `NONE` is no byte (`TargetState`, `Clients`). `MiniHDLC` asks that contents
are sequences of octets and, by `CheckAssumption`, that none of those passes for an octet of
a check sequence, itself or inverted; its bounds are any naturals.

Only model-checked: the liveness properties, since fairness and ENABLED are beyond the
prover: `RequestsSettled` (bus), `AcceptedIsSent` (serial port), `TransfersEnd` (files),
`Delivered` (framing), `OrdersTakeEffect` (tracker), `ProgramDone` (clients) and
`HeldIsReleased` (step tracer). Every other property of a passing run is a theorem.

## 12. Findings

* **Debugging again after a stop** (`TargetTracker.cpp:720`, run `tracker_again`).
  `enable(true)` leaves `_targetStateAcqMode` as the last session left it; after a stop
  that is `POST_INJECT`, and the tracker holds at the first memory cycle it sees, in the
  middle of an instruction, and shows the registers of the earlier stop.
* **`hasPut` is not interrupt safe** (`RingBufferPosn.h:66`, run `uart_wire`). It
  shows the handler a position one past the end before it wraps it, upon which the
  handler sends stale bytes of the ring.
* **Overlapping uploads are mixed or cut** (`CommandSerial.cpp:328`, run `file_mixed`).
  An HTTP block is joined to whatever upload is in progress and begins one otherwise,
  so an HTTP upload that ran into a file system upload is delivered without its beginning.

Observed while modelling, without a run of its own:

* Bus: a RESET gives way to an older interrupt. The comment of `BusAccess.cpp:535` wants a
  reset raised in the callback asserted before BUSRQ is released, but `busActionCheck`
  (`:388`) takes the first socket that has anything pending: with an IRQ of the machine
  manager pending (50 times a second) the step tracer's RESET waits, and the Z80 runs on
  the memory as it was left. TLC shows it in the instance of `bus_tracing` when
  `NothingBefore` is taken out of `SignalBeforeRelease`. The stay-banked card writes its bank register with
  `busRqAndRelease = true` inside a grant (`HwRAMROM.cpp:593`); `blockWrite` ends with `controlRelease`, and the
  sockets behind it are called without the bus. `GrantedRounds` assumes no such call.
  The step tracer switches waits on under control (`StepTracer.cpp:289`), against the
  comment of `BusAccess_Control.cpp:108`. The 1000 T-state limit for BUSACK is tested
  before a hold extends the timers (`BusAccess.cpp:680`). `blockAccessSync` does not look
  at what `blockRead` and `blockWrite` return, and with no card enabled an access is
  answered OK.
* Serial: `canPut` reads `_getPos` twice (`RingBufferPosn.h:45`) and may refuse a byte on
  an empty ring.
* Files: a command requested with an upload that ended without its final block is sent
  after the next one (`CommandSerial.cpp:301`); the Pi compares counts of blocks only.
* Tracker: a second opcode byte that looks like a prefix (CB DD, `set 3,l`) is taken for
  one, so a step runs two instructions (`TargetTracker.cpp:620-629`). A breakpoint hit
  before the first whole instruction was seen is overwritten by the idle handler
  (`:842-870`). Setting registers in the middle of an instruction (`:191`) and switching
  on between two opcode bytes put the injected code out of step. `enable(true)` does not
  take a postponed switch-off back. Switched-off fast breakpoints keep their slots.
* Clients: a program written while the tracker is on goes to the card's mirror only
  (`HwManager.cpp:247`), and the MIRROR round of the same grant copies the unchanged memory
  over it: with `Lax = {"DEBUG_ALONE"}` in `MCClients.cfg` TLC finds `Programmed` violated.
  A request for the mirror that is merged into another's, as when the host waits for a
  memory read, carries that one's reason (`HwRAMROM.cpp:568`); the card copies only for
  MIRROR, and the tracker does not ask again. A display that is not memory mapped never repeats a failed
  programming or priming request. A block that finds the table full is dropped with a
  line in the log. A card enabled later does not learn of the mirror mode
  (`HwManager.cpp:151`). `hostSerialReadChars` moves its buffer only if the request was
  for more than there is (`McManager.cpp:495`), so what was not read is lost.
* Step tracer: `Z80INT` is never called and block writes are not copied to the emulated
  memory, so an interrupt or a write by the host while tracing has sound hardware
  reported. `_recordIsHoldingTarget` survives `stop()`; the release of `getTrace` may let
  an access pass that was not looked at (`StepTracer.cpp:612`); IN always reads the
  emulated default and is reported; a hold in a port access does not hold (`BusAccess.cpp:679`).

## 13. Not modelled

The repository's implementation lines are for the most part data and code without order:
character fonts (`Fonts/*.c`), web pages turned into arrays (`WebAutogenResources.h`), the
disassembler (`mdZ80.cpp`) and the emulated Z80 (`libz80`), which are tables or third-party
code. They make up about half of it, which is why the share of lines the modules map is small. Of the
rest:

* **DeZog interface**: its `handleMessage` has no caller; what it would call is modelled.
* **Machines, terminal emulation, display, file formats, clock generator**: data paths,
  drawing and parsing, run to their end within one call. Their bus requests go through
  the machine manager. Parsers are induction over their input and better tested.
* **ESP32 machine interface and remote debug**: calls of the web server's task that
  overlap with the loop, with library code in between (`MachineInterface.cpp:531-557`). A
  command waits for any answer frame, so a late answer ends the next wait; all telnet
  sessions feed one decoder. The next candidates.
* **ESP32 services** (WiFi, web, MQTT, OTA, log, scheduler): thin layers on vendor
  libraries, which would have to be invented.
* **Raw bus control** by the host, the V1.7 board's suspended cycle, the choice of
  machines and their options, the host serial buffer, the key ring, auto-baud.
