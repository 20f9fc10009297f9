# TLA+ verification of pico-flight

pico-flight is the firmware of a quadcopter flight controller for the RP2040, a
microcontroller with two Cortex-M0+ cores. It has no operating system and no
locks: two cores, their interrupts, DMA channels and a ground station share
plain variables. These modules model the parts where that matters, TLC checks
them on small instances, and TLAPS proves the central ones for every instance.
Paths below are relative to `src/firmware/src/lib/`.

## 1. Inventory

| Component | State | Operations | Talks to |
|---|---|---|---|
| RC receive ring: `io/io_rc/src/io_rc.c`, `io_rc_dma.c` | `s.rx` (256 bytes, `read`, `write`, u8 `length`), a one-byte DMA channel | `dma_complete_handler` (core 0 interrupt), `io_rc_rx_buffer_read` | UART before it, frame parser after it |
| RC frame parser and SRXL2 slave: `io/io_rc/src/io_rc_srxl2.c`, `io/protocols/srxl2/spm_srxl.c` | partial packet, bus state, device id | `io_rc_protocol_update`, `srxlParsePacket`, `srxlRun`, `userProvidedReceivedChannelData` | stores `tdv_rc_*`, which the other core reads |
| Flight controller: `flight/src/flight_controller.c` | `tdv_fc_state`, `tdv_fc_armed`, outputs, PID terms | `flightControlUpdate` (core 1 interrupt), `flightPrintTask` (core 0, loop and timer) | RC variables, gyro callback, motor output, telemetry |
| Attitude controller: `flight/src/flight_attitude.c` | PID terms, previous set point and process value | `flightAttitudeUpdate` | called by an armed update |
| Gyro driver: `devices/gyro/src/gyro_spi_mpu9250.c` | sample, calibration state, sample count, callback | data-ready interrupt, DMA interrupt, `gyroUpdateState`, `gyroInit` | calls the flight controller |
| Motor mixer and output: `motor/mixer`, `motor/output`, `ports/rp2040/motor/output` | outputs, DShot bit planes, a DMA channel | `motorMixerCalculateOutputs`, `motorOutputSet` | called by every control update |
| Telemetry transport: `core/telemetry/common`, `ports/rp2040/telemetry` | variable table, `valueMods` and its count, next description, receive parser, a DMA channel | `telemetry_sample_var`, `telemetry_send`, `telemetry_recv` | every variable; the ground station writes them |
| Timers and entry: `flightCore0`, `flightCore1`, `flightInit`, `pico-flight.c` | counters | start-up order, main loops | all of the above |
| Not part of the flying build | | camera, OSD, web server, USB network, lwIP, fixed-point mixer, desktop tools | commented out, vendored, or on the host |

What makes them hard:

* **Interrupt against thread on one core**: `--s.rx.length` against the DMA
  interrupt; `gyroInit` against the gyro interrupts it has just enabled;
  `flightPrintTask` against itself, called from a timer.
* **Core against core**: the RC frame is stored channel by channel under a
  control update; core 1 samples `fc.state` into core 0's telemetry buffer; a
  ground write hits `tdv_fc_state` in the middle of its state machine.
* **DMA against code**: a sensor read restarted before its completion is
  served; a telemetry buffer or a DShot frame rewritten while it is sent.
* **Time**: u32 microseconds that wrap, a clock read before the time stamp it
  is compared with, a protocol time-out that only passes when bytes arrive.

* **Noise and overflow**: bytes lost or changed before a frame parser that trusts
  its length byte; a 32-byte FIFO that nobody reads while telemetry is sent.

What makes each component correct: the ring loses, repeats and invents no
byte; the frame parser hands on the frames that were sent and finds the next one
after noise; the bus slave speaks when it is asked and knows its master; the
control loop drives motors only when armed and by whole frames, and ends up
disarmed when told; the gyro hands over whole calibrated samples for ever; the
ESCs get the last command; telemetry stays in its memory, keeps flowing, shows
what is, and carries out what the ground station wrote.

## 2. Modules

| Module | Models |
|---|---|
| `RcRing` | the receive ring, one instruction of the reader per step |
| `RcParser` | the frame parser behind it, byte by byte, and a line that loses, changes and inserts bytes; implements `FrameReceiver` |
| `FrameReceiver` | abstract: a receiver of whole frames |
| `SrxlBus` | the SRXL2 slave: bus state machine, device and receiver tables, channels |
| `RcLink` | `RcParser` and `SrxlBus` composed, as `io_rc_protocol_update` does |
| `Arming` | abstract: the arming protocol, one control update per step |
| `FlightController` | the control loop and the frame store of the other core, one shared access per step; implements `Arming` |
| `Gyro` | sensor, DMA, both interrupts, the initialising thread |
| `MotorOutput` | DShot packets, bit planes and the DMA channel that sends them |
| `Telemetry` | sampling, framing, describing and sending by two contexts of core 0 and by core 1 |
| `TelemetryRecv` | the ground station's writes, the UART FIFO and `telemetry_recv` |
| `MC*` | the sets their runs range over |
| `*_proofs` | the theorems of `RcRing`, `RcParser`, `FlightController`, `Gyro`, `MotorOutput`, `Telemetry`, `TelemetryRecv`, and of `SrxlBus` with `RcLink` |

### RcRing

`buffer`, `read`, `write`, `length` are `s.rx`; `dma` and `dmaAddr` the channel
and its write address; `fifo` the bytes in the UART. `DmaComplete` is the whole
interrupt (it cannot be interrupted by the reader). The reader is one action
per instruction that matters: `Poll` is the caller's emptiness test, `CheckEmpty`
and `CheckNonEmpty` the one inside `io_rc_rx_buffer_read`, then `Load`,
`AssertLength`, and `--length` as `LoadLength` and `StoreLength`. Bytes are
numbered in order of arrival, so a stale, skipped or repeated byte shows.

The code does lose increments: an interrupt between `LoadLength` and
`StoreLength` is overwritten. The properties say exactly what that costs
(`lost` counts them): `length` falls behind by that number and as many bytes
stay in the ring unread until more arrive; order is never affected. All of
them are conditional on the ring not having *overrun*, since nothing in the
code stops the interrupt from filling it.

### RcParser, FrameReceiver, SrxlBus and RcLink

`RcParser` has one action per state of `io_rc_protocol_update`'s switch and per
outcome of it (`TakeMarker`, `TakeType`, `SkipByte`, ...). A byte carries its value,
which the parser sees, and where it came from, which stands for the crc: a packet
is `Intact` when it is all the bytes of one frame. The ring before it is one
place, because `RcRing` shows that it keeps the order of bytes; what a ring that
overran loses, the line loses here. `packet` has `Buf` bytes and nothing stops the
code from storing more: that is `overrun`, after which nothing is claimed until
the next reset.

`FrameReceiver` sees only whole frames: one is offered when it has crossed the
line undisturbed and taken, at most once, when the parser hands it on; on a line
that was never disturbed none is missed.

`SrxlBus` takes whole packets (`Receive`, the whole of `srxlParsePacket` with the
`srxlRun(0, 0)` at its end) and bytes outside frames (`RunAfterByte`, that is
`srxlRun(0, 4)`). It is the configuration this firmware builds: one bus, a flight
controller's device id, neither master code nor forward programming. `txFlags`
are never set in it, and `userProvidedSetBaud` does nothing, so neither is
state. `out` is what is sent in a step. `RcLink` conjoins the two: `Parse` is
`Accept` with `Receive`, `Skip` is `SkipByte` with `RunAfterByte`, every other step of
the parser leaves the bus alone.

### FlightController and Arming

Core 0 stores a frame (`FrameBegin`, `StoreChannel`, `StoreFailsafe`,
`StampFrame`) in the order of `userProvidedReceivedChannelData`: the default
mapping has the output switch in channel 4 and the arm switch in channel 5.
Core 1 runs an update: `UpdateBegin` reads the clock, `ReadArm` and `ReadOut`
are `flightProcessInputs`, `ReadLoss` computes the age of the frame, one `Case*`
action per case of the switch, `Commit` stores the state, `MixAndSet` calls
`motorOutputSet`. `GroundWrite` is a value of `fc.state` received by telemetry,
written from a timer interrupt at any moment. The compiler may read
`tdv_fc_state` again or keep it: `Switch` and `Commit` allow both.

`Arming` sees only the state as left by an update and whether motors are
driven. Between `Commit` and `MixAndSet` the mode is mapped to the old state:
the update's effects become visible together, when motors follow the state.
The protocol lasts until the ground station writes a state of its own
(`Override`): any state may then follow any, but a motor is still started only
by an update of an armed craft.

`quiet` counts the ticks since the last frame was stamped, up to `MaxQuiet`;
`quietAtNow` is what it was when the update read its clock, or `Raced` once a
frame is stamped between that and the comparison. `MCSignalLoss` adds one history
variable, `flew`: the last update drove the motors on a link it had found alive.

An update is *torn* when a frame was being stored at some point of it. The
code does not exclude that, so the per-frame properties are about untorn
updates; what they say is that tearing has no memory: the first whole update
acts on one whole frame.

### Gyro

The DMA moves a word at a time (`TxWord`, `RxWord`); the interrupt flag `irq`
is one bit, so completions merge. `IrqGpio`, `TestBusy`, `StartRead` are the
data-ready handler, `IrqDma`, `CountSample` and `Update*` the completion
handler. `gyroUpdateState` is run by the thread as well, at the end of
`gyroInit`, with its data-ready interrupt already enabled: its actions take the
actor as a parameter. Both interrupts have one priority, so neither preempts
the other, and of two that are pending the lower number goes first.
`MaxEarly` bounds the reads started before the callback is registered; that
registration takes a few instructions, and `Samples + 1` reads take seconds.

### MotorOutput

`SetEnabled` and `SetDisabled` build the packets of one call, `Clear` and `Write` are
`dshot_update_bitplanes` one byte at a time, `SetAddress` and `Trigger` the two
register writes at the end. The channel (`Send`, `SendLast`) takes a plane per step
and goes on behind the planes when its address was moved under it. An ESC
accepts a word whose checksum fits. The code never asks whether the channel is
still sending. A frame is `overlapped` when its planes or its address were
written during a transfer: it is then a mixture of two frames, which the ESC
usually refuses, and of which the four bits of checksum accept some by chance.
So the properties are about frames that no call disturbed and about what
the ESCs hold in the end. Two facts about the hardware are assumed: a trigger of
a busy channel is ignored, and the PIO's FIFO only delays what is sent. `NoSpecialCommand`
is about scalars that keep min and max in the range of a throttle (`SaneScalars`):
with a configured minimum below 1.0 the clamp itself would let a command through.

### Telemetry

`pos[a]` is where each actor is: `at` in `flightPrintTask` and
`telemetry_send`, `step` inside `telemetry_sample_var`. `main` and `timer` run
the same code on core 0 (main is stopped while the timer runs), `ctl` is core 1
sampling `fc.state`. `mods` is the memory of `valueMods`, with the packet before
it and the ones behind its nominal end. The DMA reads it packet by packet while
it may be written. Descriptions are put behind the framed packets, in places
that core 1 may claim. Of a busy channel the model assumes what `MotorOutput`
does: the new address is taken at once, the trigger is ignored, and the running
transfer goes on from the first packet with the count it had left.

### TelemetryRecv

The ground station sends frames (`Write`, `ByteArrives`); a byte that finds the
FIFO full is lost. `flightPrintTask` returns while a transfer goes on, and reads
only after it has sent: `SendPass`, then `ReadByte` until the FIFO is empty, then
`PassDone`, and nothing until the channel has `Sent`. The recursive call of
`telemetry_recv` in `RECV_RESET` is part of the action that takes the byte. The
checksum is the code's own exclusive or over concrete bytes, because which
payloads pass it is what the properties are about; an id and a value are a byte
each and `time` is three.

A pass sends about 500 bytes (13 ms) and reads at most 64, so the transfer
outlasts the update: a timer that fires during the reading finds the channel busy
and returns, and the sample that `telemetry_set_var` takes is dropped. A byte that
arrives during the reading counts as one that arrives after it. The FIFO of 32
holds less than two frames of 18 bytes, as the FIFO of 10 here holds less than
two frames of 10: bytes really are lost. Descriptions that are received are
ignored (`tdv_telemetry_auto_register` is off), and so is the echo of bytes
outside frames.

## 3. Runs

| Run | Instance | Shows |
|---|---|---|
| `RcRing` | ring of 4, FIFO of 2, 9 bytes: more than two rings, overruns reached | types, order, no phantom byte, no failed assertion, exact accounting of lost increments, drains all but those |
| `RcLink` | frames of 5 and 7 bytes, buffer of 7, one fault or restart, four frames of one master | types, `FrameReceiver`, overruns only by noise, the parser finds the frames again, the master is known in the end |
| `SrxlBus` | five devices, 14 packets in every order, tables of 3 devices and 2 receivers | tables agree, polls are answered, the master remembered, channels as sent, silence unless asked |
| `FlightController` | clock of 2 ticks, time-out 1, at most 2 ticks between frames, frames with at most one switch off or the failsafe flag, one ground write of `CALIBRATE_FAIL`, `FAILSAFE` or `ARMED` at any step | types, arming by whole frames, PID terms cleared, silence reported, why a live link is reported lost, motors only by whole frames, `Arming`, failsafe stops the motors, arming succeeds, releasing the switch disarms, from every state |
| `SignalLossLeavesArmed` | clock of 4, time-out 2, armed frames | **violated**: a craft that flew on a live link stays armed when its last frame is older than the time-out |
| `Gyro` | 3 samples, 2 axes, 3 early reads | whole samples, callback set in time, what early reads cost the calibration, the pipeline never stalls |
| `CalibrationSums` | the same | **violated**: with no early read, one sample fewer is summed than is averaged over |
| `MotorOutput` | 2 motors, words of 4 bits, outputs below min and above max | undisturbed frames carry their command, no special command, the last command stays |
| `TelemetryCores` | main and core 1, 3 packets, 2 variables, 2 changes of state | memory bound, the ground ends up showing the state, every variable described |
| `TelemetryTimer` | main preempted by the timer, 3 packets | when memory before the buffer is written or a transfer sent back to its start, packets keep flowing |
| `TelemetryRecv` | 3 writes of 2 variables, FIFO of 10, 2 lost bytes, one save request | writes carried out as sent, one loss writes nothing new, the parser recovers |
| `StreamsOwnValue` | main and core 1, one change | **violated**: packets that name one variable and carry another's value |

Why the bounds are enough. The ring's arithmetic is modular in `Size`, so a
ring of 4 has every relative position of its indices, and the theorems cover
the rest. In `RcLink` one frame has a marker and what passes for a length in its
payload, and a junk byte can be a marker or a length: every way to lose the
boundary is there, and one fault is what resynchronisation is about. `Limit` is 2
for the 13 calls of `srxlRun(0, 4)` that make 50 ms: the count is only compared with
it. `SrxlBus` has more devices and more receivers than its tables take. A
clock of 2 with a time-out of 1 and silences of up to 2 ticks has fresh, expired and
wrapped ages. Tearing
needs a frame between two reads of one update, and all interleavings of a frame
and an update are there; a second frame can begin in the same update. One
ground write is enough because the per-frame properties concern one update at
a time and the liveness property what follows the last one. Two axes make a
torn sample visible, 3 samples make the first, a middle and the last step of
calibration. Two motors make a bit plane that is shared. A telemetry buffer of
3 is filled by one batch (two samples and the description's) plus core 1's
sample; real batches are 31 of 64 packets, and two nested ones also just fit.
Two lost bytes in `TelemetryRecv` are one more than the checksum is good for.

`CHECK_DEADLOCK FALSE` is given only for the ring: its reader stops at a failed
assertion, and the line stops after `MaxBytes`.

### Fairness

* The main loops never block and the interrupt and DMA hardware serve what is
  pending: weak fairness of the reader, of the parser, of a started frame store,
  of an update, of a started `motorOutputSet`, of each handler, of each channel.
* A sender finishes the frame it has begun: weak fairness of `Send` in `RcLink`,
  strong fairness of `ByteArrives` in `TelemetryRecv`. The latter is strong because
  a byte that arrives during a pass is counted after it: the line's pace is set
  by its baud rate, not by how often core 0 happens to be in an update.
* The sensor samples for ever (`DataReady`); the control loop is called for ever
  because `Gyro` says so (`KeepsControlling`), which is why `FlightController`
  may assume weak fairness of `Update`.
* Nothing is assumed of when frames are sent, of the ground station, the timer
  or the clock: they may act or not. What a liveness property needs of them is
  its premise. `Resyncs` and `LearnsMaster` of `RcLink` have one that matters: frames
  without a marker byte inside. A frame that is sent again and again and has a
  marker and a fitting length inside can catch the parser at the same place for
  ever; the run's fourth frame is one.

## 4. Proofs

`RcRing_proofs`, from `RingAssumption` only. The invariant `IInv` places every
unread byte: as long as the ring has not overrun, the slot `d` places after
`read` holds byte `Taken + d`, `length + lost` is the number of bytes written and
not released, and the reader's loaded `tmp` is at most `length` and positive.
`ReadsInOrder` alone is not inductive, since it says nothing of the bytes still
in the ring, nor of why `--length` cannot wrap. Theorems: `TypeCorrect`,
`Invariance`, `InOrder`, `LengthAccounting`. The modular arithmetic is in lemmas.

`RcParser_proofs`, for every set of frames, buffer and number of faults, from
`FrameAssumption`. `IInv` says what `packet` can look like in each state
(`Structure`: markers only, then the type, then a length that is still ahead if it
fits), that the last byte of an undisturbed frame arrives with that frame on
offer (`Tagged`), and, on a line without faults, that the packet is the frame on
the line up to the byte that was sent (`Clean`). `OverrunCause` and `Refinement`
(`ParserSpec => ImplementsReceiver`) follow: an accepted packet ends with a byte
that names the frame on offer.

`FlightController_proofs`, for every clock width, time-out, frame set and ground
write. `TypeCorrect`, `SilenceReported`, `FalseLossCause` and `DrivesByFrame` assume
nothing else. The others assume `GyroReady`: the gyro is ready when it calls, which
is the only time the loop runs. Their invariant has two parts. `EnabledInArmed` holds
for ever: only an update that found the craft armed enables the motors. `Flown` holds
until the ground station writes a state and says, for each step of an update, which
copies agree (`Deciding`, `Decided`: `cur`, `next`, `fcState` and the enable flag), what core 0
has already stored of its frame (`FrameHeld`) and what an untorn update has read of it
(`FrameRead`). `ArmsByFrame` and `PidCleared` follow from `Flown`. `Refinement` (`Spec =>
Arming!Spec`) takes both: before a ground write only `Commit`, with the mapping, and
`MixAndSet` are not stutters (`FlownStep`); after it every step is an `Override`, because
a motor is only started in ARMED (`OverrideStep`). `MotorsOnlyArmed` transfers the
abstract module's own properties. `SilenceReported` and `FalseLossCause` have an invariant of
their own that relates `quiet`, the clock and the stamp modulo the clock's width;
`DrivesByFrame` has one (`DriveInv`) that speaks of the frame and of what was read of
it, and not of the state the ground station may write.

`Gyro_proofs`, for every number of samples, axes and early reads below the
samples. `Behind` and `ThreadBehind` say why the calibration cannot end before the
callback is registered: the count is at most the reads that were served, and
those are at most `MaxEarly`. `Whole` says which words of the sample are in at each
point of a read. `Summing` (`AddedEarly` before `gyroInit` is done, `Added` after it,
`Adding` while a sample is being added) relates the count to the sum: each early read
can put it off by one, and without one it is one sample short. Theorems:
`TypeCorrect`, `Invariance`, `Registered`, `WholeSample`, `EarlyReads`.

`MotorOutput_proofs`, for every number of motors and width of the checksum.
`PlanesAsWritten` says what each bit plane holds at each step of the rewriting,
`SentAsPlanned` what the channel has sent of them, `Carried` what the ESCs hold after.
That a packet passes the checksum for every throttle is proved bit by bit. `OnlyThrottles` is
`NoSpecialCommand`: a packet is told from every other by its bits (`BitsTell`, by
induction over the width with the powers of two), so a packet that an ESC takes and that
was planned is a stop or a throttle above the special commands. Theorems: `TypeCorrect`,
`Invariance`, `UndisturbedFrames`, `OnlyThrottles`.

`Telemetry_proofs`, for every buffer and lists of variables. Nothing preempts the
timer, so while it is in `telemetry_send` nothing is being sent, and what it has
counted stays counted (`TimerUndisturbed`). The same is true of the main loop unless
`preempted` says that the timer sent from inside its `telemetry_send`
(`MainUndisturbed`). That is `Harm`, for every set of actors. `InBuffer` is about the two
cores without the timer (`TwoCores`, the case of the run `TelemetryCores`). Its
invariant `Claims` bounds the unlocked increments: only core 0 resets the count, so
core 1 cannot claim past the first packet behind the buffer. Core 0 can claim the
second one, but core 1 then has no claim under way, and the count it left shuts core 1
out. `TypeCorrect` adds what core 0 goes by: `MainLen` (what it has framed is as many
packets as it has passed, then two more at most), `MainDesc` (while it describes a
variable, that is the one `nextDesc` names) and `Memory` (what a packet can be).
Theorems: `Preempting`, `Harm`, `ClaimsBounded`, `InBuffer`, `TypeCorrect`.

`TelemetryRecv_proofs`, for every set of variables and writes, every length of `time`
and depth of the FIFO. `Written` is from `RecvAssumption` alone. It needs nothing of the
constant `ByteXor`: both sides compute the checksum in the same order, and it is
enough that `RunningCrc` goes byte by byte (`RunningCrcs`). The invariant `RecvInv` says
that there is a labelling of the bytes in the FIFO (`Queued`: of which write, which byte) that goes
from where the parser is (`Follows`) to where the line is, and what `told` and the
requests to save owe to it (`Told`, `Numbered`). `WrittenAsSent` alone speaks only of an
empty FIFO. `LossCaught` is `OneLossIsCaught`, for every set of writes in whose frames
only the first byte looks like the marker. It is also from `SizeAssumption` (what the
protocol's own constants must not be mistaken for) and `XorAssumption` (the laws of
exclusive or, which TLC evaluates for all bytes of the instance). Its invariant
`LossInv` labels the bytes with the lost one among them. Up to that byte the parser
is in step (`Whole`), with a last payload that was a write (`Kept`). Behind it (`Passed`)
it is in step again, waits for a marker (`Hunting`: marker, type or checksum lost), has
taken mod for the size (`Short`: it can carry out the last payload once more), or is one
byte short (`Shifted`). In this last case its checksum and the lost byte make up that
of the frame. So when the frame is over it holds the lost byte, and the marker that
comes in the place of the checksum does not match it (`Refusing`). Theorems: `Following`,
`Written`, `OutOfStep`, `LossCaught`.

`RcLink_proofs` is about `SrxlBus` and its composition with `RcParser`, for every set of
packets and size of the tables, from `BusAssumption` and `FrameAssumption`. `SlaveInv` says
what a slave can have to send between packets: never telemetry, and a handshake only
after a poll, and none after the poll it ignored. `Answers` and `Speaks` follow.
`MasterInv` relates the two tables: a receiver among the devices is among the receivers
unless there was no room. With it `Remembers` shows that a master which introduced
itself is known, unless one of the tables was full before: `srxlParsePacket` takes a known
or a surplus device for no receiver. `Sorted` is `SortedReceivers`, from a lemma for each
of the two ways to insert an entry. `TablesAgreed` is `TablesAgree`: the sum of priorities
is a fold, of which `SumFound` shows that it is the last of its partial sums, so that
`SumAppend` and `SumExcept` say what a new or an exchanged entry does to it. `Unpacking` is
`ChannelsAsSent`: the loop over the mask's bits takes the values in the order in which
`Packed` puts them, the one increasing enumeration of the mask (`IncreasingRanks`).
Every step of `RcLink` is a step of `RcParser`'s and one of the bus or none
(`LinkStep`), so the invariants of both hold there as well: `LinkTypes`, `LinkReceives`,
`LinkOverrun`, `LinkKeeps`, `LinkSpeaks`.

Induction over data. The library's induction theorems take a predicate as a parameter,
which the provers cannot instantiate. Where a proof needs one (a fold, the powers of
two, the checksum of a payload), it goes by `NatInd`: induction for a set of numbers,
which is a formula without such a parameter.

Model-checked only: the liveness properties, which are beyond the prover's reach. Every
invariant and every safety property of a step that a passing run checks is also a
theorem.

## 5. Findings

Three have a run; the others were met while modelling.

1. `flight_controller.c:274`: the time-out is reported and never acted on, so a
   craft that was flying stays armed when its receiver falls silent, against `flight/src/doc.md:24` and `io_rc.c:235` (run `SignalLossLeavesArmed`).
2. `telemetry-common.c:341`: samples of two cores mix in one valid packet (run
   `StreamsOwnValue`).
3. `flight_controller.c:251`: the clock is older than the stamp it is compared
   with, so a frame that arrives during an update reports the signal lost.
   `FalseLossOnlyByRacingFrame` says that nothing else does.
4. `gyro_spi_mpu9250.c:277`: one sample fewer is summed than divided by, against
   `gyro_vars.c:79` (run `CalibrationSums`).
5. `io_rc.c:66`: the assertion fails when 256 unread bytes wrap the u8 length.
6. `flight_controller.c:347`: milliseconds added to microseconds.
7. `spm_srxl.c:1059`: the 50 ms without communication are 13 skipped bytes; a
   silent line times nothing out.
8. `spm_srxl.h:411`: the handshake is sent again for each skipped byte, not
   every 50 ms.
9. `spm_srxl.c:837`: an unprompted handshake makes the device a master that has
   no code to be one, and it never speaks again.
10. `spm_srxl.c:744`: a forward-programming packet is unpacked as channels.
11. `spm_srxl.c:875`: a poll that arrives while a reply is owed is not answered.
    `AnswersAPollOfTwo` says that the next one is.
12. `io_rc_srxl2.c:108`: a doubled marker makes the packet type the length, which
    is never compared with the buffer.
13. `io_rc_srxl2.c:164`: the agreed baud rate is never set.
14. `telemetry-common.c:829`: the size is never checked; with one byte lost the
    write before is carried out again.
15. `telemetry-common.c:713`: every received write is forced, so read-only
    variables can be written.

## 6. Not modelled, and why

The attitude controller, mixer, filter and math library compute with floats,
which neither tool has; the first derivative after arming, taken against the
last flight, is therefore a listed hazard without a property. Registration
tables, SPI, PIO and DMA set-up and text forms of values are straight-line
data. Camera, OSD, web server and USB are commented out of the build's start-up;
lwIP is vendored, as is most of the repository; the tools run on the host. In
`FlightController` the first two arms of the switch's default case are left out:
they end 20 microseconds after start, before a ground write can bring the state
there. In `Gyro` a retry of the calibration is left out because `pass` is the
constant 1. In `SrxlBus` the contents of bind, VTX and telemetry payloads and
the signal statistics are left out. In `Telemetry` the xor is taken to detect every
change of a payload. Memory layout is not modelled: what a buffer that was run
over does to its neighbours, or whether the packets array of `motorOutputSet`
fits the stack.

## 7. Plan

Done: every part of the flying build that keeps state other than floats. What is
left, in order:

1. `Telemetry` and `TelemetryRecv` composed, with a timer that preempts the reading of
   a shorter transfer.
