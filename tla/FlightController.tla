-------------------------- MODULE FlightController --------------------------
(***************************************************************************)
(* The control loop of lib/flight/src/flight_controller.c and the RC frame *)
(* it steers by (userProvidedReceivedChannelData in io_rc_srxl2.c).        *)
(*                                                                         *)
(* flightControlUpdate runs on core 1, in the interrupt that ends a gyro   *)
(* read; the RC frame is stored by core 0, variable by variable, with no   *)
(* lock.  Each step below reads or writes one variable the cores share.    *)
(* Core 0 also applies what the ground station sends: processDataFrame may *)
(* write tdv_fc_state, from a timer interrupt, thus at any step.           *)
(*                                                                         *)
(* Abstracted: a channel is whether it is above 1800/2000; time counts     *)
(* milliseconds; the PID terms are zero or live; what is mixed into the    *)
(* motors (throttle, attitude, the enablePID channel) is left out, only    *)
(* whether they are driven is kept.  The control loop runs                 *)
(* only when the gyro calls back, thus in GYRO_ST_READY: the other gyro    *)
(* states are seen only after a ground write.  The first two arms of the   *)
(* switch's default case are left out: they end 2 * startup_delay          *)
(* microseconds after flightInit, before any ground write is applied.      *)
(***************************************************************************)
EXTENDS Integers

CONSTANTS
    ClockMod,       \* the u32 clock wraps after this many ticks
    Timeout,        \* tdv_rc_recv_timeout, in ticks
    FrameSet,       \* the frames the receiver may send
    GyroStates,     \* what CALIBRATE may read from tdv_gyro_state
    GroundModes,    \* values the ground station may write to tdv_fc_state
    MaxGround,      \* bound of the model: ground writes in a behaviour
    MaxQuiet        \* bound of the model: ticks from one frame to the next

Modes == {"BOOT", "CALIBRATE", "CALIBRATE_FAIL", "DISARMED", "FAILSAFE", "ARMED"}

\* A frame of the receiver: the two switches the state machine reads, which
\* tdv_rc_mapping finds at tdv_rc_input[5] and [4], and the failsafe flag.
Frames == [arm : BOOLEAN, out : BOOLEAN, failsafe : BOOLEAN]

ASSUME FlightAssumption ==
    /\ Timeout \in Nat \ {0} /\ ClockMod \in Nat /\ Timeout < ClockMod
    /\ FrameSet \subseteq Frames
    /\ GyroStates \subseteq {"READY", "FAIL"} /\ GyroStates # {}
    /\ GroundModes \subseteq Modes
    /\ MaxGround \in Nat /\ MaxQuiet \in Nat

VARIABLES
    clock,                              \* (uint32_t)system_time_us()
    rcInput, failsafe, lastRecv,        \* written by core 0
    fcState, fcArmed, outputEnabled, signalLost,    \* written by core 1
    pidTerms,                           \* tdv_fc_pidf_v_*: "zero" or "live"
    spin,                               \* enabled flag of the last motorOutputSet
    pc0, frame,                         \* core 0: control, frame being stored
    pc1, now, cur, next, enable,        \* core 1: control and locals
    ground,                             \* ground writes so far
    quiet, quietAtNow, torn             \* history, see below

core0 == <<pc0, frame>>
shared == <<rcInput, failsafe, lastRecv>>
locals == <<now, cur, next, enable>>
outputs == <<fcArmed, outputEnabled, signalLost, pidTerms, spin>>
\* quiet: ticks since the last frame was stamped; quietAtNow:
\* the same when this update read its clock, Raced once a frame is stamped
\* before it has compared the two; torn: core 0 was storing a frame at some
\* point of this update.  The latter two and the locals of core 1 go back to
\* their initial value when they are dead.
history == <<quiet, quietAtNow, torn>>
vars == <<clock, shared, fcState, outputs, core0, pc1, locals, ground, history>>

Raced == -1
Pc0s == {"idle", "out", "arm", "failsafe", "stamp"}
Pc1s == {"idle", "arm", "out", "loss", "switch", "commit", "mix"}

Init ==
    /\ clock = 0
    /\ rcInput = [c \in {"arm", "out"} |-> FALSE]
    /\ failsafe = FALSE /\ lastRecv = 0
    /\ fcState = "BOOT" /\ fcArmed = FALSE /\ outputEnabled = FALSE
    /\ signalLost = FALSE /\ pidTerms = "zero" /\ spin = FALSE
    /\ pc0 = "idle" /\ frame = [arm |-> FALSE, out |-> FALSE, failsafe |-> FALSE]
    /\ pc1 = "idle" /\ now = 0 /\ cur = "BOOT" /\ next = "BOOT" /\ enable = FALSE
    /\ ground = 0
    /\ quiet = 0 /\ quietAtNow = 0 /\ torn = FALSE

----------------------------------------------------------------------------
(* Mutants: forms a plausible bug would give the definitions below.        *)

U32Unwrapped(t) == t
MayArmIgnoringFailsafe == fcArmed
DisarmedPidTermsKept == pidTerms
CalibrateToStuck(gyro) == "CALIBRATE"
FailsafeToStuck == next

----------------------------------------------------------------------------

\* A value stored in 32 bits.
U32(t) == t % ClockMod

Tick ==
    /\ quiet < MaxQuiet
    /\ clock' = U32(clock + 1)
    /\ quiet' = quiet + 1
    /\ UNCHANGED <<shared, fcState, outputs, core0, pc1, locals, ground, quietAtNow, torn>>

----------------------------------------------------------------------------
(* Core 0: userProvidedReceivedChannelData, one store per step, the        *)
(* channels in index order.                                                *)

FrameBegin ==
    /\ pc0 = "idle"
    /\ frame' \in FrameSet
    /\ pc0' = "out"
    /\ torn' = (pc1 # "idle")
    /\ UNCHANGED <<clock, shared, fcState, outputs, pc1, locals, ground, quiet, quietAtNow>>

StoreChannel(ch, after) ==
    /\ pc0 = ch
    /\ rcInput' = [rcInput EXCEPT ![ch] = frame[ch]]
    /\ pc0' = after
    /\ UNCHANGED <<clock, failsafe, lastRecv, fcState, outputs, frame, pc1, locals, ground, history>>

StoreFailsafe ==
    /\ pc0 = "failsafe"
    /\ failsafe' = frame.failsafe
    /\ pc0' = "stamp"
    /\ UNCHANGED <<clock, rcInput, lastRecv, fcState, outputs, frame, pc1, locals, ground, history>>

StampFrame ==
    /\ pc0 = "stamp"
    /\ lastRecv' = clock
    /\ pc0' = "idle"
    /\ quiet' = 0
    /\ quietAtNow' = IF pc1 \in {"arm", "out", "loss"} THEN Raced ELSE quietAtNow
    /\ UNCHANGED <<clock, rcInput, failsafe, fcState, outputs, frame, pc1, locals, ground, torn>>

\* telemetry_set_var(id of fc.state, value, force = true), from flightUpdate's
\* timer interrupt, which may hit core 0 in the middle of a frame.
GroundWrite(m) ==
    /\ ground < MaxGround
    /\ fcState' = m
    /\ ground' = ground + 1
    /\ UNCHANGED <<clock, shared, outputs, core0, pc1, locals, history>>

StoreFrame == \/ StoreChannel("out", "arm") \/ StoreChannel("arm", "failsafe")
              \/ StoreFailsafe \/ StampFrame

----------------------------------------------------------------------------
(* Core 1: flightControlUpdate. *)

\* uint64_t now = system_time_us();
UpdateBegin ==
    /\ pc1 = "idle"
    /\ now' = clock
    /\ pc1' = "arm"
    /\ quietAtNow' = quiet
    /\ torn' = (pc0 # "idle")
    /\ UNCHANGED <<clock, shared, fcState, outputs, core0, cur, next, enable, ground, quiet>>

\* flightProcessInputs: tdv_fc_armed, then tdv_motor_output_enabled.
ReadArm ==
    /\ pc1 = "arm"
    /\ fcArmed' = rcInput["arm"]
    /\ pc1' = "out"
    /\ UNCHANGED <<clock, shared, fcState, outputEnabled, signalLost, pidTerms, spin, core0, locals, ground, history>>

ReadOut ==
    /\ pc1 = "out"
    /\ outputEnabled' = rcInput["out"]
    /\ pc1' = "loss"
    /\ UNCHANGED <<clock, shared, fcState, fcArmed, signalLost, pidTerms, spin, core0, locals, ground, history>>

\* The u32 subtraction of rxloss.
Elapsed == U32(now - lastRecv)

LostStrictly == Elapsed > Timeout   \* mutants of Lost
LostEarly == Elapsed >= Timeout - 1
Lost == Elapsed >= Timeout

ReadLoss ==
    /\ pc1 = "loss"
    /\ next' = fcState
    /\ signalLost' = Lost
    /\ now' = 0
    /\ pc1' = "switch"
    /\ UNCHANGED <<clock, shared, fcState, fcArmed, outputEnabled, pidTerms, spin, core0, cur, enable, ground, history>>

\* switch (tdv_fc_state.v.u32), case `from': the compiler may reload the
\* variable or reuse the value `next' was given.
Switch(from, to) ==
    /\ pc1 = "switch" /\ from \in {next, fcState}
    /\ cur' = from /\ next' = to
    /\ pc1' = "commit"
    /\ quietAtNow' = 0
    /\ UNCHANGED <<clock, shared, fcState, outputEnabled, signalLost, spin, core0, now, ground, quiet, torn>>

\* What the cases go to.
CalibrateTo(gyro) == IF gyro = "READY" THEN "DISARMED" ELSE "CALIBRATE_FAIL"
FailsafeTo == IF ~fcArmed /\ ~failsafe THEN "DISARMED" ELSE next
MayArm == fcArmed /\ ~failsafe
DisarmedPidTerms == "zero"

CaseBoot ==
    /\ Switch("BOOT", "CALIBRATE")
    /\ UNCHANGED <<enable, fcArmed, pidTerms>>

CaseCalibrate ==
    /\ \E g \in GyroStates : Switch("CALIBRATE", CalibrateTo(g))
    /\ UNCHANGED <<enable, fcArmed, pidTerms>>

CaseArmedFailsafeStays ==       \* mutant of CaseArmedFailsafe
    /\ failsafe /\ Switch("ARMED", next)
    /\ fcArmed' = FALSE
    /\ UNCHANGED <<enable, pidTerms>>

CaseArmedFailsafe ==
    /\ failsafe /\ Switch("ARMED", "DISARMED")
    /\ fcArmed' = FALSE
    /\ UNCHANGED <<enable, pidTerms>>

CaseArmedReleasedEarlyOutput ==     \* mutant of CaseArmedReleased
    /\ ~failsafe /\ ~fcArmed /\ Switch("ARMED", "DISARMED")
    /\ enable' = outputEnabled
    /\ UNCHANGED <<fcArmed, pidTerms>>

CaseArmedReleased ==
    /\ ~failsafe /\ ~fcArmed /\ Switch("ARMED", "DISARMED")
    /\ UNCHANGED <<enable, fcArmed, pidTerms>>

DrivenAlways == TRUE        \* mutant of Driven
Driven == outputEnabled

\* The armed update: flightAttitudeUpdate accumulates the PID terms.
CaseArmedDrive ==
    /\ ~failsafe /\ fcArmed /\ Switch("ARMED", next)
    /\ enable' = Driven
    /\ pidTerms' = "live"
    /\ UNCHANGED fcArmed

CaseFailsafe ==
    /\ Switch("FAILSAFE", FailsafeTo)
    /\ UNCHANGED <<enable, fcArmed, pidTerms>>

CaseDisarmed ==
    /\ Switch("DISARMED", IF MayArm THEN "ARMED" ELSE next)
    /\ pidTerms' = DisarmedPidTerms
    /\ UNCHANGED <<enable, fcArmed>>

\* default: only CALIBRATE_FAIL gets here.
CaseDefault ==
    /\ Switch("CALIBRATE_FAIL", "DISARMED")
    /\ UNCHANGED <<enable, fcArmed, pidTerms>>

\* if (next != tdv_fc_state): the compiler may reload the variable or reuse
\* the value the switch was made on.
Commit ==
    /\ pc1 = "commit"
    /\ \E seen \in {cur, fcState} : fcState' = IF next # seen THEN next ELSE fcState
    /\ pc1' = "mix"
    /\ UNCHANGED <<clock, shared, outputs, core0, locals, ground, history>>

\* motorMixerCalculateOutputs and motorOutputSet(outputEnabled, ...).
MixAndSet ==
    /\ pc1 = "mix"
    /\ spin' = enable
    /\ pc1' = "idle"
    /\ cur' = "BOOT" /\ next' = "BOOT" /\ enable' = FALSE
    /\ torn' = FALSE
    /\ UNCHANGED <<clock, shared, fcState, fcArmed, outputEnabled, signalLost, pidTerms, core0, now, ground, quiet, quietAtNow>>

Cases == \/ CaseBoot \/ CaseCalibrate \/ CaseArmedFailsafe \/ CaseArmedReleased
         \/ CaseArmedDrive \/ CaseFailsafe \/ CaseDisarmed \/ CaseDefault

Update == \/ UpdateBegin \/ ReadArm \/ ReadOut \/ ReadLoss \/ Cases
          \/ Commit \/ MixAndSet

Next == \/ Tick \/ FrameBegin \/ StoreFrame \/ Update
        \/ \E m \in GroundModes : GroundWrite(m)

\* The gyro interrupt keeps calling the control loop, and core 0 finishes the
\* frame it stores.  Nothing obliges the receiver to send a frame.
Fairness == WF_vars(Update) /\ WF_vars(StoreFrame)

Spec == Init /\ [][Next]_vars /\ Fairness
----------------------------------------------------------------------------
(* Properties. *)

TypeOK ==
    /\ clock \in 0 .. ClockMod - 1 /\ now \in 0 .. ClockMod - 1
    /\ lastRecv \in 0 .. ClockMod - 1
    /\ rcInput \in [{"arm", "out"} -> BOOLEAN] /\ failsafe \in BOOLEAN
    /\ fcState \in Modes /\ cur \in Modes /\ next \in Modes
    /\ fcArmed \in BOOLEAN /\ outputEnabled \in BOOLEAN /\ enable \in BOOLEAN
    /\ signalLost \in BOOLEAN /\ spin \in BOOLEAN
    /\ pidTerms \in {"zero", "live"}
    /\ pc0 \in Pc0s /\ frame \in Frames /\ pc1 \in Pc1s
    /\ ground \in 0 .. MaxGround
    /\ quiet \in 0 .. MaxQuiet /\ quietAtNow \in Raced .. MaxQuiet /\ torn \in BOOLEAN

\* The loop implements the arming protocol: between tdv_fc_state's store and
\* motorOutputSet the abstract state is still the old one.  The protocol lasts
\* until the ground station writes a state of its own; no motor is started
\* outside ARMED after that either.
Abstract == INSTANCE Arming WITH mode <- IF pc1 = "mix" THEN cur ELSE fcState,
                                 overridden <- ground > 0

ImplementsArming == Abstract!Spec

\* An update during which core 0 stores nothing acts on one whole frame: as
\* long as the ground station has not written the state, it leaves the craft
\* armed only if the last frame asks for it.  A frame torn by the update before
\* cannot outlive this one.
UntornUpdateArmsByFrame ==
    ground = 0 /\ pc1 = "mix" /\ ~torn /\ fcState = "ARMED" => frame.arm /\ ~frame.failsafe

\* A craft that the ground station has not armed itself is armed with the PID
\* terms of its last flight cleared.
ArmsWithPidCleared ==
    ground = 0 /\ pc1 = "mix" /\ cur # "ARMED" /\ next = "ARMED" => pidTerms = "zero"

\* An update that begins after Timeout ticks of silence, and before the u32
\* clock hides them, reports the signal lost unless a frame arrives during it.
SilenceIsReported ==
    pc1 = "switch" /\ quietAtNow \in Timeout .. ClockMod - 1 => signalLost

\* When the receiver stays in failsafe the craft ends up disarmed, motors off,
\* also when the ground station has armed it.
FailsafeStopsMotors == <>[]failsafe => <>[](~spin /\ fcState # "ARMED")

\* When the pilot holds the arm switch on a good link the craft ends up armed,
\* unless the ground station has put it elsewhere.
ArmsWhenAsked ==
    <>[](rcInput["arm"] /\ ~failsafe /\ ground = 0) => <>[](fcState = "ARMED")

\* Whatever state the ground station writes at whatever moment, an update that
\* no frame tears drives the motors only if the last whole frame asks for it.
UntornUpdateDrivesByFrame ==
    pc1 = "mix" /\ ~torn /\ enable => frame.arm /\ frame.out /\ ~frame.failsafe

\* Whatever state the ground station wrote, releasing the arm switch on a good
\* link disarms the craft for good.
DisarmsWhenReleased ==
    <>[](~rcInput["arm"] /\ ~failsafe) => <>[](fcState = "DISARMED" /\ ~spin)

\* A live link is reported lost only if its frame was stamped while the update
\* ran, behind the clock it had read: the age then starts over below zero.
FalseLossOnlyByRacingFrame ==
    pc1 = "switch" /\ signalLost => quietAtNow = Raced \/ quietAtNow >= Timeout
=============================================================================
