----------------------- MODULE FlightController_proofs -----------------------
(***************************************************************************)
(* Theorems about FlightController, for every clock, timeout, set of       *)
(* frames and ground write: the variables keep their types, and, if the    *)
(* gyro is ready (it always is when it calls the control loop), the loop   *)
(* implements Arming; until the ground station writes a state it arms with *)
(* cleared PID terms and only on a frame that asks for it.                 *)
(***************************************************************************)
EXTENDS FlightController, TLAPS

\* The strengthening of the properties: what is known between the steps of an
\* update.  Whatever the frames do, core 1 alone writes these variables.

\* An update that found `from' and goes on to `to', and what it has decided.
Outcome ==
    \/ cur = "BOOT" /\ next = "CALIBRATE" /\ enable = FALSE
    \/ cur = "CALIBRATE" /\ next = "DISARMED" /\ enable = FALSE
    \/ cur = "ARMED" /\ next = "DISARMED" /\ enable = FALSE
    \/ cur = "ARMED" /\ next = "ARMED"
    \/ /\ cur = "DISARMED" /\ next \in {"DISARMED", "ARMED"} /\ enable = FALSE
       /\ pidTerms = "zero"

\* Until the switch nothing is decided; the motors run only in ARMED.
Deciding ==
    /\ pc1 \in {"idle", "arm", "out", "loss", "switch"} =>
        enable = FALSE /\ (spin = FALSE \/ fcState = "ARMED")
    /\ pc1 = "switch" => next = fcState

\* From the switch on, the outcome stands and is then stored.
Decided ==
    /\ pc1 \in {"commit", "mix"} => Outcome /\ (spin = FALSE \/ cur = "ARMED")
    /\ pc1 = "commit" => cur = fcState
    /\ pc1 = "mix" => next = fcState

\* Between two frames the variables hold the last frame, and an update that is
\* not torn runs between two frames.
FrameHeld ==
    /\ pc0 = "idle" =>
        /\ rcInput["arm"] = frame.arm
        /\ failsafe = frame.failsafe
    /\ pc0 = "failsafe" => rcInput["arm"] = frame.arm
    /\ pc0 = "stamp" => rcInput["arm"] = frame.arm /\ failsafe = frame.failsafe
    /\ pc1 # "idle" /\ torn = FALSE => pc0 = "idle"

\* What an update that is not torn has read of the frame.
FrameRead ==
    torn = FALSE =>
        /\ pc1 \in {"out", "loss", "switch"} /\ fcArmed => frame.arm
        /\ pc1 \in {"commit", "mix"} /\ next = "ARMED" => frame.arm /\ ~frame.failsafe

\* A craft whose state the ground station has not written.
Flown ==
    /\ TypeOK
    /\ fcState \in {"BOOT", "CALIBRATE", "DISARMED", "ARMED"}
    /\ Deciding /\ Decided /\ FrameHeld /\ FrameRead

\* Only an update that found the craft armed enables the motors, whoever wrote
\* the state it found.
EnabledInArmed == enable = FALSE \/ (pc1 \in {"commit", "mix"} /\ cur = "ARMED")

IInv == TypeOK /\ EnabledInArmed /\ (ground = 0 => Flown)

----------------------------------------------------------------------------
(* Types. *)

\* The u32 clock stays below its modulus.
LEMMA U32Value ==
    ASSUME NEW t \in Int
    PROVE  U32(t) \in 0 .. ClockMod - 1
  BY FlightAssumption, SMT DEF U32

\* The initial state has its types.
LEMMA InitTypes == Init => TypeOK
  <1> SUFFICES ASSUME Init PROVE TypeOK
      OBVIOUS
  <1>1. /\ clock \in 0 .. ClockMod - 1 /\ now \in 0 .. ClockMod - 1
        /\ lastRecv \in 0 .. ClockMod - 1
        /\ ground \in 0 .. MaxGround
        /\ quiet \in 0 .. MaxQuiet /\ quietAtNow \in Raced .. MaxQuiet
      BY FlightAssumption, SMT DEF Init, Raced
  <1>2. /\ rcInput \in [{"arm", "out"} -> BOOLEAN] /\ failsafe \in BOOLEAN
        /\ fcState \in Modes /\ cur \in Modes /\ next \in Modes
        /\ fcArmed \in BOOLEAN /\ outputEnabled \in BOOLEAN /\ enable \in BOOLEAN
        /\ signalLost \in BOOLEAN /\ spin \in BOOLEAN
        /\ pidTerms \in {"zero", "live"}
        /\ pc0 \in Pc0s /\ pc1 \in Pc1s /\ torn \in BOOLEAN
      BY DEF Init, Modes, Pc0s, Pc1s
  <1>3. frame \in Frames
      BY DEF Init, Frames
  <1> QED BY <1>1, <1>2, <1>3 DEF TypeOK

\* Time keeps its types.
LEMMA TickTypes == TypeOK /\ Tick => TypeOK'
  <1> SUFFICES ASSUME TypeOK, Tick PROVE TypeOK'
      OBVIOUS
  <1>1. clock' \in 0 .. ClockMod - 1
      BY U32Value, FlightAssumption DEF TypeOK, Tick
  <1>2. quiet' \in 0 .. MaxQuiet
      BY FlightAssumption, SMT DEF TypeOK, Tick
  <1> QED
      BY <1>1, <1>2 DEF TypeOK, Tick, shared, outputs, core0, locals

\* Core 0 keeps the types.
LEMMA Core0Types == TypeOK /\ (FrameBegin \/ StoreFrame) => TypeOK'
  <1> SUFFICES ASSUME TypeOK, FrameBegin \/ StoreFrame PROVE TypeOK'
      OBVIOUS
  <1> USE DEF TypeOK, Pc0s, shared, outputs, locals, core0, history
  <1>1. CASE FrameBegin
      BY <1>1, FlightAssumption DEF FrameBegin
  <1>2. ASSUME NEW ch \in {"arm", "out"}, NEW after \in {"arm", "failsafe"},
               StoreChannel(ch, after)
        PROVE  TypeOK'
    <2>1. frame[ch] \in BOOLEAN
        BY DEF Frames
    <2>2. rcInput' \in [{"arm", "out"} -> BOOLEAN]
        BY <1>2, <2>1 DEF StoreChannel
    <2> QED BY <1>2, <2>2 DEF StoreChannel
  <1>3. CASE StoreFailsafe
      BY <1>3 DEF StoreFailsafe, Frames
  <1>4. CASE StampFrame
    <2>1. quiet' \in 0 .. MaxQuiet /\ quietAtNow' \in Raced .. MaxQuiet
        BY <1>4, FlightAssumption, SMT DEF StampFrame, Raced
    <2> QED BY <1>4, <2>1 DEF StampFrame
  <1> QED BY <1>1, <1>2, <1>3, <1>4 DEF StoreFrame

\* A ground write keeps the types.
LEMMA GroundTypes ==
    ASSUME NEW m \in GroundModes, TypeOK, GroundWrite(m)
    PROVE  TypeOK'
  <1>1. ground' \in 0 .. MaxGround
      BY FlightAssumption, SMT DEF TypeOK, GroundWrite
  <1>2. fcState' \in Modes
      BY FlightAssumption DEF GroundWrite
  <1> QED
      BY <1>1, <1>2 DEF TypeOK, GroundWrite, shared, outputs, core0, locals, history

\* A case of the switch keeps the types.
LEMMA CaseTypes == TypeOK /\ Cases => TypeOK'
  <1> SUFFICES ASSUME TypeOK, Cases PROVE TypeOK'
      OBVIOUS
  <1>1. \E from \in Modes, to \in Modes : Switch(from, to)
    <2> USE DEF TypeOK, Modes
    <2>1. CASE CaseBoot BY <2>1 DEF CaseBoot
    <2>2. CASE CaseCalibrate
      <3>1. PICK g \in GyroStates : Switch("CALIBRATE", CalibrateTo(g))
          BY <2>2 DEF CaseCalibrate
      <3>2. CalibrateTo(g) \in Modes
          BY DEF CalibrateTo
      <3> QED BY <3>1, <3>2
    <2>3. CASE CaseArmedFailsafe BY <2>3 DEF CaseArmedFailsafe
    <2>4. CASE CaseArmedReleased BY <2>4 DEF CaseArmedReleased
    <2>5. CASE CaseArmedDrive BY <2>5 DEF CaseArmedDrive
    <2>6. CASE CaseFailsafe
      <3>1. FailsafeTo \in Modes BY DEF FailsafeTo
      <3> QED BY <2>6, <3>1 DEF CaseFailsafe
    <2>7. CASE CaseDisarmed
      <3>1. (IF MayArm THEN "ARMED" ELSE next) \in Modes OBVIOUS
      <3> QED BY <2>7, <3>1 DEF CaseDisarmed
    <2>8. CASE CaseDefault BY <2>8 DEF CaseDefault
    <2> QED BY <2>1, <2>2, <2>3, <2>4, <2>5, <2>6, <2>7, <2>8 DEF Cases
  <1>2. fcArmed' \in BOOLEAN /\ enable' \in BOOLEAN /\ pidTerms' \in {"zero", "live"}
      BY DEF TypeOK, Cases, CaseBoot, CaseCalibrate, CaseArmedFailsafe,
             CaseArmedReleased, CaseArmedDrive, CaseFailsafe, CaseDisarmed,
             CaseDefault, Driven, DisarmedPidTerms
  <1>3. quietAtNow' \in Raced .. MaxQuiet
      BY <1>1, FlightAssumption, SMT DEF Switch, Raced
  <1> QED
      BY <1>1, <1>2, <1>3 DEF TypeOK, Switch, Pc1s, shared, core0

\* The control loop keeps the types.
LEMMA UpdateTypes == TypeOK /\ Update => TypeOK'
  <1> SUFFICES ASSUME TypeOK, Update PROVE TypeOK'
      OBVIOUS
  <1> USE DEF TypeOK, Pc1s, shared, outputs, locals, core0, history
  <1>1. CASE UpdateBegin
    <2>1. quietAtNow' \in Raced .. MaxQuiet
        BY <1>1, FlightAssumption, SMT DEF UpdateBegin, Raced
    <2> QED BY <1>1, <2>1 DEF UpdateBegin
  <1>2. CASE ReadArm BY <1>2 DEF ReadArm
  <1>3. CASE ReadOut BY <1>3 DEF ReadOut
  <1>4. CASE ReadLoss
    <2>1. now' \in 0 .. ClockMod - 1
        BY <1>4, FlightAssumption, SMT DEF ReadLoss
    <2>2. signalLost' \in BOOLEAN
        BY <1>4 DEF ReadLoss, Lost
    <2> QED BY <1>4, <2>1, <2>2 DEF ReadLoss
  <1>5. CASE Cases BY <1>5, CaseTypes
  <1>6. CASE Commit BY <1>6 DEF Commit
  <1>7. CASE MixAndSet
    <2>1. cur' \in Modes /\ next' \in Modes
        BY <1>7 DEF MixAndSet, Modes
    <2> QED BY <1>7, <2>1 DEF MixAndSet
  <1> QED BY <1>1, <1>2, <1>3, <1>4, <1>5, <1>6, <1>7 DEF Update

\* Every step keeps the types.
LEMMA NextTypes == TypeOK /\ [Next]_vars => TypeOK'
  <1> SUFFICES ASSUME TypeOK, [Next]_vars PROVE TypeOK'
      OBVIOUS
  <1>1. CASE UNCHANGED vars
      BY <1>1 DEF TypeOK, vars, shared, outputs, core0, locals, history
  <1> QED
      BY <1>1, TickTypes, Core0Types, GroundTypes, UpdateTypes DEF Next

\* TypeOK holds for every clock, timeout, frame set and ground write.
THEOREM TypeCorrect == Spec => []TypeOK
  <1> QED BY InitTypes, NextTypes, PTL DEF Spec

----------------------------------------------------------------------------
(* The inductive invariant, for a craft whose gyro is ready: until the     *)
(* ground station writes the state, and what outlasts its writes.          *)

GyroReady == GyroStates = {"READY"}

\* At the start nothing is decided, stored or read.
LEMMA InitFlown == Init => Flown
  <1> SUFFICES ASSUME Init PROVE Flown
      OBVIOUS
  <1>1. TypeOK BY InitTypes
  <1>2. Deciding /\ Decided BY DEF Init, Deciding, Decided
  <1>3. FrameHeld /\ FrameRead BY DEF Init, FrameHeld, FrameRead
  <1> QED BY <1>1, <1>2, <1>3 DEF Flown, Init

\* Time and the frames of core 0 do not disturb what core 1 decides.
LEMMA Core0Flown == Flown /\ (Tick \/ FrameBegin \/ StoreFrame) => Flown'
  <1> SUFFICES ASSUME Flown, Tick \/ FrameBegin \/ StoreFrame PROVE Flown'
      OBVIOUS
  <1> USE DEF shared, outputs, core0, locals, history
  <1>1. TypeOK /\ TypeOK'
      BY TickTypes, Core0Types DEF Flown
  <1>2. UNCHANGED <<fcState, outputs, pc1, cur, next, enable>>
      BY DEF Tick, FrameBegin, StoreFrame, StoreChannel, StoreFailsafe, StampFrame
  <1>3. Deciding' /\ Decided'
      BY <1>2 DEF Flown, Deciding, Decided, Outcome
  <1>4. CASE Tick
      BY <1>1, <1>2, <1>3, <1>4 DEF Flown, Tick, FrameHeld, FrameRead
  <1>5. CASE FrameBegin
    <2>1. FrameHeld' /\ FrameRead'
        BY <1>1, <1>2, <1>5 DEF Flown, FrameBegin, FrameHeld, FrameRead, TypeOK
    <2> QED BY <1>1, <1>2, <1>3, <2>1 DEF Flown
  <1>6. CASE StoreFrame
    <2>1. pc0 # "idle" /\ frame' = frame /\ torn' = torn /\ pc1' = pc1
        BY <1>6 DEF StoreFrame, StoreChannel, StoreFailsafe, StampFrame
    <2>2. (pc1 # "idle" /\ torn = FALSE => pc0 = "idle")'
        BY <2>1 DEF Flown, FrameHeld
    <2>3. FrameRead'
        BY <1>1, <1>2, <2>1 DEF Flown, FrameRead, FrameHeld
    <2>4. SUFFICES FrameHeld'
        BY <1>1, <1>2, <1>3, <2>3 DEF Flown
    <2>5. CASE StoreChannel("out", "arm")
        BY <2>1, <2>2, <2>5 DEF StoreChannel, FrameHeld
    <2>6. CASE StoreChannel("arm", "failsafe")
      <3>1. rcInput'["arm"] = frame["arm"] /\ pc0' = "failsafe"
          BY <1>1, <2>6 DEF StoreChannel, TypeOK
      <3> QED BY <2>1, <2>2, <3>1 DEF FrameHeld
    <2>7. CASE StoreFailsafe
        BY <2>1, <2>2, <2>7 DEF Flown, StoreFailsafe, FrameHeld
    <2>8. CASE StampFrame
        BY <2>1, <2>2, <2>8 DEF Flown, StampFrame, FrameHeld
    <2> QED BY <1>6, <2>5, <2>6, <2>7, <2>8 DEF StoreFrame
  <1> QED BY <1>4, <1>5, <1>6

\* The steps of an update before its switch.
LEMMA ReadFlown == Flown /\ (UpdateBegin \/ ReadArm \/ ReadOut \/ ReadLoss) => Flown'
  <1> SUFFICES ASSUME Flown, UpdateBegin \/ ReadArm \/ ReadOut \/ ReadLoss PROVE Flown'
      OBVIOUS
  <1> USE DEF shared, outputs, core0, locals, history
  <1>1. TypeOK /\ TypeOK'
      BY UpdateTypes DEF Flown, Update
  <1>2. UNCHANGED <<rcInput, failsafe, fcState, pidTerms, spin, core0, enable>>
      BY DEF UpdateBegin, ReadArm, ReadOut, ReadLoss
  <1>3. Deciding' /\ Decided'
      BY <1>2 DEF Flown, Deciding, Decided, UpdateBegin, ReadArm, ReadOut, ReadLoss
  <1>4. FrameHeld'
      BY <1>1, <1>2 DEF Flown, FrameHeld, UpdateBegin, ReadArm, ReadOut, ReadLoss
  <1>5. FrameRead'
      BY <1>1, <1>2 DEF Flown, FrameHeld, FrameRead, UpdateBegin, ReadArm, ReadOut, ReadLoss
  <1> QED BY <1>1, <1>2, <1>3, <1>4, <1>5 DEF Flown

\* The switch decides: each of its cases is one outcome.
LEMMA CasesFlown ==
    ASSUME GyroReady, Flown, Cases
    PROVE  Flown'
  <1>1. TypeOK /\ TypeOK'
      BY CaseTypes DEF Flown
  <1>2. /\ UNCHANGED <<rcInput, failsafe, fcState, spin, pc0, frame, torn>>
        /\ pc1 = "switch" /\ pc1' = "commit" /\ cur' = fcState
        /\ next = fcState /\ enable = FALSE /\ (spin = FALSE \/ fcState = "ARMED")
      BY DEF Flown, Deciding, Cases, CaseBoot, CaseCalibrate, CaseArmedFailsafe,
             CaseArmedReleased, CaseArmedDrive, CaseFailsafe, CaseDisarmed,
             CaseDefault, Switch, shared, core0
  <1>3. Outcome' /\ (next' = "ARMED" => fcArmed /\ ~failsafe)
    <2> USE <1>2 DEF Outcome, Switch
    <2>1. CASE CaseBoot BY <2>1 DEF CaseBoot
    <2>2. CASE CaseCalibrate BY <2>2 DEF CaseCalibrate, CalibrateTo, GyroReady
    <2>3. CASE CaseArmedFailsafe BY <2>3 DEF CaseArmedFailsafe
    <2>4. CASE CaseArmedReleased BY <2>4 DEF CaseArmedReleased
    <2>5. CASE CaseArmedDrive BY <2>5 DEF CaseArmedDrive
    <2>6. CASE CaseFailsafe BY <2>6 DEF CaseFailsafe, Flown
    <2>7. CASE CaseDisarmed BY <2>7 DEF CaseDisarmed, MayArm, DisarmedPidTerms
    <2>8. CASE CaseDefault BY <2>8 DEF CaseDefault, Flown
    <2> QED BY <2>1, <2>2, <2>3, <2>4, <2>5, <2>6, <2>7, <2>8 DEF Cases
  <1>4. Deciding' /\ Decided'
      BY <1>2, <1>3 DEF Deciding, Decided
  <1>5. FrameHeld'
      BY <1>2 DEF Flown, FrameHeld
  <1>6. FrameRead'
      BY <1>1, <1>2, <1>3 DEF Flown, FrameHeld, FrameRead
  <1> QED BY <1>1, <1>2, <1>4, <1>5, <1>6 DEF Flown

\* The outcome is stored, whichever value the comparison reads.
LEMMA CommitFlown == Flown /\ Commit => Flown'
  <1> SUFFICES ASSUME Flown, Commit PROVE Flown'
      OBVIOUS
  <1> USE DEF shared, outputs, core0, locals, history
  <1>1. TypeOK /\ TypeOK'
      BY UpdateTypes DEF Flown, Update
  <1>2. /\ UNCHANGED <<rcInput, failsafe, pc0, frame, torn, spin, pidTerms>>
        /\ UNCHANGED <<cur, next, enable>>
        /\ pc1 = "commit" /\ pc1' = "mix" /\ Outcome /\ cur = fcState
      BY DEF Flown, Decided, Commit
  <1>3. fcState' = next
      BY <1>2 DEF Commit
  <1>4. Deciding' /\ Decided'
      BY <1>2, <1>3 DEF Flown, Deciding, Decided, Outcome
  <1>5. FrameHeld' /\ FrameRead'
      BY <1>2 DEF Flown, FrameHeld, FrameRead
  <1>6. fcState' \in {"BOOT", "CALIBRATE", "DISARMED", "ARMED"}
      BY <1>2, <1>3 DEF Outcome
  <1> QED BY <1>1, <1>4, <1>5, <1>6 DEF Flown

\* The motors are set and the update is over.
LEMMA MixFlown == Flown /\ MixAndSet => Flown'
  <1> SUFFICES ASSUME Flown, MixAndSet PROVE Flown'
      OBVIOUS
  <1> USE DEF shared, core0
  <1>1. TypeOK'
      BY UpdateTypes DEF Flown, Update
  <1>2. /\ UNCHANGED <<rcInput, failsafe, fcState, pc0, frame>>
        /\ pc1 = "mix" /\ pc1' = "idle" /\ spin' = enable /\ enable' = FALSE
        /\ Outcome /\ next = fcState
      BY DEF Flown, Decided, MixAndSet
  <1>3. Deciding' /\ Decided'
      BY <1>2 DEF Flown, TypeOK, Deciding, Decided, Outcome
  <1>4. FrameHeld' /\ FrameRead'
      BY <1>2 DEF Flown, FrameHeld, FrameRead
  <1> QED BY <1>1, <1>2, <1>3, <1>4 DEF Flown

\* Every step that is no ground write keeps it so.
LEMMA NextFlown ==
    ASSUME GyroReady, Flown, [Next]_vars, ground = 0, ground' = 0
    PROVE  Flown'
  <1>1. CASE UNCHANGED vars
      BY <1>1 DEF Flown, TypeOK, Deciding, Decided, Outcome, FrameHeld, FrameRead,
                  vars, shared, outputs, core0, locals, history
  <1>2. CASE Tick \/ FrameBegin \/ StoreFrame BY <1>2, Core0Flown
  <1>3. CASE Update BY <1>3, ReadFlown, CasesFlown, CommitFlown, MixFlown DEF Update
  <1>4. CASE \E m \in GroundModes : GroundWrite(m)
      BY <1>4, SMT DEF GroundWrite
  <1> QED BY <1>1, <1>2, <1>3, <1>4 DEF Next

\* The ground station's writes are counted, never forgotten.
LEMMA GroundCounts ==
    ASSUME TypeOK, [Next]_vars
    PROVE  /\ ground \in Nat /\ ground' \in Nat
           /\ ground' > 0 \/ (ground = 0 /\ ground' = 0)
           /\ ground' = ground \/ ~MixAndSet
  <1>1. ground \in Nat /\ ground' \in Nat
      BY NextTypes, FlightAssumption, SMT DEF TypeOK
  <1>2. ground' = ground \/ \E m \in GroundModes : GroundWrite(m)
      BY DEF Next, Tick, FrameBegin, StoreFrame, StoreChannel, StoreFailsafe,
             StampFrame, Update, UpdateBegin, ReadArm, ReadOut, ReadLoss, Cases,
             CaseBoot, CaseCalibrate, CaseArmedFailsafe, CaseArmedReleased,
             CaseArmedDrive, CaseFailsafe, CaseDisarmed, CaseDefault, Switch,
             Commit, MixAndSet, vars
  <1>3. CASE ground' = ground
      BY <1>1, <1>3, SMT
  <1>4. CASE \E m \in GroundModes : GroundWrite(m)
    <2>1. ground' = ground + 1 /\ pc1' = pc1
        BY <1>4 DEF GroundWrite
    <2> QED BY <1>1, <2>1, SMT DEF MixAndSet
  <1> QED BY <1>2, <1>3, <1>4

\* No other case of the switch enables the motors.
LEMMA NextEnabled ==
    ASSUME EnabledInArmed, [Next]_vars
    PROVE  EnabledInArmed'
  <1> USE DEF EnabledInArmed, locals
  <1>1. CASE Cases
      BY <1>1 DEF Cases, CaseBoot, CaseCalibrate, CaseArmedFailsafe, CaseArmedReleased,
                  CaseArmedDrive, CaseFailsafe, CaseDisarmed, CaseDefault, Switch
  <1>2. CASE UpdateBegin \/ ReadArm \/ ReadOut \/ ReadLoss \/ Commit \/ MixAndSet
      BY <1>2 DEF UpdateBegin, ReadArm, ReadOut, ReadLoss, Commit, MixAndSet
  <1>3. CASE UNCHANGED <<pc1, locals>>
      BY <1>3
  <1> QED
      BY <1>1, <1>2, <1>3 DEF Next, Update, Tick, FrameBegin, StoreFrame, StoreChannel,
         StoreFailsafe, StampFrame, GroundWrite, vars

\* The strengthening holds of every behaviour.
THEOREM Invariance == ASSUME GyroReady PROVE Spec => []IInv
  <1>1. Init => IInv
      BY InitFlown, InitTypes DEF Init, IInv, EnabledInArmed
  <1>2. IInv /\ [Next]_vars => IInv'
      BY NextFlown, GroundCounts, NextEnabled, NextTypes, SMT DEF IInv
  <1> QED BY <1>1, <1>2, PTL DEF Spec

\* Only a whole frame that asks for it arms the craft, until the ground station
\* writes a state of its own.
THEOREM ArmsByFrame == ASSUME GyroReady PROVE Spec => []UntornUpdateArmsByFrame
  <1>1. IInv => UntornUpdateArmsByFrame
      BY DEF IInv, Flown, TypeOK, Decided, FrameRead, UntornUpdateArmsByFrame
  <1> QED BY <1>1, Invariance, PTL

\* The craft is armed with the PID terms of its last flight cleared, until the
\* ground station writes a state of its own.
THEOREM PidCleared == ASSUME GyroReady PROVE Spec => []ArmsWithPidCleared
  <1>1. IInv => ArmsWithPidCleared
      BY DEF IInv, Flown, Decided, Outcome, ArmsWithPidCleared
  <1> QED BY <1>1, Invariance, PTL

----------------------------------------------------------------------------
(* The refinement: between two calls of motorOutputSet the loop is Arming. *)

Mode == IF pc1 = "mix" THEN cur ELSE fcState

\* The initial states map to the initial state of Arming.
LEMMA RefinesInit == Init => Abstract!Init
  <1> SUFFICES ASSUME Init PROVE Abstract!Init
      OBVIOUS
  <1>1. (ground > 0) = FALSE
      BY SMT DEF Init
  <1> QED BY <1>1 DEF Init, Abstract!Init

\* Only the last step of an update sets the motors.
LEMMA SpinStutters ==
    ASSUME [Next]_vars, ~MixAndSet
    PROVE  spin' = spin
  BY DEF Next, Tick, FrameBegin, StoreFrame, StoreChannel, StoreFailsafe, StampFrame,
         GroundWrite, Update, UpdateBegin, ReadArm, ReadOut, ReadLoss, Cases, CaseBoot,
         CaseCalibrate, CaseArmedFailsafe, CaseArmedReleased, CaseArmedDrive,
         CaseFailsafe, CaseDisarmed, CaseDefault, Switch, Commit, vars, outputs

\* Until the ground station writes it, only the last step of an update moves the
\* abstract state.
LEMMA ModeStutters ==
    ASSUME Flown, [Next]_vars, ground' = 0, ground = 0, ~MixAndSet
    PROVE  Mode' = Mode
  <1> USE DEF Mode, shared, outputs, core0, locals, history
  <1>1. CASE UNCHANGED vars BY <1>1 DEF vars
  <1>2. CASE Tick \/ FrameBegin \/ StoreFrame
      BY <1>2 DEF Tick, FrameBegin, StoreFrame, StoreChannel, StoreFailsafe, StampFrame
  <1>3. CASE UpdateBegin \/ ReadArm \/ ReadOut \/ ReadLoss
      BY <1>3 DEF UpdateBegin, ReadArm, ReadOut, ReadLoss
  <1>4. CASE Cases
      BY <1>4 DEF Cases, CaseBoot, CaseCalibrate, CaseArmedFailsafe, CaseArmedReleased,
                  CaseArmedDrive, CaseFailsafe, CaseDisarmed, CaseDefault, Switch
  <1>5. CASE Commit
      BY <1>5 DEF Commit, Flown, Decided
  <1>6. CASE \E m \in GroundModes : GroundWrite(m)
      BY <1>6, SMT DEF GroundWrite
  <1> QED BY <1>1, <1>2, <1>3, <1>4, <1>5, <1>6 DEF Next, Update

\* The last step of an update is a step of Arming, or none.
LEMMA MixStep ==
    ASSUME Flown, MixAndSet
    PROVE  \/ Abstract!Calibrate \/ Abstract!Calibrated \/ Abstract!Arm
           \/ Abstract!Drive \/ Abstract!Disarm
           \/ Mode' = Mode /\ spin' = spin
  <1>1. /\ Mode = cur /\ Mode' = next /\ spin' = enable
        /\ Outcome /\ (spin = FALSE \/ cur = "ARMED") /\ enable \in BOOLEAN
      BY DEF Flown, TypeOK, Decided, MixAndSet, Mode, core0, shared
  <1> USE <1>1 DEF Mode
  <1>2. CASE cur = "BOOT" /\ next = "CALIBRATE" /\ enable = FALSE
      BY <1>2 DEF Abstract!Calibrate
  <1>3. CASE cur = "CALIBRATE" /\ next = "DISARMED" /\ enable = FALSE
      BY <1>3 DEF Abstract!Calibrated
  <1>4. CASE cur = "ARMED" /\ next = "DISARMED" /\ enable = FALSE
      BY <1>4 DEF Abstract!Disarm
  <1>5. CASE cur = "ARMED" /\ next = "ARMED"
      BY <1>5 DEF Abstract!Drive
  <1>6. CASE cur = "DISARMED" /\ next \in {"DISARMED", "ARMED"} /\ enable = FALSE
      BY <1>6 DEF Abstract!Arm
  <1> QED BY <1>2, <1>3, <1>4, <1>5, <1>6 DEF Outcome

\* Whatever the ground station has written, a motor is started only in ARMED.
LEMMA SpinOfArmed ==
    ASSUME IInv, [Next]_vars
    PROVE  spin' \in {FALSE, spin, Mode = "ARMED"}
  <1>1. CASE MixAndSet
    <2>1. spin' = enable /\ enable \in BOOLEAN /\ pc1 = "mix"
        BY <1>1 DEF MixAndSet, IInv, TypeOK
    <2>2. enable = FALSE \/ Mode = "ARMED"
        BY <2>1 DEF IInv, EnabledInArmed, Mode
    <2> QED BY <2>1, <2>2
  <1>2. CASE ~MixAndSet
      BY <1>2, SpinStutters
  <1> QED BY <1>1, <1>2

\* Once the ground station has written the state every step overrides.
LEMMA OverrideStep ==
    ASSUME IInv, [Next]_vars, ground' > 0
    PROVE  Abstract!Override
  <1>1. Mode' \in Modes
      BY NextTypes DEF IInv, TypeOK, Mode
  <1>2. Mode' \in Abstract!Modes \union Abstract!WrittenModes
      BY <1>1 DEF Modes, Abstract!Modes, Abstract!WrittenModes
  <1> QED BY <1>2, SpinOfArmed DEF Abstract!Override, Mode

\* Until then a step is one of the protocol, or none.
LEMMA FlownStep ==
    ASSUME Flown, [Next]_vars, ground = 0, ground' = 0
    PROVE  [Abstract!Next]_(Abstract!vars)
  <1>1. (ground > 0) = FALSE /\ (ground' > 0) = FALSE
      BY SMT
  <1>2. CASE MixAndSet
      BY <1>1, <1>2, MixStep DEF Mode, Abstract!vars, Abstract!Next
  <1>3. CASE ~MixAndSet
      BY <1>1, <1>3, SpinStutters, ModeStutters DEF Mode, Abstract!vars
  <1> QED BY <1>2, <1>3

\* The control loop implements the arming protocol, for every clock, timeout,
\* set of frames and ground write.
THEOREM Refinement == ASSUME GyroReady PROVE Spec => ImplementsArming
  <1>1. IInv /\ [Next]_vars => [Abstract!Next]_(Abstract!vars)
    <2> SUFFICES ASSUME IInv, [Next]_vars PROVE [Abstract!Next]_(Abstract!vars)
        OBVIOUS
    <2>1. CASE ground' > 0
        BY <2>1, OverrideStep DEF Abstract!Next
    <2>2. CASE ground = 0 /\ ground' = 0
        BY <2>2, FlownStep DEF IInv
    <2> QED BY <2>1, <2>2, GroundCounts DEF IInv
  <1> QED
      BY <1>1, RefinesInit, Invariance, PTL DEF Spec, ImplementsArming, Abstract!Spec

\* Between two updates the motors are driven only in ARMED, until the ground
\* station writes a state; no motor is started outside ARMED, ever.
THEOREM MotorsOnlyArmed ==
    ASSUME GyroReady
    PROVE  Spec => []Abstract!SpinOnlyArmed /\ Abstract!NoSpinOnArming
  <1>1. IInv => Abstract!SpinOnlyArmed
    <2> SUFFICES ASSUME IInv, ground = 0 PROVE Abstract!SpinOnlyArmed
        BY FlightAssumption, SMT DEF Abstract!SpinOnlyArmed, IInv, TypeOK
    <2>1. Mode \in Abstract!Modes
        BY DEF IInv, Flown, Decided, Outcome, Mode, Abstract!Modes
    <2>2. spin => Mode = "ARMED"
        BY DEF IInv, Flown, TypeOK, Pc1s, Deciding, Decided, Mode
    <2> QED BY <2>1, <2>2 DEF Abstract!SpinOnlyArmed, Mode
  <1>2. IInv /\ [Next]_vars => [Mode # "ARMED" /\ ~spin => ~spin']_(Abstract!vars)
    <2> SUFFICES ASSUME IInv, [Next]_vars, Mode # "ARMED", ~spin
                 PROVE  ~spin'
        BY DEF Mode, Abstract!vars
    <2>1. spin \in BOOLEAN
        BY DEF IInv, TypeOK
    <2> QED BY <2>1, SpinOfArmed
  <1> QED
      BY <1>1, <1>2, Invariance, PTL DEF Spec, Abstract!NoSpinOnArming, Mode

----------------------------------------------------------------------------
(* The u32 clock: silence is measured right until the clock wraps over it. *)

\* The difference of two clock values, as the u32 subtraction computes it.
LEMMA U32Difference ==
    ASSUME NEW c \in 0 .. ClockMod - 1, NEW l \in 0 .. ClockMod - 1
    PROVE  U32(c - l) = IF l <= c THEN c - l ELSE c - l + ClockMod
  <1>1. ClockMod \in Nat /\ ClockMod > 0 /\ c \in Int /\ l \in Int
      BY FlightAssumption, SMT
  <1>2. CASE l <= c
      BY <1>1, <1>2, SMT DEF U32
  <1>3. CASE ~(l <= c)
    <2>1. c - l + ClockMod \in 0 .. ClockMod - 1 /\ c - l = (c - l + ClockMod) + ClockMod * (-1)
        BY <1>1, <1>3, SMT
    <2>2. (c - l) % ClockMod = c - l + ClockMod
        BY <1>1, <2>1, SMT
    <2> QED BY <1>3, <2>2, SMT DEF U32
  <1> QED BY <1>2, <1>3

\* The successor of a clock value, wrapped.
LEMMA U32Successor ==
    ASSUME NEW c \in 0 .. ClockMod - 1
    PROVE  U32(c + 1) = IF c + 1 < ClockMod THEN c + 1 ELSE 0
  BY FlightAssumption, SMT DEF U32

\* A tick adds one to the difference until it reaches the modulus.
LEMMA U32Tick ==
    ASSUME NEW c \in 0 .. ClockMod - 1, NEW l \in 0 .. ClockMod - 1,
           U32(c - l) + 1 < ClockMod
    PROVE  U32(U32(c + 1) - l) = U32(c - l) + 1
  <1>1. U32(c + 1) \in 0 .. ClockMod - 1
      BY U32Value
  <1>2. U32(U32(c + 1) - l) =
          IF l <= U32(c + 1) THEN U32(c + 1) - l ELSE U32(c + 1) - l + ClockMod
      BY <1>1, U32Difference
  <1> QED BY <1>1, <1>2, U32Difference, U32Successor, FlightAssumption, SMT

\* The silence counted by the model is the difference the code would compute.
ClockSilence == quiet < ClockMod => U32(clock - lastRecv) = quiet
NowSilence ==
    pc1 \in {"arm", "out", "loss"} /\ quietAtNow \in 0 .. ClockMod - 1 =>
        U32(now - lastRecv) = quietAtNow

SilenceInv ==
    /\ TypeOK /\ ClockSilence /\ NowSilence
    /\ SilenceIsReported /\ FalseLossOnlyByRacingFrame

\* The initial state satisfies it: nothing has been silent yet.
LEMMA InitSilence == Init => SilenceInv
  <1> SUFFICES ASSUME Init PROVE SilenceInv
      OBVIOUS
  <1>1. TypeOK BY InitTypes
  <1>2. U32(clock - lastRecv) = 0
      BY <1>1, U32Difference, SMT DEF Init, TypeOK
  <1>3. ClockSilence BY <1>2 DEF Init, ClockSilence
  <1>4. NowSilence /\ SilenceIsReported /\ FalseLossOnlyByRacingFrame
      BY DEF Init, NowSilence, SilenceIsReported, FalseLossOnlyByRacingFrame
  <1> QED BY <1>1, <1>3, <1>4 DEF SilenceInv

\* A tick makes the silence one longer.
LEMMA TickSilence == SilenceInv /\ Tick => SilenceInv'
  <1> SUFFICES ASSUME SilenceInv, Tick PROVE SilenceInv'
      OBVIOUS
  <1> USE DEF SilenceInv
  <1>1. TypeOK' BY TickTypes
  <1>2. /\ UNCHANGED <<lastRecv, now, pc1, quietAtNow, signalLost>>
        /\ clock' = U32(clock + 1)
        /\ quiet' = quiet + 1
      BY DEF Tick, shared, outputs, locals
  <1>3. ClockSilence'
    <2> SUFFICES ASSUME quiet' < ClockMod PROVE U32(clock' - lastRecv) = quiet'
        BY <1>2 DEF ClockSilence
    <2>1. quiet + 1 < ClockMod /\ quiet' = quiet + 1
        BY <1>2, FlightAssumption, SMT DEF TypeOK
    <2>2. U32(clock - lastRecv) = quiet
        BY <2>1, FlightAssumption, SMT DEF ClockSilence, TypeOK
    <2>3. U32(U32(clock + 1) - lastRecv) = U32(clock - lastRecv) + 1
        BY <2>1, <2>2, U32Tick DEF TypeOK
    <2> QED BY <1>2, <2>1, <2>2, <2>3
  <1>4. NowSilence' /\ SilenceIsReported' /\ FalseLossOnlyByRacingFrame'
      BY <1>2 DEF NowSilence, SilenceIsReported, FalseLossOnlyByRacingFrame
  <1> QED BY <1>1, <1>3, <1>4

\* A frame ends the silence, also for the update it arrives in.
LEMMA StampSilence == SilenceInv /\ StampFrame => SilenceInv'
  <1> SUFFICES ASSUME SilenceInv, StampFrame PROVE SilenceInv'
      OBVIOUS
  <1> USE DEF SilenceInv
  <1>1. TypeOK' BY Core0Types DEF StoreFrame
  <1>2. /\ UNCHANGED <<clock, pc1>> /\ lastRecv' = clock
        /\ quiet' = 0
        /\ pc1 \in {"arm", "out", "loss"} => quietAtNow' = Raced
        /\ pc1 = "switch" => quietAtNow' = quietAtNow /\ signalLost' = signalLost
      BY DEF StampFrame, outputs, locals
  <1>3. U32(clock - clock) = 0
      BY U32Difference, SMT DEF TypeOK
  <1>4. ClockSilence' BY <1>2, <1>3 DEF ClockSilence
  <1>5. NowSilence' BY <1>2, FlightAssumption, SMT DEF NowSilence, Raced
  <1>6. SilenceIsReported' BY <1>2, FlightAssumption, SMT DEF SilenceIsReported
  <1>7. FalseLossOnlyByRacingFrame' BY <1>2 DEF FalseLossOnlyByRacingFrame
  <1> QED BY <1>1, <1>4, <1>5, <1>6, <1>7

\* The update reads its clock, then compares.
LEMMA ReadSilence == SilenceInv /\ (UpdateBegin \/ ReadLoss) => SilenceInv'
  <1> SUFFICES ASSUME SilenceInv, UpdateBegin \/ ReadLoss PROVE SilenceInv'
      OBVIOUS
  <1> USE DEF SilenceInv
  <1>1. TypeOK' BY UpdateTypes DEF Update
  <1>2. UNCHANGED <<clock, lastRecv, quiet>>
      BY DEF UpdateBegin, ReadLoss, shared, history
  <1>3. ClockSilence' BY <1>2 DEF ClockSilence
  <1>4. CASE UpdateBegin
    <2>1. now' = clock /\ quietAtNow' = quiet /\ pc1' = "arm"
        BY <1>4 DEF UpdateBegin
    <2>2. NowSilence'
        BY <1>2, <2>1, FlightAssumption, SMT DEF ClockSilence, NowSilence, TypeOK
    <2>3. SilenceIsReported' /\ FalseLossOnlyByRacingFrame'
        BY <2>1 DEF SilenceIsReported, FalseLossOnlyByRacingFrame
    <2> QED BY <1>1, <1>3, <2>2, <2>3
  <1>5. CASE ReadLoss
    <2>1. /\ pc1 = "loss" /\ pc1' = "switch" /\ quietAtNow' = quietAtNow
          /\ signalLost' = (U32(now - lastRecv) >= Timeout)
        BY <1>5 DEF ReadLoss, Lost, Elapsed, history
    <2>2. ASSUME quietAtNow \in Timeout .. ClockMod - 1
          PROVE  signalLost'
      <3>1. U32(now - lastRecv) = quietAtNow
          BY <2>1, <2>2, FlightAssumption, SMT DEF NowSilence
      <3>2. U32(now - lastRecv) >= Timeout
          BY <2>2, <3>1, FlightAssumption, SMT
      <3> QED BY <2>1, <3>2, Zenon
    <2>3. SilenceIsReported' BY <2>1, <2>2 DEF SilenceIsReported
    <2>4. NowSilence' BY <2>1 DEF NowSilence
    <2>5. ASSUME signalLost', quietAtNow # Raced, ~(quietAtNow >= Timeout)
          PROVE  FALSE
      <3>1. U32(now - lastRecv) = quietAtNow
          BY <2>1, <2>5, FlightAssumption, SMT DEF NowSilence, TypeOK, Raced
      <3>2. U32(now - lastRecv) >= Timeout
          BY <2>1, <2>5, Zenon
      <3> QED BY <2>5, <3>1, <3>2
    <2>6. FalseLossOnlyByRacingFrame'
        BY <2>1, <2>5 DEF FalseLossOnlyByRacingFrame
    <2> QED BY <1>1, <1>3, <2>3, <2>4, <2>6
  <1> QED BY <1>4, <1>5

\* No other step touches the clock, the stamp or what the update knows of them.
LEMMA OtherSilence ==
    ASSUME SilenceInv, [Next]_vars, ~Tick, ~StampFrame, ~UpdateBegin, ~ReadLoss
    PROVE  SilenceInv'
  <1> USE DEF shared, outputs, core0, locals, history
  <1>1. TypeOK' BY NextTypes DEF SilenceInv
  <1>2. /\ UNCHANGED <<clock, lastRecv, quiet>>
        /\ pc1' \in {"arm", "out", "loss", "switch"} => quietAtNow' = quietAtNow
    <2>1. CASE UNCHANGED vars BY <2>1 DEF vars
    <2>2. CASE FrameBegin \/ StoreFrame
        BY <2>2 DEF FrameBegin, StoreFrame, StoreChannel, StoreFailsafe
    <2>3. CASE \E m \in GroundModes : GroundWrite(m) BY <2>3 DEF GroundWrite
    <2>4. CASE Update
        BY <2>4 DEF Update, ReadArm, ReadOut, Cases, CaseBoot, CaseCalibrate,
                    CaseArmedFailsafe, CaseArmedReleased, CaseArmedDrive, CaseFailsafe,
                    CaseDisarmed, CaseDefault, Switch, Commit, MixAndSet
    <2> QED BY <2>1, <2>2, <2>3, <2>4 DEF Next
  <1>3. /\ pc1' = "switch" => pc1 = "switch" /\ signalLost' = signalLost
        /\ pc1' \in {"arm", "out", "loss"} =>
              pc1 \in {"arm", "out", "loss"} /\ now' = now
    <2>1. CASE UNCHANGED vars BY <2>1 DEF vars
    <2>2. CASE FrameBegin \/ StoreFrame
        BY <2>2 DEF FrameBegin, StoreFrame, StoreChannel, StoreFailsafe
    <2>3. CASE \E m \in GroundModes : GroundWrite(m) BY <2>3 DEF GroundWrite
    <2>4. CASE Update
        BY <2>4 DEF Update, ReadArm, ReadOut, Cases, CaseBoot, CaseCalibrate,
                    CaseArmedFailsafe, CaseArmedReleased, CaseArmedDrive, CaseFailsafe,
                    CaseDisarmed, CaseDefault, Switch, Commit, MixAndSet
    <2> QED BY <2>1, <2>2, <2>3, <2>4 DEF Next
  <1>4. ClockSilence' BY <1>2 DEF SilenceInv, ClockSilence
  <1>5. NowSilence' BY <1>2, <1>3, SMT DEF SilenceInv, NowSilence
  <1>6. SilenceIsReported'
      BY <1>2, <1>3, FlightAssumption, SMT DEF SilenceInv, SilenceIsReported
  <1>7. FalseLossOnlyByRacingFrame'
      BY <1>2, <1>3 DEF SilenceInv, FalseLossOnlyByRacingFrame
  <1> QED BY <1>1, <1>4, <1>5, <1>6, <1>7 DEF SilenceInv

\* An update that starts after the timeout, and before the clock wraps over the
\* silence, reports it, for every clock, timeout and ground write.
THEOREM SilenceReported == Spec => []SilenceIsReported
  <1>1. SilenceInv /\ [Next]_vars => SilenceInv'
      BY TickSilence, StampSilence, ReadSilence, OtherSilence
  <1>2. SilenceInv => SilenceIsReported
      BY DEF SilenceInv
  <1> QED BY InitSilence, <1>1, <1>2, PTL DEF Spec

\* A link that is not silent is reported lost only if its frame is stamped
\* while the update runs, for every clock, timeout and ground write.
THEOREM FalseLossCause == Spec => []FalseLossOnlyByRacingFrame
  <1>1. SilenceInv /\ [Next]_vars => SilenceInv'
      BY TickSilence, StampSilence, ReadSilence, OtherSilence
  <1>2. SilenceInv => FalseLossOnlyByRacingFrame
      BY DEF SilenceInv
  <1> QED BY InitSilence, <1>1, <1>2, PTL DEF Spec

----------------------------------------------------------------------------
(* Driving, whatever the ground station and the gyro do: an update reads   *)
(* both switches and the failsafe flag between the frames, or it is torn.  *)

\* How much of the last frame the shared variables hold.
FrameStored ==
    /\ pc0 # "out" => rcInput["out"] = frame.out
    /\ pc0 \notin {"out", "arm"} => rcInput["arm"] = frame.arm
    /\ pc0 \notin {"out", "arm", "failsafe"} => failsafe = frame.failsafe

\* What an update has taken from a frame that was not stored under it.
DriveRead ==
    /\ pc1 \notin {"commit", "mix"} => enable = FALSE
    /\ pc1 # "idle" /\ torn = FALSE =>
        /\ pc0 = "idle"
        /\ pc1 # "arm" /\ pc1 \notin {"commit", "mix"} /\ fcArmed => frame.arm
        /\ pc1 \in {"loss", "switch"} /\ outputEnabled => frame.out
        /\ enable => frame.arm /\ frame.out /\ ~frame.failsafe

DriveInv == TypeOK /\ FrameStored /\ DriveRead

\* At the start nothing is stored, and nothing read of a frame.
LEMMA InitDrive == Init => DriveInv
  <1>1. Init => FrameStored
    <2>1. Init => /\ rcInput["out"] = FALSE /\ rcInput["arm"] = FALSE /\ failsafe = FALSE
                  /\ frame.out = FALSE /\ frame.arm = FALSE /\ frame.failsafe = FALSE
        BY DEF Init
    <2> QED BY <2>1, Zenon DEF FrameStored
  <1>2. Init => DriveRead
      BY DEF Init, DriveRead
  <1> QED BY <1>1, <1>2, InitTypes DEF DriveInv

\* Storing a frame tears the update that runs.
LEMMA FrameDrive == DriveInv /\ (FrameBegin \/ StoreFrame) => DriveInv'
  <1> SUFFICES ASSUME DriveInv, FrameBegin \/ StoreFrame PROVE DriveInv'
      OBVIOUS
  <1>1. TypeOK /\ TypeOK'
      BY Core0Types DEF DriveInv
  <1>2. UNCHANGED <<fcArmed, outputEnabled, pc1, enable>>
      BY DEF FrameBegin, StoreFrame, StoreChannel, StoreFailsafe, StampFrame, outputs, locals
  <1>3. CASE FrameBegin
    <2>1. /\ pc0 = "idle" /\ pc0' = "out" /\ torn' = (pc1 # "idle")
          /\ UNCHANGED <<rcInput, failsafe>>
        BY <1>3 DEF FrameBegin, shared
    <2>2. FrameStored'
        BY <2>1 DEF FrameStored
    <2>3. DriveRead'
        BY <1>2, <2>1 DEF DriveInv, DriveRead
    <2> QED BY <1>1, <2>2, <2>3 DEF DriveInv
  <1>4. CASE StoreFrame
    <2>1. pc0 # "idle" /\ UNCHANGED <<frame, torn>>
        BY <1>4 DEF StoreFrame, StoreChannel, StoreFailsafe, StampFrame, history
    <2>2. FrameStored'
      <3>1. CASE StoreChannel("out", "arm")
          BY <1>1, <3>1 DEF StoreChannel, FrameStored, TypeOK
      <3>2. CASE StoreChannel("arm", "failsafe")
          BY <1>1, <3>2 DEF StoreChannel, DriveInv, FrameStored, TypeOK
      <3>3. CASE StoreFailsafe
          BY <1>1, <3>3 DEF StoreFailsafe, DriveInv, FrameStored, TypeOK
      <3>4. CASE StampFrame
          BY <1>1, <3>4 DEF StampFrame, DriveInv, FrameStored, TypeOK
      <3> QED BY <1>4, <3>1, <3>2, <3>3, <3>4 DEF StoreFrame
    <2>3. DriveRead'
        BY <1>2, <2>1 DEF DriveInv, DriveRead
    <2> QED BY <1>1, <2>2, <2>3 DEF DriveInv
  <1> QED BY <1>3, <1>4

\* An update reads what is stored; only the armed case enables the motors.
LEMMA UpdateDrive == DriveInv /\ Update => DriveInv'
  <1> SUFFICES ASSUME DriveInv, Update PROVE DriveInv'
      OBVIOUS
  <1> USE DEF shared, outputs, core0, locals, history
  <1>1. TypeOK /\ TypeOK'
      BY UpdateTypes DEF DriveInv
  <1>2. UNCHANGED <<rcInput, failsafe, pc0, frame>>
      BY DEF Update, UpdateBegin, ReadArm, ReadOut, ReadLoss, Commit, MixAndSet, Cases,
             CaseBoot, CaseCalibrate, CaseArmedFailsafe, CaseArmedReleased, CaseArmedDrive,
             CaseFailsafe, CaseDisarmed, CaseDefault, Switch
  <1>3. FrameStored'
      BY <1>2 DEF DriveInv, FrameStored
  <1>4. FrameStored /\ DriveRead
      BY DEF DriveInv
  <1> SUFFICES DriveRead'
      BY <1>1, <1>3 DEF DriveInv
  <1>5. CASE UpdateBegin
    <2>1. /\ pc1 = "idle" /\ pc1' = "arm" /\ torn' = (pc0 # "idle")
          /\ UNCHANGED <<fcArmed, outputEnabled, enable>>
        BY <1>5 DEF UpdateBegin
    <2> QED BY <1>2, <1>4, <2>1 DEF DriveRead
  <1>6. CASE ReadArm
    <2>1. /\ pc1 = "arm" /\ pc1' = "out" /\ fcArmed' = rcInput["arm"]
          /\ UNCHANGED <<outputEnabled, enable, torn>>
        BY <1>6 DEF ReadArm
    <2>2. torn = FALSE => pc0 = "idle" /\ rcInput["arm"] = frame.arm
        BY <1>4, <2>1 DEF DriveRead, FrameStored
    <2> QED BY <1>2, <1>4, <2>1, <2>2 DEF DriveRead
  <1>7. CASE ReadOut
    <2>1. /\ pc1 = "out" /\ pc1' = "loss" /\ outputEnabled' = rcInput["out"]
          /\ UNCHANGED <<fcArmed, enable, torn>>
        BY <1>7 DEF ReadOut
    <2>2. torn = FALSE => pc0 = "idle" /\ rcInput["out"] = frame.out
        BY <1>4, <2>1 DEF DriveRead, FrameStored
    <2> QED BY <1>2, <1>4, <2>1, <2>2 DEF DriveRead
  <1>8. CASE ReadLoss
    <2>1. /\ pc1 = "loss" /\ pc1' = "switch"
          /\ UNCHANGED <<fcArmed, outputEnabled, enable, torn>>
        BY <1>8 DEF ReadLoss
    <2> QED BY <1>2, <1>4, <2>1 DEF DriveRead
  <1>9. CASE Cases
    <2>1. pc1 = "switch" /\ pc1' = "commit" /\ torn' = torn /\ enable = FALSE
        BY <1>4, <1>9 DEF DriveRead, Cases, CaseBoot, CaseCalibrate, CaseArmedFailsafe,
           CaseArmedReleased, CaseArmedDrive, CaseFailsafe, CaseDisarmed, CaseDefault, Switch
    <2>2. enable' = enable \/ (enable' = outputEnabled /\ fcArmed /\ ~failsafe)
        BY <1>9 DEF Cases, CaseBoot, CaseCalibrate, CaseArmedFailsafe, CaseArmedReleased,
           CaseArmedDrive, Driven, CaseFailsafe, CaseDisarmed, CaseDefault
    <2>3. torn = FALSE /\ enable' => frame.arm /\ frame.out /\ ~frame.failsafe
      <3>1. torn = FALSE => /\ failsafe = frame.failsafe
                            /\ fcArmed => frame.arm
                            /\ outputEnabled => frame.out
          BY <1>4, <2>1 DEF DriveRead, FrameStored
      <3> QED BY <2>1, <2>2, <3>1
    <2>4. torn = FALSE => pc0 = "idle"
        BY <1>4, <2>1 DEF DriveRead
    <2> QED BY <1>2, <2>1, <2>3, <2>4 DEF DriveRead
  <1>10. CASE Commit
    <2>1. /\ pc1 = "commit" /\ pc1' = "mix"
          /\ UNCHANGED <<fcArmed, outputEnabled, enable, torn>>
        BY <1>10 DEF Commit
    <2> QED BY <1>2, <1>4, <2>1 DEF DriveRead
  <1>11. CASE MixAndSet
    <2>1. pc1' = "idle" /\ enable' = FALSE
        BY <1>11 DEF MixAndSet
    <2> QED BY <2>1 DEF DriveRead
  <1> QED BY <1>5, <1>6, <1>7, <1>8, <1>9, <1>10, <1>11 DEF Update

\* Each action of the cores keeps what was stored and read of the frame.
LEMMA NextDrive == DriveInv /\ [Next]_vars => DriveInv'
  <1> SUFFICES ASSUME DriveInv, [Next]_vars PROVE DriveInv'
      OBVIOUS
  <1>1. TypeOK'
      BY NextTypes DEF DriveInv
  <1>2. ASSUME UNCHANGED <<rcInput, failsafe, pc0, frame, pc1, torn, fcArmed, outputEnabled, enable>>
        PROVE  DriveInv'
      BY <1>1, <1>2 DEF DriveInv, FrameStored, DriveRead
  <1>3. CASE Tick
      BY <1>2, <1>3 DEF Tick, shared, outputs, core0, locals
  <1>4. CASE \E m \in GroundModes : GroundWrite(m)
      BY <1>2, <1>4 DEF GroundWrite, shared, outputs, core0, locals, history
  <1>5. CASE UNCHANGED vars
      BY <1>2, <1>5 DEF vars, shared, outputs, core0, locals, history
  <1> QED BY <1>3, <1>4, <1>5, FrameDrive, UpdateDrive DEF Next

\* An update that no frame tears drives the motors only if the last whole
\* frame asks for it, whatever the ground station writes and when.
THEOREM DrivesByFrame == Spec => []UntornUpdateDrivesByFrame
  <1>1. DriveInv => UntornUpdateDrivesByFrame
      BY DEF DriveInv, TypeOK, DriveRead, UntornUpdateDrivesByFrame
  <1> QED BY <1>1, InitDrive, NextDrive, PTL DEF Spec
=============================================================================
