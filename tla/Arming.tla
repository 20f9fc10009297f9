------------------------------- MODULE Arming -------------------------------
(***************************************************************************)
(* What the flight controller promises about its motors, one control       *)
(* update at a time: the arming states of flight/src/flight_controller.c   *)
(* as seen between two calls of motorOutputSet, and whether the last call  *)
(* enabled the outputs.  FlightController implements it.                   *)
(***************************************************************************)

VARIABLES
    mode,       \* tdv_fc_state as the last finished control update left it
    spin,       \* the last motorOutputSet was called with enabled = true
    overridden  \* the ground station has written tdv_fc_state

vars == <<mode, spin, overridden>>

Modes == {"BOOT", "CALIBRATE", "DISARMED", "ARMED"}
WrittenModes == {"CALIBRATE_FAIL", "FAILSAFE"}

Init == mode = "BOOT" /\ spin = FALSE /\ overridden = FALSE

Calibrate ==
    /\ mode = "BOOT" /\ mode' = "CALIBRATE"
    /\ UNCHANGED spin

Calibrated ==
    /\ mode = "CALIBRATE" /\ mode' = "DISARMED"
    /\ UNCHANGED spin

\* The update that arms leaves the motors off.
Arm ==
    /\ mode = "DISARMED" /\ mode' = "ARMED"
    /\ UNCHANGED spin

\* An armed update drives the motors, or not, by the output switch.
Drive ==
    /\ mode = "ARMED" /\ spin' \in BOOLEAN
    /\ UNCHANGED mode

\* Disarming and stopping the motors are one update.
Disarm ==
    /\ mode = "ARMED" /\ mode' = "DISARMED"
    /\ spin' = FALSE

\* Once the ground station has written the state any state may follow any, but
\* still no motor is started except by an update of an armed craft.
Override ==
    /\ overridden'
    /\ mode' \in Modes \union WrittenModes
    /\ spin' \in {FALSE, spin, mode = "ARMED"}

Next ==
    \/ /\ Calibrate \/ Calibrated \/ Arm \/ Drive \/ Disarm
       /\ ~overridden /\ UNCHANGED overridden
    \/ Override

Spec == Init /\ [][Next]_vars

----------------------------------------------------------------------------

\* Between two updates the motors are driven only if the state is ARMED.
SpinOnlyArmed == ~overridden => mode \in Modes /\ (spin => mode = "ARMED")

\* No update both arms the craft and starts a motor, also of a written state.
NoSpinOnArming == [][mode # "ARMED" /\ ~spin => ~spin']_vars
=============================================================================
