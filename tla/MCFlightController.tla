------------------------- MODULE MCFlightController -------------------------
(***************************************************************************)
(* The frames of the run of FlightController: the armed frame and those    *)
(* that differ from it in one field.                                       *)
(***************************************************************************)
EXTENDS FlightController

OneOffFrames == {f \in Frames : \/ f.arm /\ f.out
                                \/ (f.arm \/ f.out) /\ ~f.failsafe}
=============================================================================
