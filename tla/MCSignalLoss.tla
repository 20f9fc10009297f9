---------------------------- MODULE MCSignalLoss ----------------------------
(***************************************************************************)
(* The control loop, remembering of the update before this one whether it  *)
(* flew: drove the motors on a link that it had found alive.               *)
(***************************************************************************)
EXTENDS FlightController

VARIABLE flew

ArmedFrames == {f \in Frames : f.arm /\ f.out}

FlyingInit == Init /\ flew = FALSE
FlyingNext ==
    /\ Next
    /\ flew' = IF pc1 = "mix" /\ pc1' = "idle" THEN enable /\ ~signalLost ELSE flew
FlyingSpec == FlyingInit /\ [][FlyingNext]_<<vars, flew>>

\* flight/src/doc.md, armed --> |rx==0| fail: a craft that was flying leaves
\* ARMED in the first update that finds its last frame older than the time-out.
\* The frame is whole and stamped and none is stored under the update, so this
\* is the silence of a receiver and no false loss.
SignalLossLeavesArmed ==
    /\ pc1 = "mix" /\ cur = "ARMED" /\ flew
    /\ signalLost /\ ~torn /\ quiet >= Timeout
    => fcState # "ARMED"
=============================================================================
