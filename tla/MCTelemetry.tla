---------------------------- MODULE MCTelemetry ----------------------------
(* What the runs of Telemetry sample: fc.state first, then another one.    *)
EXTENDS Telemetry

OnlyState == <<State>>
Other == <<2>>
NoVars == <<>>
=============================================================================
