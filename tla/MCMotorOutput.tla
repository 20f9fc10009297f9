--------------------------- MODULE MCMotorOutput ---------------------------
(* For the run of MotorOutput: what the mixer may ask of two motors, below *)
(* min and above max, and what the memory behind the bit planes holds.     *)
EXTENDS MotorOutput

OneOutput == {<<0, 5>>}
OneBehind == [m \in 1 .. Motors |-> m = 1]
=============================================================================
