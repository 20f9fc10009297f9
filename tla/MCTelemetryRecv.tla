-------------------------- MODULE MCTelemetryRecv --------------------------
EXTENDS TelemetryRecv, Bitwise

MCWrites == {[id |-> 1, value |-> 1], [id |-> 3, value |-> 5], [id |-> 3, value |-> 7]}
MCByteXor(a, b) == a ^^ b
=============================================================================
