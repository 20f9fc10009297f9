----------------------------- MODULE MCSrxlBus -----------------------------
(***************************************************************************)
(* The devices of the run: a base receiver (33) and a flight controller    *)
(* (48) that can be master, a second receiver (34), a slave (64), and an   *)
(* id of no known type (8), which is never entered in the tables.          *)
(* Three receivers are more than the table of two takes.                   *)
(***************************************************************************)
EXTENDS SrxlBus

Shake(src, dest, priority, info) ==
    [type |-> "handshake", src |-> src, dest |-> dest, priority |-> priority, info |-> info]
Control(cmd, reply, channels) ==
    [type |-> "control", cmd |-> cmd, reply |-> reply,
     mask |-> DOMAIN channels, channels |-> channels, values |-> Packed(channels)]

MCPackets ==
    {Shake(33, 49, 1, {"telemetry"}), Shake(33, 255, 3, {"telemetry"}), Shake(33, 64, 1, {"telemetry"}),
     Shake(48, 255, 1, {}), Shake(34, 33, 2, {"fullRange"}), Shake(64, 0, 1, {}),
     Shake(8, 33, 1, {}),
     Control("channels", 0, [c \in {3} |-> 7]), Control("failsafe", 0, [c \in {1, 2} |-> 0]),
     Control("channels", 49, [c \in {1, 3} |-> c]),
     [type |-> "control", cmd |-> "vtx", reply |-> 49],
     [type |-> "telemetry", dest |-> 33], [type |-> "telemetry", dest |-> 255],
     [type |-> "bind", request |-> "boundData", id |-> 34, telemetry |-> TRUE]}
MCChannels == {1, 2, 3}
============================================================================
