----------------------------- MODULE MCRcLink ------------------------------
(***************************************************************************)
(* A base receiver (33) as master.  The bytes after a header are a payload *)
(* that tells the frames apart, and the crc.  The type 6 would do for a    *)
(* length, as 0x21 does in the real protocol (of 80), the 8 would not.     *)
(***************************************************************************)
EXTENDS RcLink

Shake(dest, payload) ==
    [bytes |-> <<10, 6, 5, payload, 9>>,
     packet |-> [type |-> "handshake", src |-> 33, dest |-> dest, priority |-> 1,
                 info |-> {"telemetry"}]]
Control(reply, channels, bytes) ==
    [bytes |-> bytes,
     packet |-> [type |-> "control", cmd |-> "channels", reply |-> reply,
                 mask |-> DOMAIN channels, channels |-> channels, values |-> Packed(channels)]]

\* The payload of the last one has a marker in it, and what passes for the
\* length of a frame: a parser that starts at it may start there for ever.
MCFrames ==
    {Shake(49, 1), Shake(255, 2),
     Control(49, [c \in {1} |-> 5], <<10, 8, 5, 5, 9>>),
     Control(0, [c \in {2} |-> 7], <<10, 8, 7, 10, 4, 7, 9>>)}
MCPackets == {f.packet : f \in MCFrames}
MCChannels == {1, 2}
MCNoFrame == [bytes |-> <<>>]
============================================================================
