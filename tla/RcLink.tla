------------------------------- MODULE RcLink -------------------------------
(***************************************************************************)
(* The receiver's line, the frame parser (RcParser) and the bus slave      *)
(* (SrxlBus) together: io_rc_protocol_update calls srxlParsePacket with a  *)
(* frame it collected and srxlRun with a byte it skips.  The frames are    *)
(* those of the other devices on the bus, in any order: a master that      *)
(* polls, broadcasts and sends channels, which may start over at any time, *)
(* other receivers and slaves.                                             *)
(***************************************************************************)
EXTENDS RcParser, SrxlBus

\* A byte sequence stands for one packet: this is how it is read.
ASSUME FramesArePackets ==
    \A f \in Frames : {"bytes", "packet"} \subseteq DOMAIN f /\ f.packet \in Packets

vars == <<parserVars, busVars>>

\* Nothing is sent in a step that does not call the bus.
BusIdle ==
    /\ out' = <<>>
    /\ UNCHANGED <<state, requestID, timeout, master, pMasterRcvr, found, pTelemRcvr, values>>
    /\ UNCHANGED busHistory

\* io_rc_protocol_init
Init == ParserInit /\ BusInit

Begin(f) == StartFrame(f) /\ BusIdle
Noise == Disturb /\ BusIdle
Send == SendByte /\ BusIdle
Collect == Quiet /\ BusIdle
Skip == SkipByte /\ RunAfterByte
Parse(f) == Accept(f) /\ Receive(f.packet)

Restart == ParserRestart /\ BusRestart

Next ==
    \/ \E f \in Frames : Begin(f) \/ Parse(f)
    \/ Send \/ Noise \/ Collect \/ Skip \/ Restart

\* The parser is polled by the main loop; a frame that has begun is sent.
Fairness == WF_vars(Collect \/ Skip \/ \E f \in Frames : Parse(f)) /\ WF_vars(Send)

Spec == Init /\ [][Next]_vars /\ Fairness

----------------------------------------------------------------------------
(* Properties. *)

TypeOK == ParserTypeOK /\ BusTypeOK

\* Frames that are no trap to a parser that has lost the frame boundary.
Plain(f) == \A i \in 2 .. Len(f.bytes) : f.bytes[i] # Marker

\* Whatever a disturbance left in the parser, it finds the boundary again: a
\* line on which frames without a marker inside keep coming gets one of them
\* taken, again and again, unless the buffer was run over.
Resyncs ==
    (/\ <>[](sending # NoFrame => Plain(sending))
     /\ []<>(sending # NoFrame))
        => []<>(offered = NoFrame \/ overrun)

\* A master that keeps broadcasting its handshake, as it does when it finds
\* that it is not known, is known for good in the end: neither noise nor a
\* restart, nor the time-out that noise runs down, keeps us from it.
Broadcasting ==
    /\ sending # NoFrame
    /\ sending.packet.type = "handshake" /\ sending.packet.dest = Broadcast
LearnsMaster ==
    (/\ <>[](sending # NoFrame => Plain(sending))
     /\ []<>Broadcasting)
        => <>[](pMasterRcvr # 0 \/ overrun)
=============================================================================
