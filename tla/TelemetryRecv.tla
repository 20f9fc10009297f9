--------------------------- MODULE TelemetryRecv ---------------------------
(***************************************************************************)
(* The receiving side of core/telemetry (telemetry_recv in                 *)
(* telemetry-common.c): the ground station writes variables, byte by byte  *)
(* over the UART, and flightPrintTask looks at what has arrived after it   *)
(* has sent, and only then.  While the transfer of the last pass goes on   *)
(* nothing is read, and a byte that finds the FIFO full is lost.           *)
(*                                                                         *)
(* A transfer outlasts the telemetry_update behind it (a pass sends some   *)
(* 500 bytes and reads at most what the FIFO had): so a timer that         *)
(* preempts a pass finds the channel busy and returns, and the sample that *)
(* telemetry_set_var takes is always dropped.  Passes that preempt each    *)
(* other before that are in Telemetry.                                     *)
(*                                                                         *)
(* The checksum is the real one, the exclusive or of the payload's bytes,  *)
(* which does not tell every two payloads apart and leaves out the header. *)
(* A byte of an id or of a value stands for all of them.                   *)
(***************************************************************************)
EXTENDS Integers, Sequences

CONSTANTS
    Marker,         \* TELEMETRY_MARKER_BYTE
    DataMod, Desc,  \* PKT_DATA_MOD, PKT_DATA_DESC_FRAME
    TdmWrite,       \* Tdm_write
    Times,          \* bytes of the field `time', at which the ground writes 0
    Vars,           \* the ids that are registered
    Save,           \* the id of tdv_telemetry_config_save
    Writes,         \* what the ground writes: [id, value]
    Depth,          \* the UART's receive FIFO
    ByteXor(_, _),  \* the exclusive or of two bytes
    MaxRequests,    \* bound of the model: writes of Save
    MaxLost         \* bound of the model: bytes that find the FIFO full

ASSUME RecvAssumption ==
    /\ {Marker, DataMod, Desc, TdmWrite} \subseteq 1 .. 255
    /\ Marker \notin {DataMod, Desc} /\ DataMod # Desc
    /\ Times \in Nat /\ Depth \in 1 .. 64 /\ MaxRequests \in Nat /\ MaxLost \in Nat
    /\ Save \in Vars /\ Vars \subseteq 1 .. 255
    /\ Writes \subseteq [id : 0 .. 255, value : 0 .. 255]
    /\ \A w \in Writes : w.id = Save => w.value < 2     \* Save is a b8

\* The type is not taken for a size, nor mod for the size of a packet that
\* reaches up to the id: the types are 50 and 100, a payload has 14 bytes, of
\* which time has 4, and mod is 2.
ASSUME SizeAssumption ==
    Times + 3 \notin {DataMod, Desc} /\ TdmWrite <= Times + 1

\* Bytes, those of payloads, and what makes exclusive or a checksum of them: the
\* order does not matter, and a byte taken twice is gone.
Byte == 0 .. 255
DataBytes == {0, TdmWrite} \cup {w.id : w \in Writes} \cup {w.value : w \in Writes}

ASSUME XorAssumption ==
    /\ \A a \in Byte, b \in DataBytes :
        ByteXor(a, b) \in Byte /\ ByteXor(a, ByteXor(a, b)) = b
    /\ \A a \in Byte, b, c \in DataBytes :
        ByteXor(ByteXor(a, b), c) = ByteXor(ByteXor(a, c), b)
    /\ \A b, c \in DataBytes : ByteXor(b, c) = ByteXor(c, b)

VARIABLES
    frame, sent,    \* the write on the line, and how many of its bytes have passed
    fifo,           \* the receive FIFO
    phase,          \* of core 0: telemetry_update, a transfer behind it, neither
    recvState,      \* recv_state
    marked, type, size, \* header
    offset, crc, payload,   \* offset, crc, and the payloads union, never cleared
    values,         \* the variables, by id
    saves,          \* how often the configuration was written out
    requests,       \* history: writes of Save that the ground has sent
    told,           \* history: the variables as the ground wrote them
    lost,           \* history: bytes lost
    awaited         \* history: a write was sent since the last that was carried out

line == <<frame, sent>>
parser == <<recvState, marked, type, size, offset, crc, payload>>
history == <<requests, told, lost, awaited>>
vars == <<line, fifo, phase, parser, values, saves, history>>

NoFrame == [id |-> 0, value |-> 0]
\* mod, time, id, value
IdAt == Times + 2
ValueAt == Times + 3
PayloadSize == Times + 3

----------------------------------------------------------------------------
(* Mutants: forms a plausible bug would give the definitions below.        *)

AcceptsAll(b) == TRUE
AfterFrameIfValid(b) == IF crc = b THEN "RESET" ELSE "PAYLOAD"
StoredAfter(b) == [payload EXCEPT ![offset + 2] = b]

----------------------------------------------------------------------------
(* The ground station (ofxTelemetry::writeModPacket) and the line. *)

PayloadOf(w) == <<TdmWrite>> \o [i \in 1 .. Times |-> 0] \o <<w.id, w.value>>

\* telemetry_calc_crc, byte by byte
RunningCrc(p) ==
    LET c[i \in 1 .. Len(p)] == IF i = 1 THEN p[1] ELSE ByteXor(c[i - 1], p[i])
    IN  c

Bytes ==
    [w \in Writes |->
        LET p == PayloadOf(w)
        IN  <<Marker, DataMod, Len(p)>> \o p \o <<RunningCrc(p)[Len(p)]>>]

Init ==
    /\ frame = NoFrame /\ sent = 0
    /\ fifo = <<>>
    /\ phase = "free"
    /\ recvState = "RESET" /\ marked = FALSE /\ type = 0 /\ size = 0
    /\ offset = 0 /\ crc = 0
    /\ payload = [i \in 1 .. PayloadSize |-> 0]
    /\ values = [v \in Vars |-> 0]
    /\ saves = 0 /\ requests = 0
    /\ told = values
    /\ lost = 0 /\ awaited = FALSE

Write(w) ==
    /\ frame = NoFrame
    /\ w.id = Save => requests < MaxRequests
    /\ frame' = w /\ sent' = 0
    /\ requests' = IF w.id = Save THEN requests + 1 ELSE requests
    /\ told' = IF w.id \in Vars THEN [told EXCEPT ![w.id] = w.value] ELSE told
    /\ UNCHANGED <<fifo, phase, parser, values, saves, lost, awaited>>

\* The next byte arrives, and is lost if the FIFO is full.  telemetry_update
\* empties the FIFO much faster than the line fills it: a byte that arrives
\* meanwhile counts as one that arrives after it.
ByteArrives ==
    /\ frame # NoFrame /\ phase # "update"
    /\ LET bytes == Bytes[frame]
           full == Len(fifo) = Depth
           last == sent + 1 = Len(bytes)
       IN  /\ full => lost < MaxLost
           /\ fifo' = IF full THEN fifo ELSE Append(fifo, bytes[sent + 1])
           /\ lost' = IF full THEN lost + 1 ELSE lost
           /\ awaited' = (awaited \/ (last /\ frame.id \in Vars))
           /\ frame' = IF last THEN NoFrame ELSE frame
           /\ sent' = IF last THEN 0 ELSE sent + 1
    /\ UNCHANGED <<phase, parser, values, saves, requests, told>>

----------------------------------------------------------------------------
(* flightPrintTask, of core 0's loop or of its timer. *)

\* It returns while a transfer goes on; else it sends, writes out the
\* configuration if that was asked for, and comes to telemetry_update.
SendPass ==
    /\ phase = "free"
    /\ phase' = "update"
    /\ IF values[Save] # 0
       THEN saves' = saves + 1 /\ values' = [values EXCEPT ![Save] = 0]
       ELSE UNCHANGED <<saves, values>>
    /\ UNCHANGED <<line, fifo, parser, history>>

\* uart_is_readable(uart0): the 64 bytes of telemetry_update are more than the
\* FIFO can hold.
Reading == phase = "update" /\ fifo # <<>>

PassDone ==
    /\ phase = "update" /\ ~Reading
    /\ phase' = "sending"
    /\ UNCHANGED <<line, fifo, parser, values, saves, history>>

\* The channel has sent everything.
Sent ==
    /\ phase = "sending"
    /\ phase' = "free"
    /\ UNCHANGED <<line, fifo, parser, values, saves, history>>

----------------------------------------------------------------------------
(* telemetry_recv(b), for each byte read.  What RECV_RESET assigns before  *)
(* it hands the byte on to RECV_MARKER is assigned here with it.           *)

Searching == recvState \in {"RESET", "MARKER"}

Restarted ==
    IF recvState = "RESET"
    THEN type' = 0 /\ size' = 0 /\ offset' = 0 /\ crc' = 0
    ELSE UNCHANGED <<type, size, offset, crc>>

TakeMarker(b) ==
    /\ Searching /\ b = Marker
    /\ Restarted
    /\ recvState' = "MARKER" /\ marked' = TRUE
    /\ UNCHANGED <<payload, values, awaited>>

\* A byte outside a frame is printed.
SkipByte(b) ==
    /\ Searching /\ b # Marker
    /\ recvState = "RESET" \/ ~marked
    /\ Restarted
    /\ recvState' = "MARKER" /\ marked' = FALSE
    /\ UNCHANGED <<payload, values, awaited>>

TakeType(b) ==
    /\ recvState = "MARKER" /\ marked /\ b # Marker
    /\ type' = b
    /\ recvState' = IF b \in {DataMod, Desc} THEN "SIZE" ELSE "RESET"
    /\ UNCHANGED <<marked, size, offset, crc, payload, values, awaited>>

TakeSize(b) ==
    /\ recvState = "SIZE"
    /\ size' = b /\ offset' = 0
    /\ recvState' = "PAYLOAD"
    /\ UNCHANGED <<marked, type, crc, payload, values, awaited>>

\* The union has 256 bytes, of which the first are looked at.
Stored(b) == IF offset < PayloadSize THEN [payload EXCEPT ![offset + 1] = b] ELSE payload

TakePayload(b) ==
    /\ recvState = "PAYLOAD" /\ offset < size
    /\ crc' = IF offset = 0 THEN b ELSE ByteXor(crc, b)
    /\ payload' = Stored(b)
    /\ offset' = offset + 1
    /\ UNCHANGED <<recvState, marked, type, size, values, awaited>>

Accepts(b) == crc = b

\* processPacket: telemetry_set_var, forced.  Descriptions are not taken up.
SetsVar == type = DataMod /\ payload[IdAt] \in Vars

AfterFrame(b) == "RESET"

TakeCrc(b) ==
    /\ recvState = "PAYLOAD" /\ offset = size
    /\ IF Accepts(b) /\ SetsVar
       THEN values' = [values EXCEPT ![payload[IdAt]] = payload[ValueAt]] /\ awaited' = FALSE
       ELSE UNCHANGED <<values, awaited>>
    /\ recvState' = AfterFrame(b)
    /\ UNCHANGED <<marked, type, size, offset, crc, payload>>

Recv(b) ==
    \/ TakeMarker(b) \/ SkipByte(b) \/ TakeType(b) \/ TakeSize(b)
    \/ TakePayload(b) \/ TakeCrc(b)

ReadByte ==
    /\ Reading
    /\ Recv(Head(fifo))
    /\ fifo' = Tail(fifo)
    /\ UNCHANGED <<line, phase, saves, requests, told, lost>>

Next ==
    \/ \E w \in Writes : Write(w)
    \/ ByteArrives
    \/ SendPass \/ ReadByte \/ PassDone \/ Sent

\* The loop of core 0 and the channel go on.  A write that has begun is sent
\* at the pace of the line, however many passes there are in between.
Fairness ==
    /\ WF_vars(SendPass \/ ReadByte \/ PassDone) /\ WF_vars(Sent)
    /\ SF_vars(ByteArrives)

Spec == Init /\ [][Next]_vars /\ Fairness

----------------------------------------------------------------------------
(* Properties. *)

\* As long as no byte is lost, what the ground wrote is what the variables
\* are as soon as it has arrived, in the order it was written, whatever its
\* bytes look like, and the configuration is not written out unasked.
AllArrived == frame = NoFrame /\ fifo = <<>>
WrittenAsSent ==
    lost = 0 =>
        /\ AllArrived => \A v \in Vars \ {Save} : values[v] = told[v]
        /\ saves + values[Save] <= requests

\* The loss of one byte, wherever, writes nothing that the ground never wrote,
\* unless bytes in a frame look like its marker: one that is lost is made up
\* for by the checksum, with the marker of the next frame in its place.  What
\* was written before may be written again: with the size lost, mod is taken
\* for it, and the payload of the frame before passes with two zeroes of time.
PlainWrites == \A w \in Writes : \A i \in 2 .. Len(Bytes[w]) : Bytes[w][i] # Marker
OneLossIsCaught ==
    PlainWrites /\ lost < 2 =>
        \A v \in Vars : values[v] = 0 \/ [id |-> v, value |-> values[v]] \in Writes

\* Whatever bytes were lost, the parser finds the boundary of the frames again:
\* of variables that keep being written, writes are carried out again and again.
Resyncs == []<>(frame.id \in Vars) => []<>(~awaited)
=============================================================================
