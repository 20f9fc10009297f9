------------------------------ MODULE RcParser ------------------------------
(***************************************************************************)
(* The RC frame parser (lib/io/io_rc/src/io_rc_srxl2.c), byte by byte:     *)
(* io_rc_protocol_update finds the marker, takes the length from the third *)
(* byte it collected and hands on what it collected when it has that many. *)
(* The line before it may lose, change or insert bytes.                    *)
(*                                                                         *)
(* A byte is its value, and where it is from: byte `pos' of frame `of', as *)
(* long as that frame has been undisturbed so far, else 0.  The crc of     *)
(* srxlParsePacket is taken to detect every difference: it is correct      *)
(* exactly for all the bytes of one frame.                                 *)
(*                                                                         *)
(* s.rx.packet has Buf bytes.  Nothing stops the parser from storing more; *)
(* it then writes over packetLen and what follows in memory.  Nothing is   *)
(* claimed of a parser that has `overrun', other than a reset ends that.   *)
(***************************************************************************)
EXTENDS Integers, Sequences

CONSTANTS
    Buf,        \* SRXL_MAX_BUFFER_SIZE
    Marker,     \* SPEKTRUM_SRXL_ID
    Frames,     \* what is sent: records with a field `bytes'
    NoFrame,    \* not a frame
    Junk,       \* the values that a disturbed byte may have
    MaxFaults   \* bound of the model: disturbances of the line

ASSUME FrameAssumption ==
    /\ Buf \in Nat \ {0} /\ Marker \in Nat /\ Junk \subseteq Nat /\ MaxFaults \in Nat
    /\ NoFrame \notin Frames
    /\ \A f \in Frames :
        /\ f.bytes \in Seq(Nat)
        /\ Len(f.bytes) \in 5 .. Buf
        /\ f.bytes[1] = Marker /\ f.bytes[2] # Marker
        /\ f.bytes[3] = Len(f.bytes)

VARIABLES
    sending, sent,  \* the frame on the line, and how many of its bytes have passed
    whole,          \* these bytes passed undisturbed
    faults,         \* disturbances so far
    ring,           \* the byte waiting in the receive ring, if any
    recvState,      \* tdv_rc_recv_state
    packet,         \* s.rx.packet, up to packetLen
    overrun,        \* a byte was stored behind s.rx.packet
    offered, taken  \* history: the last undisturbed frame, the last one handed on

line == <<sending, sent, whole, faults>>
rx == <<recvState, packet, overrun>>
history == <<offered, taken>>
parserVars == <<line, ring, rx, history>>

States == {"reset", "find", "loop", "header", "data"}
Byte == [val : Nat, pos : Nat, of : Frames \union {NoFrame}]
JunkByte(v) == [val |-> v, pos |-> 0, of |-> NoFrame]

----------------------------------------------------------------------------
(* Mutants: forms a plausible bug would give the definitions below.        *)

MissingStrict(p) == p[3].val > Len(p) + 1
IntactUnchecked(p) == \E f \in Frames : p[1].of = f /\ Len(p) = Len(f.bytes)
CollectedTwice(b) == packet \o <<b, b>>
AfterParseKeeps == "find"

----------------------------------------------------------------------------

\* s.rx.header.length != s.rx.packetLen
Missing(p) == p[3].val # Len(p)

\* The crc, the marker and the length checked by srxlParsePacket all fit.
Intact(p) ==
    \E f \in Frames :
        p = [i \in 1 .. Len(f.bytes) |-> [val |-> f.bytes[i], pos |-> i, of |-> f]]

\* s.rx.packet[s.rx.packetLen++] = data
Collected(b) == Append(packet, b)

\* The state after a frame was parsed: packetLen is cleared on the way.
AfterParse == "reset"

ParserInit ==
    /\ sending = NoFrame /\ sent = 0 /\ whole = TRUE /\ faults = 0
    /\ ring = <<>>
    /\ recvState = "reset" /\ packet = <<>> /\ overrun = FALSE
    /\ offered = NoFrame /\ taken = NoFrame

----------------------------------------------------------------------------
(* The line.  The ring before the parser keeps the order of the bytes (see *)
(* RcRing), which is all that matters here: it is reduced to one place.    *)

StartFrame(f) ==
    /\ sending = NoFrame
    /\ sending' = f /\ sent' = 0 /\ whole' = TRUE
    /\ UNCHANGED <<faults, ring, rx, history>>

\* One byte of the frame has passed: the frame ends with its last one.
Passed ==
    /\ sending # NoFrame
    /\ ring = <<>>
    /\ IF sent + 1 = Len(sending.bytes)
       THEN sending' = NoFrame /\ sent' = 0
       ELSE sending' = sending /\ sent' = sent + 1

SendByte ==
    /\ Passed
    /\ ring' = << IF whole
                  THEN [val |-> sending.bytes[sent + 1], pos |-> sent + 1, of |-> sending]
                  ELSE JunkByte(sending.bytes[sent + 1]) >>
    /\ offered' = IF whole /\ sent + 1 = Len(sending.bytes) THEN sending ELSE offered
    /\ UNCHANGED <<whole, faults, rx, taken>>

Disturbance ==
    /\ faults < MaxFaults
    /\ faults' = faults + 1
    /\ whole' = FALSE

LoseByte ==
    /\ Disturbance /\ Passed
    /\ UNCHANGED <<ring, rx, history>>

ChangeByte ==
    /\ Disturbance /\ Passed
    /\ \E v \in Junk : v # sending.bytes[sent + 1] /\ ring' = <<JunkByte(v)>>
    /\ UNCHANGED <<rx, history>>

InsertByte ==
    /\ Disturbance
    /\ ring = <<>>
    /\ \E v \in Junk : ring' = <<JunkByte(v)>>
    /\ UNCHANGED <<sending, sent, rx, history>>

Disturb == LoseByte \/ ChangeByte \/ InsertByte

----------------------------------------------------------------------------
(* io_rc_protocol_update: one pass of its loop per byte in the ring.       *)

Arrived == ring # <<>> /\ ~overrun

Consumed == ring' = <<>>

\* A store into s.rx.packet, if there is room for it.
Store(b) ==
    IF Len(packet) < Buf
    THEN packet' = Collected(b) /\ overrun' = FALSE
    ELSE packet' = packet /\ overrun' = TRUE

Reset ==
    /\ Arrived /\ recvState = "reset"
    /\ recvState' = "find" /\ packet' = <<>>
    /\ UNCHANGED <<line, ring, overrun, history>>

\* RX_FIND_MARKER and RX_LOOP_MARKER: a marker is stored each time.
TakeMarker ==
    /\ Arrived /\ recvState \in {"find", "loop"}
    /\ ring[1].val = Marker
    /\ Store(ring[1]) /\ Consumed
    /\ recvState' = "loop"
    /\ UNCHANGED <<line, history>>

TakeType ==
    /\ Arrived /\ recvState = "loop"
    /\ ring[1].val # Marker
    /\ Store(ring[1]) /\ Consumed
    /\ recvState' = "header"
    /\ UNCHANGED <<line, history>>

\* A byte outside a frame: it is dropped, and srxlRun(0, 4) is called.
SkipByte ==
    /\ Arrived /\ recvState = "find"
    /\ ring[1].val # Marker
    /\ Consumed
    /\ UNCHANGED <<line, rx, history>>

TakeHeader ==
    /\ Arrived /\ recvState = "header"
    /\ Store(ring[1]) /\ Consumed
    /\ recvState' = "data"
    /\ UNCHANGED <<line, history>>

\* RX_READ_DATA while bytes are missing after this one.
TakeData ==
    /\ Arrived /\ recvState = "data"
    /\ Missing(packet) /\ Missing(Collected(ring[1]))
    /\ Store(ring[1]) /\ Consumed
    /\ UNCHANGED <<line, recvState, history>>

\* The last byte is read and srxlParsePacket is called in the same pass.
\* That call fails, too, when there is no room for the byte.
Accept(f) ==
    /\ Arrived /\ recvState = "data"
    /\ Missing(packet) /\ ~Missing(Collected(ring[1])) /\ Len(packet) < Buf
    /\ Intact(Collected(ring[1])) /\ f = ring[1].of
    /\ Store(ring[1]) /\ Consumed
    /\ recvState' = AfterParse
    /\ taken' = f /\ offered' = NoFrame
    /\ UNCHANGED line

Reject ==
    /\ Arrived /\ recvState = "data"
    /\ \/ /\ Missing(packet) /\ ~Missing(Collected(ring[1]))
          /\ Len(packet) < Buf => ~Intact(Collected(ring[1]))
          /\ Store(ring[1]) /\ Consumed
       \* a length the header alone has reached: no byte is read
       \/ ~Missing(packet) /\ UNCHANGED <<ring, packet, overrun>>
    /\ recvState' = AfterParse
    /\ UNCHANGED <<line, history>>

\* The passes that call nothing of spm_srxl.c that changes state.
Quiet == Reset \/ TakeMarker \/ TakeType \/ TakeHeader \/ TakeData \/ Reject

Parser == Quiet \/ SkipByte \/ \E f \in Frames : Accept(f)

\* The firmware is reset: io_rc_protocol_init, with an empty ring.  The line
\* goes on.  A reset also ends what a buffer that was run over has done.
ParserRestart ==
    /\ overrun \/ faults < MaxFaults
    /\ faults' = IF faults < MaxFaults THEN faults + 1 ELSE faults
    /\ ring' = <<>>
    /\ recvState' = "reset" /\ packet' = <<>> /\ overrun' = FALSE
    /\ UNCHANGED <<sending, sent, whole, history>>

ParserNext ==
    \/ \E f \in Frames : StartFrame(f)
    \/ SendByte \/ Disturb
    \/ Parser
    \/ ParserRestart

ParserSpec == ParserInit /\ [][ParserNext]_parserVars

----------------------------------------------------------------------------
(* Properties. *)

ParserTypeOK ==
    /\ sending \in Frames \union {NoFrame}
    /\ sent \in Nat /\ (sending # NoFrame => sent < Len(sending.bytes))
    /\ whole \in BOOLEAN /\ faults \in 0 .. MaxFaults
    /\ ring \in Seq(Byte) /\ Len(ring) <= 1
    /\ recvState \in States
    /\ packet \in Seq(Byte) /\ Len(packet) <= Buf
    /\ overrun \in BOOLEAN
    /\ offered \in Frames \union {NoFrame}
    /\ taken \in Frames \union {NoFrame}

\* The parser hands on only frames that crossed the line undisturbed, each
\* once, and on a line that was never disturbed it hands on all of them,
\* whatever their payload looks like: io_rc_protocol_update with the checks
\* of srxlParsePacket implements FrameReceiver.
Receiver == INSTANCE FrameReceiver WITH disturbed <- faults > 0
ImplementsReceiver == Receiver!Spec

\* The packet buffer is only ever run over when what is taken for the length
\* does not fit it, or was passed before the parser looked: k markers, the
\* type and the header byte are stored without a look at any length.
LengthMisfits ==
    overrun => \E k \in 1 .. Buf :
        /\ \A i \in 1 .. k : packet[i].val = Marker
        /\ packet[3].val \notin k + 2 .. Buf

\* And that takes a disturbed line, whatever its frames look like.
OverrunOnlyByNoise == LengthMisfits /\ (overrun => faults > 0)
=============================================================================
