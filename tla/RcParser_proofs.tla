-------------------------- MODULE RcParser_proofs --------------------------
(***************************************************************************)
(* Theorems about RcParser, for every buffer size, marker and set of       *)
(* frames: its type invariant, what can run the buffer over, and that it   *)
(* implements FrameReceiver.                                               *)
(***************************************************************************)
EXTENDS RcParser, TLAPS

\* Byte i of frame f, undisturbed.
ByteOf(f, i) == [val |-> f.bytes[i], pos |-> i, of |-> f]

\* packet holds the first p bytes of f, and recvState is the one for it.
Synced(f, p) ==
    IF p = 0
    THEN recvState \in {"reset", "find"} /\ (recvState = "find" => packet = <<>>)
    ELSE /\ recvState = (IF p = 1 THEN "loop" ELSE IF p = 2 THEN "header" ELSE "data")
         /\ Len(packet) = p
         /\ \A i \in 1 .. p : packet[i] = ByteOf(f, i)

\* On a line that was never disturbed, with every byte consumed.
CleanConsumed ==
    /\ offered = NoFrame
    /\ IF sending = NoFrame
       THEN recvState \in {"reset", "find"} /\ (recvState = "find" => packet = <<>>)
       ELSE Synced(sending, sent)

\* The same, with byte p of f waiting in the ring.
CleanWaiting(f, p) ==
    /\ ring = <<ByteOf(f, p)>>
    /\ Synced(f, p - 1)
    /\ IF p = Len(f.bytes)
       THEN offered = f /\ sent = 0
       ELSE offered = NoFrame /\ sending = f /\ sent = p

Clean ==
    faults = 0 =>
        /\ whole /\ ~overrun
        /\ ring = <<>> => CleanConsumed
        /\ ring # <<>> => \E f \in Frames : \E p \in 1 .. Len(f.bytes) : CleanWaiting(f, p)

\* The last byte of an undisturbed frame arrives with the frame on offer.
Tagged ==
    \A f \in Frames :
        ring # <<>> /\ ring[1].of = f /\ ring[1].pos = Len(f.bytes) => offered = f

\* k markers, the type and the header byte are in the packet, and the length
\* is still ahead if it ever was.
Headed(k) ==
    /\ k + 2 <= Len(packet)
    /\ \A i \in 1 .. k : packet[i].val = Marker
    /\ packet[3].val \in k + 2 .. Buf => Len(packet) <= packet[3].val

\* What packet looks like in each state.
Structure ==
    /\ recvState = "find" => packet = <<>>
    /\ recvState = "loop" =>
        packet # <<>> /\ \A i \in 1 .. Len(packet) : packet[i].val = Marker
    /\ recvState = "header" =>
        Len(packet) >= 2 /\ \A i \in 1 .. Len(packet) - 1 : packet[i].val = Marker
    /\ recvState = "data" => \E k \in 1 .. Buf : Headed(k)

IInv ==
    /\ ParserTypeOK
    /\ sending = NoFrame => sent = 0
    /\ ~overrun => Structure
    /\ LengthMisfits
    /\ Tagged
    /\ Clean

----------------------------------------------------------------------------
(* Lemmas. *)

\* What is known of a frame.
LEMMA FrameFacts ==
    ASSUME NEW f \in Frames
    PROVE  /\ f # NoFrame
           /\ f.bytes \in Seq(Nat) /\ Len(f.bytes) \in Nat
           /\ 5 <= Len(f.bytes) /\ Len(f.bytes) <= Buf
           /\ \A i \in 1 .. Len(f.bytes) : f.bytes[i] \in Nat
           /\ f.bytes[1] = Marker /\ f.bytes[2] # Marker
           /\ f.bytes[3] = Len(f.bytes)
<1>1. f # NoFrame
  BY FrameAssumption
<1>2. f.bytes \in Seq(Nat) /\ Len(f.bytes) \in 5 .. Buf /\ Buf \in Nat
  BY FrameAssumption
<1>3. Len(f.bytes) \in Nat /\ \A i \in 1 .. Len(f.bytes) : f.bytes[i] \in Nat
  BY <1>2
<1>4. f.bytes[1] = Marker /\ f.bytes[2] # Marker /\ f.bytes[3] = Len(f.bytes)
  BY FrameAssumption
<1>5. QED
  BY <1>1, <1>2, <1>3, <1>4

\* Collected adds one byte behind those that are there.
LEMMA CollectedFacts ==
    ASSUME packet \in Seq(Byte), NEW b \in Byte
    PROVE  /\ Collected(b) \in Seq(Byte)
           /\ Len(Collected(b)) = Len(packet) + 1
           /\ \A i \in 1 .. Len(packet) : Collected(b)[i] = packet[i]
           /\ Collected(b)[Len(packet) + 1] = b
  BY DEF Collected

\* A byte is stored if there is room for it.
LEMMA StoreFacts ==
    ASSUME packet \in Seq(Byte), Len(packet) <= Buf, NEW b \in Byte, Store(b)
    PROVE  \/ /\ Len(packet) < Buf /\ ~overrun'
              /\ packet' = Collected(b)
              /\ packet' \in Seq(Byte) /\ Len(packet') = Len(packet) + 1
              /\ Len(packet') <= Buf
              /\ \A i \in 1 .. Len(packet) : packet'[i] = packet[i]
              /\ packet'[Len(packet) + 1] = b
           \/ Len(packet) = Buf /\ overrun' /\ packet' = packet
<1>1. Len(packet) \in Nat /\ Buf \in Nat
  BY FrameAssumption
<1>2. CASE Len(packet) < Buf
  BY <1>1, <1>2, CollectedFacts DEF Store
<1>3. CASE ~(Len(packet) < Buf)
  BY <1>1, <1>3 DEF Store
<1>4. QED
  BY <1>2, <1>3

\* The byte in the ring is a byte.
LEMMA RingByte ==
    ASSUME ParserTypeOK, ring # <<>>
    PROVE  ring[1] \in Byte
<1>1. ring \in Seq(Byte) /\ Len(ring) # 0
  BY DEF ParserTypeOK
<1>2. QED
  BY <1>1

\* The bytes of a frame, and disturbed ones, are bytes.
LEMMA FrameBytes ==
    ASSUME NEW f \in Frames, NEW i \in 1 .. Len(f.bytes)
    PROVE  ByteOf(f, i) \in Byte
  BY FrameFacts DEF ByteOf, Byte

\* A byte of the line's noise is a byte.
LEMMA JunkBytes ==
    ASSUME NEW v \in Nat
    PROVE  JunkByte(v) \in Byte
  BY DEF JunkByte, Byte

\* A packet that holds all bytes of a frame is intact, and of that frame.
LEMMA IntactFacts ==
    ASSUME NEW p \in Seq(Byte)
    PROVE  /\ \A f \in Frames :
                Len(p) = Len(f.bytes) /\ (\A i \in 1 .. Len(p) : p[i] = ByteOf(f, i))
                    => Intact(p)
           /\ Intact(p) => \E f \in Frames :
                Len(p) = Len(f.bytes) /\ \A i \in 1 .. Len(p) : p[i] = ByteOf(f, i)
<1>1. ASSUME NEW f \in Frames, Len(p) = Len(f.bytes),
             \A i \in 1 .. Len(p) : p[i] = ByteOf(f, i)
      PROVE  Intact(p)
  <2>1. p = [i \in 1 .. Len(p) |-> p[i]]
    OBVIOUS
  <2>2. p = [i \in 1 .. Len(f.bytes) |-> [val |-> f.bytes[i], pos |-> i, of |-> f]]
    BY <1>1, <2>1 DEF ByteOf
  <2>3. QED
    BY <2>2 DEF Intact
<1>2. ASSUME NEW f \in Frames,
             p = [i \in 1 .. Len(f.bytes) |-> [val |-> f.bytes[i], pos |-> i, of |-> f]]
      PROVE  Len(p) = Len(f.bytes) /\ \A i \in 1 .. Len(p) : p[i] = ByteOf(f, i)
  <2>1. Len(f.bytes) \in Nat /\ DOMAIN p = 1 .. Len(f.bytes)
    BY <1>2, FrameFacts
  <2>2. Len(p) = Len(f.bytes)
    BY <2>1
  <2>3. QED
    BY <1>2, <2>2 DEF ByteOf
<1>3. QED
  BY <1>1, <1>2 DEF Intact

----------------------------------------------------------------------------
(* Types. *)

\* The line's variables keep their types when a byte passes.
LEMMA PassedTypes ==
    ASSUME ParserTypeOK, Passed
    PROVE  /\ sending \in Frames /\ sent \in Nat /\ sent + 1 \in 1 .. Len(sending.bytes)
           /\ sending' \in Frames \union {NoFrame}
           /\ sent' \in Nat /\ (sending' # NoFrame => sent' < Len(sending'.bytes))
<1>1. /\ sending \in Frames /\ sent \in Nat /\ sent < Len(sending.bytes)
      /\ Len(sending.bytes) \in Nat
  BY FrameFacts DEF ParserTypeOK, Passed
<1>2. QED
  BY <1>1 DEF Passed

\* Every step keeps the types.
LEMMA TypeStep ==
    ASSUME ParserTypeOK, [ParserNext]_parserVars
    PROVE  ParserTypeOK'
<1> USE DEF ParserTypeOK
<1> MaxFaults \in Nat /\ Buf \in Nat /\ Junk \subseteq Nat
  BY FrameAssumption
<1> <<>> \in Seq(Byte) /\ Len(<<>>) = 0
  OBVIOUS
<1> \A b \in Byte : <<b>> \in Seq(Byte) /\ Len(<<b>>) = 1
  OBVIOUS
<1>1. ASSUME NEW f \in Frames, StartFrame(f) PROVE ParserTypeOK'
  <2>1. 0 < Len(f.bytes)
    BY FrameFacts
  <2>2. QED
    BY <1>1, <2>1 DEF StartFrame, rx, history
<1>2. CASE SendByte
  <2>1. Passed
    BY <1>2 DEF SendByte
  <2>2. /\ ByteOf(sending, sent + 1) \in Byte
        /\ JunkByte(sending.bytes[sent + 1]) \in Byte
    BY <2>1, PassedTypes, FrameBytes, FrameFacts, JunkBytes
  <2>3. ring' \in Seq(Byte) /\ Len(ring') <= 1
    BY <1>2, <2>2 DEF SendByte, ByteOf
  <2>4. offered' \in Frames \union {NoFrame}
    BY <1>2, <2>1, PassedTypes DEF SendByte
  <2>5. QED
    BY <1>2, <2>1, <2>3, <2>4, PassedTypes DEF SendByte, rx
<1>3. CASE Disturb
  <2>1. faults' \in 0 .. MaxFaults /\ whole' \in BOOLEAN
    <3>1. Disturbance
      BY <1>3 DEF Disturb, LoseByte, ChangeByte, InsertByte
    <3>2. faults' \in 0 .. MaxFaults
      BY <3>1 DEF Disturbance
    <3>3. whole' \in BOOLEAN
      BY <3>1, Zenon DEF Disturbance
    <3>4. QED
      BY <3>2, <3>3
  <2>2. ring' \in Seq(Byte) /\ Len(ring') <= 1
    <3>1. CASE LoseByte
      BY <3>1 DEF LoseByte
    <3>2. CASE \E v \in Junk : ring' = <<JunkByte(v)>>
      BY <3>2, JunkBytes
    <3>3. QED
      BY <1>3, <3>1, <3>2 DEF Disturb, ChangeByte, InsertByte
  <2>3. /\ sending' \in Frames \union {NoFrame}
        /\ sent' \in Nat /\ (sending' # NoFrame => sent' < Len(sending'.bytes))
    BY <1>3, PassedTypes DEF Disturb, LoseByte, ChangeByte, InsertByte
  <2>4. UNCHANGED <<rx, history>>
    BY <1>3 DEF Disturb, LoseByte, ChangeByte, InsertByte
  <2>5. QED
    BY <2>1, <2>2, <2>3, <2>4 DEF rx, history
<1>4. CASE Reset
  BY <1>4 DEF Reset, line, history, States
<1>5. CASE TakeMarker \/ TakeType \/ TakeHeader \/ TakeData \/ SkipByte
  <2>1. /\ ring' = <<>> /\ recvState' \in States /\ UNCHANGED <<line, history>>
        /\ ring # <<>>
        /\ Store(ring[1]) \/ UNCHANGED <<packet, overrun>>
    BY <1>5 DEF TakeMarker, TakeType, TakeHeader, TakeData, SkipByte, Consumed, Arrived, States, rx
  <2>2. packet' \in Seq(Byte) /\ Len(packet') <= Buf /\ overrun' \in BOOLEAN
    BY <2>1, StoreFacts, RingByte DEF Store
  <2>3. QED
    BY <2>1, <2>2 DEF line, history
<1>6. ASSUME NEW f \in Frames, Accept(f) PROVE ParserTypeOK'
  <2>1. /\ ring' = <<>> /\ recvState' \in States /\ UNCHANGED line
        /\ ring # <<>> /\ Store(ring[1])
        /\ taken' = f /\ offered' = NoFrame
    BY <1>6 DEF Accept, Consumed, Arrived, AfterParse, States
  <2>2. packet' \in Seq(Byte) /\ Len(packet') <= Buf /\ overrun' \in BOOLEAN
    BY <2>1, StoreFacts, RingByte DEF Store
  <2>3. QED
    BY <2>1, <2>2 DEF line
<1>7. CASE Reject
  <2>1. /\ ring' = <<>> \/ ring' = ring
        /\ recvState' \in States /\ UNCHANGED <<line, history>>
        /\ ring # <<>>
        /\ Store(ring[1]) \/ UNCHANGED <<packet, overrun>>
    BY <1>7 DEF Reject, Consumed, Arrived, AfterParse, States
  <2>2. packet' \in Seq(Byte) /\ Len(packet') <= Buf /\ overrun' \in BOOLEAN
    BY <2>1, StoreFacts, RingByte DEF Store
  <2>3. ring' \in Seq(Byte) /\ Len(ring') <= 1
    <3>1. CASE ring' = ring
      BY <3>1, Zenon
    <3>2. CASE ring' = <<>>
      BY <3>2
    <3>3. QED
      BY <2>1, <3>1, <3>2
  <2>4. UNCHANGED <<sending, sent, whole, faults, offered, taken>>
    BY <2>1 DEF line, history
  <2>5. QED
    BY <2>1, <2>2, <2>3, <2>4
<1>8. CASE ParserRestart
  <2>1. faults' \in 0 .. MaxFaults
    BY <1>8 DEF ParserRestart
  <2>2. packet' \in Seq(Byte) /\ Len(packet') <= Buf /\ ring' \in Seq(Byte) /\ Len(ring') <= 1
    BY <1>8 DEF ParserRestart
  <2>3. QED
    BY <1>8, <2>1, <2>2 DEF ParserRestart, States, history
<1>9. CASE UNCHANGED parserVars
  BY <1>9 DEF parserVars, line, rx, history
<1>10. QED
  BY <1>1, <1>2, <1>3, <1>4, <1>5, <1>6, <1>7, <1>8, <1>9 DEF ParserNext, Parser, Quiet

----------------------------------------------------------------------------
(* What runs the buffer over. *)

\* When there is no room for a byte, what is in the packet explains it.
LEMMA FullPacket ==
    ASSUME ParserTypeOK, Structure, Len(packet) = Buf,
           \/ recvState \in {"find", "loop", "header"}
           \/ recvState = "data" /\ Missing(packet)
    PROVE  \E k \in 1 .. Buf :
              /\ \A i \in 1 .. k : packet[i].val = Marker
              /\ packet[3].val \notin k + 2 .. Buf
<1> Buf \in Nat \ {0} /\ packet \in Seq(Byte)
  BY FrameAssumption DEF ParserTypeOK
<1>1. recvState # "find"
  BY DEF Structure
<1>2. CASE recvState = "loop"
  <2>1. \A i \in 1 .. Buf : packet[i].val = Marker
    BY <1>2 DEF Structure
  <2>2. packet[3].val \notin Buf + 2 .. Buf
    OBVIOUS
  <2>3. QED
    BY <2>1, <2>2
<1>3. CASE recvState = "header"
  <2>1. Buf >= 2 /\ \A i \in 1 .. Buf - 1 : packet[i].val = Marker
    BY <1>3 DEF Structure
  <2>2. Buf - 1 \in 1 .. Buf /\ packet[3].val \notin (Buf - 1) + 2 .. Buf
    BY <2>1
  <2>3. QED
    BY <2>1, <2>2
<1>4. CASE recvState = "data"
  <2>1. PICK k \in 1 .. Buf : Headed(k)
    BY <1>4 DEF Structure
  <2>2. packet[3].val \in Nat
    <3>1. 3 \in 1 .. Len(packet)
      BY <2>1 DEF Headed
    <3>2. packet[3] \in Byte
      BY <3>1
    <3>3. QED
      BY <3>2 DEF Byte
  <2>3. packet[3].val # Buf
    BY <1>1, <1>4 DEF Missing
  <2>4. packet[3].val \notin k + 2 .. Buf
    BY <2>1, <2>2, <2>3 DEF Headed
  <2>5. QED
    BY <2>1, <2>4 DEF Headed
<1>5. QED
  BY <1>1, <1>2, <1>3, <1>4

\* Every step keeps the structure of the packet until it is run over.
LEMMA StructureStep ==
    ASSUME ParserTypeOK, ~overrun => Structure, LengthMisfits,
           [ParserNext]_parserVars
    PROVE  (~overrun' => Structure') /\ LengthMisfits'
<1> Buf \in Nat \ {0} /\ packet \in Seq(Byte) /\ Len(packet) \in Nat /\ Len(packet) <= Buf
  BY FrameAssumption DEF ParserTypeOK
<1>1. CASE UNCHANGED rx
  BY <1>1 DEF rx, Structure, Headed, LengthMisfits
<1>2. CASE recvState' = "reset" /\ ~overrun'
  BY <1>2 DEF Structure, LengthMisfits
<1>3. CASE Reset
  BY <1>3 DEF Reset, Arrived, Structure, LengthMisfits
<1>4. ASSUME Store(ring[1]), ring # <<>>, ~overrun,
             \/ recvState \in {"find", "loop", "header"}
             \/ recvState = "data" /\ Missing(packet),
             Len(packet) < Buf => Structure'
      PROVE  (~overrun' => Structure') /\ LengthMisfits'
  <2>1. CASE Len(packet) < Buf
    BY <1>4, <2>1, StoreFacts, RingByte DEF LengthMisfits, ParserTypeOK
  <2>2. CASE Len(packet) = Buf
    <3>1. overrun' /\ packet' = packet
      BY <1>4, <2>2, StoreFacts, RingByte DEF ParserTypeOK
    <3>2. \E k \in 1 .. Buf : /\ \A i \in 1 .. k : packet[i].val = Marker
                             /\ packet[3].val \notin k + 2 .. Buf
      BY <1>4, <2>2, FullPacket
    <3>3. QED
      BY <3>1, <3>2 DEF LengthMisfits
  <2>3. QED
    BY <2>1, <2>2
\* The new packet, where there is room.
<1>5. ASSUME Store(ring[1]), ring # <<>>, Len(packet) < Buf
      PROVE  /\ packet' \in Seq(Byte) /\ Len(packet') = Len(packet) + 1
             /\ \A i \in 1 .. Len(packet) : packet'[i] = packet[i]
             /\ packet'[Len(packet) + 1] = ring[1]
  BY <1>5, StoreFacts, RingByte DEF ParserTypeOK
<1>6. CASE TakeMarker
  <2>1. /\ Store(ring[1]) /\ ring # <<>> /\ ~overrun /\ recvState' = "loop"
        /\ recvState \in {"find", "loop"} /\ ring[1].val = Marker
    BY <1>6 DEF TakeMarker, Arrived
  <2>2. ASSUME Len(packet) < Buf PROVE Structure'
    <3>1. \A i \in 1 .. Len(packet) : packet[i].val = Marker
      BY <2>1 DEF Structure
    <3>2. \A i \in 1 .. Len(packet') : packet'[i].val = Marker
      BY <1>5, <2>1, <2>2, <3>1
    <3>3. QED
      BY <1>5, <2>1, <2>2, <3>2 DEF Structure
  <2>3. QED
    BY <1>4, <2>1, <2>2
<1>7. CASE TakeType
  <2>1. Store(ring[1]) /\ ring # <<>> /\ ~overrun /\ recvState' = "header" /\ recvState = "loop"
    BY <1>7 DEF TakeType, Arrived
  <2>2. ASSUME Len(packet) < Buf PROVE Structure'
    <3>1. Len(packet) >= 1 /\ \A i \in 1 .. Len(packet) : packet[i].val = Marker
      BY <2>1 DEF Structure
    <3>2. Len(packet') >= 2 /\ \A i \in 1 .. Len(packet') - 1 : packet'[i].val = Marker
      BY <1>5, <2>1, <2>2, <3>1
    <3>3. QED
      BY <2>1, <3>2 DEF Structure
  <2>3. QED
    BY <1>4, <2>1, <2>2
<1>8. CASE TakeHeader
  <2>1. Store(ring[1]) /\ ring # <<>> /\ ~overrun /\ recvState' = "data" /\ recvState = "header"
    BY <1>8 DEF TakeHeader, Arrived
  <2>2. ASSUME Len(packet) < Buf PROVE Structure'
    <3>1. PICK k \in 1 .. Buf : k = Len(packet) - 1
      <4>1. Len(packet) - 1 \in 1 .. Buf
        BY <2>1 DEF Structure
      <4>2. QED
        BY <4>1
    <3>2. \A i \in 1 .. k : packet[i].val = Marker
      BY <2>1, <3>1 DEF Structure
    <3>3. Len(packet') = k + 2 /\ \A i \in 1 .. k : packet'[i].val = Marker
      BY <1>5, <2>1, <2>2, <3>1, <3>2
    <3>4. Headed(k)'
      BY <3>3 DEF Headed
    <3>5. QED
      BY <2>1, <3>4 DEF Structure
  <2>3. QED
    BY <1>4, <2>1, <2>2
<1>9. CASE TakeData
  <2>1. /\ Store(ring[1]) /\ ring # <<>> /\ ~overrun /\ recvState' = "data" /\ recvState = "data"
        /\ Missing(packet)
    BY <1>9 DEF TakeData, Arrived
  <2>2. ASSUME Len(packet) < Buf PROVE Structure'
    <3>1. PICK k \in 1 .. Buf : Headed(k)
      BY <2>1 DEF Structure
    <3>2. packet[3].val # Len(packet) /\ packet'[3] = packet[3] /\ packet[3] \in Byte
      BY <1>5, <2>1, <2>2, <3>1 DEF Headed, Missing
    <3>3. packet[3].val \in Nat
      BY <3>2 DEF Byte
    <3>4. \A i \in 1 .. k : packet'[i].val = Marker
      BY <1>5, <2>1, <2>2, <3>1 DEF Headed
    <3>5. Headed(k)'
      BY <1>5, <2>1, <2>2, <3>1, <3>2, <3>3, <3>4 DEF Headed
    <3>6. QED
      BY <2>1, <3>5 DEF Structure
  <2>3. QED
    BY <1>4, <2>1, <2>2
<1>10. ASSUME NEW f \in Frames, Accept(f) PROVE recvState' = "reset" /\ ~overrun'
  BY <1>10, StoreFacts, RingByte DEF Accept, Arrived, AfterParse, ParserTypeOK
<1>11. CASE Reject
  <2>1. CASE UNCHANGED <<packet, overrun>>
    BY <1>2, <1>11, <2>1 DEF Reject, Arrived, AfterParse
  <2>2. CASE Missing(packet) /\ Store(ring[1])
    <3>1. recvState = "data" /\ ring # <<>> /\ ~overrun /\ recvState' = "reset"
      BY <1>11 DEF Reject, Arrived, AfterParse
    <3>2. Structure'
      BY <3>1 DEF Structure
    <3>3. QED
      BY <1>4, <2>2, <3>1, <3>2
  <2>3. QED
    BY <1>11, <2>1, <2>2 DEF Reject
<1>12. CASE ParserRestart
  BY <1>2, <1>12 DEF ParserRestart
<1>13. CASE SendByte \/ Disturb \/ SkipByte \/ UNCHANGED parserVars \/ \E f \in Frames : StartFrame(f)
  BY <1>1, <1>13 DEF SendByte, Disturb, LoseByte, ChangeByte, InsertByte, SkipByte, parserVars,
                     StartFrame
<1>14. QED
  BY <1>2, <1>3, <1>6, <1>7, <1>8, <1>9, <1>10, <1>11, <1>12, <1>13
     DEF ParserNext, Parser, Quiet

----------------------------------------------------------------------------
(* What is handed on. *)

\* The last byte of an undisturbed frame is only ever sent with the frame put
\* on offer, and the offer stands while the byte waits.
LEMMA TaggedStep ==
    ASSUME ParserTypeOK, Tagged, [ParserNext]_parserVars
    PROVE  Tagged'
<1>1. CASE ring' = <<>>
  BY <1>1 DEF Tagged
<1>2. CASE ring' = ring /\ offered' = offered
  BY <1>2 DEF Tagged
<1>3. CASE SendByte
  <2>1. /\ sending \in Frames /\ sent \in Nat
        /\ offered' = IF whole /\ sent + 1 = Len(sending.bytes) THEN sending ELSE offered
        /\ \/ whole /\ ring' = <<ByteOf(sending, sent + 1)>>
           \/ \E v \in Nat : ring' = <<JunkByte(v)>>
    <3>1. sending \in Frames /\ sent \in Nat /\ sending.bytes[sent + 1] \in Nat
      BY <1>3, PassedTypes, FrameFacts DEF SendByte
    <3>2. CASE whole
      BY <1>3, <3>1, <3>2 DEF SendByte, ByteOf
    <3>3. CASE ~whole
      BY <1>3, <3>1, <3>3 DEF SendByte
    <3>4. QED
      BY <3>1, <3>2, <3>3
  <2>2. ASSUME NEW f \in Frames, ring'[1].of = f, ring'[1].pos = Len(f.bytes)
        PROVE  offered' = f
    <3>1. ring' = <<ByteOf(sending, sent + 1)>> /\ whole
      BY <2>1, <2>2, FrameFacts DEF JunkByte
    <3>2. f = sending /\ sent + 1 = Len(f.bytes)
      BY <2>2, <3>1 DEF ByteOf
    <3>3. QED
      BY <2>1, <3>1, <3>2
  <2>3. QED
    BY <2>2 DEF Tagged
<1>4. CASE Disturb
  <2>1. CASE \E v \in Junk : ring' = <<JunkByte(v)>>
    BY <2>1, FrameFacts DEF Tagged, JunkByte
  <2>2. CASE LoseByte
    BY <1>2, <2>2 DEF LoseByte, history
  <2>3. QED
    BY <1>4, <2>1, <2>2 DEF Disturb, ChangeByte, InsertByte
<1>5. CASE Reset \/ Reject
  BY <1>1, <1>2, <1>5 DEF Reset, Reject, Consumed, history
<1>6. CASE TakeMarker \/ TakeType \/ TakeHeader \/ TakeData \/ SkipByte \/ ParserRestart
  BY <1>1, <1>6 DEF TakeMarker, TakeType, TakeHeader, TakeData, SkipByte, ParserRestart, Consumed
<1>7. ASSUME NEW f \in Frames, Accept(f) PROVE Tagged'
  BY <1>1, <1>7 DEF Accept, Consumed
<1>8. CASE UNCHANGED parserVars \/ \E f \in Frames : StartFrame(f)
  BY <1>2, <1>8 DEF parserVars, history, StartFrame
<1>9. QED
  BY <1>3, <1>4, <1>5, <1>6, <1>7, <1>8 DEF ParserNext, Parser, Quiet

\* A frame that is handed on is the one on offer.
LEMMA AcceptedIsOffered ==
    ASSUME ParserTypeOK, Tagged, NEW f \in Frames, Accept(f)
    PROVE  offered = f /\ taken' = f /\ offered' = NoFrame
<1>1. /\ ring # <<>> /\ Intact(Collected(ring[1])) /\ f = ring[1].of
      /\ taken' = f /\ offered' = NoFrame
  BY DEF Accept, Arrived
<1>2. packet \in Seq(Byte) /\ Len(packet) \in Nat /\ ring[1] \in Byte
  BY <1>1, RingByte DEF ParserTypeOK
<1>3. PICK g \in Frames :
        /\ Len(Collected(ring[1])) = Len(g.bytes)
        /\ \A i \in 1 .. Len(Collected(ring[1])) : Collected(ring[1])[i] = ByteOf(g, i)
  BY <1>1, <1>2, IntactFacts, CollectedFacts
<1>4. ring[1] = ByteOf(g, Len(g.bytes))
  BY <1>2, <1>3, CollectedFacts
<1>5. ring[1].of = g /\ ring[1].pos = Len(g.bytes)
  BY <1>4 DEF ByteOf
<1>6. QED
  BY <1>1, <1>5 DEF Tagged

----------------------------------------------------------------------------
(* The undisturbed line. *)

\* A waiting byte that continues its frame: what the parser has of it grows.
LEMMA SyncedStep ==
    ASSUME ParserTypeOK, NEW f \in Frames, NEW p \in 1 .. Len(f.bytes),
           ring = <<ByteOf(f, p)>>, Synced(f, p - 1), recvState # "reset",
           Store(ring[1]),
           recvState' = (IF p = 1 THEN "loop" ELSE IF p = 2 THEN "header" ELSE "data")
    PROVE  Synced(f, p)' /\ ~overrun'
<1>1. /\ Len(f.bytes) \in Nat /\ Len(f.bytes) <= Buf /\ Buf \in Nat
      /\ packet \in Seq(Byte) /\ Len(packet) <= Buf
  BY FrameFacts, FrameAssumption DEF ParserTypeOK
<1>2. ring[1] = ByteOf(f, p) /\ ring # <<>> /\ ring[1] \in Byte
  BY FrameBytes
<1>3. Len(packet) = p - 1 /\ \A i \in 1 .. p - 1 : packet[i] = ByteOf(f, i)
  <2>1. CASE p = 1
    <3>1. packet = <<>>
      BY <2>1 DEF Synced
    <3>2. QED
      BY <2>1, <3>1
  <2>2. CASE p # 1
    BY <2>2 DEF Synced
  <2>3. QED
    BY <2>1, <2>2
<1>4. Len(packet) < Buf
  BY <1>1, <1>3
<1>5. /\ ~overrun' /\ Len(packet') = p
      /\ \A i \in 1 .. p - 1 : packet'[i] = packet[i]
      /\ packet'[p] = ByteOf(f, p)
  BY <1>1, <1>2, <1>3, <1>4, StoreFacts
<1>6. \A i \in 1 .. p : packet'[i] = ByteOf(f, i)
  BY <1>3, <1>5
<1>7. QED
  BY <1>5, <1>6 DEF Synced, ByteOf

\* What the parser collected of an undisturbed frame lacks bytes until the
\* last one is there; then it is intact.
LEMMA SyncedPacket ==
    ASSUME ParserTypeOK, NEW f \in Frames, NEW p \in 1 .. Len(f.bytes),
           ring = <<ByteOf(f, p)>>, Synced(f, p - 1), recvState = "data"
    PROVE  /\ p > 3 /\ Missing(packet) /\ Len(packet) < Buf
           /\ ~Missing(Collected(ring[1])) <=> p = Len(f.bytes)
           /\ p = Len(f.bytes) => Intact(Collected(ring[1]))
<1>1. /\ Len(f.bytes) \in Nat /\ Len(f.bytes) <= Buf /\ Buf \in Nat /\ packet \in Seq(Byte)
      /\ f.bytes[3] = Len(f.bytes)
  BY FrameFacts, FrameAssumption DEF ParserTypeOK
<1>2. ring[1] = ByteOf(f, p) /\ ring[1] \in Byte
  BY FrameBytes
<1>3. p > 3 /\ Len(packet) = p - 1 /\ \A i \in 1 .. p - 1 : packet[i] = ByteOf(f, i)
  BY DEF Synced
<1>4. packet[3].val = Len(f.bytes)
  BY <1>1, <1>3 DEF ByteOf
<1>5. /\ Collected(ring[1]) \in Seq(Byte) /\ Len(Collected(ring[1])) = p
      /\ Collected(ring[1])[3] = packet[3]
      /\ \A i \in 1 .. p : Collected(ring[1])[i] = ByteOf(f, i)
  <2>1. /\ Collected(ring[1]) \in Seq(Byte)
        /\ Len(Collected(ring[1])) = Len(packet) + 1
        /\ \A i \in 1 .. Len(packet) : Collected(ring[1])[i] = packet[i]
        /\ Collected(ring[1])[Len(packet) + 1] = ring[1]
    BY <1>1, <1>2, CollectedFacts
  <2>2. \A i \in 1 .. p - 1 : Collected(ring[1])[i] = ByteOf(f, i)
    BY <1>3, <2>1
  <2>3. Collected(ring[1])[p] = ByteOf(f, p)
    BY <1>2, <1>3, <2>1
  <2>4. Collected(ring[1])[3] = packet[3]
    BY <1>3, <2>1
  <2>5. QED
    BY <1>3, <2>1, <2>2, <2>3, <2>4
<1>6. p = Len(f.bytes) => Intact(Collected(ring[1]))
  BY <1>5, IntactFacts
<1>7. QED
  BY <1>1, <1>3, <1>4, <1>5, <1>6 DEF Missing

\* Every step keeps the parser in step with a line that is not disturbed.
LEMMA CleanStep ==
    ASSUME ParserTypeOK, sending = NoFrame => sent = 0, Clean, [ParserNext]_parserVars
    PROVE  Clean' /\ (sending' = NoFrame => sent' = 0)
<1>1. faults \in Nat /\ (faults' = 0 => faults = 0)
  <2>1. faults \in Nat /\ MaxFaults \in Nat
    BY FrameAssumption DEF ParserTypeOK
  <2>2. faults' = faults \/ faults' = faults + 1
    BY DEF ParserNext, Parser, Quiet, StartFrame, SendByte, Disturb, LoseByte, ChangeByte,
           InsertByte, Disturbance, Reset, TakeMarker, TakeType, SkipByte, TakeHeader,
           TakeData, Accept, Reject, ParserRestart, parserVars, line
  <2>3. QED
    BY <2>1, <2>2
<1>2. sending' = NoFrame => sent' = 0
  <2>1. NoFrame \notin Frames
    BY FrameAssumption
  <2>2. QED
    BY <2>1 DEF ParserNext, Parser, Quiet, StartFrame, SendByte, Passed, Disturb, LoseByte,
           ChangeByte, InsertByte, Reset, TakeMarker, TakeType, SkipByte, TakeHeader,
           TakeData, Accept, Reject, ParserRestart, parserVars, line
<1> SUFFICES ASSUME faults = 0, faults' = 0 PROVE Clean'
  BY <1>1, <1>2 DEF Clean
<1>3. /\ whole /\ ~overrun
      /\ ring = <<>> => CleanConsumed
      /\ ring # <<>> => \E f \in Frames : \E p \in 1 .. Len(f.bytes) : CleanWaiting(f, p)
  BY DEF Clean
<1>4. ASSUME NEW f \in Frames, StartFrame(f) PROVE Clean'
  <2>1. /\ sending = NoFrame /\ sending' = f /\ sent' = 0 /\ whole' = TRUE
        /\ UNCHANGED <<ring, recvState, packet, overrun, offered>>
    BY <1>4 DEF StartFrame, rx, history
  <2>2. ring = <<>> => CleanConsumed'
    BY <1>3, <2>1, FrameFacts DEF CleanConsumed, Synced
  <2>3. ASSUME NEW g \in Frames, NEW p \in 1 .. Len(g.bytes), CleanWaiting(g, p)
        PROVE  CleanWaiting(g, p)'
    BY <2>1, <2>3, FrameFacts DEF CleanWaiting, Synced
  <2>4. QED
    BY <1>3, <2>1, <2>2, <2>3 DEF Clean
<1>5. CASE SendByte
  <2>1. /\ sending \in Frames /\ sent \in Nat /\ sent + 1 \in 1 .. Len(sending.bytes)
        /\ ring = <<>> /\ sending # NoFrame
    BY <1>5, PassedTypes, FrameFacts DEF SendByte, Passed
  <2>2. offered = NoFrame /\ Synced(sending, sent)
    BY <1>3, <2>1 DEF CleanConsumed
  <2>3. /\ ring' = <<ByteOf(sending, sent + 1)>>
        /\ UNCHANGED <<whole, recvState, packet, overrun>>
    BY <1>3, <1>5 DEF SendByte, ByteOf, rx
  <2>4. PICK f \in Frames : f = sending
    BY <2>1
  <2>5. PICK p \in 1 .. Len(f.bytes) : p = sent + 1
    BY <2>1, <2>4
  <2>6. Synced(f, p - 1)'
    BY <2>1, <2>2, <2>3, <2>4, <2>5 DEF Synced
  <2>7. IF p = Len(f.bytes)
        THEN offered' = f /\ sent' = 0
        ELSE offered' = NoFrame /\ sending' = f /\ sent' = p
    BY <1>3, <1>5, <2>2, <2>4, <2>5 DEF SendByte, Passed
  <2>8. CleanWaiting(f, p)'
    BY <2>3, <2>4, <2>5, <2>6, <2>7 DEF CleanWaiting, ByteOf
  <2>9. whole' /\ ~overrun' /\ ring' # <<>>
    BY <1>3, <2>3
  <2>10. QED
    BY <2>8, <2>9 DEF Clean
<1>6. CASE Disturb
  BY <1>1, <1>6 DEF Disturb, LoseByte, ChangeByte, InsertByte, Disturbance
<1>7. CASE ParserRestart
  BY <1>3, <1>7 DEF ParserRestart
<1>8. CASE UNCHANGED parserVars
  <2>1. UNCHANGED <<sending, sent, whole, faults, ring, recvState, packet, overrun, offered>>
    BY <1>8 DEF parserVars, line, rx, history
  <2>2. QED
    BY <2>1 DEF Clean, CleanConsumed, CleanWaiting, Synced
<1>9. ASSUME Parser PROVE Clean'
  <2>1. ring # <<>> /\ UNCHANGED <<sending, sent, whole>>
    BY <1>9 DEF Parser, Quiet, Reset, TakeMarker, TakeType, SkipByte, TakeHeader, TakeData,
                Accept, Reject, Arrived, line
  <2>15. PICK f \in Frames : \E p \in 1 .. Len(f.bytes) : CleanWaiting(f, p)
    BY <1>3, <2>1
  <2>2. PICK p \in 1 .. Len(f.bytes) : CleanWaiting(f, p)
    BY <2>15
  <2>3. /\ ring = <<ByteOf(f, p)>> /\ ring[1] = ByteOf(f, p) /\ ring[1].val = f.bytes[p]
        /\ Synced(f, p - 1)
    BY <2>2 DEF CleanWaiting, ByteOf
  <2>4. /\ Len(f.bytes) \in Nat /\ Len(f.bytes) >= 5 /\ f # NoFrame
        /\ f.bytes[1] = Marker /\ f.bytes[2] # Marker
    BY FrameFacts
  \* A pass that takes a byte other than the last one.
  <2>5. ASSUME p # Len(f.bytes), ring' = <<>>, UNCHANGED offered, Synced(f, p)', ~overrun'
        PROVE  Clean'
    <3>1. offered' = NoFrame /\ sending' = f /\ sent' = p
      BY <2>1, <2>2, <2>5 DEF CleanWaiting
    <3>2. CleanConsumed'
      BY <2>4, <2>5, <3>1 DEF CleanConsumed, Synced, ByteOf
    <3>3. QED
      BY <1>3, <2>1, <2>5, <3>2 DEF Clean
  <2>6. CASE Reset
    <3>1. /\ recvState = "reset" /\ recvState' = "find" /\ packet' = <<>>
          /\ UNCHANGED <<ring, overrun, offered>>
      BY <2>6 DEF Reset, history
    <3>2. p = 1
      BY <2>3, <3>1 DEF Synced
    <3>3. Synced(f, p - 1)'
      BY <3>1, <3>2 DEF Synced
    <3>4. CleanWaiting(f, p)'
      BY <2>1, <2>2, <3>1, <3>3 DEF CleanWaiting, ByteOf
    <3>5. QED
      BY <1>3, <2>1, <3>1, <3>4 DEF Clean
  <2>7. CASE TakeMarker
    <3>1. /\ recvState \in {"find", "loop"} /\ f.bytes[p] = Marker /\ Store(ring[1])
          /\ recvState' = "loop" /\ ring' = <<>> /\ UNCHANGED offered
      BY <2>3, <2>7 DEF TakeMarker, Consumed, history
    <3>2. p = 1 /\ p # Len(f.bytes)
      BY <2>3, <2>4, <3>1 DEF Synced
    <3>3. Synced(f, p)' /\ ~overrun'
      BY <2>3, <3>1, <3>2, SyncedStep
    <3>4. QED
      BY <2>5, <3>1, <3>2, <3>3
  <2>8. CASE TakeType
    <3>1. /\ recvState = "loop" /\ Store(ring[1])
          /\ recvState' = "header" /\ ring' = <<>> /\ UNCHANGED offered
      BY <2>8 DEF TakeType, Consumed, history
    <3>2. p = 2 /\ p # Len(f.bytes)
      BY <2>3, <2>4, <3>1 DEF Synced
    <3>3. Synced(f, p)' /\ ~overrun'
      BY <2>3, <3>1, <3>2, SyncedStep
    <3>4. QED
      BY <2>5, <3>1, <3>2, <3>3
  <2>9. CASE SkipByte
    <3>1. recvState = "find" /\ f.bytes[p] # Marker
      BY <2>3, <2>9 DEF SkipByte
    <3>2. QED
      BY <2>3, <2>4, <3>1 DEF Synced
  <2>10. CASE TakeHeader
    <3>1. /\ recvState = "header" /\ Store(ring[1])
          /\ recvState' = "data" /\ ring' = <<>> /\ UNCHANGED offered
      BY <2>10 DEF TakeHeader, Consumed, history
    <3>2. p = 3 /\ p # Len(f.bytes)
      BY <2>3, <2>4, <3>1 DEF Synced
    <3>3. Synced(f, p)' /\ ~overrun'
      BY <2>3, <3>1, <3>2, SyncedStep
    <3>4. QED
      BY <2>5, <3>1, <3>2, <3>3
  <2>11. CASE TakeData
    <3>1. /\ recvState = "data" /\ Store(ring[1]) /\ Missing(Collected(ring[1]))
          /\ recvState' = "data" /\ ring' = <<>> /\ UNCHANGED offered
      BY <2>11 DEF TakeData, Consumed, history
    <3>2. p > 3 /\ p # Len(f.bytes)
      BY <2>3, <3>1, SyncedPacket
    <3>3. Synced(f, p)' /\ ~overrun'
      BY <2>3, <3>1, <3>2, SyncedStep
    <3>4. QED
      BY <2>5, <3>1, <3>2, <3>3
  <2>12. ASSUME NEW g \in Frames, Accept(g) PROVE Clean'
    <3>1. /\ recvState = "data" /\ Store(ring[1]) /\ ~Missing(Collected(ring[1]))
          /\ Len(packet) < Buf
          /\ recvState' = "reset" /\ ring' = <<>> /\ offered' = NoFrame
      BY <2>12 DEF Accept, Consumed, AfterParse
    <3>2. p = Len(f.bytes)
      BY <2>3, <3>1, SyncedPacket
    <3>3. sent = 0
      BY <2>2, <3>2 DEF CleanWaiting
    <3>4. ~overrun'
      BY <3>1 DEF Store
    <3>5. CleanConsumed'
      BY <2>1, <3>1, <3>3 DEF CleanConsumed, Synced
    <3>6. QED
      BY <1>3, <2>1, <3>1, <3>4, <3>5 DEF Clean
  <2>13. CASE Reject
    <3>1. recvState = "data"
      BY <2>13 DEF Reject
    <3>2. /\ Missing(packet) /\ Len(packet) < Buf
          /\ ~Missing(Collected(ring[1])) => Intact(Collected(ring[1]))
      BY <2>3, <3>1, SyncedPacket
    <3>3. QED
      BY <2>13, <3>2 DEF Reject
  <2>14. QED
    BY <1>9, <2>6, <2>7, <2>8, <2>9, <2>10, <2>11, <2>12, <2>13 DEF Parser, Quiet
<1>10. QED
  BY <1>4, <1>5, <1>6, <1>7, <1>8, <1>9 DEF ParserNext

----------------------------------------------------------------------------
(* Theorems. *)

\* The parser starts with an empty packet.
LEMMA InitInvariant == ParserInit => IInv
<1> SUFFICES ASSUME ParserInit PROVE IInv
  OBVIOUS
<1>1. ParserTypeOK
  <2>1. MaxFaults \in Nat /\ Buf \in Nat
    BY FrameAssumption
  <2>2. <<>> \in Seq(Byte) /\ Len(<<>>) = 0
    OBVIOUS
  <2>3. whole \in BOOLEAN /\ overrun \in BOOLEAN
    BY Zenon DEF ParserInit
  <2>4. faults \in 0 .. MaxFaults
    BY <2>1 DEF ParserInit
  <2>5. ring \in Seq(Byte) /\ Len(ring) <= 1 /\ packet \in Seq(Byte) /\ Len(packet) <= Buf
    BY <2>1, <2>2 DEF ParserInit
  <2>6. recvState \in States /\ sending = NoFrame /\ sent \in Nat
    BY DEF ParserInit, States
  <2>7. offered = NoFrame /\ taken = NoFrame
    BY DEF ParserInit
  <2>8. QED
    BY <2>3, <2>4, <2>5, <2>6, <2>7 DEF ParserTypeOK
<1>2. sent = 0 /\ Structure /\ LengthMisfits /\ Tagged
  BY DEF ParserInit, Structure, LengthMisfits, Tagged
<1>3. Clean
  <2>1. whole /\ ~overrun /\ ring = <<>>
    BY Zenon DEF ParserInit
  <2>2. CleanConsumed
    BY DEF ParserInit, CleanConsumed
  <2>3. QED
    BY <2>1, <2>2 DEF Clean
<1>4. QED
  BY <1>1, <1>2, <1>3 DEF IInv

\* Each byte and each fault keeps the invariant.
LEMMA NextInvariant == IInv /\ [ParserNext]_parserVars => IInv'
<1> SUFFICES ASSUME IInv, [ParserNext]_parserVars PROVE IInv'
  OBVIOUS
<1>1. /\ ParserTypeOK /\ (sending = NoFrame => sent = 0) /\ (~overrun => Structure)
      /\ LengthMisfits /\ Tagged /\ Clean
  BY DEF IInv
<1>2. ParserTypeOK'
  BY <1>1, TypeStep
<1>3. (~overrun' => Structure') /\ LengthMisfits'
  BY <1>1, StructureStep
<1>4. Tagged'
  BY <1>1, TaggedStep
<1>5. Clean' /\ (sending' = NoFrame => sent' = 0)
  BY <1>1, CleanStep
<1>6. QED
  BY <1>2, <1>3, <1>4, <1>5 DEF IInv

\* The inductive invariant: it relates what the parser has collected to what
\* is on the line.
THEOREM Invariance == ParserSpec => []IInv
  BY InitInvariant, NextInvariant, PTL DEF ParserSpec

\* The parser's variables keep their types, for every line and every fault.
THEOREM TypeCorrect == ParserSpec => []ParserTypeOK
<1>1. IInv => ParserTypeOK
  BY DEF IInv
<1>2. QED
  BY <1>1, Invariance, PTL

\* Whatever happens on the line, io_rc_protocol_update runs s.rx.packet over
\* only when what it takes for the length does not fit, or was already passed,
\* and never while the line is undisturbed.
THEOREM OverrunCause == ParserSpec => []OverrunOnlyByNoise
<1>1. IInv => OverrunOnlyByNoise
  <2>1. ParserTypeOK => faults \in Nat
    BY FrameAssumption DEF ParserTypeOK
  <2>2. QED
    BY <2>1 DEF IInv, Clean, OverrunOnlyByNoise
<1>2. QED
  BY <1>1, Invariance, PTL

\* The byte parser implements the abstract receiver: only undisturbed frames
\* are handed on, each once, and all of them while the line is undisturbed.
THEOREM Refinement == ParserSpec => ImplementsReceiver
<1>1. ParserInit => Receiver!Init
  BY DEF ParserInit, Receiver!Init
<1>2. ASSUME IInv, [ParserNext]_parserVars
      PROVE  [Receiver!Next]_Receiver!vars
  <2> USE DEF Receiver!Next, Receiver!vars
  <2>1. /\ ParserTypeOK /\ Tagged /\ Clean /\ faults \in Nat /\ MaxFaults \in Nat
        /\ NoFrame \notin Frames
    BY <1>2, FrameAssumption DEF IInv, ParserTypeOK
  <2>2. ASSUME UNCHANGED <<offered, taken, faults>>
        PROVE  [Receiver!Next]_Receiver!vars
    BY <2>2
  <2>3. CASE SendByte
    <3>1. sending \in Frames /\ ring = <<>> /\ UNCHANGED <<taken, faults>>
      BY <1>2, <2>1, <2>3, PassedTypes DEF SendByte, Passed
    <3>2. CASE offered' = offered
      BY <2>2, <3>1, <3>2
    <3>3. CASE offered' = sending
      <4>1. faults = 0 => offered = NoFrame
        BY <2>1, <3>1 DEF Clean, CleanConsumed
      <4>2. offered = NoFrame \/ faults > 0
        BY <2>1, <4>1
      <4>3. Receiver!Offer
        BY <3>1, <3>3, <4>2 DEF Receiver!Offer
      <4>4. QED
        BY <4>3
    <3>4. QED
      BY <2>3, <3>2, <3>3 DEF SendByte
  <2>4. CASE Disturb \/ ParserRestart
    <3>1. UNCHANGED <<offered, taken>>
      BY <2>4 DEF Disturb, LoseByte, ChangeByte, InsertByte, ParserRestart, history
    <3>2. faults' > 0
      <4>1. CASE Disturb
        BY <2>1, <4>1 DEF Disturb, LoseByte, ChangeByte, InsertByte, Disturbance
      <4>2. CASE ParserRestart
        BY <2>1, <4>2 DEF ParserRestart, Clean
      <4>3. QED
        BY <2>4, <4>1, <4>2
    <3>3. Receiver!Disturb
      BY <3>1, <3>2 DEF Receiver!Disturb
    <3>4. QED
      BY <3>3
  <2>5. ASSUME NEW f \in Frames, Accept(f)
        PROVE  [Receiver!Next]_Receiver!vars
    <3>1. offered = f /\ taken' = f /\ offered' = NoFrame
      BY <2>1, <2>5, AcceptedIsOffered
    <3>2. UNCHANGED faults
      BY <2>5 DEF Accept, line
    <3>3. Receiver!Take
      BY <2>1, <3>1, <3>2 DEF Receiver!Take
    <3>4. QED
      BY <3>3
  <2>6. CASE Quiet \/ SkipByte
    BY <2>2, <2>6 DEF Quiet, SkipByte, Reset, TakeMarker, TakeType, TakeHeader, TakeData, Reject,
                      line, history
  <2>7. CASE UNCHANGED parserVars \/ \E f \in Frames : StartFrame(f)
    BY <2>2, <2>7 DEF parserVars, line, history, StartFrame
  <2>8. QED
    BY <1>2, <2>3, <2>4, <2>5, <2>6, <2>7 DEF ParserNext, Parser
<1>3. QED
  BY <1>1, <1>2, Invariance, PTL DEF ParserSpec, ImplementsReceiver, Receiver!Spec

=============================================================================
