------------------------ MODULE TelemetryRecv_proofs ------------------------
(***************************************************************************)
(* Theorems about TelemetryRecv, for every set of variables and writes,    *)
(* every length of the frame and every FIFO.  That writes are carried out  *)
(* as sent holds whatever ByteXor computes, since both sides compute the   *)
(* checksum in the same order; what the loss of a byte does depends on it. *)
(***************************************************************************)
EXTENDS TelemetryRecv, SequenceTheorems, WellFoundedInduction, TLAPS

----------------------------------------------------------------------------
(* What is on the line.                                                    *)

\* Induction over the natural numbers, for a set instead of a predicate.
LEMMA NatInd ==
  ASSUME NEW S, 0 \in S, \A n \in Nat : n \in S => n + 1 \in S
  PROVE  \A n \in Nat : n \in S
<1> SUFFICES ASSUME NEW m \in Nat, m \notin S PROVE FALSE
  OBVIOUS
<1> DEFINE T == Nat \ S
<1>1. PICK x \in T : \A y \in T : ~(<<y, x>> \in OpToRel(<, Nat))
  <2>1. IsWellFoundedOn(OpToRel(<, Nat), Nat)
    BY NatLessThanWellFounded
  <2>2. T \subseteq Nat /\ T # {}
    OBVIOUS
  <2> HIDE DEF T
  <2>3. QED
    BY <2>1, <2>2, WFMin, Zenon
<1>2. x # 0 /\ x - 1 \in Nat /\ (x - 1) + 1 = x
  OBVIOUS
<1>3. x - 1 \in T
  BY <1>2
<1>4. <<x - 1, x>> \in OpToRel(<, Nat)
  BY <1>2 DEF OpToRel
<1>5. QED
  BY <1>1, <1>3, <1>4

\* c is the checksum of p's first bytes, up to the n-th.
Crcs(p, n, c) == c = [i \in 1 .. n |-> IF i = 1 THEN p[1] ELSE ByteXor(c[i - 1], p[i])]

\* Each first part of a payload has its checksums.
LEMMA CrcsExist ==
    ASSUME NEW p
    PROVE  \A n \in Nat : \E c : Crcs(p, n, c)
<1> DEFINE S == {n \in Nat : \E c : Crcs(p, n, c)}
<1>1. 0 \in S
  <2> DEFINE c == [i \in 1 .. 0 |-> 0]
  <2>1. Crcs(p, 0, c)
    BY DEF Crcs
  <2>2. QED
    BY <2>1
<1>2. ASSUME NEW n \in Nat, n \in S PROVE n + 1 \in S
  <2>1. PICK c : Crcs(p, n, c)
    BY <1>2
  <2> DEFINE last == IF n = 0 THEN p[1] ELSE ByteXor(c[n], p[n + 1])
             d == [i \in 1 .. n + 1 |-> IF i = n + 1 THEN last ELSE c[i]]
  <2>2. ASSUME NEW i \in 1 .. n + 1
        PROVE  d[i] = IF i = 1 THEN p[1] ELSE ByteXor(d[i - 1], p[i])
    <3>1. CASE i = n + 1
      <4>1. CASE n = 0
        BY <3>1, <4>1
      <4>2. CASE n # 0
        <5>1. i # 1 /\ i - 1 = n /\ d[n] = c[n] /\ d[i] = ByteXor(c[n], p[n + 1])
          BY <3>1, <4>2
        <5>2. d[i - 1] = c[n] /\ p[i] = p[n + 1]
          BY <3>1, <5>1
        <5> HIDE DEF d
        <5>3. QED
          BY <5>1, <5>2
      <4>3. QED
        BY <4>1, <4>2
    <3>2. CASE i # n + 1
      <4>1. i \in 1 .. n /\ (i # 1 => i - 1 \in 1 .. n)
        BY <3>2
      <4>2. c[i] = IF i = 1 THEN p[1] ELSE ByteXor(c[i - 1], p[i])
        BY <2>1, <4>1 DEF Crcs
      <4>3. d[i] = c[i] /\ (i # 1 => d[i - 1] = c[i - 1])
        BY <4>1
      <4> HIDE DEF d
      <4>4. QED
        BY <4>2, <4>3
    <3>3. QED
      BY <3>1, <3>2
  <2>3. DOMAIN d = 1 .. n + 1 /\ d = [i \in DOMAIN d |-> d[i]]
    OBVIOUS
  <2> HIDE DEF d
  <2>4. Crcs(p, n + 1, d)
    BY <2>2, <2>3, Zenon DEF Crcs
  <2>5. QED
    BY <2>4
<1> HIDE DEF S
<1>3. \A n \in Nat : n \in S
  BY <1>1, <1>2, NatInd, Zenon
<1>4. QED
  BY <1>3 DEF S

\* The checksum takes the first byte, then each in turn.
LEMMA RunningCrcs ==
    ASSUME NEW D, NEW p \in Seq(D)
    PROVE  /\ Len(p) > 0 => RunningCrc(p)[1] = p[1]
           /\ \A i \in 2 .. Len(p) : RunningCrc(p)[i] = ByteXor(RunningCrc(p)[i - 1], p[i])
<1>1. \E c : Crcs(p, Len(p), c)
  <2>1. Len(p) \in Nat
    OBVIOUS
  <2>2. QED
    BY <2>1, CrcsExist, Zenon
<1>2. RunningCrc(p) = CHOOSE c : Crcs(p, Len(p), c)
  BY Zenon DEF RunningCrc, Crcs
<1>3. Crcs(p, Len(p), RunningCrc(p))
  BY <1>1, <1>2, Zenon
<1>4. \A i \in 1 .. Len(p) :
        RunningCrc(p)[i] = IF i = 1 THEN p[1] ELSE ByteXor(RunningCrc(p)[i - 1], p[i])
  BY <1>3, Zenon DEF Crcs
<1>5. QED
  BY <1>4

\* marker, type, size, the payload and its checksum
FrameLen == Times + 7

\* Where the id and the value are.
LEMMA Payloads ==
    ASSUME NEW w \in Writes
    PROVE  /\ PayloadOf(w) \in Seq(Nat) /\ Len(PayloadOf(w)) = PayloadSize
           /\ PayloadOf(w)[IdAt] = w.id /\ PayloadOf(w)[ValueAt] = w.value
<1>1. Times \in Nat /\ TdmWrite \in Nat /\ w.id \in Nat /\ w.value \in Nat
  BY RecvAssumption
<1> DEFINE z == [i \in 1 .. Times |-> 0]
<1>2. z \in Seq(Nat) /\ Len(z) = Times
  BY <1>1
<1> HIDE DEF z
<1>3. <<TdmWrite>> \in Seq(Nat) /\ <<w.id, w.value>> \in Seq(Nat)
  BY <1>1
<1>4. <<TdmWrite>> \o z \in Seq(Nat) /\ Len(<<TdmWrite>> \o z) = Times + 1
  BY <1>1, <1>2, <1>3
<1> DEFINE y == <<TdmWrite>> \o z
<1> HIDE DEF y
<1>5. y \in Seq(Nat) /\ Len(y) = Times + 1
  BY <1>4 DEF y
<1>6. y \o <<w.id, w.value>> \in Seq(Nat) /\ Len(y \o <<w.id, w.value>>) = Times + 3
  BY <1>1, <1>3, <1>5
<1>7. (y \o <<w.id, w.value>>)[Times + 2] = w.id /\ (y \o <<w.id, w.value>>)[Times + 3] = w.value
  BY <1>1, <1>3, <1>5
<1>8. PayloadOf(w) = y \o <<w.id, w.value>>
  BY DEF PayloadOf, y, z
<1>9. QED
  BY <1>6, <1>7, <1>8 DEF PayloadSize, IdAt, ValueAt

\* The bytes of a frame, one by one.
LEMMA FrameBytes ==
    ASSUME NEW w \in Writes
    PROVE  /\ Len(Bytes[w]) = FrameLen
           /\ Bytes[w][1] = Marker /\ Bytes[w][2] = DataMod /\ Bytes[w][3] = PayloadSize
           /\ \A i \in 1 .. PayloadSize : Bytes[w][i + 3] = PayloadOf(w)[i]
           /\ Bytes[w][FrameLen] = RunningCrc(PayloadOf(w))[PayloadSize]
<1> DEFINE p == PayloadOf(w)
           c == RunningCrc(p)[Len(p)]
<1>1. Bytes[w] = <<Marker, DataMod, Len(p)>> \o p \o <<c>>
  BY DEF Bytes
<1>2. p \in Seq(Nat) /\ Len(p) = PayloadSize /\ PayloadSize = Times + 3 /\ Times \in Nat
  BY Payloads, RecvAssumption DEF PayloadSize
<1>3. c = RunningCrc(p)[PayloadSize]
  BY <1>2
<1> HIDE DEF p, c
<1> DEFINE h == <<Marker, DataMod, Len(p)>>
           S == Nat \cup {c}
<1>4. h \in Seq(Nat) /\ Len(h) = 3 /\ h[1] = Marker /\ h[2] = DataMod /\ h[3] = PayloadSize
  <2>1. Marker \in Nat /\ DataMod \in Nat
    BY RecvAssumption
  <2>2. Len(p) \in Nat
    BY <1>2
  <2>3. QED
    BY <1>2, <2>1, <2>2
<1> HIDE DEF h
<1> DEFINE g == h \o p
<1>5. /\ g \in Seq(Nat) /\ Len(g) = Times + 6
      /\ g[1] = Marker /\ g[2] = DataMod /\ g[3] = PayloadSize
      /\ \A i \in 1 .. PayloadSize : g[i + 3] = p[i]
  <2>0. h \in Seq(Nat) /\ p \in Seq(Nat)
    BY <1>2, <1>4
  <2>1. /\ g \in Seq(Nat) /\ Len(g) = Len(h) + Len(p)
        /\ \A i \in 1 .. Len(h) + Len(p) : g[i] = IF i <= Len(h) THEN h[i] ELSE p[i - Len(h)]
    BY <2>0, ConcatProperties, Zenon
  <2> HIDE DEF g
  <2>2. /\ g \in Seq(Nat) /\ Len(g) = 3 + Len(p)
        /\ \A i \in 1 .. 3 + Len(p) : g[i] = IF i <= 3 THEN h[i] ELSE p[i - 3]
    BY <1>4, <2>1
  <2>3. g[1] = h[1] /\ g[2] = h[2] /\ g[3] = h[3]
    BY <1>2, <2>2
  <2>4. ASSUME NEW i \in 1 .. PayloadSize PROVE g[i + 3] = p[i]
    BY <1>2, <2>2
  <2>5. QED
    BY <1>2, <1>4, <2>2, <2>3, <2>4
<1> HIDE DEF g
<1>6. g \in Seq(S) /\ <<c>> \in Seq(S)
  BY <1>5
<1>7. /\ Len(g \o <<c>>) = Times + 7 /\ (g \o <<c>>)[Times + 7] = c
      /\ \A i \in 1 .. Times + 6 : (g \o <<c>>)[i] = g[i]
  <2> DEFINE l == <<c>>
  <2>1. Len(l) = 1 /\ l[1] = c /\ l \in Seq(S) /\ g \in Seq(S)
    BY <1>6
  <2> HIDE DEF l, S
  <2>2. /\ Len(g \o l) = Len(g) + Len(l)
        /\ \A i \in 1 .. Len(g) + Len(l) : (g \o l)[i] = IF i <= Len(g) THEN g[i] ELSE l[i - Len(g)]
    BY <2>1, ConcatProperties, Zenon
  <2> DEFINE y == g \o l
  <2> HIDE DEF y
  <2>3. Len(y) = Times + 7 /\ \A i \in 1 .. Times + 7 : y[i] = IF i <= Times + 6 THEN g[i] ELSE l[i - (Times + 6)]
    BY <1>2, <1>5, <2>1, <2>2, SMTT(30) DEF y
  <2>4. y[Times + 7] = c /\ \A i \in 1 .. Times + 6 : y[i] = g[i]
    BY <1>2, <2>1, <2>3
  <2>5. QED
    BY <2>3, <2>4 DEF y, l
<1>8. Bytes[w] = g \o <<c>>
  BY <1>1 DEF g, h
<1>9. /\ Len(Bytes[w]) = Times + 7 /\ Bytes[w][Times + 7] = c
      /\ \A i \in 1 .. Times + 6 : Bytes[w][i] = g[i]
  BY <1>7, <1>8, Zenon
<1>10. {1, 2, 3} \subseteq 1 .. Times + 6
  BY <1>2
<1>11. Bytes[w][1] = Marker /\ Bytes[w][2] = DataMod /\ Bytes[w][3] = PayloadSize
  BY <1>5, <1>9, <1>10
<1>12. ASSUME NEW i \in 1 .. PayloadSize PROVE Bytes[w][i + 3] = p[i]
  <2>1. i + 3 \in 1 .. Times + 6
    BY <1>2
  <2>2. QED
    BY <1>5, <1>9, <2>1, Zenon
<1>13. Len(Bytes[w]) = FrameLen /\ Bytes[w][FrameLen] = RunningCrc(p)[PayloadSize]
  BY <1>3, <1>9 DEF FrameLen
<1>14. QED
  BY <1>11, <1>12, <1>13 DEF p

----------------------------------------------------------------------------
(* The parser, as long as nothing is lost.                                 *)

\* All the ground sends.
Sendable == {Bytes[w][i] : w \in Writes, i \in 1 .. FrameLen}

\* telemetry_recv has taken the first k bytes of w's frame.
Follows(w, k) ==
    /\ k = 0 => recvState = "RESET"
    /\ k = 1 => recvState = "MARKER" /\ marked
    /\ k = 2 => recvState = "SIZE" /\ type = DataMod
    /\ k >= 3 =>
        /\ recvState = "PAYLOAD" /\ type = DataMod /\ size = PayloadSize /\ offset = k - 3
        /\ k > 3 => crc = RunningCrc(PayloadOf(w))[k - 3]
        /\ \A i \in 1 .. k - 3 : payload[i] = PayloadOf(w)[i]

\* The last byte carries the write out, the others only go one further.
LEMMA RecvFollows ==
    ASSUME NEW w \in Writes, NEW k \in 0 .. FrameLen - 1, Follows(w, k),
           payload \in [1 .. PayloadSize -> Sendable \cup {0}], Recv(Bytes[w][k + 1])
    PROVE  /\ payload' \in [1 .. PayloadSize -> Sendable \cup {0}]
           /\ k + 1 < FrameLen => Follows(w, k + 1)' /\ values' = values
           /\ k + 1 = FrameLen =>
                /\ recvState' = "RESET"
                /\ values' = IF w.id \in Vars THEN [values EXCEPT ![w.id] = w.value] ELSE values
<1> DEFINE b == Bytes[w][k + 1]
           p == PayloadOf(w)
<1>1. Times \in Nat /\ FrameLen = Times + 7 /\ PayloadSize = Times + 3 /\ k \in Nat
  BY RecvAssumption DEF FrameLen, PayloadSize
<1>2. Marker # DataMod
  BY RecvAssumption
<1>3. b \in Sendable
  BY <1>1 DEF Sendable
<1>4. CASE k = 0
  <2>1. recvState = "RESET" /\ b = Marker
    BY <1>4, FrameBytes DEF Follows
  <2>2. TakeMarker(b)
    BY <2>1 DEF Recv, TakeMarker, SkipByte, TakeType, TakeSize, TakePayload, TakeCrc, Searching
  <2>3. recvState' = "MARKER" /\ marked' /\ payload' = payload /\ values' = values
    BY <2>2 DEF TakeMarker
  <2>4. QED
    BY <1>1, <1>4, <2>3 DEF Follows
<1>5. CASE k = 1
  <2>1. recvState = "MARKER" /\ marked /\ b = DataMod /\ b # Marker
    BY <1>2, <1>5, FrameBytes DEF Follows
  <2>2. TakeType(b)
    BY <2>1 DEF Recv, TakeMarker, SkipByte, TakeType, TakeSize, TakePayload, TakeCrc, Searching
  <2>3. recvState' = "SIZE" /\ type' = DataMod /\ payload' = payload /\ values' = values
    BY <2>1, <2>2 DEF TakeType
  <2>4. QED
    BY <1>1, <1>5, <2>3 DEF Follows
<1>6. CASE k = 2
  <2>1. recvState = "SIZE" /\ type = DataMod /\ b = PayloadSize
    BY <1>6, FrameBytes DEF Follows
  <2>2. TakeSize(b)
    BY <2>1 DEF Recv, TakeMarker, SkipByte, TakeType, TakeSize, TakePayload, TakeCrc, Searching
  <2>3. /\ recvState' = "PAYLOAD" /\ type' = DataMod /\ size' = PayloadSize /\ offset' = 0
        /\ payload' = payload /\ values' = values
    BY <2>1, <2>2 DEF TakeSize
  <2>4. QED
    BY <1>1, <1>6, <2>3 DEF Follows
<1>7. CASE k >= 3 /\ k + 1 < FrameLen
  <2>1. /\ recvState = "PAYLOAD" /\ type = DataMod /\ size = PayloadSize /\ offset = k - 3
        /\ offset > 0 => crc = RunningCrc(p)[offset]
        /\ \A i \in 1 .. offset : payload[i] = p[i]
    BY <1>1, <1>7 DEF Follows
  <2>2. offset \in Nat /\ offset < size /\ offset < PayloadSize /\ PayloadSize \in Nat
    BY <1>1, <1>7, <2>1
  <2>3. b = p[offset + 1]
    <3>1. offset + 1 \in 1 .. PayloadSize /\ (offset + 1) + 3 = k + 1
      BY <1>1, <2>1, <2>2
    <3>2. QED
      BY <3>1, FrameBytes
  <2>4. TakePayload(b)
    BY <2>1, <2>2
       DEF Recv, TakeMarker, SkipByte, TakeType, TakeSize, TakePayload, TakeCrc, Searching
  <2>5. crc' = RunningCrc(p)[offset + 1]
    <3>1. /\ RunningCrc(p)[1] = p[1]
          /\ \A i \in 2 .. PayloadSize : RunningCrc(p)[i] = ByteXor(RunningCrc(p)[i - 1], p[i])
      <4>1. p \in Seq(Nat) /\ Len(p) = PayloadSize
        BY Payloads
      <4>2. /\ Len(p) > 0 => RunningCrc(p)[1] = p[1]
            /\ \A i \in 2 .. Len(p) : RunningCrc(p)[i] = ByteXor(RunningCrc(p)[i - 1], p[i])
        BY <4>1, RunningCrcs, Zenon
      <4> HIDE DEF p
      <4>3. QED
        BY <1>1, <4>1, <4>2
    <3>2. crc' = IF offset = 0 THEN b ELSE ByteXor(crc, b)
      BY <2>4 DEF TakePayload
    <3>3. CASE offset = 0
      BY <2>3, <3>1, <3>2, <3>3
    <3>4. CASE offset # 0
      <4>1. offset + 1 \in 2 .. PayloadSize /\ (offset + 1) - 1 = offset
        BY <2>2, <3>4
      <4>2. RunningCrc(p)[offset + 1] = ByteXor(RunningCrc(p)[offset], p[offset + 1])
        BY <3>1, <4>1
      <4>3. crc = RunningCrc(p)[offset]
        <5>1. offset > 0
          BY <2>2, <3>4
        <5>2. QED
          BY <2>1, <5>1, Zenon
      <4>4. QED
        BY <2>3, <3>2, <3>4, <4>2, <4>3
    <3>5. QED
      BY <3>3, <3>4
  <2>6. payload' = [payload EXCEPT ![offset + 1] = b]
    BY <2>1, <2>2, <2>4 DEF TakePayload, Stored
  <2>7. /\ recvState' = "PAYLOAD" /\ type' = DataMod /\ size' = PayloadSize
        /\ offset' = offset + 1 /\ values' = values
    BY <2>1, <2>4 DEF TakePayload
  <2>8. payload' \in [1 .. PayloadSize -> Sendable \cup {0}]
    BY <1>3, <2>1, <2>2, <2>6
  <2>9. \A i \in 1 .. offset + 1 : payload'[i] = p[i]
    <3>1. ASSUME NEW i \in 1 .. offset + 1 PROVE payload'[i] = p[i]
      <4>1. CASE i = offset + 1
        <5>1. i \in 1 .. PayloadSize
          BY <2>2, <4>1
        <5>2. payload'[i] = b
          BY <2>6, <4>1, <5>1
        <5>3. QED
          BY <2>3, <4>1, <5>2
      <4>2. CASE i # offset + 1
        <5>1. i \in 1 .. offset
          BY <2>2, <4>2
        <5>2. payload[i] = p[i]
          BY <2>1, <5>1, Zenon
        <5>3. payload'[i] = payload[i]
          BY <2>6, <4>2, <2>1, <2>2
        <5>4. QED
          BY <5>2, <5>3
      <4>3. QED
        BY <4>1, <4>2
    <3>2. QED
      BY <3>1
  <2>10. offset + 1 = (k + 1) - 3
    BY <2>1
  <2>11. Follows(w, k + 1)'
    BY <1>7, <2>5, <2>7, <2>9, <2>10 DEF Follows
  <2>12. QED
    BY <1>7, <2>7, <2>8, <2>11
<1>8. CASE k + 1 = FrameLen
  <2>1. /\ recvState = "PAYLOAD" /\ type = DataMod /\ offset = PayloadSize /\ size = PayloadSize
        /\ crc = RunningCrc(p)[PayloadSize]
        /\ \A i \in 1 .. PayloadSize : payload[i] = p[i]
    BY <1>1, <1>8 DEF Follows
  <2>2. crc = b
    BY <1>8, <2>1, FrameBytes
  <2>3. TakeCrc(b)
    BY <1>1, <2>1
       DEF Recv, TakeMarker, SkipByte, TakeType, TakeSize, TakePayload, TakeCrc, Searching
  <2>4. payload[IdAt] = w.id /\ payload[ValueAt] = w.value
    <3>1. IdAt \in 1 .. PayloadSize /\ ValueAt \in 1 .. PayloadSize
      BY <1>1 DEF IdAt, ValueAt
    <3>2. payload[IdAt] = p[IdAt] /\ payload[ValueAt] = p[ValueAt]
      BY <2>1, <3>1, Zenon
    <3>3. QED
      BY <3>2, Payloads
  <2>5. values' = IF w.id \in Vars THEN [values EXCEPT ![w.id] = w.value] ELSE values
    BY <2>1, <2>2, <2>3, <2>4 DEF TakeCrc, Accepts, SetsVar
  <2>6. recvState' = "RESET" /\ payload' = payload
    BY <2>3 DEF TakeCrc, AfterFrame
  <2>7. QED
    BY <1>8, <2>5, <2>6
<1>9. QED
  BY <1>1, <1>4, <1>5, <1>6, <1>7, <1>8

----------------------------------------------------------------------------
(* The bytes between the ground and the parser.                            *)

\* A byte in the FIFO: of which write, which one, and how many writes of Save
\* the ground had sent when it arrived.
Tags == [of : Writes, at : 1 .. FrameLen, req : Nat]

Last(T) == T[Len(T)]

\* Frames one behind the other, up to where the line is.
Consecutive(T) ==
    \A i \in 1 .. Len(T) - 1 :
        IF T[i].at < FrameLen
        THEN T[i + 1].of = T[i].of /\ T[i + 1].at = T[i].at + 1
        ELSE T[i + 1].at = 1

UpToLine(T) ==
    Len(T) > 0 =>
        IF sent > 0 THEN Last(T).of = frame /\ Last(T).at = sent ELSE Last(T).at = FrameLen

\* T says what is in the FIFO, from where the parser is to where the line is.
Queued(T) ==
    /\ T \in Seq(Tags) /\ Len(T) = Len(fifo)
    /\ \A i \in 1 .. Len(T) : fifo[i] = Bytes[T[i].of][T[i].at]
    /\ Consecutive(T) /\ UpToLine(T)
    /\ IF Len(T) > 0 THEN Follows(T[1].of, T[1].at - 1) ELSE Follows(frame, sent)

\* The last bytes of writes of v.
Ends(T, v) == {i \in 1 .. Len(T) : T[i].at = FrameLen /\ T[i].of.id = v}

\* What the ground told of v is on the line, or it is the last of what is in the
\* FIFO, or else what v has.
TellsOf(T, v) ==
    IF frame.id = v
    THEN told[v] = frame.value
    ELSE /\ \A i \in Ends(T, v) : (\A j \in Ends(T, v) : j <= i) => told[v] = T[i].of.value
         /\ Ends(T, v) = {} => told[v] = values[v]

\* Of the writes of Save, those whose last byte has arrived.
Arrived == requests - (IF frame.id = Save THEN 1 ELSE 0)

\* Each write of Save in the FIFO has a number of its own, above what was
\* already carried out.
Numbered(T) ==
    /\ saves + values[Save] <= Arrived
    /\ \A i \in Ends(T, Save) : saves + values[Save] < T[i].req /\ T[i].req <= Arrived
    /\ \A i, j \in Ends(T, Save) : i < j => T[i].req < T[j].req

LineTypes ==
    /\ frame \in Writes \cup {NoFrame} /\ sent \in 0 .. FrameLen - 1
    /\ frame = NoFrame => sent = 0
    /\ fifo \in Seq(Sendable)
    /\ payload \in [1 .. PayloadSize -> Sendable \cup {0}]
    /\ values \in [Vars -> 0 .. 255] /\ told \in [Vars -> 0 .. 255]
    /\ saves \in Nat /\ requests \in Nat

Told(T) == \A v \in Vars \ {Save} : TellsOf(T, v)

Unlost(T) == Queued(T) /\ Told(T) /\ Numbered(T)

RecvInv == lost \in Nat /\ (lost = 0 => LineTypes /\ \E T : Unlost(T))

\* A write that begins is the last word on its variable.
LEMMA WriteQueues ==
    ASSUME LineTypes, NEW T, Unlost(T), NEW w \in Writes, Write(w)
    PROVE  (LineTypes /\ Unlost(T))'
<1>1. /\ frame = NoFrame /\ sent = 0 /\ frame' = w /\ sent' = 0
      /\ requests' = (IF w.id = Save THEN requests + 1 ELSE requests)
      /\ told' = (IF w.id \in Vars THEN [told EXCEPT ![w.id] = w.value] ELSE told)
      /\ UNCHANGED <<fifo, recvState, marked, type, size, offset, crc, payload, values, saves>>
  BY DEF Write, LineTypes, parser
<1>2. Times \in Nat /\ w.id \in Nat /\ w.value \in 0 .. 255 /\ 0 \notin Vars
  BY RecvAssumption
<1>3. LineTypes'
  <2>1. told' \in [Vars -> 0 .. 255]
    BY <1>1, <1>2 DEF LineTypes
  <2>2. requests' \in Nat /\ sent' \in 0 .. FrameLen - 1
    BY <1>1, <1>2 DEF LineTypes, FrameLen
  <2>3. QED
    BY <1>1, <2>1, <2>2 DEF LineTypes
<1>4. Queued(T)'
  <2>1. T \in Seq(Tags) /\ Len(T) \in Nat
    BY DEF Unlost, Queued, Consecutive, UpToLine
  <2>2. CASE Len(T) > 0
    BY <1>1, <2>2 DEF Unlost, Queued, Consecutive, UpToLine, Follows
  <2>3. CASE Len(T) = 0
    BY <1>1, <2>3 DEF Unlost, Queued, Consecutive, UpToLine, Follows
  <2>4. QED
    BY <2>1, <2>2, <2>3
<1>5. Told(T)'
  <2> SUFFICES ASSUME NEW v \in Vars \ {Save} PROVE TellsOf(T, v)'
    BY DEF Told
  <2>1. TellsOf(T, v)
    BY DEF Unlost, Told
  <2>2. frame.id # v
    BY <1>1, <1>2 DEF NoFrame
  <2>3. CASE w.id = v
    BY <1>1, <2>3 DEF LineTypes, TellsOf
  <2>4. CASE w.id # v
    <3>1. told'[v] = told[v]
      BY <1>1, <2>4 DEF LineTypes
    <3>2. QED
      BY <1>1, <2>1, <2>2, <2>4, <3>1 DEF TellsOf, Ends
  <2>5. QED
    BY <2>3, <2>4
<1>6. Numbered(T)'
  <2>1. frame.id # Save
    BY <1>1, <1>2, RecvAssumption DEF NoFrame
  <2>2. Arrived' = Arrived
    BY <1>1, <2>1 DEF Arrived, LineTypes
  <2>3. QED
    BY <1>1, <2>2 DEF Unlost, Numbered, Ends
<1>7. QED
  BY <1>3, <1>4, <1>5, <1>6 DEF Unlost

\* A byte that arrives is the next of its frame, and the last one takes the
\* write from the line to the FIFO.
LEMMA ArrivalQueues ==
    ASSUME LineTypes, NEW T, Unlost(T), ByteArrives, lost = 0, lost' = 0
    PROVE  LineTypes' /\ \E S : Unlost(S)'
<1> DEFINE t == [of |-> frame, at |-> sent + 1, req |-> requests]
           n == Len(T)
<1>1. /\ frame \in Writes /\ sent \in 0 .. FrameLen - 1 /\ FrameLen = Times + 7 /\ Times \in Nat
      /\ Len(Bytes[frame]) = FrameLen
  BY FrameBytes, RecvAssumption DEF LineTypes, ByteArrives, FrameLen
<1>2. /\ fifo' = Append(fifo, Bytes[frame][sent + 1])
      /\ frame' = (IF sent + 1 = FrameLen THEN NoFrame ELSE frame)
      /\ sent' = (IF sent + 1 = FrameLen THEN 0 ELSE sent + 1)
      /\ UNCHANGED <<recvState, marked, type, size, offset, crc, payload, values, saves,
                     requests, told>>
  <2>1. Len(fifo) # Depth
    BY DEF ByteArrives
  <2>2. QED
    BY <1>1, <2>1 DEF ByteArrives, parser
<1>3. T \in Seq(Tags) /\ n \in Nat /\ n = Len(fifo) /\ fifo \in Seq(Sendable)
  BY DEF Unlost, Queued, Consecutive, UpToLine, LineTypes
<1>4. t \in Tags
  BY <1>1 DEF Tags, LineTypes
<1>5. PICK S : S \in Seq(Tags) /\ Len(S) = n + 1 /\ S[n + 1] = t /\ \A i \in 1 .. n : S[i] = T[i]
  <2>1. LET S == Append(T, t)
        IN  S \in Seq(Tags) /\ Len(S) = n + 1 /\ S[n + 1] = t /\ \A i \in 1 .. n : S[i] = T[i]
    BY <1>3, <1>4
  <2>2. QED
    BY <2>1
<1>6. LineTypes'
  <2>1. Bytes[frame][sent + 1] \in Sendable
    BY <1>1 DEF Sendable
  <2>2. fifo' \in Seq(Sendable)
    BY <1>2, <1>3, <2>1
  <2>3. frame' \in Writes \cup {NoFrame} /\ sent' \in 0 .. FrameLen - 1 /\ (frame' = NoFrame => sent' = 0)
    BY <1>1, <1>2 DEF LineTypes, ByteArrives
  <2>4. QED
    BY <1>2, <2>2, <2>3 DEF LineTypes
<1>7. t.of = frame /\ t.at = sent + 1 /\ t.req = requests
  OBVIOUS
<1> HIDE DEF t, n
<1>8. Queued(S)'
  <2>1. Len(S) = Len(fifo')
    BY <1>2, <1>3, <1>5
  <2>2. ASSUME NEW i \in 1 .. Len(S) PROVE fifo'[i] = Bytes[S[i].of][S[i].at]
    <3>1. CASE i = n + 1
      BY <1>2, <1>3, <1>5, <1>7, <3>1
    <3>2. CASE i # n + 1
      <4>1. i \in 1 .. n /\ fifo'[i] = fifo[i]
        BY <1>2, <1>3, <1>5, <3>2
      <4>2. QED
        BY <1>5, <4>1 DEF Unlost, Queued, Consecutive, UpToLine, n
    <3>3. QED
      BY <3>1, <3>2
  <2>3. ASSUME NEW i \in 1 .. Len(S) - 1
        PROVE  IF S[i].at < FrameLen
               THEN S[i + 1].of = S[i].of /\ S[i + 1].at = S[i].at + 1
               ELSE S[i + 1].at = 1
    <3>1. CASE i = n
      <4>1. n > 0 /\ S[i] = Last(T) /\ S[i + 1] = t
        BY <1>3, <1>5, <3>1 DEF Last, n
      <4>2. IF sent > 0 THEN Last(T).of = frame /\ Last(T).at = sent ELSE Last(T).at = FrameLen
        BY <4>1 DEF Unlost, Queued, Consecutive, UpToLine, n
      <4>3. QED
        BY <1>1, <1>7, <4>1, <4>2
    <3>2. CASE i # n
      <4>1. i \in 1 .. n - 1 /\ S[i] = T[i] /\ S[i + 1] = T[i + 1]
        BY <1>3, <1>5, <3>2
      <4>2. QED
        BY <4>1 DEF Unlost, Queued, Consecutive, UpToLine, n
    <3>3. QED
      BY <3>1, <3>2
  <2>4. IF sent' > 0 THEN Last(S).of = frame' /\ Last(S).at = sent' ELSE Last(S).at = FrameLen
    <3>1. Last(S) = t
      BY <1>5 DEF Last
    <3>2. QED
      BY <1>1, <1>2, <1>7, <3>1
  <2>5. Follows(S[1].of, S[1].at - 1)
    <3>1. CASE n > 0
      <4>1. S[1] = T[1]
        BY <1>3, <1>5, <3>1
      <4>2. QED
        BY <3>1, <4>1 DEF Unlost, Queued, Consecutive, UpToLine, n
    <3>2. CASE n = 0
      <4>1. S[1].of = frame /\ S[1].at - 1 = sent
        BY <1>1, <1>5, <1>7, <3>2
      <4>2. Follows(frame, sent)
        BY <3>2 DEF Unlost, Queued, Consecutive, UpToLine, n
      <4>3. QED
        BY <4>1, <4>2
    <3>3. QED
      BY <1>3, <3>1, <3>2
  <2>6. Follows(S[1].of, S[1].at - 1)'
    BY <1>2, <2>5 DEF Follows
  <2>7. QED
    BY <1>3, <1>5, <2>1, <2>2, <2>3, <2>4, <2>6 DEF Queued, Consecutive, UpToLine
<1>9. ASSUME NEW v \in Vars
      PROVE  Ends(S, v) = Ends(T, v) \cup (IF sent + 1 = FrameLen /\ frame.id = v THEN {n + 1} ELSE {})
  BY <1>3, <1>5, <1>7 DEF Ends, n
<1>10. Told(S)'
  <2> SUFFICES ASSUME NEW v \in Vars \ {Save} PROVE TellsOf(S, v)'
    BY DEF Told
  <2>1. TellsOf(T, v)
    BY DEF Unlost, Told
  <2>2. Ends(S, v)' = Ends(S, v) /\ Ends(T, v) \subseteq 1 .. n
    BY DEF Ends, n
  <2>3. \A i \in Ends(T, v) : S[i].of = T[i].of
    BY <1>5, <2>2
  <2>4. NoFrame.id # v
    BY RecvAssumption DEF NoFrame
  <2>5. CASE sent + 1 # FrameLen
    <3>1. frame' = frame /\ Ends(S, v) = Ends(T, v)
      BY <1>2, <1>9, <2>5
    <3>2. QED
      BY <1>2, <2>1, <2>2, <2>3, <3>1 DEF TellsOf
  <2>6. CASE sent + 1 = FrameLen /\ frame.id # v
    <3>1. frame' = NoFrame /\ Ends(S, v) = Ends(T, v)
      BY <1>2, <1>9, <2>6
    <3>2. QED
      BY <1>2, <2>1, <2>2, <2>3, <2>4, <2>6, <3>1 DEF TellsOf
  <2>7. CASE sent + 1 = FrameLen /\ frame.id = v
    <3>1. frame' = NoFrame /\ Ends(S, v) = Ends(T, v) \cup {n + 1} /\ told[v] = frame.value
      BY <1>2, <1>9, <2>1, <2>7 DEF TellsOf
    <3>2. ASSUME NEW i \in Ends(S, v), \A j \in Ends(S, v) : j <= i
          PROVE  told[v] = S[i].of.value
      <4>1. i = n + 1
        <5>1. n + 1 <= i /\ (i \in 1 .. n \/ i = n + 1)
          BY <2>2, <3>1, <3>2
        <5>2. QED
          BY <1>3, <5>1
      <4>2. QED
        BY <1>5, <1>7, <3>1, <4>1
    <3>3. QED
      BY <1>2, <2>2, <2>4, <3>1, <3>2 DEF TellsOf
  <2>8. QED
    BY <2>5, <2>6, <2>7
<1>11. Numbered(S)'
  <2>1. Numbered(T) /\ requests \in Nat
    BY DEF Unlost, LineTypes
  <2>2. Ends(S, Save)' = Ends(S, Save) /\ Ends(T, Save) \subseteq 1 .. n
    BY DEF Ends, n
  <2>3. \A i \in Ends(T, Save) : S[i].req = T[i].req
    BY <1>5, <2>2
  <2>4. NoFrame.id # Save /\ Save \in Vars
    BY RecvAssumption DEF NoFrame
  <2>5. saves + values[Save] \in Nat
    <3>1. values[Save] \in 0 .. 255
      BY <2>4 DEF LineTypes
    <3>2. saves \in Nat
      BY DEF LineTypes
    <3>3. QED
      BY <3>1, <3>2
  <2>6. \A i \in Ends(T, Save) : T[i].req \in Nat
    <3>1. \A i \in 1 .. n : T[i] \in Tags
      BY <1>3 DEF n
    <3>2. QED
      BY <2>2, <3>1 DEF Tags
  <2>7. CASE sent + 1 # FrameLen
    <3>1. Arrived' = Arrived /\ Ends(S, Save) = Ends(T, Save)
      BY <1>2, <1>9, <2>4, <2>7 DEF Arrived
    <3>2. QED
      BY <1>2, <2>1, <2>2, <2>3, <3>1 DEF Numbered
  <2>8. CASE sent + 1 = FrameLen /\ frame.id # Save
    <3>1. Arrived' = Arrived /\ Ends(S, Save) = Ends(T, Save)
      BY <1>2, <1>9, <2>4, <2>8 DEF Arrived
    <3>2. QED
      BY <1>2, <2>1, <2>2, <2>3, <3>1 DEF Numbered
  <2>9. CASE sent + 1 = FrameLen /\ frame.id = Save
    <3>1. /\ Arrived = requests - 1 /\ Arrived' = requests
          /\ Ends(S, Save) = Ends(T, Save) \cup {n + 1} /\ S[n + 1].req = requests
      <4>1. Arrived = requests - 1
        BY <2>9 DEF Arrived
      <4>2. Arrived' = requests
        BY <1>2, <2>1, <2>4, <2>9 DEF Arrived
      <4>3. Ends(S, Save) = Ends(T, Save) \cup {n + 1}
        BY <1>9, <2>4, <2>9
      <4>4. S[n + 1].req = requests
        BY <1>5, <1>7
      <4>5. QED
        BY <4>1, <4>2, <4>3, <4>4
    <3>2. saves + values[Save] <= requests - 1
      BY <2>1, <3>1 DEF Numbered
    <3>3. \A i \in Ends(T, Save) : saves + values[Save] < S[i].req /\ S[i].req <= requests - 1
      BY <2>1, <2>3, <3>1 DEF Numbered
    <3>4. \A i \in Ends(S, Save) : saves + values[Save] < S[i].req /\ S[i].req <= requests
      BY <2>1, <2>3, <2>5, <2>6, <3>1, <3>2, <3>3
    <3>5. \A i, j \in Ends(S, Save) : i < j => S[i].req < S[j].req
      <4> SUFFICES ASSUME NEW i \in Ends(S, Save), NEW j \in Ends(S, Save), i < j
                   PROVE  S[i].req < S[j].req
        OBVIOUS
      <4>1. i \in Ends(T, Save)
        BY <1>3, <2>2, <3>1
      <4>2. CASE j \in Ends(T, Save)
        BY <2>1, <2>3, <4>1, <4>2 DEF Numbered
      <4>3. CASE j = n + 1
        <5>1. S[i].req \in Nat /\ S[i].req <= requests - 1
          BY <2>3, <2>6, <3>3, <4>1
        <5>2. S[j].req = requests
          BY <3>1, <4>3
        <5>3. QED
          BY <2>1, <5>1, <5>2
      <4>4. QED
        BY <3>1, <4>2, <4>3
    <3>6. saves + values[Save] <= requests
      BY <2>1, <2>5, <3>2
    <3>7. QED
      BY <1>2, <2>2, <3>1, <3>4, <3>5, <3>6 DEF Numbered
  <2>10. QED
    BY <2>7, <2>8, <2>9
<1>12. QED
  BY <1>6, <1>8, <1>10, <1>11 DEF Unlost

\* A byte read is the next of the frame the parser is in, and the last one
\* carries out the write it ends.
LEMMA ReadQueues ==
    ASSUME LineTypes, NEW T, Unlost(T), ReadByte
    PROVE  LineTypes' /\ \E S : Unlost(S)'
<1> DEFINE n == Len(T)
           w == T[1].of
           k == T[1].at
<1>1. /\ T \in Seq(Tags) /\ n \in Nat /\ n = Len(fifo) /\ fifo \in Seq(Sendable) /\ n > 0
      /\ FrameLen = Times + 7 /\ Times \in Nat
  BY RecvAssumption DEF Unlost, Queued, Consecutive, UpToLine, LineTypes, ReadByte, Reading, FrameLen
<1>2. w \in Writes /\ k \in 1 .. FrameLen /\ Follows(w, k - 1) /\ Head(fifo) = Bytes[w][k]
  <2>1. T[1] \in Tags
    BY <1>1
  <2>2. Follows(T[1].of, T[1].at - 1) /\ fifo[1] = Bytes[T[1].of][T[1].at]
    BY <1>1 DEF Unlost, Queued, Consecutive, UpToLine
  <2>3. QED
    BY <1>1, <2>1, <2>2 DEF Tags
<1>3. /\ fifo' = Tail(fifo) /\ Recv(Bytes[w][k])
      /\ UNCHANGED <<frame, sent, saves, requests, told>>
  BY <1>2 DEF ReadByte, line
<1> HIDE DEF n, w, k
<1>4. /\ payload' \in [1 .. PayloadSize -> Sendable \cup {0}]
      /\ k < FrameLen => Follows(w, k)' /\ values' = values
      /\ k = FrameLen =>
          /\ recvState' = "RESET"
          /\ values' = IF w.id \in Vars THEN [values EXCEPT ![w.id] = w.value] ELSE values
  <2>1. k - 1 \in 0 .. FrameLen - 1 /\ (k - 1) + 1 = k
    BY <1>1, <1>2
  <2>2. \A m \in 0 .. FrameLen - 1 :
          Follows(w, m) /\ payload \in [1 .. PayloadSize -> Sendable \cup {0}] /\ Recv(Bytes[w][m + 1]) =>
            /\ payload' \in [1 .. PayloadSize -> Sendable \cup {0}]
            /\ m + 1 < FrameLen => Follows(w, m + 1)' /\ values' = values
            /\ m + 1 = FrameLen =>
                /\ recvState' = "RESET"
                /\ values' = IF w.id \in Vars THEN [values EXCEPT ![w.id] = w.value] ELSE values
    BY <1>2, RecvFollows
  <2>3. QED
    BY <1>2, <1>3, <2>1, <2>2 DEF LineTypes
<1>5. PICK S : S \in Seq(Tags) /\ Len(S) = n - 1 /\ \A i \in 1 .. n - 1 : S[i] = T[i + 1]
  <2>1. Tail(T) \in Seq(Tags) /\ Len(Tail(T)) = n - 1 /\ \A i \in 1 .. n - 1 : Tail(T)[i] = T[i + 1]
    BY <1>1 DEF n
  <2>2. QED
    BY <2>1
<1>6. LineTypes'
  <2>1. fifo' \in Seq(Sendable)
    BY <1>1, <1>3 DEF n
  <2>2. values' \in [Vars -> 0 .. 255]
    <3>1. w.value \in 0 .. 255
      BY <1>2, RecvAssumption
    <3>2. k < FrameLen \/ k = FrameLen
      BY <1>1, <1>2
    <3>3. values' = values \/ (w.id \in Vars /\ values' = [values EXCEPT ![w.id] = w.value])
      BY <1>4, <3>2
    <3>4. values \in [Vars -> 0 .. 255]
      BY DEF LineTypes
    <3>5. QED
      BY <3>1, <3>3, <3>4
  <2>3. QED
    BY <1>3, <1>4, <2>1, <2>2 DEF LineTypes
<1>7. Queued(S)'
  <2>1. Len(S) = Len(fifo')
    BY <1>1, <1>3, <1>5 DEF n
  <2>2. ASSUME NEW i \in 1 .. Len(S) PROVE fifo'[i] = Bytes[S[i].of][S[i].at]
    <3>1. i + 1 \in 1 .. n /\ fifo'[i] = fifo[i + 1] /\ S[i] = T[i + 1]
      BY <1>1, <1>3, <1>5 DEF n
    <3>2. QED
      BY <3>1 DEF Unlost, Queued, Consecutive, UpToLine, n
  <2>3. ASSUME NEW i \in 1 .. Len(S) - 1
        PROVE  IF S[i].at < FrameLen
               THEN S[i + 1].of = S[i].of /\ S[i + 1].at = S[i].at + 1
               ELSE S[i + 1].at = 1
    <3>0. Len(S) = n - 1 /\ n \in Nat
      BY <1>1, <1>5
    <3>1. i \in 1 .. n - 1 /\ i + 1 \in 1 .. n - 1
      BY <3>0
    <3>2. S[i] = T[i + 1] /\ S[i + 1] = T[(i + 1) + 1]
      BY <1>5, <3>1
    <3>3. QED
      BY <3>1, <3>2 DEF Unlost, Queued, Consecutive, UpToLine, n
  <2>4. IF sent > 0 THEN Last(T).of = frame /\ Last(T).at = sent ELSE Last(T).at = FrameLen
    BY <1>1 DEF Unlost, Queued, Consecutive, UpToLine, n
  <2>5. Len(S) > 0 =>
          IF sent' > 0 THEN Last(S).of = frame' /\ Last(S).at = sent' ELSE Last(S).at = FrameLen
    <3> SUFFICES ASSUME Len(S) > 0 PROVE Last(S) = Last(T)
      BY <1>3, <2>4
    <3>0. n - 1 \in 1 .. n - 1 /\ (n - 1) + 1 = n
      <4>1. Len(S) = n - 1
        BY <1>5
      <4>2. n \in Nat
        BY <1>1
      <4>3. QED
        BY <4>1, <4>2
    <3>1. S[n - 1] = T[(n - 1) + 1] /\ (n - 1) + 1 = n
      BY <1>5, <3>0
    <3>2. QED
      BY <1>5, <3>1 DEF Last, n
  <2>6. IF Len(S) > 0 THEN Follows(S[1].of, S[1].at - 1)' ELSE Follows(frame, sent)'
    <3>1. CASE Len(S) > 0
      <4>1. 1 \in 1 .. n - 1 /\ S[1] = T[1 + 1]
        BY <1>1, <1>5, <3>1
      <4>2. IF T[1].at < FrameLen THEN T[1 + 1].of = T[1].of /\ T[1 + 1].at = T[1].at + 1
                                  ELSE T[1 + 1].at = 1
        BY <4>1 DEF Unlost, Queued, Consecutive, UpToLine, n
      <4>3. CASE k < FrameLen
        <5>1. S[1].of = w /\ S[1].at - 1 = k
          BY <1>2, <4>1, <4>2, <4>3 DEF w, k
        <5>2. QED
          BY <1>4, <3>1, <4>3, <5>1
      <4>4. CASE k = FrameLen
        <5>1. S[1].at - 1 = 0
          BY <1>1, <4>1, <4>2, <4>4 DEF k
        <5>2. QED
          BY <1>4, <3>1, <4>4, <5>1 DEF Follows
      <4>5. QED
        BY <1>1, <1>2, <4>3, <4>4
    <3>2. CASE Len(S) = 0
      <4>1. n = 1 /\ Last(T) = T[1]
        BY <1>1, <1>5, <3>2 DEF Last, n
      <4>2. CASE sent > 0
        <5>1. frame = w /\ sent = k /\ k < FrameLen
          BY <1>1, <2>4, <4>1, <4>2 DEF w, k, LineTypes
        <5>2. QED
          BY <1>3, <1>4, <3>2, <5>1
      <4>3. CASE sent = 0
        <5>1. k = FrameLen
          BY <2>4, <4>1, <4>3 DEF k
        <5>2. QED
          BY <1>3, <1>4, <3>2, <4>3, <5>1 DEF Follows
      <4>4. QED
        BY <4>2, <4>3 DEF LineTypes
    <3>3. Len(S) > 0 \/ Len(S) = 0
      <4>1. S \in Seq(Tags)
        BY <1>5
      <4>2. QED
        BY <4>1
    <3>4. QED
      BY <3>1, <3>2, <3>3
  <2>7. QED
    BY <1>5, <2>1, <2>2, <2>3, <2>5, <2>6 DEF Queued, Consecutive, UpToLine
<1>8. ASSUME NEW v
      PROVE  /\ \A i : i \in Ends(S, v) <=> i \in Nat \ {0} /\ i + 1 \in Ends(T, v)
             /\ Ends(T, v) \subseteq 1 .. n
             /\ \A i \in Ends(S, v) : S[i] = T[i + 1]
             /\ 1 \in Ends(T, v) <=> k = FrameLen /\ w.id = v
             /\ Ends(S, v)' = Ends(S, v)
  <2>1. Ends(T, v) \subseteq 1 .. n /\ Ends(S, v) \subseteq 1 .. n - 1 /\ Ends(S, v)' = Ends(S, v)
    BY <1>5 DEF Ends, n
  <2>2. \A i \in 1 .. n - 1 : i \in Ends(S, v) <=> i + 1 \in Ends(T, v)
    BY <1>1, <1>5 DEF Ends, n
  <2>3. 1 \in Ends(T, v) <=> k = FrameLen /\ w.id = v
    BY <1>1 DEF Ends, n, w, k
  <2>4. \A i \in Nat \ {0} : i + 1 \in 1 .. n => i \in 1 .. n - 1
    BY <1>1
  <2>5. \A i \in 1 .. n - 1 : i \in Nat \ {0}
    BY <1>1
  <2>6. QED
    BY <1>5, <2>1, <2>2, <2>3, <2>4, <2>5
<1>9. Told(S)'
  <2> SUFFICES ASSUME NEW v \in Vars \ {Save} PROVE TellsOf(S, v)'
    BY DEF Told
  <2>1. TellsOf(T, v)
    BY DEF Unlost, Told
  <2>2. CASE frame.id = v
    BY <1>3, <2>1, <2>2 DEF TellsOf
  <2>3. CASE frame.id # v
    <3>1. ASSUME NEW i \in Ends(S, v), \A j \in Ends(S, v) : j <= i
          PROVE  told[v] = S[i].of.value
      <4>1. i + 1 \in Ends(T, v) /\ i \in Nat /\ S[i] = T[i + 1]
        BY <1>8
      <4>2. ASSUME NEW j \in Ends(T, v) PROVE j <= i + 1
        <5>1. j \in Nat \ {0}
          BY <1>1, <1>8
        <5>2. CASE j = 1
          BY <4>1, <5>2
        <5>3. CASE j # 1
          <6>1. j - 1 \in Nat \ {0} /\ (j - 1) + 1 = j
            BY <5>1, <5>3
          <6>2. j - 1 \in Ends(S, v)
            BY <1>8, <6>1
          <6>3. QED
            BY <3>1, <4>1, <6>1, <6>2
        <5>4. QED
          BY <5>2, <5>3
      <4>3. QED
        BY <2>1, <2>3, <4>1, <4>2 DEF TellsOf
    <3>2. ASSUME Ends(S, v) = {} PROVE told[v] = values'[v]
      <4>1. \A j \in Ends(T, v) : j = 1
        <5> SUFFICES ASSUME NEW j \in Ends(T, v), j # 1 PROVE FALSE
          OBVIOUS
        <5>1. j - 1 \in Nat \ {0} /\ (j - 1) + 1 = j
          BY <1>1, <1>8
        <5>2. j - 1 \in Ends(S, v)
          BY <1>8, <5>1
        <5>3. QED
          BY <3>2, <5>2
      <4>2. CASE 1 \in Ends(T, v)
        <5>1. told[v] = w.value
          BY <2>1, <2>3, <4>1, <4>2 DEF TellsOf, w
        <5>2. k = FrameLen /\ w.id = v
          BY <1>8, <4>2
        <5>3. values' = [values EXCEPT ![v] = w.value] /\ values \in [Vars -> 0 .. 255]
          BY <1>4, <5>2 DEF LineTypes
        <5>4. QED
          BY <5>1, <5>3
      <4>3. CASE 1 \notin Ends(T, v)
        <5>1. told[v] = values[v]
          BY <2>1, <2>3, <4>1, <4>3 DEF TellsOf
        <5>2. ~(k = FrameLen /\ w.id = v)
          BY <1>8, <4>3
        <5>3. values'[v] = values[v]
          BY <1>1, <1>2, <1>4, <5>2 DEF LineTypes
        <5>4. QED
          BY <5>1, <5>3
      <4>4. QED
        BY <4>2, <4>3
    <3>3. QED
      BY <1>3, <1>8, <2>3, <3>1, <3>2 DEF TellsOf
  <2>4. QED
    BY <2>2, <2>3
<1>10. Numbered(S)'
  <2>1. Numbered(T) /\ requests \in Nat /\ saves \in Nat
    BY DEF Unlost, LineTypes
  <2>2. Arrived' = Arrived /\ Arrived \in Int /\ saves' = saves
    BY <1>3, <2>1 DEF Arrived
  <2>3. values[Save] \in Nat
    <3>1. values[Save] \in 0 .. 255
      BY RecvAssumption DEF LineTypes
    <3>2. QED
      BY <3>1
  <2>4. \A i \in Ends(T, Save) : T[i].req \in Nat
    <3>1. \A i \in 1 .. n : T[i] \in Tags
      BY <1>1 DEF n
    <3>2. QED
      BY <1>8, <3>1 DEF Tags
  <2>5. \A i, j \in Ends(S, Save) : i < j => S[i].req < S[j].req
    <3> SUFFICES ASSUME NEW i \in Ends(S, Save), NEW j \in Ends(S, Save), i < j
                 PROVE  S[i].req < S[j].req
      OBVIOUS
    <3>1. i + 1 \in Ends(T, Save) /\ j + 1 \in Ends(T, Save) /\ i + 1 < j + 1
          /\ S[i] = T[i + 1] /\ S[j] = T[j + 1]
      BY <1>8
    <3>2. QED
      BY <2>1, <3>1 DEF Numbered
  <2>6. values'[Save] \in Nat /\ saves + values'[Save] <= Arrived
        /\ \A i \in Ends(S, Save) : saves + values'[Save] < S[i].req /\ S[i].req <= Arrived
    <3>1. CASE 1 \in Ends(T, Save)
      <4>1. k = FrameLen /\ w.id = Save /\ Save \in Vars
        BY <1>8, <3>1, RecvAssumption
      <4>2. w.value \in 0 .. 1
        <5>1. w.value < 2 /\ w.value \in 0 .. 255
          BY <1>2, <4>1, RecvAssumption
        <5>2. QED
          BY <5>1
      <4>3. values'[Save] = w.value
        BY <1>4, <4>1 DEF LineTypes
      <4>4. saves + values[Save] < T[1].req /\ T[1].req <= Arrived /\ T[1].req \in Nat
        BY <2>1, <2>4, <3>1 DEF Numbered
      <4>5. saves + values'[Save] <= T[1].req
        BY <2>1, <2>3, <4>2, <4>3, <4>4
      <4>6. ASSUME NEW i \in Ends(S, Save)
            PROVE  saves + values'[Save] < S[i].req /\ S[i].req <= Arrived
        <5>1. i + 1 \in Ends(T, Save) /\ 1 < i + 1 /\ S[i] = T[i + 1]
          BY <1>8
        <5>2. T[1].req < T[i + 1].req /\ T[i + 1].req <= Arrived
          BY <2>1, <3>1, <5>1 DEF Numbered
        <5>3. T[i + 1].req \in Nat
          BY <2>4, <5>1
        <5>4. QED
          BY <2>1, <2>2, <4>2, <4>3, <4>4, <4>5, <5>1, <5>2, <5>3
      <4>7. QED
        BY <2>1, <2>2, <4>2, <4>3, <4>4, <4>5, <4>6
    <3>2. CASE 1 \notin Ends(T, Save)
      <4>1. values'[Save] = values[Save]
        <5>1. ~(k = FrameLen /\ w.id = Save) /\ Save \in Vars
          BY <1>8, <3>2, RecvAssumption
        <5>2. QED
          BY <1>1, <1>2, <1>4, <5>1 DEF LineTypes
      <4>2. ASSUME NEW i \in Ends(S, Save)
            PROVE  saves + values'[Save] < S[i].req /\ S[i].req <= Arrived
        <5>1. i + 1 \in Ends(T, Save) /\ S[i] = T[i + 1]
          BY <1>8
        <5>2. QED
          BY <2>1, <4>1, <5>1 DEF Numbered
      <4>3. QED
        BY <2>1, <2>3, <4>1, <4>2 DEF Numbered
    <3>3. QED
      BY <3>1, <3>2
  <2>7. QED
    BY <1>8, <2>2, <2>5, <2>6 DEF Numbered
<1>11. QED
  BY <1>6, <1>7, <1>9, <1>10 DEF Unlost

\* The configuration is written out once for each write of Save carried out.
LEMMA PassQueues ==
    ASSUME LineTypes, NEW T, Unlost(T), SendPass
    PROVE  (LineTypes /\ Unlost(T))'
<1>1. /\ UNCHANGED <<frame, sent, fifo, recvState, marked, type, size, offset, crc, payload,
                     requests, told>>
      /\ \/ saves' = saves + 1 /\ values' = [values EXCEPT ![Save] = 0] /\ values[Save] # 0
         \/ UNCHANGED <<saves, values>>
  BY DEF SendPass, line, parser, history
<1>2. values[Save] \in 0 .. 255 /\ saves \in Nat /\ Save \in Vars
  <2>1. Save \in Vars
    BY RecvAssumption
  <2>2. QED
    BY <2>1 DEF LineTypes
<1>3. LineTypes'
  <2>1. saves' \in Nat
    BY <1>1, <1>2
  <2>2. values' \in [Vars -> 0 .. 255]
    <3>1. CASE values' = [values EXCEPT ![Save] = 0]
      <4>1. 0 \in 0 .. 255 /\ values \in [Vars -> 0 .. 255]
        BY DEF LineTypes
      <4>2. QED
        BY <3>1, <4>1
    <3>2. CASE values' = values
      BY <3>2 DEF LineTypes
    <3>3. QED
      BY <1>1, <3>1, <3>2
  <2>3. QED
    BY <1>1, <2>1, <2>2 DEF LineTypes
<1>4. Queued(T)'
  BY <1>1 DEF Unlost, Queued, Consecutive, UpToLine, Follows
<1>5. Told(T)'
  <2> SUFFICES ASSUME NEW v \in Vars \ {Save} PROVE TellsOf(T, v)'
    BY DEF Told
  <2>1. values'[v] = values[v]
    BY <1>1 DEF LineTypes
  <2>2. QED
    BY <1>1, <2>1 DEF Unlost, Told, TellsOf, Ends
<1>6. Numbered(T)'
  <2>1. /\ Ends(T, Save)' = Ends(T, Save) /\ Arrived' = Arrived
        /\ \A i \in Ends(T, Save) : T[i] \in Tags
    <3>1. \A i \in 1 .. Len(T) : T[i] \in Tags
      BY DEF Unlost, Queued, Consecutive, UpToLine
    <3>2. QED
      BY <1>1, <3>1 DEF Ends, Arrived
  <2>2. saves' + values'[Save] \in Nat /\ saves' + values'[Save] <= saves + values[Save]
    <3>1. CASE UNCHANGED <<saves, values>>
      BY <1>2, <3>1
    <3>2. CASE saves' = saves + 1 /\ values' = [values EXCEPT ![Save] = 0] /\ values[Save] # 0
      <4>1. values'[Save] = 0
        BY <1>2, <3>2 DEF LineTypes
      <4>2. QED
        BY <1>2, <3>2, <4>1
    <3>3. QED
      BY <1>1, <3>1, <3>2
  <2>3. Arrived \in Int
    BY DEF Arrived, LineTypes
  <2>4. \A i \in Ends(T, Save) : T[i].req \in Nat
    BY <2>1 DEF Tags
  <2>5. saves + values[Save] \in Nat
    BY <1>2
  <2>6. Numbered(T)
    BY DEF Unlost
  <2> DEFINE a == saves + values[Save]
             a1 == saves' + values'[Save]
  <2>7. a1 <= Arrived /\ \A i \in Ends(T, Save) : a1 < T[i].req
    <3>1. a <= Arrived /\ \A i \in Ends(T, Save) : a < T[i].req
      BY <2>6 DEF Numbered
    <3>2. a \in Nat /\ a1 \in Nat /\ a1 <= a
      BY <2>2, <2>5
    <3> HIDE DEF a, a1
    <3>3. QED
      BY <2>3, <2>4, <3>1, <3>2
  <2>8. QED
    BY <2>1, <2>6, <2>7 DEF Numbered
<1>7. QED
  BY <1>3, <1>4, <1>5, <1>6 DEF Unlost

\* Nothing has been written or sent.
LEMMA InitRecv == Init => RecvInv
<1> SUFFICES ASSUME Init PROVE RecvInv
  OBVIOUS
<1>1. Times \in Nat /\ FrameLen = Times + 7
  BY RecvAssumption DEF FrameLen
<1>2. LineTypes
  BY <1>1 DEF Init, LineTypes
<1>3. Queued(<<>>)
  BY <1>1 DEF Init, Queued, Consecutive, UpToLine, Follows
<1>4. Ends(<<>>, Save) = {} /\ \A v \in Vars : Ends(<<>>, v) = {}
  BY DEF Ends
<1>5. \A v \in Vars : frame.id # v
  BY RecvAssumption DEF Init, NoFrame
<1>6. Told(<<>>)
  BY <1>4, <1>5 DEF Init, Told, TellsOf
<1>7. Numbered(<<>>)
  <2>1. saves + values[Save] = 0 /\ Arrived = 0
    <3>1. Save \in Vars
      BY RecvAssumption
    <3>2. saves = 0 /\ values[Save] = 0 /\ requests = 0 /\ frame.id # Save
      BY <1>5, <3>1 DEF Init
    <3>3. saves + values[Save] = 0 + 0
      BY <3>2, Zenon
    <3>4. Arrived = 0 - 0
      BY <3>2, Zenon DEF Arrived
    <3>5. QED
      BY <3>3, <3>4
  <2>2. QED
    BY <1>4, <2>1 DEF Numbered
<1>8. Unlost(<<>>)
  BY <1>3, <1>6, <1>7 DEF Unlost
<1>9. QED
  BY <1>2, <1>8 DEF Init, RecvInv

\* Step by step, as long as nothing is lost.
LEMMA NextRecv ==
    ASSUME RecvInv, [Next]_vars
    PROVE  RecvInv'
<1>1. lost' \in Nat /\ (lost' = 0 => lost = 0)
  BY DEF RecvInv, Next, Write, ByteArrives, SendPass, ReadByte, PassDone, Sent, vars, history
<1> SUFFICES ASSUME lost' = 0 PROVE LineTypes' /\ \E T : Unlost(T)'
  BY <1>1 DEF RecvInv
<1>2. lost = 0 /\ LineTypes
  BY <1>1 DEF RecvInv
<1>3. PICK T : Unlost(T)
  BY <1>2 DEF RecvInv
<1>4. ASSUME NEW w \in Writes, Write(w) PROVE LineTypes' /\ \E S : Unlost(S)'
  BY <1>2, <1>3, <1>4, WriteQueues
<1>5. CASE ByteArrives
  BY <1>2, <1>3, <1>5, ArrivalQueues
<1>6. CASE SendPass
  BY <1>2, <1>3, <1>6, PassQueues
<1>7. CASE ReadByte
  BY <1>2, <1>3, <1>7, ReadQueues
<1>8. CASE PassDone \/ Sent \/ UNCHANGED vars
  <2>1. UNCHANGED <<frame, sent, fifo, recvState, marked, type, size, offset, crc, payload,
                    values, saves, requests, told>>
    BY <1>8 DEF PassDone, Sent, vars, line, parser, history
  <2>2. LineTypes'
    BY <1>2, <2>1 DEF LineTypes
  <2>3. Unlost(T)'
    BY <1>3, <2>1 DEF Unlost, Queued, Consecutive, UpToLine, Follows, Told, TellsOf, Ends, Numbered, Arrived
  <2>4. QED
    BY <2>2, <2>3
<1>9. QED
  BY <1>4, <1>5, <1>6, <1>7, <1>8 DEF Next

\* As long as nothing is lost, the parser is where the line and the FIFO say,
\* and what the ground wrote is on its way in order or already there.
THEOREM Following == Spec => []RecvInv
  BY InitRecv, NextRecv, PTL DEF Spec

\* WrittenAsSent: without a loss the variables are what the ground wrote, for
\* every frame, also when bytes of the payload look like the marker, and every
\* depth of the FIFO; the configuration is written out no more than asked for.
THEOREM Written == Spec => []WrittenAsSent
<1>1. RecvInv => WrittenAsSent
  <2> SUFFICES ASSUME RecvInv, lost = 0
               PROVE  /\ AllArrived => \A v \in Vars \ {Save} : values[v] = told[v]
                      /\ saves + values[Save] <= requests
    BY DEF WrittenAsSent
  <2>1. LineTypes /\ \E T : Unlost(T)
    BY DEF RecvInv
  <2>2. PICK T : Unlost(T)
    BY <2>1
  <2>3. ASSUME AllArrived, NEW v \in Vars \ {Save} PROVE values[v] = told[v]
    <3>1. T \in Seq(Tags) /\ Len(T) = 0
      BY <2>2, <2>3 DEF AllArrived, Unlost, Queued, Consecutive, UpToLine
    <3>2. Ends(T, v) = {}
      BY <3>1 DEF Ends
    <3>3. frame.id # v
      BY <2>3, RecvAssumption DEF AllArrived, NoFrame
    <3>4. QED
      BY <2>2, <3>2, <3>3 DEF Unlost, Told, TellsOf
  <2>4. saves + values[Save] <= requests
    <3>1. saves + values[Save] <= Arrived /\ requests \in Nat
      BY <2>1, <2>2 DEF Unlost, Numbered, LineTypes
    <3>2. saves \in Nat /\ values[Save] \in 0 .. 255
      BY <2>1, RecvAssumption DEF LineTypes
    <3>3. QED
      BY <3>1, <3>2 DEF Arrived
  <2>5. QED
    BY <2>3, <2>4
<1>2. QED
  BY <1>1, Following, PTL

----------------------------------------------------------------------------
(* The loss of a byte: the checksum.                                       *)

\* The laws of exclusive or, each by itself.
LEMMA XorClosed == \A a \in Byte, b \in DataBytes : ByteXor(a, b) \in Byte
  BY XorAssumption, Zenon

LEMMA XorTwice == \A a \in Byte, b \in DataBytes : ByteXor(a, ByteXor(a, b)) = b
  BY XorAssumption, Zenon

LEMMA XorOrder ==
    \A a \in Byte, b, c \in DataBytes : ByteXor(ByteXor(a, b), c) = ByteXor(ByteXor(a, c), b)
  BY XorAssumption, Zenon

LEMMA XorCommutes == \A b, c \in DataBytes : ByteXor(b, c) = ByteXor(c, b)
  BY XorAssumption, Zenon

\* A payload's bytes and their running checksums.
LEMMA PayloadBytes ==
    ASSUME NEW w \in Writes
    PROVE  /\ \A i \in 1 .. PayloadSize :
                PayloadOf(w)[i] \in DataBytes /\ RunningCrc(PayloadOf(w))[i] \in Byte
           /\ PayloadOf(w)[1] = TdmWrite
           /\ RunningCrc(PayloadOf(w))[1] = PayloadOf(w)[1]
           /\ \A i \in 2 .. PayloadSize :
                RunningCrc(PayloadOf(w))[i] = ByteXor(RunningCrc(PayloadOf(w))[i - 1], PayloadOf(w)[i])
<1> DEFINE p == PayloadOf(w)
           r == RunningCrc(p)
           z == [i \in 1 .. Times |-> 0]
<1>1. /\ Times \in Nat /\ PayloadSize = Times + 3 /\ TdmWrite \in Byte
      /\ {0, TdmWrite, w.id, w.value} \subseteq DataBytes
  BY RecvAssumption DEF PayloadSize, Byte, DataBytes
<1>2. p \in Seq(DataBytes) /\ p[1] = TdmWrite /\ Len(p) = PayloadSize
  <2>1. z \in Seq(DataBytes) /\ Len(z) = Times
    BY <1>1
  <2> HIDE DEF z
  <2>2. <<TdmWrite>> \in Seq(DataBytes) /\ <<w.id, w.value>> \in Seq(DataBytes)
    BY <1>1
  <2> DEFINE y == <<TdmWrite>> \o z
  <2>3. y \in Seq(DataBytes) /\ Len(y) = Times + 1 /\ y[1] = TdmWrite
    BY <1>1, <2>1, <2>2
  <2> HIDE DEF y
  <2>4. y \o <<w.id, w.value>> \in Seq(DataBytes) /\ (y \o <<w.id, w.value>>)[1] = TdmWrite
    BY <1>1, <2>2, <2>3
  <2>5. p = y \o <<w.id, w.value>>
    BY DEF PayloadOf, y, z
  <2>6. QED
    BY <2>4, <2>5, Payloads
<1>3. r[1] = p[1] /\ \A i \in 2 .. PayloadSize : r[i] = ByteXor(r[i - 1], p[i])
  <2>1. /\ Len(p) > 0 => r[1] = p[1]
        /\ \A i \in 2 .. Len(p) : r[i] = ByteXor(r[i - 1], p[i])
    BY <1>2, RunningCrcs, Zenon
  <2> HIDE DEF p, r
  <2>2. QED
    BY <1>1, <1>2, <2>1
<1> HIDE DEF p, r
<1>4. \A i \in 1 .. PayloadSize : p[i] \in DataBytes
  BY <1>2
<1> DEFINE S == {i \in Nat : i + 1 <= PayloadSize => r[i + 1] \in Byte}
<1>5. 0 \in S
  BY <1>1, <1>2, <1>3
<1>6. ASSUME NEW i \in Nat, i \in S PROVE i + 1 \in S
  <2> SUFFICES ASSUME (i + 1) + 1 <= PayloadSize PROVE r[(i + 1) + 1] \in Byte
    OBVIOUS
  <2>1. (i + 1) + 1 \in 2 .. PayloadSize /\ (i + 1) + 1 \in 1 .. PayloadSize
        /\ ((i + 1) + 1) - 1 = i + 1 /\ i + 1 <= PayloadSize
    BY <1>1
  <2>2. r[i + 1] \in Byte /\ p[(i + 1) + 1] \in DataBytes
    BY <1>4, <1>6, <2>1
  <2>3. r[(i + 1) + 1] = ByteXor(r[i + 1], p[(i + 1) + 1])
    BY <1>3, <2>1
  <2>4. QED
    BY <2>2, <2>3, XorClosed, Zenon
<1> HIDE DEF S
<1>7. \A i \in Nat : i \in S
  BY <1>5, <1>6, NatInd, Zenon
<1>8. \A i \in 1 .. PayloadSize : r[i] \in Byte
  <2> SUFFICES ASSUME NEW i \in 1 .. PayloadSize PROVE r[i] \in Byte
    OBVIOUS
  <2>1. i - 1 \in S /\ (i - 1) + 1 = i /\ i <= PayloadSize
    BY <1>1, <1>7
  <2>2. QED
    BY <2>1 DEF S
<1>9. QED
  BY <1>2, <1>3, <1>4, <1>8 DEF p, r

\* In a plain frame only the first byte looks like the marker.
LEMMA PlainBytes ==
    ASSUME PlainWrites, NEW w \in Writes
    PROVE  /\ \A k \in 2 .. FrameLen : Bytes[w][k] # Marker
           /\ \A i \in 1 .. PayloadSize : PayloadOf(w)[i] # Marker
           /\ RunningCrc(PayloadOf(w))[PayloadSize] # Marker
<1>1. Times \in Nat /\ FrameLen = Times + 7 /\ PayloadSize = Times + 3
  BY RecvAssumption DEF FrameLen, PayloadSize
<1>2. \A k \in 2 .. FrameLen : Bytes[w][k] # Marker
  BY FrameBytes DEF PlainWrites
<1>3. \A i \in 1 .. PayloadSize : PayloadOf(w)[i] # Marker
  <2> SUFFICES ASSUME NEW i \in 1 .. PayloadSize PROVE PayloadOf(w)[i] # Marker
    OBVIOUS
  <2>1. i + 3 \in 2 .. FrameLen
    BY <1>1
  <2>2. QED
    BY <1>2, <2>1, FrameBytes
<1>4. RunningCrc(PayloadOf(w))[PayloadSize] # Marker
  BY <1>1, <1>2, FrameBytes
<1>5. QED
  BY <1>2, <1>3, <1>4

----------------------------------------------------------------------------
(* The loss of a byte: the parser.                                         *)

\* The parser waits for a marker.
Hunting == Searching /\ (recvState = "MARKER" => ~marked)

\* What the last payload left behind may be written again.
Kept ==
    payload[IdAt] \in Vars => [id |-> payload[IdAt], value |-> payload[ValueAt]] \in Writes

\* It has taken k bytes of w's frame, and none was lost before.
Whole(w, k) == Follows(w, k) /\ (k <= 3 => Kept)

\* The size was lost: the first byte of the payload, mod, was taken for it.
Short(k) ==
    /\ recvState = "PAYLOAD" /\ size = TdmWrite
    /\ k \in 4 .. TdmWrite + 4 /\ offset = k - 4
    /\ Kept

\* A byte of the payload was lost: the checksum lacks it.
Shifted(w, k) ==
    /\ recvState = "PAYLOAD" /\ size = PayloadSize
    /\ k \in 5 .. FrameLen - 1 /\ offset = k - 4 /\ crc \in Byte
    /\ \E j \in 1 .. k - 4 : ByteXor(crc, PayloadOf(w)[j]) = RunningCrc(PayloadOf(w))[k - 3]

\* The checksum, taken for the last byte of the payload, has left another one
\* than the marker that comes in its place.
Refusing == recvState = "PAYLOAD" /\ size \in Nat /\ offset = size /\ crc # Marker

\* k bytes of w's frame have passed, some before a loss, or all but the one lost.
Passed(w, k) ==
    \/ k > 0 /\ Follows(w, k)
    \/ Hunting
    \/ Short(k)
    \/ Shifted(w, k)
    \/ k = 0 /\ Refusing

\* The variables are as the ground wrote them once, or reset.
Genuine ==
    /\ values \in [Vars -> Byte]
    /\ \A v \in Vars : values[v] = 0 \/ [id |-> v, value |-> values[v]] \in Writes

PayloadTypes == payload \in [1 .. PayloadSize -> Sendable \cup {0}]

Sizes ==
    /\ Times \in Nat /\ FrameLen = Times + 7 /\ PayloadSize = Times + 3
    /\ IdAt = Times + 2 /\ ValueAt = Times + 3
    /\ TdmWrite \in 1 .. Times + 1 /\ Vars \subseteq Byte

\* The lengths and positions of the protocol, as numbers.
LEMMA SizesHold == Sizes
  BY RecvAssumption, SizeAssumption
     DEF Sizes, FrameLen, PayloadSize, IdAt, ValueAt, Byte

\* Setting a variable to what the ground wrote of it.
LEMMA SetGenuine ==
    ASSUME Genuine, NEW a \in Vars, NEW b, [id |-> a, value |-> b] \in Writes,
           values' = [values EXCEPT ![a] = b]
    PROVE  Genuine'
<1>1. b \in Byte
  <2>1. [id |-> a, value |-> b].value \in 0 .. 255
    BY RecvAssumption
  <2>2. QED
    BY <2>1 DEF Byte
<1>2. values' \in [Vars -> Byte]
  BY <1>1 DEF Genuine
<1>3. ASSUME NEW v \in Vars
      PROVE  values'[v] = 0 \/ [id |-> v, value |-> values'[v]] \in Writes
  <2>1. CASE v = a
    BY <2>1 DEF Genuine
  <2>2. CASE v # a
    BY <2>2 DEF Genuine
  <2>3. QED
    BY <2>1, <2>2
<1>4. QED
  BY <1>2, <1>3 DEF Genuine

\* Outside of a payload, nothing is stored.
LEMMA StoresOnlyPayload ==
    ASSUME NEW b, Recv(b), recvState # "PAYLOAD" \/ (offset = size /\ size \in Nat)
    PROVE  payload' = payload
  BY DEF Recv, TakeMarker, SkipByte, TakeType, TakeSize, TakePayload, TakeCrc

\* In step, the parser goes one byte further, and a frame that ends leaves its
\* payload behind.
LEMMA RecvWhole ==
    ASSUME NEW w \in Writes, NEW k \in 0 .. FrameLen - 1, Whole(w, k), PayloadTypes, Genuine,
           Recv(Bytes[w][k + 1])
    PROVE  /\ PayloadTypes' /\ Genuine'
           /\ k + 1 < FrameLen => Whole(w, k + 1)'
           /\ k + 1 = FrameLen => \A u : Whole(u, 0)'
<1>1. Sizes
  BY SizesHold
<1>2. /\ PayloadTypes'
      /\ k + 1 < FrameLen => Follows(w, k + 1)' /\ values' = values
      /\ k + 1 = FrameLen =>
          /\ recvState' = "RESET"
          /\ values' = IF w.id \in Vars THEN [values EXCEPT ![w.id] = w.value] ELSE values
  BY RecvFollows DEF Whole, PayloadTypes
<1>3. CASE k + 1 < FrameLen
  <2>1. Genuine'
    BY <1>2, <1>3 DEF Genuine
  <2>2. ASSUME k + 1 <= 3 PROVE Kept'
    <3>1. recvState # "PAYLOAD" /\ Kept
      BY <2>2 DEF Whole, Follows
    <3>2. payload' = payload
      BY <3>1, StoresOnlyPayload
    <3>3. QED
      BY <3>1, <3>2 DEF Kept
  <2>3. QED
    BY <1>2, <1>3, <2>1, <2>2 DEF Whole
<1>4. CASE k + 1 = FrameLen
  <2>1. w = [id |-> w.id, value |-> w.value]
    BY RecvAssumption
  <2>2. Genuine'
    <3>1. CASE w.id \in Vars
      <4>1. values' = [values EXCEPT ![w.id] = w.value]
        BY <1>2, <1>4, <3>1
      <4>2. QED
        BY <2>1, <3>1, <4>1, SetGenuine, Zenon
    <3>2. CASE w.id \notin Vars
      BY <1>2, <1>4, <3>2 DEF Genuine
    <3>3. QED
      BY <3>1, <3>2
  <2>3. /\ recvState = "PAYLOAD" /\ offset = size /\ size \in Nat
        /\ \A i \in 1 .. PayloadSize : payload[i] = PayloadOf(w)[i]
    BY <1>1, <1>4 DEF Whole, Follows, Sizes
  <2>4. payload' = payload
    BY <2>3, StoresOnlyPayload
  <2>5. Kept'
    <3>1. IdAt \in 1 .. PayloadSize /\ ValueAt \in 1 .. PayloadSize
      BY <1>1 DEF Sizes
    <3>2. payload[IdAt] = w.id /\ payload[ValueAt] = w.value
      BY <2>3, <3>1, Payloads
    <3>3. QED
      BY <2>1, <2>4, <3>2 DEF Kept
  <2>6. \A u : Whole(u, 0)'
    BY <1>2, <1>4, <2>5 DEF Whole, Follows
  <2>7. QED
    BY <1>2, <1>4, <2>2, <2>6
<1>5. QED
  BY <1>1, <1>3, <1>4 DEF Sizes

\* A payload byte is stored within what is looked at.
LEMMA StoreTypes ==
    ASSUME PayloadTypes, NEW b \in Sendable, TakePayload(b), offset \in Nat
    PROVE  PayloadTypes'
<1>1. payload' = Stored(b)
  BY DEF TakePayload
<1>2. CASE offset < PayloadSize
  <2>1. payload' = [payload EXCEPT ![offset + 1] = b]
    BY <1>1, <1>2 DEF Stored
  <2>2. QED
    BY <2>1 DEF PayloadTypes
<1>3. CASE ~(offset < PayloadSize)
  BY <1>1, <1>3 DEF PayloadTypes, Stored
<1>4. QED
  BY <1>2, <1>3

\* Out of step, the parser writes at most what was written before, and has found
\* the boundary again when the next frame has begun.
LEMMA RecvPassed ==
    ASSUME PlainWrites, NEW w \in Writes, NEW k \in 0 .. FrameLen - 1, Passed(w, k),
           PayloadTypes, Genuine, Recv(Bytes[w][k + 1])
    PROVE  /\ PayloadTypes' /\ Genuine'
           /\ k + 1 < FrameLen => Passed(w, k + 1)'
           /\ k + 1 = FrameLen => \A u : Passed(u, 0)'
<1> DEFINE b == Bytes[w][k + 1]
           p == PayloadOf(w)
           r == RunningCrc(p)
<1>1. Sizes /\ k \in Nat
  BY SizesHold DEF Sizes
<1>2. b \in Sendable /\ (k = 0 => b = Marker) /\ (k > 0 => b # Marker)
  <2>1. k + 1 \in 1 .. FrameLen /\ (k > 0 => k + 1 \in 2 .. FrameLen)
    BY <1>1 DEF Sizes
  <2>2. QED
    BY <2>1, FrameBytes, PlainBytes DEF Sendable
<1>3. Hunting' => \A u : Passed(u, 0)' /\ Passed(u, k + 1)'
  BY DEF Passed
<1>4. CASE k > 0 /\ Follows(w, k)
  <2>1. /\ PayloadTypes'
        /\ k + 1 < FrameLen => Follows(w, k + 1)' /\ values' = values
        /\ k + 1 = FrameLen =>
            /\ recvState' = "RESET"
            /\ values' = IF w.id \in Vars THEN [values EXCEPT ![w.id] = w.value] ELSE values
    BY <1>4, RecvFollows DEF PayloadTypes
  <2>2. CASE k + 1 < FrameLen
    <3>1. k + 1 > 0
      BY <1>1
    <3>2. QED
      BY <2>1, <2>2, <3>1 DEF Passed, Genuine
  <2>3. CASE k + 1 = FrameLen
    <3>1. Hunting'
      BY <2>1, <2>3 DEF Hunting, Searching
    <3>2. Genuine'
      <4>1. w = [id |-> w.id, value |-> w.value]
        BY RecvAssumption
      <4>2. CASE w.id \in Vars
        <5>1. values' = [values EXCEPT ![w.id] = w.value]
          BY <2>1, <2>3, <4>2
        <5>2. QED
          BY <4>1, <4>2, <5>1, SetGenuine, Zenon
      <4>3. CASE w.id \notin Vars
        BY <2>1, <2>3, <4>3 DEF Genuine
      <4>4. QED
        BY <4>2, <4>3
    <3>3. QED
      BY <1>3, <2>1, <2>3, <3>1, <3>2
  <2>4. QED
    BY <1>1, <2>2, <2>3 DEF Sizes
<1>5. CASE Hunting /\ k = 0
  <2>1. TakeMarker(b)
    BY <1>2, <1>5 DEF Hunting, Searching, Recv, TakeMarker, SkipByte, TakeType, TakeSize, TakePayload, TakeCrc
  <2>2. recvState' = "MARKER" /\ marked' /\ payload' = payload /\ values' = values
    BY <2>1 DEF TakeMarker
  <2>3. Follows(w, 1)' /\ 1 < FrameLen
    BY <1>1, <2>2 DEF Follows, Sizes
  <2>4. QED
    BY <1>5, <2>2, <2>3 DEF Passed, PayloadTypes, Genuine
<1>6. CASE Hunting /\ k > 0
  <2>1. SkipByte(b)
    BY <1>2, <1>6 DEF Hunting, Searching, Recv, TakeMarker, SkipByte, TakeType, TakeSize, TakePayload, TakeCrc
  <2>2. recvState' = "MARKER" /\ ~marked' /\ payload' = payload /\ values' = values
    BY <2>1 DEF SkipByte
  <2>3. Hunting'
    BY <2>2 DEF Hunting, Searching
  <2>4. QED
    BY <1>3, <2>2, <2>3 DEF PayloadTypes, Genuine
<1>7. CASE Short(k) /\ k < TdmWrite + 4
  <2>1. /\ recvState = "PAYLOAD" /\ size = TdmWrite /\ offset = k - 4 /\ offset \in Nat
        /\ offset < size /\ offset + 1 <= Times + 1 /\ k + 1 < FrameLen
        /\ k + 1 \in 4 .. TdmWrite + 4
    BY <1>1, <1>7 DEF Short, Sizes
  <2>2. TakePayload(b)
    BY <2>1 DEF Recv, TakeMarker, SkipByte, TakeType, TakeSize, TakePayload, TakeCrc, Searching
  <2>3. /\ recvState' = "PAYLOAD" /\ size' = TdmWrite /\ offset' = (k + 1) - 4
        /\ values' = values
    BY <1>1, <2>1, <2>2 DEF TakePayload
  <2>4. PayloadTypes'
    BY <1>2, <2>1, <2>2, StoreTypes
  <2>5. payload' = [payload EXCEPT ![offset + 1] = b]
    BY <1>1, <2>1, <2>2 DEF TakePayload, Stored, Sizes
  <2>6. Kept'
    <3>1. /\ IdAt \in 1 .. PayloadSize /\ ValueAt \in 1 .. PayloadSize
          /\ IdAt # offset + 1 /\ ValueAt # offset + 1
      BY <1>1, <2>1 DEF Sizes
    <3>2. payload'[IdAt] = payload[IdAt] /\ payload'[ValueAt] = payload[ValueAt]
      BY <2>5, <3>1 DEF PayloadTypes
    <3>3. IdAt' = IdAt /\ ValueAt' = ValueAt
      BY DEF IdAt, ValueAt
    <3>4. QED
      BY <1>7, <3>2, <3>3 DEF Short, Kept
  <2>7. Short(k + 1)'
    BY <2>1, <2>3, <2>6 DEF Short
  <2>8. QED
    BY <2>1, <2>3, <2>4, <2>7 DEF Passed, Genuine
<1>8. CASE Short(k) /\ k = TdmWrite + 4
  <2>1. recvState = "PAYLOAD" /\ offset = size /\ size \in Nat /\ k + 1 < FrameLen /\ Kept
    BY <1>1, <1>8 DEF Short, Sizes
  <2>2. TakeCrc(b)
    BY <2>1 DEF Recv, TakeMarker, SkipByte, TakeType, TakeSize, TakePayload, TakeCrc, Searching
  <2>3. recvState' = "RESET" /\ payload' = payload
    BY <2>2 DEF TakeCrc, AfterFrame
  <2>4. Genuine'
    <3>1. CASE SetsVar /\ values' = [values EXCEPT ![payload[IdAt]] = payload[ValueAt]]
      <4>1. payload[IdAt] \in Vars /\ [id |-> payload[IdAt], value |-> payload[ValueAt]] \in Writes
        BY <2>1, <3>1 DEF SetsVar, Kept
      <4>2. QED
        BY <3>1, <4>1, SetGenuine, Zenon
    <3>2. CASE values' = values
      BY <3>2 DEF Genuine
    <3>3. QED
      BY <2>2, <3>1, <3>2 DEF TakeCrc
  <2>5. Hunting'
    BY <2>3 DEF Hunting, Searching
  <2>6. QED
    BY <1>3, <2>1, <2>3, <2>4, <2>5 DEF PayloadTypes
<1>9. CASE Shifted(w, k)
  <2>1. /\ recvState = "PAYLOAD" /\ size = PayloadSize /\ k \in 5 .. FrameLen - 1
        /\ offset = k - 4 /\ offset \in Nat /\ offset # 0 /\ offset < size /\ crc \in Byte
    BY <1>1, <1>9 DEF Shifted, Sizes
  <2>2. PICK j \in 1 .. k - 4 : ByteXor(crc, p[j]) = r[k - 3]
    BY <1>9 DEF Shifted
  <2>3. j \in 1 .. PayloadSize
    BY <1>1, <2>1 DEF Sizes
  <2>4. p[j] \in DataBytes /\ p[j] # Marker
    BY <2>3, PayloadBytes, PlainBytes
  <2>5. TakePayload(b)
    BY <2>1 DEF Recv, TakeMarker, SkipByte, TakeType, TakeSize, TakePayload, TakeCrc, Searching
  <2>6. /\ recvState' = "PAYLOAD" /\ size' = PayloadSize /\ offset' = (k + 1) - 4
        /\ values' = values /\ crc' = ByteXor(crc, b)
    BY <1>1, <2>1, <2>5 DEF TakePayload
  <2>7. PayloadTypes' /\ Genuine'
    BY <1>2, <2>1, <2>5, <2>6, StoreTypes DEF Genuine
  <2>8. CASE k + 1 < FrameLen
    <3>1. k - 2 \in 2 .. PayloadSize /\ k - 2 \in 1 .. PayloadSize /\ (k - 2) - 1 = k - 3
          /\ (k - 2) + 3 = k + 1 /\ (k + 1) - 3 = k - 2
      BY <1>1, <2>1, <2>8 DEF Sizes
    <3>2. b = p[k - 2] /\ b \in DataBytes /\ r[k - 2] = ByteXor(r[k - 3], b)
      <4>1. Bytes[w][(k - 2) + 3] = p[k - 2]
        BY <3>1, FrameBytes
      <4>2. p[k - 2] \in DataBytes /\ r[k - 2] = ByteXor(r[(k - 2) - 1], p[k - 2])
        BY <3>1, PayloadBytes
      <4>3. QED
        BY <3>1, <4>1, <4>2
    <3>3. crc' \in Byte
      BY <2>1, <2>6, <3>2, XorClosed
    <3>4. ByteXor(crc', p[j]) = r[(k + 1) - 3]
      <4>1. ByteXor(ByteXor(crc, b), p[j]) = ByteXor(ByteXor(crc, p[j]), b)
        BY <2>1, <2>4, <3>2, XorOrder, Zenon
      <4>2. QED
        BY <2>2, <2>6, <3>1, <3>2, <4>1
    <3>5. j \in 1 .. (k + 1) - 4 /\ k + 1 \in 5 .. FrameLen - 1
      BY <1>1, <2>1, <2>8 DEF Sizes
    <3>6. Shifted(w, k + 1)'
      BY <2>6, <3>3, <3>4, <3>5 DEF Shifted
    <3>7. QED
      BY <2>7, <2>8, <3>6 DEF Passed
  <2>9. CASE k + 1 = FrameLen
    <3>1. b = r[PayloadSize] /\ k - 3 = PayloadSize
      <4>1. b = r[PayloadSize]
        BY <2>9, FrameBytes, Zenon
      <4>2. QED
        BY <1>1, <2>9, <4>1 DEF Sizes
    <3>2. crc' = p[j]
      <4>1. ByteXor(crc, ByteXor(crc, p[j])) = p[j]
        BY <2>1, <2>4, XorTwice, Zenon
      <4>2. QED
        BY <2>2, <2>6, <3>1, <4>1
    <3>3. size' \in Nat /\ offset' = size'
      BY <1>1, <2>6, <2>9 DEF Sizes
    <3>4. Refusing'
      BY <2>4, <2>6, <3>2, <3>3 DEF Refusing
    <3>5. QED
      BY <2>7, <2>9, <3>4 DEF Passed
  <2>10. QED
    BY <1>1, <2>8, <2>9 DEF Sizes
<1>10. CASE k = 0 /\ Refusing
  <2>1. recvState = "PAYLOAD" /\ offset = size /\ size \in Nat /\ crc # b
    BY <1>2, <1>10 DEF Refusing
  <2>2. TakeCrc(b)
    BY <2>1 DEF Recv, TakeMarker, SkipByte, TakeType, TakeSize, TakePayload, TakeCrc, Searching
  <2>3. recvState' = "RESET" /\ payload' = payload /\ values' = values
    BY <2>1, <2>2 DEF TakeCrc, AfterFrame, Accepts
  <2>4. Hunting'
    BY <2>3 DEF Hunting, Searching
  <2>5. QED
    BY <1>3, <2>3, <2>4 DEF PayloadTypes, Genuine
<1>11. QED
  <2>1. k = 0 \/ k > 0
    BY <1>1
  <2>2. Short(k) => k < TdmWrite + 4 \/ k = TdmWrite + 4
    BY <1>1 DEF Short, Sizes
  <2>3. QED
    BY <1>4, <1>5, <1>6, <1>7, <1>8, <1>9, <1>10, <2>1, <2>2 DEF Passed

\* The parser was in step, the next byte is lost, and the one after it comes, of
\* the same frame or the marker of the next.
LEMMA GapPassed ==
    ASSUME PlainWrites, NEW w \in Writes, NEW k \in 0 .. FrameLen - 1, Whole(w, k),
           PayloadTypes, Genuine,
           Recv(IF k + 1 < FrameLen THEN Bytes[w][k + 2] ELSE Marker)
    PROVE  /\ PayloadTypes' /\ Genuine'
           /\ k + 2 < FrameLen => Passed(w, k + 2)'
           /\ k + 2 = FrameLen => \A u : Passed(u, 0)'
           /\ k + 1 = FrameLen => \A u : Passed(u, 1)'
<1> DEFINE p == PayloadOf(w)
           r == RunningCrc(p)
           b == IF k + 1 < FrameLen THEN Bytes[w][k + 2] ELSE Marker
<1>1. Sizes /\ k \in Nat
  BY SizesHold DEF Sizes
<1>2. k + 1 < FrameLen => b = Bytes[w][k + 2] /\ b # Marker /\ b \in Sendable
  <2>1. k + 1 < FrameLen => k + 2 \in 2 .. FrameLen /\ k + 2 \in 1 .. FrameLen
    BY <1>1 DEF Sizes
  <2>2. QED
    BY <2>1, PlainBytes DEF Sendable
<1>3. Hunting' => \A u : Passed(u, 0)' /\ Passed(u, 1)' /\ Passed(u, k + 2)'
  BY DEF Passed
<1>4. CASE k = 0
  <2>1. recvState = "RESET" /\ b # Marker
    BY <1>1, <1>2, <1>4 DEF Whole, Follows, Sizes
  <2>2. SkipByte(b)
    BY <2>1 DEF Recv, TakeMarker, SkipByte, TakeType, TakeSize, TakePayload, TakeCrc, Searching
  <2>3. recvState' = "MARKER" /\ ~marked' /\ payload' = payload /\ values' = values
    BY <2>2 DEF SkipByte
  <2>4. Hunting'
    BY <2>3 DEF Hunting, Searching
  <2>5. QED
    BY <1>3, <2>3, <2>4 DEF PayloadTypes, Genuine
<1>5. CASE k = 1
  <2>1. recvState = "MARKER" /\ marked /\ b # Marker /\ b \notin {DataMod, Desc}
    <3>1. b = PayloadSize
      BY <1>1, <1>2, <1>5, FrameBytes DEF Sizes
    <3>2. b # Marker
      BY <1>1, <1>2, <1>5 DEF Sizes
    <3>3. QED
      BY <1>1, <1>5, <3>1, <3>2, SizeAssumption DEF Whole, Follows, Sizes
  <2>2. TakeType(b)
    BY <2>1 DEF Recv, TakeMarker, SkipByte, TakeType, TakeSize, TakePayload, TakeCrc, Searching
  <2>3. recvState' = "RESET" /\ payload' = payload /\ values' = values
    BY <2>1, <2>2 DEF TakeType
  <2>4. Hunting'
    BY <2>3 DEF Hunting, Searching
  <2>5. QED
    BY <1>3, <2>3, <2>4 DEF PayloadTypes, Genuine
<1>6. CASE k = 2
  <2>1. recvState = "SIZE" /\ b = TdmWrite /\ Kept
    <3>1. 1 \in 1 .. PayloadSize /\ 1 + 3 = k + 2 /\ k + 1 < FrameLen
      BY <1>1, <1>6 DEF Sizes
    <3>2. b = p[1]
      BY <1>2, <3>1, FrameBytes
    <3>3. QED
      BY <1>6, <3>2, PayloadBytes DEF Whole, Follows
  <2>2. TakeSize(b)
    BY <2>1 DEF Recv, TakeMarker, SkipByte, TakeType, TakeSize, TakePayload, TakeCrc, Searching
  <2>3. /\ recvState' = "PAYLOAD" /\ size' = TdmWrite /\ offset' = 0
        /\ payload' = payload /\ values' = values
    BY <2>1, <2>2 DEF TakeSize
  <2>4. Kept'
    BY <2>1, <2>3 DEF Kept, IdAt, ValueAt
  <2>5. Short(4)'
    BY <1>1, <2>3, <2>4 DEF Short, Sizes
  <2>6. k + 2 = 4 /\ 4 < FrameLen
    BY <1>1, <1>6 DEF Sizes
  <2>7. Passed(w, k + 2)'
    BY <2>5, <2>6 DEF Passed
  <2>8. QED
    BY <2>3, <2>6, <2>7 DEF PayloadTypes, Genuine
<1>7. CASE k >= 3 /\ k + 1 < FrameLen
  <2> DEFINE j == k - 2
  <2>1. /\ recvState = "PAYLOAD" /\ size = PayloadSize /\ offset = k - 3
        /\ k > 3 => crc = r[k - 3]
    BY <1>7 DEF Whole, Follows
  <2>2. /\ j \in 1 .. PayloadSize /\ offset = j - 1 /\ offset \in Nat /\ offset < size
        /\ k + 2 <= FrameLen
    BY <1>1, <1>7, <2>1 DEF Sizes
  <2>3. TakePayload(b)
    BY <2>1, <2>2 DEF Recv, TakeMarker, SkipByte, TakeType, TakeSize, TakePayload, TakeCrc, Searching
  <2>4. /\ recvState' = "PAYLOAD" /\ size' = PayloadSize /\ offset' = j
        /\ values' = values /\ crc' = IF offset = 0 THEN b ELSE ByteXor(crc, b)
    BY <2>1, <2>2, <2>3 DEF TakePayload
  <2>5. PayloadTypes' /\ Genuine'
    BY <1>2, <1>7, <2>2, <2>3, <2>4, StoreTypes DEF Genuine
  <2>6. p[j] \in DataBytes /\ p[j] # Marker /\ r[j] \in Byte
    BY <2>2, PayloadBytes, PlainBytes
  <2>7. offset # 0 => crc = r[j - 1] /\ crc \in Byte /\ r[j] = ByteXor(crc, p[j])
    <3> SUFFICES ASSUME offset # 0 PROVE crc = r[j - 1] /\ crc \in Byte /\ r[j] = ByteXor(crc, p[j])
      OBVIOUS
    <3>1. j \in 2 .. PayloadSize /\ j - 1 \in 1 .. PayloadSize /\ k > 3 /\ k - 3 = j - 1
      BY <1>1, <2>2 DEF Sizes
    <3>2. r[j - 1] \in Byte /\ r[j] = ByteXor(r[j - 1], p[j])
      BY <3>1, PayloadBytes
    <3>3. QED
      BY <2>1, <3>1, <3>2
  <2>8. CASE k + 2 < FrameLen
    <3>1. /\ j + 1 \in 2 .. PayloadSize /\ j + 1 \in 1 .. PayloadSize /\ (j + 1) - 1 = j
          /\ (j + 1) + 3 = k + 2 /\ (k + 2) - 3 = j + 1 /\ (k + 2) - 4 = j
          /\ k + 2 \in 5 .. FrameLen - 1
      BY <1>1, <1>7, <2>2, <2>8 DEF Sizes
    <3>2. b = p[j + 1]
      <4>1. Bytes[w][(j + 1) + 3] = p[j + 1]
        BY <3>1, FrameBytes
      <4>2. QED
        BY <1>2, <1>7, <3>1, <4>1
    <3>3. b \in DataBytes /\ r[j + 1] = ByteXor(r[j], b)
      <4>1. p[j + 1] \in DataBytes /\ r[j + 1] = ByteXor(r[(j + 1) - 1], p[j + 1])
        BY <3>1, PayloadBytes
      <4>2. QED
        BY <3>1, <3>2, <4>1
    <3>4. crc' \in Byte /\ ByteXor(crc', p[j]) = r[j + 1]
      <4>1. CASE offset = 0
        <5>1. crc' = b /\ r[j] = p[j]
          <6>1. j = 1
            BY <2>2, <4>1
          <6>2. QED
            BY <2>4, <4>1, <6>1, PayloadBytes
        <5>2. ByteXor(b, p[j]) = ByteXor(p[j], b)
          BY <2>6, <3>3, XorCommutes, Zenon
        <5>3. b \in Byte
          <6>1. j + 1 \in 1 .. PayloadSize
            BY <3>1
          <6>2. b \in DataBytes
            BY <3>3
          <6>3. DataBytes \subseteq Byte
            BY <1>1, RecvAssumption DEF DataBytes, Byte
          <6>4. QED
            BY <6>2, <6>3
        <5>4. QED
          BY <3>3, <5>1, <5>2, <5>3
      <4>2. CASE offset # 0
        <5>1. crc \in Byte /\ r[j] = ByteXor(crc, p[j]) /\ crc' = ByteXor(crc, b)
          BY <2>4, <2>7, <4>2
        <5> HIDE DEF b, p
        <5>2. ByteXor(ByteXor(crc, b), p[j]) = ByteXor(ByteXor(crc, p[j]), b)
          BY <2>6, <3>3, <5>1, XorOrder, Zenon
        <5>3. crc' \in Byte
          BY <3>3, <5>1, XorClosed, Zenon
        <5>4. QED
          BY <3>3, <5>1, <5>2, <5>3
      <4>3. QED
        BY <4>1, <4>2
    <3>5. j \in 1 .. (k + 2) - 4
      BY <2>2, <3>1
    <3>6. Shifted(w, k + 2)'
      BY <2>4, <3>1, <3>4, <3>5 DEF Shifted
    <3>7. k + 1 # FrameLen
      BY <1>7
    <3>8. QED
      BY <2>5, <2>8, <3>6, <3>7 DEF Passed
  <2>9. CASE k + 2 = FrameLen
    <3>1. j = PayloadSize /\ offset # 0 /\ offset' = size' /\ size' \in Nat
      BY <1>1, <2>1, <2>2, <2>4, <2>9 DEF Sizes
    <3>2. b = r[j]
      BY <1>2, <1>7, <2>9, <3>1, FrameBytes
    <3>3. crc' = p[j]
      <4>1. ByteXor(crc, ByteXor(crc, p[j])) = p[j]
        BY <2>6, <2>7, <3>1, XorTwice, Zenon
      <4>2. QED
        BY <2>4, <2>7, <3>1, <3>2, <4>1
    <3>4. Refusing'
      BY <2>4, <2>6, <3>1, <3>3 DEF Refusing
    <3>5. k + 1 # FrameLen
      BY <1>7
    <3>6. QED
      BY <2>5, <2>9, <3>4, <3>5 DEF Passed
  <2>10. QED
    BY <1>1, <2>2, <2>8, <2>9 DEF Sizes
<1>8. CASE k + 1 = FrameLen
  <2>1. b = Marker
    BY <1>8
  <2>2. /\ recvState = "PAYLOAD" /\ offset = size /\ size \in Nat /\ crc = r[PayloadSize]
    BY <1>1, <1>8 DEF Whole, Follows, Sizes
  <2>3. crc # b
    BY <2>1, <2>2, PlainBytes
  <2>4. TakeCrc(b)
    BY <2>2 DEF Recv, TakeMarker, SkipByte, TakeType, TakeSize, TakePayload, TakeCrc, Searching
  <2>5. recvState' = "RESET" /\ payload' = payload /\ values' = values
    BY <2>3, <2>4 DEF TakeCrc, AfterFrame, Accepts
  <2>6. Hunting'
    BY <2>5 DEF Hunting, Searching
  <2>7. QED
    BY <1>3, <2>5, <2>6 DEF PayloadTypes, Genuine
<1>9. QED
  <2>1. k = 0 \/ k = 1 \/ k = 2 \/ (k >= 3 /\ k + 1 < FrameLen) \/ k + 1 = FrameLen
    BY <1>1 DEF Sizes
  <2>2. QED
    BY <1>4, <1>5, <1>6, <1>7, <1>8, <2>1

----------------------------------------------------------------------------
(* The loss of a byte: the line and the FIFO.                              *)

\* A byte on its way: of which write, and which one.
Places == [of : Writes, at : 1 .. FrameLen]

\* The bytes E that the line has sent and the parser has not come to, the lost
\* one among them: the parser has come to the k-th byte of w.
Stream(E, w, k) ==
    /\ E \in Seq(Places) /\ Consecutive(E) /\ UpToLine(E)
    /\ IF Len(E) > 0 THEN w = E[1].of /\ k = E[1].at - 1 ELSE w = frame /\ k = sent

\* Of E, the g-th byte was lost, and none if g is 0: where the FIFO's i-th is.
Slot(i, g) == IF g = 0 \/ i < g THEN i ELSE i + 1

Missing(E, g) ==
    /\ g \in 0 .. Len(E) /\ (lost = 0 => g = 0)
    /\ Len(fifo) = Len(E) - (IF g = 0 THEN 0 ELSE 1)
    /\ \A i \in 1 .. Len(fifo) : fifo[i] = Bytes[E[Slot(i, g)].of][E[Slot(i, g)].at]

\* The parser is in step until it comes to the byte that was lost.
InStep(g, w, k) == IF lost = 0 \/ g > 0 THEN Whole(w, k) ELSE Passed(w, k)

LineKept ==
    /\ frame \in Writes \cup {NoFrame} /\ sent \in 0 .. FrameLen - 1
    /\ frame = NoFrame => sent = 0
    /\ fifo \in Seq(Sendable)

Gap(E, g, w, k) == Stream(E, w, k) /\ Missing(E, g) /\ InStep(g, w, k)

LossInv ==
    /\ lost \in Nat
    /\ PlainWrites /\ lost < 2 =>
        /\ LineKept /\ PayloadTypes /\ Genuine
        /\ \E E, g, w, k : Gap(E, g, w, k)

\* The parser takes the first byte, and comes to the next of its frame, or to the
\* next frame.
LEMMA StreamTail ==
    ASSUME LineKept, NEW E, NEW w, NEW k, Stream(E, w, k), Len(E) > 0
    PROVE  \E S : /\ S \in Seq(Places) /\ Len(S) = Len(E) - 1
                  /\ \A i \in 1 .. Len(S) : S[i] = E[i + 1]
                  /\ k + 1 < FrameLen => Stream(S, w, k + 1)
                  /\ k + 1 = FrameLen => \E u : Stream(S, u, 0)
<1> DEFINE n == Len(E)
<1>1. E \in Seq(Places) /\ n \in Nat /\ n > 0 /\ Consecutive(E) /\ UpToLine(E)
  BY DEF Stream
<1>2. w = E[1].of /\ k = E[1].at - 1 /\ E[1] \in Places
  BY <1>1 DEF Stream
<1>3. k + 1 = E[1].at /\ k \in Nat
  BY <1>2 DEF Places
<1>4. PICK S : S \in Seq(Places) /\ Len(S) = n - 1 /\ \A i \in 1 .. n - 1 : S[i] = E[i + 1]
  <2>1. Tail(E) \in Seq(Places) /\ Len(Tail(E)) = n - 1 /\ \A i \in 1 .. n - 1 : Tail(E)[i] = E[i + 1]
    BY <1>1
  <2>2. QED
    BY <2>1
<1> HIDE DEF n
<1>5. Consecutive(S)
  <2> SUFFICES ASSUME NEW i \in 1 .. Len(S) - 1
               PROVE  IF S[i].at < FrameLen
                      THEN S[i + 1].of = S[i].of /\ S[i + 1].at = S[i].at + 1
                      ELSE S[i + 1].at = 1
    BY DEF Consecutive
  <2>0. Len(S) = n - 1 /\ n \in Nat
    BY <1>1, <1>4
  <2>1. i \in 1 .. n - 1 /\ i + 1 \in 1 .. n - 1
    BY <2>0
  <2>2. S[i] = E[i + 1] /\ S[i + 1] = E[(i + 1) + 1]
    BY <1>4, <2>1
  <2>3. QED
    BY <1>1, <2>1, <2>2 DEF Consecutive, n
<1>6. UpToLine(S)
  <2> SUFFICES ASSUME Len(S) > 0 PROVE Last(S) = Last(E)
    BY <1>1 DEF UpToLine, n
  <2>0. n - 1 \in 1 .. n - 1 /\ (n - 1) + 1 = n
    <3>1. Len(S) = n - 1
      BY <1>4
    <3>2. n \in Nat
      BY <1>1
    <3>3. QED
      BY <3>1, <3>2
  <2>1. S[n - 1] = E[(n - 1) + 1]
    BY <1>4, <2>0
  <2>2. QED
    BY <1>4, <2>0, <2>1 DEF Last, n
<1>7. CASE Len(S) > 0
  <2>1. 1 \in 1 .. n - 1 /\ S[1] = E[1 + 1]
    <3>1. Len(S) = n - 1
      BY <1>4
    <3>2. n \in Nat
      BY <1>1
    <3>3. 1 \in 1 .. n - 1
      BY <1>7, <3>1, <3>2
    <3>4. QED
      BY <1>4, <3>3
  <2>2. IF E[1].at < FrameLen THEN E[1 + 1].of = E[1].of /\ E[1 + 1].at = E[1].at + 1
                              ELSE E[1 + 1].at = 1
    BY <1>1, <2>1 DEF Consecutive, n
  <2>3. k + 1 < FrameLen => Stream(S, w, k + 1)
    <3> SUFFICES ASSUME k + 1 < FrameLen PROVE w = S[1].of /\ k + 1 = S[1].at - 1
      BY <1>4, <1>5, <1>6, <1>7 DEF Stream
    <3>1. QED
      BY <1>2, <1>3, <2>1, <2>2
  <2>4. k + 1 = FrameLen => Stream(S, S[1].of, 0)
    <3> SUFFICES ASSUME k + 1 = FrameLen PROVE 0 = S[1].at - 1
      BY <1>4, <1>5, <1>6, <1>7 DEF Stream
    <3>1. QED
      BY <1>3, <2>1, <2>2
  <2>5. QED
    BY <1>4, <2>3, <2>4 DEF n
<1>8. CASE ~(Len(S) > 0)
  <2>1. n = 1 /\ Last(E) = E[1]
    <3>1. Len(S) = n - 1
      BY <1>4
    <3>2. n \in Nat /\ n > 0
      BY <1>1
    <3>3. QED
      BY <1>8, <3>1, <3>2 DEF Last, n
  <2>2. IF sent > 0 THEN E[1].of = frame /\ E[1].at = sent ELSE E[1].at = FrameLen
    BY <1>1, <2>1 DEF UpToLine, n
  <2>3. sent \in 0 .. FrameLen - 1 /\ FrameLen \in Nat
    BY RecvAssumption DEF LineKept, FrameLen
  <2>4. CASE sent > 0
    <3>1. w = frame /\ k + 1 = sent /\ k + 1 < FrameLen
      BY <1>2, <1>3, <2>2, <2>3, <2>4
    <3>2. Stream(S, w, k + 1)
      BY <1>4, <1>5, <1>6, <1>8, <3>1 DEF Stream
    <3>3. QED
      BY <1>4, <2>3, <3>1, <3>2 DEF n
  <2>5. CASE sent = 0
    <3>1. k + 1 = FrameLen
      BY <1>3, <2>2, <2>5
    <3>2. Stream(S, frame, 0)
      BY <1>4, <1>5, <1>6, <1>8, <2>5 DEF Stream
    <3>3. QED
      BY <1>4, <2>3, <3>1, <3>2 DEF n
  <2>6. QED
    BY <2>3, <2>4, <2>5
<1>9. QED
  BY <1>7, <1>8

\* The line sends a byte.
LEMMA StreamAppend ==
    ASSUME LineKept, NEW E, NEW w, NEW k, Stream(E, w, k), ByteArrives
    PROVE  \E S : /\ Len(S) = Len(E) + 1 /\ Stream(S, w, k)'
                  /\ S[Len(S)] = [of |-> frame, at |-> sent + 1]
                  /\ \A i \in 1 .. Len(E) : S[i] = E[i]
<1> DEFINE t == [of |-> frame, at |-> sent + 1]
           n == Len(E)
<1>1. /\ frame \in Writes /\ sent \in 0 .. FrameLen - 1 /\ FrameLen = Times + 7 /\ Times \in Nat
      /\ Len(Bytes[frame]) = FrameLen
  BY FrameBytes, RecvAssumption DEF LineKept, ByteArrives, FrameLen
<1>2. /\ frame' = (IF sent + 1 = FrameLen THEN NoFrame ELSE frame)
      /\ sent' = (IF sent + 1 = FrameLen THEN 0 ELSE sent + 1)
  BY <1>1 DEF ByteArrives
<1>3. E \in Seq(Places) /\ n \in Nat /\ Consecutive(E) /\ UpToLine(E)
  BY DEF Stream
<1>4. t \in Places /\ t.of = frame /\ t.at = sent + 1
  BY <1>1 DEF Places
<1>5. PICK S : S \in Seq(Places) /\ Len(S) = n + 1 /\ S[n + 1] = t /\ \A i \in 1 .. n : S[i] = E[i]
  <2>1. LET S == Append(E, t)
        IN  S \in Seq(Places) /\ Len(S) = n + 1 /\ S[n + 1] = t /\ \A i \in 1 .. n : S[i] = E[i]
    BY <1>3, <1>4
  <2>2. QED
    BY <2>1
<1> HIDE DEF t, n
<1>6. Consecutive(S)
  <2> SUFFICES ASSUME NEW i \in 1 .. Len(S) - 1
               PROVE  IF S[i].at < FrameLen
                      THEN S[i + 1].of = S[i].of /\ S[i + 1].at = S[i].at + 1
                      ELSE S[i + 1].at = 1
    BY DEF Consecutive
  <2>1. CASE i = n
    <3>1. n > 0 /\ S[i] = Last(E) /\ S[i + 1] = t
      BY <1>3, <1>5, <2>1 DEF Last, n
    <3>2. IF sent > 0 THEN Last(E).of = frame /\ Last(E).at = sent ELSE Last(E).at = FrameLen
      BY <1>3, <3>1 DEF UpToLine, n
    <3>3. QED
      BY <1>1, <1>4, <3>1, <3>2
  <2>2. CASE i # n
    <3>1. i \in 1 .. n - 1 /\ S[i] = E[i] /\ S[i + 1] = E[i + 1]
      BY <1>3, <1>5, <2>2
    <3>2. QED
      BY <1>3, <3>1 DEF Consecutive, n
  <2>3. QED
    BY <2>1, <2>2
<1>7. IF sent' > 0 THEN Last(S).of = frame' /\ Last(S).at = sent' ELSE Last(S).at = FrameLen
  <2>1. Last(S) = t
    BY <1>5 DEF Last
  <2>2. QED
    BY <1>1, <1>2, <1>4, <2>1
<1>8. Len(S) > 0 /\ w = S[1].of /\ k = S[1].at - 1
  <2>1. CASE n > 0
    <3>1. S[1] = E[1]
      BY <1>3, <1>5, <2>1
    <3>2. QED
      BY <1>3, <1>5, <2>1, <3>1 DEF Stream, n
  <2>2. CASE n = 0
    <3>1. S[1] = t /\ w = frame /\ k = sent
      BY <1>5, <2>2 DEF Stream, n
    <3>2. QED
      BY <1>1, <1>4, <1>5, <2>2, <3>1
  <2>3. QED
    BY <1>3, <2>1, <2>2
<1>9. Stream(S, w, k)'
  BY <1>5, <1>6, <1>7, <1>8 DEF Stream, UpToLine, Consecutive
<1>10. QED
  BY <1>5, <1>9 DEF n, t

\* Nothing is on its way, and the payload names no variable.
LEMMA InitLoss == Init => LossInv
<1> SUFFICES ASSUME Init PROVE LossInv
  OBVIOUS
<1>1. Sizes
  BY SizesHold
<1>2. LineKept /\ PayloadTypes
  BY <1>1 DEF Init, LineKept, PayloadTypes, Sizes
<1>3. Genuine
  BY DEF Init, Genuine, Byte
<1>4. Stream(<<>>, frame, 0)
  BY DEF Init, Stream, Consecutive, UpToLine
<1>5. Missing(<<>>, 0)
  BY DEF Init, Missing
<1>6. Whole(frame, 0)
  <2>1. payload[IdAt] = 0
    BY <1>1 DEF Init, Sizes
  <2>2. 0 \notin Vars
    BY RecvAssumption
  <2>3. QED
    BY <2>1, <2>2 DEF Init, Whole, Follows, Kept
<1>7. Gap(<<>>, 0, frame, 0) /\ lost = 0
  BY <1>4, <1>5, <1>6 DEF Init, Gap, InStep
<1>8. QED
  BY <1>2, <1>3, <1>7 DEF LossInv

\* Before its first byte, a frame is any frame.
LEMMA AnyFrame ==
    ASSUME NEW w, NEW u
    PROVE  (Whole(w, 0) => Whole(u, 0)) /\ (Passed(w, 0) => Passed(u, 0))
<1>1. Whole(w, 0) => Whole(u, 0)
  BY DEF Whole, Follows
<1>2. ~Short(0) /\ ~Shifted(w, 0)
  BY DEF Short, Shifted
<1>3. Passed(w, 0) => Passed(u, 0)
  BY <1>2 DEF Passed
<1>4. QED
  BY <1>1, <1>3

\* Steps that leave the parser alone keep where it is.
LEMMA SameParser ==
    ASSUME UNCHANGED <<recvState, marked, type, size, offset, crc, payload>>, NEW w, NEW k
    PROVE  /\ Whole(w, k) => Whole(w, k)'
           /\ Passed(w, k) => Passed(w, k)'
  BY DEF Whole, Passed, Follows, Kept, Hunting, Searching, Short, Shifted, Refusing, IdAt, ValueAt

\* A write that begins has no byte on its way.
LEMMA WriteLoses ==
    ASSUME LineKept, PayloadTypes, Genuine, NEW E, NEW g, NEW w, NEW k, Gap(E, g, w, k),
           NEW x \in Writes, Write(x)
    PROVE  (LineKept /\ PayloadTypes /\ Genuine)' /\ \E u : Gap(E, g, u, k)'
<1>1. /\ frame = NoFrame /\ sent = 0 /\ frame' = x /\ sent' = 0
      /\ UNCHANGED <<fifo, recvState, marked, type, size, offset, crc, payload, values, lost>>
  BY DEF Write, parser, LineKept
<1>2. LineKept'
  <2>1. Sizes
    BY SizesHold
  <2>2. 0 \in 0 .. FrameLen - 1
    BY <2>1 DEF Sizes
  <2>3. QED
    BY <1>1, <2>2 DEF LineKept, FrameLen
<1>3. (PayloadTypes /\ Genuine)'
  BY <1>1 DEF PayloadTypes, Genuine
<1>4. Missing(E, g)'
  BY <1>1 DEF Gap, Missing, Slot
<1> DEFINE u == IF Len(E) > 0 THEN w ELSE x
<1>5. Stream(E, u, k)'
  <2>1. Stream(E, w, k)
    BY DEF Gap
  <2>2. UpToLine(E)'
    BY <1>1, <2>1 DEF Stream, UpToLine
  <2>3. CASE Len(E) > 0
    BY <2>1, <2>2, <2>3 DEF Stream, Consecutive
  <2>4. CASE ~(Len(E) > 0)
    BY <1>1, <2>1, <2>2, <2>4 DEF Stream, Consecutive
  <2>5. QED
    BY <2>3, <2>4
<1>6. InStep(g, w, k)'
  BY <1>1, SameParser DEF Gap, InStep
<1>7. CASE Len(E) > 0
  BY <1>2, <1>3, <1>4, <1>5, <1>6, <1>7 DEF Gap
<1>8. CASE ~(Len(E) > 0)
  <2>1. k = 0
    BY <1>1, <1>8 DEF Gap, Stream
  <2>2. (Whole(w, 0) => Whole(x, 0)) /\ (Passed(w, 0) => Passed(x, 0))
    BY AnyFrame
  <2>3. InStep(g, x, 0)
    BY <2>1, <2>2 DEF Gap, InStep
  <2>4. InStep(g, x, 0)'
    BY <1>1, <2>3, SameParser DEF InStep
  <2>5. QED
    BY <1>2, <1>3, <1>4, <1>5, <1>8, <2>1, <2>4 DEF Gap
<1>9. QED
  BY <1>7, <1>8

\* A byte goes into the FIFO, or it is the one that is lost.
LEMMA ArrivalLoses ==
    ASSUME LineKept, PayloadTypes, Genuine, NEW E, NEW g, NEW w, NEW k, Gap(E, g, w, k),
           ByteArrives, lost \in Nat, lost' < 2
    PROVE  (LineKept /\ PayloadTypes /\ Genuine)' /\ \E S, h : Gap(S, h, w, k)'
<1> DEFINE full == Len(fifo) = Depth
           n == Len(E)
           m == Len(fifo)
<1>1. /\ frame \in Writes /\ sent \in 0 .. FrameLen - 1 /\ FrameLen = Times + 7 /\ Times \in Nat
      /\ Len(Bytes[frame]) = FrameLen
  BY FrameBytes, RecvAssumption DEF LineKept, ByteArrives, FrameLen
<1>2. /\ fifo' = (IF full THEN fifo ELSE Append(fifo, Bytes[frame][sent + 1]))
      /\ lost' = (IF full THEN lost + 1 ELSE lost)
      /\ frame' = (IF sent + 1 = FrameLen THEN NoFrame ELSE frame)
      /\ sent' = (IF sent + 1 = FrameLen THEN 0 ELSE sent + 1)
      /\ UNCHANGED <<recvState, marked, type, size, offset, crc, payload, values>>
  BY <1>1 DEF ByteArrives, parser
<1>3. fifo \in Seq(Sendable) /\ Bytes[frame][sent + 1] \in Sendable
  BY <1>1 DEF Sendable, LineKept
<1>4. LineKept'
  <2>1. fifo' \in Seq(Sendable)
    BY <1>2, <1>3
  <2>2. /\ frame' \in Writes \cup {NoFrame} /\ sent' \in 0 .. FrameLen - 1
        /\ frame' = NoFrame => sent' = 0
    BY <1>1, <1>2 DEF ByteArrives
  <2>3. QED
    BY <2>1, <2>2 DEF LineKept, FrameLen
<1>5. (PayloadTypes /\ Genuine)'
  BY <1>2 DEF PayloadTypes, Genuine
<1>6. PICK S : /\ Len(S) = n + 1 /\ Stream(S, w, k)'
               /\ S[n + 1] = [of |-> frame, at |-> sent + 1]
               /\ \A i \in 1 .. n : S[i] = E[i]
  <2>1. Stream(E, w, k)
    BY DEF Gap
  <2>2. QED
    BY <2>1, StreamAppend
<1>7. /\ n \in Nat /\ m \in Nat /\ g \in 0 .. n /\ (lost = 0 => g = 0)
      /\ m = n - (IF g = 0 THEN 0 ELSE 1)
      /\ \A i \in 1 .. m : fifo[i] = Bytes[E[Slot(i, g)].of][E[Slot(i, g)].at]
  BY <1>3 DEF Gap, Stream, Missing
<1>8. S[n + 1].of = frame /\ S[n + 1].at = sent + 1
  BY <1>6
<1>9. \A i \in 1 .. m : Slot(i, g) \in 1 .. n
  BY <1>7 DEF Slot
<1>10. \A i \in 1 .. m : fifo[i] = Bytes[S[Slot(i, g)].of][S[Slot(i, g)].at]
  BY <1>6, <1>7, <1>9
<1>11. CASE ~full
  <2>1. Len(fifo') = m + 1 /\ fifo'[m + 1] = Bytes[frame][sent + 1] /\ lost' = lost
        /\ \A i \in 1 .. m : fifo'[i] = fifo[i]
    BY <1>2, <1>3, <1>11
  <2>2. Slot(m + 1, g) = n + 1
    BY <1>7 DEF Slot
  <2> HIDE DEF n, m, full
  <2>3. ASSUME NEW i \in 1 .. m + 1
        PROVE  fifo'[i] = Bytes[S[Slot(i, g)].of][S[Slot(i, g)].at]
    <3>1. CASE i = m + 1
      BY <1>8, <2>1, <2>2, <3>1
    <3>2. CASE i # m + 1
      <4>1. i \in 1 .. m
        BY <1>7, <3>2
      <4>2. QED
        BY <1>10, <2>1, <4>1
    <3>3. QED
      BY <3>1, <3>2
  <2>4. g \in 0 .. n + 1 /\ (lost' = 0 => g = 0) /\ m + 1 = (n + 1) - (IF g = 0 THEN 0 ELSE 1)
    BY <1>7, <2>1
  <2>5. Missing(S, g)'
    BY <1>6, <2>1, <2>3, <2>4 DEF Missing, Slot
  <2>6. InStep(g, w, k)'
    BY <1>2, <2>1, SameParser DEF Gap, InStep
  <2>7. QED
    BY <1>4, <1>5, <1>6, <2>5, <2>6 DEF Gap
<1>12. CASE full
  <2>1. lost = 0 /\ lost' = 1 /\ fifo' = fifo /\ g = 0 /\ m = n
    BY <1>2, <1>7, <1>12
  <2> HIDE DEF n, m, full
  <2>2. \A i \in 1 .. m : Slot(i, n + 1) = i /\ Slot(i, g) = i
    BY <1>7, <2>1 DEF Slot
  <2>3. \A i \in 1 .. m : fifo[i] = Bytes[S[Slot(i, n + 1)].of][S[Slot(i, n + 1)].at]
    BY <1>10, <2>2
  <2>4. n + 1 \in 0 .. n + 1 /\ n + 1 # 0 /\ m = (n + 1) - 1 /\ lost' # 0
    BY <1>7, <2>1
  <2>5. Len(fifo') = m
    BY <2>1 DEF m
  <2>6. Missing(S, n + 1)'
    BY <1>6, <2>1, <2>3, <2>4, <2>5 DEF Missing, Slot
  <2>7. InStep(n + 1, w, k)'
    <3>1. Whole(w, k)
      BY <2>1 DEF Gap, InStep
    <3>2. Whole(w, k)'
      BY <1>2, <3>1, SameParser
    <3>3. n + 1 > 0
      BY <1>7
    <3>4. QED
      BY <3>2, <3>3 DEF InStep
  <2>8. QED
    BY <1>4, <1>5, <1>6, <2>6, <2>7 DEF Gap
<1>13. QED
  BY <1>11, <1>12

\* The parser takes the next byte; when that is the one behind the lost one, it
\* falls out of step.
LEMMA ReadLoses ==
    ASSUME PlainWrites, LineKept, PayloadTypes, Genuine,
           NEW E, NEW g, NEW w, NEW k, Gap(E, g, w, k),
           ReadByte, lost \in Nat, lost < 2
    PROVE  (LineKept /\ PayloadTypes /\ Genuine)' /\ \E S, h, u, j : Gap(S, h, u, j)'
<1> DEFINE n == Len(E)
           m == Len(fifo)
<1>1. /\ E \in Seq(Places) /\ n \in Nat /\ Stream(E, w, k) /\ Consecutive(E)
      /\ fifo \in Seq(Sendable) /\ m \in Nat /\ m > 0 /\ Sizes
  BY SizesHold DEF Gap, Stream, LineKept, ReadByte, Reading
<1>2. /\ g \in 0 .. n /\ (lost = 0 => g = 0) /\ m = n - (IF g = 0 THEN 0 ELSE 1)
      /\ \A i \in 1 .. m : fifo[i] = Bytes[E[Slot(i, g)].of][E[Slot(i, g)].at]
  BY DEF Gap, Missing
<1>3. n > 0 /\ E[1] \in Places
  BY <1>1, <1>2
<1>0. FrameLen \in Nat
  BY SizesHold DEF Sizes
<1>4. w \in Writes /\ k \in 0 .. FrameLen - 1 /\ E[1].of = w /\ E[1].at = k + 1
  <2>1. w = E[1].of /\ k = E[1].at - 1
    BY <1>1, <1>3 DEF Stream
  <2>2. E[1].of \in Writes /\ E[1].at \in 1 .. FrameLen
    BY <1>3 DEF Places
  <2>3. k \in 0 .. FrameLen - 1 /\ E[1].at = k + 1
    BY <1>0, <2>1, <2>2
  <2>4. QED
    BY <2>1, <2>2, <2>3
<1>5. fifo' = Tail(fifo) /\ Recv(fifo[1]) /\ UNCHANGED <<frame, sent, lost>>
  BY <1>1 DEF ReadByte, line
<1>6. /\ Len(fifo') = m - 1
      /\ \A i \in 1 .. m - 1 : fifo'[i] = fifo[i + 1]
      /\ LineKept'
  BY <1>1, <1>5 DEF LineKept, FrameLen
<1>7. PICK S : /\ S \in Seq(Places) /\ Len(S) = n - 1
               /\ \A i \in 1 .. Len(S) : S[i] = E[i + 1]
               /\ k + 1 < FrameLen => Stream(S, w, k + 1)
               /\ k + 1 = FrameLen => \E u : Stream(S, u, 0)
  BY <1>1, <1>3, StreamTail
<1>8. k \in Nat /\ FrameLen \in Nat /\ (k + 1 < FrameLen \/ k + 1 = FrameLen)
  BY <1>0, <1>4
<1>9. ASSUME NEW T, NEW u, NEW j, Stream(T, u, j) PROVE Stream(T, u, j)'
  BY <1>5, <1>9 DEF Stream, UpToLine, Consecutive
<1> HIDE DEF n, m
<1>10. CASE g # 1
  <2> DEFINE h == IF g = 0 THEN 0 ELSE g - 1
  <2>1. Slot(1, g) = 1 /\ (h = 0 <=> g = 0) /\ (h > 0 <=> g > 0)
    BY <1>2, <1>10 DEF Slot
  <2>2. fifo[1] = Bytes[w][k + 1]
    <3>1. 1 \in 1 .. m
      BY <1>1
    <3>2. fifo[1] = Bytes[E[Slot(1, g)].of][E[Slot(1, g)].at]
      BY <1>2, <3>1, Zenon
    <3>3. QED
      BY <1>4, <2>1, <3>2
  <2>3. Missing(S, h)'
    <3>1. ASSUME NEW i \in 1 .. m - 1
          PROVE  Slot(i, h) + 1 = Slot(i + 1, g) /\ Slot(i, h) \in 1 .. n - 1 /\ i + 1 \in 1 .. m
      BY <1>1, <1>2, <1>10 DEF Slot
    <3>2. ASSUME NEW i \in 1 .. m - 1
          PROVE  fifo'[i] = Bytes[S[Slot(i, h)].of][S[Slot(i, h)].at]
      <4>1. S[Slot(i, h)] = E[Slot(i, h) + 1]
        BY <1>7, <3>1
      <4>2. fifo[i + 1] = Bytes[E[Slot(i + 1, g)].of][E[Slot(i + 1, g)].at]
        BY <1>2, <3>1
      <4>3. Slot(i, h) + 1 = Slot(i + 1, g) /\ fifo'[i] = fifo[i + 1]
        BY <1>6, <3>1
      <4>4. QED
        BY <4>1, <4>2, <4>3
    <3>3. /\ h \in 0 .. n - 1 /\ (lost = 0 => h = 0)
          /\ m - 1 = (n - 1) - (IF h = 0 THEN 0 ELSE 1)
      BY <1>1, <1>2, <1>3, <1>10 DEF n
    <3> HIDE DEF h
    <3>4. QED
      BY <1>5, <1>6, <1>7, <3>2, <3>3 DEF Missing, Slot
  <2>4. CASE lost = 0 \/ g > 0
    <3>1. Whole(w, k)
      BY <2>4 DEF Gap, InStep
    <3>2. /\ PayloadTypes' /\ Genuine'
          /\ k + 1 < FrameLen => Whole(w, k + 1)'
          /\ k + 1 = FrameLen => \A u : Whole(u, 0)'
      BY <1>4, <1>5, <2>2, <3>1, RecvWhole
    <3>3. lost' = 0 \/ h > 0
      BY <1>5, <2>1, <2>4
    <3> HIDE DEF h
    <3>4. CASE k + 1 < FrameLen
      <4>1. Gap(S, h, w, k + 1)'
        BY <1>7, <1>9, <2>3, <3>2, <3>3, <3>4 DEF Gap, InStep
      <4>2. QED
        BY <1>6, <3>2, <4>1
    <3>5. CASE k + 1 = FrameLen
      <4>1. PICK u : Stream(S, u, 0)
        BY <1>7, <3>5
      <4>2. Gap(S, h, u, 0)'
        BY <1>9, <2>3, <3>2, <3>3, <3>5, <4>1 DEF Gap, InStep
      <4>3. QED
        BY <1>6, <3>2, <4>2
    <3>6. QED
      BY <1>8, <3>4, <3>5
  <2>5. CASE ~(lost = 0 \/ g > 0)
    <3>1. Passed(w, k)
      BY <2>5 DEF Gap, InStep
    <3>2. /\ PayloadTypes' /\ Genuine'
          /\ k + 1 < FrameLen => Passed(w, k + 1)'
          /\ k + 1 = FrameLen => \A u : Passed(u, 0)'
      BY <1>4, <1>5, <2>2, <3>1, RecvPassed
    <3>3. ~(lost' = 0 \/ h > 0)
      BY <1>5, <2>1, <2>5
    <3> HIDE DEF h
    <3>4. CASE k + 1 < FrameLen
      <4>1. Gap(S, h, w, k + 1)'
        BY <1>7, <1>9, <2>3, <3>2, <3>3, <3>4 DEF Gap, InStep
      <4>2. QED
        BY <1>6, <3>2, <4>1
    <3>5. CASE k + 1 = FrameLen
      <4>1. PICK u : Stream(S, u, 0)
        BY <1>7, <3>5
      <4>2. Gap(S, h, u, 0)'
        BY <1>9, <2>3, <3>2, <3>3, <3>5, <4>1 DEF Gap, InStep
      <4>3. QED
        BY <1>6, <3>2, <4>2
    <3>6. QED
      BY <1>8, <3>4, <3>5
  <2>6. QED
    BY <2>4, <2>5
<1>11. CASE g = 1
  <2>1. lost # 0 /\ Whole(w, k) /\ n = m + 1 /\ Len(S) > 0 /\ 1 \in 1 .. Len(S) /\ n \in Nat
    <3>1. Whole(w, k)
      BY <1>11 DEF Gap, InStep
    <3>2. n = m + 1 /\ lost # 0
      BY <1>1, <1>2, <1>3, <1>11 DEF n
    <3>3. Len(S) = n - 1
      BY <1>7
    <3>4. QED
      BY <1>1, <3>1, <3>2, <3>3
  <2>2. Slot(1, g) = 2 /\ S[1] = E[2] /\ fifo[1] = Bytes[S[1].of][S[1].at]
    <3>1. Slot(1, g) = 2 /\ 1 \in 1 .. m
      BY <1>1, <1>11 DEF Slot
    <3>2. S[1] = E[1 + 1]
      BY <1>7, <2>1
    <3>3. QED
      BY <1>2, <3>1, <3>2
  <2>3. PICK u, j : Stream(S, u, j) /\ (IF k + 1 < FrameLen THEN u = w /\ j = k + 1 ELSE j = 0)
    <3>1. CASE k + 1 < FrameLen
      BY <1>7, <3>1
    <3>2. CASE k + 1 = FrameLen
      <4>1. PICK u : Stream(S, u, 0)
        BY <1>7, <3>2
      <4>2. QED
        BY <1>8, <3>2, <4>1
    <3>3. QED
      BY <1>8, <3>1, <3>2
  <2>4. /\ S[1].of = u /\ S[1].at = j + 1 /\ u \in Writes /\ j \in Nat
        /\ j + 1 < FrameLen \/ j + 1 = FrameLen
    <3>1. u = S[1].of /\ j = S[1].at - 1
      BY <2>1, <2>3 DEF Stream
    <3>2. S[1].of \in Writes /\ S[1].at \in 1 .. FrameLen
      <4>1. S[1] \in Places
        BY <1>7, <2>1
      <4>2. QED
        BY <4>1 DEF Places
    <3>3. QED
      BY <1>8, <3>1, <3>2
  <2>5. fifo[1] = IF k + 1 < FrameLen THEN Bytes[w][k + 2] ELSE Marker
    <3>1. CASE k + 1 < FrameLen
      <4>1. (k + 1) + 1 = k + 2
        BY <1>8
      <4>2. QED
        BY <2>2, <2>3, <2>4, <3>1, <4>1
    <3>2. CASE ~(k + 1 < FrameLen)
      <4>1. S[1].at = 1
        BY <2>3, <2>4, <3>2
      <4>2. QED
        BY <2>2, <2>4, <3>2, <4>1, FrameBytes
    <3>3. QED
      BY <3>1, <3>2
  <2>6. /\ PayloadTypes' /\ Genuine'
        /\ k + 2 < FrameLen => Passed(w, k + 2)'
        /\ k + 2 = FrameLen => \A x : Passed(x, 0)'
        /\ k + 1 = FrameLen => \A x : Passed(x, 1)'
    BY <1>4, <1>5, <2>1, <2>5, GapPassed
  <2>7. PICK T : /\ T \in Seq(Places) /\ Len(T) = Len(S) - 1
                 /\ \A i \in 1 .. Len(T) : T[i] = S[i + 1]
                 /\ j + 1 < FrameLen => Stream(T, u, j + 1)
                 /\ j + 1 = FrameLen => \E x : Stream(T, x, 0)
    BY <2>1, <2>3, StreamTail
  <2>8. Missing(T, 0)'
    <3>1. Len(T) = m - 1 /\ Len(S) = m
      BY <1>1, <1>7, <2>1, <2>7
    <3>2. ASSUME NEW i \in 1 .. m - 1 PROVE fifo'[i] = Bytes[T[i].of][T[i].at]
      <4>1. i + 1 \in 1 .. m /\ Slot(i + 1, g) = (i + 1) + 1
        BY <1>1, <1>11 DEF Slot
      <4>2. fifo'[i] = fifo[i + 1] /\ T[i] = S[i + 1] /\ S[i + 1] = E[(i + 1) + 1]
        BY <1>6, <1>7, <2>7, <3>1, <4>1
      <4>3. fifo[i + 1] = Bytes[E[Slot(i + 1, g)].of][E[Slot(i + 1, g)].at]
        BY <1>2, <4>1
      <4>4. QED
        BY <4>1, <4>2, <4>3
    <3>3. m - 1 \in Nat
      BY <1>1
    <3>4. QED
      BY <1>6, <3>1, <3>2, <3>3 DEF Missing, Slot
  <2>9. lost' # 0
    BY <1>5, <2>1
  <2>10. CASE k + 2 < FrameLen
    <3>1. u = w /\ j + 1 = k + 2 /\ j + 1 < FrameLen
      BY <1>8, <2>3, <2>10
    <3>2. Stream(T, w, k + 2)'
      BY <1>9, <2>7, <3>1
    <3>3. Gap(T, 0, w, k + 2)'
      BY <2>6, <2>8, <2>9, <2>10, <3>2 DEF Gap, InStep
    <3>4. QED
      BY <1>6, <2>6, <3>3
  <2>11. CASE k + 2 = FrameLen
    <3>1. j + 1 = FrameLen
      BY <1>8, <2>3, <2>11
    <3>2. PICK x : Stream(T, x, 0)
      BY <2>7, <3>1
    <3>3. Stream(T, x, 0)'
      BY <1>9, <3>2
    <3>4. Gap(T, 0, x, 0)'
      BY <2>6, <2>8, <2>9, <2>11, <3>3 DEF Gap, InStep
    <3>5. QED
      BY <1>6, <2>6, <3>4
  <2>12. CASE k + 1 = FrameLen
    <3>1. j + 1 = 1 /\ 1 < FrameLen
      BY <1>1, <2>3, <2>12 DEF Sizes
    <3>2. Stream(T, u, 1)'
      BY <1>9, <2>7, <3>1
    <3>3. Gap(T, 0, u, 1)'
      BY <2>6, <2>8, <2>9, <2>12, <3>2 DEF Gap, InStep
    <3>4. QED
      BY <1>6, <2>6, <3>3
  <2>13. QED
    BY <1>8, <2>10, <2>11, <2>12
<1>12. QED
  BY <1>10, <1>11

\* The passes reset Save at most.
LEMMA PassLoses ==
    ASSUME LineKept, PayloadTypes, Genuine, NEW E, NEW g, NEW w, NEW k, Gap(E, g, w, k),
           SendPass \/ PassDone \/ Sent \/ UNCHANGED vars
    PROVE  (LineKept /\ PayloadTypes /\ Genuine)' /\ Gap(E, g, w, k)'
<1>1. /\ UNCHANGED <<frame, sent, fifo, recvState, marked, type, size, offset, crc, payload, lost>>
      /\ values' = values \/ values' = [values EXCEPT ![Save] = 0]
  BY DEF SendPass, PassDone, Sent, vars, line, parser, history
<1>2. (LineKept /\ PayloadTypes)'
  BY <1>1 DEF LineKept, PayloadTypes
<1>3. Genuine'
  <2>1. CASE values' = values
    BY <2>1 DEF Genuine
  <2>2. CASE values' = [values EXCEPT ![Save] = 0]
    <3>1. values \in [Vars -> Byte] /\ 0 \in Byte
      BY DEF Genuine, Byte
    <3>2. values' \in [Vars -> Byte]
      BY <2>2, <3>1
    <3>3. \A v \in Vars : values'[v] = 0 \/ values'[v] = values[v]
      BY <2>2, <3>1
    <3>4. QED
      BY <3>2, <3>3 DEF Genuine
  <2>3. QED
    BY <1>1, <2>1, <2>2
<1>4. Missing(E, g)' /\ Stream(E, w, k)'
  BY <1>1 DEF Gap, Missing, Slot, Stream, UpToLine, Consecutive
<1>5. InStep(g, w, k)'
  BY <1>1, SameParser DEF Gap, InStep
<1>6. QED
  BY <1>2, <1>3, <1>4, <1>5 DEF Gap

\* Step by step: each action keeps the labelling or gives a new one.
LEMMA NextLoss ==
    ASSUME LossInv, [Next]_vars
    PROVE  LossInv'
<1>1. lost \in Nat /\ lost' \in Nat /\ (lost' < 2 => lost < 2)
  BY DEF LossInv, Next, Write, ByteArrives, SendPass, ReadByte, PassDone, Sent, vars, history
<1> SUFFICES ASSUME PlainWrites, lost' < 2
             PROVE  (LineKept /\ PayloadTypes /\ Genuine)' /\ \E E, g, w, k : Gap(E, g, w, k)'
  BY <1>1 DEF LossInv, PlainWrites
<1>2. lost < 2 /\ LineKept /\ PayloadTypes /\ Genuine
  BY <1>1 DEF LossInv
<1>3. PICK E, g, w, k : Gap(E, g, w, k)
  BY <1>2 DEF LossInv
<1>4. ASSUME NEW x \in Writes, Write(x)
      PROVE  (LineKept /\ PayloadTypes /\ Genuine)' /\ \E u : Gap(E, g, u, k)'
  BY <1>2, <1>3, <1>4, WriteLoses
<1>5. CASE ByteArrives
  <2>1. (LineKept /\ PayloadTypes /\ Genuine)' /\ \E S, h : Gap(S, h, w, k)'
    BY <1>1, <1>2, <1>3, <1>5, ArrivalLoses
  <2>2. QED
    BY <2>1
<1>6. CASE ReadByte
  BY <1>1, <1>2, <1>3, <1>6, ReadLoses
<1>7. CASE SendPass \/ PassDone \/ Sent \/ UNCHANGED vars
  <2>1. (LineKept /\ PayloadTypes /\ Genuine)' /\ Gap(E, g, w, k)'
    BY <1>2, <1>3, <1>7, PassLoses
  <2>2. QED
    BY <2>1
<1>8. QED
  BY <1>4, <1>5, <1>6, <1>7 DEF Next

\* Up to the second loss, the parser is in step, or it has lost one byte and is
\* in one of four ways out of step until the next marker.
THEOREM OutOfStep == Spec => []LossInv
  BY InitLoss, NextLoss, PTL DEF Spec

\* OneLossIsCaught: the loss of any one byte, of the header or the payload or the
\* checksum, writes nothing that the ground never wrote, for every set of plain
\* writes, every depth of the FIFO and every length of the frame in which mod, if
\* it is taken for the size, does not reach up to the id.
THEOREM LossCaught == Spec => []OneLossIsCaught
<1>1. LossInv => OneLossIsCaught
  BY DEF LossInv, Genuine, OneLossIsCaught
<1>2. QED
  BY <1>1, OutOfStep, PTL

=============================================================================
