------------------------- MODULE MotorOutput_proofs -------------------------
(***************************************************************************)
(* Theorems about MotorOutput, for every number of motors, every width of  *)
(* the packets and every request.                                          *)
(***************************************************************************)
EXTENDS MotorOutput, WellFoundedInduction, TLAPS

\* Bit b of motor m's word was written, when motor and bit are next.
Written(m, b) == m < motor \/ (m = motor /\ b > bit)

\* What the bit planes hold, as motorOutputSet goes on.
PlanesAsWritten ==
    /\ pc = "clear" => \A b \in Position, m \in Motor : b < bit => planes[b][m] = FALSE
    /\ pc = "write" => \A b \in Position, m \in Motor :
            planes[Size - 1 - b][m] <=> Written(m, b) /\ command[m][b]
    /\ pc \in {"idle", "address", "trigger"} => \A b \in Position, m \in Motor :
            planes[Size - 1 - b][m] = command[m][b]

\* What the channel has sent of the planes, if no call came in between.
SentAsPlanned ==
    /\ Len(wire) = IF left > 0 THEN Size - left ELSE 0
    /\ at + left <= 2 * Size
    /\ pc = "trigger" => at + left <= Size /\ (~overlapped => at = 0 /\ left = 0)
    /\ ~overlapped => at + left <= Size
    /\ ~overlapped /\ left > 0 =>
        /\ at = Size - left /\ pc \in {"idle", "clear"}
        /\ \A k \in 1 .. at : wire[k] = planes[k - 1]

\* What the frame that was not disturbed has done once it is sent.
Carried ==
    pc = "idle" /\ ~Busy /\ ~overlapped => \A m \in Motor : esc[m] = command[m]

IInv ==
    /\ TypeOK
    /\ \A m \in Motor : Accepts(command[m])
    /\ PlanesAsWritten
    /\ SentAsPlanned
    /\ Carried

----------------------------------------------------------------------------
(* Words. *)

\* A packet is four nibbles of Nib bits.
LEMMA SizeFacts ==
    /\ Nib \in Nat \ {0} /\ Motors \in Nat \ {0}
    /\ Size \in Nat /\ Size >= 4 /\ Size = 4 * Nib
    /\ Position = 0 .. Size - 1 /\ Motor = 1 .. Motors
  BY MotorAssumption DEF Size, Position, Motor

\* A packet of dshotBuildPacket is accepted, whatever the throttle: the sum
\* fits what the ESC computes.
LEMMA BuiltIsAccepted ==
    ASSUME NEW v
    PROVE  BuildPacket(v) \in Word /\ Accepts(BuildPacket(v))
<1> DEFINE d == Data(v)
           w == BuildPacket(v)
<1>1. w = [i \in Position |-> IF i < Nib THEN Sum(d, i) ELSE d[i - Nib]]
  BY DEF BuildPacket
<1>2. \A j \in 0 .. 3 * Nib - 1 : d[j] \in BOOLEAN
  BY DEF Data
<1> HIDE DEF d, w
<1>3. \A i \in Position : i < Nib \/ i - Nib \in 0 .. 3 * Nib - 1
  BY SizeFacts
<1>4. \A i \in Position : w[i] \in BOOLEAN
  <2> SUFFICES ASSUME NEW i \in Position PROVE w[i] \in BOOLEAN
    OBVIOUS
  <2>1. CASE i < Nib
    <3>1. w[i] = Sum(d, i)
      BY <1>1, <2>1
    <3>2. QED
      BY <3>1 DEF Sum
  <2>2. CASE ~(i < Nib)
    <3>1. w[i] = d[i - Nib]
      BY <1>1, <2>2
    <3>2. QED
      BY <1>2, <1>3, <2>2, <3>1
  <2>3. QED
    BY <2>1, <2>2
<1>5. w \in Word
  BY <1>1, <1>4 DEF Word
<1>6. ASSUME NEW i \in 0 .. Nib - 1
      PROVE  ((w[i] # w[i + Nib]) # w[i + 2 * Nib]) = w[i + 3 * Nib]
  <2>1. /\ i \in Position /\ i + Nib \in Position
        /\ i + 2 * Nib \in Position /\ i + 3 * Nib \in Position
        /\ i < Nib /\ ~(i + Nib < Nib) /\ ~(i + 2 * Nib < Nib) /\ ~(i + 3 * Nib < Nib)
        /\ i + Nib - Nib = i /\ i + 2 * Nib - Nib = i + Nib /\ i + 3 * Nib - Nib = i + 2 * Nib
        /\ i \in 0 .. 3 * Nib - 1 /\ i + Nib \in 0 .. 3 * Nib - 1
        /\ i + 2 * Nib \in 0 .. 3 * Nib - 1
    BY SizeFacts
  <2>2. /\ w[i] = Sum(d, i) /\ w[i + Nib] = d[i]
        /\ w[i + 2 * Nib] = d[i + Nib] /\ w[i + 3 * Nib] = d[i + 2 * Nib]
    BY <1>1, <2>1, SizeFacts
  <2>3. d[i] \in BOOLEAN /\ d[i + Nib] \in BOOLEAN /\ d[i + 2 * Nib] \in BOOLEAN
    BY <1>2, <2>1
  <2>4. QED
    BY <2>2, <2>3, Zenon DEF Sum
<1>7. QED
  BY <1>5, <1>6 DEF Accepts, w

\* The packet of zeros passes the checksum.
LEMMA ZeroIsAccepted == ZeroPacket \in Word /\ Accepts(ZeroPacket)
<1>1. \A i \in Position : ZeroPacket[i] = FALSE
  BY DEF ZeroPacket
<1>2. ZeroPacket \in Word
  BY DEF ZeroPacket, Word
<1>3. ASSUME NEW i \in 0 .. Nib - 1
      PROVE  ((ZeroPacket[i] # ZeroPacket[i + Nib]) # ZeroPacket[i + 2 * Nib])
                = ZeroPacket[i + 3 * Nib]
  <2>1. /\ i \in Position /\ i + Nib \in Position
        /\ i + 2 * Nib \in Position /\ i + 3 * Nib \in Position
    BY SizeFacts
  <2>2. /\ ZeroPacket[i] = FALSE /\ ZeroPacket[i + Nib] = FALSE
        /\ ZeroPacket[i + 2 * Nib] = FALSE /\ ZeroPacket[i + 3 * Nib] = FALSE
    BY <1>1, <2>1
  <2>3. QED
    BY <2>2, Zenon
<1>4. QED
  BY <1>2, <1>3 DEF Accepts

----------------------------------------------------------------------------
(* Types. *)

\* Each step keeps the types.
LEMMA TypeStep ==
    ASSUME IInv, [Next]_vars
    PROVE  TypeOK'
<1> TypeOK /\ SentAsPlanned
  BY DEF IInv
<1> Motors \in Nat \ {0} /\ Size \in Nat /\ Size >= 4 /\ Position = 0 .. Size - 1
    /\ Motor = 1 .. Motors
  BY SizeFacts
<1> USE DEF TypeOK
<1>1. ASSUME NEW build \in [Motor -> Word], Set(build)
      PROVE  TypeOK'
  <2>1. bit' \in Position /\ pc' = "clear" /\ command' \in [Motor -> Word]
    BY <1>1 DEF Set
  <2>2. UNCHANGED <<motor, planes, at, left, wire, esc, overlapped>>
    BY <1>1 DEF Set, channel
  <2>3. QED
    BY <2>1, <2>2
<1>2. CASE SetEnabled
  <2>1. PICK output \in Outputs :
            Set([m \in Motor |-> BuildPacket(Clamped(Idle + output[m]))])
    BY <1>2 DEF SetEnabled
  <2>2. [m \in Motor |-> BuildPacket(Clamped(Idle + output[m]))] \in [Motor -> Word]
    BY BuiltIsAccepted
  <2>3. QED
    BY <1>1, <2>1, <2>2
<1>3. CASE SetDisabled
  <2>1. [m \in Motor |-> ZeroPacket] \in [Motor -> Word]
    BY ZeroIsAccepted
  <2>2. QED
    BY <1>1, <1>3, <2>1 DEF SetDisabled
<1>4. CASE Clear
  <2>1. Cleared(planes[bit]) \in Plane
    BY DEF Cleared, Plane
  <2>2. planes' \in [Position -> Plane]
    BY <1>4, <2>1 DEF Clear, Cleared
  <2>3. bit' \in Position /\ motor' \in Motor /\ pc' \in {"clear", "write"}
    BY <1>4 DEF Clear
  <2>4. overlapped' \in BOOLEAN
    BY <1>4, Zenon DEF Clear
  <2>5. UNCHANGED <<command, at, left, wire, esc>>
    BY <1>4 DEF Clear, channel
  <2>6. QED
    BY <2>2, <2>3, <2>4, <2>5
<1>5. CASE Write
  <2>1. (planes[PlaneOf(bit)][motor] \/ command[motor][bit]) \in BOOLEAN
    OBVIOUS
  <2>2. planes' \in [Position -> Plane]
    <3>1. PlaneOf(bit) \in Position
      BY DEF PlaneOf
    <3>2. planes' = [planes EXCEPT ![PlaneOf(bit)][motor] =
                        planes[PlaneOf(bit)][motor] \/ command[motor][bit]]
      BY <1>5 DEF Write
    <3>3. QED
      BY <2>1, <3>1, <3>2 DEF Plane
  <2>3. bit' \in Position /\ motor' \in Motor /\ pc' \in {"write", "address"}
    BY <1>5 DEF Write
  <2>4. overlapped' \in BOOLEAN
    BY <1>5, Zenon DEF Write
  <2>5. UNCHANGED <<command, at, left, wire, esc>>
    BY <1>5 DEF Write, channel
  <2>6. QED
    BY <2>2, <2>3, <2>4, <2>5
<1>6. CASE SetAddress
  <2>1. overlapped' \in BOOLEAN
    <3>1. Busy \in BOOLEAN
      BY DEF Busy
    <3>2. QED
      BY <1>6, <3>1, Zenon DEF SetAddress
  <2>2. QED
    BY <1>6, <2>1 DEF SetAddress, StartAddress
<1>7. CASE Trigger
  BY <1>7 DEF Trigger
<1>8. Sent \in Plane
  BY MotorAssumption, SMTT(30) DEF Sent, Plane, Motor, SentAsPlanned
<1>9. CASE Send
  <2>1. wire' \in Seq(Plane) /\ Len(wire') <= Size
    BY <1>8, <1>9 DEF Send, SentAsPlanned
  <2>2. at' \in 0 .. 2 * Size /\ left' \in 0 .. Size
    BY <1>9 DEF Send, SentAsPlanned
  <2>3. UNCHANGED <<call, planes, esc, overlapped>>
    BY <1>9 DEF Send
  <2>4. QED
    BY <2>1, <2>2, <2>3 DEF call
<1>10. CASE SendLast
  <2>1. wire' \in Seq(Plane) /\ Len(wire') <= Size
    BY <1>10 DEF SendLast
  <2>2. at' \in 0 .. 2 * Size /\ left' \in 0 .. Size
    BY <1>10 DEF SendLast, SentAsPlanned
  <2>3. esc' \in [Motor -> Word]
    <3>1. ASSUME NEW m \in Motor PROVE Received(Append(wire, Sent), m) \in Word
      <4>1. Append(wire, Sent) \in Seq(Plane) /\ Len(Append(wire, Sent)) = Size
        BY <1>8, <1>10 DEF SendLast, SentAsPlanned
      <4>2. \A i \in Position : Append(wire, Sent)[Size - i] \in Plane
        BY <4>1
      <4>3. \A i \in Position : Append(wire, Sent)[Size - i][m] \in BOOLEAN
        BY <4>2 DEF Plane
      <4>4. QED
        BY <4>3 DEF Received, Word
    <3>2. QED
      BY <1>10, <3>1 DEF SendLast
  <2>4. UNCHANGED <<call, planes, overlapped>>
    BY <1>10 DEF SendLast
  <2>5. QED
    BY <2>1, <2>2, <2>3, <2>4 DEF call
<1>11. CASE UNCHANGED vars
  BY <1>11 DEF vars, call, channel
<1>12. QED
  BY <1>2, <1>3, <1>4, <1>5, <1>6, <1>7, <1>9, <1>10, <1>11 DEF Next, CallStep

----------------------------------------------------------------------------
(* The bit planes. *)

\* Every step keeps the commands acceptable and the planes as they were written.
LEMMA PlanesStep ==
    ASSUME IInv, [Next]_vars
    PROVE  (\A m \in Motor : Accepts(command'[m])) /\ PlanesAsWritten'
<1> TypeOK /\ PlanesAsWritten /\ \A m \in Motor : Accepts(command[m])
  BY DEF IInv
<1> Motors \in Nat \ {0} /\ Size \in Nat /\ Size >= 4 /\ Position = 0 .. Size - 1
    /\ Motor = 1 .. Motors
  BY SizeFacts
<1> bit \in Position /\ motor \in Motor
  BY DEF TypeOK
<1> \A b \in Position, m \in Motor : planes[b][m] \in BOOLEAN /\ command[m][b] \in BOOLEAN
  BY DEF TypeOK, Word, Plane
<1>1. CASE SetEnabled
  <2>1. PICK output \in Outputs :
            Set([m \in Motor |-> BuildPacket(Clamped(Idle + output[m]))])
    BY <1>1 DEF SetEnabled
  <2>2. command' = [m \in Motor |-> BuildPacket(Clamped(Idle + output[m]))]
        /\ pc' = "clear" /\ bit' = 0
    BY <2>1 DEF Set
  <2>3. \A m \in Motor : Accepts(command'[m])
    BY <2>2, BuiltIsAccepted
  <2>4. PlanesAsWritten'
    BY <2>2 DEF PlanesAsWritten
  <2>5. QED
    BY <2>3, <2>4
<1>2. CASE SetDisabled
  <2>1. command' = [m \in Motor |-> ZeroPacket] /\ pc' = "clear" /\ bit' = 0
    BY <1>2 DEF SetDisabled, Set
  <2>2. \A m \in Motor : Accepts(command'[m])
    BY <2>1, ZeroIsAccepted
  <2>3. PlanesAsWritten'
    BY <2>1 DEF PlanesAsWritten
  <2>4. QED
    BY <2>2, <2>3
<1>3. CASE Clear
  <2>1. pc = "clear" /\ command' = command /\ planes \in [Position -> Plane]
        /\ planes' = [planes EXCEPT ![bit] = [m \in Motor |-> FALSE]]
    BY <1>3 DEF Clear, Cleared, TypeOK
  <2>2. \A b \in Position, m \in Motor : b <= bit => planes'[b][m] = FALSE
    BY <2>1 DEF PlanesAsWritten
  <2>3. CASE bit < Size - 1
    <3>1. pc' = "clear" /\ bit' = bit + 1
      BY <1>3, <2>1, <2>3 DEF Clear
    <3>2. QED
      BY <2>1, <2>2, <3>1 DEF PlanesAsWritten
  <2>4. CASE bit = Size - 1
    <3>1. pc' = "write" /\ bit' = Size - 1 /\ motor' = 1
      BY <1>3, <2>4 DEF Clear
    <3>2. \A b \in Position, m \in Motor : planes'[Size - 1 - b][m] = FALSE
      BY <2>2, <2>4
    <3>3. \A b \in Position, m \in Motor : ~Written(m, b)'
      BY <3>1 DEF Written
    <3>4. \A b \in Position, m \in Motor :
            planes'[Size - 1 - b][m] <=> Written(m, b)' /\ command'[m][b]
      BY <3>2, <3>3, Zenon
    <3>5. QED
      BY <2>1, <3>1, <3>4 DEF PlanesAsWritten
  <2>5. QED
    BY <2>3, <2>4
<1>4. CASE Write
  <2>1. pc = "write" /\ command' = command /\ planes \in [Position -> Plane]
        /\ planes' = [planes EXCEPT ![Size - 1 - bit][motor] =
                        planes[Size - 1 - bit][motor] \/ command[motor][bit]]
    BY <1>4 DEF Write, PlaneOf, TypeOK
  <2>2. ASSUME NEW b \in Position, NEW m \in Motor
        PROVE  planes'[Size - 1 - b][m] <=>
                    (Written(m, b) \/ (m = motor /\ b = bit)) /\ command[m][b]
    <3>1. planes[Size - 1 - b][m] <=> Written(m, b) /\ command[m][b]
      BY <2>1 DEF PlanesAsWritten
    <3>2. Size - 1 - b \in Position /\ Size - 1 - bit \in Position
          /\ (Size - 1 - b = Size - 1 - bit <=> b = bit)
      OBVIOUS
    <3>3. CASE b = bit /\ m = motor
      <4>1. planes'[Size - 1 - b][m] = (planes[Size - 1 - b][m] \/ command[m][b])
        BY <2>1, <3>2, <3>3 DEF Plane
      <4>2. QED
        BY <3>1, <3>3, <4>1, Zenon
    <3>4. CASE ~(b = bit /\ m = motor)
      <4>1. planes'[Size - 1 - b][m] = planes[Size - 1 - b][m]
        BY <2>1, <3>2, <3>4 DEF Plane
      <4>2. QED
        BY <3>1, <3>4, <4>1, Zenon
    <3>5. QED
      BY <3>3, <3>4
  <2>3. CASE bit > 0
    <3>1. pc' = "write" /\ bit' = bit - 1 /\ motor' = motor
      BY <1>4, <2>1, <2>3 DEF Write
    <3>2. \A b \in Position, m \in Motor :
            Written(m, b)' <=> (Written(m, b) \/ (m = motor /\ b = bit))
      BY <3>1 DEF Written
    <3>3. ASSUME NEW b \in Position, NEW m \in Motor
          PROVE  planes'[Size - 1 - b][m] <=> Written(m, b)' /\ command'[m][b]
      <4>1. planes'[Size - 1 - b][m] <=>
                    (Written(m, b) \/ (m = motor /\ b = bit)) /\ command[m][b]
        BY <2>2
      <4>2. Written(m, b)' <=> (Written(m, b) \/ (m = motor /\ b = bit))
        BY <3>2
      <4>3. QED
        BY <2>1, <4>1, <4>2, Zenon
    <3>4. QED
      BY <2>1, <3>1, <3>3 DEF PlanesAsWritten
  <2>4. CASE bit = 0 /\ motor < Motors
    <3>1. pc' = "write" /\ bit' = Size - 1 /\ motor' = motor + 1
      BY <1>4, <2>1, <2>4 DEF Write
    <3>2. \A b \in Position, m \in Motor :
            Written(m, b)' <=> (Written(m, b) \/ (m = motor /\ b = bit))
      BY <2>4, <3>1 DEF Written
    <3>3. ASSUME NEW b \in Position, NEW m \in Motor
          PROVE  planes'[Size - 1 - b][m] <=> Written(m, b)' /\ command'[m][b]
      <4>1. planes'[Size - 1 - b][m] <=>
                    (Written(m, b) \/ (m = motor /\ b = bit)) /\ command[m][b]
        BY <2>2
      <4>2. Written(m, b)' <=> (Written(m, b) \/ (m = motor /\ b = bit))
        BY <3>2
      <4>3. QED
        BY <2>1, <4>1, <4>2, Zenon
    <3>4. QED
      BY <2>1, <3>1, <3>3 DEF PlanesAsWritten
  <2>5. CASE bit = 0 /\ motor = Motors
    <3>1. pc' = "address"
      BY <1>4, <2>5 DEF Write
    <3>2. \A b \in Position, m \in Motor : Written(m, b) \/ (m = motor /\ b = bit)
      BY <2>5 DEF Written
    <3>3. ASSUME NEW b \in Position, NEW m \in Motor
          PROVE  planes'[Size - 1 - b][m] = command'[m][b]
      <4>1. planes'[Size - 1 - b][m] <=>
                    (Written(m, b) \/ (m = motor /\ b = bit)) /\ command[m][b]
        BY <2>2
      <4>2. Written(m, b) \/ (m = motor /\ b = bit)
        BY <3>2
      <4>3. command[m][b] \in BOOLEAN /\ planes'[Size - 1 - b][m] \in BOOLEAN
        <5>1. Size - 1 - b \in Position /\ planes' \in [Position -> Plane]
          BY TypeStep DEF TypeOK
        <5>2. QED
          BY <5>1 DEF Plane
      <4>4. QED
        BY <2>1, <4>1, <4>2, <4>3, Zenon
    <3>4. QED
      BY <2>1, <3>1, <3>3 DEF PlanesAsWritten
  <2>6. QED
    BY <2>3, <2>4, <2>5
<1>5. CASE SetAddress \/ Trigger
  <2>1. /\ UNCHANGED <<command, planes>>
        /\ pc \in {"address", "trigger"} /\ pc' \in {"idle", "trigger"}
    BY <1>5 DEF SetAddress, Trigger
  <2>2. QED
    BY <2>1 DEF PlanesAsWritten
<1>6. CASE Send \/ SendLast \/ UNCHANGED vars
  <2>1. UNCHANGED <<pc, motor, bit, command, planes>>
    BY <1>6 DEF Send, SendLast, vars, call
  <2>2. QED
    BY <2>1 DEF PlanesAsWritten, Written
<1>7. QED
  BY <1>1, <1>2, <1>3, <1>4, <1>5, <1>6 DEF Next, CallStep

----------------------------------------------------------------------------
(* The channel. *)

\* Every step keeps what the channel sends to the plan.
LEMMA SentStep ==
    ASSUME IInv, [Next]_vars
    PROVE  SentAsPlanned'
<1> TypeOK /\ SentAsPlanned
  BY DEF IInv
<1> Size \in Nat /\ Size >= 4
  BY SizeFacts
<1> /\ at \in Nat /\ left \in 0 .. Size /\ wire \in Seq(Plane)
    /\ overlapped \in BOOLEAN
  BY DEF TypeOK
<1>1. CASE SetEnabled \/ SetDisabled
  <2>1. pc = "idle" /\ pc' = "clear" /\ UNCHANGED <<planes, at, left, wire, overlapped>>
    BY <1>1 DEF SetEnabled, SetDisabled, Set, channel
  <2>2. QED
    BY <2>1 DEF SentAsPlanned
<1>2. CASE Clear \/ Write
  <2>1. pc' # "trigger" /\ UNCHANGED <<at, left, wire>>
    BY <1>2 DEF Clear, Write, channel
  <2>2. ~overlapped' => ~overlapped /\ left = 0
    <3>1. ~overlapped' => ~overlapped /\ ~Busy
      BY <1>2, Zenon DEF Clear, Write
    <3>2. QED
      BY <3>1 DEF Busy
  <2>3. QED
    BY <2>1, <2>2 DEF SentAsPlanned
<1>3. CASE SetAddress
  <2>1. at' = 0 /\ pc' = "trigger" /\ UNCHANGED <<left, wire>>
    BY <1>3 DEF SetAddress, StartAddress
  <2>2. ~overlapped' => left = 0
    <3>1. ~overlapped' => ~Busy
      BY <1>3, Zenon DEF SetAddress
    <3>2. QED
      BY <3>1 DEF Busy
  <2>3. QED
    BY <2>1, <2>2 DEF SentAsPlanned
<1>4. CASE Trigger
  <2>1. /\ pc = "trigger" /\ pc' = "idle" /\ UNCHANGED <<at, wire, planes, overlapped>>
        /\ left' = IF left > 0 THEN left ELSE Size
    BY <1>4 DEF Trigger, Busy
  <2>2. CASE left > 0
    BY <2>1, <2>2 DEF SentAsPlanned
  <2>3. CASE left = 0
    <3>1. left' = Size /\ Len(wire) = 0 /\ (~overlapped => at = 0)
      BY <2>1, <2>3 DEF SentAsPlanned
    <3>2. QED
      BY <2>1, <2>3, <3>1 DEF SentAsPlanned
  <2>4. QED
    BY <2>2, <2>3
<1>5. Sent \in Plane
  BY MotorAssumption, SizeFacts DEF Sent, Plane, Motor, TypeOK
<1>6. CASE Send
  <2>1. /\ left > 1 /\ at' = at + 1 /\ left' = left - 1 /\ wire' = Append(wire, Sent)
        /\ UNCHANGED <<pc, planes, overlapped>>
    BY <1>6 DEF Send, call
  <2>2. Len(wire') = Len(wire) + 1 /\ Len(wire) = Size - left
    BY <1>5, <2>1 DEF SentAsPlanned
  <2>3. pc' # "trigger" \/ overlapped
    BY <2>1 DEF SentAsPlanned
  <2>4. ASSUME ~overlapped
        PROVE  /\ at = Size - left /\ pc \in {"idle", "clear"}
               /\ \A k \in 1 .. at' : wire'[k] = planes'[k - 1]
    <3>1. /\ at = Size - left /\ pc \in {"idle", "clear"}
          /\ \A k \in 1 .. at : wire[k] = planes[k - 1]
      BY <2>1, <2>4 DEF SentAsPlanned
    <3>2. Sent = planes[at]
      BY <2>1, <3>1 DEF Sent
    <3>3. Len(wire) = at
      BY <2>2, <3>1
    <3>4. \A k \in 1 .. at + 1 : wire'[k] = IF k = at + 1 THEN Sent ELSE wire[k]
      BY <1>5, <2>1, <3>3
    <3>5. ASSUME NEW k \in 1 .. at + 1
          PROVE  wire'[k] = planes[k - 1]
      <4>1. CASE k = at + 1
        BY <3>2, <3>4, <4>1
      <4>2. CASE k # at + 1
        BY <3>1, <3>4, <4>2
      <4>3. QED
        BY <4>1, <4>2
    <3>6. QED
      BY <2>1, <3>1, <3>5
  <2>5. QED
    BY <2>1, <2>2, <2>3, <2>4 DEF SentAsPlanned
<1>7. CASE SendLast
  <2>1. /\ left = 1 /\ at' = at + 1 /\ left' = 0 /\ wire' = <<>>
        /\ UNCHANGED <<pc, planes, overlapped>>
    BY <1>7 DEF SendLast, call
  <2>2. pc' # "trigger" \/ overlapped
    BY <2>1 DEF SentAsPlanned
  <2>3. QED
    BY <2>1, <2>2 DEF SentAsPlanned
<1>8. CASE UNCHANGED vars
  BY <1>8 DEF vars, call, channel, SentAsPlanned
<1>9. QED
  BY <1>1, <1>2, <1>3, <1>4, <1>6, <1>7, <1>8 DEF Next, CallStep

\* A frame that was not disturbed ends with its command accepted everywhere.
LEMMA FrameStep ==
    ASSUME IInv, [Next]_vars
    PROVE  Carried'
<1> TypeOK /\ SentAsPlanned /\ PlanesAsWritten /\ Carried
    /\ \A m \in Motor : Accepts(command[m])
  BY DEF IInv
<1> Size \in Nat /\ Size >= 4 /\ Position = 0 .. Size - 1
  BY SizeFacts
<1>1. CASE pc' # "idle" \/ left' > 0
  BY <1>1 DEF Carried, Busy
<1>2. CASE SetEnabled \/ SetDisabled \/ Clear \/ Write \/ SetAddress
  BY <1>1, <1>2 DEF SetEnabled, SetDisabled, Set, Clear, Write, SetAddress
<1>3. CASE Trigger \/ Send
  <2>1. left' > 0
    BY <1>3 DEF Trigger, Send, Busy, TypeOK
  <2>2. QED
    BY <1>1, <2>1
<1>4. CASE SendLast /\ pc = "idle" /\ ~overlapped
  <2>1. /\ left = 1
        /\ esc' = [m \in Motor |->
                    IF Accepts(Received(Append(wire, Sent), m))
                    THEN Received(Append(wire, Sent), m) ELSE esc[m]]
        /\ UNCHANGED command
    BY <1>4 DEF SendLast, call
  <2>2. /\ at = Size - 1 /\ Len(wire) = Size - 1 /\ wire \in Seq(Plane)
        /\ \A k \in 1 .. Size - 1 : wire[k] = planes[k - 1]
    BY <1>4, <2>1 DEF SentAsPlanned, TypeOK
  <2>3. Sent = planes[Size - 1] /\ Sent \in Plane
    BY <2>2 DEF Sent, TypeOK
  <2>4. \A k \in 1 .. Size : Append(wire, Sent)[k] = planes[k - 1]
    BY <2>2, <2>3
  <2>5. \A m \in Motor : Received(Append(wire, Sent), m) = command[m]
    <3>1. ASSUME NEW m \in Motor, NEW i \in Position
          PROVE  Append(wire, Sent)[Size - i][m] = command[m][i]
      <4>1. Append(wire, Sent)[Size - i] = planes[Size - 1 - i]
        <5>1. Size - i \in 1 .. Size /\ (Size - i) - 1 = Size - 1 - i
          OBVIOUS
        <5>2. Append(wire, Sent)[Size - i] = planes[(Size - i) - 1]
          BY <2>4, <5>1, Zenon
        <5>3. QED
          BY <5>1, <5>2, Zenon
      <4>2. planes[Size - 1 - i][m] = command[m][i]
        BY <1>4 DEF PlanesAsWritten
      <4>3. QED
        BY <4>1, <4>2
    <3>2. ASSUME NEW m \in Motor
          PROVE  command[m] = [i \in Position |-> command[m][i]]
      BY <3>2 DEF TypeOK, Word
    <3>3. QED
      BY <3>1, <3>2 DEF Received
  <2>6. \A m \in Motor : esc'[m] = command'[m]
    BY <2>1, <2>5
  <2>7. QED
    BY <2>6 DEF Carried
<1>5. CASE SendLast /\ ~(pc = "idle" /\ ~overlapped)
  BY <1>5 DEF SendLast, call, Carried
<1>6. CASE UNCHANGED vars
  BY <1>6 DEF vars, call, channel, Carried, Busy
<1>7. QED
  BY <1>2, <1>3, <1>4, <1>5, <1>6 DEF Next, CallStep

----------------------------------------------------------------------------
(* Theorems. *)

\* Nothing is planned but zeros, and nothing has been sent.
LEMMA InitInvariant == Init => IInv
<1> SUFFICES ASSUME Init PROVE IInv
  OBVIOUS
<1> Motors \in Nat \ {0} /\ Size \in Nat /\ Size >= 4 /\ Position = 0 .. Size - 1
    /\ Motor = 1 .. Motors
  BY SizeFacts
<1>1. TypeOK
  <2>1. overlapped \in BOOLEAN
    BY Zenon DEF Init
  <2>2. command \in [Motor -> Word] /\ esc \in [Motor -> Word]
    BY ZeroIsAccepted DEF Init
  <2>3. planes \in [Position -> Plane]
    BY DEF Init, Plane
  <2>4. wire \in Seq(Plane) /\ Len(wire) <= Size
    BY DEF Init
  <2>5. /\ pc = "idle" /\ motor \in Motor /\ bit \in Position
        /\ at \in 0 .. 2 * Size /\ left \in 0 .. Size
    BY DEF Init
  <2>6. QED
    BY <2>1, <2>2, <2>3, <2>4, <2>5 DEF TypeOK
<1>2. \A m \in Motor : Accepts(command[m])
  BY ZeroIsAccepted DEF Init
<1>3. PlanesAsWritten
  <2>1. \A b \in Position, m \in Motor : planes[Size - 1 - b][m] = command[m][b]
    <3>1. ASSUME NEW b \in Position, NEW m \in Motor
          PROVE  planes[Size - 1 - b][m] = FALSE /\ command[m][b] = FALSE
      <4>1. Size - 1 - b \in Position
        OBVIOUS
      <4>2. planes[Size - 1 - b][m] = FALSE
        BY <4>1 DEF Init
      <4>3. command[m][b] = FALSE
        BY DEF Init, ZeroPacket
      <4>4. QED
        BY <4>2, <4>3
    <3>2. QED
      BY <3>1, Zenon
  <2>2. QED
    BY <2>1 DEF Init, PlanesAsWritten
<1>4. SentAsPlanned
  <2>1. pc = "idle" /\ at = 0 /\ left = 0 /\ Len(wire) = 0
    BY DEF Init
  <2>2. QED
    BY <2>1 DEF SentAsPlanned
<1>5. Carried
  BY DEF Init, Carried
<1>6. QED
  BY <1>1, <1>2, <1>3, <1>4, <1>5 DEF IInv

\* Each step of the rewriting and of the channel keeps the invariant.
LEMMA NextInvariant == IInv /\ [Next]_vars => IInv'
  BY TypeStep, PlanesStep, SentStep, FrameStep DEF IInv

\* The inductive invariant: what the planes hold at every step of
\* motorOutputSet, and what the channel has sent of them.
THEOREM Invariance == Spec => []IInv
  BY InitInvariant, NextInvariant, PTL DEF Spec

\* The variables keep their types.
THEOREM TypeCorrect == Spec => []TypeOK
<1>1. IInv => TypeOK
  BY DEF IInv
<1>2. QED
  BY <1>1, Invariance, PTL

\* A frame that no call disturbed is read from within the bit planes and has
\* made every ESC accept the command of its call.
THEOREM UndisturbedFrames == Spec => []FrameCarriesCommand
<1>1. IInv => FrameCarriesCommand
  BY DEF IInv, SentAsPlanned, Carried, FrameCarriesCommand
<1>2. QED
  BY <1>1, Invariance, PTL

----------------------------------------------------------------------------
(* Bits. *)

\* A set with 0 that has the successor of each of its numbers has them all.
LEMMA NatInd ==
  ASSUME NEW S, 0 \in S, \A n \in Nat : n \in S => n + 1 \in S
  PROVE  \A n \in Nat : n \in S
<1> SUFFICES ASSUME NEW m \in Nat, m \notin S PROVE FALSE
  OBVIOUS
<1> DEFINE T == Nat \ S
<1>1. PICK x \in T : \A y \in T : ~(<<y, x>> \in OpToRel(<, Nat))
  <2>1. IsWellFoundedOn(OpToRel(<, Nat), Nat)
    BY NatLessThanWellFounded
  <2>2. T \subseteq Nat /\ T # {}
    OBVIOUS
  <2> HIDE DEF T
  <2>3. QED
    BY <2>1, <2>2, WFMin, Zenon
<1>2. x # 0 /\ x - 1 \in Nat /\ (x - 1) + 1 = x
  OBVIOUS
<1>3. x - 1 \in T
  BY <1>2
<1>4. <<x - 1, x>> \in OpToRel(<, Nat)
  BY <1>2 DEF OpToRel
<1>5. QED
  BY <1>1, <1>3, <1>4

\* g has the powers up to the n-th.
Powers(n, g) ==
    g \in [0 .. n -> Nat \ {0}] /\ g[0] = 1 /\ \A k \in 1 .. n : g[k] = 2 * g[k - 1]

\* There are such lists of powers, and where two of them reach they agree.
LEMMA PowersExist == \A n \in Nat : \E g : Powers(n, g)
<1> DEFINE S == {n \in Nat : \E g : Powers(n, g)}
<1>1. 0 \in S
  <2> DEFINE g == [k \in 0 .. 0 |-> 1]
  <2>1. Powers(0, g)
    BY DEF Powers
  <2>2. QED
    BY <2>1
<1>2. ASSUME NEW n \in Nat, n \in S PROVE n + 1 \in S
  <2>1. PICK g : Powers(n, g)
    BY <1>2
  <2> DEFINE h == [k \in 0 .. n + 1 |-> IF k = n + 1 THEN 2 * g[n] ELSE g[k]]
  <2>2. \A k \in 0 .. n : g[k] \in Nat \ {0} /\ h[k] = g[k]
    BY <2>1 DEF Powers
  <2>3. h[n + 1] = 2 * h[n] /\ h[n + 1] \in Nat \ {0}
    BY <2>2
  <2>4. h \in [0 .. n + 1 -> Nat \ {0}]
    BY <2>2, <2>3
  <2>5. h[0] = 1
    BY <2>1, <2>2 DEF Powers
  <2>6. ASSUME NEW k \in 1 .. n + 1 PROVE h[k] = 2 * h[k - 1]
    <3>1. CASE k = n + 1
      BY <2>3, <3>1
    <3>2. CASE k # n + 1
      <4>1. k \in 1 .. n /\ k \in 0 .. n /\ k - 1 \in 0 .. n
        BY <3>2
      <4>2. g[k] = 2 * g[k - 1]
        BY <2>1, <4>1 DEF Powers
      <4>3. h[k] = g[k] /\ h[k - 1] = g[k - 1]
        BY <2>2, <4>1
      <4>4. QED
        BY <4>2, <4>3
    <3>3. QED
      BY <3>1, <3>2
  <2> HIDE DEF h
  <2>7. Powers(n + 1, h)
    BY <2>4, <2>5, <2>6 DEF Powers
  <2>8. QED
    BY <2>7
<1> HIDE DEF S
<1>3. \A n \in Nat : n \in S
  BY <1>1, <1>2, NatInd, Zenon
<1>4. QED
  BY <1>3 DEF S

\* The powers of two do not depend on how many of them a table has.
LEMMA PowersAgree ==
    ASSUME NEW m \in Nat, NEW n \in Nat, NEW g, NEW h, Powers(m, g), Powers(n, h)
    PROVE  \A k \in Nat : k <= m /\ k <= n => g[k] = h[k]
<1> DEFINE S == {k \in Nat : k <= m /\ k <= n => g[k] = h[k]}
<1>1. 0 \in S
  BY DEF Powers
<1>2. ASSUME NEW k \in Nat, k \in S PROVE k + 1 \in S
  <2> SUFFICES ASSUME k + 1 <= m, k + 1 <= n PROVE g[k + 1] = h[k + 1]
    OBVIOUS
  <2>1. k + 1 \in 1 .. m /\ k + 1 \in 1 .. n /\ (k + 1) - 1 = k /\ k <= m /\ k <= n
    OBVIOUS
  <2>2. g[k + 1] = 2 * g[k] /\ h[k + 1] = 2 * h[k]
    BY <2>1 DEF Powers
  <2>3. QED
    BY <1>2, <2>1, <2>2
<1> HIDE DEF S
<1>3. \A k \in Nat : k \in S
  BY <1>1, <1>2, NatInd, Zenon
<1>4. QED
  BY <1>3 DEF S

\* The powers of two are what their recursive definition says.
LEMMA PowerFacts ==
    /\ Power[0] = 1
    /\ \A n \in Nat : Power[n] \in Nat \ {0} /\ Power[n + 1] = 2 * Power[n]
<1> DEFINE g(n) == CHOOSE h : Powers(n, h)
           f == [n \in Nat |-> g(n)[n]]
<1>1. \A n \in Nat : Powers(n, g(n))
  BY PowersExist, Zenon
<1> HIDE DEF g
<1>2. \A n \in Nat : g(n)[n] \in Nat \ {0}
  BY <1>1 DEF Powers
<1>3. g(0)[0] = 1
  BY <1>1 DEF Powers
<1>4. ASSUME NEW n \in Nat PROVE g(n + 1)[n + 1] = 2 * g(n)[n]
  <2>1. Powers(n, g(n)) /\ Powers(n + 1, g(n + 1))
    BY <1>1
  <2>2. g(n + 1)[n] = g(n)[n]
    <3>1. \A k \in Nat : k <= n + 1 /\ k <= n => g(n + 1)[k] = g(n)[k]
      BY <2>1, PowersAgree
    <3>2. QED
      BY <3>1
  <2>3. n + 1 \in 1 .. n + 1 /\ (n + 1) - 1 = n
    OBVIOUS
  <2>4. QED
    BY <2>1, <2>2, <2>3 DEF Powers
<1>5. f = [n \in Nat |-> IF n = 0 THEN 1 ELSE 2 * f[n - 1]]
  <2>1. ASSUME NEW n \in Nat PROVE f[n] = IF n = 0 THEN 1 ELSE 2 * f[n - 1]
    <3>1. CASE n = 0
      BY <1>3, <3>1
    <3>2. CASE n # 0
      <4>1. n - 1 \in Nat /\ (n - 1) + 1 = n
        BY <3>2
      <4>2. g(n)[n] = 2 * g(n - 1)[n - 1]
        BY <1>4, <4>1
      <4>3. f[n] = g(n)[n] /\ f[n - 1] = g(n - 1)[n - 1]
        BY <4>1
      <4>4. QED
        BY <3>2, <4>2, <4>3
    <3>3. QED
      BY <3>1, <3>2
  <2>2. DOMAIN f = Nat /\ f = [n \in DOMAIN f |-> f[n]]
    OBVIOUS
  <2> HIDE DEF f
  <2>3. QED
    BY <2>1, <2>2
<1> HIDE DEF f
<1>6. Power = [n \in Nat |-> IF n = 0 THEN 1 ELSE 2 * Power[n - 1]]
  <2>1. Power = CHOOSE p : p = [n \in Nat |-> IF n = 0 THEN 1 ELSE 2 * p[n - 1]]
    BY DEF Power
  <2>2. QED
    BY <1>5, <2>1, Zenon
<1>7. Power[0] = 1
  BY <1>6
<1>8. ASSUME NEW n \in Nat PROVE Power[n + 1] = 2 * Power[n]
  <2>1. n + 1 \in Nat /\ n + 1 # 0 /\ (n + 1) - 1 = n
    OBVIOUS
  <2>2. QED
    BY <1>6, <2>1
<1>9. \A n \in Nat : Power[n] \in Nat \ {0}
  <2> DEFINE S == {n \in Nat : Power[n] \in Nat \ {0}}
  <2>1. 0 \in S
    BY <1>7
  <2>2. ASSUME NEW n \in Nat, n \in S PROVE n + 1 \in S
    BY <1>8, <2>2
  <2> HIDE DEF S
  <2>3. \A n \in Nat : n \in S
    BY <2>1, <2>2, NatInd, Zenon
  <2>4. QED
    BY <2>3 DEF S
<1>10. QED
  BY <1>7, <1>8, <1>9

\* Halving drops the lowest bit.
LEMMA Halving ==
    ASSUME NEW v \in Nat, NEW p \in Nat \ {0}
    PROVE  v \div (2 * p) = (v \div 2) \div p
<1> DEFINE h == v \div 2
           r == v % 2
           q == h \div p
           s == h % p
<1>1. h \in Nat /\ r \in 0 .. 1 /\ v = 2 * h + r
  OBVIOUS
<1>2. q \in Nat /\ s \in 0 .. p - 1 /\ h = p * q + s
  BY <1>1
<1> HIDE DEF h, r, q, s
<1>3. v = (2 * p) * q + (2 * s + r) /\ 2 * s + r \in 0 .. 2 * p - 1 /\ 2 * p \in Nat \ {0}
  BY <1>1, <1>2
<1>4. \A d \in Nat \ {0}, k \in Nat : \A t \in 0 .. d - 1 : (d * k + t) \div d = k
  OBVIOUS
<1>5. v \div (2 * p) = q
  BY <1>2, <1>3, <1>4
<1>6. QED
  BY <1>5 DEF q, h

\* A number is told by its bits, as many as it may have.
LEMMA BitsTell ==
    \A n \in Nat : \A a, b \in 0 .. Power[n] - 1 :
        (\A i \in 0 .. n - 1 : Bit(a, i) = Bit(b, i)) => a = b
<1> DEFINE S == {n \in Nat : \A a, b \in 0 .. Power[n] - 1 :
                    (\A i \in 0 .. n - 1 : Bit(a, i) = Bit(b, i)) => a = b}
<1>1. 0 \in S
  BY PowerFacts
<1>2. ASSUME NEW n \in Nat, n \in S PROVE n + 1 \in S
  <2> SUFFICES ASSUME NEW a \in 0 .. Power[n + 1] - 1, NEW b \in 0 .. Power[n + 1] - 1,
                      \A i \in 0 .. (n + 1) - 1 : Bit(a, i) = Bit(b, i)
               PROVE  a = b
    OBVIOUS
  <2>1. /\ Power[n] \in Nat \ {0} /\ Power[n + 1] = 2 * Power[n] /\ Power[0] = 1
        /\ a \in Nat /\ b \in Nat
    BY PowerFacts
  <2>2. a \div 2 \in 0 .. Power[n] - 1 /\ b \div 2 \in 0 .. Power[n] - 1
    BY <2>1
  <2>3. ASSUME NEW i \in 0 .. n - 1 PROVE Bit(a \div 2, i) = Bit(b \div 2, i)
    <3>1. i \in Nat /\ i + 1 \in 0 .. (n + 1) - 1
      OBVIOUS
    <3>2. Power[i] \in Nat \ {0} /\ Power[i + 1] = 2 * Power[i]
      BY <3>1, PowerFacts
    <3>3. /\ a \div Power[i + 1] = (a \div 2) \div Power[i]
          /\ b \div Power[i + 1] = (b \div 2) \div Power[i]
      BY <2>1, <3>2, Halving
    <3>4. Bit(a, i + 1) = Bit(b, i + 1)
      BY <3>1
    <3>5. QED
      BY <3>3, <3>4, Zenon DEF Bit
  <2>4. a \div 2 = b \div 2
    BY <1>2, <2>2, <2>3
  <2>5. a % 2 = b % 2
    <3>1. Bit(a, 0) = Bit(b, 0)
      BY <1>2
    <3>2. a \div 1 = a /\ b \div 1 = b
      BY <2>1
    <3>3. (a % 2 = 1) <=> (b % 2 = 1)
      BY <2>1, <3>1, <3>2, Zenon DEF Bit
    <3>4. a % 2 \in 0 .. 1 /\ b % 2 \in 0 .. 1
      BY <2>1
    <3>5. QED
      BY <3>3, <3>4
  <2>6. a = 2 * (a \div 2) + (a % 2) /\ b = 2 * (b \div 2) + (b % 2)
    BY <2>1
  <2>7. QED
    BY <2>4, <2>5, <2>6
<1> HIDE DEF S
<1>3. \A n \in Nat : n \in S
  BY <1>1, <1>2, NatInd, Zenon
<1>4. QED
  BY <1>3 DEF S

----------------------------------------------------------------------------
(* Commands. *)

\* A packet has its throttle behind the sum: two with the same bits are equal.
LEMMA PacketTells ==
    ASSUME NEW a \in 0 .. Power[3 * Nib - 1] - 1, NEW b \in 0 .. Power[3 * Nib - 1] - 1,
           \A i \in 0 .. 3 * Nib - 2 : BuildPacket(a)[i + 1 + Nib] = BuildPacket(b)[i + 1 + Nib]
    PROVE  a = b
<1>1. \A v : \A i \in 0 .. 3 * Nib - 2 : BuildPacket(v)[i + 1 + Nib] = Bit(v, i)
  <2> SUFFICES ASSUME NEW v, NEW i \in 0 .. 3 * Nib - 2
               PROVE  BuildPacket(v)[i + 1 + Nib] = Bit(v, i)
    OBVIOUS
  <2>1. /\ i + 1 + Nib \in Position /\ ~(i + 1 + Nib < Nib) /\ (i + 1 + Nib) - Nib = i + 1
        /\ i + 1 \in 0 .. 3 * Nib - 1 /\ i + 1 > 0 /\ (i + 1) - 1 = i
    BY SizeFacts
  <2>2. BuildPacket(v)[i + 1 + Nib] = Data(v)[i + 1]
    BY <2>1 DEF BuildPacket
  <2>3. Data(v)[i + 1] = (i + 1 > 0 /\ Bit(v, (i + 1) - 1))
    BY <2>1, Zenon DEF Data
  <2>4. Bit(v, i) \in BOOLEAN
    BY DEF Bit
  <2>5. QED
    BY <2>1, <2>2, <2>3, <2>4, Zenon
<1>2. 3 * Nib - 1 \in Nat /\ (3 * Nib - 1) - 1 = 3 * Nib - 2
  BY SizeFacts
<1>3. \A i \in 0 .. (3 * Nib - 1) - 1 : Bit(a, i) = Bit(b, i)
  BY <1>1, <1>2
<1>4. QED
  BY <1>2, <1>3, BitsTell

\* The packet of throttle 0 has no bit of it set.
LEMMA ZeroTells ==
    \A i \in 0 .. 3 * Nib - 2 : BuildPacket(0)[i + 1 + Nib] = ZeroPacket[i + 1 + Nib]
<1> SUFFICES ASSUME NEW i \in 0 .. 3 * Nib - 2
             PROVE  BuildPacket(0)[i + 1 + Nib] = ZeroPacket[i + 1 + Nib]
  OBVIOUS
<1>1. /\ i + 1 + Nib \in Position /\ ~(i + 1 + Nib < Nib) /\ (i + 1 + Nib) - Nib = i + 1
      /\ i + 1 \in 0 .. 3 * Nib - 1 /\ i + 1 > 0 /\ (i + 1) - 1 = i /\ i \in Nat
  BY SizeFacts
<1>2. BuildPacket(0)[i + 1 + Nib] = Data(0)[i + 1] /\ ZeroPacket[i + 1 + Nib] = FALSE
  BY <1>1 DEF BuildPacket, ZeroPacket
<1>3. ~Bit(0, i)
  <2>1. Power[i] \in Nat \ {0}
    BY <1>1, PowerFacts
  <2>2. 0 \div Power[i] = 0
    BY <2>1
  <2>3. (0 \div Power[i]) % 2 # 1
    BY <2>2
  <2>4. QED
    BY <2>3 DEF Bit
<1>4. Data(0)[i + 1] = (i + 1 > 0 /\ Bit(0, (i + 1) - 1))
  BY <1>1, Zenon DEF Data
<1>5. QED
  BY <1>1, <1>2, <1>3, <1>4, Zenon

\* What motorOutputSet has given a motor: nothing, or a throttle in range.
Commanded == \A m \in Motor :
    command[m] = ZeroPacket \/ \E v \in Nat : command[m] = BuildPacket(Clamped(v))

\* A throttle in range is none of the values below MinOutput.
LEMMA NotSpecial == Commanded => NoSpecialCommand
<1> SUFFICES ASSUME Commanded, SaneScalars, NEW m \in Motor, NEW v \in 1 .. MinOutput - 1
             PROVE  command[m] # BuildPacket(v)
  BY DEF NoSpecialCommand
<1> DEFINE P == Power[3 * Nib - 1]
<1>1. /\ P \in Nat /\ MinOutput \in Nat /\ Min \in Nat /\ Max \in Nat
      /\ MinOutput <= Min /\ Min < P /\ Max < P
  <2>1. 3 * Nib - 1 \in Nat
    BY SizeFacts
  <2>2. QED
    BY <2>1, PowerFacts, MotorAssumption DEF SaneScalars
<1>2. v \in 0 .. P - 1 /\ v < Min /\ v # 0 /\ 0 \in 0 .. P - 1
  BY <1>1
<1>3. CASE command[m] = ZeroPacket
  <2>1. SUFFICES ASSUME ZeroPacket = BuildPacket(v) PROVE FALSE
    BY <1>3
  <2>2. 0 = v
    BY <1>2, <2>1, ZeroTells, PacketTells
  <2>3. QED
    BY <1>2, <2>2
<1>4. ASSUME NEW w \in Nat, command[m] = BuildPacket(Clamped(w))
      PROVE  command[m] # BuildPacket(v)
  <2>1. SUFFICES ASSUME BuildPacket(Clamped(w)) = BuildPacket(v) PROVE FALSE
    BY <1>4
  <2>2. Clamped(w) \in 0 .. P - 1 /\ Clamped(w) >= Min
    BY <1>1 DEF Clamped
  <2>3. Clamped(w) = v
    BY <1>2, <2>1, <2>2, PacketTells
  <2>4. QED
    BY <1>1, <1>2, <2>2, <2>3
<1>5. QED
  BY <1>3, <1>4 DEF Commanded

\* A call gives each motor one or the other.
LEMMA CommandedStep == Commanded /\ [Next]_vars => Commanded'
<1> SUFFICES ASSUME Commanded, [Next]_vars PROVE Commanded'
  OBVIOUS
<1>1. CASE SetEnabled
  <2>1. PICK output \in Outputs :
            Set([m \in Motor |-> BuildPacket(Clamped(Idle + output[m]))])
    BY <1>1 DEF SetEnabled
  <2>2. \A m \in Motor : Idle + output[m] \in Nat
    BY MotorAssumption DEF Motor
  <2>3. \A m \in Motor : command'[m] = BuildPacket(Clamped(Idle + output[m]))
    BY <2>1 DEF Set
  <2>4. QED
    BY <2>2, <2>3 DEF Commanded
<1>2. CASE SetDisabled
  <2>1. \A m \in Motor : command'[m] = ZeroPacket
    BY <1>2 DEF SetDisabled, Set
  <2>2. QED
    BY <2>1 DEF Commanded
<1>3. CASE CallStep \/ Send \/ SendLast \/ UNCHANGED vars
  <2>1. command' = command
    BY <1>3 DEF CallStep, Clear, Write, SetAddress, Trigger, Send, SendLast, vars, call
  <2>2. QED
    BY <2>1 DEF Commanded
<1>4. QED
  BY <1>1, <1>2, <1>3 DEF Next

\* NoSpecialCommand: with min and max in the range of a throttle, no ESC is sent
\* what it takes for one of the special commands, whatever the mixer asks for
\* and however wide the packets are: the checksum and the bits keep them apart.
THEOREM OnlyThrottles == Spec => []NoSpecialCommand
<1>1. Init => Commanded
  BY DEF Init, Commanded
<1>2. QED
  BY <1>1, CommandedStep, NotSpecial, PTL DEF Spec
=============================================================================
