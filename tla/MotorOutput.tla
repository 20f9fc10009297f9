---------------------------- MODULE MotorOutput ----------------------------
(***************************************************************************)
(* The DShot output: motorOutputSet builds a packet for each motor         *)
(* (motor_output_dshot.c), turns the packets into bit planes, one byte per *)
(* bit time with one bit per motor, and starts the DMA channel that feeds  *)
(* them to the pins (motor_output_dshot_pio.c).                            *)
(*                                                                         *)
(* It is called by the control loop, which never asks whether the channel  *)
(* is still sending.  Each step below is one access to the bit planes or   *)
(* to a register of the channel.  The channel and the ESCs are external:   *)
(* the read address moves with the transfer and can be rewritten under it; *)
(* a trigger of a channel that is busy is ignored, as in Telemetry.  The   *)
(* FIFO between the channel and the pins only delays the planes and is     *)
(* left out.                                                               *)
(*                                                                         *)
(* A word is its bits.  Nib is the width of the checksum, 4 in the code;   *)
(* a packet is three times that of data and the checksum.                  *)
(***************************************************************************)
EXTENDS Integers, Sequences

CONSTANTS
    Motors,         \* indices 1 .. MAX_MOTORS
    Nib,            \* bits of the checksum
    MinOutput,      \* MOTOR_MIN_OUTPUT: the values from 1 below it are commands
    Min, Idle, Max, \* the locals min, idle and max of motorOutputSet
    Outputs,        \* what output[.].v.f32 * MOTOR_MAX_OUTPUT may be, by motor
    Behind          \* what the memory behind the bit planes holds

ASSUME MotorAssumption ==
    /\ Motors \in Nat \ {0} /\ Nib \in Nat \ {0}
    /\ MinOutput \in Nat /\ Min \in Nat /\ Idle \in Nat /\ Max \in Nat
    /\ Outputs \subseteq [1 .. Motors -> Nat]
    /\ Behind \in [1 .. Motors -> BOOLEAN]

Motor == 1 .. Motors
Size == 4 * Nib             \* DSHOT_PACKET_SIZE_BITS
Position == 0 .. Size - 1
Word == [Position -> BOOLEAN]
Plane == [Motor -> BOOLEAN]

VARIABLES
    pc, motor, bit, \* motorOutputSet: control and the loop variables p and b
    command,        \* its local array packets, shown as tdv_motor_out_cmd
    planes,         \* dshotPacketBitPlanes
    at, left,       \* the channel: read address, transfers to go
    wire,           \* what was sent of a frame that is not complete
    esc,            \* the last word each ESC accepted
    overlapped      \* history: the frame's planes or address were written
                    \* while a transfer was going on

call == <<pc, motor, bit, command>>
channel == <<at, left, wire, esc>>
vars == <<call, planes, channel, overlapped>>

----------------------------------------------------------------------------
(* Mutants: forms a plausible bug would give the definitions below.        *)

SumOfTwo(d, i) == d[i] # d[i + Nib]
ClampedBelowMax(v) == IF v < Max THEN v ELSE Max
ClearedKept(plane) == plane

----------------------------------------------------------------------------
(* Words. *)

\* 1 << i
Power[i \in Nat] == IF i = 0 THEN 1 ELSE 2 * Power[i - 1]

\* Bit i of a number.
Bit(v, i) == (v \div Power[i]) % 2 = 1

\* throttle << 1 | telemetryReq, cut to what the packet and the sum keep.
Data(throttle) == [i \in 0 .. 3 * Nib - 1 |-> i > 0 /\ Bit(throttle, i - 1)]

\* dshotPacketCrc: bit i of the exclusive or of the three nibbles.
Sum(d, i) == (d[i] # d[i + Nib]) # d[i + 2 * Nib]

\* dshotBuildPacket.
BuildPacket(throttle) ==
    LET d == Data(throttle) IN
        [i \in Position |-> IF i < Nib THEN Sum(d, i) ELSE d[i - Nib]]

ZeroPacket == [i \in Position |-> FALSE]

\* math_clamp(min, v, max).
Clamped(v) == LET w == IF v < Max THEN v ELSE Max IN IF Min > w THEN Min ELSE w

\* An ESC accepts a word whose four nibbles cancel out.
Accepts(w) ==
    \A i \in 0 .. Nib - 1 :
        ((w[i] # w[i + Nib]) # w[i + 2 * Nib]) = w[i + 3 * Nib]

\* The word that a frame of planes is on motor m's pin, bit Size - 1 first.
Received(frame, m) == [i \in Position |-> frame[Size - i][m]]

Init ==
    /\ pc = "idle" /\ motor = 1 /\ bit = 0
    /\ command = [m \in Motor |-> ZeroPacket]
    /\ planes = [b \in Position |-> [m \in Motor |-> FALSE]]
    /\ at = 0 /\ left = 0 /\ wire = <<>>
    /\ esc = [m \in Motor |-> ZeroPacket]
    /\ overlapped = FALSE

----------------------------------------------------------------------------
(* motorOutputSet(enabled, output). *)

Busy == left > 0

Set(build) ==
    /\ pc = "idle"
    /\ command' = build
    /\ pc' = "clear" /\ bit' = 0
    /\ UNCHANGED <<motor, planes, channel, overlapped>>

SetEnabled ==
    \E output \in Outputs :
        Set([m \in Motor |-> BuildPacket(Clamped(Idle + output[m]))])

SetDisabled == Set([m \in Motor |-> ZeroPacket])

\* memset(bitPlane, 0, DSHOT_PACKET_SIZE_BITS), a byte at a time.
Cleared(plane) == [m \in Motor |-> FALSE]

Clear ==
    /\ pc = "clear"
    /\ planes' = [planes EXCEPT ![bit] = Cleared(@)]
    /\ IF bit < Size - 1
       THEN bit' = bit + 1 /\ UNCHANGED <<pc, motor>>
       ELSE bit' = Size - 1 /\ motor' = 1 /\ pc' = "write"
    /\ overlapped' = (overlapped \/ Busy)
    /\ UNCHANGED <<command, channel>>

\* bitCount - 1 - b
PlaneOf(b) == Size - 1 - b

\* bitPlane[bitCount - 1 - b] |= isset << (p)
Write ==
    /\ pc = "write"
    /\ planes' = [planes EXCEPT ![PlaneOf(bit)][motor] = @ \/ command[motor][bit]]
    /\ \/ bit > 0 /\ bit' = bit - 1 /\ UNCHANGED <<pc, motor>>
       \/ bit = 0 /\ motor < Motors /\ bit' = Size - 1 /\ motor' = motor + 1 /\ UNCHANGED pc
       \/ bit = 0 /\ motor = Motors /\ bit' = 0 /\ motor' = 1 /\ pc' = "address"
    /\ overlapped' = (overlapped \/ Busy)
    /\ UNCHANGED <<command, channel>>

StartAddress == 0

\* al1_read_addr: the frame to come is clean if none is being sent.
SetAddress ==
    /\ pc = "address"
    /\ at' = StartAddress
    /\ pc' = "trigger"
    /\ overlapped' = Busy
    /\ UNCHANGED <<motor, bit, command, planes, left, wire, esc>>

\* al1_transfer_count_trig
Trigger ==
    /\ pc = "trigger"
    /\ pc' = "idle"
    /\ left' = IF Busy THEN left ELSE Size
    /\ UNCHANGED <<motor, bit, command, planes, at, wire, esc, overlapped>>

----------------------------------------------------------------------------
(* The channel sends a plane, or what is behind them.  The ESCs take the   *)
(* frame when its last bit is there.                                       *)

Sent == IF at < Size THEN planes[at] ELSE Behind

Send ==
    /\ left > 1
    /\ wire' = Append(wire, Sent)
    /\ at' = at + 1 /\ left' = left - 1
    /\ UNCHANGED <<call, planes, esc, overlapped>>

SendLast ==
    /\ left = 1
    /\ LET word(m) == Received(Append(wire, Sent), m) IN
        esc' = [m \in Motor |-> IF Accepts(word(m)) THEN word(m) ELSE esc[m]]
    /\ wire' = <<>>
    /\ at' = at + 1 /\ left' = 0
    /\ UNCHANGED <<call, planes, overlapped>>

CallStep == Clear \/ Write \/ SetAddress \/ Trigger

Next == SetEnabled \/ SetDisabled \/ CallStep \/ Send \/ SendLast

\* A call that was begun is finished, and the channel sends.
Fairness == WF_vars(CallStep) /\ WF_vars(Send \/ SendLast)

Spec == Init /\ [][Next]_vars /\ Fairness

----------------------------------------------------------------------------
(* Properties. *)

TypeOK ==
    /\ pc \in {"idle", "clear", "write", "address", "trigger"}
    /\ motor \in Motor /\ bit \in Position
    /\ command \in [Motor -> Word]
    /\ planes \in [Position -> Plane]
    /\ at \in 0 .. 2 * Size /\ left \in 0 .. Size
    /\ wire \in Seq(Plane) /\ Len(wire) <= Size
    /\ esc \in [Motor -> Word]
    /\ overlapped \in BOOLEAN

\* A frame that no call disturbed is read from within the bit planes and has
\* made every ESC accept the command of its call: motorOutputSet and the bit
\* planes it sends, whatever was sent before.
FrameCarriesCommand ==
    ~overlapped =>
        /\ at + left <= Size
        /\ pc = "idle" /\ ~Busy => \A m \in Motor : esc[m] = command[m]

\* With scalars that keep min and max in the range of a throttle, no command
\* is sent that an ESC takes for something else than a throttle.
SaneScalars == MinOutput <= Min /\ Min < Power[3 * Nib - 1] /\ Max < Power[3 * Nib - 1]
NoSpecialCommand ==
    SaneScalars => \A m \in Motor, v \in 1 .. MinOutput - 1 : command[m] # BuildPacket(v)

\* When the last call was not disturbed the ESCs end up with its commands,
\* whatever the frames before it were cut to.
KeepsLastCommand ==
    <>[](pc = "idle" /\ ~overlapped) => <>[](\A m \in Motor : esc[m] = command[m])
=============================================================================
