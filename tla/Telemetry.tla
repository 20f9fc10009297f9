------------------------------ MODULE Telemetry ------------------------------
(***************************************************************************)
(* The sending side of core/telemetry (telemetry-common.c over             *)
(* telemetry_native_rp2040.c).  Samples are put into s.valueMods, framed   *)
(* in place with a description behind them, and sent by a DMA channel that *)
(* reads the same memory.  Nothing is locked:                              *)
(*   main   core 0's loop calls flightPrintTask;                           *)
(*   timer  a repeating timer of core 0 calls it too, preempting main;     *)
(*   ctl    core 1 samples fc.state whenever the control loop changes it.  *)
(* Each step reads or writes one variable they share.                      *)
(*                                                                         *)
(* Abstracted: variable 1 is fc.state, the others never change; a packet,  *)
(* a description included, takes one place of the buffer and the DMA reads *)
(* it at once; the XOR over a payload tells every two payloads apart.      *)
(* What telemetry_update receives is left out.                             *)
(***************************************************************************)
EXTENDS Integers, Sequences

CONSTANTS
    Cap,            \* tdv_telemetry_sample_buffer_count
    Items,          \* s.itemCount, variables registered
    PrintVars,      \* what flightPrintTask samples, in order
    SendVars,       \* what telemetry_send itself samples
    Actors,         \* bound of the model: who runs
    MaxChanges      \* bound of the model: changes of fc.state

Vars == 1 .. Items
State == 1          \* the id of fc.state

ASSUME TelemetryAssumption ==
    /\ Cap \in Nat /\ Items \in Nat \ {0}
    /\ PrintVars \in Seq(Vars) \ {<<>>} /\ SendVars \in Seq(Vars)
    /\ Len(PrintVars) + Len(SendVars) < Cap
    /\ MaxChanges \in Nat
    /\ {"main"} \subseteq Actors /\ Actors \subseteq {"main", "timer", "ctl"}

Printers == Actors \cap {"main", "timer"}

VARIABLES
    state,          \* value of fc.state: how often it has changed
    count,          \* s.valueModCount
    mods,           \* s.valueMods, the packet before it and those behind Cap
    nextDesc,       \* tdv_next_desc_send
    dma,            \* the packet the channel is at and how many it has left
    pos,            \* where each actor is
    slot, len, sampled, desc,       \* its locals id, sendLength, sendsampled, and
                                    \* the tdv_next_desc_send it read
    shown,          \* history: fc.state as the ground station last received it
    preempted       \* history: where in telemetry_send the timer last sent under main

job == <<slot, len, sampled, desc>>
history == <<shown, preempted>>
vars == <<state, count, mods, nextDesc, dma, pos, job, history>>

Values == 0 .. MaxChanges
Places == -1 .. Cap + 3
\* A packet: what its header, its payload's id and value, and its crc say.  A
\* value remembers the variable it was read from, a description has it there.
Nothing == [kind |-> "none", id |-> 0, val |-> [of |-> 0, val |-> 0], crc |-> <<>>]

Still == [at |-> 0, left |-> 0]
Position(at, i, step) == [at |-> at, i |-> i, step |-> step]
\* Inside telemetry_send.
SendAts == {"send", "frame", "choose", "lookup", "reframe", "describe", "next",
            "native", "trigger", "reset"}
Idle == Position("idle", 0, "none")

Init ==
    /\ state = 0
    /\ count = 0
    /\ mods = [p \in Places |-> Nothing]
    /\ nextDesc = 0
    /\ dma = Still
    /\ pos = [a \in Actors |-> Idle]
    /\ slot = [a \in Actors |-> 0]
    /\ len = [a \in Actors |-> 0]
    /\ sampled = [a \in Actors |-> FALSE]
    /\ desc = [a \in Actors |-> 0]
    /\ shown = 0 /\ preempted = "no"

----------------------------------------------------------------------------
(* Mutants: forms a plausible bug would give the definitions below.        *)

FullStrictly == count > Cap
ClaimedUncounted(a) == slot[a]
EmptiedNever == count
MoreDescsAlways == TRUE
AdvancedNot(d) == d
AfterNativeInverted == IF dma.left > 0 THEN "trigger" ELSE "reset"

----------------------------------------------------------------------------

\* telemetry_native_sending
Sending == dma.left > 0

\* The timer's interrupt holds core 0.
Runs(a) == a = "main" /\ "timer" \in Actors => pos["timer"] = Idle
At(a, at, step) == Runs(a) /\ pos[a].at = at /\ pos[a].step = step
Goto(a, p) == pos' = [pos EXCEPT ![a] = p]

\* What a packet's payload is, and whether its crc says so.
Payload(m) == <<m.id, m.val>>
Valid(m) == m.crc = Payload(m)
Framed(m) == [m EXCEPT !.kind = "data", !.crc = Payload(m)]

----------------------------------------------------------------------------
(* telemetry_sample_var, for any actor. *)

\* The variable an actor samples, and where it goes on afterwards.
VarOf(a) == CASE pos[a].at = "print" -> PrintVars[pos[a].i]
              [] pos[a].at = "send" -> SendVars[pos[a].i]
              [] pos[a].at = "lookup" -> desc[a] + 1
              [] OTHER -> State

SampleEach(at, seq, i, then) ==
    IF i < Len(seq) THEN Position(at, i + 1, "busy") ELSE Position(then, 0, "none")

Return(p) == CASE p.at = "print" -> SampleEach("print", PrintVars, p.i, "ready")
               [] p.at = "send" -> SampleEach("send", SendVars, p.i, "frame")
               [] p.at = "lookup" -> Position("reframe", 0, "none")
               [] OTHER -> Idle

Step(a, from, to) ==
    /\ Runs(a) /\ pos[a].step = from
    /\ Goto(a, IF to = "return" THEN Return(pos[a]) ELSE [pos[a] EXCEPT !.step = to])

\* if (telemetry_native_sending()) return;
SampleBusy(a) ==
    /\ Step(a, "busy", IF Sending THEN "return" ELSE "room")
    /\ UNCHANGED <<state, count, mods, nextDesc, dma, job, history>>

Full == count >= Cap

SampleRoom(a) ==
    /\ Step(a, "room", IF Full THEN "return" ELSE "load")
    /\ UNCHANGED <<state, count, mods, nextDesc, dma, job, history>>

\* id = s.valueModCount++: a load and a store
SampleLoad(a) ==
    /\ Step(a, "load", "store")
    /\ slot' = [slot EXCEPT ![a] = count]
    /\ UNCHANGED <<state, count, mods, nextDesc, dma, len, sampled, desc, history>>

Claimed(a) == slot[a] + 1

SampleStore(a) ==
    /\ Step(a, "store", "id")
    /\ count' = Claimed(a)
    /\ UNCHANGED <<state, mods, nextDesc, dma, job, history>>

SampleId(a) ==
    /\ Step(a, "id", "value")
    /\ mods' = [mods EXCEPT ![slot[a]].id = VarOf(a)]
    /\ UNCHANGED <<state, count, nextDesc, dma, job, history>>

SampleValue(a) ==
    /\ Step(a, "value", "return")
    /\ mods' = [mods EXCEPT ![slot[a]].val =
            [of |-> VarOf(a), val |-> IF VarOf(a) = State THEN state ELSE 0]]
    /\ slot' = [slot EXCEPT ![a] = 0]
    /\ UNCHANGED <<state, count, nextDesc, dma, len, sampled, desc, history>>

Sample(a) == \/ SampleBusy(a) \/ SampleRoom(a) \/ SampleLoad(a)
             \/ SampleStore(a) \/ SampleId(a) \/ SampleValue(a)

----------------------------------------------------------------------------
(* flightPrintTask and telemetry_send, for main and timer. *)

\* if (telemetry_sending()) return;
PrintBegin(a) ==
    /\ At(a, "idle", "none") /\ ~Sending
    /\ Goto(a, Position("print", 1, "busy"))
    /\ UNCHANGED <<state, count, mods, nextDesc, dma, job, history>>

\* if (telemetry_native_sending()) return;
SendBegin(a) ==
    /\ At(a, "ready", "none")
    /\ Goto(a, IF Sending THEN Idle ELSE SampleEach("send", SendVars, 0, "frame"))
    /\ UNCHANGED <<state, count, mods, nextDesc, dma, job, history>>

\* for (p = 0; p < s.valueModCount; ++p) telemetry_write_data_frame(packet)
FrameOne(a) ==
    /\ At(a, "frame", "none") /\ pos[a].i < count
    /\ mods' = [mods EXCEPT ![pos[a].i] = Framed(@)]
    /\ sampled' = [sampled EXCEPT ![a] = @ \/ nextDesc = mods[pos[a].i].id]
    /\ len' = [len EXCEPT ![a] = @ + 1]
    /\ Goto(a, Position("frame", pos[a].i + 1, "none"))
    /\ UNCHANGED <<state, count, nextDesc, dma, slot, desc, history>>

FrameEnd(a) ==
    /\ At(a, "frame", "none") /\ pos[a].i >= count
    /\ Goto(a, Position("choose", 0, "none"))
    /\ UNCHANGED <<state, count, mods, nextDesc, dma, job, history>>

\* if (tdv_next_desc_send.v.u32 < s.itemCount) ... else it starts over
MoreDescs == nextDesc < Items

ChooseDesc(a) ==
    /\ At(a, "choose", "none") /\ MoreDescs
    /\ desc' = [desc EXCEPT ![a] = nextDesc]
    /\ Goto(a, Position("lookup", 0, "none"))
    /\ UNCHANGED <<state, count, mods, nextDesc, dma, slot, len, sampled, history>>

RestartDescs(a) ==
    /\ At(a, "choose", "none") /\ ~MoreDescs
    /\ nextDesc' = 0
    /\ Goto(a, Position("native", 0, "none"))
    /\ UNCHANGED <<state, count, mods, dma, job, history>>

\* The compiler may have kept tdv_next_desc_send or read it again.
Lookup(a) ==
    /\ At(a, "lookup", "none")
    /\ \E d \in {desc[a], nextDesc} :
          /\ desc' = [desc EXCEPT ![a] = d]
          /\ Goto(a, IF d + 1 > Items THEN Position("next", 0, "none")
                     ELSE IF sampled[a] THEN Position("describe", 0, "none")
                     ELSE Position("lookup", 0, "busy"))
    /\ UNCHANGED <<state, count, mods, nextDesc, dma, slot, len, sampled, history>>

\* packet = s.valueMods + (s.valueModCount - 1)
Reframe(a) ==
    /\ At(a, "reframe", "none")
    /\ mods' = [mods EXCEPT ![count - 1] = Framed(@)]
    /\ len' = [len EXCEPT ![a] = @ + 1]
    /\ Goto(a, Position("describe", 0, "none"))
    /\ UNCHANGED <<state, count, nextDesc, dma, slot, sampled, desc, history>>

\* telemetry_write_desc_frame behind what was framed
Description(v) ==
    LET m == [Nothing EXCEPT !.kind = "desc", !.val.of = v]
    IN [m EXCEPT !.crc = Payload(m)]

Describe(a) ==
    /\ At(a, "describe", "none")
    /\ mods' = [mods EXCEPT ![len[a]] = Description(desc[a] + 1)]
    /\ len' = [len EXCEPT ![a] = @ + 1]
    /\ Goto(a, Position("next", 0, "none"))
    /\ UNCHANGED <<state, count, nextDesc, dma, slot, sampled, desc, history>>

Advanced(d) == d + 1

NextDesc(a) ==
    /\ At(a, "next", "none")
    /\ \E d \in {desc[a], nextDesc} : nextDesc' = Advanced(d)
    /\ Goto(a, Position("native", 0, "none"))
    /\ UNCHANGED <<state, count, mods, dma, job, history>>

\* dma_send: if (dma_channel_is_busy(s.dmaId)) return;
AfterNative == IF Sending THEN "reset" ELSE "trigger"

NativeBusy(a) ==
    /\ At(a, "native", "none")
    /\ Goto(a, Position(AfterNative, 0, "none"))
    /\ UNCHANGED <<state, count, mods, nextDesc, dma, job, history>>

\* dma_channel_set_read_addr, then dma_channel_set_trans_count: a channel that
\* is busy takes the address, is not triggered and goes on with its count.  A
\* timer that fires between the two writes starts a transfer that outlasts it,
\* and the second write leaves that transfer alone.
Trigger(a) ==
    /\ At(a, "trigger", "none")
    /\ dma' = [at |-> 0, left |-> IF Sending THEN dma.left ELSE len[a]]
    /\ Goto(a, Position("reset", 0, "none"))
    /\ UNCHANGED <<state, count, mods, nextDesc, job, history>>

Emptied == 0

ResetCount(a) ==
    /\ At(a, "reset", "none")
    /\ count' = Emptied
    /\ len' = [len EXCEPT ![a] = 0]
    /\ sampled' = [sampled EXCEPT ![a] = FALSE]
    /\ desc' = [desc EXCEPT ![a] = 0]
    /\ preempted' = IF a = "timer" /\ pos["main"].at \in SendAts
                    THEN pos["main"].at ELSE "no"
    /\ Goto(a, Idle)
    /\ UNCHANGED <<state, mods, nextDesc, dma, slot, shown>>

PrintTask(a) ==
    \/ SendBegin(a) \/ FrameOne(a) \/ FrameEnd(a) \/ ChooseDesc(a) \/ RestartDescs(a)
    \/ Lookup(a) \/ Reframe(a) \/ Describe(a) \/ NextDesc(a)
    \/ NativeBusy(a) \/ Trigger(a) \/ ResetCount(a) \/ Sample(a)

----------------------------------------------------------------------------
(* The control loop: tdv_fc_state.v.u32 = next; telemetry_sample_var(...)  *)

ChangeState ==
    /\ "ctl" \in Actors /\ pos["ctl"] = Idle
    /\ state < MaxChanges
    /\ state' = state + 1
    /\ Goto("ctl", Position("commit", 0, "busy"))
    /\ UNCHANGED <<count, mods, nextDesc, dma, job, history>>

\* The channel sends the next packet, as it finds it in memory.
Current == mods[dma.at]

DmaPacket ==
    /\ Sending
    /\ dma' = IF dma.left > 1 THEN [at |-> dma.at + 1, left |-> dma.left - 1] ELSE Still
    /\ shown' = IF Current.kind = "data" /\ Valid(Current) /\ Current.id = State
                THEN Current.val.val ELSE shown
    /\ UNCHANGED <<state, count, mods, nextDesc, pos, job, preempted>>

Next == \/ ChangeState \/ DmaPacket
        \/ "ctl" \in Actors /\ Sample("ctl")
        \/ \E a \in Printers : PrintBegin(a) \/ PrintTask(a)

\* The DMA engine and both cores run; the timer need not fire.
Fairness ==
    /\ WF_vars(DmaPacket)
    /\ "ctl" \in Actors => WF_vars(Sample("ctl"))
    /\ WF_vars(PrintBegin("main") \/ PrintTask("main"))
    /\ "timer" \in Actors => WF_vars(PrintTask("timer"))

Spec == Init /\ [][Next]_vars /\ Fairness

----------------------------------------------------------------------------
(* Properties. *)

Ats == SendAts \cup {"idle", "print", "ready", "commit"}
Steps == {"none", "busy", "room", "load", "store", "id", "value"}

TypeOK ==
    /\ state \in Values /\ count \in 0 .. Cap + 2
    /\ \A p \in Places :
          /\ mods[p].kind \in {"none", "data", "desc"} /\ mods[p].id \in Vars \cup {0}
          /\ mods[p].val \in [of : Vars \cup {0}, val : Values]
          /\ mods[p].crc = <<>> \/ mods[p].crc[1] \in Vars \cup {0}
    /\ DOMAIN mods = Places
    /\ nextDesc \in 0 .. Items + 1
    /\ dma \in [at : 0 .. Cap + 3, left : 0 .. Cap + 4]
    /\ \A a \in Actors : pos[a].at \in Ats /\ pos[a].step \in Steps /\ pos[a].i \in Nat
    /\ slot \in [Actors -> 0 .. Cap + 1] /\ len \in [Actors -> 0 .. Cap + 4]
    /\ sampled \in [Actors -> BOOLEAN] /\ desc \in [Actors -> 0 .. Items + 1]
    /\ shown \in Values /\ preempted \in SendAts \cup {"no"}

\* Whatever core 1 does to the count, samples pass the end of the buffer by two
\* packets at most (one core claims the last place the other has just claimed,
\* and its late store of the count sends the other one further), and the packet
\* that is framed again after the description's sample is one of those.
StaysInBuffer ==
    /\ \A a \in Actors : pos[a].step \in {"id", "value"} => slot[a] \in 0 .. Cap + 1
    /\ \A a \in Printers : pos[a].at = "reframe" => count - 1 \in 0 .. Cap + 1

\* Memory before the buffer is written only if the timer's own telemetry_send
\* has reset the count under the one it preempted, and a transfer under way is
\* sent back to the first packet only if the timer fired between the last busy
\* test of the telemetry_send it preempted and its trigger.
HarmOnlyByPreempting ==
    \A a \in Printers :
        /\ At(a, "reframe", "none") /\ count = 0 => a = "main" /\ preempted # "no"
        /\ At(a, "trigger", "none") /\ Sending => a = "main" /\ preempted = "trigger"

\* Whenever and however often the timer preempts main, telemetry keeps flowing.
KeepsSending == []<>Sending

\* Once fc.state settles, the ground station ends up showing it, whatever was
\* dropped, overwritten or sent twice before.
GroundShowsState == \A v \in Values : <>[](state = v) => <>[](shown = v)

\* Every variable is described again and again.
DescribesAll ==
    \A v \in Vars : []<><<DmaPacket /\ Current = Description(v)>>_vars

\* core/telemetry/README.md, streaming current state: a data packet that
\* arrives valid carries the value of the variable it names.
StreamsOwnValue ==
    Sending /\ Current.kind = "data" /\ Valid(Current) /\ Current.id \in Vars =>
        Current.val.of = Current.id
=============================================================================
