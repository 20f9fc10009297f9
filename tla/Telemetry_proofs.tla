-------------------------- MODULE Telemetry_proofs --------------------------
(***************************************************************************)
(* Theorems about Telemetry, for every buffer, every list of variables and *)
(* any number of changes of fc.state.                                      *)
(***************************************************************************)
EXTENDS Telemetry, TLAPS

PositionSet == [at : Ats, i : Nat, step : Steps]

\* Where an actor can be: only inside telemetry_sample_var it has a step, and
\* core 1 does nothing else.
Shape ==
    /\ count \in Nat
    /\ slot \in [Actors -> Nat] /\ len \in [Actors -> Nat]
    /\ dma \in [at : Nat, left : Nat]
    /\ pos \in [Actors -> PositionSet]
    /\ \A a \in Actors :
        pos[a].step # "none" => pos[a].at \in {"print", "send", "lookup", "commit"}
    /\ \A a \in Printers : pos[a].at # "commit"
    /\ "ctl" \in Actors => pos["ctl"].at \in {"idle", "commit"}

----------------------------------------------------------------------------
(* Control. *)

\* The main loop and the timer print, core 1 does not.
LEMMA ActorFacts ==
    /\ "main" \in Printers /\ Printers \subseteq Actors /\ "ctl" \notin Printers
    /\ \A a \in Printers : a \in {"main", "timer"}
    /\ \A a \in Actors : a \in Printers \/ a = "ctl"
  BY TelemetryAssumption DEF Printers

\* telemetry_sample_var returns to where it was called.
LEMMA ReturnPosition ==
    ASSUME NEW p \in PositionSet, p.at \in {"print", "send", "lookup", "commit"}
    PROVE  /\ Return(p) \in PositionSet
           /\ Return(p).step # "none" => Return(p).at \in {"print", "send"}
           /\ p.at = "commit" => Return(p) = Idle
           /\ p.at = "lookup" => Return(p) = Position("reframe", 0, "none")
           /\ p.at = "print" => Return(p).at \in {"print", "ready"}
           /\ p.at = "send" => Return(p).at \in {"send", "frame"}
  BY DEF PositionSet, Return, SampleEach, Position, Idle, Ats, SendAts, Steps

\* The first sample of telemetry_send, if there is one.
LEMMA FirstSample ==
    /\ SampleEach("send", SendVars, 0, "frame") \in PositionSet
    /\ SampleEach("send", SendVars, 0, "frame").at \in {"send", "frame"}
    /\ SampleEach("send", SendVars, 0, "frame").step # "none" =>
        SampleEach("send", SendVars, 0, "frame").at = "send"
  BY DEF PositionSet, SampleEach, Position, Ats, SendAts, Steps

\* Every step keeps the shape.
LEMMA ShapeStep ==
    ASSUME Shape, [Next]_vars
    PROVE  Shape'
<1> USE ActorFacts, ReturnPosition DEF Shape, Goto, Step, At, Position, PositionSet,
        Ats, SendAts, Steps, Idle, job, history
<1>1. CASE ChangeState
  BY <1>1 DEF ChangeState
<1>2. CASE DmaPacket
  BY <1>2 DEF DmaPacket, Sending, Still
<1>3. ASSUME NEW a \in Actors, Sample(a) PROVE Shape'
  <2>1. CASE SampleBusy(a)
    BY <2>1 DEF SampleBusy
  <2>2. CASE SampleRoom(a)
    BY <2>2 DEF SampleRoom
  <2>3. CASE SampleLoad(a)
    BY <2>3 DEF SampleLoad
  <2>4. CASE SampleStore(a)
    BY <2>4 DEF SampleStore, Claimed
  <2>5. CASE SampleId(a)
    BY <2>5 DEF SampleId
  <2>6. CASE SampleValue(a)
    BY <2>6 DEF SampleValue
  <2>7. QED
    BY <1>3, <2>1, <2>2, <2>3, <2>4, <2>5, <2>6 DEF Sample
<1>4. ASSUME NEW a \in Printers, PrintBegin(a) \/ PrintTask(a), ~Sample(a) PROVE Shape'
  <2>1. CASE PrintBegin(a)
    BY <2>1 DEF PrintBegin
  <2>2. CASE SendBegin(a)
    BY <2>2, FirstSample DEF SendBegin
  <2>3. CASE FrameOne(a)
    BY <2>3 DEF FrameOne
  <2>4. CASE FrameEnd(a)
    BY <2>4 DEF FrameEnd
  <2>5. CASE ChooseDesc(a)
    BY <2>5 DEF ChooseDesc
  <2>6. CASE RestartDescs(a)
    BY <2>6 DEF RestartDescs
  <2>7. CASE Lookup(a)
    BY <2>7 DEF Lookup
  <2>8. CASE Reframe(a)
    BY <2>8 DEF Reframe
  <2>9. CASE Describe(a)
    BY <2>9 DEF Describe
  <2>10. CASE NextDesc(a)
    BY <2>10 DEF NextDesc
  <2>11. CASE NativeBusy(a)
    BY <2>11 DEF NativeBusy, AfterNative
  <2>12. CASE Trigger(a)
    BY <2>12 DEF Trigger
  <2>13. CASE ResetCount(a)
    BY <2>13 DEF ResetCount, Emptied
  <2>14. QED
    BY <1>4, <2>1, <2>2, <2>3, <2>4, <2>5, <2>6, <2>7, <2>8, <2>9, <2>10, <2>11, <2>12,
       <2>13 DEF PrintTask
<1>5. CASE UNCHANGED vars
  BY <1>5 DEF vars
<1>6. QED
  BY <1>1, <1>2, <1>3, <1>4, <1>5, ActorFacts DEF Next, PrintTask

----------------------------------------------------------------------------
(* What the timer can do to the call it preempts. *)

TimerIdle == "timer" \in Actors => pos["timer"] = Idle

\* In telemetry_send after its own test of the channel.
Inside(a) == pos[a].at \in SendAts \ {"reset"}

\* The description's sample was counted and not yet framed.
Counted(a) ==
    \/ pos[a].at = "reframe"
    \/ pos[a].at = "lookup" /\ pos[a].step \in {"id", "value"}

\* Nobody preempts the timer: nothing is sent under it, and its count stays.
TimerUndisturbed ==
    "timer" \in Actors =>
        /\ pos["timer"].at \notin {"idle", "reset"} => ~Sending
        /\ Counted("timer") => count >= 1

\* So it is for main, unless the timer has sent inside its telemetry_send.
MainUndisturbed ==
    TimerIdle =>
        /\ preempted = "no" => (Inside("main") => ~Sending) /\ (Counted("main") => count >= 1)
        /\ pos["main"].at = "trigger" /\ Sending => preempted = "trigger"

HarmInv == Shape /\ TimerUndisturbed /\ MainUndisturbed

\* A step of telemetry_sample_var: the count does not go back to 0, and a sample
\* that ends was counted, dropped by a full buffer, or not taken.
LEMMA SampleMove ==
    ASSUME Shape, NEW a \in Actors, Sample(a)
    PROVE  /\ Runs(a) /\ pos[a].step # "none"
           /\ \A b \in Actors \ {a} : pos'[b] = pos[b]
           /\ dma' = dma /\ preempted' = preempted
           /\ count >= 1 => count' >= 1
           /\ \/ pos'[a] = Return(pos[a])
              \/ pos'[a].at = pos[a].at /\ pos'[a].step # "none"
           /\ pos'[a] = Return(pos[a]) => Sending \/ count' >= 1 \/ pos[a].step = "value"
           /\ pos'[a].step \in {"id", "value"} =>
                count' >= 1 \/ pos[a].step \in {"id", "value"}
<1> pos[a] \in PositionSet /\ a \in DOMAIN pos
  BY DEF Shape
<1>1. ASSUME pos[a].step # "none"
      PROVE  Return(pos[a]).step \in {"none", "busy"}
  BY <1>1 DEF Shape, Return, SampleEach, Position, Idle
<1>2. CASE SampleBusy(a)
  <2>1. /\ Runs(a) /\ pos[a].step = "busy"
        /\ \A b \in Actors \ {a} : pos'[b] = pos[b]
        /\ pos'[a] = IF Sending THEN Return(pos[a]) ELSE [pos[a] EXCEPT !.step = "room"]
    BY <1>2 DEF SampleBusy, Step, Goto, Shape
  <2>2. dma' = dma /\ preempted' = preempted /\ count' = count
    BY <1>2 DEF SampleBusy, history
  <2>3. QED
    BY <1>1, <2>1, <2>2 DEF PositionSet
<1>3. CASE SampleRoom(a)
  <2>1. /\ Runs(a) /\ pos[a].step = "room"
        /\ \A b \in Actors \ {a} : pos'[b] = pos[b]
        /\ pos'[a] = IF Full THEN Return(pos[a]) ELSE [pos[a] EXCEPT !.step = "load"]
    BY <1>3 DEF SampleRoom, Step, Goto, Shape
  <2>2. dma' = dma /\ preempted' = preempted /\ count' = count
    BY <1>3 DEF SampleRoom, history
  <2>3. Full => count >= 1
    <3>1. PrintVars # <<>> /\ PrintVars \in Seq(Vars) /\ SendVars \in Seq(Vars)
      BY TelemetryAssumption
    <3>2. Cap >= 1
      BY <3>1, TelemetryAssumption
    <3>3. QED
      BY <3>2, TelemetryAssumption DEF Full, Shape
  <2>4. QED
    BY <1>1, <2>1, <2>2, <2>3 DEF PositionSet
<1>4. CASE SampleLoad(a)
  <2>1. /\ Runs(a) /\ pos[a].step = "load"
        /\ \A b \in Actors \ {a} : pos'[b] = pos[b]
        /\ pos'[a] = [pos[a] EXCEPT !.step = "store"]
    BY <1>4 DEF SampleLoad, Step, Goto, Shape
  <2>2. dma' = dma /\ preempted' = preempted /\ count' = count
    BY <1>4 DEF SampleLoad, history
  <2>3. QED
    BY <1>1, <2>1, <2>2 DEF PositionSet
<1>5. CASE SampleStore(a)
  <2>1. /\ Runs(a) /\ pos[a].step = "store"
        /\ \A b \in Actors \ {a} : pos'[b] = pos[b]
        /\ pos'[a] = [pos[a] EXCEPT !.step = "id"]
    BY <1>5 DEF SampleStore, Step, Goto, Shape
  <2>2. dma' = dma /\ preempted' = preempted /\ count' >= 1
    BY <1>5 DEF SampleStore, Claimed, history, Shape
  <2>3. QED
    BY <1>1, <2>1, <2>2 DEF PositionSet
<1>6. CASE SampleId(a)
  <2>1. /\ Runs(a) /\ pos[a].step = "id"
        /\ \A b \in Actors \ {a} : pos'[b] = pos[b]
        /\ pos'[a] = [pos[a] EXCEPT !.step = "value"]
    BY <1>6 DEF SampleId, Step, Goto, Shape
  <2>2. dma' = dma /\ preempted' = preempted /\ count' = count
    BY <1>6 DEF SampleId, history
  <2>3. QED
    BY <1>1, <2>1, <2>2 DEF PositionSet
<1>7. CASE SampleValue(a)
  <2>1. /\ Runs(a) /\ pos[a].step = "value"
        /\ \A b \in Actors \ {a} : pos'[b] = pos[b]
        /\ pos'[a] = Return(pos[a])
    BY <1>7 DEF SampleValue, Step, Goto, Shape
  <2>2. dma' = dma /\ preempted' = preempted /\ count' = count
    BY <1>7 DEF SampleValue, history
  <2>3. QED
    BY <1>1, <2>1, <2>2
<1>8. QED
  BY <1>2, <1>3, <1>4, <1>5, <1>6, <1>7 DEF Sample

\* What telemetry_sample_var does to the two.
LEMMA SampleHarm ==
    ASSUME HarmInv, Shape', NEW a \in Actors, Sample(a)
    PROVE  (TimerUndisturbed /\ MainUndisturbed)'
<1> USE ActorFacts, ReturnPosition, SampleMove DEF HarmInv, Shape, TimerUndisturbed,
        MainUndisturbed, TimerIdle, Inside, Counted, Sending, Runs, Position, SendAts, Idle
<1>1. CASE a = "ctl"
  BY <1>1
<1>2. CASE a = "timer"
  BY <1>2
<1>3. CASE a = "main"
  BY <1>3
<1>4. QED
  BY <1>1, <1>2, <1>3

\* What flightPrintTask and telemetry_send do to the two.
LEMMA PrintHarm ==
    ASSUME HarmInv, Shape', NEW a \in Printers, PrintBegin(a) \/ PrintTask(a), ~Sample(a)
    PROVE  (TimerUndisturbed /\ MainUndisturbed)'
<1> USE ActorFacts DEF HarmInv, Shape, TimerUndisturbed, MainUndisturbed,
        TimerIdle, Inside, Counted, Sending, Goto, At, Runs, Position, PositionSet,
        Ats, SendAts, Steps, Idle, Printers, job, history
<1>1. CASE PrintBegin(a)
  BY <1>1 DEF PrintBegin
<1>2. CASE SendBegin(a)
  BY <1>2, FirstSample DEF SendBegin
<1>3. CASE FrameOne(a)
  BY <1>3 DEF FrameOne
<1>4. CASE FrameEnd(a)
  BY <1>4 DEF FrameEnd
<1>5. CASE ChooseDesc(a)
  BY <1>5 DEF ChooseDesc
<1>6. CASE RestartDescs(a)
  BY <1>6 DEF RestartDescs
<1>7. CASE Lookup(a)
  BY <1>7 DEF Lookup
<1>8. CASE Reframe(a)
  BY <1>8 DEF Reframe
<1>9. CASE Describe(a)
  BY <1>9 DEF Describe
<1>10. CASE NextDesc(a)
  BY <1>10 DEF NextDesc
<1>11. CASE NativeBusy(a)
  BY <1>11 DEF NativeBusy, AfterNative
<1>12. CASE Trigger(a)
  BY <1>12 DEF Trigger
<1>13. CASE ResetCount(a)
  BY <1>13 DEF ResetCount, Emptied
<1>14. QED
  BY <1>1, <1>2, <1>3, <1>4, <1>5, <1>6, <1>7, <1>8, <1>9, <1>10, <1>11, <1>12, <1>13
     DEF PrintTask

\* Nobody is inside anything at the start.
LEMMA InitHarm == Init => HarmInv
  BY ActorFacts DEF Init, HarmInv, Shape, TimerUndisturbed, MainUndisturbed, TimerIdle, Inside,
     Counted, Sending, Still, Idle, Position, PositionSet, Ats, SendAts, Steps, Printers

\* Every step of every actor keeps them.
LEMMA NextHarm ==
    ASSUME HarmInv, [Next]_vars
    PROVE  HarmInv'
<1>1. Shape'
  BY ShapeStep DEF HarmInv
<1>2. CASE ChangeState
  BY <1>1, <1>2, ActorFacts DEF ChangeState, HarmInv, Shape, TimerUndisturbed, MainUndisturbed,
     TimerIdle, Inside, Counted, Sending, Goto, Position, Idle, job, history
<1>3. CASE DmaPacket
  BY <1>1, <1>3, ActorFacts DEF DmaPacket, HarmInv, Shape, TimerUndisturbed, MainUndisturbed,
     TimerIdle, Inside, Counted, Sending, Still
<1>4. ASSUME NEW a \in Actors, Sample(a) PROVE HarmInv'
  BY <1>1, <1>4, SampleHarm DEF HarmInv
<1>5. ASSUME NEW a \in Printers, PrintBegin(a) \/ PrintTask(a) PROVE HarmInv'
  BY <1>1, <1>4, <1>5, ActorFacts, PrintHarm DEF HarmInv
<1>6. CASE UNCHANGED vars
  BY <1>6 DEF vars, HarmInv, Shape, TimerUndisturbed, MainUndisturbed,
     TimerIdle, Inside, Counted, Sending, job, history
<1>7. QED
  BY <1>2, <1>3, <1>4, <1>5, <1>6 DEF Next

\* The invariant of the preempted calls, whoever runs.
THEOREM Preempting == Spec => []HarmInv
  BY InitHarm, NextHarm, PTL DEF Spec

\* HarmOnlyByPreempting, whoever runs: memory before the buffer and a transfer
\* that goes on are only in danger from a timer inside telemetry_send.
THEOREM Harm == Spec => []HarmOnlyByPreempting
<1>1. HarmInv => HarmOnlyByPreempting
  BY ActorFacts DEF HarmInv, Shape, TimerUndisturbed, MainUndisturbed, HarmOnlyByPreempting,
     TimerIdle, Inside, Counted, At, Runs, SendAts, PositionSet, Idle, Position, Printers
<1>2. QED
  BY <1>1, Preempting, PTL

----------------------------------------------------------------------------
(* How far two cores that claim packets without a lock get past the buffer.*)

TwoCores == Actors = {"main", "ctl"}

Claiming(a) == pos[a].step \in {"load", "store"}

\* Core 1 cannot get past the first packet behind the buffer, since only core 0
\* resets the count.  Core 0 can get to the second one, but then core 1 is not
\* claiming: it would have to find room, and there is none.
Claims ==
    /\ count <= Cap + 2
    /\ pos["main"].step \in {"store", "id", "value"} => slot["main"] <= Cap + 1
    /\ pos["ctl"].step \in {"store", "id", "value"} => slot["ctl"] <= Cap
    /\ pos["main"].step = "load" => count <= Cap + 1
    /\ pos["ctl"].step = "load" => count <= Cap
    /\ pos["main"].step = "load" /\ Claiming("ctl") => count < Cap
    /\ pos["main"].step = "store" =>
        slot["main"] < Cap \/ (count = slot["main"] /\ ~Claiming("ctl"))

BufferInv == HarmInv /\ preempted = "no" /\ Claims

\* The steps of telemetry_sample_var, as far as claims go.
SampleMoves(a) ==
    /\ \A b \in Actors \ {a} : pos'[b] = pos[b] /\ slot'[b] = slot[b]
    /\ \/ /\ pos[a].step \in {"busy", "room", "value"}
          /\ pos'[a].step \in {"none", "busy", "room"}
          /\ count' = count
       \/ pos[a].step = "room" /\ pos'[a].step = "load" /\ count < Cap /\ count' = count
       \/ /\ pos[a].step = "load" /\ pos'[a].step = "store"
          /\ slot'[a] = count /\ count' = count
       \/ /\ pos[a].step = "store" /\ pos'[a].step = "id"
          /\ slot'[a] = slot[a] /\ count' = slot[a] + 1
       \/ /\ pos[a].step = "id" /\ pos'[a].step = "value"
          /\ slot'[a] = slot[a] /\ count' = count

\* Every step of telemetry_sample_var is one of those moves.
LEMMA SampleSteps ==
    ASSUME Shape, NEW a \in Actors, Sample(a)
    PROVE  SampleMoves(a)
<1> USE DEF SampleMoves
<1> pos[a] \in PositionSet /\ a \in DOMAIN pos
  BY DEF Shape
<1>1. ASSUME pos[a].step # "none"
      PROVE  Return(pos[a]).step \in {"none", "busy"}
  BY <1>1 DEF Shape, Return, SampleEach, Position, Idle
<1>2. CASE SampleBusy(a)
  <2>1. /\ pos[a].step = "busy"
        /\ pos'[a] = IF Sending THEN Return(pos[a]) ELSE [pos[a] EXCEPT !.step = "room"]
        /\ \A b \in Actors \ {a} : pos'[b] = pos[b]
    BY <1>2 DEF SampleBusy, Step, Goto, Shape
  <2>2. /\ count' = count
        /\ \A b \in Actors \ {a} : slot'[b] = slot[b]
    BY <1>2 DEF SampleBusy, job, Shape
  <2>3. QED
    BY <1>1, <2>1, <2>2 DEF PositionSet
<1>3. CASE SampleRoom(a)
  <2>1. /\ pos[a].step = "room"
        /\ pos'[a] = IF count >= Cap THEN Return(pos[a]) ELSE [pos[a] EXCEPT !.step = "load"]
        /\ \A b \in Actors \ {a} : pos'[b] = pos[b]
    BY <1>3 DEF SampleRoom, Full, Step, Goto, Shape
  <2>2. /\ count' = count
        /\ \A b \in Actors \ {a} : slot'[b] = slot[b]
    BY <1>3 DEF SampleRoom, job, Shape
  <2>3. QED
    BY <1>1, <2>1, <2>2, TelemetryAssumption, SMTT(30) DEF PositionSet, Shape
<1>4. CASE SampleLoad(a)
  <2>1. /\ pos[a].step = "load" /\ pos'[a] = [pos[a] EXCEPT !.step = "store"]
        /\ \A b \in Actors \ {a} : pos'[b] = pos[b]
    BY <1>4 DEF SampleLoad, Step, Goto, Shape
  <2>2. /\ count' = count /\ slot'[a] = count
        /\ \A b \in Actors \ {a} : slot'[b] = slot[b]
    BY <1>4 DEF SampleLoad, Shape
  <2>3. QED
    BY <1>1, <2>1, <2>2 DEF PositionSet
<1>5. CASE SampleStore(a)
  <2>1. /\ pos[a].step = "store" /\ pos'[a] = [pos[a] EXCEPT !.step = "id"]
        /\ \A b \in Actors \ {a} : pos'[b] = pos[b]
    BY <1>5 DEF SampleStore, Step, Goto, Shape
  <2>2. /\ count' = slot[a] + 1 /\ slot'[a] = slot[a]
        /\ \A b \in Actors \ {a} : slot'[b] = slot[b]
    BY <1>5 DEF SampleStore, Claimed, job, Shape
  <2>3. QED
    BY <1>1, <2>1, <2>2 DEF PositionSet
<1>6. CASE SampleId(a)
  <2>1. /\ pos[a].step = "id" /\ pos'[a] = [pos[a] EXCEPT !.step = "value"]
        /\ \A b \in Actors \ {a} : pos'[b] = pos[b]
    BY <1>6 DEF SampleId, Step, Goto, Shape
  <2>2. /\ count' = count /\ slot'[a] = slot[a]
        /\ \A b \in Actors \ {a} : slot'[b] = slot[b]
    BY <1>6 DEF SampleId, job, Shape
  <2>3. QED
    BY <1>1, <2>1, <2>2 DEF PositionSet
<1>7. CASE SampleValue(a)
  <2>1. /\ pos[a].step = "value" /\ pos'[a] = Return(pos[a])
        /\ \A b \in Actors \ {a} : pos'[b] = pos[b]
    BY <1>7 DEF SampleValue, Step, Goto, Shape
  <2>2. /\ count' = count
        /\ \A b \in Actors \ {a} : slot'[b] = slot[b]
    BY <1>7 DEF SampleValue, Shape
  <2>3. QED
    BY <1>1, <2>1, <2>2 DEF PositionSet
<1>8. QED
  BY <1>2, <1>3, <1>4, <1>5, <1>6, <1>7 DEF Sample

\* What they do to the claims.
LEMMA SampleClaims ==
    ASSUME TwoCores, Shape, Claims, NEW a \in Actors, Sample(a)
    PROVE  Claims'
<1>1. SampleMoves(a)
  BY SampleSteps
<1>2. /\ Cap \in Nat /\ count \in Nat /\ slot["main"] \in Nat /\ slot["ctl"] \in Nat
      /\ "main" \in Actors /\ "ctl" \in Actors
  BY TelemetryAssumption DEF TwoCores, Shape
<1>3. CASE a = "main"
  <2>1. pos'["ctl"] = pos["ctl"] /\ slot'["ctl"] = slot["ctl"]
    BY <1>1, <1>2, <1>3 DEF SampleMoves
  <2>2. QED
    BY <1>1, <1>2, <1>3, <2>1 DEF SampleMoves, Claims, Claiming
<1>4. CASE a = "ctl"
  <2>1. pos'["main"] = pos["main"] /\ slot'["main"] = slot["main"]
    BY <1>1, <1>2, <1>4 DEF SampleMoves
  <2>2. QED
    BY <1>1, <1>2, <1>4, <2>1 DEF SampleMoves, Claims, Claiming
<1>5. QED
  BY <1>3, <1>4 DEF TwoCores

\* Outside telemetry_sample_var only core 0's reset touches the count.
LEMMA PrintClaims ==
    ASSUME TwoCores, Shape, Claims, preempted = "no",
           NEW a \in Printers, PrintBegin(a) \/ PrintTask(a), ~Sample(a)
    PROVE  Claims' /\ preempted' = "no"
<1>1. a = "main" /\ a \in Actors
  BY DEF TwoCores, Printers
<1>2. /\ \A b \in Actors \ {a} : pos'[b] = pos[b]
      /\ pos[a].step = "none" /\ pos'[a].step \in {"none", "busy"}
      /\ slot' = slot /\ (count' = count \/ count' = 0)
      /\ preempted' = preempted \/ preempted' = "no"
  <2> USE <1>1 DEF Shape, Goto, At, Position, Idle, SampleEach, job, history
  <2>1. CASE PrintBegin(a)
    BY <2>1 DEF PrintBegin
  <2>2. CASE SendBegin(a)
    BY <2>2 DEF SendBegin
  <2>3. CASE FrameOne(a)
    BY <2>3 DEF FrameOne
  <2>4. CASE FrameEnd(a)
    BY <2>4 DEF FrameEnd
  <2>5. CASE ChooseDesc(a)
    BY <2>5 DEF ChooseDesc
  <2>6. CASE RestartDescs(a)
    BY <2>6 DEF RestartDescs
  <2>7. CASE Lookup(a)
    BY <2>7 DEF Lookup
  <2>8. CASE Reframe(a)
    BY <2>8 DEF Reframe
  <2>9. CASE Describe(a)
    BY <2>9 DEF Describe
  <2>10. CASE NextDesc(a)
    BY <2>10 DEF NextDesc
  <2>11. CASE NativeBusy(a)
    BY <2>11 DEF NativeBusy
  <2>12. CASE Trigger(a)
    BY <2>12 DEF Trigger
  <2>13. CASE ResetCount(a)
    BY <2>13 DEF ResetCount, Emptied
  <2>14. QED
    BY <2>1, <2>2, <2>3, <2>4, <2>5, <2>6, <2>7, <2>8, <2>9, <2>10, <2>11, <2>12, <2>13
       DEF PrintTask
<1>3. QED
  BY <1>1, <1>2, TelemetryAssumption, SMTT(30) DEF TwoCores, Shape, Claims, Claiming

\* The invariant of two cores that claim packets.
THEOREM ClaimsBounded == ASSUME TwoCores PROVE Spec => []BufferInv
<1>1. Init => BufferInv
  BY InitHarm, TelemetryAssumption DEF Init, BufferInv, Claims, TwoCores, Idle, Position
<1>2. BufferInv /\ [Next]_vars => BufferInv'
  <2> SUFFICES ASSUME BufferInv, [Next]_vars PROVE BufferInv'
    OBVIOUS
  <2>1. HarmInv'
    BY NextHarm DEF BufferInv
  <2>2. CASE ChangeState
    BY <2>1, <2>2 DEF ChangeState, BufferInv, HarmInv, Shape, Claims, Claiming, TwoCores, Goto,
       Position, Idle, job, history
  <2>3. CASE DmaPacket
    BY <2>1, <2>3 DEF DmaPacket, BufferInv, Claims, Claiming, job
  <2>4. ASSUME NEW a \in Actors, Sample(a) PROVE BufferInv'
    <3>1. preempted' = "no"
      BY <2>4, SampleMove DEF BufferInv, HarmInv
    <3>2. QED
      BY <2>1, <2>4, <3>1, SampleClaims DEF BufferInv, HarmInv
  <2>5. ASSUME NEW a \in Printers, PrintBegin(a) \/ PrintTask(a) PROVE BufferInv'
    BY <2>1, <2>4, <2>5, ActorFacts, PrintClaims DEF BufferInv, HarmInv
  <2>6. CASE UNCHANGED vars
    BY <2>1, <2>6 DEF vars, BufferInv, Claims, Claiming, job, history
  <2>7. QED
    BY <2>2, <2>3, <2>4, <2>5, <2>6, ActorFacts DEF Next, TwoCores
<1>3. QED
  BY <1>1, <1>2, PTL DEF Spec

\* StaysInBuffer: with both cores, for every buffer, samples end up at most two
\* packets behind it, and none before it.
THEOREM InBuffer == ASSUME TwoCores PROVE Spec => []StaysInBuffer
<1>1. BufferInv => StaysInBuffer
  <2> SUFFICES ASSUME BufferInv PROVE StaysInBuffer
    OBVIOUS
  <2>1. Cap \in Nat /\ count \in Nat /\ slot["main"] \in Nat /\ slot["ctl"] \in Nat
    BY TelemetryAssumption DEF BufferInv, HarmInv, Shape, TwoCores
  <2>2. ASSUME pos["main"].at = "reframe" PROVE count >= 1
    BY <2>2 DEF BufferInv, HarmInv, MainUndisturbed, TimerIdle, Counted, TwoCores
  <2>3. QED
    BY <2>1, <2>2, ActorFacts DEF BufferInv, Claims, StaysInBuffer, TwoCores
<1>2. QED
  BY <1>1, ClaimsBounded, PTL


----------------------------------------------------------------------------
(* Types.                                                                  *)

Ids == Vars \cup {0}
Readings == [of : Ids, val : Values]
\* What a packet of the buffer can be, framed or not.
Packets == [kind : {"none", "data", "desc"}, id : Ids, val : Readings,
            crc : {<<>>} \cup (Ids \X Readings)]

Memory ==
    /\ state \in Values /\ shown \in Values
    /\ mods \in [Places -> Packets]
    /\ slot \in [Actors -> 0 .. Cap + 1]
    /\ sampled \in [Actors -> BOOLEAN]
    /\ dma.left = 0 => dma.at = 0
    /\ dma.at + dma.left <= Cap + 4

\* Core 0 counts in len what it has framed: nothing before it sends, then as
\* many packets as it has passed, then two more at most.  While it describes a
\* variable, desc and nextDesc are that variable's place: nobody else moves
\* tdv_next_desc_send.
MainLen ==
    LET at == pos["main"].at IN
    /\ at \in {"idle", "print", "ready", "send"} => len["main"] = 0
    /\ at = "frame" => len["main"] = pos["main"].i
    /\ at \in {"frame", "choose", "lookup", "reframe"} => len["main"] <= Cap + 2
    /\ at = "describe" => len["main"] <= Cap + 3
    /\ len["main"] <= Cap + 4

MainDesc ==
    /\ nextDesc \in 0 .. Items
    /\ desc \in [Actors -> 0 .. Items]
    /\ pos["main"].at \in {"lookup", "reframe", "describe", "next"} =>
        desc["main"] = nextDesc /\ nextDesc < Items

MainSamples ==
    /\ pos["main"].at = "print" => pos["main"].i \in DOMAIN PrintVars
    /\ pos["main"].at = "send" => pos["main"].i \in DOMAIN SendVars

TypeInv == BufferInv /\ Memory /\ MainLen /\ len["ctl"] = 0 /\ MainDesc /\ MainSamples

\* What is written to a packet leaves it one.
LEMMA PacketWrites ==
    /\ \A m \in Packets : Framed(m) \in Packets
    /\ \A m \in Packets, v \in Vars : [m EXCEPT !.id = v] \in Packets
    /\ \A m \in Packets, r \in Readings : [m EXCEPT !.val = r] \in Packets
    /\ \A v \in Vars : Description(v) \in Packets
    /\ Nothing \in Packets
<1>1. ASSUME NEW m \in Packets PROVE Framed(m) \in Packets
  <2>1. Payload(m) \in Ids \X Readings
    BY DEF Packets, Payload
  <2>2. QED
    BY <2>1 DEF Packets, Framed
<1>2. 0 \in Ids /\ 0 \in Values /\ Vars \subseteq Ids
  BY TelemetryAssumption DEF Ids, Values
<1>3. Nothing \in Packets
  BY <1>2 DEF Nothing, Packets, Readings
<1>4. ASSUME NEW v \in Vars PROVE Description(v) \in Packets
  <2> DEFINE m == [Nothing EXCEPT !.kind = "desc", !.val.of = v]
  <2>1. m \in Packets
    BY <1>2, <1>3 DEF Packets, Readings
  <2>2. Payload(m) \in Ids \X Readings
    BY <2>1 DEF Packets, Payload
  <2>3. QED
    BY <2>1, <2>2 DEF Packets, Description
<1>5. QED
  BY <1>1, <1>2, <1>3, <1>4 DEF Packets

\* What an actor samples is a registered variable.
LEMMA SamplesVars ==
    ASSUME TwoCores, Shape, MainDesc, MainSamples, NEW a \in Actors, pos[a].step # "none"
    PROVE  VarOf(a) \in Vars
<1>1. State \in Vars
  BY TelemetryAssumption DEF State, Vars
<1>2. pos[a].at \in {"print", "send", "lookup", "commit"}
  BY DEF Shape
<1>3. CASE a = "ctl"
  BY <1>1, <1>2, <1>3 DEF Shape, VarOf
<1>4. CASE a = "main"
  <2>1. CASE pos[a].at = "print"
    BY <1>4, <2>1, TelemetryAssumption DEF VarOf, MainSamples
  <2>2. CASE pos[a].at = "send"
    BY <1>4, <2>2, TelemetryAssumption DEF VarOf, MainSamples
  <2>3. CASE pos[a].at = "lookup"
    BY <1>4, <2>3, TelemetryAssumption DEF VarOf, MainDesc, Vars
  <2>4. QED
    BY <1>1, <1>2, <2>1, <2>2, <2>3 DEF VarOf
<1>5. QED
  BY <1>3, <1>4 DEF TwoCores

\* A step of telemetry_sample_var stays in its call or returns from it, and
\* leaves what telemetry_send goes by.
LEMMA SampleGoes ==
    ASSUME Shape, NEW a \in Actors, Sample(a)
    PROVE  /\ pos[a].step # "none"
           /\ \A b \in Actors \ {a} : pos'[b] = pos[b]
           /\ \/ pos'[a] = Return(pos[a])
              \/ pos'[a].at = pos[a].at /\ pos'[a].i = pos[a].i
           /\ len' = len /\ desc' = desc /\ nextDesc' = nextDesc
           /\ dma' = dma /\ state' = state /\ shown' = shown /\ sampled' = sampled
<1> pos[a] \in PositionSet /\ a \in DOMAIN pos
  BY DEF Shape
<1> USE DEF Step, Goto, Shape, PositionSet, job, history
<1>1. CASE SampleBusy(a)
  BY <1>1 DEF SampleBusy
<1>2. CASE SampleRoom(a)
  BY <1>2 DEF SampleRoom
<1>3. CASE SampleLoad(a)
  BY <1>3 DEF SampleLoad
<1>4. CASE SampleStore(a)
  BY <1>4 DEF SampleStore
<1>5. CASE SampleId(a)
  BY <1>5 DEF SampleId
<1>6. CASE SampleValue(a)
  BY <1>6 DEF SampleValue
<1>7. QED
  BY <1>1, <1>2, <1>3, <1>4, <1>5, <1>6 DEF Sample

\* So it keeps where core 0 is in its lists and in the buffer.
LEMMA SampleProgress ==
    ASSUME TwoCores, Shape, MainLen, MainDesc, MainSamples, NEW a \in Actors, Sample(a)
    PROVE  (MainLen /\ MainDesc /\ MainSamples)'
<1>1. len'["main"] = len["main"] /\ desc' = desc /\ nextDesc' = nextDesc
  BY SampleGoes
<1>2. \/ pos'["main"].at = pos["main"].at /\ pos'["main"].i = pos["main"].i
      \/ a = "main" /\ pos'["main"] = Return(pos["main"]) /\ pos["main"].step # "none"
  BY SampleGoes DEF TwoCores
<1>3. CASE pos'["main"].at = pos["main"].at /\ pos'["main"].i = pos["main"].i
  BY <1>1, <1>3 DEF MainLen, MainDesc, MainSamples
<1>4. CASE a = "main" /\ pos'["main"] = Return(pos["main"]) /\ pos["main"].step # "none"
  <2>1. pos["main"].at \in {"print", "send", "lookup"} /\ "main" \in Actors
    BY <1>4, ActorFacts DEF Shape
  <2>2. CASE pos["main"].at = "lookup"
    <3>1. pos'["main"] = Position("reframe", 0, "none")
      BY <1>4, <2>2 DEF Return
    <3>2. QED
      BY <1>1, <2>2, <3>1 DEF Position, MainLen, MainDesc, MainSamples
  <2>3. CASE pos["main"].at = "print"
    <3>1. pos'["main"] = SampleEach("print", PrintVars, pos["main"].i, "ready")
      BY <1>4, <2>3 DEF Return
    <3>2. PrintVars \in Seq(Vars)
      BY TelemetryAssumption
    <3>3. QED
      BY <1>1, <2>3, <3>1, <3>2 DEF SampleEach, Position, MainLen, MainDesc, MainSamples
  <2>4. CASE pos["main"].at = "send"
    <3>1. pos'["main"] = SampleEach("send", SendVars, pos["main"].i, "frame")
      BY <1>4, <2>4 DEF Return
    <3>2. SendVars \in Seq(Vars) /\ Cap \in Nat
      BY TelemetryAssumption
    <3>3. QED
      BY <1>1, <2>4, <3>1, <3>2 DEF SampleEach, Position, MainLen, MainDesc, MainSamples
  <2>5. QED
    BY <2>1, <2>2, <2>3, <2>4
<1>5. QED
  BY <1>2, <1>3, <1>4

\* It writes an id or a value into the packet it has claimed.
LEMMA SampleMemory ==
    ASSUME TwoCores, BufferInv, Memory, MainDesc, MainSamples, NEW a \in Actors, Sample(a)
    PROVE  Memory'
<1>1. Shape /\ Claims
  BY DEF BufferInv, HarmInv
<1>2. VarOf(a) \in Vars
  BY <1>1, SampleGoes, SamplesVars
<1>3. dma' = dma /\ state' = state /\ shown' = shown /\ sampled' = sampled
  BY <1>1, SampleGoes
<1>4. Cap \in Nat /\ Items \in Nat \ {0} /\ count \in Nat
  BY <1>1, TelemetryAssumption DEF Shape
<1>5. slot' \in [Actors -> 0 .. Cap + 1] /\ mods' \in [Places -> Packets]
  <2>1. CASE SampleBusy(a) \/ SampleRoom(a) \/ SampleStore(a)
    BY <2>1 DEF SampleBusy, SampleRoom, SampleStore, Memory, job
  <2>2. CASE SampleLoad(a)
    <3>1. pos[a].step = "load"
      BY <2>2 DEF SampleLoad, Step
    <3>2. count \in 0 .. Cap + 1
      BY <1>1, <1>4, <3>1 DEF Claims, TwoCores
    <3>3. QED
      BY <2>2, <3>2 DEF SampleLoad, Memory
  <2>3. CASE SampleId(a)
    <3>1. slot[a] \in Places
      BY <1>4 DEF Memory, Places
    <3>2. [mods[slot[a]] EXCEPT !.id = VarOf(a)] \in Packets
      BY <1>2, <3>1, PacketWrites DEF Memory
    <3>3. QED
      BY <2>3, <3>1, <3>2 DEF SampleId, Memory, job
  <2>4. CASE SampleValue(a)
    <3>1. slot[a] \in Places /\ 0 \in 0 .. Cap + 1
      BY <1>4 DEF Memory, Places
    <3> DEFINE r == [of |-> VarOf(a), val |-> IF VarOf(a) = State THEN state ELSE 0]
    <3>2. r \in Readings
      BY <1>2, TelemetryAssumption DEF Memory, Readings, Ids, Values
    <3>3. [mods[slot[a]] EXCEPT !.val = r] \in Packets
      BY <3>1, <3>2, PacketWrites DEF Memory
    <3>4. QED
      BY <2>4, <3>1, <3>3 DEF SampleValue, Memory
  <2>5. QED
    BY <2>1, <2>2, <2>3, <2>4 DEF Sample
<1>6. QED
  BY <1>3, <1>5 DEF Memory

\* flightPrintTask and telemetry_send frame and describe packets of the buffer,
\* send what they have framed and move on to the next description.
LEMMA PrintTypes ==
    ASSUME TwoCores, TypeInv, NEW a \in Printers, PrintBegin(a) \/ PrintTask(a), ~Sample(a)
    PROVE  (Memory /\ MainLen /\ len["ctl"] = 0 /\ MainDesc /\ MainSamples)'
<1>1. a = "main" /\ "main" \in Actors /\ "ctl" \in Actors
  BY DEF TwoCores, Printers
<1>2. Shape /\ count \in 0 .. Cap + 2 /\ Cap \in Nat /\ Items \in Nat \ {0}
  BY TelemetryAssumption DEF TypeInv, BufferInv, HarmInv, Shape, Claims
<1>3. PrintVars \in Seq(Vars) /\ PrintVars # <<>> /\ SendVars \in Seq(Vars)
  BY TelemetryAssumption
<1>4. pos["main"] \in PositionSet /\ len \in [Actors -> Nat]
  BY <1>1, <1>2 DEF Shape
<1> USE <1>1, <1>2 DEF TypeInv, Memory, MainLen, MainDesc, MainSamples, At, Goto, Position,
        Shape, PositionSet, Idle, job, history
<1>5. CASE PrintBegin(a)
  BY <1>5, <1>3, SMTT(30) DEF PrintBegin
<1>6. CASE SendBegin(a)
  BY <1>6, <1>3, SMTT(30) DEF SendBegin, SampleEach
<1>7. CASE FrameOne(a)
  <2>0. pos["main"].at = "frame" /\ pos["main"].i < count
    BY <1>7 DEF FrameOne
  <2>1. pos["main"].i \in Places /\ len["main"] = pos["main"].i
    <3>1. pos["main"].i \in Nat
      BY <1>4
    <3>2. len["main"] = pos["main"].i
      BY <2>0
    <3>3. QED
      BY <2>0, <3>1, <3>2, SMTT(30) DEF Places
  <2>2. Framed(mods[pos["main"].i]) \in Packets
    BY <2>1, PacketWrites
  <2>3. mods' = [mods EXCEPT ![pos["main"].i] = Framed(mods[pos["main"].i])]
    BY <1>7 DEF FrameOne
  <2>4. mods' \in [Places -> Packets]
    BY <2>1, <2>2, <2>3
  <2>5. sampled' \in [Actors -> BOOLEAN]
    <3>1. sampled' = [sampled EXCEPT !["main"] = sampled["main"] \/ nextDesc = mods[pos["main"].i].id]
      BY <1>7 DEF FrameOne
    <3>2. QED
      BY <3>1, Zenon
  <2>6. pos'["main"].at = "frame" /\ pos'["main"].i = pos["main"].i + 1 /\ pos["main"].i < count
    BY <1>7 DEF FrameOne
  <2>7. len' = [len EXCEPT !["main"] = len["main"] + 1]
    BY <1>7 DEF FrameOne
  <2>8. UNCHANGED <<state, count, nextDesc, dma, slot, desc, shown>>
    BY <1>7 DEF FrameOne
  <2>9. Memory'
    BY <2>4, <2>5, <2>8
  <2>10. len' = [len EXCEPT !["main"] = pos["main"].i + 1] /\ pos["main"].i + 1 \in 0 .. Cap + 2
    BY <1>4, <2>1, <2>6, <2>7
  <2>11. len'["main"] = pos["main"].i + 1 /\ len'["ctl"] = 0
    BY <1>4, <2>10
  <2>12. MainDesc' /\ MainSamples'
    BY <2>6, <2>8
  <2>13. MainLen'
    BY <2>6, <2>10, <2>11
  <2>14. QED
    BY <2>9, <2>11, <2>12, <2>13
<1>8. CASE FrameEnd(a)
  BY <1>8 DEF FrameEnd
<1>9. CASE ChooseDesc(a)
  BY <1>9 DEF ChooseDesc, MoreDescs
<1>10. CASE RestartDescs(a)
  BY <1>10 DEF RestartDescs
<1>11. CASE Lookup(a)
  BY <1>11 DEF Lookup
<1>12. CASE Reframe(a)
  <2>1. count - 1 \in Places
    BY DEF Places
  <2>2. Framed(mods[count - 1]) \in Packets
    BY <2>1, PacketWrites
  <2>3. mods' = [mods EXCEPT ![count - 1] = Framed(mods[count - 1])]
    BY <1>12 DEF Reframe
  <2>4. mods' \in [Places -> Packets]
    BY <2>1, <2>2, <2>3
  <2>5. QED
    BY <1>4, <1>12, <2>4 DEF Reframe
<1>13. CASE Describe(a)
  <2>1. len["main"] \in Places /\ desc["main"] + 1 \in Vars
    <3>1. pos["main"].at = "describe"
      BY <1>13 DEF Describe
    <3>2. len["main"] <= Cap + 3 /\ desc["main"] = nextDesc /\ nextDesc < Items
      BY <3>1
    <3>3. len["main"] \in Nat /\ nextDesc \in Nat
      BY <1>4
    <3>4. QED
      BY <3>2, <3>3 DEF Places, Vars
  <2>2. Description(desc["main"] + 1) \in Packets
    BY <2>1, PacketWrites
  <2>3. mods' = [mods EXCEPT ![len["main"]] = Description(desc["main"] + 1)]
    BY <1>13 DEF Describe
  <2>4. mods' \in [Places -> Packets]
    BY <2>1, <2>2, <2>3
  <2>5. QED
    BY <1>4, <1>13, <2>4 DEF Describe
<1>14. CASE NextDesc(a)
  BY <1>14 DEF NextDesc, Advanced
<1>15. CASE NativeBusy(a)
  BY <1>15 DEF NativeBusy, AfterNative
<1>16. CASE Trigger(a)
  BY <1>16 DEF Trigger
<1>17. CASE ResetCount(a)
  BY <1>17 DEF ResetCount
<1>18. QED
  BY <1>5, <1>6, <1>7, <1>8, <1>9, <1>10, <1>11, <1>12, <1>13, <1>14, <1>15, <1>16, <1>17
     DEF PrintTask

\* The types and where core 0 is, for every buffer and every list of variables.
LEMMA TypesKept == ASSUME TwoCores PROVE Spec => []TypeInv
<1>1. Init => TypeInv
  <2> SUFFICES ASSUME Init PROVE TypeInv
    OBVIOUS
  <2>1. BufferInv
    BY InitHarm, TelemetryAssumption DEF Init, BufferInv, Claims, TwoCores, Idle, Position
  <2>2. 0 \in Values /\ Cap \in Nat /\ Items \in Nat
    BY TelemetryAssumption DEF Values
  <2>3. QED
    BY <2>1, <2>2, PacketWrites DEF Init, TypeInv, Memory, MainLen, MainDesc, MainSamples, Still,
       TwoCores, Idle, Position
<1>2. TypeInv /\ BufferInv' /\ [Next]_vars => TypeInv'
  <2> SUFFICES ASSUME TypeInv, BufferInv', [Next]_vars PROVE TypeInv'
    OBVIOUS
  <2>1. Shape
    BY DEF TypeInv, BufferInv, HarmInv
  <2>2. CASE ChangeState
    <3>1. pos'["main"] = pos["main"]
      BY <2>1, <2>2 DEF ChangeState, Goto, Shape, TwoCores
    <3>2. state' \in Values
      BY <2>2, TelemetryAssumption DEF ChangeState, TypeInv, Memory, Values
    <3>3. QED
      BY <2>2, <3>1, <3>2 DEF ChangeState, TypeInv, Memory, MainLen, MainDesc, MainSamples,
         job, history
  <2>3. CASE DmaPacket
    <3>1. dma.at \in Places /\ Cap \in Nat
      BY <2>1, <2>3, TelemetryAssumption DEF DmaPacket, Sending, TypeInv, Memory, Shape, Places
    <3>2. shown' \in Values
      BY <2>3, <3>1 DEF DmaPacket, Current, TypeInv, Memory, Packets, Readings
    <3>3. QED
      BY <2>1, <2>3, <3>1, <3>2 DEF DmaPacket, Still, Sending, Shape, TypeInv, Memory, MainLen,
         MainDesc, MainSamples, job
  <2>4. ASSUME NEW a \in Actors, Sample(a) PROVE TypeInv'
    BY <2>1, <2>4, SampleGoes, SampleProgress, SampleMemory DEF TypeInv
  <2>5. ASSUME NEW a \in Printers, PrintBegin(a) \/ PrintTask(a) PROVE TypeInv'
    BY <2>4, <2>5, ActorFacts, PrintTypes DEF TypeInv
  <2>6. CASE UNCHANGED vars
    BY <2>6 DEF vars, TypeInv, Memory, MainLen, MainDesc, MainSamples, job, history
  <2>7. QED
    BY <2>2, <2>3, <2>4, <2>5, <2>6, ActorFacts DEF Next, TwoCores
<1>3. QED
  BY <1>1, <1>2, ClaimsBounded, PTL DEF Spec

\* TypeOK with both cores: in particular no count, no claimed packet and no
\* length passes the end of the buffer by more than what StaysInBuffer allows
\* and a description behind it, and nextDesc never names a variable that is not
\* registered.
THEOREM TypeCorrect == ASSUME TwoCores PROVE Spec => []TypeOK
<1>1. TypeInv => TypeOK
  <2> SUFFICES ASSUME TypeInv PROVE TypeOK
    OBVIOUS
  <2>1. Shape /\ Claims /\ preempted = "no" /\ Memory /\ MainLen /\ len["ctl"] = 0 /\ MainDesc
    BY DEF TypeInv, BufferInv, HarmInv
  <2>2. Cap \in Nat /\ Items \in Nat
    BY TelemetryAssumption
  <2>3. state \in Values /\ count \in 0 .. Cap + 2 /\ nextDesc \in 0 .. Items + 1
    BY <2>1, <2>2 DEF Shape, Claims, Memory, MainDesc
  <2>4. /\ \A p \in Places :
            /\ mods[p].kind \in {"none", "data", "desc"} /\ mods[p].id \in Vars \cup {0}
            /\ mods[p].val \in [of : Vars \cup {0}, val : Values]
            /\ mods[p].crc = <<>> \/ mods[p].crc[1] \in Vars \cup {0}
        /\ DOMAIN mods = Places
    BY <2>1 DEF Memory, Packets, Readings, Ids
  <2>5. dma \in [at : 0 .. Cap + 3, left : 0 .. Cap + 4]
    BY <2>1, <2>2 DEF Shape, Memory
  <2>6. \A a \in Actors : pos[a].at \in Ats /\ pos[a].step \in Steps /\ pos[a].i \in Nat
    BY <2>1 DEF Shape, PositionSet
  <2>7. len \in [Actors -> 0 .. Cap + 4] /\ desc \in [Actors -> 0 .. Items + 1]
    BY <2>1, <2>2 DEF TwoCores, Shape, MainLen, MainDesc
  <2>8. slot \in [Actors -> 0 .. Cap + 1] /\ sampled \in [Actors -> BOOLEAN] /\ shown \in Values
    BY <2>1 DEF Memory
  <2>9. QED
    BY <2>1, <2>3, <2>4, <2>5, <2>6, <2>7, <2>8 DEF TypeOK
<1>2. QED
  BY <1>1, TypesKept, PTL

=============================================================================
