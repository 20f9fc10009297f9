---------------------------- MODULE Gyro_proofs ----------------------------
(***************************************************************************)
(* Theorems about Gyro, for every number of calibration samples, of axes   *)
(* and of reads that end before the callback is registered.                *)
(***************************************************************************)
EXTENDS Gyro, TLAPS

Registering == pc["thread"] # "run"

\* A handler that goes on to start a read has found room for it.
TypeInv ==
    /\ TypeOK
    /\ pc \in [Actors -> ThreadPcs \cup UpdatePcs \cup IsrPcs]
    /\ pc["isr"] \in {"tx", "rx", "start"} /\ Registering => early < MaxEarly

----------------------------------------------------------------------------
(* Why the calibration cannot end before the callback is registered. *)

InFlight == IF rxLeft > 0 THEN 1 ELSE 0
Pending == IF irq THEN 1 ELSE 0
Uncounted == IF pc["isr"] = "count" THEN 1 ELSE 0

\* The most samples the interrupt can have counted: merged interrupts and a
\* restarted counter only make it fewer.
Served == early - InFlight - Pending - Uncounted

\* Until the callback is registered the state machine is behind the samples:
\* the one that boots it is not added, so Samples of them do not get past
\* CAL_COLLECT; if the thread boots it, they do, and none is left.
Behind ==
    Registering =>
        /\ state # "READY"
        /\ count <= Served
        /\ pc["isr"] \in UpdatePcs => Served >= 1
        /\ state = "CAL_COMPLETE" \/ pc["isr"] = "done" => Served >= Samples
        /\ pc["isr"] \notin {"zero", "subtract", "callback"}
        /\ pc["isr"] = "switch" => state # "CAL_COMPLETE"
        /\ pc["isr"] = "boot" => state = "BOOT"
        /\ pc["isr"] \in {"collect", "done"} => state = "CAL_COLLECT"

\* Where the thread is: a state machine it did not boot was booted by a sample.
ThreadBehind ==
    /\ pc["thread"] \notin {"done", "zero", "subtract", "callback"}
    /\ pc["thread"] \in {"enable", "switch", "collect", "add", "sum"} =>
        /\ state \in {"BOOT", "CAL_COLLECT"}
        /\ state = "CAL_COLLECT" =>
            /\ pc["isr"] # "reset" => count <= Served - 1
            /\ pc["isr"] # "done"
    /\ pc["thread"] \in {"collect", "add", "sum"} => state = "CAL_COLLECT"
    /\ pc["thread"] = "run" => backup /\ complete
    /\ pc["thread"] = "complete" => backup

----------------------------------------------------------------------------
(* Why the control loop sees one whole sample. *)

Serving == {"count", "switch", "subtract", "callback"}

\* Unless it was started in the gap, a read ends before anything else happens
\* to its sample, and nothing is read while it is being served.
Whole ==
    ~overlapped =>
        /\ rxLeft > 0 => ~irq /\ pc["isr"] \notin Serving
        /\ irq => pc["isr"] \notin Serving
        /\ rxLeft > 0 \/ irq \/ pc["isr"] \in Serving =>
            \A x \in AxisIds : x <= Axes - rxLeft =>
                raw[x] = [read |-> reading,
                          zeroed |-> IF pc["isr"] = "callback" THEN 1 ELSE 0]

----------------------------------------------------------------------------
(* How many samples have been summed. *)

\* The sample the interrupt has counted and not added yet.
Ahead == IF pc["isr"] \in {"switch", "collect", "done", "add", "sum"} THEN 1 ELSE 0

\* Until the thread has run its part of the state machine the interrupt adds
\* what it counts; what it had added when the thread resets the count, or when
\* the thread stores an older sum, is at most what it has served.
AddedEarly ==
    pc["thread"] \notin {"backup", "complete", "run"} =>
        /\ averaged + Ahead <= Served
        /\ pc["thread"] = "sum" => tmp["thread"] \in 0 .. averaged
        /\ pc["thread"] = "reset" => state # "BOOT"
        /\ pc["thread"] # "reset" =>
            /\ state = "BOOT" \/ pc["isr"] = "reset" => averaged = 0
            /\ state = "CAL_COLLECT" /\ pc["isr"] # "reset" =>
                averaged = count - Ahead /\ averaged < Samples

\* From then on every sample but the last is added once.
Added ==
    pc["thread"] \in {"backup", "complete", "run"} =>
        /\ state # "BOOT" /\ pc["isr"] \notin {"boot", "reset"}
        /\ state = "CAL_COLLECT" =>
            /\ averaged - (count - Ahead) \in 0 - early .. early
            /\ count - Ahead < Samples
        /\ state \in {"CAL_COMPLETE", "READY"} =>
            averaged \in Samples - 1 - early .. Samples - 1 + early

\* The interrupt adds to the sum it has loaded, and is done with the last sample.
Adding ==
    /\ pc["isr"] \in {"collect", "add", "sum", "done"} => state = "CAL_COLLECT"
    /\ pc["isr"] \in {"add", "sum"} => count < Samples
    /\ pc["isr"] = "sum" => tmp["isr"] = averaged
    /\ pc["isr"] = "done" => count = Samples
    /\ pc["isr"] = "zero" => state = "CAL_COMPLETE"

Summing == AddedEarly /\ Added /\ Adding

IInv == TypeInv /\ Behind /\ ThreadBehind /\ Whole /\ Summing

----------------------------------------------------------------------------
(* Types. *)

\* Every step keeps the types.
LEMMA TypeStep ==
    ASSUME TypeInv, [Next]_vars
    PROVE  TypeInv'
<1> USE GyroAssumption DEF TypeInv, TypeOK, States, AxisIds,
        Registering, Actors, UpdatePcs, ThreadPcs, IsrPcs, At, Goto, Runs, After,
        dma, cal, callbacks, history, Acked, Counted, Restarted, CalResult
<1>1. CASE DataReady
  BY <1>1 DEF DataReady
<1>2. CASE TxWord
  BY <1>2 DEF TxWord
<1>3. CASE RxWord
  BY <1>3 DEF RxWord
<1>4. CASE IrqGpio
  BY <1>4 DEF IrqGpio
<1>5. CASE TestBusy("tx", txLeft, "rx")
  BY <1>5 DEF TestBusy
<1>6. CASE TestBusy("rx", rxLeft, "start")
  BY <1>6 DEF TestBusy
<1>7. CASE StartRead
  BY <1>7 DEF StartRead
<1>8. CASE IrqDma
  BY <1>8 DEF IrqDma
<1>9. CASE CountSample
  BY <1>9 DEF CountSample
<1>10. CASE EnableIrq
  BY <1>10 DEF EnableIrq
<1>11. CASE SetBackup
  BY <1>11 DEF SetBackup
<1>12. CASE SetComplete
  BY <1>12 DEF SetComplete
<1>13. ASSUME NEW a \in Actors, UpdateSwitch(a) PROVE TypeInv'
  BY <1>13 DEF UpdateSwitch
<1>14. ASSUME NEW a \in Actors, UpdateBoot(a) PROVE TypeInv'
  BY <1>14 DEF UpdateBoot
<1>15. ASSUME NEW a \in Actors, UpdateReset(a) PROVE TypeInv'
  BY <1>15 DEF UpdateReset
<1>16. ASSUME NEW a \in Actors, UpdateCollect(a) PROVE TypeInv'
  BY <1>16 DEF UpdateCollect
<1>17. ASSUME NEW a \in Actors, UpdateDone(a) PROVE TypeInv'
  BY <1>17 DEF UpdateDone
<1>18. ASSUME NEW a \in Actors, UpdateAdd(a) PROVE TypeInv'
  BY <1>18 DEF UpdateAdd
<1>19. ASSUME NEW a \in Actors, UpdateSum(a) PROVE TypeInv'
  BY <1>19 DEF UpdateSum
<1>20. ASSUME NEW a \in Actors, UpdateZero(a) PROVE TypeInv'
  BY <1>20 DEF UpdateZero
<1>21. ASSUME NEW a \in Actors, UpdateSubtract(a) PROVE TypeInv'
  <2>1. /\ UNCHANGED <<edge, irq, txLeft, rxLeft, cal, callbacks, reading, history>>
        /\ pc[a] = "subtract" /\ pc' = [pc EXCEPT ![a] = "callback"]
    BY <1>21 DEF UpdateSubtract
  <2>2. ASSUME NEW x \in AxisIds
        PROVE  [raw[x] EXCEPT !.zeroed = IF @ < 2 THEN @ + 1 ELSE @]
                    \in [read : {0, 1}, zeroed : 0 .. 2]
    <3>1. PICK r \in {0, 1}, z \in 0 .. 2 : raw[x] = [read |-> r, zeroed |-> z]
      OBVIOUS
    <3>2. [raw[x] EXCEPT !.zeroed = IF @ < 2 THEN @ + 1 ELSE @]
            = [read |-> r, zeroed |-> IF z < 2 THEN z + 1 ELSE z]
      BY <3>1
    <3>3. QED
      BY <3>2
  <2>3. raw' \in [AxisIds -> [read : {0, 1}, zeroed : 0 .. 2]]
    BY <1>21, <2>2 DEF UpdateSubtract
  <2>4. QED
    BY <2>1, <2>3
<1>22. ASSUME NEW a \in Actors, UpdateCallback(a) PROVE TypeInv'
  BY <1>22 DEF UpdateCallback
<1>23. CASE UNCHANGED vars
  BY <1>23 DEF vars
<1>24. QED
  BY <1>1, <1>2, <1>3, <1>4, <1>5, <1>6, <1>7, <1>8, <1>9, <1>10, <1>11, <1>12, <1>13, <1>14, <1>15, <1>16, <1>17, <1>18, <1>19, <1>20, <1>21, <1>22, <1>23
    DEF Next, Isr, Thread, DataReadyHandler, UpdateState

----------------------------------------------------------------------------
(* The callback. *)

\* The state machine stays behind the samples.
LEMMA BehindStep ==
    ASSUME TypeInv, Behind, ThreadBehind, [Next]_vars
    PROVE  (Behind /\ ThreadBehind)'
<1> USE GyroAssumption DEF TypeInv, TypeOK, Behind, ThreadBehind, Served, InFlight, Pending, Uncounted,
        States, Registering, Actors, UpdatePcs, ThreadPcs, IsrPcs, At, Goto, Runs, After,
        dma, cal, callbacks, history,
        Acked, Counted, Restarted, CalResult, Collected
<1>1. CASE DataReady
  BY <1>1 DEF DataReady
<1>2. CASE TxWord
  BY <1>2 DEF TxWord
<1>3. CASE RxWord
  BY <1>3 DEF RxWord
<1>4. CASE IrqGpio
  BY <1>4 DEF IrqGpio
<1>5. CASE TestBusy("tx", txLeft, "rx")
  BY <1>5 DEF TestBusy
<1>6. CASE TestBusy("rx", rxLeft, "start")
  BY <1>6 DEF TestBusy
<1>7. CASE StartRead
  BY <1>7 DEF StartRead
<1>8. CASE IrqDma
  BY <1>8 DEF IrqDma
<1>9. CASE CountSample
  BY <1>9 DEF CountSample
<1>10. CASE EnableIrq
  BY <1>10 DEF EnableIrq
<1>11. CASE SetBackup
  BY <1>11 DEF SetBackup
<1>12. CASE SetComplete
  BY <1>12 DEF SetComplete
<1>13. ASSUME NEW a \in Actors, UpdateSwitch(a) PROVE (Behind /\ ThreadBehind)'
  BY <1>13 DEF UpdateSwitch
<1>14. ASSUME NEW a \in Actors, UpdateBoot(a) PROVE (Behind /\ ThreadBehind)'
  BY <1>14 DEF UpdateBoot
<1>15. ASSUME NEW a \in Actors, UpdateReset(a) PROVE (Behind /\ ThreadBehind)'
  BY <1>15 DEF UpdateReset
<1>16. ASSUME NEW a \in Actors, UpdateCollect(a) PROVE (Behind /\ ThreadBehind)'
  BY <1>16 DEF UpdateCollect
<1>17. ASSUME NEW a \in Actors, UpdateDone(a) PROVE (Behind /\ ThreadBehind)'
  BY <1>17 DEF UpdateDone
<1>18. ASSUME NEW a \in Actors, UpdateAdd(a) PROVE (Behind /\ ThreadBehind)'
  BY <1>18 DEF UpdateAdd
<1>19. ASSUME NEW a \in Actors, UpdateSum(a) PROVE (Behind /\ ThreadBehind)'
  BY <1>19 DEF UpdateSum
<1>20. ASSUME NEW a \in Actors, UpdateZero(a) PROVE (Behind /\ ThreadBehind)'
  BY <1>20 DEF UpdateZero
<1>21. ASSUME NEW a \in Actors, UpdateSubtract(a) PROVE (Behind /\ ThreadBehind)'
  BY <1>21 DEF UpdateSubtract
<1>22. ASSUME NEW a \in Actors, UpdateCallback(a) PROVE (Behind /\ ThreadBehind)'
  BY <1>22 DEF UpdateCallback
<1>23. CASE UNCHANGED vars
  BY <1>23 DEF vars
<1>24. QED
  BY <1>1, <1>2, <1>3, <1>4, <1>5, <1>6, <1>7, <1>8, <1>9, <1>10, <1>11, <1>12, <1>13, <1>14, <1>15, <1>16, <1>17, <1>18, <1>19, <1>20, <1>21, <1>22, <1>23
    DEF Next, Isr, Thread, DataReadyHandler, UpdateState

----------------------------------------------------------------------------
(* One whole sample. *)

\* A read that was not started in the gap stays whole until it is used.
LEMMA WholeStep ==
    ASSUME TypeInv, Behind, ThreadBehind, Whole, [Next]_vars
    PROVE  Whole'
<1> USE GyroAssumption DEF TypeInv, TypeOK, ThreadBehind, Whole, Serving, AxisIds,
        Registering, Actors, UpdatePcs, ThreadPcs, IsrPcs, At, Goto, Runs, After,
        dma, cal, callbacks, history, Acked
<1>1. CASE DataReady
  BY <1>1 DEF DataReady
<1>2. CASE TxWord
  BY <1>2 DEF TxWord
<1>3. CASE RxWord
  BY <1>3 DEF RxWord
<1>4. CASE IrqGpio
  BY <1>4 DEF IrqGpio
<1>5. CASE TestBusy("tx", txLeft, "rx")
  BY <1>5 DEF TestBusy
<1>6. CASE TestBusy("rx", rxLeft, "start")
  BY <1>6 DEF TestBusy
<1>7. CASE StartRead
  BY <1>7 DEF StartRead
<1>8. CASE IrqDma
  BY <1>8 DEF IrqDma
<1>9. CASE CountSample
  BY <1>9 DEF CountSample
<1>10. CASE EnableIrq
  BY <1>10 DEF EnableIrq
<1>11. CASE SetBackup
  BY <1>11 DEF SetBackup
<1>12. CASE SetComplete
  BY <1>12 DEF SetComplete
<1>13. ASSUME NEW a \in Actors, UpdateSwitch(a) PROVE Whole'
  BY <1>13 DEF UpdateSwitch
<1>14. ASSUME NEW a \in Actors, UpdateBoot(a) PROVE Whole'
  BY <1>14 DEF UpdateBoot
<1>15. ASSUME NEW a \in Actors, UpdateReset(a) PROVE Whole'
  BY <1>15 DEF UpdateReset
<1>16. ASSUME NEW a \in Actors, UpdateCollect(a) PROVE Whole'
  BY <1>16 DEF UpdateCollect
<1>17. ASSUME NEW a \in Actors, UpdateDone(a) PROVE Whole'
  BY <1>17 DEF UpdateDone
<1>18. ASSUME NEW a \in Actors, UpdateAdd(a) PROVE Whole'
  BY <1>18 DEF UpdateAdd
<1>19. ASSUME NEW a \in Actors, UpdateSum(a) PROVE Whole'
  BY <1>19 DEF UpdateSum
<1>20. ASSUME NEW a \in Actors, UpdateZero(a) PROVE Whole'
  BY <1>20 DEF UpdateZero
<1>21. ASSUME NEW a \in Actors, UpdateSubtract(a) PROVE Whole'
  BY <1>21, SMTT(30) DEF UpdateSubtract
<1>22. ASSUME NEW a \in Actors, UpdateCallback(a) PROVE Whole'
  BY <1>22 DEF UpdateCallback
<1>23. CASE UNCHANGED vars
  BY <1>23 DEF vars
<1>24. QED
  BY <1>1, <1>2, <1>3, <1>4, <1>5, <1>6, <1>7, <1>8, <1>9, <1>10, <1>11, <1>12, <1>13, <1>14, <1>15, <1>16, <1>17, <1>18, <1>19, <1>20, <1>21, <1>22, <1>23
    DEF Next, Isr, Thread, DataReadyHandler, UpdateState

----------------------------------------------------------------------------
(* What is summed. *)

\* The sum stays as far from the count as the early reads can put it.
LEMMA SummingStep ==
    ASSUME TypeInv, Behind, ThreadBehind, Summing, [Next]_vars
    PROVE  Summing'
<1> USE GyroAssumption DEF TypeInv, TypeOK, Behind, ThreadBehind, Served, InFlight, Pending,
        Uncounted, Summing, AddedEarly, Added, Adding, Ahead, States,
        Registering, Actors, UpdatePcs, ThreadPcs, IsrPcs, At, Goto, Runs, After,
        dma, cal, callbacks, history, Acked, Counted, Restarted, CalResult, Collected
<1>1. CASE DataReady
  BY <1>1 DEF DataReady
<1>2. CASE TxWord
  BY <1>2 DEF TxWord
<1>3. CASE RxWord
  BY <1>3 DEF RxWord
<1>4. CASE IrqGpio
  BY <1>4 DEF IrqGpio
<1>5. CASE TestBusy("tx", txLeft, "rx")
  BY <1>5 DEF TestBusy
<1>6. CASE TestBusy("rx", rxLeft, "start")
  BY <1>6 DEF TestBusy
<1>7. CASE StartRead
  BY <1>7 DEF StartRead
<1>8. CASE IrqDma
  BY <1>8 DEF IrqDma
<1>9. CASE CountSample
  BY <1>9 DEF CountSample
<1>10. CASE EnableIrq
  BY <1>10 DEF EnableIrq
<1>11. CASE SetBackup
  BY <1>11 DEF SetBackup
<1>12. CASE SetComplete
  BY <1>12 DEF SetComplete
<1>13. ASSUME NEW a \in Actors, UpdateSwitch(a) PROVE Summing'
  BY <1>13 DEF UpdateSwitch
<1>14. ASSUME NEW a \in Actors, UpdateBoot(a) PROVE Summing'
  BY <1>14 DEF UpdateBoot
<1>15. ASSUME NEW a \in Actors, UpdateReset(a) PROVE Summing'
  BY <1>15 DEF UpdateReset
<1>16. ASSUME NEW a \in Actors, UpdateCollect(a) PROVE Summing'
  BY <1>16 DEF UpdateCollect
<1>17. ASSUME NEW a \in Actors, UpdateDone(a) PROVE Summing'
  BY <1>17 DEF UpdateDone
<1>18. ASSUME NEW a \in Actors, UpdateAdd(a) PROVE Summing'
  BY <1>18 DEF UpdateAdd
<1>19. ASSUME NEW a \in Actors, UpdateSum(a) PROVE Summing'
  <2>1. CASE a = "isr"
    BY <1>19, <2>1, SMTT(30) DEF UpdateSum
  <2>2. CASE a = "thread"
    BY <1>19, <2>2, SMTT(30) DEF UpdateSum
  <2>3. QED
    BY <2>1, <2>2
<1>20. ASSUME NEW a \in Actors, UpdateZero(a) PROVE Summing'
  BY <1>20 DEF UpdateZero
<1>21. ASSUME NEW a \in Actors, UpdateSubtract(a) PROVE Summing'
  BY <1>21 DEF UpdateSubtract
<1>22. ASSUME NEW a \in Actors, UpdateCallback(a) PROVE Summing'
  BY <1>22 DEF UpdateCallback
<1>23. CASE UNCHANGED vars
  BY <1>23 DEF vars
<1>24. QED
  BY <1>1, <1>2, <1>3, <1>4, <1>5, <1>6, <1>7, <1>8, <1>9, <1>10, <1>11, <1>12, <1>13, <1>14, <1>15, <1>16, <1>17, <1>18, <1>19, <1>20, <1>21, <1>22, <1>23
    DEF Next, Isr, Thread, DataReadyHandler, UpdateState

----------------------------------------------------------------------------
(* Theorems. *)

\* The inductive invariant of the gyro pipeline.
THEOREM Invariance == Spec => []IInv
<1>1. Init => IInv
  <2> SUFFICES ASSUME Init PROVE IInv
    OBVIOUS
  <2> USE GyroAssumption DEF Init, Actors, Registering, UpdatePcs, ThreadPcs, IsrPcs
  <2>1. TypeInv
    <3>1. raw \in [AxisIds -> [read : {0, 1}, zeroed : 0 .. 2]]
      OBVIOUS
    <3>2. pc \in [Actors -> ThreadPcs \cup UpdatePcs \cup IsrPcs]
      OBVIOUS
    <3>3. tmp \in [Actors -> Nat]
      OBVIOUS
    <3>4. pc["thread"] = "enable" /\ pc["isr"] = "idle"
      OBVIOUS
    <3>5. txLeft \in 0 .. Axes /\ rxLeft \in txLeft .. Axes /\ count \in 0 .. Samples
      OBVIOUS
    <3>6. /\ edge \in BOOLEAN /\ irq \in BOOLEAN /\ backup \in BOOLEAN
          /\ complete \in BOOLEAN /\ overlapped \in BOOLEAN
      OBVIOUS
    <3>7. early \in 0 .. MaxEarly /\ reading \in {0, 1} /\ averaged \in Nat
      OBVIOUS
    <3>8. state \in States
      BY DEF States
    <3>9. TypeOK
      BY <3>1, <3>3, <3>4, <3>5, <3>6, <3>7, <3>8 DEF TypeOK
    <3>10. QED
      BY <3>2, <3>4, <3>9 DEF TypeInv
  <2>2. Behind /\ ThreadBehind
    BY DEF Behind, ThreadBehind, Served, InFlight, Pending, Uncounted
  <2>3. Whole
    BY DEF Whole, Serving
  <2>4. Summing
    BY DEF Summing, AddedEarly, Added, Adding, Ahead, Served, InFlight, Pending, Uncounted
  <2>5. QED
    BY <2>1, <2>2, <2>3, <2>4 DEF IInv
<1>2. IInv /\ [Next]_vars => IInv'
  BY TypeStep, BehindStep, WholeStep, SummingStep DEF IInv
<1>3. QED
  BY <1>1, <1>2, PTL DEF Spec

\* TypeOK: the variables of the gyro pipeline keep their types.
THEOREM TypeCorrect == Spec => []TypeOK
<1>1. IInv => TypeOK
  BY DEF IInv, TypeInv
<1>2. QED
  BY <1>1, Invariance, PTL

\* CallbackRegistered: gyroUpdateState finds the callback set whenever it is
\* about to call it, though the interrupts are enabled before it is set.
THEOREM Registered == Spec => []CallbackRegistered
<1>1. IInv => CallbackRegistered
  BY DEF IInv, Behind, ThreadBehind, Registering, CallbackRegistered, Actors
<1>2. QED
  BY <1>1, Invariance, PTL

\* ControlsOnWholeSample: the control loop is handed one sample, all of it
\* read by the last read and zeroed once.
THEOREM WholeSample == Spec => []ControlsOnWholeSample
<1>1. IInv => ControlsOnWholeSample
  <2> SUFFICES ASSUME IInv, pc["isr"] = "callback", ~overlapped, NEW x \in AxisIds
               PROVE  raw[x] = [read |-> reading, zeroed |-> 1]
    BY DEF ControlsOnWholeSample
  <2>1. rxLeft \in Nat /\ ~(rxLeft > 0)
    BY GyroAssumption DEF IInv, Whole, Serving, TypeInv, TypeOK
  <2>2. x <= Axes - rxLeft
    BY <2>1, GyroAssumption DEF AxisIds
  <2>3. QED
    BY <2>2 DEF IInv, Whole, Serving
<1>2. QED
  BY <1>1, Invariance, PTL

\* EarlyReadsCostOneEach: the number of samples summed is off by the early reads
\* at most, for every number of samples.
THEOREM EarlyReads == Spec => []EarlyReadsCostOneEach
<1>1. IInv => EarlyReadsCostOneEach
  <2> SUFFICES ASSUME IInv, state = "READY"
               PROVE  averaged \in Samples - 1 - early .. Samples + early
    BY DEF EarlyReadsCostOneEach
  <2>1. pc["thread"] = "run"
    BY DEF IInv, Behind, Registering
  <2>2. averaged \in Samples - 1 - early .. Samples - 1 + early
    BY <2>1 DEF IInv, Summing, Added
  <2>3. QED
    BY <2>2, GyroAssumption, SMT DEF IInv, TypeInv, TypeOK
<1>2. QED
  BY <1>1, Invariance, PTL
=============================================================================
