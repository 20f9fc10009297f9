-------------------------------- MODULE Gyro --------------------------------
(***************************************************************************)
(* The gyro pipeline of devices/gyro/src/gyro_spi_mpu9250.c on core 1: the *)
(* data-ready interrupt starts a DMA read of the sensor, the interrupt     *)
(* that ends the read runs the calibration state machine and, once READY,  *)
(* the control loop.  The two interrupts have the same priority and do not *)
(* preempt each other; both preempt the thread, which is still inside      *)
(* gyroInit when they are enabled and runs the state machine once itself.  *)
(* The DMA engine and the sensor run beside all of them.                   *)
(*                                                                         *)
(* An axis is abstracted to the read that wrote it (its parity: a read     *)
(* writes every axis before the next one starts) and how often the zero    *)
(* value was subtracted from it; the calibration sum to the number of      *)
(* samples added to it.  pass is the constant 1, so retries never happen.  *)
(***************************************************************************)
EXTENDS Integers

CONSTANTS
    Samples,    \* tdv_gyro_cal_samples
    Axes,       \* words of one read
    MaxEarly    \* bound of the model: reads started before gyroInit's callback
                \* is registered; the board takes microseconds for what
                \* Samples + 1 reads at sample_rate take seconds for

ASSUME GyroAssumption ==
    /\ Samples \in Nat \ {0} /\ Axes \in Nat \ {0}
    /\ MaxEarly \in 0 .. Samples

VARIABLES
    edge,               \* the data-ready edge is latched
    irq,                \* the end of a read is pending in ints1
    txLeft, rxLeft,     \* words the two DMA channels have left
    raw,                \* s.gyro.raw_rates
    state, count,       \* tdv_gyro_state, tdv_gyro_sample_count (up to Samples)
    averaged, tmp,      \* samples summed in cal.avg; the value a += loaded
    backup, complete,   \* callbackBackup, s.completeCallback are set
    pc,                 \* the thread and the interrupt being served
    reading,            \* parity of the last started read
    early, overlapped   \* history, see below

dma == <<txLeft, rxLeft, raw>>
cal == <<state, count, averaged, tmp>>
callbacks == <<backup, complete>>
\* early: reads started before the callback was registered; overlapped: the
\* last read was started while the end of the one before was still pending.
history == <<early, overlapped>>
vars == <<edge, irq, dma, cal, callbacks, pc, reading, history>>

AxisIds == 1 .. Axes
Actors == {"thread", "isr"}
States == {"BOOT", "CAL_COLLECT", "CAL_COMPLETE", "READY"}
UpdatePcs == {"switch", "boot", "reset", "collect", "done", "add", "sum", "zero",
              "subtract", "callback"}
ThreadPcs == {"enable", "backup", "complete", "run"}
IsrPcs == {"idle", "tx", "rx", "start", "count"}

\* What an actor does once its gyroUpdateState returns.
After(a) == IF a = "thread" THEN "backup" ELSE "idle"
\* An interrupt holds the core until it returns.
Runs(a) == a = "thread" => pc["isr"] = "idle"
Goto(a, l) == pc' = [pc EXCEPT ![a] = l]
At(a, l) == pc[a] = l /\ Runs(a)

Init ==
    /\ edge = FALSE /\ irq = FALSE
    /\ txLeft = 0 /\ rxLeft = 0
    /\ raw = [x \in AxisIds |-> [read |-> 0, zeroed |-> 0]]
    /\ state = "BOOT" /\ count = 0 /\ averaged = 0 /\ tmp = [a \in Actors |-> 0]
    /\ backup = FALSE /\ complete = FALSE
    /\ pc = [thread |-> "enable", isr |-> "idle"]
    /\ reading = 0
    /\ early = 0 /\ overlapped = FALSE

----------------------------------------------------------------------------
(* Mutants: forms a plausible bug would give the definitions below.        *)

AckForgotten == irq
CollectedAtOnce == TRUE
CalResultFail == "FAIL"
CollectedStrictly == count > Samples - 2

----------------------------------------------------------------------------
(* Hardware. *)

\* The sensor raises data ready on every sample, whether or not it was read.
DataReady ==
    /\ pc["thread"] # "enable"
    /\ edge' = TRUE
    /\ UNCHANGED <<irq, dma, cal, callbacks, pc, reading, history>>

TxWord ==
    /\ txLeft > 0
    /\ txLeft' = txLeft - 1
    /\ UNCHANGED <<edge, irq, rxLeft, raw, cal, callbacks, pc, reading, history>>

\* A word comes back for each word sent; the last one raises the interrupt.
RxWord ==
    /\ rxLeft > txLeft
    /\ raw' = [raw EXCEPT ![Axes - rxLeft + 1] = [read |-> reading, zeroed |-> 0]]
    /\ rxLeft' = rxLeft - 1
    /\ irq' = (irq \/ rxLeft = 1)
    /\ UNCHANGED <<edge, txLeft, cal, callbacks, pc, reading, history>>

----------------------------------------------------------------------------
(* gyro_data_ready_handler. *)

\* Of two pending interrupts of one priority the NVIC serves the lower number
\* first: DMA_IRQ_1 (12) before IO_IRQ_BANK0 (13).
IrqGpio ==
    /\ pc["isr"] = "idle" /\ edge /\ ~irq
    /\ pc["thread"] # "run" => early < MaxEarly
    /\ edge' = FALSE
    /\ Goto("isr", "tx")
    /\ UNCHANGED <<irq, dma, cal, callbacks, reading, history>>

\* if (dma_channel_is_busy(...)) return; for one channel, then the other
TestBusy(at, left, next) ==
    /\ pc["isr"] = at
    /\ Goto("isr", IF left > 0 THEN "idle" ELSE next)
    /\ UNCHANGED <<edge, irq, dma, cal, callbacks, reading, history>>

StartRead ==
    /\ pc["isr"] = "start"
    /\ txLeft' = Axes /\ rxLeft' = Axes
    /\ reading' = 1 - reading
    /\ overlapped' = irq
    /\ early' = IF pc["thread"] # "run" THEN early + 1 ELSE early
    /\ Goto("isr", "idle")
    /\ UNCHANGED <<edge, irq, raw, cal, callbacks>>

DataReadyHandler == \/ IrqGpio \/ TestBusy("tx", txLeft, "rx")
                    \/ TestBusy("rx", rxLeft, "start") \/ StartRead

----------------------------------------------------------------------------
(* dma_complete_handler and gyroUpdate. *)

\* dma_hw->ints1 = mask clears the interrupt.
Acked == FALSE

IrqDma ==
    /\ pc["isr"] = "idle" /\ irq
    /\ irq' = Acked
    /\ Goto("isr", "count")
    /\ UNCHANGED <<edge, dma, cal, callbacks, reading, history>>

\* ++tdv_gyro_sample_count: only whether it reached Samples is ever read.
Counted == IF count < Samples THEN count + 1 ELSE count

CountSample ==
    /\ pc["isr"] = "count"
    /\ count' = Counted
    /\ Goto("isr", "switch")
    /\ UNCHANGED <<edge, irq, dma, state, averaged, tmp, callbacks, reading, history>>

----------------------------------------------------------------------------
(* gyroUpdateState, by the interrupt or, once, by the thread. *)

UpdateSwitch(a) ==
    /\ At(a, "switch")
    /\ Goto(a, CASE state = "BOOT" -> "boot"
                 [] state = "CAL_COLLECT" -> "collect"
                 [] state = "CAL_COMPLETE" -> "zero"
                 [] state = "READY" -> "subtract"
                 [] OTHER -> After(a))
    /\ UNCHANGED <<edge, irq, dma, cal, callbacks, reading, history>>

UpdateBoot(a) ==
    /\ At(a, "boot")
    /\ state' = "CAL_COLLECT"
    /\ Goto(a, "reset")
    /\ UNCHANGED <<edge, irq, dma, count, averaged, tmp, callbacks, reading, history>>

Restarted == 0      \* tdv_gyro_sample_count = 0

UpdateReset(a) ==
    /\ At(a, "reset")
    /\ count' = Restarted
    /\ Goto(a, After(a))
    /\ UNCHANGED <<edge, irq, dma, state, averaged, tmp, callbacks, reading, history>>

Collected == count >= Samples

UpdateCollect(a) ==
    /\ At(a, "collect")
    /\ Goto(a, IF Collected THEN "done" ELSE "add")
    /\ UNCHANGED <<edge, irq, dma, cal, callbacks, reading, history>>

UpdateDone(a) ==
    /\ At(a, "done")
    /\ state' = "CAL_COMPLETE"
    /\ Goto(a, After(a))
    /\ UNCHANGED <<edge, irq, dma, count, averaged, tmp, callbacks, reading, history>>

\* avg += raw / count: a load and a store
UpdateAdd(a) ==
    /\ At(a, "add")
    /\ tmp' = [tmp EXCEPT ![a] = averaged]
    /\ Goto(a, "sum")
    /\ UNCHANGED <<edge, irq, dma, state, count, averaged, callbacks, reading, history>>

UpdateSum(a) ==
    /\ At(a, "sum")
    /\ averaged' = tmp[a] + 1
    /\ tmp' = [tmp EXCEPT ![a] = 0]
    /\ Goto(a, After(a))
    /\ UNCHANGED <<edge, irq, dma, state, count, callbacks, reading, history>>

CalResult == "READY"    \* pass ? GYRO_ST_READY : GYRO_ST_FAIL, with pass = 1

UpdateZero(a) ==
    /\ At(a, "zero")
    /\ state' = CalResult
    /\ Goto(a, After(a))
    /\ UNCHANGED <<edge, irq, dma, count, averaged, tmp, callbacks, reading, history>>

\* raw_rates -= zeroValue, on every axis (subtracted twice is as bad as more)
UpdateSubtract(a) ==
    /\ At(a, "subtract")
    /\ raw' = [x \in AxisIds |-> [raw[x] EXCEPT !.zeroed = IF @ < 2 THEN @ + 1 ELSE @]]
    /\ Goto(a, "callback")
    /\ UNCHANGED <<edge, irq, txLeft, rxLeft, cal, callbacks, reading, history>>

\* s.completeCallback(), which is flightGyroUpdateTask; assert(false) if unset
UpdateCallback(a) ==
    /\ At(a, "callback") /\ complete /\ backup
    /\ Goto(a, After(a))
    /\ UNCHANGED <<edge, irq, dma, cal, callbacks, reading, history>>

UpdateState(a) ==
    \/ UpdateSwitch(a) \/ UpdateBoot(a) \/ UpdateReset(a) \/ UpdateCollect(a)
    \/ UpdateDone(a) \/ UpdateAdd(a) \/ UpdateSum(a) \/ UpdateZero(a)
    \/ UpdateSubtract(a) \/ UpdateCallback(a)

----------------------------------------------------------------------------
(* The thread: the end of gyroInit, then gyroSetUpdateCallback. *)

EnableIrq ==
    /\ At("thread", "enable")
    /\ Goto("thread", "switch")
    /\ UNCHANGED <<edge, irq, dma, cal, callbacks, reading, history>>

SetBackup ==
    /\ At("thread", "backup")
    /\ backup' = TRUE
    /\ Goto("thread", "complete")
    /\ UNCHANGED <<edge, irq, dma, cal, complete, reading, history>>

SetComplete ==
    /\ At("thread", "complete")
    /\ complete' = TRUE
    /\ Goto("thread", "run")
    /\ UNCHANGED <<edge, irq, dma, cal, backup, reading, history>>

Thread == EnableIrq \/ SetBackup \/ SetComplete
Isr == DataReadyHandler \/ IrqDma \/ CountSample \/ UpdateState("isr")

Next == \/ DataReady \/ TxWord \/ RxWord
        \/ Isr \/ Thread \/ UpdateState("thread")

\* The sensor samples for ever, a started read ends, and core 1 never stops.
Fairness == /\ WF_vars(DataReady) /\ WF_vars(TxWord) /\ WF_vars(RxWord)
            /\ WF_vars(Isr) /\ WF_vars(Thread \/ UpdateState("thread"))

Spec == Init /\ [][Next]_vars /\ Fairness

----------------------------------------------------------------------------
(* Properties. *)

TypeOK ==
    /\ edge \in BOOLEAN /\ irq \in BOOLEAN
    /\ txLeft \in 0 .. Axes /\ rxLeft \in txLeft .. Axes
    /\ raw \in [AxisIds -> [read : {0, 1}, zeroed : 0 .. 2]]
    /\ state \in States /\ count \in 0 .. Samples
    /\ averaged \in Nat /\ tmp \in [Actors -> Nat]
    /\ backup \in BOOLEAN /\ complete \in BOOLEAN
    /\ pc["thread"] \in ThreadPcs \cup UpdatePcs /\ pc["isr"] \in IsrPcs \cup UpdatePcs
    /\ reading \in {0, 1} /\ early \in 0 .. MaxEarly /\ overlapped \in BOOLEAN

\* The control loop is handed one whole sample, each axis from the last read
\* and zeroed once, unless a data-ready edge caught that read's predecessor
\* between its last word and its interrupt.
ControlsOnWholeSample ==
    pc["isr"] = "callback" /\ ~overlapped =>
        \A x \in AxisIds : raw[x] = [read |-> reading, zeroed |-> 1]

\* gyro_spi_mpu9250.c:319-324: the callback is registered before the
\* calibration can end, though its interrupts are enabled before it.
CallbackRegistered == \A a \in Actors : pc[a] = "callback" => complete /\ backup

\* gyro_vars.c:79, "Number of raw gyro samples to average to calculate
\* offests": with no sample in the way of gyroInit, Samples of them are summed.
CalibrationSums ==
    early = 0 /\ state = "READY" => averaged = Samples

\* What a sample that comes before gyroInit is done can spoil: the thread and
\* the interrupt then run one state machine at once, reset the count under each
\* other and lose or repeat an addition, but each such read puts the number of
\* samples summed off by one at most, from Samples or the one less it is anyway.
EarlyReadsCostOneEach ==
    state = "READY" => averaged \in Samples - 1 - early .. Samples + early

\* The pipeline never stalls: the control loop runs again and again, whatever
\* edges are missed while a read is in flight.
KeepsControlling == []<>(pc["isr"] = "callback")
=============================================================================
