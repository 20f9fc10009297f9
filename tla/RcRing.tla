------------------------------- MODULE RcRing -------------------------------
(***************************************************************************)
(* The receive ring of the RC input (lib/io/io_rc/src/io_rc.c and          *)
(* io_rc_dma.c).  A one-byte DMA transfer moves each byte from the UART    *)
(* into the ring, its completion interrupt advances `write' and `length'   *)
(* and re-arms the channel, and the main loop of core 0 consumes the ring  *)
(* through io_rc_rx_buffer_read.  Both run on core 0: the interrupt is     *)
(* atomic for the reader, the reader is not atomic for the interrupt, and  *)
(* `--s.rx.length' is a load, a subtraction and a store.                   *)
(*                                                                         *)
(* Byte values are abstracted to sequence numbers: the k-th byte taken     *)
(* from the UART is the number k.  A byte that arrives while the UART's    *)
(* own FIFO is full is lost in the hardware and never enters the model.    *)
(***************************************************************************)
EXTENDS Integers

CONSTANTS
    Size,       \* BUFFER_SIZE, which is also the modulus of the u8 `length'
    FifoDepth,  \* entries of the UART receive FIFO (32 on the RP2040)
    MaxBytes    \* bound of the model: bytes the line delivers

ASSUME RingAssumption ==
    /\ Size \in Nat /\ Size > 1
    /\ FifoDepth \in Nat \ {0}
    /\ MaxBytes \in Nat

VARIABLES
    fifo,       \* bytes waiting in the UART FIFO
    dma,        \* the channel: "armed" waits for a byte, "done" raised its interrupt
    dmaAddr,    \* ring slot the channel writes (al1_write_addr)
    buffer, read, write, length,    \* s.rx
    pc, data, tmp,                  \* the reader: control, `data', loaded length
    written,    \* history: bytes accounted for by the interrupt
    released,   \* history: bytes whose --length was stored
    lost,       \* history: increments of length overwritten by that store
    peak        \* history: the most bytes that were in the ring unreleased

hw == <<fifo, dma, dmaAddr>>
rx == <<buffer, read, write, length>>
reader == <<pc, data, tmp>>
history == <<written, released, lost, peak>>
vars == <<hw, rx, reader, history>>

Slots == 0 .. Size - 1
NoByte == MaxBytes + 1      \* a slot never written: memset to 0 in io_rc_init
Phantom == MaxBytes + 2     \* the 0 that io_rc_rx_buffer_read returns when empty
Pcs == {"poll", "check", "load", "assert", "ldlen", "stlen"}

----------------------------------------------------------------------------
(* Mutants: forms a plausible bug would give the definitions below.        *)

NextSlotUnmasked(i) == i + 1
DecrementedOmitted(l) == l
RearmSlotStale == write
PollLeavesLast ==
    /\ pc = "poll" /\ length > 1
    /\ pc' = "check"
    /\ UNCHANGED <<hw, rx, data, tmp, history>>

----------------------------------------------------------------------------

\* The `& BUFFER_WRAP_MASK' of an index, and the wrap of the u8 length.
NextSlot(i) == (i + 1) % Size

\* The value --s.rx.length stores, from the value it loaded.
Decremented(l) == (l + Size - 1) % Size

\* Increments the interrupt made since the reader loaded `length' into tmp.
AddedSinceLoad == (length + Size - tmp) % Size

\* Where the interrupt points the channel: the write index it just advanced.
RearmSlot == NextSlot(write)

Init ==
    /\ fifo = 0 /\ dma = "armed" /\ dmaAddr = 0
    /\ buffer = [i \in Slots |-> NoByte]
    /\ read = 0 /\ write = 0 /\ length = 0
    /\ pc = "poll" /\ data = NoByte /\ tmp = 0
    /\ written = 0 /\ released = 0 /\ lost = 0 /\ peak = 0

----------------------------------------------------------------------------
(* Hardware. *)

\* Bytes the line has delivered so far.
Delivered == written + fifo + (IF dma = "done" THEN 1 ELSE 0)

\* The receiver puts a byte on the line and the UART queues it.
Arrive ==
    /\ fifo < FifoDepth
    /\ Delivered < MaxBytes
    /\ fifo' = fifo + 1
    /\ UNCHANGED <<dma, dmaAddr, rx, reader, history>>

\* The armed channel moves one byte and raises DMA_IRQ_0.
DmaTransfer ==
    /\ dma = "armed" /\ fifo > 0
    /\ buffer' = [buffer EXCEPT ![dmaAddr] = written]
    /\ dma' = "done"
    /\ fifo' = fifo - 1
    /\ UNCHANGED <<dmaAddr, read, write, length, reader, history>>

----------------------------------------------------------------------------
(* dma_complete_handler, with io_rc_rx_buffer_bytes_written(1). *)

DmaComplete ==
    /\ dma = "done"
    /\ write' = NextSlot(write)
    /\ length' = NextSlot(length)
    /\ dmaAddr' = RearmSlot
    /\ dma' = "armed"
    /\ written' = written + 1
    /\ peak' = IF written + 1 - released > peak THEN written + 1 - released ELSE peak
    /\ UNCHANGED <<fifo, buffer, read, reader, released, lost>>

----------------------------------------------------------------------------
(* The reader: io_rc_protocol_update's loop around io_rc_rx_buffer_read.   *)

\* while (!io_rc_rx_buffer_empty())
Poll ==
    /\ pc = "poll" /\ length > 0
    /\ pc' = "check"
    /\ UNCHANGED <<hw, rx, data, tmp, history>>

\* if (io_rc_rx_buffer_empty()) return 0;  -- the caller takes the 0 for a byte
CheckEmpty ==
    /\ pc = "check" /\ length = 0
    /\ data' = Phantom
    /\ pc' = "poll"
    /\ UNCHANGED <<hw, rx, tmp, history>>

CheckNonEmpty ==
    /\ pc = "check" /\ length > 0
    /\ pc' = "load"
    /\ UNCHANGED <<hw, rx, data, tmp, history>>

\* data = buffer[read]; read = (read + 1) & MASK: no other actor uses `read'.
Load ==
    /\ pc = "load"
    /\ data' = buffer[read]
    /\ read' = NextSlot(read)
    /\ pc' = "assert"
    /\ UNCHANGED <<hw, buffer, write, length, tmp, history>>

\* assert(s.rx.length > 0): a failed assertion stops the core here.
AssertLength ==
    /\ pc = "assert" /\ length > 0
    /\ pc' = "ldlen"
    /\ UNCHANGED <<hw, rx, data, tmp, history>>

LoadLength ==
    /\ pc = "ldlen"
    /\ tmp' = length
    /\ pc' = "stlen"
    /\ UNCHANGED <<hw, rx, data, history>>

\* The store of --length: what the interrupt added since the load is lost.
StoreLength ==
    /\ pc = "stlen"
    /\ length' = Decremented(tmp)
    /\ pc' = "poll"
    /\ released' = released + 1
    /\ lost' = lost + AddedSinceLoad
    /\ UNCHANGED <<hw, buffer, read, write, data, tmp, written, peak>>

Reader == \/ Poll \/ CheckEmpty \/ CheckNonEmpty \/ Load
          \/ AssertLength \/ LoadLength \/ StoreLength

Next == Arrive \/ DmaTransfer \/ DmaComplete \/ Reader

\* The main loop polls forever, the DMA engine and the interrupt controller
\* serve what is pending.  Nothing obliges the receiver to send.
Fairness == WF_vars(DmaTransfer) /\ WF_vars(DmaComplete) /\ WF_vars(Reader)

Spec == Init /\ [][Next]_vars /\ Fairness

----------------------------------------------------------------------------
(* Properties. *)

TypeOK ==
    /\ fifo \in 0 .. FifoDepth /\ dma \in {"armed", "done"} /\ dmaAddr \in Slots
    /\ buffer \in [Slots -> Nat]
    /\ read \in Slots /\ write \in Slots /\ length \in Slots
    /\ pc \in Pcs /\ data \in Nat /\ tmp \in Slots
    /\ written \in Nat /\ released \in Nat /\ lost \in Nat
    /\ peak \in Nat

\* The reader has taken a byte whose --length is not stored yet.
Holding == pc \in {"assert", "ldlen", "stlen"}

\* The ring once held more unreleased bytes than `length' can count.
Overrun == peak >= Size

\* Unless the ring overran, io_rc_rx_buffer_read returns the bytes of the line
\* in order, none skipped, none twice and none stale, whatever interrupts hit
\* it between any two of its instructions; its emptiness test never contradicts
\* the caller's, so no 0 is handed out as a received byte; and its assertion
\* that length is positive (io_rc.c:66) holds.
ReadsInOrder ==
    ~Overrun =>
        /\ Holding => data = released
        /\ data # Phantom
        /\ pc = "assert" => length > 0

\* Unless the ring overran, `length' is exactly the unreleased bytes less the
\* increments that the reader's --length overwrote: it never claims a byte the
\* DMA has not written, and each lost increment hides one byte for good.
LengthAccountsForLost == ~Overrun => length + lost = written - released

\* Once the line is quiet the reader drains the ring down to the bytes hidden
\* by lost increments, and to no fewer: those stay unread until more arrive.
DrainsAllButLost == <>[](Overrun \/ (fifo = 0 /\ dma = "armed" /\ written - released = lost))
=============================================================================
