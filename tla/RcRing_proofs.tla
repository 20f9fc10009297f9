--------------------------- MODULE RcRing_proofs ---------------------------
(***************************************************************************)
(* What RcRing promises for every ring size, FIFO depth and number of      *)
(* bytes.  The inductive invariant places the unreleased bytes in the      *)
(* ring: the slot d steps after `read' holds byte taken + d.               *)
(***************************************************************************)
EXTENDS RcRing, TLAPS

\* Bytes the reader has taken out of the buffer.
Taken == IF Holding THEN released + 1 ELSE released

\* How many slots after `from' the slot i is, going round the ring.
Distance(from, i) == IF i >= from THEN i - from ELSE i + Size - from

Counts ==
    /\ released <= written /\ written - released < Size
    /\ Taken <= written
    /\ length + lost = written - released
    /\ dmaAddr = write
    /\ Distance(read, write) = written - Taken

Contents ==
    /\ \A i \in Slots :
          Distance(read, i) < written - Taken =>
              buffer[i] = Taken + Distance(read, i)
    /\ dma = "done" => buffer[write] = written

ReaderState ==
    /\ pc \in {"check", "load", "assert", "ldlen", "stlen"} => length > 0
    /\ pc = "stlen" => 0 < tmp /\ tmp <= length
    /\ Holding => data = released
    /\ data # Phantom

BoundedBytes == Delivered <= MaxBytes

\* The inductive invariant.
IInv == /\ TypeOK
        /\ BoundedBytes
        /\ ~Overrun => Counts /\ Contents /\ ReaderState

\* Masking the index is a wrap at the end of the ring.
LEMMA NextSlotValue ==
    ASSUME NEW i \in Slots
    PROVE  /\ NextSlot(i) \in Slots
           /\ NextSlot(i) = IF i + 1 = Size THEN 0 ELSE i + 1
<1>1. CASE i + 1 = Size
  BY <1>1, RingAssumption, SMT DEF NextSlot, Slots
<1>2. CASE i + 1 # Size
  BY <1>2, RingAssumption, SMT DEF NextSlot, Slots
<1>3. QED
  BY <1>1, <1>2

\* The u8 subtraction is exact on a positive length and stays a u8 otherwise.
LEMMA DecrementedValue ==
    ASSUME NEW l \in Slots
    PROVE  /\ Decremented(l) \in Slots
           /\ l > 0 => Decremented(l) = l - 1
<1>1. CASE l = 0
  BY <1>1, RingAssumption, SMT DEF Decremented, Slots
<1>2. CASE l > 0
  BY <1>2, RingAssumption, SMT DEF Decremented, Slots
<1>3. QED
  BY <1>1, <1>2, RingAssumption DEF Slots

\* So is the count of increments the store overwrites.
LEMMA AddedSinceLoadValue ==
    ASSUME length \in Slots, tmp \in Slots
    PROVE  /\ AddedSinceLoad \in Nat
           /\ tmp <= length => AddedSinceLoad = length - tmp
<1>1. CASE tmp <= length
  BY <1>1, RingAssumption, SMT DEF AddedSinceLoad, Slots
<1>2. CASE length < tmp
  BY <1>2, RingAssumption, SMT DEF AddedSinceLoad, Slots
<1>3. QED
  BY <1>1, <1>2, RingAssumption DEF Slots

----------------------------------------------------------------------------

\* The ring starts empty.
LEMMA InitIInv == Init => IInv
<1> SUFFICES ASSUME Init PROVE IInv
  OBVIOUS
<1> USE RingAssumption DEF Init, NoByte
<1>1. TypeOK
  BY DEF TypeOK, Slots, Pcs
<1>2. BoundedBytes
  BY DEF BoundedBytes, Delivered
<1>3. Counts
  <2>1. ~Holding
    BY DEF Holding
  <2>2. Taken = 0 /\ Distance(read, write) = 0
    BY <2>1 DEF Taken, Distance
  <2>3. QED
    BY <2>2 DEF Counts
<1>4. Contents
  BY DEF Contents, Taken, Holding, Distance, Slots
<1>5. ReaderState
  BY DEF ReaderState, Holding, Phantom
<1>6. QED
  BY <1>1, <1>2, <1>3, <1>4, <1>5 DEF IInv

\* The inductive step, one action at a time.
LEMMA ArriveIInv == IInv /\ Arrive => IInv'
  BY RingAssumption
  DEF Arrive, IInv, TypeOK, BoundedBytes, Counts, Contents, ReaderState, Taken,
      Holding, Distance, Slots, Pcs, Delivered, Overrun, rx, reader, history

\* The transfer puts the byte that has arrived into its slot.
LEMMA DmaTransferIInv == IInv /\ DmaTransfer => IInv'
<1> SUFFICES ASSUME IInv, DmaTransfer PROVE IInv'
  OBVIOUS
<1> USE RingAssumption DEF IInv, DmaTransfer, TypeOK, BoundedBytes, Slots, Pcs, Delivered, Overrun, reader, history
<1>1. TypeOK' /\ BoundedBytes'
  OBVIOUS
<1>2. ASSUME ~Overrun' PROVE (Counts /\ Contents /\ ReaderState)'
  <2>1. Counts' /\ ReaderState'
    BY <1>2 DEF Counts, ReaderState, Taken, Holding, Distance
  <2>2. ASSUME NEW i \in Slots, Distance(read, i) < written - Taken
        PROVE  buffer'[i] = Taken + Distance(read, i)
    <3>1. i # write
      BY <1>2, <2>2 DEF Counts, Taken, Holding, Distance
    <3>2. QED
      BY <1>2, <2>2, <3>1 DEF Counts, Contents
  <2>3. buffer'[write] = written
    BY <1>2 DEF Counts
  <2>4. QED
    BY <2>1, <2>2, <2>3 DEF Contents, Taken, Holding, Distance
<1>3. QED
  BY <1>1, <1>2

\* The interrupt counts the byte.
LEMMA DmaCompleteIInv == IInv /\ DmaComplete => IInv'
<1> SUFFICES ASSUME IInv, DmaComplete PROVE IInv'
  OBVIOUS
<1> USE RingAssumption
<1>1. /\ write \in Slots /\ length \in Slots
      /\ NextSlot(write) \in Slots /\ NextSlot(length) \in Slots
      /\ NextSlot(write) = (IF write + 1 = Size THEN 0 ELSE write + 1)
      /\ NextSlot(length) = (IF length + 1 = Size THEN 0 ELSE length + 1)
  BY NextSlotValue DEF IInv, TypeOK
<1>2. TypeOK' /\ BoundedBytes'
  BY <1>1 DEF IInv, TypeOK, BoundedBytes, DmaComplete, RearmSlot, Pcs, Delivered, Overrun, reader
<1>3. ASSUME ~Overrun' PROVE (Counts /\ Contents /\ ReaderState)'
  <2> USE DEF DmaComplete, reader, Overrun
  <2>1. /\ ~Overrun /\ Counts /\ Contents /\ ReaderState
        /\ written + 1 - released < Size
    BY <1>3 DEF IInv, TypeOK
  <2>2. length + 1 < Size
    BY <2>1 DEF Counts, IInv, TypeOK, Slots
  <2>3. Counts' /\ ReaderState'
    BY <1>1, <2>1, <2>2
    DEF Counts, ReaderState, Taken, Holding, Distance, IInv, TypeOK, RearmSlot, Slots
  <2>4. ASSUME NEW i \in Slots, Distance(read, i) < written + 1 - Taken
        PROVE  buffer[i] = Taken + Distance(read, i)
    <3>1. CASE i = write
      BY <2>1, <3>1 DEF Counts, Contents, Taken, IInv, TypeOK, Slots
    <3>2. CASE i # write
      <4>1. Distance(read, i) < written - Taken
        BY <2>1, <2>4, <3>2 DEF Counts, Taken, Distance, IInv, TypeOK, Slots
      <4>2. QED
        BY <2>1, <4>1 DEF Contents
    <3>3. QED
      BY <3>1, <3>2
  <2>5. Taken' = Taken
    BY DEF Taken, Holding
  <2>6. Contents'
    <3>1. \A i \in Slots : Distance(read, i)' = Distance(read, i)
      BY DEF Distance
    <3>2. written' = written + 1 /\ buffer' = buffer /\ dma' # "done"
      OBVIOUS
    <3>3. ASSUME NEW i \in Slots, Distance(read, i)' < written' - Taken'
          PROVE  buffer'[i] = Taken' + Distance(read, i)'
      <4>1. Distance(read, i) < written + 1 - Taken
        BY <2>1, <2>5, <3>1, <3>2, <3>3 DEF IInv, TypeOK, Taken, Holding
      <4>2. QED
        BY <2>4, <2>5, <3>1, <3>2, <4>1
    <3>4. QED
      BY <3>2, <3>3 DEF Contents
  <2>7. QED
    BY <2>3, <2>6
<1>4. QED
  BY <1>2, <1>3 DEF IInv

\* The reader takes the byte at read and goes to the next slot.
LEMMA LoadIInv == IInv /\ Load => IInv'
<1> SUFFICES ASSUME IInv, Load PROVE IInv'
  OBVIOUS
<1> USE RingAssumption
<1>1. /\ read \in Slots /\ NextSlot(read) \in Slots
      /\ NextSlot(read) = (IF read + 1 = Size THEN 0 ELSE read + 1)
  BY NextSlotValue DEF IInv, TypeOK
<1>2. TypeOK' /\ BoundedBytes'
  BY <1>1 DEF IInv, TypeOK, BoundedBytes, Load, Pcs, Delivered, hw, history
<1>3. ASSUME ~Overrun' PROVE (Counts /\ Contents /\ ReaderState)'
  <2> USE DEF Load, hw, history, Overrun
  <2>1. /\ ~Overrun /\ Counts /\ Contents /\ ReaderState
        /\ pc = "load" /\ Taken = released /\ Taken' = released + 1
    BY <1>3 DEF IInv, Taken, Holding
  <2>2. written > released /\ length > 0
    BY <2>1 DEF IInv, TypeOK, Counts, ReaderState, Slots
  <2>3. data' = released
    BY <1>1, <2>1, <2>2 DEF Contents, Distance, IInv, TypeOK, Slots
  <2>4. Counts'
    BY <1>1, <2>1, <2>2 DEF Counts, Distance, IInv, TypeOK, Slots
  <2>5. ReaderState'
    BY <2>1, <2>2, <2>3 DEF ReaderState, Counts, BoundedBytes, Delivered, Phantom, IInv, TypeOK
  <2>6. ASSUME NEW i \in Slots, Distance(read', i) < written - (released + 1)
        PROVE  buffer[i] = released + 1 + Distance(read', i)
    <3>1. Distance(read, i) = Distance(read', i) + 1
      BY <1>1, <2>1, <2>6 DEF Counts, Distance, IInv, TypeOK, Slots
    <3>2. QED
      <4>1. Distance(read', i) \in Int
        BY <1>1 DEF Distance, Slots
      <4>2. buffer[i] = Taken + Distance(read, i)
        BY <2>1, <2>6, <3>1, <4>1 DEF Contents, IInv, TypeOK
      <4>3. QED
        BY <2>1, <3>1, <4>1, <4>2 DEF IInv, TypeOK
  <2>7. QED
    BY <2>1, <2>4, <2>5, <2>6 DEF Contents
<1>4. QED
  BY <1>2, <1>3 DEF IInv

\* The reader stores what is left of the length it loaded.
LEMMA StoreLengthIInv == IInv /\ StoreLength => IInv'
<1> SUFFICES ASSUME IInv, StoreLength PROVE IInv'
  OBVIOUS
<1> USE RingAssumption
<1>1. /\ length \in Slots /\ tmp \in Slots /\ Decremented(tmp) \in Slots
      /\ tmp > 0 => Decremented(tmp) = tmp - 1
      /\ AddedSinceLoad \in Nat
      /\ tmp <= length => AddedSinceLoad = length - tmp
  BY DecrementedValue, AddedSinceLoadValue DEF IInv, TypeOK
<1>2. TypeOK' /\ BoundedBytes'
  BY <1>1 DEF IInv, TypeOK, BoundedBytes, StoreLength, Pcs, Delivered, hw
<1>3. ASSUME ~Overrun' PROVE (Counts /\ Contents /\ ReaderState)'
  <2> USE DEF StoreLength, hw, Overrun
  <2>1. /\ ~Overrun /\ Counts /\ Contents /\ ReaderState
        /\ pc = "stlen" /\ Taken = released + 1 /\ Taken' = released + 1
        /\ 0 < tmp /\ tmp <= length
    BY <1>3 DEF IInv, TypeOK, ReaderState, Taken, Holding
  <2>2. Counts'
    <3>1. length' + lost' = written' - released'
      BY <1>1, <2>1 DEF Counts, IInv, TypeOK, Slots
    <3>2. QED
      BY <1>1, <2>1, <3>1 DEF Counts, Distance, IInv, TypeOK, Slots
  <2>3. Contents' /\ ReaderState'
    BY <2>1 DEF Contents, ReaderState, Distance, Holding
  <2>4. QED
    BY <2>2, <2>3
<1>4. QED
  BY <1>2, <1>3 DEF IInv

\* The reader steps that move nothing but pc, data or tmp.
LEMMA ReaderIInv ==
    IInv /\ (Poll \/ CheckEmpty \/ CheckNonEmpty \/ AssertLength \/ LoadLength) => IInv'
<1> SUFFICES ASSUME IInv PROVE (Poll \/ CheckEmpty \/ CheckNonEmpty \/ AssertLength \/ LoadLength) => IInv'
  OBVIOUS
<1> USE RingAssumption
    DEF IInv, TypeOK, BoundedBytes, Counts, Contents, ReaderState, Taken, Holding,
        Distance, Slots, Pcs, Delivered, Overrun, hw, rx, history
<1>1. Poll => IInv'
  BY DEF Poll
<1>2. CheckEmpty => IInv'
  BY DEF CheckEmpty, Phantom
<1>3. CheckNonEmpty => IInv'
  BY DEF CheckNonEmpty
<1>4. AssertLength => IInv'
  BY DEF AssertLength
<1>5. LoadLength => IInv'
  BY DEF LoadLength
<1>6. QED
  BY <1>1, <1>2, <1>3, <1>4, <1>5

\* Nothing happens.
LEMMA StutterIInv == IInv /\ UNCHANGED vars => IInv'
  BY DEF IInv, TypeOK, BoundedBytes, Counts, Contents, ReaderState, Taken, Holding,
         Distance, Slots, Delivered, Overrun, vars, hw, rx, reader, history

\* The inductive invariant holds in every reachable state of the ring.
THEOREM Invariance == Spec => []IInv
<1>1. IInv /\ [Next]_vars => IInv'
  BY ArriveIInv, DmaTransferIInv, DmaCompleteIInv, LoadIInv, StoreLengthIInv,
     ReaderIInv, StutterIInv
  DEF Next, Reader
<1>2. QED
  BY InitIInv, <1>1, PTL DEF Spec

----------------------------------------------------------------------------

\* Every index stays in the ring and every field in its type, overrun or not.
THEOREM TypeCorrect == Spec => []TypeOK
<1>1. IInv => TypeOK
  BY DEF IInv
<1>2. QED
  BY <1>1, Invariance, PTL

\* The reader gets the bytes of the line in order, no 0 for a byte, and never
\* fails its assertion, for every ring size and every interleaving of the
\* interrupt, as long as the ring did not overrun.
THEOREM InOrder == Spec => []ReadsInOrder
<1>1. IInv => ReadsInOrder
  BY DEF IInv, ReaderState, ReadsInOrder
<1>2. QED
  BY <1>1, Invariance, PTL

\* length is the unreleased bytes less the increments --length overwrote.
THEOREM LengthAccounting == Spec => []LengthAccountsForLost
<1>1. IInv => LengthAccountsForLost
  BY DEF IInv, Counts, LengthAccountsForLost
<1>2. QED
  BY <1>1, Invariance, PTL
=============================================================================
