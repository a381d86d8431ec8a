-------------------------- MODULE RingBuffer_proofs --------------------------
(***************************************************************************)
(* Proofs about RingBuffer, for every size, every set of bytes and every   *)
(* set of calls.  The lemmas on Mask reduce the index arithmetic to cases  *)
(* without a remainder; the rest never looks inside Mask.                  *)
(***************************************************************************)
EXTENDS RingBuffer, SequenceTheorems, TLAPS

(* The mask leaves an index alone.                                         *)
LEMMA MaskSlot == ASSUME NEW x \in Slot PROVE Mask(x) = x
  BY SizeAssumption, Z3 DEF Mask, Slot

(* The mask of a sum of two indices wraps once.                            *)
LEMMA MaskSum ==
  ASSUME NEW x \in Slot, NEW y \in 0..Size
  PROVE  Mask(x + y) = IF x + y < Size THEN x + y ELSE x + y - Size
  <1>1. CASE x + y < Size
    <2>1. x + y \in Slot BY <1>1, SizeAssumption DEF Slot
    <2> QED BY <1>1, <2>1, MaskSlot
  <1>2. CASE ~(x + y < Size)
    BY <1>2, SizeAssumption, Z3 DEF Mask, Slot
  <1> QED BY <1>1, <1>2

(* The mask of a difference of two indices is the distance between them,   *)
(* walking forward around the buffer.                                      *)
LEMMA MaskDifference ==
  ASSUME NEW x \in Slot, NEW y \in Slot
  PROVE  Mask(x - y) = IF x >= y THEN x - y ELSE x - y + Size
  <1>1. CASE x >= y
    <2>1. x - y \in Slot BY <1>1, SizeAssumption DEF Slot
    <2> QED BY <1>1, <2>1, MaskSlot
  <1>2. CASE ~(x >= y)
    BY <1>2, SizeAssumption, Z3 DEF Mask, Slot
  <1> QED BY <1>1, <1>2

(* The length of the buffer is a number of slots.                          *)
LEMMA LengthType ==
  ASSUME read \in Slot, write \in Slot
  PROVE  rb_length \in Slot
  <1>1. rb_length = IF write >= read THEN write - read ELSE write - read + Size
    BY MaskDifference DEF rb_length
  <1> QED BY <1>1, SizeAssumption DEF Slot

(* The successor of an index is an index.                                  *)
LEMMA NextSlot == ASSUME NEW x \in Slot PROVE Mask(x + 1) \in Slot
  <1>1. 1 \in 0..Size BY SizeAssumption
  <1> QED BY <1>1, MaskSum, SizeAssumption DEF Slot

(* The i-th pending slot is a slot, and never the one rb_write stores to;  *)
(* the slot after the last pending one is.                                 *)
LEMMA PendingSlots ==
  ASSUME read \in Slot, write \in Slot
  PROVE  /\ \A i \in 1..rb_length : /\ Mask(read + i - 1) \in Slot
                                    /\ Mask(read + i - 1) # write
         /\ Mask(read + rb_length) = write
  <1>1. rb_length = IF write >= read THEN write - read ELSE write - read + Size
    BY MaskDifference DEF rb_length
  <1>2. rb_length \in 0..Size
    BY LengthType, SizeAssumption DEF Slot
  <1>3. ASSUME NEW i \in 1..rb_length
        PROVE  Mask(read + i - 1) \in Slot /\ Mask(read + i - 1) # write
    <2> DEFINE j == i - 1
    <2>1. j \in 0..Size /\ j < rb_length /\ read + i - 1 = read + j
      BY <1>2, SizeAssumption DEF Slot
    <2>2. Mask(read + j) = IF read + j < Size THEN read + j ELSE read + j - Size
      BY <2>1, MaskSum
    <2> HIDE DEF j
    <2>3. Mask(read + j) \in Slot /\ Mask(read + j) # write
      BY <2>1, <2>2, <1>1, SizeAssumption DEF Slot
    <2> QED BY <2>1, <2>3
  <1>4. Mask(read + rb_length) = write
    <2>1. Mask(read + rb_length) = IF read + rb_length < Size
                                   THEN read + rb_length
                                   ELSE read + rb_length - Size
      BY <1>2, MaskSum
    <2> QED BY <2>1, <1>1, SizeAssumption DEF Slot
  <1> QED BY <1>3, <1>4

(* Publishing a byte in a buffer that is not full lengthens it by one.     *)
LEMMA LengthAfterWrite ==
  ASSUME read \in Slot, write \in Slot, ~rb_full
  PROVE  Mask(Mask(write + 1) - read) = rb_length + 1
  <1>1. rb_length = IF write >= read THEN write - read ELSE write - read + Size
    BY MaskDifference DEF rb_length
  <1>2. Mask(write + 1) = IF write + 1 < Size THEN write + 1 ELSE write + 1 - Size
    <2>1. 1 \in 0..Size BY SizeAssumption
    <2> QED BY <2>1, MaskSum
  <1>3. Mask(Mask(write + 1) - read) = IF Mask(write + 1) >= read
                                       THEN Mask(write + 1) - read
                                       ELSE Mask(write + 1) - read + Size
    BY NextSlot, MaskDifference
  <1> QED BY <1>1, <1>2, <1>3, SizeAssumption DEF rb_full, Slot

(* Releasing a slot of a buffer that is not empty shortens it by one, and  *)
(* the pending slots are those of before, but the first.                   *)
LEMMA AfterRead ==
  ASSUME read \in Slot, write \in Slot, ~rb_empty
  PROVE  /\ Mask(write - Mask(read + 1)) = rb_length - 1
         /\ \A i \in 1..(rb_length - 1) :
              Mask(Mask(read + 1) + i - 1) = Mask(read + i)
  <1>1. rb_length = IF write >= read THEN write - read ELSE write - read + Size
    BY MaskDifference DEF rb_length
  <1>2. Mask(read + 1) = IF read + 1 < Size THEN read + 1 ELSE read + 1 - Size
    <2>1. 1 \in 0..Size BY SizeAssumption
    <2> QED BY <2>1, MaskSum
  <1>3. Mask(write - Mask(read + 1)) = IF write >= Mask(read + 1)
                                       THEN write - Mask(read + 1)
                                       ELSE write - Mask(read + 1) + Size
    BY NextSlot, MaskDifference
  <1>4. ASSUME NEW i \in 1..(rb_length - 1)
        PROVE  Mask(Mask(read + 1) + i - 1) = Mask(read + i)
    <2> DEFINE j == i - 1
               r == Mask(read + 1)
    <2>1. i \in 0..Size /\ j \in 0..Size /\ i = j + 1 /\ r \in Slot
      BY LengthType, NextSlot, SizeAssumption DEF Slot
    <2>2. Mask(read + i) = IF read + i < Size THEN read + i ELSE read + i - Size
      BY <2>1, MaskSum
    <2>3. Mask(r + j) = IF r + j < Size THEN r + j ELSE r + j - Size
      <3> HIDE DEF r, j
      <3> QED BY <2>1, MaskSum
    <2>4. Mask(r + i - 1) = Mask(r + j)
      BY <2>1 DEF Slot
    <2>5. r = IF read + 1 < Size THEN read + 1 ELSE read + 1 - Size
      BY <1>2
    <2> HIDE DEF r, j
    <2>6. Mask(r + j) = Mask(read + i)
      BY <2>1, <2>2, <2>3, <2>5, <1>1, SizeAssumption DEF Slot
    <2> QED BY <2>4, <2>6 DEF r
  <1> QED BY <1>1, <1>2, <1>3, <1>4, SizeAssumption DEF rb_empty, Slot
-----------------------------------------------------------------------------
(* What a step leaves alone.                                               *)
LEMMA UnchangedLength ==
  ASSUME UNCHANGED <<read, write>> PROVE rb_length' = rb_length
  BY DEF rb_length, Mask

LEMMA InitInv == Init => IInv
  <1> SUFFICES ASSUME Init PROVE IInv
    OBVIOUS
  <1>1. 0 \in Slot
    BY SizeAssumption DEF Slot
  <1>2. rb_length = 0
    BY <1>1, MaskDifference DEF Init, rb_length
  <1> QED BY <1>1, <1>2 DEF Init, IInv, TypeOK, WriterInv, ReaderInv, PendingInv

(* Every step keeps the inductive invariant: a store hits no pending slot, *)
(* the indices only move when the side's own test still holds.             *)
LEMMA StepInv == IInv /\ [Next]_vars => IInv'
  <1> SUFFICES ASSUME IInv, [Next]_vars PROVE IInv'
    OBVIOUS
  <1> USE DEF IInv, TypeOK
  <1>t. /\ rb_length \in Slot
        /\ \A i \in 1..rb_length : /\ Mask(read + i - 1) \in Slot
                                  /\ Mask(read + i - 1) # write
        /\ Mask(read + rb_length) = write
    BY LengthType, PendingSlots
  <1>1. ASSUME NEW bytes \in Calls, Call(bytes) PROVE IInv'
    <2>1. bytes \in Seq(Byte) \ {<<>>}
      BY CallsAssumption
    <2> QED BY <1>1, <2>1, UnchangedLength
            DEF Call, readerVars, WriterInv, ReaderInv, PendingInv, rb_full, rb_empty
  <1>2. CASE RefuseWrite
    BY <1>2, UnchangedLength
    DEF RefuseWrite, readerVars, WriterInv, ReaderInv, PendingInv, rb_full, rb_empty
  <1>3. CASE AcceptWrite
    BY <1>3, UnchangedLength
    DEF AcceptWrite, readerVars, WriterInv, ReaderInv, PendingInv, rb_full, rb_empty
  <1>4. CASE StoreByte
    <2>1. /\ todo # <<>>
          /\ Head(todo) \in Byte
      BY <1>4 DEF StoreByte, WriterInv
    <2>2. TypeOK'
      BY <1>4, <2>1 DEF StoreByte, readerVars
    <2>3. rb_length' = rb_length
      BY <1>4, UnchangedLength DEF StoreByte, readerVars
    <2>4. WriterInv'
      BY <1>4, <2>3 DEF StoreByte, readerVars, WriterInv, rb_full
    <2>5. ReaderInv'
      <3>1. rpc # "idle" => read # write
        <4> SUFFICES ASSUME read = write PROVE rb_empty
          BY DEF ReaderInv
        <4> QED BY MaskDifference, SizeAssumption DEF rb_empty, rb_length, Slot
      <3> QED BY <1>4, <2>3, <3>1
              DEF StoreByte, readerVars, ReaderInv, rb_empty
    <2>6. PendingInv'
      <3> SUFFICES ASSUME NEW i \in 1..rb_length
                   PROVE  data'[Mask(read + i - 1)] \in Byte
        BY <1>4, <2>3 DEF StoreByte, readerVars, PendingInv, Mask
      <3> QED BY <1>4, <1>t DEF StoreByte, PendingInv
    <2> QED BY <2>2, <2>4, <2>5, <2>6
  <1>5. CASE AdvanceWrite
    <2>1. /\ todo # <<>>
          /\ Tail(todo) \in Seq(Byte)
          /\ ~rb_full
          /\ data[write] \in Byte
      BY <1>5 DEF AdvanceWrite, WriterInv
    <2>2. TypeOK'
      BY <1>5, <2>1, NextSlot DEF AdvanceWrite, readerVars
    <2>3. rb_length' = rb_length + 1
      <3>1. rb_length' = Mask(Mask(write + 1) - read)
        BY <1>5 DEF AdvanceWrite, readerVars, rb_length, Mask
      <3> QED BY <3>1, <2>1, LengthAfterWrite
    <2>4. WriterInv'
      BY <1>5 DEF AdvanceWrite, WriterInv
    <2>5. ReaderInv'
      BY <1>5, <2>3, <1>t DEF AdvanceWrite, readerVars, ReaderInv, rb_empty, Slot
    <2>6. PendingInv'
      <3> SUFFICES ASSUME NEW i \in 1..(rb_length + 1)
                   PROVE  data[Mask(read + i - 1)] \in Byte
        BY <1>5, <2>3 DEF AdvanceWrite, readerVars, PendingInv, Mask
      <3>1. CASE i \in 1..rb_length
        BY <3>1 DEF PendingInv
      <3>2. CASE i = rb_length + 1
        <4>1. read + i - 1 = read + rb_length
          BY <3>2, <1>t, SizeAssumption DEF Slot
        <4> QED BY <4>1, <1>t, <2>1
      <3> QED BY <3>1, <3>2, <1>t, SizeAssumption DEF Slot
    <2> QED BY <2>2, <2>4, <2>5, <2>6
  <1>6. CASE RefuseRead
    BY <1>6, UnchangedLength
    DEF RefuseRead, writerVars, WriterInv, ReaderInv, PendingInv, rb_full, rb_empty
  <1>7. CASE AcceptRead
    BY <1>7, UnchangedLength
    DEF AcceptRead, writerVars, WriterInv, ReaderInv, PendingInv, rb_full, rb_empty
  <1>8. CASE LoadByte
    BY <1>8, UnchangedLength
    DEF LoadByte, writerVars, WriterInv, ReaderInv, PendingInv, rb_full, rb_empty
  <1>9. CASE AdvanceRead
    <2>1. ~rb_empty
      BY <1>9 DEF AdvanceRead, ReaderInv
    <2>2. TypeOK'
      BY <1>9, NextSlot DEF AdvanceRead, writerVars
    <2>3. rb_length' = rb_length - 1
      <3>1. rb_length' = Mask(write - Mask(read + 1))
        BY <1>9 DEF AdvanceRead, writerVars, rb_length, Mask
      <3> QED BY <3>1, <2>1, AfterRead
    <2>4. WriterInv'
      BY <1>9, <2>3, <1>t, SizeAssumption
      DEF AdvanceRead, writerVars, WriterInv, rb_full, Slot
    <2>5. ReaderInv'
      BY <1>9 DEF AdvanceRead, ReaderInv
    <2>6. PendingInv'
      <3> SUFFICES ASSUME NEW i \in 1..(rb_length - 1)
                   PROVE  data[Mask(Mask(read + 1) + i - 1)] \in Byte
        BY <1>9, <2>3 DEF AdvanceRead, writerVars, PendingInv, Mask
      <3>1. Mask(Mask(read + 1) + i - 1) = Mask(read + i)
        BY <2>1, AfterRead
      <3>2. i + 1 \in 1..rb_length /\ read + (i + 1) - 1 = read + i
        BY <1>t, SizeAssumption DEF Slot
      <3> QED BY <3>1, <3>2 DEF PendingInv
    <2> QED BY <2>2, <2>4, <2>5, <2>6
  <1>10. CASE UNCHANGED vars
    BY <1>10, UnchangedLength
    DEF vars, WriterInv, ReaderInv, PendingInv, rb_full, rb_empty, Mask
  <1> QED BY <1>1, <1>2, <1>3, <1>4, <1>5, <1>6, <1>7, <1>8, <1>9, <1>10
          DEF Next, Writer, Reader
-----------------------------------------------------------------------------
(* In every reachable state of every instance the indices are slots, the   *)
(* two sides are past their tests only with the space or the byte they     *)
(* tested, and every pending slot holds a byte that was written.           *)
THEOREM Invariance == Spec => []IInv
  BY InitInv, StepInv, PTL DEF Spec

(* Types: the indices of react/circular.c stay inside data[] for every     *)
(* size and every interleaving.                                            *)
THEOREM TypeCorrectness == Spec => []TypeOK
  <1>1. IInv => TypeOK
    BY DEF IInv
  <1> QED BY <1>1, Invariance, PTL

(* The writer never stores into the slot the reader is loading.            *)
THEOREM SlotRaceFreedom == Spec => []NoSlotRace
  <1>1. IInv => NoSlotRace
    <2> SUFFICES ASSUME IInv, rpc # "idle", write = read
                 PROVE  FALSE
      BY DEF NoSlotRace
    <2>1. rb_length = 0
      BY MaskDifference, SizeAssumption DEF IInv, TypeOK, rb_length, Slot
    <2> QED BY <2>1 DEF IInv, ReaderInv, rb_empty
  <1> QED BY <1>1, Invariance, PTL
-----------------------------------------------------------------------------
(* The refinement mapping yields a sequence of bytes.                      *)
PendingIsSeq ==
  /\ Pending \in Seq(Byte)
  /\ Len(Pending) = rb_length
  /\ \A i \in 1..rb_length : Pending[i] = data[Mask(read + i - 1)]
  /\ rb_length \in Nat

LEMMA PendingType == IInv => PendingIsSeq
  <1> SUFFICES ASSUME IInv PROVE PendingIsSeq
    OBVIOUS
  <1>1. rb_length \in Nat
    BY LengthType, SizeAssumption DEF IInv, TypeOK, Slot
  <1>2. Pending \in [1..rb_length -> Byte]
    BY DEF IInv, PendingInv, Pending
  <1> QED BY <1>1, <1>2 DEF Pending, PendingIsSeq

LEMMA InitRefines == Init => Abstract!Init
  <1> SUFFICES ASSUME Init PROVE Abstract!Init
    OBVIOUS
  <1>1. IInv
    BY InitInv
  <1>2. rb_length = 0
    <2>1. 0 \in Slot
      BY SizeAssumption DEF Slot
    <2> QED BY <2>1, MaskDifference DEF Init, rb_length
  <1>3. Pending = <<>>
    BY <1>1, <1>2, PendingType, EmptySeq DEF PendingIsSeq
  <1> QED BY <1>3 DEF Init, Abstract!Init

(* Every step of the buffer is a step of the bounded queue or changes      *)
(* nothing the queue shows: a write takes effect when it advances the      *)
(* write index, a read when it advances the read index, a refusal at the   *)
(* length test.                                                            *)
LEMMA StepRefines ==
  IInv /\ IInv' /\ [Next]_vars => [Abstract!Next]_(Abstract!vars)
  <1> SUFFICES ASSUME IInv, IInv', [Next]_vars
               PROVE  [Abstract!Next]_(Abstract!vars)
    OBVIOUS
  <1>p. PendingIsSeq
    BY PendingType
  <1>q. PendingIsSeq'
    BY PendingType, PTL
  <1>s. ASSUME UNCHANGED <<data, read, write>> PROVE Pending' = Pending
    BY <1>s DEF Pending, rb_length, Mask
  <1> USE DEF PendingIsSeq
  <1>1. CASE \E bytes \in Calls : Call(bytes)
    BY <1>1, <1>s DEF Call, readerVars, Abstract!vars
  <1>2. CASE RefuseWrite
    <2>1. Abstract!PutFull
      BY <1>2, <1>s, <1>p DEF RefuseWrite, readerVars, rb_full, Abstract!PutFull
    <2> QED BY <2>1 DEF Abstract!Next
  <1>3. CASE AcceptWrite
    BY <1>3, <1>s DEF AcceptWrite, readerVars, Abstract!vars
  <1>4. CASE StoreByte
    <2>1. rb_length' = rb_length /\ read' = read
      BY <1>4, UnchangedLength DEF StoreByte, readerVars
    <2>2. ASSUME NEW i \in 1..rb_length PROVE Pending'[i] = Pending[i]
      <3>1. Mask(read + i - 1) \in Slot /\ Mask(read + i - 1) # write
        BY PendingSlots DEF IInv, TypeOK
      <3> QED BY <1>4, <1>p, <1>q, <2>1, <3>1 DEF StoreByte, IInv, TypeOK
    <2>3. Pending' = Pending
      BY <1>p, <1>q, <2>1, <2>2, SeqEqual
    <2> QED BY <1>4, <2>3 DEF StoreByte, readerVars, Abstract!vars
  <1>5. CASE AdvanceWrite
    <2>1. /\ ~rb_full
          /\ data[write] = Head(todo)
          /\ Head(todo) \in Byte
      BY <1>5 DEF AdvanceWrite, IInv, WriterInv, TypeOK
    <2>2. rb_length' = rb_length + 1
      <3>1. rb_length' = Mask(Mask(write + 1) - read)
        BY <1>5 DEF AdvanceWrite, readerVars, rb_length, Mask
      <3> QED BY <3>1, <2>1, LengthAfterWrite DEF IInv, TypeOK
    <2>3. ASSUME NEW i \in 1..(rb_length + 1)
          PROVE  Pending'[i] = Append(Pending, Head(todo))[i]
      <3>1. Pending'[i] = data[Mask(read + i - 1)]
        BY <1>5, <1>q, <2>2 DEF AdvanceWrite, readerVars
      <3>2. CASE i \in 1..rb_length
        BY <3>1, <3>2, <1>p
      <3>3. CASE i = rb_length + 1
        <4>1. read + i - 1 = read + rb_length
          BY <3>3, <1>p, SizeAssumption DEF IInv, TypeOK, Slot
        <4>2. Mask(read + i - 1) = write
          BY <4>1, PendingSlots DEF IInv, TypeOK
        <4> QED BY <3>1, <3>3, <4>2, <2>1, <1>p
      <3> QED BY <3>2, <3>3, <1>p
    <2>4. /\ Append(Pending, Head(todo)) \in Seq(Byte)
          /\ Len(Append(Pending, Head(todo))) = rb_length + 1
      BY <1>p, <2>1
    <2>5. Pending' = Append(Pending, Head(todo))
      BY <1>q, <2>2, <2>3, <2>4, SeqEqual
    <2>6. Len(Pending) < Size - 1
      BY <1>p, <2>1, LengthType, SizeAssumption DEF rb_full, IInv, TypeOK, Slot
    <2>7. Abstract!Put(Head(todo))
      BY <1>5, <2>5, <2>6 DEF AdvanceWrite, readerVars, Abstract!Put
    <2> QED BY <2>1, <2>7 DEF Abstract!Next
  <1>6. CASE RefuseRead
    <2>1. Abstract!GetEmpty
      BY <1>6, <1>s, <1>p, EmptySeq
      DEF RefuseRead, writerVars, rb_empty, Abstract!GetEmpty
    <2> QED BY <2>1 DEF Abstract!Next
  <1>7. CASE AcceptRead
    BY <1>7, <1>s DEF AcceptRead, writerVars, Abstract!vars
  <1>8. CASE LoadByte
    BY <1>8, <1>s DEF LoadByte, writerVars, Abstract!vars
  <1>9. CASE AdvanceRead
    <2>1. /\ ~rb_empty
          /\ rbyte = data[read]
      BY <1>9 DEF AdvanceRead, IInv, ReaderInv
    <2>2. rb_length' = rb_length - 1
      <3>1. rb_length' = Mask(write - Mask(read + 1))
        BY <1>9 DEF AdvanceRead, writerVars, rb_length, Mask
      <3> QED BY <3>1, <2>1, AfterRead DEF IInv, TypeOK
    <2>3. Pending # <<>>
      BY <1>p, <2>1 DEF rb_empty
    <2>4. Head(Pending) = rbyte
      <3>1. Head(Pending) = data[Mask(read + 1 - 1)]
        BY <1>p, <2>1 DEF rb_empty
      <3>2. Mask(read + 1 - 1) = read
        <4>1. read + 1 - 1 = read
          BY SizeAssumption DEF IInv, TypeOK, Slot
        <4> QED BY <4>1, MaskSlot DEF IInv, TypeOK
      <3> QED BY <3>1, <3>2, <2>1
    <2>5. /\ Tail(Pending) \in Seq(Byte)
          /\ Len(Tail(Pending)) = rb_length - 1
          /\ \A i \in 1..(rb_length - 1) : Tail(Pending)[i] = Pending[i + 1]
      BY <1>p, <2>3, HeadTailProperties
    <2>6. ASSUME NEW i \in 1..(rb_length - 1)
          PROVE  Pending'[i] = Tail(Pending)[i]
      <3>1. Pending'[i] = data[Mask(Mask(read + 1) + i - 1)]
        BY <1>9, <1>q, <2>2 DEF AdvanceRead, writerVars
      <3>2. Mask(Mask(read + 1) + i - 1) = Mask(read + i)
        BY <2>1, AfterRead DEF IInv, TypeOK
      <3>3. i + 1 \in 1..rb_length /\ read + (i + 1) - 1 = read + i
        BY <1>p, SizeAssumption DEF IInv, TypeOK, Slot
      <3> QED BY <3>1, <3>2, <3>3, <1>p, <2>5
    <2>7. Pending' = Tail(Pending)
      BY <1>q, <2>2, <2>5, <2>6, SeqEqual
    <2>8. Abstract!Get
      BY <1>9, <2>3, <2>4, <2>7 DEF AdvanceRead, writerVars, Abstract!Get
    <2> QED BY <2>8 DEF Abstract!Next
  <1>10. CASE UNCHANGED vars
    BY <1>10, <1>s DEF vars, Abstract!vars
  <1> QED BY <1>1, <1>2, <1>3, <1>4, <1>5, <1>6, <1>7, <1>8, <1>9, <1>10
          DEF Next, Writer, Reader

(* For every size, whatever the interleaving of the two sides, the ring    *)
(* buffer of react/circular.c implements the bounded queue of module Fifo. *)
THEOREM Refinement == Spec => RefinesFifo
  BY Invariance, InitRefines, StepRefines, PTL
  DEF Spec, RefinesFifo, Abstract!Spec
=============================================================================
