----------------------------- MODULE RingBuffer -----------------------------
(***************************************************************************)
(* The ring buffer of react/circular.c between one writer and one reader   *)
(* that may interrupt each other: the event loop on one side and, on the   *)
(* other, a timer interrupt (AVR, STM8L) or another thread (x86).          *)
(*                                                                         *)
(* A call is split where the other side can observe it: the length test,   *)
(* the access to the slot, and the update of the index.  Each index is a   *)
(* word only one side writes, and its value fits one byte for every buffer *)
(* the repository declares: one access to it is one step, on 8 bits too.   *)
(* A byte may alias the indices, so the compiler keeps the order of the    *)
(* two stores, and AVR, STM8L and x86 do not reorder stores.               *)
(* rb_write_string is a call with several bytes: it repeats rb_write until *)
(* its bytes are stored or one of them is refused.                         *)
(***************************************************************************)
EXTENDS Integers, Sequences

CONSTANTS Byte,    \* the bytes the writer may write
          Size,    \* cb->size: the number of slots
          Calls,   \* the byte sequences a client writes in one call
          NoByte   \* the absence of a byte: an unwritten slot, an empty read

(* The index arithmetic masks with size - 1, which is the remainder modulo  *)
(* size for the powers of two every buffer of the repository is declared   *)
(* with (2, 8, 128).                                                       *)
ASSUME SizeAssumption == Size \in Nat \ {0}
ASSUME CallsAssumption == Calls \subseteq Seq(Byte) \ {<<>>}
ASSUME NoByteAssumption == NoByte \notin Byte

VARIABLES data,   \* cb->data
          read,   \* cb->read
          write,  \* cb->write
          wpc,    \* where the writer is in rb_write: its next step
          todo,   \* the bytes of the current call that are not stored yet
          ack,    \* what the last rb_write returned
          rpc,    \* where the reader is in rb_read: its next step
          rbyte,  \* *data of the read in progress
          got     \* what the last rb_read returned, NoByte for EMPTY

vars == <<data, read, write, wpc, todo, ack, rpc, rbyte, got>>
writerVars == <<write, wpc, todo, ack>>
readerVars == <<read, rpc, rbyte, got>>

Slot == 0..(Size - 1)

(* Fault: an index that is not masked.                                     *)
Mask_dropped(x) == x

(* x & (cb->size - 1) *)
Mask(x) == x % Size

rb_length == Mask(write - read)
(* Faults: full one slot too late, and one too early.                      *)
rb_full_late  == rb_length = Size
rb_full_early == rb_length >= Size - 2

rb_full   == rb_length = Size - 1
rb_empty  == rb_length = 0

Init == /\ data = [i \in Slot |-> NoByte]
        /\ read = 0 /\ write = 0
        /\ wpc = "idle" /\ todo = <<>> /\ ack = "ERROR_NONE"
        /\ rpc = "idle" /\ rbyte = NoByte /\ got = NoByte
-----------------------------------------------------------------------------
(* rb_write, repeated over todo by rb_write_string.                        *)

(* A client calls rb_write or rb_write_string. *)
Call(bytes) == /\ wpc = "idle"
               /\ todo' = bytes
               /\ wpc' = "test"
               /\ UNCHANGED <<data, write, ack, readerVars>>

(* The buffer is full: the call ends and the rest of its bytes is dropped. *)
RefuseWrite == /\ wpc = "test" /\ rb_full
               /\ ack' = "ERROR_BUFFER_FULL"
               /\ todo' = <<>>
               /\ wpc' = "idle"
               /\ UNCHANGED <<data, write, readerVars>>

AcceptWrite == /\ wpc = "test" /\ ~rb_full
               /\ wpc' = "store"
               /\ UNCHANGED <<data, write, todo, ack, readerVars>>

(* cb->data[cb->write] = data *)
StoreByte == /\ wpc = "store"
             /\ data' = [data EXCEPT ![write] = Head(todo)]
             /\ wpc' = "advance"
             /\ UNCHANGED <<write, todo, ack, readerVars>>

(* The byte becomes visible; the loop of rb_write_string takes the next. *)
AdvanceWrite == /\ wpc = "advance"
                /\ write' = Mask(write + 1)
                /\ ack' = "ERROR_NONE"
                /\ todo' = Tail(todo)
                /\ wpc' = IF Tail(todo) = <<>> THEN "idle" ELSE "test"
                /\ UNCHANGED <<data, readerVars>>

Writer == \/ \E bytes \in Calls : Call(bytes)
          \/ RefuseWrite \/ AcceptWrite \/ StoreByte \/ AdvanceWrite
-----------------------------------------------------------------------------
(* rb_read.                                                                *)

RefuseRead == /\ rpc = "idle" /\ rb_empty
              /\ got' = NoByte
              /\ UNCHANGED <<data, read, rpc, rbyte, writerVars>>

AcceptRead == /\ rpc = "idle" /\ ~rb_empty
              /\ rpc' = "load"
              /\ UNCHANGED <<data, read, rbyte, got, writerVars>>

(* *data = cb->data[cb->read] *)
LoadByte == /\ rpc = "load"
            /\ rbyte' = data[read]
            /\ rpc' = "advance"
            /\ UNCHANGED <<data, read, got, writerVars>>

(* The slot becomes free and the call returns its byte. *)
AdvanceRead == /\ rpc = "advance"
               /\ read' = Mask(read + 1)
               /\ got' = rbyte
               /\ rpc' = "idle"
               /\ UNCHANGED <<data, rbyte, writerVars>>

Reader == RefuseRead \/ AcceptRead \/ LoadByte \/ AdvanceRead
-----------------------------------------------------------------------------
Next == Writer \/ Reader

Spec == Init /\ [][Next]_vars

TypeOK == /\ data \in [Slot -> Byte \cup {NoByte}]
          /\ read \in Slot
          /\ write \in Slot
          /\ wpc \in {"idle", "test", "store", "advance"}
          /\ todo \in Seq(Byte)
          /\ ack \in {"ERROR_NONE", "ERROR_BUFFER_FULL"}
          /\ rpc \in {"idle", "load", "advance"}
          /\ rbyte \in Byte \cup {NoByte}
          /\ got \in Byte \cup {NoByte}

(* The writer never stores into the slot the reader is about to load, or   *)
(* has loaded and not yet released: the length test of rb_write keeps one  *)
(* slot free, and the reader releases a slot only after loading it.        *)
NoSlotRace == wpc = "store" /\ rpc # "idle" => write # read

(* The bytes accepted and not yet returned, oldest first: the slots from   *)
(* read up to write.                                                       *)
Pending == [i \in 1..rb_length |-> data[Mask(read + i - 1)]]

Abstract == INSTANCE Fifo WITH Capacity <- Size - 1, queue <- Pending

(***************************************************************************)
(* Why these hold: the inductive invariant.  The other side can only make  *)
(* what one side has tested more true: a reader shortens the buffer, so a  *)
(* writer past its test still has a free slot; a writer lengthens it, so a *)
(* reader past its test still has a byte.                                  *)
(***************************************************************************)
WriterInv == /\ wpc = "idle" <=> todo = <<>>
             /\ wpc \in {"store", "advance"} => ~rb_full
             /\ wpc = "advance" => data[write] = Head(todo)

ReaderInv == /\ rpc # "idle" => ~rb_empty
             /\ rpc = "advance" => rbyte = data[read]

PendingInv == \A i \in 1..rb_length : data[Mask(read + i - 1)] \in Byte

(* The inductive invariant: a side that has passed its test keeps what it  *)
(* tested, a reader holds the byte of the slot it is about to release, and *)
(* every pending slot holds a byte that was written.                       *)
IInv == TypeOK /\ WriterInv /\ ReaderInv /\ PendingInv

(* The buffer implements the bounded queue of module Fifo whatever the     *)
(* interleaving of rb_write and rb_read: no byte is lost, repeated,        *)
(* reordered or torn, and FULL and EMPTY are returned only when true.      *)
RefinesFifo == Abstract!Spec
=============================================================================
