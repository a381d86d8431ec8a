-------------------------------- MODULE Fifo --------------------------------
(***************************************************************************)
(* What a ring buffer of react/circular.c promises to its two clients, one *)
(* that writes bytes and one that reads them: a bounded first-in first-out *)
(* queue whose refusals are exact.  A write is refused only when the queue *)
(* holds Capacity bytes, a read only when it holds none, and a read        *)
(* returns the oldest byte that has not been returned yet.                 *)
(***************************************************************************)
EXTENDS Naturals, Sequences

CONSTANTS Byte,      \* the bytes a client may write
          Capacity,  \* the number of bytes the queue can hold
          NoByte     \* what `got' shows before a read has returned a byte

VARIABLES queue,     \* the bytes accepted and not yet returned, oldest first
          ack,       \* what the last write returned
          got        \* the byte the last read returned, or NoByte

vars == <<queue, ack, got>>

Init == /\ queue = <<>>
        /\ ack = "ERROR_NONE"
        /\ got = NoByte

(* A write that is accepted. *)
Put(b) == /\ Len(queue) < Capacity
          /\ queue' = Append(queue, b)
          /\ ack' = "ERROR_NONE"
          /\ UNCHANGED got

(* A write that is refused. *)
PutFull == /\ Len(queue) = Capacity
           /\ ack' = "ERROR_BUFFER_FULL"
           /\ UNCHANGED <<queue, got>>

(* A read that returns a byte. *)
Get == /\ queue # <<>>
       /\ got' = Head(queue)
       /\ queue' = Tail(queue)
       /\ UNCHANGED ack

(* A read that finds nothing. *)
GetEmpty == /\ queue = <<>>
            /\ got' = NoByte
            /\ UNCHANGED <<queue, ack>>

Next == \/ \E b \in Byte : Put(b)
        \/ PutFull
        \/ Get
        \/ GetEmpty

Spec == Init /\ [][Next]_vars
=============================================================================
