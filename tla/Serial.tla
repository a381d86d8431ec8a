-------------------------------- MODULE Serial --------------------------------
(***************************************************************************)
(* component/Serial between two ring buffers and a UART, with the          *)
(* callbacks of app/uart_menu/main.c, which echo what is received and copy *)
(* a line that has ended to the command of the menu.                       *)
(*                                                                         *)
(* The buffers are the bounded queues that RingBuffer is shown to be; of   *)
(* the array of the receive buffer only the write index is kept, because   *)
(* the echo looks at the slot before it.                                   *)
(***************************************************************************)
EXTENDS Naturals, Sequences, SequencesExt, FiniteSetsExt

CONSTANTS Letter,      \* the bytes a line is made of
          Stray,       \* the bytes found where no byte was received or stored
          BUFFER_SIZE  \* the slots of each ring buffer

CR   == "CR"
NUL  == "NUL"
Char == Letter \cup {CR}

ASSUME SerialAssumption == /\ BUFFER_SIZE \in Nat \ {0, 1}
                           /\ Stray \subseteq Char \cup {NUL} /\ CR \notin Letter
                           /\ NUL \notin Char

VARIABLES serial,   \* the component: stage, mode, sending
          uart,     \* the receive register, and whether a byte may be sent
          tx,       \* the bytes waiting to be sent
          rx,       \* the bytes received, and the write index
          command,  \* the string the menu is offered
          wire,     \* history: the byte last sent
          lines     \* history: the lines read and not yet run or refused

serialVars == <<serial, uart, tx, rx, command, wire, lines>>

SerialInit ==
  /\ serial = [stage |-> "DEFINED", mode |-> "TRANSCIEVER", sending |-> NUL]
  /\ uart = [in |-> NUL, ready |-> TRUE]
  /\ tx = <<>> /\ rx = [bytes |-> <<>>, write |-> 0]
  /\ command = <<>> /\ wire = NUL /\ lines = <<>>

(* The peer sends no NUL, and no byte before the last one was received.    *)
PeerSends(b) == /\ uart.in = NUL
                /\ uart' = [uart EXCEPT !.in = b]
                /\ UNCHANGED <<serial, tx, rx, command, wire, lines>>

UartDrains == /\ ~uart.ready
              /\ uart' = [uart EXCEPT !.ready = TRUE]
              /\ UNCHANGED <<serial, tx, rx, command, wire, lines>>
-----------------------------------------------------------------------------
(* Fault: a write that does not test for room.                             *)
Written_untested(queue, bytes) == queue \o bytes

(* rb_write and rb_write_string: what does not fit is dropped.             *)
Written(queue, bytes) ==
  SubSeq(queue \o bytes, 1, Min({Len(queue \o bytes), BUFFER_SIZE - 1}))

(* willMount, and release in the mode a state of zeros has: it sends NUL.  *)
Serial_mount == /\ serial.stage = "DEFINED"
                /\ serial' = [serial EXCEPT !.stage = "RELEASED"]
                /\ uart' = [uart EXCEPT !.ready = FALSE]
                /\ wire' = NUL
                /\ UNCHANGED <<tx, rx, command, lines>>

(* The ways shouldUpdate goes: a byte has come in,                         *)
PollReceived == /\ uart.in # NUL
                /\ serial' = [serial EXCEPT !.stage = "PREPARED", !.mode = "RECEIVER"]
                /\ UNCHANGED tx

(* a byte can go out and there is none,                                    *)
PollIdle == /\ uart.in = NUL
            /\ \/ ~uart.ready /\ UNCHANGED serial
               \/ uart.ready /\ tx = <<>> /\ serial' = [serial EXCEPT !.mode = "TRANSCIEVER"]
            /\ UNCHANGED tx

(* Fault: the mode of the byte before.                                     *)
PollSend_mode == /\ uart.in = NUL /\ uart.ready /\ tx # <<>> /\ Head(tx) # NUL
                 /\ serial' = [serial EXCEPT !.stage = "PREPARED", !.sending = Head(tx)]
                 /\ tx' = Tail(tx)

(* there is one,                                                           *)
PollSend == /\ uart.in = NUL /\ uart.ready /\ tx # <<>> /\ Head(tx) # NUL
            /\ serial' = [stage |-> "PREPARED", mode |-> "TRANSCIEVER", sending |-> Head(tx)]
            /\ tx' = Tail(tx)

(* or there is a NUL, which takes the next byte with it and makes the      *)
(* component receive.                                                      *)
PollNul == /\ uart.in = NUL /\ uart.ready /\ tx # <<>> /\ Head(tx) = NUL
           /\ serial' = [stage |-> "PREPARED", mode |-> "RECEIVER", sending |-> NUL]
           /\ tx' = SubSeq(tx, 3, Len(tx))

Serial_poll == /\ serial.stage = "RELEASED"
               /\ PollReceived \/ PollIdle \/ PollSend \/ PollNul
               /\ UNCHANGED <<uart, rx, command, wire, lines>>

(* release and didUpdate in the two modes.                                 *)
Serial_transmit == /\ serial.stage = "PREPARED" /\ serial.mode = "TRANSCIEVER"
                   /\ wire' = serial.sending
                   /\ uart' = [uart EXCEPT !.ready = FALSE]
                   /\ serial' = [serial EXCEPT !.stage = "RELEASED", !.sending = NUL]
                   /\ UNCHANGED <<tx, rx, command, lines>>

(* The byte in the slot before the write index, which may be before the    *)
(* array, and is an older byte when the new one was dropped.               *)
read_symbol(buffer) == IF buffer.write = 0 THEN Stray ELSE {Last(buffer.bytes)}

(* The bytes up to a NUL, without the last one, which should be the CR; a  *)
(* NUL at the start leaves the command as it was.                          *)
read_command(bytes) ==
  LET nul    == SelectInSeq(bytes, LAMBDA b : b = NUL)
      copied == IF nul = 0 THEN bytes ELSE SubSeq(bytes, 1, nul - 1)
  IN  [line |-> IF copied = <<>> THEN command ELSE Front(copied), new |-> Len(copied) > 1,
       rest |-> IF nul = 0 THEN <<>> ELSE SubSeq(bytes, nul + 1, Len(bytes))]

(* A byte that is received, stored if there is room, echoed, and read with *)
(* the line it ends; the rest of the line stays in the buffer till then.   *)
Serial_receive ==
  LET fits == Len(rx.bytes) < BUFFER_SIZE - 1
  IN  \E b \in IF uart.in # NUL THEN {uart.in} ELSE Stray :
        LET buffer == IF fits THEN [bytes |-> Append(rx.bytes, b),
                                    write |-> (rx.write + 1) % BUFFER_SIZE]
                      ELSE rx
            read   == read_command(buffer.bytes)
        IN  /\ serial.stage = "PREPARED" /\ serial.mode = "RECEIVER"
            /\ serial' = [serial EXCEPT !.stage = "RELEASED", !.sending = NUL]
            /\ uart' = [uart EXCEPT !.in = NUL]
            /\ \E echo \in read_symbol(buffer) : tx' = Written(tx, <<echo>>)
            /\ IF b = CR
               THEN /\ rx' = [buffer EXCEPT !.bytes = read.rest]
                    /\ command' = read.line
                    /\ lines' = IF read.new THEN Append(lines, read.line) ELSE lines
               ELSE rx' = buffer /\ UNCHANGED <<command, lines>>
            /\ UNCHANGED wire

SerialTurn == Serial_mount \/ Serial_poll \/ Serial_transmit \/ Serial_receive
-----------------------------------------------------------------------------
SerialTypeOK ==
  /\ serial \in [stage : {"DEFINED", "PREPARED", "RELEASED"},
                 mode : {"TRANSCIEVER", "RECEIVER"}, sending : Char \cup {NUL}]
  /\ uart \in [in : Char \cup {NUL}, ready : BOOLEAN]
  /\ tx \in BoundedSeq(Char \cup {NUL}, BUFFER_SIZE - 1)
  /\ rx \in [bytes : BoundedSeq(Char \cup {NUL}, BUFFER_SIZE - 1),
             write : 0..(BUFFER_SIZE - 1)]
  /\ command \in BoundedSeq(Char, BUFFER_SIZE - 2)

(* What waits to be sent is sent in order, byte for byte, however often    *)
(* receiving comes first and strings are written in between; only a NUL    *)
(* and the byte after it are lost, and only the mount sends what nobody    *)
(* has written.                                                            *)
Unsent == (IF serial.stage = "PREPARED" /\ serial.mode = "TRANSCIEVER"
           THEN <<serial.sending>> ELSE <<>>) \o tx

Sends == uart.ready /\ ~uart'.ready

SentInOrder ==
  [][\/ serial.stage = "DEFINED"
     \/ ~Sends /\ IsPrefix(Unsent, Unsent')
     \/ ~Sends /\ Head(Unsent) = NUL /\ Unsent' = SubSeq(Unsent, 3, Len(Unsent))
     \/ Sends /\ Unsent = <<wire'>> \o Unsent']_serialVars
=============================================================================
