------------------------------- MODULE Bitbang -------------------------------
(***************************************************************************)
(* component/Bitbang with the lines of app/banging.c: a clock, an output   *)
(* and an input, each with a ring buffer.  A byte is the set of its bits   *)
(* that are one.  Turns are paced by the baudrate, which the model leaves  *)
(* open: a turn may always find that the bit is not over yet.              *)
(***************************************************************************)
EXTENDS Integers, Sequences

CONSTANTS Width,  \* the bits of a byte (8 in the code)
          Room    \* the bytes a ring buffer has room for

ASSUME BitbangAssumption == Width \in Nat \ {0} /\ Room \in Nat \ {0}

VARIABLES spi,    \* the component: stage, little_endian, state
          fifo,   \* the two ring buffers
          line,   \* the levels of clock and output
          slave   \* history: the byte under way, the bits on the output at the rising
                  \* edges of the clock, the bits of the input read under a high clock

bitbangVars == <<spi, fifo, line, slave>>

Bit     == 0..(Width - 1)
BitByte == SUBSET Bit

BitbangInit ==
  /\ spi = [stage |-> "DEFINED", little_endian |-> FALSE, sending |-> FALSE,
            out |-> {}, in |-> {}, position |-> 0]
  /\ fifo = [out |-> <<>>, in |-> <<>>]
  /\ line = [clock |-> FALSE, out |-> FALSE]
  /\ slave = [byte |-> {}, bits |-> <<>>, heard |-> <<>>]

Write(b) == /\ Len(fifo.out) < Room
            /\ fifo' = [fifo EXCEPT !.out = Append(@, b)]
            /\ UNCHANGED <<spi, line, slave>>

ReadInput == /\ fifo.in # <<>>
             /\ fifo' = [fifo EXCEPT !.in = Tail(@)]
             /\ UNCHANGED <<spi, line, slave>>
-----------------------------------------------------------------------------
(* willMount and release.                                                  *)
Bitbang_mount == \E little_endian \in BOOLEAN :
  /\ spi.stage = "DEFINED"
  /\ spi' = [spi EXCEPT !.stage = "RELEASED", !.little_endian = little_endian]
  /\ UNCHANGED <<fifo, line, slave>>

reverse(b) == {Width - 1 - k : k \in b}

(* A byte under way that is zero looks like no byte at all.                *)
Bitbang_shouldUpdate == spi.out # {} \/ fifo.out # <<>>

(* Fault: the next byte is read while one is being sent.                   *)
Loads_always == fifo.out # <<>>

(* willUpdate of the output line: the next byte, when none is being sent.  *)
Loads == ~spi.sending /\ fifo.out # <<>>

Loaded == IF spi.little_endian THEN reverse(Head(fifo.out)) ELSE Head(fifo.out)

(* willUpdate of the input line: a whole byte is stored, if it is not zero *)
(* and there is room ...                                                   *)
Stored == IF spi.position = -1 /\ spi.in # {} /\ Len(fifo.in) < Room
          THEN Append(fifo.in, spi.in) ELSE fifo.in

(* Fault: bits are set and never cleared.                                  *)
Heard_set(level) == IF spi.position \in Bit /\ level THEN spi.in \cup {spi.position} ELSE spi.in

(* ... or the level of the pin is put in its place; there is no place      *)
(* after the last bit.                                                     *)
Heard(level) == IF spi.position \notin Bit THEN spi.in
                ELSE IF level THEN spi.in \cup {spi.position} ELSE spi.in \ {spi.position}

Bitbang_willUpdate == \E level \in BOOLEAN :
  /\ spi.stage = "RELEASED" /\ Bitbang_shouldUpdate
  /\ spi' = [spi EXCEPT !.stage = "PREPARED", !.sending = @ \/ Loads,
                        !.out = IF Loads THEN Loaded ELSE @, !.in = Heard(level),
                        !.position = IF @ = -1 THEN 0 ELSE @]
  /\ fifo' = [out |-> IF Loads THEN Tail(fifo.out) ELSE fifo.out, in |-> Stored]
  /\ line' = [line EXCEPT !.clock = FALSE]
  /\ slave' = IF Loads THEN [byte |-> Head(fifo.out), bits |-> <<>>, heard |-> <<>>]
              ELSE IF line.clock THEN [slave EXCEPT !.heard = Append(@, level)]
              ELSE slave

(* release sets the output, didUpdate moves on to the next bit with a      *)
(* rising clock, or ends the byte.                                         *)
Bitbang_release ==
  LET last == spi.position = Width
      rise == spi.sending /\ ~last
  IN  /\ spi.stage = "PREPARED"
      /\ spi' = [spi EXCEPT !.stage = "RELEASED", !.out = IF last THEN {} ELSE @,
                            !.sending = @ /\ ~last,
                            !.position = IF rise THEN @ + 1 ELSE IF spi.sending THEN -1 ELSE @]
      /\ line' = [out |-> spi.position \in spi.out, clock |-> rise]
      /\ slave' = IF rise THEN [slave EXCEPT !.bits = Append(@, line'.out)] ELSE slave
      /\ UNCHANGED fifo

BitbangTurn == Bitbang_mount \/ Bitbang_willUpdate \/ Bitbang_release

BitbangNext == (\E b \in BitByte : Write(b)) \/ ReadInput \/ BitbangTurn

BitbangSpec == BitbangInit /\ [][BitbangNext]_bitbangVars
-----------------------------------------------------------------------------
BitbangTypeOK ==
  /\ spi \in [stage : {"DEFINED", "PREPARED", "RELEASED"}, little_endian : BOOLEAN,
              sending : BOOLEAN, out : BitByte, in : BitByte, position : -1..Width]
  /\ \A q \in {fifo.out, fifo.in} :
       Len(q) <= Room /\ \A i \in 1..Len(q) : q[i] \in BitByte
  /\ line \in [clock : BOOLEAN, out : BOOLEAN]
  /\ slave.byte \in BitByte /\ Len(slave.bits) <= Width /\ Len(slave.heard) <= Width

(* A byte has ended: its bits, one for each rising edge of the clock, are  *)
(* those of the byte taken from the buffer, the lowest first or last, also *)
(* of a zero byte, which has to wait for the next one to be written.       *)
BitsAreClocked ==
  spi.position = -1 =>
    slave.bits = [i \in 1..Width |-> (IF spi.little_endian THEN Width - i ELSE i - 1)
                                       \in slave.byte]

(* What is read under the k-th pulse of the clock becomes bit k, counting  *)
(* from 0, of the byte read: the byte comes out shifted by one, without    *)
(* the level read under the last pulse.  Whatever little_endian asks for:  *)
(* Bitbang.h:20 calls it the order in which bits are sent and read, but    *)
(* only the byte that is sent is reversed for it (Bitbang.c:105), so that  *)
(* a slave that sends in the order it is sent to is read the wrong way     *)
(* round in one of the two.                                                *)
InputIsShifted ==
  spi.position = -1 =>
    /\ Len(slave.heard) = Width
    /\ spi.in \ {0} = {k \in 1..(Width - 1) : slave.heard[k]}
=============================================================================
