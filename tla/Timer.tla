-------------------------------- MODULE Timer --------------------------------
(***************************************************************************)
(* component/Timer: ticks of a hardware counter carried to microseconds,   *)
(* milliseconds and seconds, one turn of the event loop after the other.   *)
(*                                                                         *)
(* The counter is read in one step, and the loop takes its turns before    *)
(* the counter has come round to the tick it was last read at.  time_us    *)
(* and time_ms are counted on; a reader sees them modulo their width.      *)
(***************************************************************************)
EXTENDS Integers

CONSTANTS TimerWord,  \* the number of values of the counter
          Thousand,   \* the units of one timestamp in a unit of the next
          MsWord,     \* the number of values of time.ms
          MaxMs,      \* the most milliseconds one turn may add
          MaxTime     \* the ticks of a behaviour

ASSUME TimerAssumption ==
  /\ TimerWord \in Nat \ {0, 1} /\ TimerWord % 2 = 0
  /\ Thousand \in Nat \ {0, 1}
  /\ MsWord \in Nat \ {0} /\ MaxTime \in Nat
  /\ MaxMs \in Nat \ {0} /\ TimerWord <= 2 * (Thousand * MaxMs)

VARIABLES counter,  \* TCNT1, which ticks twice in a microsecond
          timer,    \* the component: stage, state and struct Timer
          elapsed,  \* history: the ticks since the start
          odd       \* history: the odd intervals between two readings

timerVars == <<counter, timer, elapsed, odd>>

TimerInit ==
  /\ counter = 0 /\ elapsed = 0 /\ odd = 0
  /\ timer = [stage |-> "DEFINED", tick |-> 0, passed |-> 0, us |-> 0, ms |-> 0,
              step_us |-> 0, time_us |-> 0, time_ms |-> 0, timestamp |-> 0]

Unread == (counter - timer.tick) % TimerWord

TimerTick == /\ elapsed < MaxTime /\ Unread < TimerWord - 1
             /\ counter' = (counter + 1) % TimerWord
             /\ elapsed' = elapsed + 1
             /\ UNCHANGED <<timer, odd>>
-----------------------------------------------------------------------------
timer_usFromTicks(ticks) == ticks \div 2

(* willMount starts the counter; release has nothing to carry yet.         *)
Timer_mount == /\ timer.stage = "DEFINED"
               /\ timer' = [timer EXCEPT !.stage = "RELEASED"]
               /\ UNCHANGED <<counter, elapsed, odd>>

(* Fault: the correction for an overflow as a signed passed would have it. *)
Timer_passed_corrected == IF counter < timer.tick
                          THEN TimerWord - 1 - timer.tick + counter
                          ELSE counter - timer.tick

(* An unsigned difference: the correction for an overflow never runs.      *)
Timer_passed == (counter - timer.tick) % TimerWord

Timer_willUpdate == /\ timer.stage = "RELEASED"
                    /\ timer' = [timer EXCEPT !.stage = "PREPARED", !.tick = counter,
                                              !.passed = Timer_passed]
                    /\ odd' = odd + (Unread % 2)
                    /\ UNCHANGED <<counter, elapsed>>

(* Fault: one unit carried, however many are due.                          *)
Carry_one(units) == IF units > Thousand THEN 1 ELSE 0

(* The full units of the next timestamp, carried once there is more than   *)
(* one of them.                                                            *)
Carry(units) == IF units > Thousand THEN units \div Thousand ELSE 0

(* Fault: the milliseconds of the last turn only.                          *)
Timer_release_assigned ==
  LET step == timer_usFromTicks(timer.passed)
      n    == Carry(timer.us + step)
  IN  /\ timer.stage = "PREPARED"
      /\ timer' = [timer EXCEPT !.stage = "RELEASED", !.step_us = step,
                                !.time_us = @ + step, !.us = @ + step - n * Thousand,
                                !.time_ms = n, !.ms = @ + n]
      /\ UNCHANGED <<counter, elapsed, odd>>

Timer_release ==
  LET step == timer_usFromTicks(timer.passed)
      n    == Carry(timer.us + step)
      s    == IF n > 0 THEN Carry(timer.ms + n) ELSE 0
  IN  /\ timer.stage = "PREPARED"
      /\ timer' = [timer EXCEPT
            !.stage = "RELEASED", !.step_us = step,
            !.time_us = @ + step, !.us = @ + step - n * Thousand,
            !.time_ms = @ + n,    !.ms = @ + n - s * Thousand,
            !.timestamp = @ + s]
      /\ UNCHANGED <<counter, elapsed, odd>>

TimerTurn == Timer_mount \/ Timer_willUpdate \/ Timer_release

TimerNext == TimerTick \/ TimerTurn

TimerSpec == TimerInit /\ [][TimerNext]_timerVars
-----------------------------------------------------------------------------
TimerTypeOK ==
  /\ counter \in 0..(TimerWord - 1) /\ elapsed \in 0..MaxTime /\ odd \in Nat
  /\ timer \in [stage : {"DEFINED", "PREPARED", "RELEASED"},
                tick : 0..(TimerWord - 1), passed : 0..(TimerWord - 1),
                us : Nat, ms : Nat, step_us : Nat, time_us : Nat, time_ms : Nat,
                timestamp : Nat]

(* No time is lost or made up where the counter wraps: the ticks since the *)
(* start are those of time.us, those still to be read or to be released,   *)
(* and one for each odd interval, which the shift in usFromTicks drops.    *)
Unreleased == IF timer.stage = "PREPARED"
              THEN 2 * timer_usFromTicks(timer.passed) ELSE 0

TimeIsKept == elapsed = 2 * timer.time_us + Unreleased + Unread + odd

(* The three timestamps agree: what a unit has not carried yet is held in  *)
(* state, and is never more than one unit of the next.                     *)
TimeIsCarried ==
  /\ timer.time_us = Thousand * timer.time_ms + timer.us
  /\ timer.time_ms = Thousand * timer.timestamp + timer.ms
  /\ timer.us \in 0..Thousand /\ timer.ms \in 0..Thousand

(* The milliseconds that other components read are a Clock.                *)
Ms == INSTANCE Clock WITH Word <- MsWord, MaxPass <- MaxMs,
                          now <- timer.time_ms % MsWord

TimeIsAClock == Ms!ClockSpec
=============================================================================
