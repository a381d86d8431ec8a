----------------------------- MODULE Time_proofs -----------------------------
(***************************************************************************)
(* Proofs about the components that keep the time or read it in their      *)
(* turns: Timer, and PWM, Button and Encoder behind a Clock, for every     *)
(* width of the counter and of the timestamps, every turn the clock        *)
(* allows, every duty cycle and every bounce delay; and about the calendar *)
(* a Timer computes, for every year and any length of the day.             *)
(***************************************************************************)
EXTENDS Timer, Button, PWM, Encoder, Calendar, WellFoundedInduction, TLAPS

(* Every set of numbers that is not empty has a least one: the form in     *)
(* which the proofs do induction.                                          *)
LEMMA Least ==
  ASSUME NEW T, T \subseteq Nat, T # {}
  PROVE  \E x \in T : \A y \in T : x <= y
<1>1. \E x \in T : \A y \in T : <<y, x>> \notin OpToRel(<, Nat)
  BY NatLessThanWellFounded, WFMin
<1>2. \A x, y \in T : <<y, x>> \in OpToRel(<, Nat) <=> y < x
  BY DEF OpToRel
<1>3. \E x \in T : \A y \in T : ~(y < x)
  BY <1>1, <1>2, Zenon
<1>. QED
  BY <1>3
-----------------------------------------------------------------------------
(* Timer.  The lemmas take the remainders and quotients apart; the rest    *)
(* does not look inside them.                                              *)

(* The distance from an earlier reading of a counter that wraps.           *)
LEMMA Distance ==
  ASSUME NEW x \in 0..(TimerWord - 1), NEW y \in 0..(TimerWord - 1)
  PROVE  (x - y) % TimerWord = IF x >= y THEN x - y ELSE x - y + TimerWord
<1>1. CASE x >= y
  <2>1. x - y \in 0..(TimerWord - 1)
    BY <1>1, TimerAssumption
  <2>. QED
    BY <1>1, <2>1, TimerAssumption, Z3
<1>2. CASE ~(x >= y)
  BY <1>2, TimerAssumption, Z3
<1>. QED
  BY <1>1, <1>2

(* The tick after a reading.                                               *)
LEMMA Successor ==
  ASSUME NEW x \in 0..(TimerWord - 1)
  PROVE  (x + 1) % TimerWord = IF x + 1 = TimerWord THEN 0 ELSE x + 1
  BY TimerAssumption, Z3

(* The carry leaves less than it takes, and no more than a full unit.      *)
LEMMA Carried ==
  ASSUME NEW units \in Nat
  PROVE  /\ Carry(units) \in Nat
         /\ units - Carry(units) * Thousand \in 0..Thousand
<1>1. CASE units > Thousand
  <2>1. /\ units \div Thousand \in Nat
        /\ units - (units \div Thousand) * Thousand \in 0..Thousand
    BY TimerAssumption, Z3
  <2>. QED
    BY <1>1, <2>1 DEF Carry
<1>2. CASE ~(units > Thousand)
  BY <1>2, TimerAssumption DEF Carry
<1>. QED
  BY <1>1, <1>2

(* The carry is bounded by what a turn of the loop can find.               *)
LEMMA CarryBound ==
  ASSUME NEW us \in 0..Thousand, NEW passed \in 0..(TimerWord - 1)
  PROVE  Carry(us + timer_usFromTicks(passed)) \in 0..MaxMs
<1>1. /\ timer_usFromTicks(passed) \in Nat
      /\ timer_usFromTicks(passed) < Thousand * MaxMs
  BY TimerAssumption, Z3 DEF timer_usFromTicks
<1> DEFINE units == us + timer_usFromTicks(passed)
<1>2. units \in Nat /\ units < Thousand * MaxMs + Thousand
  BY <1>1, TimerAssumption
<1>3. units \div Thousand \in Nat /\ (units \div Thousand) * Thousand <= units
  <2> HIDE DEF units
  <2>. QED
    BY <1>2, TimerAssumption, Z3
<1>4. units \div Thousand <= MaxMs
  <2> HIDE DEF units
  <2>1. SUFFICES ASSUME units \div Thousand >= MaxMs + 1 PROVE FALSE
    BY <1>3, TimerAssumption
  <2>2. (units \div Thousand) * Thousand >= (MaxMs + 1) * Thousand
    BY <1>3, <2>1, TimerAssumption, Z3
  <2>. QED
    BY <1>2, <1>3, <2>2, TimerAssumption, Z3
<1>. QED
  BY <1>3, <1>4, TimerAssumption DEF Carry
-----------------------------------------------------------------------------
TimerInv == TimerTypeOK /\ TimeIsKept /\ TimeIsCarried

LEMMA TimerInitInv == TimerInit => TimerInv
<1> SUFFICES ASSUME TimerInit PROVE TimerInv
  OBVIOUS
<1>1. (0 - 0) % TimerWord = 0
  BY TimerAssumption, Distance
<1>. QED
  BY <1>1, TimerAssumption
  DEF TimerInit, TimerInv, TimerTypeOK, TimeIsKept, TimeIsCarried, Unread, Unreleased

LEMMA TickInv == ASSUME TimerInv, TimerTick PROVE TimerInv'
<1>1. /\ counter \in 0..(TimerWord - 1) /\ timer.tick \in 0..(TimerWord - 1)
      /\ counter' = (counter + 1) % TimerWord /\ elapsed' = elapsed + 1
      /\ elapsed \in 0..MaxTime /\ elapsed < MaxTime
      /\ timer' = timer /\ odd' = odd
  BY DEF TimerInv, TimerTypeOK, TimerTick
<1>2. counter' = IF counter + 1 = TimerWord THEN 0 ELSE counter + 1
  BY <1>1, Successor
<1>3. counter' \in 0..(TimerWord - 1)
  BY <1>1, <1>2, TimerAssumption
<1>4. /\ Unread = IF counter >= timer.tick THEN counter - timer.tick
                  ELSE counter - timer.tick + TimerWord
      /\ Unread' = IF counter' >= timer.tick THEN counter' - timer.tick
                   ELSE counter' - timer.tick + TimerWord
  BY <1>1, <1>3, Distance DEF Unread
<1>5. Unread \in Nat /\ Unread' = Unread + 1
  BY <1>1, <1>2, <1>4, TimerAssumption DEF TimerTick
<1>6. TimerTypeOK'
  BY <1>1, <1>3, TimerAssumption DEF TimerInv, TimerTypeOK
<1>7. TimeIsKept'
  <2>1. Unreleased' = Unreleased /\ Unreleased \in Int
    BY <1>1 DEF Unreleased, timer_usFromTicks, TimerInv, TimerTypeOK
  <2>2. timer.time_us \in Nat /\ odd \in Nat
    BY DEF TimerInv, TimerTypeOK
  <2>. QED
    BY <1>1, <1>5, <2>1, <2>2 DEF TimerInv, TimeIsKept
<1>8. TimeIsCarried'
  BY <1>1 DEF TimerInv, TimeIsCarried
<1>. QED
  BY <1>6, <1>7, <1>8 DEF TimerInv

LEMMA MountInv == ASSUME TimerInv, Timer_mount PROVE TimerInv'
  BY DEF TimerInv, TimerTypeOK, TimeIsKept, TimeIsCarried, Timer_mount, Unread, Unreleased

LEMMA WillUpdateInv == ASSUME TimerInv, Timer_willUpdate PROVE TimerInv'
<1>1. /\ counter \in 0..(TimerWord - 1) /\ timer.tick \in 0..(TimerWord - 1)
      /\ timer.stage = "RELEASED" /\ odd \in Nat
      /\ timer' = [timer EXCEPT !.stage = "PREPARED", !.tick = counter, !.passed = Unread]
      /\ odd' = odd + (Unread % 2)
      /\ counter' = counter /\ elapsed' = elapsed
  BY DEF TimerInv, TimerTypeOK, Timer_willUpdate, Timer_passed, Unread
<1>2. Unread \in 0..(TimerWord - 1)
  <2>1. Unread = IF counter >= timer.tick THEN counter - timer.tick
                 ELSE counter - timer.tick + TimerWord
    BY <1>1, Distance DEF Unread
  <2>. QED
    BY <1>1, <2>1, TimerAssumption
<1>3. Unread % 2 \in {0, 1} /\ 2 * (Unread \div 2) + (Unread % 2) = Unread
  <2> HIDE DEF Unread
  <2>. QED
    BY <1>2, TimerAssumption, Z3
<1>4. Unread' = 0
  <2>1. timer'.tick = counter
    BY <1>1 DEF TimerInv, TimerTypeOK
  <2>2. (counter - counter) % TimerWord = 0
    BY <1>1, Distance
  <2>. QED
    BY <1>1, <2>1, <2>2 DEF Unread
<1>5. TimerTypeOK'
  <2>1. odd' \in Nat
    BY <1>1, <1>3
  <2>. QED
    BY <1>1, <1>2, <2>1 DEF TimerInv, TimerTypeOK
<1>6. TimeIsKept'
  <2>1. Unreleased = 0 /\ Unreleased' = 2 * (Unread \div 2)
    BY <1>1 DEF Unreleased, timer_usFromTicks, TimerInv, TimerTypeOK
  <2>2. timer'.time_us = timer.time_us /\ timer.time_us \in Nat
    BY <1>1 DEF TimerInv, TimerTypeOK
  <2>3. Unread \div 2 \in Int
    BY <1>2, TimerAssumption
  <2>. QED
    BY <1>1, <1>2, <1>3, <1>4, <2>1, <2>2, <2>3, TimerAssumption DEF TimerInv, TimeIsKept
<1>7. TimeIsCarried'
  BY <1>1 DEF TimerInv, TimerTypeOK, TimeIsCarried
<1>. QED
  BY <1>5, <1>6, <1>7 DEF TimerInv

(* What the release computes: the step and the two carries.                *)
StepUs  == timer_usFromTicks(timer.passed)
Ms_passed == Carry(timer.us + StepUs)
S_passed  == IF Ms_passed > 0 THEN Carry(timer.ms + Ms_passed) ELSE 0

LEMMA ReleaseStep ==
  ASSUME TimerInv, Timer_release
  PROVE  /\ StepUs \in Nat /\ Ms_passed \in 0..MaxMs /\ S_passed \in Nat
         /\ timer.us + StepUs - Ms_passed * Thousand \in 0..Thousand
         /\ timer.ms + Ms_passed - S_passed * Thousand \in 0..Thousand
         /\ timer' = [timer EXCEPT
               !.stage = "RELEASED", !.step_us = StepUs, !.time_us = @ + StepUs,
               !.us = @ + StepUs - Ms_passed * Thousand, !.time_ms = @ + Ms_passed,
               !.ms = @ + Ms_passed - S_passed * Thousand, !.timestamp = @ + S_passed]
         /\ counter' = counter /\ elapsed' = elapsed /\ odd' = odd
<1>1. /\ timer.us \in 0..Thousand /\ timer.ms \in 0..Thousand
      /\ timer.passed \in 0..(TimerWord - 1)
  BY DEF TimerInv, TimerTypeOK, TimeIsCarried
<1>2. StepUs \in Nat
  BY <1>1, TimerAssumption DEF StepUs, timer_usFromTicks
<1>3. timer.us + StepUs - Ms_passed * Thousand \in 0..Thousand
  BY <1>1, <1>2, TimerAssumption, Carried DEF Ms_passed
<1>4. Ms_passed \in 0..MaxMs
  BY <1>1, CarryBound DEF Ms_passed, StepUs
<1>5. /\ S_passed \in Nat
      /\ timer.ms + Ms_passed - S_passed * Thousand \in 0..Thousand
  <2>1. timer.ms + Ms_passed \in Nat
    BY <1>1, <1>4, TimerAssumption
  <2>2. CASE Ms_passed > 0
    <3> DEFINE units == timer.ms + Ms_passed
    <3>1. S_passed = Carry(units)
      BY <2>2 DEF S_passed
    <3>2. S_passed \in Nat /\ units - S_passed * Thousand \in 0..Thousand
      <4>1. units \in Nat
        BY <2>1
      <4> HIDE DEF units
      <4>2. Carry(units) \in Nat /\ units - Carry(units) * Thousand \in 0..Thousand
        BY <4>1, Carried
      <4>. QED
        BY <3>1, <4>2, Zenon
    <3>3. timer.ms \in Int /\ Ms_passed \in Int /\ S_passed * Thousand \in Int
      BY <1>1, <1>4, <3>2, TimerAssumption
    <3>. QED
      BY <3>2, <3>3
  <2>3. CASE ~(Ms_passed > 0)
    BY <1>1, <1>4, <2>3, TimerAssumption DEF S_passed
  <2>. QED
    BY <2>2, <2>3
<1>. QED
  BY <1>2, <1>3, <1>4, <1>5, Zenon DEF Timer_release, StepUs, Ms_passed, S_passed

LEMMA ReleaseInv == ASSUME TimerInv, Timer_release PROVE TimerInv'
<1>1. /\ timer.us \in Nat /\ timer.ms \in Nat /\ timer.passed \in 0..(TimerWord - 1)
      /\ timer.time_us \in Nat /\ timer.time_ms \in Nat /\ timer.timestamp \in Nat
      /\ timer.tick \in 0..(TimerWord - 1) /\ timer.stage = "PREPARED"
      /\ timer = [stage |-> timer.stage, tick |-> timer.tick, passed |-> timer.passed,
                  us |-> timer.us, ms |-> timer.ms, step_us |-> timer.step_us,
                  time_us |-> timer.time_us, time_ms |-> timer.time_ms,
                  timestamp |-> timer.timestamp]
  BY DEF TimerInv, TimerTypeOK, Timer_release
<1> DEFINE us == timer.us + StepUs - Ms_passed * Thousand
           ms == timer.ms + Ms_passed - S_passed * Thousand
<1>2. timer' = [stage |-> "RELEASED", tick |-> timer.tick, passed |-> timer.passed,
                us |-> us, ms |-> ms, step_us |-> StepUs, time_us |-> timer.time_us + StepUs,
                time_ms |-> timer.time_ms + Ms_passed,
                timestamp |-> timer.timestamp + S_passed]
  BY <1>1, ReleaseStep
<1>3. /\ StepUs \in Nat /\ Ms_passed \in Nat /\ S_passed \in Nat
      /\ us \in 0..Thousand /\ ms \in 0..Thousand
      /\ counter' = counter /\ elapsed' = elapsed /\ odd' = odd
  BY ReleaseStep, TimerAssumption
<1>4. /\ StepUs \in Nat /\ Ms_passed \in Nat /\ S_passed \in Nat
      /\ timer'.us = timer.us + StepUs - Ms_passed * Thousand /\ timer'.us \in 0..Thousand
      /\ timer'.ms = timer.ms + Ms_passed - S_passed * Thousand /\ timer'.ms \in 0..Thousand
      /\ timer'.time_us = timer.time_us + StepUs
      /\ timer'.time_ms = timer.time_ms + Ms_passed
      /\ timer'.timestamp = timer.timestamp + S_passed
      /\ timer'.stage = "RELEASED" /\ timer'.tick = timer.tick
      /\ counter' = counter /\ elapsed' = elapsed /\ odd' = odd
  BY <1>2, <1>3
<1>5. TimerTypeOK'
  <2> HIDE DEF us, ms
  <2>1. us \in Nat /\ ms \in Nat
    BY <1>3, TimerAssumption
  <2>. QED
    BY <1>1, <1>2, <1>3, <2>1 DEF TimerInv, TimerTypeOK
<1>6. TimeIsKept'
  <2>1. Unreleased = 2 * StepUs /\ Unreleased' = 0 /\ Unread' = Unread
    BY <1>1, <1>4 DEF Unreleased, StepUs, Unread
  <2>2. Unread \in Int /\ odd \in Nat
    BY TimerAssumption DEF Unread, TimerInv, TimerTypeOK
  <2>. QED
    BY <1>1, <1>4, <2>1, <2>2 DEF TimerInv, TimeIsKept
<1>7. TimeIsCarried'
  <2>1. /\ timer.time_us = Thousand * timer.time_ms + timer.us
        /\ timer.time_ms = Thousand * timer.timestamp + timer.ms
    BY DEF TimerInv, TimeIsCarried
  <2>2. timer'.time_us = Thousand * timer'.time_ms + timer'.us
    BY <1>1, <1>4, <2>1, TimerAssumption, Z3
  <2>3. timer'.time_ms = Thousand * timer'.timestamp + timer'.ms
    BY <1>1, <1>4, <2>1, TimerAssumption, Z3
  <2>. QED
    BY <1>4, <2>2, <2>3 DEF TimeIsCarried
<1>. QED
  BY <1>5, <1>6, <1>7 DEF TimerInv

LEMMA TimerNextInv == ASSUME TimerInv, [TimerNext]_timerVars PROVE TimerInv'
<1>1. CASE UNCHANGED timerVars
  BY <1>1 DEF timerVars, TimerInv, TimerTypeOK, TimeIsKept, TimeIsCarried, Unread, Unreleased
<1>. QED
  BY <1>1, TickInv, MountInv, WillUpdateInv, ReleaseInv DEF TimerNext, TimerTurn
-----------------------------------------------------------------------------
(* What a turn of Timer carries from one unit of time to the next, at each *)
(* step between the reading of the counter and its release.                *)
THEOREM TimerInvariance == TimerSpec => []TimerInv
<1>1. TimerInv /\ [TimerNext]_timerVars => TimerInv'
  BY TimerNextInv
<1>. QED
  BY TimerInitInv, <1>1, PTL DEF TimerSpec

(* The timestamps and the counter stay in range.                           *)
THEOREM TimerTypeCorrectness == TimerSpec => []TimerTypeOK
<1>1. TimerInv => TimerTypeOK
  BY DEF TimerInv
<1>. QED
  BY TimerInvariance, <1>1, PTL

(* No tick is lost but the odd one of each interval, for every counter.    *)
THEOREM TimeKept == TimerSpec => []TimeIsKept
<1>1. TimerInv => TimeIsKept
  BY DEF TimerInv
<1>. QED
  BY TimerInvariance, <1>1, PTL

(* The timestamps agree with each other.                                   *)
THEOREM TimeCarried == TimerSpec => []TimeIsCarried
<1>1. TimerInv => TimeIsCarried
  BY DEF TimerInv
<1>. QED
  BY TimerInvariance, <1>1, PTL
-----------------------------------------------------------------------------
(* A sum may be wrapped before or after the addition.                      *)
LEMMA WrappedSum ==
  ASSUME NEW x \in Nat, NEW n \in Nat
  PROVE  (x + n) % MsWord = ((x % MsWord) + n) % MsWord
<1> DEFINE q == x \div MsWord
           r == x % MsWord
           y == r + n
<1>1. q \in Nat /\ r \in Nat /\ x = q * MsWord + r
  BY TimerAssumption, Z3
<1> HIDE DEF q, r
<1>2. y \in Nat /\ x + n = q * MsWord + y
  BY <1>1, TimerAssumption
<1> HIDE DEF y
<1> DEFINE p == y \div MsWord
           s == y % MsWord
<1>3. p \in Nat /\ s \in 0..(MsWord - 1) /\ y = p * MsWord + s
  BY <1>2, TimerAssumption, Z3
<1>4. x + n = (q + p) * MsWord + s
  <2> HIDE DEF p, s
  <2>. QED
    BY <1>1, <1>2, <1>3, TimerAssumption, Z3
<1>5. ((q + p) * MsWord + s) % MsWord = s
  <2> HIDE DEF p, s
  <2>. QED
    BY <1>1, <1>3, TimerAssumption, Z3
<1>. QED
  BY <1>4, <1>5 DEF s, y, r

(* What the other components read of the milliseconds moves as a clock     *)
(* does: a release adds at most MaxMs, every other step leaves it alone.   *)
LEMMA ReleaseCounts ==
  ASSUME TimerInv, Timer_release PROVE timer'.time_ms = timer.time_ms + Ms_passed
<1>1. timer = [stage |-> timer.stage, tick |-> timer.tick, passed |-> timer.passed,
               us |-> timer.us, ms |-> timer.ms, step_us |-> timer.step_us,
               time_us |-> timer.time_us, time_ms |-> timer.time_ms,
               timestamp |-> timer.timestamp]
  BY DEF TimerInv, TimerTypeOK
<1>. QED
  BY <1>1, ReleaseStep

LEMMA ReleasePasses == ASSUME TimerInv, Timer_release PROVE Ms!ClockNext
<1> DEFINE n == Ms_passed
<1>1. n \in 0..MaxMs /\ timer'.time_ms = timer.time_ms + n
  BY ReleaseStep, ReleaseCounts
<1>2. timer.time_ms \in Nat
  BY DEF TimerInv, TimerTypeOK
<1> HIDE DEF n
<1>3. (timer.time_ms + n) % MsWord = ((timer.time_ms % MsWord) + n) % MsWord
  BY <1>1, <1>2, WrappedSum
<1>. QED
  BY <1>1, <1>3 DEF Ms!ClockNext, Ms!Pass

(* The milliseconds of a Timer never go back and move by a few a turn: a   *)
(* component that reads them has the clock that Clock promises.            *)
THEOREM TimeOfAClock == TimerSpec => TimeIsAClock
<1>1. TimerInit => Ms!ClockInit
  BY TimerAssumption, Z3 DEF TimerInit, Ms!ClockInit
<1>2. TimerInv /\ [TimerNext]_timerVars => [Ms!ClockNext]_(timer.time_ms % MsWord)
  <2> SUFFICES ASSUME TimerInv, [TimerNext]_timerVars
               PROVE  [Ms!ClockNext]_(timer.time_ms % MsWord)
    OBVIOUS
  <2>1. CASE Timer_release
    BY <2>1, ReleasePasses
  <2>2. CASE TimerTick \/ UNCHANGED timerVars
    BY <2>2 DEF TimerTick, timerVars
  <2>3. CASE Timer_mount \/ Timer_willUpdate
    BY <2>3 DEF Timer_mount, Timer_willUpdate, TimerInv, TimerTypeOK
  <2>. QED
    BY <2>1, <2>2, <2>3 DEF TimerNext, TimerTurn
<1>. QED
  BY <1>1, <1>2, TimerInvariance, PTL DEF TimerSpec, TimeIsAClock, Ms!ClockSpec
-----------------------------------------------------------------------------
(* PWM, Button and Encoder.                                                *)

(* A turn of the clock goes on by its units, or wraps.                     *)
LEMMA PassOn ==
  ASSUME now \in 0..(Word - 1), NEW n \in 0..MaxPass, Pass(n)
  PROVE  now' \in 0..(Word - 1) /\ (now + n < Word => now' = now + n)
<1>1. now + n \in Nat /\ Word \in Nat \ {0}
  BY ClockAssumption
<1>2. (now + n) % Word \in 0..(Word - 1)
  BY <1>1, Z3
<1>3. now + n < Word => (now + n) % Word = now + n
  BY <1>1, Z3
<1>. QED
  BY <1>2, <1>3 DEF Pass
-----------------------------------------------------------------------------
(* The units of a level are no more than those of a whole period.          *)
LEMMA Units ==
  ASSUME NEW d \in 0..Full
  PROVE  /\ Quantum * d \in 0..(Quantum * Full)
         /\ Quantum * (Full - d) \in 0..(Quantum * Full)
<1>1. \A a, b, q \in Nat : a <= b => q * a \in Nat /\ q * b \in Nat /\ q * a <= q * b
  BY Z3
<1>2. /\ d \in Nat /\ d <= Full
      /\ Full - d \in Nat /\ Full - d <= Full
      /\ Full \in Nat /\ Quantum \in Nat
  BY PWMAssumption
<1>3. Quantum * d <= Quantum * Full /\ Quantum * d \in Nat /\ Quantum * Full \in Nat
  BY <1>1, <1>2
<1>4. Quantum * (Full - d) <= Quantum * Full /\ Quantum * (Full - d) \in Nat
  BY <1>1, <1>2
<1>. QED
  BY <1>3, <1>4

(* Where nothing has wrapped, the end of the level is its start and the    *)
(* units asked, but for the turn between willUpdate and release; and the   *)
(* level that is prepared ends so many units after willUpdate.             *)
PWMInv ==
  /\ PWMTypeOK /\ now \in 0..(Word - 1)
  /\ pwm.stage = "DEFINED" => pulse.wrapped
  /\ pwm.stage = "RELEASED" /\ ~pulse.wrapped =>
       /\ pulse.asked - MaxPass <= pwm.tick - (now - pulse.since)
       /\ pwm.tick - (now - pulse.since) <= pulse.asked
       /\ pulse.since <= pulse.asked + MaxPass
  /\ pwm.stage = "PREPARED" /\ ~pulse.wrapped =>
       /\ pulse.asked - MaxPass <= pulse.since
       /\ pulse.since <= pulse.asked + 2 * MaxPass
  /\ pwm.stage = "PREPARED" /\ ~pulse.nextWraps =>
       /\ pulse.next - MaxPass <= pwm.tick - now
       /\ pwm.tick - now <= pulse.next

LEMMA PWMInit_Inv == ClockInit /\ PWMInit => PWMInv
<1> SUFFICES ASSUME ClockInit, PWMInit PROVE PWMInv
  OBVIOUS
<1>1. 0 \in 0..Full /\ 0 \in 0..(Quantum * Full) /\ Quantum * Full \in Nat
  BY PWMAssumption, Units
<1>2. MaxPulse \in Nat
  BY <1>1, ClockAssumption DEF MaxPulse
<1>3. 0 \in 0..(Word - 1) /\ 0 \in 0..(MaxPulse + 1)
  BY <1>2, ClockAssumption
<1>. QED
  BY <1>1, <1>3 DEF ClockInit, PWMInit, PWMInv, PWMTypeOK

(* The time a level has had after a turn.                                  *)
LEMMA HeldOn ==
  ASSUME now \in 0..(Word - 1), NEW n \in 0..MaxPass,
         NEW p \in [level : BOOLEAN, since : 0..(MaxPulse + 1), asked : 0..(Quantum * Full),
                    wrapped : BOOLEAN, next : 0..(Quantum * Full), nextWraps : BOOLEAN],
         Held(n, p)
  PROVE  /\ now' \in 0..(Word - 1)
         /\ pulse' \in [level : BOOLEAN, since : 0..(MaxPulse + 1),
                        asked : 0..(Quantum * Full), wrapped : BOOLEAN,
                        next : 0..(Quantum * Full), nextWraps : BOOLEAN]
         /\ pulse'.level = p.level /\ pulse'.asked = p.asked /\ pulse'.next = p.next
         /\ p.wrapped => pulse'.wrapped
         /\ p.nextWraps => pulse'.nextWraps
         /\ ~pulse'.wrapped \/ ~pulse'.nextWraps => now' = now + n
         /\ pulse'.since <= p.since + n
         /\ p.since + n <= MaxPulse => pulse'.since = p.since + n
         /\ pulse'.since \in Nat
         /\ pulse'.since >= p.since \/ pulse'.since = MaxPulse + 1
<1>1. Quantum * Full \in Nat /\ MaxPulse \in Nat
  BY PWMAssumption, ClockAssumption, Units DEF MaxPulse
<1>2. now' \in 0..(Word - 1) /\ (now + n < Word => now' = now + n)
  BY PassOn DEF Held
<1> DEFINE since == IF p.since + n > MaxPulse THEN MaxPulse + 1 ELSE p.since + n
           wrap  == now + n >= Word
<1>3. pulse' = [level |-> p.level, since |-> since, asked |-> p.asked,
                wrapped |-> p.wrapped \/ wrap, next |-> p.next,
                nextWraps |-> p.nextWraps \/ wrap]
  BY DEF Held
<1>4. since \in 0..(MaxPulse + 1) /\ n \in Nat /\ p.since \in Nat
  BY <1>1, ClockAssumption
<1>5. wrap \in BOOLEAN /\ (~wrap => now + n < Word)
  BY ClockAssumption
<1> HIDE DEF wrap
<1>. QED
  BY <1>1, <1>2, <1>3, <1>4, <1>5

LEMMA PWMNextInv == PWMInv /\ [PWMNext]_pwmVars => PWMInv'
<1> SUFFICES ASSUME PWMInv, [PWMNext]_pwmVars PROVE PWMInv'
  OBVIOUS
<1> DEFINE Pulse == [level : BOOLEAN, since : 0..(MaxPulse + 1), asked : 0..(Quantum * Full),
                     wrapped : BOOLEAN, next : 0..(Quantum * Full), nextWraps : BOOLEAN]
           Pwm   == [stage : {"DEFINED", "PREPARED", "RELEASED"}, duty : 0..Full,
                     tick : 0..(Word - 1), on_duty : BOOLEAN]
<1>1. /\ pwm \in Pwm /\ duty \in 0..Full /\ pulse \in Pulse /\ now \in 0..(Word - 1)
      /\ Quantum * Full \in Nat /\ MaxPass \in Nat \ {0} /\ Word \in Nat \ {0}
      /\ MaxPulse = Quantum * Full + 2 * MaxPass
  BY PWMAssumption, ClockAssumption, Units DEF PWMInv, PWMTypeOK, MaxPulse
<1>2. /\ pwm.tick \in 0..(Word - 1) /\ pulse.since \in Nat
      /\ pulse.asked \in 0..(Quantum * Full) /\ pulse.next \in 0..(Quantum * Full)
      /\ pulse.wrapped \in BOOLEAN /\ pulse.nextWraps \in BOOLEAN
  BY <1>1
<1>3. ASSUME NEW d \in 0..Full, AskDuty(d) PROVE PWMInv'
  BY <1>3 DEF AskDuty, PWMInv, PWMTypeOK
<1>4. ASSUME NEW n \in 0..MaxPass, PWM_mount(n) PROVE PWMInv'
  <2>1. /\ now' \in 0..(Word - 1) /\ pulse' \in Pulse /\ (pulse.wrapped => pulse'.wrapped)
    BY <1>1, <1>4, HeldOn DEF PWM_mount
  <2>2. pwm.stage = "DEFINED" /\ pwm' \in Pwm /\ pwm'.stage = "RELEASED" /\ duty' = duty
    BY <1>1, <1>4 DEF PWM_mount
  <2>. QED
    BY <1>1, <2>1, <2>2 DEF PWMInv, PWMTypeOK
<1>5. ASSUME NEW n \in 0..MaxPass, PWM_skip(n) PROVE PWMInv'
  <2>1. /\ pwm.stage = "RELEASED" /\ now < pwm.tick /\ pwm' = pwm /\ duty' = duty
        /\ Held(n, pulse)
    BY <1>5 DEF PWM_skip
  <2>2. /\ now' \in 0..(Word - 1) /\ pulse' \in Pulse
        /\ pulse'.asked = pulse.asked /\ pulse'.next = pulse.next
        /\ pulse.wrapped => pulse'.wrapped
        /\ ~pulse'.wrapped => now' = now + n
        /\ pulse.since + n <= MaxPulse => pulse'.since = pulse.since + n
    BY <1>1, <2>1, HeldOn
  <2>3. ASSUME ~pulse'.wrapped
        PROVE  /\ pulse'.asked - MaxPass <= pwm.tick - (now' - pulse'.since)
               /\ pwm.tick - (now' - pulse'.since) <= pulse'.asked
               /\ pulse'.since <= pulse'.asked + MaxPass
    <3>1. /\ pulse.asked - MaxPass <= pwm.tick - (now - pulse.since)
          /\ pwm.tick - (now - pulse.since) <= pulse.asked
      BY <2>1, <2>2, <2>3, <1>2 DEF PWMInv
    <3>2. pulse.since < pulse.asked
      BY <1>1, <1>2, <2>1, <3>1
    <3>3. pulse'.since = pulse.since + n
      BY <1>1, <1>2, <2>2, <3>2
    <3>. QED
      BY <1>1, <1>2, <2>2, <2>3, <3>1, <3>2, <3>3
  <2>. QED
    BY <1>1, <2>1, <2>2, <2>3 DEF PWMInv, PWMTypeOK
<1>6. ASSUME NEW n \in 0..MaxPass, PWM_willUpdate(n) PROVE PWMInv'
  <2> DEFINE next == Quantum * (IF pwm.on_duty THEN Full - pwm.duty ELSE pwm.duty)
             tick == now + next
             p    == [pulse EXCEPT !.nextWraps = tick >= Word, !.next = next]
  <2>1. next \in 0..(Quantum * Full) /\ tick \in Nat
    BY <1>1, Units
  <2>2. /\ pwm.stage = "RELEASED" /\ now >= pwm.tick /\ duty' = duty
        /\ pwm' = [stage |-> "PREPARED", duty |-> duty, tick |-> tick % Word,
                   on_duty |-> ~pwm.on_duty]
        /\ Held(n, p)
    BY <1>6 DEF PWM_willUpdate, PWM_tick
  <2>3. /\ p \in Pulse /\ p.next = next /\ p.nextWraps = (tick >= Word)
        /\ p.since = pulse.since /\ p.asked = pulse.asked /\ p.wrapped = pulse.wrapped
    <3>1. (tick >= Word) \in BOOLEAN
      OBVIOUS
    <3> HIDE DEF tick, next
    <3>. QED
      BY <1>1, <2>1, <3>1
  <2> HIDE DEF p, next
  <2>4. /\ now' \in 0..(Word - 1) /\ pulse' \in Pulse
        /\ pulse'.asked = pulse.asked /\ pulse'.next = next
        /\ pulse.wrapped => pulse'.wrapped
        /\ tick >= Word => pulse'.nextWraps
        /\ ~pulse'.wrapped \/ ~pulse'.nextWraps => now' = now + n
        /\ pulse'.since <= pulse.since + n
        /\ pulse'.since >= pulse.since \/ pulse'.since = MaxPulse + 1
    BY <1>1, <2>2, <2>3, HeldOn
  <2>5. tick % Word \in 0..(Word - 1) /\ (tick < Word => tick % Word = tick)
    BY <1>1, <2>1, Z3
  <2>6. pwm' \in Pwm /\ pwm'.stage = "PREPARED" /\ pwm'.tick = tick % Word
    BY <1>1, <2>2, <2>5
  <2>7. ASSUME ~pulse'.wrapped
        PROVE  /\ pulse'.asked - MaxPass <= pulse'.since
               /\ pulse'.since <= pulse'.asked + 2 * MaxPass
    <3>1. /\ pulse.asked - MaxPass <= pwm.tick - (now - pulse.since)
          /\ pulse.since <= pulse.asked + MaxPass
      BY <2>2, <2>4, <2>7, <1>2 DEF PWMInv
    <3>2. pulse'.since \in Nat
      BY <1>1, <2>4
    <3>. QED
      BY <1>1, <1>2, <2>2, <2>4, <3>1, <3>2
  <2>8. ASSUME ~pulse'.nextWraps
        PROVE  /\ pulse'.next - MaxPass <= pwm'.tick - now'
               /\ pwm'.tick - now' <= pulse'.next
    BY <1>1, <2>1, <2>4, <2>5, <2>6, <2>8
  <2>. QED
    BY <1>1, <2>2, <2>4, <2>6, <2>7, <2>8 DEF PWMInv, PWMTypeOK
<1>7. ASSUME NEW n \in 0..MaxPass, PWM_release(n) PROVE PWMInv'
  <2> DEFINE on    == pwm.on_duty
             wraps == pulse.nextWraps
             p     == [pulse EXCEPT !.level = on, !.since = 0, !.asked = pulse.next,
                                    !.wrapped = wraps]
  <2>1. /\ pwm.stage = "PREPARED" /\ pwm' = [pwm EXCEPT !.stage = "RELEASED"]
        /\ duty' = duty /\ Held(n, p)
    BY <1>7 DEF PWM_release
  <2>2. /\ p \in Pulse /\ p.since = 0 /\ p.asked = pulse.next /\ p.wrapped = wraps
    <3>1. 0 \in 0..(MaxPulse + 1) /\ on \in BOOLEAN /\ wraps \in BOOLEAN
      BY <1>1
    <3> HIDE DEF on, wraps
    <3>. QED
      BY <1>1, <1>2, <3>1
  <2> HIDE DEF p
  <2>3. /\ now' \in 0..(Word - 1) /\ pulse' \in Pulse /\ pulse'.asked = pulse.next
        /\ pulse.nextWraps => pulse'.wrapped
        /\ ~pulse'.wrapped => now' = now + n
        /\ 0 + n <= MaxPulse => pulse'.since = 0 + n
    BY <1>1, <2>1, <2>2, HeldOn
  <2>4. pulse'.since = n
    BY <1>1, <2>3
  <2>5. pwm' \in Pwm /\ pwm'.stage = "RELEASED" /\ pwm'.tick = pwm.tick
    BY <1>1, <2>1
  <2>6. ASSUME ~pulse'.wrapped
        PROVE  /\ pulse'.asked - MaxPass <= pwm'.tick - (now' - pulse'.since)
               /\ pwm'.tick - (now' - pulse'.since) <= pulse'.asked
               /\ pulse'.since <= pulse'.asked + MaxPass
    <3>1. pulse.next - MaxPass <= pwm.tick - now /\ pwm.tick - now <= pulse.next
      BY <2>1, <2>3, <2>6, <1>2 DEF PWMInv
    <3>. QED
      BY <1>1, <1>2, <2>3, <2>4, <2>5, <2>6, <3>1
  <2>. QED
    BY <1>1, <2>1, <2>3, <2>5, <2>6 DEF PWMInv, PWMTypeOK
<1>8. CASE UNCHANGED pwmVars
  BY <1>8 DEF pwmVars, PWMInv, PWMTypeOK
<1>. QED
  BY <1>3, <1>4, <1>5, <1>6, <1>7, <1>8 DEF PWMNext, PWMTurn

LEMMA PWMInvariance == PWMSpec => []PWMInv
  BY PWMInit_Inv, PWMNextInv, PTL DEF PWMSpec

(* Every level of the pin lasts for the time the duty cycle gives it, one  *)
(* turn less or two more, for every frequency, duty cycle and pace of the  *)
(* loop, while neither the clock nor the tick of its end wraps.            *)
THEOREM PulseKept == PWMSpec => PulseAsAsked
<1> DEFINE Asked == pulse'.level # pulse.level /\ ~pulse.wrapped =>
                      /\ pulse.asked - MaxPass <= pulse.since
                      /\ pulse.since <= pulse.asked + 2 * MaxPass
<1>1. PWMInv /\ [PWMNext]_pwmVars => [Asked]_pwmVars
  <2> SUFFICES ASSUME PWMInv, PWMNext PROVE Asked
    OBVIOUS
  <2>1. ASSUME NEW d \in 0..Full, AskDuty(d) PROVE Asked
    BY <2>1 DEF AskDuty
  <2>2. ASSUME NEW n \in 0..MaxPass, PWM_mount(n) \/ PWM_skip(n) PROVE Asked
    BY <2>2, HeldOn DEF PWM_mount, PWM_skip, PWMInv, PWMTypeOK
  <2>3. ASSUME NEW n \in 0..MaxPass, PWM_willUpdate(n) PROVE Asked
    <3> DEFINE next == Quantum * (IF pwm.on_duty THEN Full - pwm.duty ELSE pwm.duty)
               wraps == now + next >= Word
               p    == [pulse EXCEPT !.nextWraps = wraps, !.next = next]
    <3>1. next \in 0..(Quantum * Full) /\ wraps \in BOOLEAN
      BY Units DEF PWMInv, PWMTypeOK
    <3>2. Held(n, p)
      BY <2>3 DEF PWM_willUpdate, PWM_tick
    <3> HIDE DEF next, wraps
    <3>3. p \in [level : BOOLEAN, since : 0..(MaxPulse + 1), asked : 0..(Quantum * Full),
                 wrapped : BOOLEAN, next : 0..(Quantum * Full), nextWraps : BOOLEAN]
          /\ p.level = pulse.level
      BY <3>1 DEF PWMInv, PWMTypeOK
    <3> HIDE DEF p
    <3>4. pulse'.level = pulse.level
      BY <3>2, <3>3, HeldOn DEF PWMInv
    <3>. QED
      BY <3>4
  <2>4. ASSUME NEW n \in 0..MaxPass, PWM_release(n) PROVE Asked
    BY <2>4 DEF PWM_release, PWMInv
  <2>. QED
    BY <2>1, <2>2, <2>3, <2>4 DEF PWMNext, PWMTurn
<1>. QED
  BY <1>1, PWMInvariance, PTL DEF PWMSpec, PulseAsAsked
-----------------------------------------------------------------------------
(* What elapses is told in full, or less.                                  *)
LEMMA Told ==
  ASSUME now \in 0..(Word - 1), NEW t \in 0..(Word - 1), NEW b \in Nat, Elapsed(t) > b
  PROVE  (now - t) % Word > b
<1> DEFINE d == (now - t) % Word
           e == (Word - 1 - t + now) % Word
           h == Word \div 2
<1>1. now \in Nat /\ t \in Nat /\ Word \in Nat \ {0} /\ now < Word /\ t < Word
  BY ClockAssumption
<1>2. d = IF now >= t THEN now - t ELSE now - t + Word
  BY <1>1, Z3
<1>3. e = IF d = 0 THEN Word - 1 ELSE d - 1
  <2>1. CASE now > t
    BY <1>1, <1>2, <2>1, Z3
  <2>2. CASE now <= t
    BY <1>1, <1>2, <2>2, Z3
  <2>. QED
    BY <1>1, <2>1, <2>2
<1>4. d \in 0..(Word - 1) /\ h \in Nat /\ h < Word /\ Word - 1 <= 2 * h
  BY <1>1, <1>2, Z3
<1>5. Elapsed(t) = IF (IF d < h THEN d ELSE d - Word) < 0
                   THEN IF e < h THEN e ELSE e - Word
                   ELSE IF d < h THEN d ELSE d - Word
  BY DEF Elapsed, AsInt
<1> HIDE DEF d, e, h
<1>6. d > b
  BY <1>1, <1>3, <1>4, <1>5
<1>. QED
  BY <1>6 DEF d

(* A turn adds no more than its units to what has passed.                  *)
LEMMA Passed ==
  ASSUME now \in 0..(Word - 1), NEW t \in 0..(Word - 1), NEW n \in 0..MaxPass, Pass(n)
  PROVE  (now' - t) % Word <= ((now - t) % Word) + n
<1> DEFINE d == (now - t) % Word
<1>1. /\ now \in Nat /\ t \in Nat /\ Word \in Nat \ {0} /\ n \in Nat
      /\ now < Word /\ t < Word
  BY ClockAssumption
<1>2. d \in 0..(Word - 1) /\ d = IF now >= t THEN now - t ELSE now - t + Word
  BY <1>1, Z3
<1>3. now' \in 0..(Word - 1) /\ now' = (now + n) % Word
  BY <1>1, Z3 DEF Pass
<1>4. PICK k \in Nat : now + n = k * Word + now'
  <2>1. now + n = ((now + n) \div Word) * Word + ((now + n) % Word)
    BY <1>1, Z3
  <2>2. (now + n) \div Word \in Nat
    BY <1>1, Z3
  <2>. QED
    BY <1>3, <2>1, <2>2
<1>5. (now' - t) % Word = IF now' >= t THEN now' - t ELSE now' - t + Word
  BY <1>1, <1>3, Z3
<1>6. k = 0 \/ k * Word >= Word
  BY <1>1, <1>4, Z3
<1>. QED
  BY <1>1, <1>2, <1>3, <1>4, <1>5, <1>6
-----------------------------------------------------------------------------
(* A delay that runs began after the last press was told; and a contact    *)
(* that has not opened since then is seen closed, with no delay running.   *)
ButtonInv ==
  /\ ButtonTypeOK /\ now \in 0..(Word - 1)
  /\ button.tick # 0 => \/ press.since = Bounce + 1
                        \/ (now - button.tick) % Word <= press.since
  /\ ~press.opened => /\ contact /\ Active(button.level)
                      /\ button.tick = 0 /\ button.stage = "RELEASED"

LEMMA ButtonInit_Inv == ClockInit /\ ButtonInit => ButtonInv
<1> SUFFICES ASSUME ClockInit, ButtonInit PROVE ButtonInv
  OBVIOUS
<1>1. 0 \in 0..(Word - 1) /\ Bounce + 1 \in 0..(Bounce + 1)
  BY ClockAssumption, BounceAssumption
<1>. QED
  BY <1>1 DEF ClockInit, ButtonInit, ButtonInv, ButtonTypeOK

LEMMA LevelShows ==
  ASSUME NEW closed \in BOOLEAN, NEW level \in BOOLEAN, button.inverse \in BOOLEAN
  PROVE  /\ LevelOf(closed) \in BOOLEAN
         /\ Active(LevelOf(closed)) <=> closed
         /\ Active(level) /\ closed => level = LevelOf(closed)
  BY DEF LevelOf, Active

(* The time since the last press after a turn.                             *)
LEMMA LaterOn ==
  ASSUME now \in 0..(Word - 1), NEW n \in 0..MaxPass,
         NEW p \in [since : 0..(Bounce + 1), opened : BOOLEAN, unseen : BOOLEAN],
         Later(n, p)
  PROVE  /\ now' \in 0..(Word - 1)
         /\ press' \in [since : 0..(Bounce + 1), opened : BOOLEAN, unseen : BOOLEAN]
         /\ press'.opened = p.opened
         /\ press'.since = Bounce + 1 \/ press'.since = p.since + n
         /\ p.since = Bounce + 1 => press'.since = Bounce + 1
         /\ \A t \in 0..(Word - 1) :
              p.since = Bounce + 1 \/ (now - t) % Word <= p.since =>
                press'.since = Bounce + 1 \/ (now' - t) % Word <= press'.since
<1> DEFINE since == IF p.since + n > Bounce THEN Bounce + 1 ELSE p.since + n
<1>1. now' \in 0..(Word - 1) /\ Pass(n) /\ n \in Nat /\ p.since \in 0..(Bounce + 1)
  BY PassOn, ClockAssumption DEF Later
<1>2. press' = [since |-> since, opened |-> p.opened, unseen |-> p.unseen]
  BY DEF Later
<1>3. since \in 0..(Bounce + 1) /\ (p.since = Bounce + 1 => since = Bounce + 1)
  BY <1>1, BounceAssumption
<1>4. ASSUME NEW t \in 0..(Word - 1), p.since = Bounce + 1 \/ (now - t) % Word <= p.since
      PROVE  since = Bounce + 1 \/ (now' - t) % Word <= since
  <2> DEFINE a == (now - t) % Word
             b == (now' - t) % Word
  <2>1. b <= a + n
    BY <1>1, Passed
  <2>2. a \in Nat /\ b \in Nat
    <3>1. now - t \in Int /\ now' - t \in Int /\ Word \in Nat \ {0}
      BY <1>1, ClockAssumption
    <3>. QED
      BY <3>1, Z3
  <2>3. p.since = Bounce + 1 \/ a <= p.since
    BY <1>4
  <2> HIDE DEF a, b
  <2>4. since = Bounce + 1 \/ b <= since
    BY <1>1, <2>1, <2>2, <2>3, BounceAssumption
  <2>. QED
    BY <2>4 DEF b
<1> HIDE DEF since
<1>5. press'.since = since
  BY <1>2
<1>6. press'.since = Bounce + 1 \/ press'.since = p.since + n
  BY <1>5 DEF since
<1>. QED
  BY <1>1, <1>2, <1>3, <1>4, <1>5, <1>6

(* A press is told when the delay has run out, which ends it.              *)
ToldNow(pressed) == IF button.toggle THEN pressed # button.pressed
                    ELSE pressed /\ ~button.pressed

ReleasedPressed == IF Filtered /\ Active(button.level)
                   THEN button.toggle => ~button.pressed
                   ELSE button.toggle /\ button.pressed

LEMMA ToldIsFiltered ==
  ASSUME ButtonInv, button.stage = "PREPARED", ToldNow(ReleasedPressed)
  PROVE  Filtered /\ Active(button.level) /\ press.opened /\ press.since > Bounce
<1>1. button.toggle \in BOOLEAN /\ button.pressed \in BOOLEAN
  BY DEF ButtonInv, ButtonTypeOK
<1>2. Filtered /\ Active(button.level)
  BY <1>1 DEF ToldNow, ReleasedPressed
<1>3. press.opened
  BY DEF ButtonInv, ButtonTypeOK
<1>4. button.tick # 0 /\ button.tick \in 0..(Word - 1) /\ Elapsed(button.tick) > Bounce
  BY <1>2 DEF Filtered, ButtonInv, ButtonTypeOK
<1>5. (now - button.tick) % Word > Bounce
  BY <1>4, Told, BounceAssumption DEF ButtonInv
<1>6. press.since = Bounce + 1 \/ (now - button.tick) % Word <= press.since
  BY <1>4 DEF ButtonInv
<1>7. (now - button.tick) % Word \in Nat
  <2>1. now - button.tick \in Int /\ Word \in Nat \ {0}
    BY <1>4, ClockAssumption DEF ButtonInv
  <2>. QED
    BY <2>1, Z3
<1> DEFINE a == (now - button.tick) % Word
<1> HIDE DEF a
<1>8. press.since > Bounce
  <2>1. a > Bounce /\ a \in Nat /\ (press.since = Bounce + 1 \/ a <= press.since)
    BY <1>5, <1>6, <1>7 DEF a
  <2>2. press.since \in Nat
    BY BounceAssumption DEF ButtonInv, ButtonTypeOK
  <2>. QED
    BY <2>1, <2>2, BounceAssumption
<1>. QED
  BY <1>2, <1>3, <1>8

LEMMA ButtonNextInv == ButtonInv /\ [ButtonNext]_buttonVars => ButtonInv'
<1> SUFFICES ASSUME ButtonInv, [ButtonNext]_buttonVars PROVE ButtonInv'
  OBVIOUS
<1> DEFINE Buttons == [stage : {"DEFINED", "PREPARED", "RELEASED"}, toggle : BOOLEAN,
                       inverse : BOOLEAN, level : BOOLEAN, pressed : BOOLEAN,
                       tick : 0..(Word - 1)]
           Presses == [since : 0..(Bounce + 1), opened : BOOLEAN, unseen : BOOLEAN]
           Delay(b, t, p) == b.tick # 0 => \/ p.since = Bounce + 1
                                           \/ (t - b.tick) % Word <= p.since
           Seen(b, c, p) == ~p.opened => /\ c /\ b.level # b.inverse
                                         /\ b.tick = 0 /\ b.stage = "RELEASED"
<1>1. /\ button \in Buttons /\ contact \in BOOLEAN /\ press \in Presses
      /\ now \in 0..(Word - 1) /\ Delay(button, now, press) /\ Seen(button, contact, press)
  BY DEF ButtonInv, ButtonTypeOK, Active
<1>2. ASSUME button' \in Buttons, contact' \in BOOLEAN, press' \in Presses,
             now' \in 0..(Word - 1), Delay(button', now', press'),
             Seen(button', contact', press')
      PROVE  ButtonInv'
  BY <1>2 DEF ButtonInv, ButtonTypeOK, Active
<1>3. /\ button.toggle \in BOOLEAN /\ button.inverse \in BOOLEAN /\ button.level \in BOOLEAN
      /\ button.pressed \in BOOLEAN /\ button.tick \in 0..(Word - 1)
      /\ press.opened \in BOOLEAN /\ press.unseen \in BOOLEAN /\ press.since \in 0..(Bounce + 1)
  BY <1>1
<1>4. CASE ContactMoves
  <2> DEFINE opened == press.opened \/ contact
  <2>1. /\ press' = [press EXCEPT !.opened = opened] /\ contact' = ~contact
        /\ button' = button /\ now' = now
    BY <1>4 DEF ContactMoves
  <2>2. opened \in BOOLEAN
    BY <1>1, <1>3
  <2>3. ~press.opened => contact
    BY <1>1
  <2>4. opened
    BY <2>3, <1>1, <1>3
  <2> HIDE DEF opened
  <2>5. press' \in Presses /\ press'.opened /\ press'.since = press.since
    BY <1>1, <2>1, <2>2, <2>4
  <2>. QED
    BY <1>1, <1>2, <2>1, <2>5
<1>5. ASSUME NEW n \in 0..MaxPass, Button_mount(n) PROVE ButtonInv'
  <2>1. PICK toggle \in BOOLEAN, inverse \in BOOLEAN :
          /\ button.stage = "DEFINED"
          /\ button' = [button EXCEPT !.stage = "RELEASED", !.toggle = toggle,
                                      !.inverse = inverse]
          /\ Later(n, [press EXCEPT !.unseen = inverse])
          /\ contact' = contact
    BY <1>5 DEF Button_mount
  <2>2. [press EXCEPT !.unseen = inverse] \in Presses
        /\ [press EXCEPT !.unseen = inverse].since = press.since
        /\ [press EXCEPT !.unseen = inverse].opened = press.opened
    BY <1>1
  <2>3. /\ now' \in 0..(Word - 1) /\ press' \in Presses /\ press'.opened = press.opened
        /\ \A t \in 0..(Word - 1) :
             press.since = Bounce + 1 \/ (now - t) % Word <= press.since =>
               press'.since = Bounce + 1 \/ (now' - t) % Word <= press'.since
    BY <1>1, <2>1, <2>2, LaterOn
  <2>4. button' \in Buttons /\ button'.tick = button.tick
    BY <1>1, <2>1
  <2>5. press.opened
    BY <1>1, <1>3, <2>1
  <2>6. Delay(button', now', press')
    BY <1>1, <1>3, <2>3, <2>4
  <2>. QED
    BY <1>1, <1>2, <2>1, <2>3, <2>4, <2>5, <2>6
<1>6. ASSUME NEW n \in 0..MaxPass, Button_skip(n) PROVE ButtonInv'
  <2> DEFINE unseen == press.unseen /\ contact
             p == [press EXCEPT !.unseen = unseen]
  <2>1. /\ button.stage = "RELEASED" /\ contact' = contact /\ Later(n, p)
        /\ button' = [button EXCEPT !.level = LevelOf(contact)]
    BY <1>6 DEF Button_skip
  <2>2. unseen \in BOOLEAN
    BY <1>1, <1>3
  <2> HIDE DEF unseen
  <2>3. p \in Presses /\ p.since = press.since /\ p.opened = press.opened
    BY <1>1, <2>2
  <2> HIDE DEF p
  <2>4. /\ now' \in 0..(Word - 1) /\ press' \in Presses /\ press'.opened = press.opened
        /\ \A t \in 0..(Word - 1) :
             press.since = Bounce + 1 \/ (now - t) % Word <= press.since =>
               press'.since = Bounce + 1 \/ (now' - t) % Word <= press'.since
    BY <1>1, <2>1, <2>3, LaterOn
  <2>5. LevelOf(contact) \in BOOLEAN /\ (contact => LevelOf(contact) # button.inverse)
    BY <1>1, <1>3, LevelShows DEF Active
  <2>6. /\ button' \in Buttons /\ button'.tick = button.tick /\ button'.stage = "RELEASED"
        /\ button'.level = LevelOf(contact) /\ button'.inverse = button.inverse
    BY <1>1, <2>1, <2>5
  <2>7. Delay(button', now', press')
    BY <1>1, <1>3, <2>4, <2>6
  <2>8. Seen(button', contact', press')
    BY <1>1, <2>1, <2>4, <2>5, <2>6
  <2>. QED
    BY <1>1, <1>2, <2>1, <2>4, <2>6, <2>7, <2>8
<1>7. ASSUME NEW n \in 0..MaxPass, Button_willUpdate(n) PROVE ButtonInv'
  <2>1. PICK closed \in BOOLEAN :
          LET start == button.tick = 0 /\ closed
          IN  /\ button.stage = "RELEASED" /\ Button_shouldUpdate(LevelOf(contact))
              /\ button' = [button EXCEPT !.stage = "PREPARED", !.level = LevelOf(closed),
                                          !.tick = IF start THEN now ELSE @]
              /\ Later(n, [press EXCEPT !.opened = @ \/ ~closed,
                                        !.unseen = IF start THEN now = 0 ELSE @ /\ closed])
              /\ contact' = closed
    BY <1>7 DEF Button_willUpdate
  <2> DEFINE start  == button.tick = 0 /\ closed
             opened == press.opened \/ ~closed
             unseen == IF start THEN now = 0 ELSE press.unseen /\ closed
             tick   == IF start THEN now ELSE button.tick
             p      == [press EXCEPT !.opened = opened, !.unseen = unseen]
  <2>2. /\ button.stage = "RELEASED" /\ Button_shouldUpdate(LevelOf(contact))
        /\ button' = [button EXCEPT !.stage = "PREPARED", !.level = LevelOf(closed),
                                    !.tick = tick]
        /\ Later(n, p) /\ contact' = closed
    BY <2>1
  <2>3. opened \in BOOLEAN /\ unseen \in BOOLEAN /\ tick \in 0..(Word - 1)
    BY <1>1, <1>3
  <2>4. press.opened
    <3> SUFFICES ASSUME ~press.opened PROVE FALSE
      BY <1>3
    <3>1. contact /\ Active(button.level) /\ button.tick = 0
      BY <1>1 DEF Active
    <3>2. button.level = LevelOf(contact)
      BY <1>1, <1>3, <3>1, LevelShows
    <3>. QED
      BY <2>2, <3>1, <3>2 DEF Button_shouldUpdate
  <2>5. opened
    BY <2>4
  <2>6. tick # 0 => tick = now \/ tick = button.tick
    OBVIOUS
  <2>7. (now - now) % Word = 0
    <3>1. now - now = 0 /\ Word \in Nat \ {0}
      BY <1>1, ClockAssumption
    <3>. QED
      BY <3>1, Z3
  <2> HIDE DEF opened, unseen, tick
  <2>8. p \in Presses /\ p.since = press.since /\ p.opened
    BY <1>1, <2>3, <2>5
  <2> HIDE DEF p
  <2>9. /\ now' \in 0..(Word - 1) /\ press' \in Presses /\ press'.opened
        /\ \A t \in 0..(Word - 1) :
             press.since = Bounce + 1 \/ (now - t) % Word <= press.since =>
               press'.since = Bounce + 1 \/ (now' - t) % Word <= press'.since
    BY <1>1, <2>2, <2>8, LaterOn
  <2>10. button' \in Buttons /\ button'.tick = tick
    <3>1. LevelOf(closed) \in BOOLEAN
      BY <1>3, LevelShows
    <3>. QED
      BY <1>1, <2>2, <2>3, <3>1
  <2>11. Delay(button', now', press')
    <3>1. CASE tick = button.tick
      BY <1>1, <1>3, <2>9, <2>10, <3>1
    <3>2. CASE tick = now
      BY <1>1, <1>3, <2>7, <2>9, <2>10, <3>2, BounceAssumption
    <3>. QED
      BY <2>6, <2>10, <3>1, <3>2
  <2>. QED
    BY <1>1, <1>2, <2>2, <2>9, <2>10, <2>11
<1>8. ASSUME NEW n \in 0..MaxPass, Button_release(n) PROVE ButtonInv'
  <2> DEFINE told   == ToldNow(ReleasedPressed)
             opened == ~contact
             p      == IF told THEN [press EXCEPT !.since = 0, !.opened = opened] ELSE press
             tick   == IF Filtered THEN 0 ELSE button.tick
             pressed == ReleasedPressed
  <2>1. /\ button.stage = "PREPARED" /\ contact' = contact /\ Later(n, p)
        /\ button' = [button EXCEPT !.stage = "RELEASED", !.pressed = pressed, !.tick = tick]
    BY <1>8 DEF Button_release, ToldNow, ReleasedPressed
  <2>2. pressed \in BOOLEAN
    BY <1>3 DEF ReleasedPressed
  <2>3. tick \in 0..(Word - 1) /\ (tick # 0 => tick = button.tick) /\ opened \in BOOLEAN
    BY <1>1, <1>3, ClockAssumption
  <2>4. told => tick = 0 /\ Active(button.level)
    BY <2>1, ToldIsFiltered
  <2>5. press.opened
    BY <1>1, <1>3, <2>1
  <2> HIDE DEF told, opened, tick, pressed
  <2>6. p \in Presses
    <3>1. [press EXCEPT !.since = 0, !.opened = opened] \in Presses
      <4>1. 0 \in 0..(Bounce + 1)
        BY BounceAssumption
      <4>. QED
        BY <1>1, <2>3, <4>1
    <3>. QED
      BY <1>1, <3>1
  <2>7. (~told => p = press) /\ (told => p.opened = opened)
    BY <1>1
  <2> HIDE DEF p
  <2>8. /\ now' \in 0..(Word - 1) /\ press' \in Presses /\ press'.opened = p.opened
        /\ \A t \in 0..(Word - 1) :
             p.since = Bounce + 1 \/ (now - t) % Word <= p.since =>
               press'.since = Bounce + 1 \/ (now' - t) % Word <= press'.since
    BY <1>1, <2>1, <2>6, LaterOn
  <2>9. /\ button' \in Buttons /\ button'.tick = tick /\ button'.stage = "RELEASED"
        /\ button'.level = button.level /\ button'.inverse = button.inverse
    BY <1>1, <2>1, <2>2, <2>3
  <2>10. Delay(button', now', press')
    BY <1>1, <1>3, <2>3, <2>4, <2>7, <2>8, <2>9
  <2>11. Seen(button', contact', press')
    BY <1>1, <2>1, <2>4, <2>5, <2>7, <2>8, <2>9 DEF opened, Active
  <2>. QED
    BY <1>1, <1>2, <2>1, <2>8, <2>9, <2>10, <2>11
<1>9. CASE UNCHANGED buttonVars
  BY <1>1, <1>2, <1>9 DEF buttonVars
<1>. QED
  BY <1>4, <1>5, <1>6, <1>7, <1>8, <1>9 DEF ButtonNext, ButtonTurn

LEMMA ButtonInvariance == ButtonSpec => []ButtonInv
  BY ButtonInit_Inv, ButtonNextInv, PTL DEF ButtonSpec

LEMMA PressTold ==
  ButtonInv /\ [ButtonNext]_buttonVars => [Tells => press.opened /\ press.since > Bounce]_buttonVars
<1> SUFFICES ASSUME ButtonInv, ButtonNext, Tells
             PROVE  press.opened /\ press.since > Bounce
  OBVIOUS
<1>1. /\ button.toggle \in BOOLEAN /\ button.pressed \in BOOLEAN
      /\ button \in [stage : {"DEFINED", "PREPARED", "RELEASED"}, toggle : BOOLEAN,
                     inverse : BOOLEAN, level : BOOLEAN, pressed : BOOLEAN,
                     tick : 0..(Word - 1)]
  BY DEF ButtonInv, ButtonTypeOK
<1>2. CASE button'.pressed = button.pressed
  BY <1>1, <1>2 DEF Tells
<1>3. ASSUME NEW n \in 0..MaxPass, Button_release(n)
      PROVE  press.opened /\ press.since > Bounce
  <2>1. button.stage = "PREPARED" /\ button'.pressed = ReleasedPressed
    BY <1>1, <1>3 DEF Button_release, ReleasedPressed
  <2>2. ToldNow(ReleasedPressed)
    BY <2>1 DEF Tells, ToldNow
  <2>. QED
    BY <2>1, <2>2, ToldIsFiltered
<1>4. ASSUME NEW n \in 0..MaxPass, Button_mount(n) \/ Button_skip(n) \/ Button_willUpdate(n)
      PROVE  button'.pressed = button.pressed
  <2>1. ASSUME Button_mount(n) PROVE button'.pressed = button.pressed
    <3>1. PICK toggle \in BOOLEAN, inverse \in BOOLEAN :
            button' = [button EXCEPT !.stage = "RELEASED", !.toggle = toggle,
                                     !.inverse = inverse]
      BY <2>1 DEF Button_mount
    <3>. QED
      BY <1>1, <3>1
  <2>2. ASSUME Button_skip(n) PROVE button'.pressed = button.pressed
    <3>1. button' = [button EXCEPT !.level = LevelOf(contact)]
      BY <2>2 DEF Button_skip
    <3>. QED
      BY <1>1, <3>1
  <2>3. ASSUME Button_willUpdate(n) PROVE button'.pressed = button.pressed
    <3>1. PICK closed \in BOOLEAN :
            button' = [button EXCEPT !.stage = "PREPARED", !.level = LevelOf(closed),
                                     !.tick = IF button.tick = 0 /\ closed THEN now ELSE @]
      BY <2>3 DEF Button_willUpdate
    <3> DEFINE tick == IF button.tick = 0 /\ closed THEN now ELSE button.tick
    <3>2. button' = [button EXCEPT !.stage = "PREPARED", !.level = LevelOf(closed),
                                   !.tick = tick]
      BY <3>1
    <3> HIDE DEF tick
    <3>. QED
      BY <1>1, <3>2
  <2>. QED
    BY <1>4, <2>1, <2>2, <2>3
<1>. QED
  BY <1>2, <1>3, <1>4 DEF ButtonNext, ButtonTurn, ContactMoves

(* However the contact bounces, and whenever the loop comes round to it, a *)
(* press is told more than the delay after the one before it, and only if  *)
(* the contact has opened in between.                                      *)
THEOREM NoBounceIsPress == ButtonSpec => OnePressEach
  BY PressTold, ButtonInvariance, PTL DEF ButtonSpec, OnePressEach
-----------------------------------------------------------------------------
(* Where the shaft is after so many edges of a cycle, which begins at 0,   *)
(* and the right turns less the left ones by then: the third edge ahead,   *)
(* and the first one back, is told for the wrong direction.                *)
QuarterAfter(edges) == CASE edges \in {0, 4} -> 0
                         [] edges = 1 -> IF shaft.ahead THEN 1 ELSE 3
                         [] edges = 2 -> 2
                         [] edges = 3 -> IF shaft.ahead THEN 3 ELSE 1

NetAfter(edges) == IF shaft.ahead
                   THEN CASE edges = 0 -> 0 [] edges \in {1, 3} -> 1 [] edges \in {2, 4} -> 2
                   ELSE CASE edges = 1 -> 1 [] edges \in {0, 2} -> 0
                          [] edges = 3 -> -1 [] edges = 4 -> -2

AAfter(edges) == QuarterAfter(edges) \in {1, 2}
BAfter(edges) == QuarterAfter(edges) \in {2, 3}

(* The pin that changed last has the later tick, if its edge had a time of *)
(* its own.                                                                *)
LaterTick == IF QuarterAfter(cycle.edges + 1) \in (IF shaft.ahead THEN {1, 3} ELSE {0, 2})
             THEN encoder.tick_a > encoder.tick_b
             ELSE encoder.tick_b > encoder.tick_a

ShaftRests == /\ encoder.stage = "RELEASED" /\ shaft.quarter = QuarterAfter(cycle.edges)
              /\ encoder.level_a = AAfter(cycle.edges) /\ encoder.level_b = BAfter(cycle.edges)

Turned == /\ encoder.stage = "RELEASED" /\ cycle.edges # 4
          /\ shaft.quarter = QuarterAfter(cycle.edges + 1)
          /\ encoder.level_a = AAfter(cycle.edges) /\ encoder.level_b = BAfter(cycle.edges)

Seeing == /\ encoder.stage = "PREPARED" /\ cycle.edges # 4
          /\ shaft.quarter = QuarterAfter(cycle.edges + 1)
          /\ encoder.level_a = AAfter(cycle.edges + 1)
          /\ encoder.level_b = BAfter(cycle.edges + 1)
          /\ cycle.clear => LaterTick

EncoderInv ==
  /\ EncoderTypeOK /\ now \in 0..(Word - 1)
  /\ -cycle.edges <= cycle.net /\ cycle.net <= cycle.edges
  /\ \/ /\ encoder.stage = "DEFINED" /\ cycle.edges = 0 /\ shaft.quarter = 0
        /\ ~encoder.level_a /\ ~encoder.level_b
     \/ ShaftRests \/ Turned \/ Seeing
  /\ cycle.clear => cycle.net = NetAfter(cycle.edges)

LEMMA EncoderInit_Inv == ClockInit /\ EncoderInit => EncoderInv
<1> SUFFICES ASSUME ClockInit, EncoderInit PROVE EncoderInv
  OBVIOUS
<1>1. 0 \in 0..(Word - 1)
  BY ClockAssumption
<1>. QED
  BY <1>1 DEF ClockInit, EncoderInit, EncoderInv, EncoderTypeOK, NetAfter

LEMMA EncoderNextInv == EncoderInv /\ [EncoderNext]_encoderVars => EncoderInv'
<1> SUFFICES ASSUME EncoderInv, [EncoderNext]_encoderVars PROVE EncoderInv'
  OBVIOUS
<1> DEFINE Encoders == [stage : {"DEFINED", "PREPARED", "RELEASED"},
                        level_a : BOOLEAN, level_b : BOOLEAN,
                        tick_a : 0..(Word - 1), tick_b : 0..(Word - 1),
                        rpm : {"zero", "right", "left", "undefined"}]
           Shafts == [quarter : 0..3, ahead : BOOLEAN]
           Cycles == [edges : 0..4, net : -4..4, clear : BOOLEAN]
<1>1. /\ encoder \in Encoders /\ shaft \in Shafts /\ cycle \in Cycles
      /\ now \in 0..(Word - 1) /\ Word \in Nat \ {0}
      /\ -cycle.edges <= cycle.net /\ cycle.net <= cycle.edges
  BY ClockAssumption DEF EncoderInv, EncoderTypeOK
<1>2. /\ encoder.level_a \in BOOLEAN /\ encoder.level_b \in BOOLEAN
      /\ encoder.tick_a \in 0..(Word - 1) /\ encoder.tick_b \in 0..(Word - 1)
      /\ encoder.rpm \in {"zero", "right", "left", "undefined"}
      /\ shaft.quarter \in 0..3 /\ shaft.ahead \in BOOLEAN
      /\ cycle.edges \in 0..4 /\ cycle.net \in -4..4 /\ cycle.clear \in BOOLEAN
  BY <1>1
<1>3. CASE ShaftTurns
  <2> DEFINE next == (shaft.quarter + IF shaft.ahead THEN 1 ELSE 3) % 4
  <2>1. /\ encoder.stage = "RELEASED" /\ encoder' = encoder /\ now' = now
        /\ encoder.level_a = pin_a /\ encoder.level_b = pin_b
        /\ shaft' = [shaft EXCEPT !.quarter = next]
        /\ cycle' = IF cycle.edges = 4 THEN [edges |-> 0, net |-> 0, clear |-> TRUE]
                    ELSE cycle
    BY <1>3 DEF ShaftTurns
  <2>2. /\ next \in 0..3
        /\ shaft.ahead => next = IF shaft.quarter = 3 THEN 0 ELSE shaft.quarter + 1
        /\ ~shaft.ahead => next = IF shaft.quarter = 0 THEN 3 ELSE shaft.quarter - 1
    BY <1>2, Z3
  <2> HIDE DEF next
  <2>3. shaft' \in Shafts /\ shaft'.quarter = next /\ shaft'.ahead = shaft.ahead
    BY <1>1, <2>1, <2>2
  <2>4. cycle' \in Cycles /\ -cycle'.edges <= cycle'.net /\ cycle'.net <= cycle'.edges
    BY <1>1, <2>1
  <2>5. ShaftRests
    BY <1>2, <2>1 DEF EncoderInv, ShaftRests, Turned, Seeing, QuarterAfter, AAfter, BAfter,
                      pin_a, pin_b
  <2>6. Turned'
    BY <1>2, <2>1, <2>2, <2>3, <2>5
       DEF ShaftRests, Turned, QuarterAfter, AAfter, BAfter
  <2>7. cycle'.clear => cycle'.net = NetAfter(cycle.edges)'
    BY <1>2, <2>1, <2>3 DEF EncoderInv, NetAfter
  <2>. QED
    BY <1>1, <2>1, <2>3, <2>4, <2>6, <2>7 DEF EncoderInv, EncoderTypeOK
<1>4. ASSUME NEW n \in 0..MaxPass, Encoder_mount(n) PROVE EncoderInv'
  <2>1. PICK ahead \in BOOLEAN :
          /\ encoder.stage = "DEFINED" /\ Pass(n) /\ cycle' = cycle
          /\ encoder' = [encoder EXCEPT !.stage = "RELEASED"]
          /\ shaft' = [shaft EXCEPT !.ahead = ahead]
    BY <1>4 DEF Encoder_mount
  <2>2. now' \in 0..(Word - 1)
    BY <1>1, <2>1, PassOn
  <2>3. /\ encoder' \in Encoders /\ encoder'.stage = "RELEASED"
        /\ encoder'.level_a = encoder.level_a /\ encoder'.level_b = encoder.level_b
        /\ shaft' \in Shafts /\ shaft'.quarter = shaft.quarter
    BY <1>1, <2>1
  <2>4. /\ cycle.edges = 0 /\ shaft.quarter = 0 /\ ~encoder.level_a /\ ~encoder.level_b
        /\ cycle.clear => cycle.net = 0
    BY <2>1 DEF EncoderInv, ShaftRests, Turned, Seeing, NetAfter
  <2>5. ShaftRests'
    BY <1>2, <2>1, <2>3, <2>4 DEF ShaftRests, QuarterAfter, AAfter, BAfter
  <2>6. cycle'.clear => cycle'.net = NetAfter(cycle.edges)'
    BY <2>1, <2>4 DEF NetAfter
  <2>. QED
    BY <1>1, <2>1, <2>2, <2>3, <2>5, <2>6 DEF EncoderInv, EncoderTypeOK
<1>5. ASSUME NEW n \in 0..MaxPass, Encoder_skip(n) PROVE EncoderInv'
  <2>1. now' \in 0..(Word - 1)
    BY <1>1, <1>5, PassOn DEF Encoder_skip
  <2>2. encoder' = encoder /\ shaft' = shaft /\ cycle' = cycle
    BY <1>5 DEF Encoder_skip
  <2>. QED
    BY <1>1, <2>1, <2>2 DEF EncoderInv, EncoderTypeOK, ShaftRests, Turned, Seeing, LaterTick,
                            QuarterAfter, AAfter, BAfter, NetAfter
<1>6. ASSUME NEW n \in 0..MaxPass, Encoder_willUpdate(n) PROVE EncoderInv'
  <2> DEFINE own == cycle.clear /\ OwnTime
  <2>1. /\ encoder.stage = "RELEASED" /\ shaft' = shaft /\ Pass(n)
        /\ cycle' = [cycle EXCEPT !.clear = own]
    BY <1>6 DEF Encoder_willUpdate
  <2>2. now' \in 0..(Word - 1)
    BY <1>1, <2>1, PassOn
  <2>3. own \in BOOLEAN
    BY <1>2 DEF OwnTime
  <2>4. own => cycle.clear /\ now # 0 /\ now # encoder.tick_a /\ now # encoder.tick_b
    BY DEF OwnTime
  <2> HIDE DEF own
  <2>5. /\ cycle' \in Cycles /\ cycle'.edges = cycle.edges /\ cycle'.net = cycle.net
        /\ cycle'.clear = own
    BY <1>1, <2>1, <2>3
  <2>6. \A tick \in 0..(Word - 1) :
          Older(tick) \in 0..(Word - 1) /\ (now # 0 /\ now # tick => Older(tick) < now)
    BY <1>1 DEF Older
  <2>7. Turned
    BY <1>2, <1>6 DEF Encoder_willUpdate, EncoderInv, ShaftRests, Seeing, pin_a, pin_b,
                      AAfter, BAfter
  <2>8. /\ AAfter(cycle.edges) \in BOOLEAN /\ BAfter(cycle.edges) \in BOOLEAN
        /\ pin_a = AAfter(cycle.edges + 1) /\ pin_b = BAfter(cycle.edges + 1)
        /\ pin_a \in BOOLEAN /\ pin_b \in BOOLEAN
    BY <2>7 DEF Turned, AAfter, BAfter, pin_a, pin_b
  <2>9. \/ /\ encoder.level_a # pin_a /\ encoder.level_b = pin_b
           /\ QuarterAfter(cycle.edges + 1) \in (IF shaft.ahead THEN {1, 3} ELSE {0, 2})
        \/ /\ encoder.level_a = pin_a /\ encoder.level_b # pin_b
           /\ QuarterAfter(cycle.edges + 1) \notin (IF shaft.ahead THEN {1, 3} ELSE {0, 2})
    BY <1>2, <2>7, <2>8 DEF Turned, QuarterAfter, AAfter, BAfter
  <2>10. cycle'.clear => cycle'.net = NetAfter(cycle.edges)'
    BY <2>1, <2>4, <2>5 DEF EncoderInv, NetAfter
  <2>11. CASE encoder.level_a # pin_a
    <3> DEFINE a == pin_a
               b == Older(encoder.tick_b)
    <3>1. encoder' = [encoder EXCEPT !.stage = "PREPARED", !.level_a = a,
                                     !.tick_a = now, !.tick_b = b]
      BY <1>6, <2>11 DEF Encoder_willUpdate
    <3>2. a \in BOOLEAN /\ b \in 0..(Word - 1) /\ (own => b < now)
      BY <1>2, <2>4, <2>6, <2>8
    <3> HIDE DEF a, b
    <3>3. /\ encoder' \in Encoders /\ encoder'.stage = "PREPARED" /\ encoder'.level_a = a
          /\ encoder'.level_b = encoder.level_b
          /\ encoder'.tick_a = now /\ encoder'.tick_b = b
      BY <1>1, <3>1, <3>2
    <3>4. LaterTick' <=> now > b
      BY <2>1, <2>5, <2>9, <2>11, <3>3 DEF LaterTick, QuarterAfter
    <3>5. own => LaterTick'
      BY <1>1, <3>2, <3>4
    <3>6. Seeing'
      BY <2>1, <2>5, <2>7, <2>8, <2>9, <2>11, <3>3, <3>5
         DEF Seeing, Turned, a, QuarterAfter, AAfter, BAfter
    <3>. QED
      BY <1>1, <2>1, <2>2, <2>5, <2>10, <3>3, <3>6 DEF EncoderInv, EncoderTypeOK
  <2>12. CASE encoder.level_a = pin_a
    <3> DEFINE b == pin_b
               a == Older(encoder.tick_a)
    <3>1. encoder' = [encoder EXCEPT !.stage = "PREPARED", !.level_b = b,
                                     !.tick_b = now, !.tick_a = a]
      BY <1>6, <2>12 DEF Encoder_willUpdate
    <3>2. b \in BOOLEAN /\ a \in 0..(Word - 1) /\ (own => a < now)
      BY <1>2, <2>4, <2>6, <2>8
    <3> HIDE DEF a, b
    <3>3. /\ encoder' \in Encoders /\ encoder'.stage = "PREPARED" /\ encoder'.level_b = b
          /\ encoder'.level_a = encoder.level_a
          /\ encoder'.tick_b = now /\ encoder'.tick_a = a
      BY <1>1, <3>1, <3>2
    <3>4. LaterTick' <=> now > a
      BY <2>1, <2>5, <2>9, <2>12, <3>3 DEF LaterTick, QuarterAfter
    <3>5. own => LaterTick'
      BY <1>1, <3>2, <3>4
    <3>6. Seeing'
      BY <2>1, <2>5, <2>7, <2>8, <2>9, <2>12, <3>3, <3>5
         DEF Seeing, Turned, b, QuarterAfter, AAfter, BAfter
    <3>. QED
      BY <1>1, <2>1, <2>2, <2>5, <2>10, <3>3, <3>6 DEF EncoderInv, EncoderTypeOK
  <2>. QED
    BY <2>11, <2>12
<1>7. ASSUME NEW n \in 0..MaxPass, Encoder_release(n) PROVE EncoderInv'
  <2> DEFINE rpm  == Rpm
             turn == IF IsRightTurn THEN 1 ELSE -1
  <2>1. /\ encoder.stage = "PREPARED" /\ shaft' = shaft /\ Pass(n)
        /\ encoder' = [encoder EXCEPT !.stage = "RELEASED", !.rpm = rpm]
        /\ cycle' = [cycle EXCEPT !.edges = @ + 1, !.net = @ + turn]
    BY <1>7 DEF Encoder_release
  <2>2. now' \in 0..(Word - 1)
    BY <1>1, <2>1, PassOn
  <2>3. rpm \in {"zero", "right", "left", "undefined"} /\ turn \in {-1, 1}
    BY <1>2 DEF Rpm
  <2>4. Seeing
    BY <2>1 DEF EncoderInv, ShaftRests, Turned
  <2>5. cycle.clear => /\ cycle.net = NetAfter(cycle.edges)
                       /\ cycle.net + turn = NetAfter(cycle.edges + 1)
    <3> SUFFICES ASSUME cycle.clear
                 PROVE  cycle.net + turn = NetAfter(cycle.edges + 1)
      BY DEF EncoderInv
    <3>1. cycle.net = NetAfter(cycle.edges) /\ LaterTick
      BY <2>4 DEF EncoderInv, Seeing
    <3>2. /\ encoder.level_a = AAfter(cycle.edges + 1)
          /\ encoder.level_b = BAfter(cycle.edges + 1)
          /\ cycle.edges \in {0, 1, 2, 3}
      BY <1>2, <2>4 DEF Seeing
    <3>3. turn = IF shaft.ahead THEN (IF cycle.edges = 2 THEN -1 ELSE 1)
                 ELSE IF cycle.edges = 0 THEN 1 ELSE -1
      <4>1. PICK q \in 0..3 :
              /\ q = QuarterAfter(cycle.edges + 1)
              /\ q = IF shaft.ahead THEN (IF cycle.edges = 3 THEN 0 ELSE cycle.edges + 1)
                    ELSE 3 - cycle.edges
        BY <1>2, <3>2 DEF QuarterAfter
      <4>2. (encoder.level_a <=> q \in {1, 2}) /\ (encoder.level_b <=> q \in {2, 3})
        BY <1>2, <3>2, <4>1 DEF AAfter, BAfter
      <4>3. IF q \in (IF shaft.ahead THEN {1, 3} ELSE {0, 2})
            THEN encoder.tick_a > encoder.tick_b ELSE encoder.tick_b > encoder.tick_a
        BY <3>1, <4>1 DEF LaterTick
      <4>4. IsRightTurn <=> IF q = 1 THEN encoder.tick_a > encoder.tick_b
                            ELSE encoder.tick_a < encoder.tick_b
        <5>1. (encoder.level_a /\ ~encoder.level_b) <=> q = 1
          BY <4>1, <4>2
        <5>. QED
          BY <5>1 DEF IsRightTurn
      <4>5. IsRightTurn <=> IF shaft.ahead THEN q # 3 ELSE q = 3
        BY <1>2, <4>3, <4>4
      <4>6. IsRightTurn <=> IF shaft.ahead THEN cycle.edges # 2 ELSE cycle.edges = 0
        BY <3>2, <4>1, <4>5
      <4>. QED
        BY <4>6
    <3>. QED
      BY <1>2, <3>1, <3>2, <3>3 DEF NetAfter
  <2> HIDE DEF rpm, turn
  <2>6. /\ encoder' \in Encoders /\ encoder'.stage = "RELEASED"
        /\ encoder'.level_a = encoder.level_a /\ encoder'.level_b = encoder.level_b
    BY <1>1, <2>1, <2>3
  <2>7. /\ cycle'.edges = cycle.edges + 1 /\ cycle'.net = cycle.net + turn
        /\ cycle'.clear = cycle.clear /\ cycle' \in Cycles
        /\ -cycle'.edges <= cycle'.net /\ cycle'.net <= cycle'.edges
    <3> DEFINE edges == cycle.edges + 1
               net   == cycle.net + turn
    <3>1. /\ edges \in 0..4 /\ net \in -4..4 /\ -edges <= net /\ net <= edges
          /\ cycle' = [cycle EXCEPT !.edges = edges, !.net = net]
      BY <1>1, <1>2, <2>1, <2>3, <2>4 DEF Seeing
    <3> HIDE DEF edges, net
    <3>2. /\ cycle' \in Cycles /\ cycle'.edges = edges /\ cycle'.net = net
          /\ cycle'.clear = cycle.clear
      BY <1>1, <3>1
    <3>3. edges = cycle.edges + 1 /\ net = cycle.net + turn
      BY DEF edges, net
    <3>. QED
      BY <3>1, <3>2, <3>3
  <2>8. ShaftRests'
    BY <1>2, <2>1, <2>4, <2>6, <2>7 DEF Seeing, ShaftRests, QuarterAfter, AAfter, BAfter
  <2>9. cycle'.clear => cycle'.net = NetAfter(cycle.edges)'
    BY <2>1, <2>5, <2>7 DEF NetAfter
  <2>. QED
    BY <1>1, <2>1, <2>2, <2>6, <2>7, <2>8, <2>9 DEF EncoderInv, EncoderTypeOK
<1>8. CASE UNCHANGED encoderVars
  BY <1>1, <1>8 DEF encoderVars, EncoderInv, EncoderTypeOK, ShaftRests, Turned, Seeing,
                    LaterTick, QuarterAfter, AAfter, BAfter, NetAfter
<1>. QED
  BY <1>3, <1>4, <1>5, <1>6, <1>7, <1>8 DEF EncoderNext, EncoderTurn

LEMMA EncoderInvariance == EncoderSpec => []EncoderInv
  BY EncoderInit_Inv, EncoderNextInv, PTL DEF EncoderSpec

(* Whichever way the shaft turns and however slowly, a cycle whose edges   *)
(* have times of their own tells two turns more that way, and never        *)
(* divides by zero, also when the milliseconds wrap between its edges.     *)
THEOREM CyclesTold == EncoderSpec => []CyclesAreTold
<1>1. EncoderInv => CyclesAreTold
  <2> SUFFICES ASSUME EncoderInv, cycle.clear
               PROVE  /\ encoder.stage = "PREPARED" => encoder.tick_a # encoder.tick_b
                      /\ cycle.edges = 4 => cycle.net = IF shaft.ahead THEN 2 ELSE -2
    BY DEF CyclesAreTold
  <2>1. encoder.tick_a \in Int /\ encoder.tick_b \in Int
    BY DEF EncoderInv, EncoderTypeOK
  <2>2. encoder.stage = "PREPARED" => LaterTick
    BY DEF EncoderInv, ShaftRests, Turned, Seeing
  <2>3. encoder.stage = "PREPARED" => encoder.tick_a # encoder.tick_b
    BY <2>1, <2>2 DEF LaterTick
  <2>4. cycle.edges = 4 => cycle.net = IF shaft.ahead THEN 2 ELSE -2
    BY DEF EncoderInv, NetAfter
  <2>. QED
    BY <2>3, <2>4
<1>. QED
  BY <1>1, EncoderInvariance, PTL
-----------------------------------------------------------------------------
(* Calendar: what the recursive functions of Timer_date compute, in closed *)
(* form, and the calendar on the wall.                                     *)

(* The days from the first of January of a year to that of another.        *)
DaysTo(y, z) == DaysBefore(z) - DaysBefore(y)
YearLength(y) == IF leap_year(y) THEN 366 ELSE 365

LEMMA LeapDays ==
  ASSUME NEW y \in Nat
  PROVE  LeapDaysBefore(y + 1) - LeapDaysBefore(y) = IF leap_year(y) THEN 1 ELSE 0
<1>1. y \div 4 - (y - 1) \div 4 = IF y % 4 = 0 THEN 1 ELSE 0
  BY Z3
<1>2. y \div 100 - (y - 1) \div 100 = IF y % 100 = 0 THEN 1 ELSE 0
  BY Z3
<1>3. y \div 400 - (y - 1) \div 400 = IF y % 400 = 0 THEN 1 ELSE 0
  BY Z3
<1>4. (y % 400 = 0 => y % 100 = 0) /\ (y % 100 = 0 => y % 4 = 0)
  BY Z3
<1>5. /\ y \div 4 \in Int /\ (y - 1) \div 4 \in Int
      /\ y \div 100 \in Int /\ (y - 1) \div 100 \in Int
      /\ y \div 400 \in Int /\ (y - 1) \div 400 \in Int
  OBVIOUS
<1>6. (y + 1) - 1 = y
  OBVIOUS
<1>. QED
  BY <1>1, <1>2, <1>3, <1>4, <1>5, <1>6 DEF LeapDaysBefore, leap_year

LEMMA YearGoesOn ==
  ASSUME NEW y \in Nat
  PROVE  DaysBefore(y) \in Int /\ DaysBefore(y + 1) = DaysBefore(y) + YearLength(y)
<1>1. LeapDaysBefore(y) \in Int /\ LeapDaysBefore(y + 1) \in Int /\ LeapDaysBefore(1970) \in Int
  BY DEF LeapDaysBefore
<1>. QED
  BY <1>1, LeapDays DEF DaysBefore, YearLength

LEMMA YearsInOrder ==
  ASSUME NEW y \in Nat, NEW z \in Nat, y <= z
  PROVE  /\ DaysBefore(y) <= DaysBefore(z)
         /\ DaysBefore(z) - DaysBefore(y) >= 365 * (z - y) - 2
<1>1. \A x \in Int : /\ x \div 4 \in Int /\ 4 * (x \div 4) <= x /\ x <= 4 * (x \div 4) + 3
                     /\ x \div 100 \in Int /\ 100 * (x \div 100) <= x /\ x <= 100 * (x \div 100) + 99
                     /\ x \div 400 \in Int /\ 400 * (x \div 400) <= x /\ x <= 400 * (x \div 400) + 399
  BY Z3
<1> DEFINE a == y - 1
           b == z - 1
<1>2. a \in Int /\ b \in Int /\ a <= b /\ b - a = z - y
  OBVIOUS
<1>3. DaysBefore(z) - DaysBefore(y) = 365 * (b - a) + (b \div 4 - b \div 100 + b \div 400) - (a \div 4 - a \div 100 + a \div 400)
  <2>1. LeapDaysBefore(y) \in Int /\ LeapDaysBefore(z) \in Int /\ LeapDaysBefore(1970) \in Int
    BY DEF LeapDaysBefore
  <2>2. LeapDaysBefore(y) = a \div 4 - a \div 100 + a \div 400 /\ LeapDaysBefore(z) = b \div 4 - b \div 100 + b \div 400
    BY DEF LeapDaysBefore
  <2>. QED
    BY <2>1, <2>2 DEF DaysBefore
<1> HIDE DEF a, b
<1>4. (b \div 4 - b \div 100 + b \div 400) - (a \div 4 - a \div 100 + a \div 400) >= -2
  BY <1>1, <1>2
<1>5. DaysBefore(y) \in Int /\ DaysBefore(z) \in Int
  BY YearGoesOn
<1>6. (b \div 4 - b \div 100 + b \div 400) \in Int /\ (a \div 4 - a \div 100 + a \div 400) \in Int
  BY <1>2
<1>7. DaysBefore(z) - DaysBefore(y) >= 365 * (z - y) - 2
  BY <1>2, <1>3, <1>4, <1>6
<1>8. z = y \/ 365 * (z - y) - 2 >= 0
  OBVIOUS
<1>. QED
  BY <1>5, <1>7, <1>8

(* The year a day falls into, counted from the first of January of a year. *)
InYear(y, d, z) == z \in Nat /\ y <= z /\ DaysTo(y, z) <= d /\ d < DaysTo(y, z + 1)
YearOf(y, d)    == CHOOSE z : InYear(y, d, z)

LEMMA YearFound ==
  ASSUME NEW y \in Nat, NEW d \in Nat
  PROVE  InYear(y, d, YearOf(y, d))
<1> DEFINE T == {z \in Nat : y <= z /\ d < DaysTo(y, z + 1)}
<1>1. \A z \in Nat : DaysBefore(z) \in Int /\ DaysBefore(z + 1) \in Int
  BY YearGoesOn
<1>2. y + d \in T
  <2>1. y + d + 1 \in Nat /\ y <= y + d + 1
    OBVIOUS
  <2>2. DaysBefore(y + d + 1) - DaysBefore(y) >= 365 * ((y + d + 1) - y) - 2
    BY <2>1, YearsInOrder
  <2>. QED
    BY <1>1, <2>1, <2>2 DEF DaysTo
<1>3. PICK z \in T : \A x \in T : z <= x
  <2>1. T \subseteq Nat /\ T # {}
    BY <1>2
  <2>. QED
    BY <2>1, Least
<1>4. DaysTo(y, z) <= d
  <2>1. CASE z = y
    BY <1>1, <2>1 DEF DaysTo
  <2>2. CASE z # y
    <3>1. z - 1 \in Nat /\ y <= z - 1 /\ (z - 1) + 1 = z
      BY <1>3, <2>2
    <3>2. z - 1 \notin T
      BY <1>3, <3>1
    <3>3. ~(d < DaysTo(y, z))
      BY <3>1, <3>2
    <3>. QED
      BY <1>1, <1>3, <3>3 DEF DaysTo
  <2>. QED
    BY <2>1, <2>2
<1>5. InYear(y, d, z)
  BY <1>3, <1>4 DEF InYear
<1>. QED
  BY <1>5, Zenon DEF YearOf

LEMMA YearIsOne ==
  ASSUME NEW y \in Nat, NEW d \in Nat, NEW z, InYear(y, d, z)
  PROVE  YearOf(y, d) = z
<1> DEFINE x == YearOf(y, d)
<1>1. InYear(y, d, x)
  BY YearFound
<1> HIDE DEF x
<1>2. x \in Nat /\ z \in Nat
  BY <1>1 DEF InYear
<1>3. ASSUME NEW u \in Nat, NEW v \in Nat, InYear(y, d, u), InYear(y, d, v), u < v PROVE FALSE
  <2>1. u + 1 \in Nat /\ u + 1 <= v
    BY <1>3
  <2>2. DaysBefore(u + 1) <= DaysBefore(v)
    BY <2>1, YearsInOrder
  <2>3. DaysBefore(u + 1) \in Int /\ DaysBefore(v) \in Int /\ DaysBefore(y) \in Int
    BY <2>1, YearGoesOn
  <2>. QED
    BY <1>3, <2>2, <2>3 DEF InYear, DaysTo
<1>4. x = z
  BY <1>1, <1>2, <1>3
<1>. QED
  BY <1>4 DEF x

(* What TakeYears computes, and one turn of its loop.                      *)
YearsTaken(y, d, w) == [year |-> YearOf(y, d), yday |-> d - DaysTo(y, YearOf(y, d)),
                        wday |-> (w + d) % 7]

NextWday(y, w) == LET later == w + (IF leap_year(y) THEN 2 ELSE 1)
                  IN  IF later >= 7 THEN later - 7 ELSE later

LEMMA YearTurns ==
  ASSUME NEW y \in Nat, NEW d \in Nat, NEW w \in Nat
  PROVE  IF d >= YearLength(y)
         THEN /\ y + 1 \in Nat /\ d - YearLength(y) \in Nat /\ NextWday(y, w) \in Nat
              /\ d - YearLength(y) < d
              /\ YearsTaken(y, d, w) = YearsTaken(y + 1, d - YearLength(y), NextWday(y, w))
         ELSE YearsTaken(y, d, w) = [year |-> y, yday |-> d, wday |-> (w + d) % 7]
<1>1. YearLength(y) \in {365, 366} /\ DaysBefore(y) \in Int /\ DaysBefore(y + 1) = DaysBefore(y) + YearLength(y)
  BY YearGoesOn DEF YearLength
<1>2. CASE d >= YearLength(y)
  <2> DEFINE e == d - YearLength(y)
             z == YearOf(y, d)
             v == NextWday(y, w)
  <2>1. e \in Nat /\ e < d /\ y + 1 \in Nat /\ d = e + YearLength(y)
    BY <1>1, <1>2
  <2>2. v \in Nat /\ (w + d) % 7 = (v + e) % 7
    <3>1. \A x, n \in Nat : (x + n + 365) % 7 = (x + 1 + n) % 7 /\ (x + n + 366) % 7 = (x + 2 + n) % 7
      BY Z3
    <3>2. \A x \in Nat : x >= 7 => \A n \in Nat : (x + n) % 7 = (x - 7 + n) % 7
      BY Z3
    <3>3. CASE leap_year(y)
      <4>1. YearLength(y) = 366 /\ v = IF w + 2 >= 7 THEN w + 2 - 7 ELSE w + 2
        BY <3>3 DEF YearLength, NextWday
      <4>2. (w + d) % 7 = (w + 2 + e) % 7
        <5>1. w + d = w + e + 366
          BY <2>1, <4>1
        <5>. QED
          BY <2>1, <3>1, <5>1
      <4> HIDE DEF v, e
      <4>. QED
        BY <2>1, <3>2, <4>1, <4>2
    <3>4. CASE ~leap_year(y)
      <4>1. YearLength(y) = 365 /\ v = IF w + 1 >= 7 THEN w + 1 - 7 ELSE w + 1
        BY <3>4 DEF YearLength, NextWday
      <4>2. (w + d) % 7 = (w + 1 + e) % 7
        <5>1. w + d = w + e + 365
          BY <2>1, <4>1
        <5>. QED
          BY <2>1, <3>1, <5>1
      <4> HIDE DEF v, e
      <4>. QED
        BY <2>1, <3>2, <4>1, <4>2
    <3>. QED
      BY <3>3, <3>4
  <2>3. InYear(y, d, z)
    BY YearFound
  <2> HIDE DEF e, z, v
  <2>4. z \in Nat /\ DaysBefore(z) \in Int /\ DaysBefore(z + 1) \in Int
    BY <2>3, YearGoesOn DEF InYear
  <2>5. DaysTo(y, z) = DaysTo(y + 1, z) + YearLength(y) /\ DaysTo(y, z + 1) = DaysTo(y + 1, z + 1) + YearLength(y)
    BY <1>1, <2>4 DEF DaysTo
  <2>6. z # y
    BY <1>1, <1>2, <2>3, <2>4 DEF InYear, DaysTo
  <2>7. InYear(y + 1, e, z)
    BY <1>1, <2>1, <2>3, <2>4, <2>5, <2>6 DEF InYear, DaysTo
  <2>8. YearOf(y + 1, e) = z
    BY <2>1, <2>7, YearIsOne
  <2>9. d - DaysTo(y, z) = e - DaysTo(y + 1, z)
    BY <1>1, <2>1, <2>4, <2>5 DEF DaysTo
  <2>10. YearsTaken(y, d, w) = YearsTaken(y + 1, e, v)
    BY <2>2, <2>8, <2>9 DEF YearsTaken, z
  <2>. QED
    BY <1>2, <2>1, <2>2, <2>10 DEF e, v
<1>3. CASE ~(d >= YearLength(y))
  <2>1. InYear(y, d, y) /\ DaysTo(y, y) = 0
    BY <1>1, <1>3 DEF InYear, DaysTo
  <2>2. YearOf(y, d) = y
    BY <2>1, YearIsOne
  <2>. QED
    BY <1>3, <2>1, <2>2 DEF YearsTaken
<1>. QED
  BY <1>2, <1>3

YearsTurn(f, from) ==
  LET length == IF leap_year(from.year) THEN 366 ELSE 365
      later  == from.wday + (IF leap_year(from.year) THEN 2 ELSE 1)
  IN  IF from.days >= length
      THEN f[[year |-> from.year + 1, days |-> from.days - length,
              wday |-> IF later >= 7 THEN later - 7 ELSE later]]
      ELSE [year |-> from.year, yday |-> from.days, wday |-> (from.wday + from.days) % 7]

YearsLoop(f) == f = [from \in YearsFrom |-> YearsTurn(f, from)]

LEMMA YearsTurnIs ==
  ASSUME NEW f, NEW from \in YearsFrom
  PROVE  YearsTurn(f, from) =
         IF from.days >= YearLength(from.year)
         THEN f[[year |-> from.year + 1, days |-> from.days - YearLength(from.year),
                 wday |-> NextWday(from.year, from.wday)]]
         ELSE [year |-> from.year, yday |-> from.days, wday |-> (from.wday + from.days) % 7]
  BY Zenon DEF YearsTurn, YearLength, NextWday

LEMMA YearsLoopEnds == \E f : YearsLoop(f)
<1> DEFINE f == [from \in YearsFrom |-> YearsTaken(from.year, from.days, from.wday)]
<1>1. ASSUME NEW from \in YearsFrom
      PROVE  YearsTaken(from.year, from.days, from.wday) = YearsTurn(f, from)
  <2> DEFINE y == from.year
             d == from.days
             w == from.wday
             next == [year |-> y + 1, days |-> d - YearLength(y), wday |-> NextWday(y, w)]
  <2>1. y \in Nat /\ d \in Nat /\ w \in Nat
    BY DEF YearsFrom
  <2>2. CASE d >= YearLength(y)
    <3>1. next \in YearsFrom /\ YearsTaken(y, d, w) = YearsTaken(y + 1, d - YearLength(y), NextWday(y, w))
      BY <2>1, <2>2, YearTurns DEF YearsFrom
    <3>2. f[next] = YearsTaken(next.year, next.days, next.wday)
      BY <3>1
    <3>. QED
      BY <2>2, <3>1, <3>2, YearsTurnIs
  <2>3. CASE ~(d >= YearLength(y))
    BY <2>1, <2>3, YearTurns, YearsTurnIs
  <2>. QED
    BY <2>2, <2>3
<1>2. f = [from \in YearsFrom |-> YearsTurn(f, from)]
  BY <1>1
<1> HIDE DEF f
<1>3. YearsLoop(f)
  BY <1>2 DEF YearsLoop
<1>. QED
  BY <1>3

LEMMA YearsLoopTaken == YearsLoop(TakeYears)
<1> DEFINE g == CHOOSE f : YearsLoop(f)
<1>1. YearsLoop(g)
  BY YearsLoopEnds, Zenon
<1>2. TakeYears = g
  BY Zenon DEF TakeYears, YearsLoop, YearsTurn, YearsFrom
<1>. QED
  BY <1>1, <1>2

(* TakeYears computes it, by induction on the days that are left.          *)
LEMMA TakeYearsIs ==
  ASSUME NEW y \in Nat, NEW d \in Nat, NEW w \in Nat
  PROVE  TakeYears[[year |-> y, days |-> d, wday |-> w]] = YearsTaken(y, d, w)
<1> DEFINE At(a, b, c) == [year |-> a, days |-> b, wday |-> c]
           T == {b \in Nat : \E a, c \in Nat : TakeYears[At(a, b, c)] # YearsTaken(a, b, c)}
<1>1. SUFFICES ASSUME T # {} PROVE FALSE
  OBVIOUS
<1>2. PICK b \in T : \A x \in T : b <= x
  BY <1>1, Least
<1>3. PICK a \in Nat, c \in Nat : TakeYears[At(a, b, c)] # YearsTaken(a, b, c)
  BY <1>2
<1>4. \A x, u, v \in Nat : x < b => TakeYears[At(u, x, v)] = YearsTaken(u, x, v)
  BY <1>2
<1>5. At(a, b, c) \in YearsFrom /\ b \in Nat
  BY <1>2 DEF YearsFrom
<1>6. TakeYears[At(a, b, c)] = YearsTurn(TakeYears, At(a, b, c))
  BY <1>5, YearsLoopTaken DEF YearsLoop
<1>7. YearsTurn(TakeYears, At(a, b, c)) =
        IF b >= YearLength(a) THEN TakeYears[At(a + 1, b - YearLength(a), NextWday(a, c))]
        ELSE [year |-> a, yday |-> b, wday |-> (c + b) % 7]
  BY <1>5, YearsTurnIs
<1> HIDE DEF T, At
<1>8. CASE b >= YearLength(a)
  <2> DEFINE e == b - YearLength(a)
             v == NextWday(a, c)
  <2>1. /\ a + 1 \in Nat /\ e \in Nat /\ v \in Nat /\ e < b
        /\ YearsTaken(a, b, c) = YearsTaken(a + 1, e, v)
    BY <1>5, <1>8, YearTurns
  <2>2. TakeYears[At(a, b, c)] = TakeYears[At(a + 1, e, v)]
    BY <1>6, <1>7, <1>8
  <2> HIDE DEF e, v
  <2>3. TakeYears[At(a + 1, e, v)] = YearsTaken(a + 1, e, v)
    BY <1>4, <2>1
  <2>. QED
    BY <1>3, <2>1, <2>2, <2>3
<1>9. CASE ~(b >= YearLength(a))
  BY <1>3, <1>5, <1>6, <1>7, <1>9, YearTurns
<1>. QED
  BY <1>8, <1>9
-----------------------------------------------------------------------------
(* The days of a year before a month, and the months as TakeMonths takes   *)
(* them off.                                                               *)
DaysBeforeMonth(m, y) ==
  <<0, 31, 59, 90, 120, 151, 181, 212, 243, 273, 304, 334, 365>>[m + 1]
  + (IF m >= 2 /\ leap_year(y) THEN 1 ELSE 0)

MonthTo(m, n, y) == DaysBeforeMonth(n, y) - DaysBeforeMonth(m, y)

LEMMA MonthGoesOn ==
  ASSUME NEW y, NEW m \in 0..11
  PROVE  /\ DaysBeforeMonth(m, y) \in Nat /\ dim(m, y) \in 28..31
         /\ DaysBeforeMonth(m + 1, y) \in Nat
         /\ DaysBeforeMonth(m + 1, y) = DaysBeforeMonth(m, y) + dim(m, y)
<1>1. m \in {0, 1, 2, 3, 4, 5, 6, 7, 8, 9, 10, 11}
  OBVIOUS
<1> DEFINE leap == IF leap_year(y) THEN 1 ELSE 0
           table == <<0, 31, 59, 90, 120, 151, 181, 212, 243, 273, 304, 334, 365>>
<1>2. leap \in {0, 1}
  OBVIOUS
<1>3. /\ DaysBeforeMonth(m, y) = table[m + 1] + (IF m >= 2 THEN leap ELSE 0)
      /\ DaysBeforeMonth(m + 1, y) = table[m + 2] + (IF m + 1 >= 2 THEN leap ELSE 0)
      /\ dim(m, y) = days_in_month[m + 1] + (IF m = 1 THEN leap ELSE 0)
  <2>1. (m + 1) + 1 = m + 2
    OBVIOUS
  <2>. QED
    BY <2>1 DEF DaysBeforeMonth, dim
<1>4. /\ table[1] = 0 /\ table[2] = 31 /\ table[3] = 59 /\ table[4] = 90 /\ table[5] = 120
      /\ table[6] = 151 /\ table[7] = 181 /\ table[8] = 212 /\ table[9] = 243
      /\ table[10] = 273 /\ table[11] = 304 /\ table[12] = 334 /\ table[13] = 365
  OBVIOUS
<1>5. /\ days_in_month[1] = 31 /\ days_in_month[2] = 28 /\ days_in_month[3] = 31
      /\ days_in_month[4] = 30 /\ days_in_month[5] = 31 /\ days_in_month[6] = 30
      /\ days_in_month[7] = 31 /\ days_in_month[8] = 31 /\ days_in_month[9] = 30
      /\ days_in_month[10] = 31 /\ days_in_month[11] = 30 /\ days_in_month[12] = 31
  BY DEF days_in_month
<1> HIDE DEF table, leap
<1>. QED
  BY <1>1, <1>2, <1>3, <1>4, <1>5

(* The month a day falls into, from the first of a month on.               *)
InMonth(m, d, y, n) ==
  /\ n \in 0..12 /\ m <= n /\ MonthTo(m, n, y) <= d
  /\ n < 12 => d < MonthTo(m, n + 1, y)
MonthOf(m, d, y) == CHOOSE n : InMonth(m, d, y, n)

LEMMA MonthsInOrder ==
  ASSUME NEW y
  PROVE  /\ \A n \in 0..12 : DaysBeforeMonth(n, y) \in Nat
         /\ \A i, j \in 0..12 : i <= j => DaysBeforeMonth(i, y) <= DaysBeforeMonth(j, y)
<1> DEFINE B(n) == DaysBeforeMonth(n, y)
<1>1. \A n \in 0..11 : B(n) \in Nat /\ B(n + 1) \in Nat /\ B(n) <= B(n + 1)
  <2>1. ASSUME NEW n \in 0..11 PROVE B(n) \in Nat /\ B(n + 1) \in Nat /\ B(n) <= B(n + 1)
    <3>1. dim(n, y) \in Nat
      BY MonthGoesOn
    <3>. QED
      BY <3>1, MonthGoesOn
  <2>. QED
    BY <2>1
<1>2. \A n \in 0..12 : B(n) \in Nat
  <2>1. 11 + 1 = 12 /\ 11 \in 0..11
    OBVIOUS
  <2>. QED
    BY <1>1, <2>1
<1>3. \A i, j \in 0..12 : i <= j => B(i) <= B(j)
  <2>1. /\ B(0) <= B(1) /\ B(1) <= B(2) /\ B(2) <= B(3) /\ B(3) <= B(4) /\ B(4) <= B(5)
        /\ B(5) <= B(6) /\ B(6) <= B(7) /\ B(7) <= B(8) /\ B(8) <= B(9) /\ B(9) <= B(10)
        /\ B(10) <= B(11) /\ B(11) <= B(12)
    BY <1>1
  <2> HIDE DEF B
  <2>2. SUFFICES ASSUME NEW i \in 0..12, NEW j \in 0..12, i <= j PROVE B(i) <= B(j)
    OBVIOUS
  <2>3. /\ i \in {0, 1, 2, 3, 4, 5, 6, 7, 8, 9, 10, 11, 12}
        /\ j \in {0, 1, 2, 3, 4, 5, 6, 7, 8, 9, 10, 11, 12}
    OBVIOUS
  <2>4. /\ B(0) \in Nat /\ B(1) \in Nat /\ B(2) \in Nat /\ B(3) \in Nat /\ B(4) \in Nat
        /\ B(5) \in Nat /\ B(6) \in Nat /\ B(7) \in Nat /\ B(8) \in Nat /\ B(9) \in Nat
        /\ B(10) \in Nat /\ B(11) \in Nat /\ B(12) \in Nat
    BY <1>2
  <2>. QED
    BY <2>1, <2>2, <2>3, <2>4
<1>. QED
  BY <1>2, <1>3

LEMMA MonthFound ==
  ASSUME NEW y, NEW m \in 0..12, NEW d \in Nat
  PROVE  /\ InMonth(m, d, y, MonthOf(m, d, y))
         /\ \A n : InMonth(m, d, y, n) => MonthOf(m, d, y) = n
<1> DEFINE B(n) == DaysBeforeMonth(n, y)
           T    == {n \in 0..12 : m <= n /\ (n < 12 => d < MonthTo(m, n + 1, y))}
<1>2. \A n \in 0..12 : B(n) \in Nat
  BY MonthsInOrder
<1>3. PICK n \in T : \A x \in T : n <= x
  <2>1. T \subseteq Nat /\ 12 \in T
    OBVIOUS
  <2>. QED
    BY <2>1, Least
<1>4. MonthTo(m, n, y) <= d
  <2>1. CASE n = m
    BY <1>2, <2>1 DEF MonthTo
  <2>2. CASE n # m
    <3>1. n - 1 \in 0..12 /\ m <= n - 1 /\ n - 1 < 12 /\ (n - 1) + 1 = n
      BY <1>3, <2>2
    <3>2. n - 1 \notin T
      <4>1. n \in Int /\ ~(n <= n - 1)
        BY <1>3
      <4> HIDE DEF T
      <4>. QED
        BY <1>3, <4>1
    <3>3. ~(d < MonthTo(m, n, y))
      BY <3>1, <3>2
    <3>. QED
      BY <1>2, <1>3, <3>3 DEF MonthTo
  <2>. QED
    BY <2>1, <2>2
<1>5. InMonth(m, d, y, n)
  BY <1>3, <1>4 DEF InMonth
<1>6. \A i, j \in 0..12 : i <= j => B(i) <= B(j)
  BY MonthsInOrder
<1>7. ASSUME NEW i, NEW j, InMonth(m, d, y, i), InMonth(m, d, y, j), i < j PROVE FALSE
  <2>1. i \in 0..12 /\ j \in 0..12 /\ i + 1 \in 0..12 /\ i + 1 <= j /\ i < 12
    BY <1>7 DEF InMonth
  <2>2. B(i + 1) <= B(j) /\ B(i + 1) \in Nat /\ B(j) \in Nat /\ B(m) \in Nat
    BY <1>2, <1>6, <2>1
  <2>3. MonthTo(m, j, y) <= d /\ d < MonthTo(m, i + 1, y)
    BY <1>7, <2>1 DEF InMonth
  <2>. QED
    BY <2>2, <2>3 DEF MonthTo
<1>8. InMonth(m, d, y, MonthOf(m, d, y))
  BY <1>5, Zenon DEF MonthOf
<1>9. \A i : InMonth(m, d, y, i) => i \in 0..12
  BY DEF InMonth
<1>. QED
  BY <1>7, <1>8, <1>9

LEMMA MonthTurns ==
  ASSUME NEW y, NEW m \in Nat, NEW d \in Nat
  PROVE  IF m < 12 /\ d >= dim(m, y)
         THEN \A n : InMonth(m, d, y, n) <=> InMonth(m + 1, d - dim(m, y), y, n)
         ELSE m < 12 => InMonth(m, d, y, m)
<1>1. \A n \in 0..12 : DaysBeforeMonth(n, y) \in Nat
  <2>1. \A n \in 0..11 : DaysBeforeMonth(n, y) \in Nat /\ DaysBeforeMonth(n + 1, y) \in Nat
    BY MonthGoesOn
  <2>2. 11 + 1 = 12 /\ 11 \in 0..11
    OBVIOUS
  <2>. QED
    BY <2>1, <2>2
<1>2. CASE m < 12 /\ d >= dim(m, y)
  <2>1. /\ m \in 0..11 /\ m + 1 \in 0..12 /\ dim(m, y) \in Nat
        /\ DaysBeforeMonth(m + 1, y) = DaysBeforeMonth(m, y) + dim(m, y)
    BY <1>2, MonthGoesOn
  <2>2. ASSUME NEW n \in 0..12
        PROVE  InMonth(m, d, y, n) <=> InMonth(m + 1, d - dim(m, y), y, n)
    <3>1. DaysBeforeMonth(m, y) \in Nat /\ DaysBeforeMonth(m + 1, y) \in Nat /\ DaysBeforeMonth(n, y) \in Nat
      BY <1>1, <2>1
    <3>2. n < 12 => DaysBeforeMonth(n + 1, y) \in Nat
      BY <1>1
    <3>3. MonthTo(m + 1, n, y) = MonthTo(m, n, y) - dim(m, y) /\ MonthTo(m, n, y) \in Int
      BY <2>1, <3>1 DEF MonthTo
    <3>4. n < 12 => MonthTo(m + 1, n + 1, y) = MonthTo(m, n + 1, y) - dim(m, y) /\ MonthTo(m, n + 1, y) \in Int
      BY <2>1, <3>1, <3>2 DEF MonthTo
    <3>5. n = m => ~InMonth(m, d, y, n)
      BY <1>2, <2>1, <3>1 DEF InMonth, MonthTo
    <3>6. /\ MonthTo(m + 1, n, y) <= d - dim(m, y) <=> MonthTo(m, n, y) <= d
          /\ n < 12 => (d - dim(m, y) < MonthTo(m + 1, n + 1, y) <=> d < MonthTo(m, n + 1, y))
      BY <2>1, <3>3, <3>4
    <3>7. n = m \/ (m <= n <=> m + 1 <= n)
      BY <2>1
    <3>8. n = m => ~InMonth(m + 1, d - dim(m, y), y, n)
      BY <2>1 DEF InMonth
    <3>. QED
      BY <3>5, <3>6, <3>7, <3>8 DEF InMonth
  <2>3. \A n : n \notin 0..12 => ~InMonth(m, d, y, n) /\ ~InMonth(m + 1, d - dim(m, y), y, n)
    BY DEF InMonth
  <2>. QED
    BY <1>2, <2>2, <2>3
<1>3. CASE m < 12 /\ ~(d >= dim(m, y))
  <2>1. /\ m \in 0..11 /\ dim(m, y) \in Nat
        /\ DaysBeforeMonth(m, y) \in Nat
        /\ DaysBeforeMonth(m + 1, y) = DaysBeforeMonth(m, y) + dim(m, y)
    BY <1>3, MonthGoesOn
  <2>. QED
    BY <1>3, <2>1 DEF InMonth, MonthTo
<1>. QED
  BY <1>2, <1>3

(* What TakeMonths computes, also beyond the months of a year.             *)
MonthsTaken(m, d, y) ==
  IF m <= 12 THEN [mon |-> MonthOf(m, d, y), mday |-> d - MonthTo(m, MonthOf(m, d, y), y) + 1]
  ELSE [mon |-> m, mday |-> d + 1]

LEMMA MonthsTurned ==
  ASSUME NEW y, NEW m \in Nat, NEW d \in Nat
  PROVE  IF m < 12 /\ d >= dim(m, y)
         THEN /\ m + 1 \in Nat /\ d - dim(m, y) \in Nat /\ d - dim(m, y) < d
              /\ MonthsTaken(m, d, y) = MonthsTaken(m + 1, d - dim(m, y), y)
         ELSE MonthsTaken(m, d, y) = [mon |-> m, mday |-> d + 1]
<1>1. CASE m < 12 /\ d >= dim(m, y)
  <2> DEFINE e == d - dim(m, y)
             n == MonthOf(m, d, y)
  <2>1. /\ m \in 0..11 /\ m \in 0..12 /\ m + 1 \in 0..12 /\ m + 1 \in Nat /\ dim(m, y) \in 28..31
        /\ DaysBeforeMonth(m + 1, y) = DaysBeforeMonth(m, y) + dim(m, y)
        /\ DaysBeforeMonth(m, y) \in Nat
    BY <1>1, MonthGoesOn
  <2>2. e \in Nat /\ e < d
    BY <1>1, <2>1
  <2>3. InMonth(m, d, y, n)
    BY <2>1, MonthFound
  <2>4. InMonth(m + 1, e, y, n)
    BY <1>1, <2>3, MonthTurns
  <2> HIDE DEF n, e
  <2>5. MonthOf(m + 1, e, y) = n
    BY <2>1, <2>2, <2>4, MonthFound
  <2>6. DaysBeforeMonth(n, y) \in Nat
    <3>1. n \in 0..12
      BY <2>3 DEF InMonth
    <3>2. n \in 0..11 \/ (n = 11 + 1 /\ 11 \in 0..11)
      BY <3>1
    <3>. QED
      BY <3>2, MonthGoesOn
  <2>7. d - MonthTo(m, n, y) + 1 = e - MonthTo(m + 1, n, y) + 1
    BY <2>1, <2>6 DEF MonthTo, e
  <2>8. MonthsTaken(m, d, y) = MonthsTaken(m + 1, e, y)
    BY <1>1, <2>1, <2>5, <2>7 DEF MonthsTaken, n
  <2>. QED
    BY <1>1, <2>1, <2>2, <2>8 DEF e
<1>2. CASE ~(m < 12 /\ d >= dim(m, y))
  <2>1. CASE m < 12
    <3>1. InMonth(m, d, y, m) /\ m \in 0..12 /\ m \in 0..11
      BY <1>2, <2>1, MonthTurns
    <3>2. MonthOf(m, d, y) = m /\ MonthTo(m, m, y) = 0
      BY <3>1, MonthFound, MonthGoesOn DEF MonthTo
    <3>. QED
      BY <1>2, <2>1, <3>2 DEF MonthsTaken
  <2>2. CASE m = 12
    <3>1. DaysBeforeMonth(12, y) \in Nat /\ 12 \in 0..12
      <4>1. 12 = 11 + 1 /\ 11 \in 0..11
        OBVIOUS
      <4>. QED
        BY <4>1, MonthGoesOn
    <3>2. MonthTo(12, 12, y) = 0
      BY <3>1 DEF MonthTo
    <3>3. InMonth(12, d, y, 12)
      BY <3>2 DEF InMonth
    <3>4. MonthOf(12, d, y) = 12
      BY <3>1, <3>3, MonthFound
    <3>. QED
      BY <1>2, <2>2, <3>2, <3>4 DEF MonthsTaken
  <2>3. CASE m > 12
    BY <1>2, <2>3 DEF MonthsTaken
  <2>. QED
    BY <2>1, <2>2, <2>3
<1>. QED
  BY <1>1, <1>2

MonthsTurn(f, from) ==
  IF from.mon < 12 /\ from.days >= dim(from.mon, from.year)
  THEN f[[mon |-> from.mon + 1, days |-> from.days - dim(from.mon, from.year),
          year |-> from.year]]
  ELSE [mon |-> from.mon, mday |-> from.days + 1]

MonthsLoop(f) == f = [from \in MonthsFrom |-> MonthsTurn(f, from)]

LEMMA MonthsLoopEnds == \E f : MonthsLoop(f)
<1> DEFINE f == [from \in MonthsFrom |-> MonthsTaken(from.mon, from.days, from.year)]
<1>1. ASSUME NEW from \in MonthsFrom
      PROVE  MonthsTaken(from.mon, from.days, from.year) = MonthsTurn(f, from)
  <2> DEFINE m == from.mon
             d == from.days
             y == from.year
             next == [mon |-> m + 1, days |-> d - dim(m, y), year |-> y]
  <2>1. m \in Nat /\ d \in Nat /\ y \in Nat
    BY DEF MonthsFrom
  <2>2. CASE m < 12 /\ d >= dim(m, y)
    <3>1. m + 1 \in Nat /\ d - dim(m, y) \in Nat /\ MonthsTaken(m, d, y) = MonthsTaken(m + 1, d - dim(m, y), y)
      BY <2>1, <2>2, MonthsTurned
    <3>2. next \in MonthsFrom /\ next.mon = m + 1 /\ next.days = d - dim(m, y) /\ next.year = y
      BY <3>1 DEF MonthsFrom
    <3>3. f[next] = MonthsTaken(next.mon, next.days, next.year)
      BY <3>2
    <3>. QED
      BY <2>2, <3>1, <3>2, <3>3 DEF MonthsTurn
  <2>3. CASE ~(m < 12 /\ d >= dim(m, y))
    BY <2>1, <2>3, MonthsTurned DEF MonthsTurn
  <2>. QED
    BY <2>2, <2>3
<1>2. f = [from \in MonthsFrom |-> MonthsTurn(f, from)]
  BY <1>1
<1> HIDE DEF f
<1>3. MonthsLoop(f)
  BY <1>2 DEF MonthsLoop
<1>. QED
  BY <1>3

LEMMA MonthsLoopTaken == MonthsLoop(TakeMonths)
<1> DEFINE g == CHOOSE f : MonthsLoop(f)
<1>1. MonthsLoop(g)
  BY MonthsLoopEnds, Zenon
<1>2. TakeMonths = g
  BY Zenon DEF TakeMonths, MonthsLoop, MonthsTurn, MonthsFrom
<1>. QED
  BY <1>1, <1>2

LEMMA TakeMonthsIs ==
  ASSUME NEW m \in Nat, NEW d \in Nat, NEW y \in Nat
  PROVE  TakeMonths[[mon |-> m, days |-> d, year |-> y]] = MonthsTaken(m, d, y)
<1> DEFINE At(a, b) == [mon |-> a, days |-> b, year |-> y]
           T == {b \in Nat : \E a \in Nat : TakeMonths[At(a, b)] # MonthsTaken(a, b, y)}
<1>1. SUFFICES ASSUME T # {} PROVE FALSE
  OBVIOUS
<1>2. PICK b \in T : \A x \in T : b <= x
  BY <1>1, Least
<1>3. PICK a \in Nat : TakeMonths[At(a, b)] # MonthsTaken(a, b, y)
  BY <1>2
<1>4. \A x, u \in Nat : x < b => TakeMonths[At(u, x)] = MonthsTaken(u, x, y)
  BY <1>2
<1>5. At(a, b) \in MonthsFrom /\ b \in Nat
  BY <1>2 DEF MonthsFrom
<1>6. TakeMonths[At(a, b)] = MonthsTurn(TakeMonths, At(a, b))
  BY <1>5, MonthsLoopTaken DEF MonthsLoop
<1>7. MonthsTurn(TakeMonths, At(a, b)) =
        IF a < 12 /\ b >= dim(a, y) THEN TakeMonths[At(a + 1, b - dim(a, y))]
        ELSE [mon |-> a, mday |-> b + 1]
  BY Zenon DEF MonthsTurn
<1> HIDE DEF T, At
<1>8. CASE a < 12 /\ b >= dim(a, y)
  <2> DEFINE e == b - dim(a, y)
  <2>1. /\ a + 1 \in Nat /\ e \in Nat /\ e < b
        /\ MonthsTaken(a, b, y) = MonthsTaken(a + 1, e, y)
    BY <1>5, <1>8, MonthsTurned
  <2>2. TakeMonths[At(a, b)] = TakeMonths[At(a + 1, e)]
    BY <1>6, <1>7, <1>8
  <2> HIDE DEF e
  <2>3. TakeMonths[At(a + 1, e)] = MonthsTaken(a + 1, e, y)
    BY <1>4, <2>1
  <2>. QED
    BY <1>3, <2>1, <2>2, <2>3
<1>9. CASE ~(a < 12 /\ b >= dim(a, y))
  BY <1>3, <1>5, <1>6, <1>7, <1>9, MonthsTurned
<1>. QED
  BY <1>8, <1>9

(* A division that has been taken apart.                                   *)
LEMMA Parts ==
  ASSUME NEW q \in Nat, NEW b \in Nat \ {0}, NEW r \in 0..(b - 1)
  PROVE  /\ q * b + r \in Nat /\ (q * b + r) \div b = q /\ (q * b + r) % b = r
         /\ (q + 1) * b = q * b + b /\ q * b \in Nat /\ (q + 1) * b \in Nat
<1>1. q * b \in Nat /\ q * b + r \in Nat /\ (q + 1) * b \in Nat /\ (q + 1) * b = q * b + b
  BY Z3
<1>2. (q * b + r) \div b = q /\ (q * b + r) % b = r
  BY <1>1, Z3
<1>. QED
  BY <1>1, <1>2
-----------------------------------------------------------------------------
(* The calendar on the wall shows a date, and the timestamp is its seconds. *)
IsDate(w) ==
  /\ w \in [year : Nat, mon : 0..11, mday : 1..31, yday : Nat, wday : Nat,
            hour : 0..(PerDay - 1), min : 0..(PerHour - 1), sec : 0..(PerMinute - 1)]
  /\ w.year >= 1970
  /\ w.mday <= dim(w.mon, w.year)
  /\ w.yday = DaysBeforeMonth(w.mon, w.year) + w.mday - 1
  /\ w.wday = (4 + DaysBefore(w.year) + w.yday) % 7

DayOf(w)    == DaysBefore(w.year) + w.yday
MinuteOf(w) == (DayOf(w) * PerDay + w.hour) * PerHour + w.min
SecondOf(w) == MinuteOf(w) * PerMinute + w.sec

CalendarInv == /\ IsDate(wall) /\ timestamp = SecondOf(wall)
               /\ calendar = Timer_date(timestamp)

LEMMA DaysAreNat ==
  ASSUME NEW y \in Nat, y >= 1970
  PROVE  DaysBefore(y) \in Nat /\ DaysBefore(1970) = 0
<1>1. DaysBefore(1970) = 0
  BY Z3 DEF DaysBefore, LeapDaysBefore
<1>2. DaysBefore(1970) <= DaysBefore(y) /\ DaysBefore(y) \in Int
  BY YearsInOrder, YearGoesOn
<1>. QED
  BY <1>1, <1>2

(* A day is one of its month and of its year.                              *)
LEMMA DayOfYear ==
  ASSUME NEW w, IsDate(w)
  PROVE  /\ w.yday < YearLength(w.year) /\ DayOf(w) \in Nat
         /\ YearOf(1970, DayOf(w)) = w.year /\ MonthOf(0, w.yday, w.year) = w.mon
         /\ (w.mon = 11 /\ w.mday = dim(w.mon, w.year)) => w.yday + 1 = YearLength(w.year)
<1> DEFINE y == w.year
           m == w.mon
<1>1. /\ y \in Nat /\ m \in 0..11 /\ w.mday \in Nat /\ w.mday >= 1 /\ w.yday \in Nat /\ y >= 1970
      /\ w.mday <= dim(m, y) /\ w.yday = DaysBeforeMonth(m, y) + w.mday - 1
  BY DEF IsDate
<1> HIDE DEF y, m
<1>2. /\ DaysBeforeMonth(m, y) \in Nat /\ dim(m, y) \in 28..31
      /\ DaysBeforeMonth(m + 1, y) = DaysBeforeMonth(m, y) + dim(m, y)
  BY <1>1, MonthGoesOn
<1>3. DaysBeforeMonth(12, y) = YearLength(y) /\ DaysBeforeMonth(0, y) = 0 /\ YearLength(y) \in Nat
  BY DEF DaysBeforeMonth, YearLength
<1>4. DaysBeforeMonth(m + 1, y) <= DaysBeforeMonth(12, y)
  <2>1. m + 1 \in 0..12 /\ 12 \in 0..12 /\ m + 1 <= 12
    BY <1>1
  <2>. QED
    BY <2>1, MonthsInOrder
<1>5. w.yday < YearLength(y)
  BY <1>1, <1>2, <1>3, <1>4
<1>6. (m = 11 /\ w.mday = dim(m, y)) => w.yday + 1 = YearLength(y)
  <2>1. m = 11 => m + 1 = 12
    OBVIOUS
  <2>. QED
    BY <1>1, <1>2, <1>3, <2>1
<1>7. DaysBefore(y) \in Nat /\ DaysBefore(1970) = 0 /\ DaysBefore(y + 1) = DaysBefore(y) + YearLength(y)
  BY <1>1, DaysAreNat, YearGoesOn
<1>8. DayOf(w) = DaysBefore(y) + w.yday /\ DayOf(w) \in Nat
  BY <1>1, <1>7 DEF DayOf, y
<1>9. YearOf(1970, DayOf(w)) = y
  <2>1. InYear(1970, DayOf(w), y)
    BY <1>1, <1>3, <1>5, <1>7, <1>8 DEF InYear, DaysTo
  <2>. QED
    BY <1>8, <2>1, YearIsOne
<1>10. MonthOf(0, w.yday, y) = m
  <2>1. InMonth(0, w.yday, y, m)
    BY <1>1, <1>2, <1>3 DEF InMonth, MonthTo
  <2>2. 0 \in 0..12
    OBVIOUS
  <2>. QED
    BY <1>1, <2>1, <2>2, MonthFound
<1>. QED
  BY <1>5, <1>6, <1>8, <1>9, <1>10 DEF y, m

(* Timer_date is right about the seconds of a date.                        *)
LEMMA DateOfSeconds ==
  ASSUME NEW w, IsDate(w), SecondOf(w) \div PerMinute < IntWord
  PROVE  Timer_date(SecondOf(w)) = w
<1> DEFINE D == DayOf(w)
           H == D * PerDay + w.hour
           M == H * PerHour + w.min
           S == M * PerMinute + w.sec
<1>1. /\ w.year \in Nat /\ w.mon \in 0..11 /\ w.mday \in 1..31 /\ w.yday \in Nat
      /\ w.hour \in 0..(PerDay - 1) /\ w.min \in 0..(PerHour - 1) /\ w.sec \in 0..(PerMinute - 1)
      /\ w.yday = DaysBeforeMonth(w.mon, w.year) + w.mday - 1
      /\ w.wday = (4 + DaysBefore(w.year) + w.yday) % 7
      /\ w = [year |-> w.year, mon |-> w.mon, mday |-> w.mday, yday |-> w.yday, wday |-> w.wday,
              hour |-> w.hour, min |-> w.min, sec |-> w.sec]
  BY DEF IsDate
<1>2. /\ PerDay \in Nat \ {0} /\ PerHour \in Nat \ {0} /\ PerMinute \in Nat \ {0}
      /\ IntWord \in Nat \ {0} /\ PerMinute <= IntWord
  BY CalendarAssumption
<1>3. /\ D \in Nat /\ YearOf(1970, D) = w.year /\ MonthOf(0, w.yday, w.year) = w.mon
  BY DayOfYear
<1>4. SecondOf(w) = S
  BY DEF SecondOf, MinuteOf
<1> HIDE DEF D
<1>5. H \in Nat /\ H \div PerDay = D /\ H % PerDay = w.hour
  BY <1>1, <1>2, <1>3, Parts
<1> HIDE DEF H
<1>6. M \in Nat /\ M \div PerHour = H /\ M % PerHour = w.min
  BY <1>1, <1>2, <1>5, Parts
<1> HIDE DEF M
<1>7. S \in Nat /\ S \div PerMinute = M /\ M * PerMinute \in Nat
  BY <1>1, <1>2, <1>6, Parts
<1>8. S - M * PerMinute = w.sec
  BY <1>1, <1>2, <1>7
<1>9. M % IntWord = M /\ w.sec % IntWord = w.sec
  <2>1. M < IntWord /\ w.sec \in Nat /\ w.sec < IntWord
    BY <1>1, <1>2, <1>4, <1>7
  <2>2. \A x \in Nat : x < IntWord => x % IntWord = x
    BY <1>2, Z3
  <2>. QED
    BY <1>6, <2>1, <2>2
<1> HIDE DEF S
<1> DEFINE yr == TakeYears[[year |-> 1970, days |-> D, wday |-> 4]]
           mo == TakeMonths[[mon |-> 0, days |-> w.yday, year |-> w.year]]
<1>10. yr = [year |-> w.year, yday |-> w.yday, wday |-> w.wday]
  <2>1. yr = YearsTaken(1970, D, 4)
    BY <1>3, TakeYearsIs
  <2>2. D = DaysBefore(w.year) + w.yday
    BY DEF D, DayOf
  <2>3. DaysBefore(w.year) \in Nat /\ DaysBefore(1970) = 0
    BY DaysAreNat DEF IsDate
  <2>4. D - DaysTo(1970, w.year) = w.yday
    BY <1>1, <2>2, <2>3 DEF DaysTo
  <2>5. 4 + DaysBefore(w.year) + w.yday = 4 + D
    BY <1>1, <2>2, <2>3
  <2>. QED
    BY <1>1, <1>3, <2>1, <2>4, <2>5 DEF YearsTaken
<1>11. mo = [mon |-> w.mon, mday |-> w.mday]
  <2>1. mo = MonthsTaken(0, w.yday, w.year)
    BY <1>1, TakeMonthsIs
  <2>2. DaysBeforeMonth(0, w.year) = 0 /\ DaysBeforeMonth(w.mon, w.year) \in Nat
    BY <1>1, MonthGoesOn DEF DaysBeforeMonth
  <2>3. w.yday - MonthTo(0, w.mon, w.year) + 1 = w.mday
    BY <1>1, <2>2 DEF MonthTo
  <2>. QED
    BY <1>3, <2>1, <2>3 DEF MonthsTaken
<1>12. Timer_date(S) = [year |-> yr.year, mon |-> mo.mon, mday |-> mo.mday, yday |-> yr.yday,
                        wday |-> yr.wday, hour |-> w.hour, min |-> w.min, sec |-> w.sec]
  <2> DEFINE N     == (S \div PerMinute) % IntWord
             Ty(n) == TakeYears[[year |-> 1970, days |-> (n \div PerHour) \div PerDay, wday |-> 4]]
             Tm(n) == TakeMonths[[mon |-> 0, days |-> Ty(n).yday, year |-> Ty(n).year]]
  <2>1. Timer_date(S) = [year |-> Ty(N).year, mon |-> Tm(N).mon, mday |-> Tm(N).mday,
                         yday |-> Ty(N).yday, wday |-> Ty(N).wday,
                         hour |-> (N \div PerHour) % PerDay, min |-> N % PerHour,
                         sec |-> (S - N * PerMinute) % IntWord]
    BY Zenon DEF Timer_date
  <2>2. N = M
    BY <1>7, <1>9
  <2>3. Ty(M) = yr
    BY <1>5, <1>6
  <2>4. yr.yday = w.yday /\ yr.year = w.year
    BY <1>10
  <2>5. Tm(M) = mo
    BY <2>3, <2>4
  <2> HIDE DEF N, Ty, Tm, yr, mo
  <2>6. /\ (M \div PerHour) % PerDay = w.hour /\ M % PerHour = w.min
        /\ (S - M * PerMinute) % IntWord = w.sec
    BY <1>5, <1>6, <1>8, <1>9
  <2>. QED
    BY <2>1, <2>2, <2>3, <2>5, <2>6
<1>. QED
  BY <1>1, <1>4, <1>10, <1>11, <1>12

(* The month has the days of the table.                                    *)
LEMMA EndOfMonth ==
  ASSUME NEW w, IsDate(w)
  PROVE  MonthEnd(w) = dim(w.mon, w.year)
<1> DEFINE y == w.year
           m == w.mon
           leap == IF leap_year(y) THEN 1 ELSE 0
<1>1. y \in Nat /\ m \in {0, 1, 2, 3, 4, 5, 6, 7, 8, 9, 10, 11}
  <2>1. y \in Nat /\ m \in 0..11
    BY DEF IsDate
  <2>. QED
    BY <2>1
<1>2. LeapDaysBefore(y + 1) - LeapDaysBefore(y) = leap
  BY <1>1, LeapDays
<1>3. LeapDaysBefore(y + 1) \in Int /\ LeapDaysBefore(y) \in Int
  BY <1>1 DEF LeapDaysBefore
<1>4. MonthEnd(w) = IF m = 1 THEN 28 + LeapDaysBefore(y + 1) - LeapDaysBefore(y)
                    ELSE IF m \in {3, 5, 8, 10} THEN 30 ELSE 31
  BY DEF MonthEnd
<1>5. dim(m, y) = days_in_month[m + 1] + (IF m = 1 THEN leap ELSE 0)
  BY DEF dim
<1>6. /\ days_in_month[1] = 31 /\ days_in_month[2] = 28 /\ days_in_month[3] = 31
      /\ days_in_month[4] = 30 /\ days_in_month[5] = 31 /\ days_in_month[6] = 30
      /\ days_in_month[7] = 31 /\ days_in_month[8] = 31 /\ days_in_month[9] = 30
      /\ days_in_month[10] = 31 /\ days_in_month[11] = 30 /\ days_in_month[12] = 31
  BY DEF days_in_month
<1>7. leap \in {0, 1}
  OBVIOUS
<1> HIDE DEF y, m, leap
<1>8. MonthEnd(w) = dim(m, y)
  <2>1. CASE m = 1
    BY <1>2, <1>3, <1>4, <1>5, <1>6, <1>7, <2>1
  <2>2. CASE m # 1
    BY <1>1, <1>4, <1>5, <1>6, <2>2
  <2>. QED
    BY <2>1, <2>2
<1>. QED
  BY <1>8 DEF y, m

LEMMA NextWeekday ==
  ASSUME NEW n \in Nat
  PROVE  ((n % 7) + 1) % 7 = (n + 1) % 7 /\ n % 7 \in Nat
BY Z3

(* The next day is a date, and the day after this one.                     *)
LEMMA NextDayIs ==
  ASSUME NEW w, IsDate(w)
  PROVE  /\ IsDate(NextDay(w)) /\ DayOf(NextDay(w)) = DayOf(w) + 1
         /\ NextDay(w).hour = 0 /\ NextDay(w).min = 0 /\ NextDay(w).sec = 0
<1> DEFINE wday == (w.wday + 1) % 7
<1>1. /\ w.year \in Nat /\ w.year >= 1970 /\ w.mon \in 0..11 /\ w.mday \in 1..31 /\ w.yday \in Nat
      /\ w.mday <= dim(w.mon, w.year)
      /\ w.yday = DaysBeforeMonth(w.mon, w.year) + w.mday - 1
      /\ w.wday = (4 + DaysBefore(w.year) + w.yday) % 7
      /\ w = [year |-> w.year, mon |-> w.mon, mday |-> w.mday, yday |-> w.yday, wday |-> w.wday,
              hour |-> w.hour, min |-> w.min, sec |-> w.sec]
      /\ 0 \in 0..(PerDay - 1) /\ 0 \in 0..(PerHour - 1) /\ 0 \in 0..(PerMinute - 1)
  <2>1. 0 \in 0..(PerDay - 1) /\ 0 \in 0..(PerHour - 1) /\ 0 \in 0..(PerMinute - 1)
    BY CalendarAssumption
  <2>. QED
    BY <2>1 DEF IsDate
<1>2. /\ DaysBeforeMonth(w.mon, w.year) \in Nat /\ dim(w.mon, w.year) \in 28..31
      /\ DaysBeforeMonth(w.mon + 1, w.year) = DaysBeforeMonth(w.mon, w.year) + dim(w.mon, w.year)
  BY <1>1, MonthGoesOn
<1>3. /\ DaysBefore(w.year) \in Nat /\ w.yday + 1 \in Nat
      /\ DaysBefore(w.year + 1) = DaysBefore(w.year) + YearLength(w.year)
  BY <1>1, DaysAreNat, YearGoesOn
<1>4. wday = (4 + DaysBefore(w.year) + (w.yday + 1)) % 7 /\ wday \in Nat
  <2>1. 4 + DaysBefore(w.year) + w.yday \in Nat
    BY <1>1, <1>3
  <2>2. (4 + DaysBefore(w.year) + w.yday) + 1 = 4 + DaysBefore(w.year) + (w.yday + 1)
    BY <1>1, <1>3
  <2>. QED
    BY <1>1, <2>1, <2>2, NextWeekday
<1> DEFINE day == [year |-> w.year, mon |-> w.mon, mday |-> w.mday, yday |-> w.yday,
                   wday |-> wday, hour |-> 0, min |-> 0, sec |-> 0]
<1>8. day = [year |-> w.year, mon |-> w.mon, mday |-> w.mday, yday |-> w.yday,
             wday |-> (w.wday + 1) % 7, hour |-> 0, min |-> 0, sec |-> 0]
  OBVIOUS
<1> HIDE DEF wday, day
<1>9. NextDay(w) = IF w.mday < MonthEnd(w) THEN [day EXCEPT !.mday = @ + 1, !.yday = @ + 1]
                   ELSE IF w.mon < 11 THEN [day EXCEPT !.mday = 1, !.yday = @ + 1, !.mon = @ + 1]
                   ELSE [day EXCEPT !.mday = 1, !.yday = 0, !.mon = 0, !.year = @ + 1]
  BY <1>8, Zenon DEF NextDay
<1>5. CASE w.mday < MonthEnd(w)
  <2> DEFINE v == [year |-> w.year, mon |-> w.mon, mday |-> w.mday + 1, yday |-> w.yday + 1,
                   wday |-> wday, hour |-> 0, min |-> 0, sec |-> 0]
  <2>1. NextDay(w) = v
    BY <1>5, <1>9 DEF day
  <2>2. w.mday + 1 <= dim(w.mon, w.year) /\ w.mday + 1 \in 1..31
    BY <1>1, <1>2, <1>5, EndOfMonth
  <2>3. IsDate(v)
    BY <1>1, <1>2, <1>3, <1>4, <2>2 DEF IsDate
  <2>4. DayOf(v) = DayOf(w) + 1
    BY <1>1, <1>3 DEF DayOf
  <2>. QED
    BY <2>1, <2>3, <2>4
<1>6. CASE ~(w.mday < MonthEnd(w)) /\ w.mon < 11
  <2> DEFINE v == [year |-> w.year, mon |-> w.mon + 1, mday |-> 1, yday |-> w.yday + 1,
                   wday |-> wday, hour |-> 0, min |-> 0, sec |-> 0]
  <2>1. NextDay(w) = v
    BY <1>6, <1>9 DEF day
  <2>2. w.mday = dim(w.mon, w.year) /\ w.mon + 1 \in 0..11
    BY <1>1, <1>2, <1>6, EndOfMonth
  <2>3. 1 <= dim(w.mon + 1, w.year)
    BY <2>2, MonthGoesOn
  <2>4. w.yday + 1 = DaysBeforeMonth(w.mon + 1, w.year) + 1 - 1
    BY <1>1, <1>2, <2>2
  <2>5. IsDate(v)
    BY <1>1, <1>3, <1>4, <2>2, <2>3, <2>4 DEF IsDate
  <2>6. DayOf(v) = DayOf(w) + 1
    BY <1>1, <1>3 DEF DayOf
  <2>. QED
    BY <2>1, <2>5, <2>6
<1>7. CASE ~(w.mday < MonthEnd(w)) /\ ~(w.mon < 11)
  <2> DEFINE v == [year |-> w.year + 1, mon |-> 0, mday |-> 1, yday |-> 0,
                   wday |-> wday, hour |-> 0, min |-> 0, sec |-> 0]
  <2>1. NextDay(w) = v
    BY <1>7, <1>9 DEF day
  <2>2. w.mday = dim(w.mon, w.year) /\ w.mon = 11
    BY <1>1, <1>2, <1>7, EndOfMonth
  <2>3. w.yday + 1 = YearLength(w.year)
    BY <2>2, DayOfYear
  <2>4. DaysBefore(w.year + 1) = DaysBefore(w.year) + (w.yday + 1)
    BY <1>3, <2>3
  <2>5. 4 + DaysBefore(w.year + 1) + 0 = 4 + DaysBefore(w.year) + (w.yday + 1)
    BY <1>1, <1>3, <2>4
  <2>6. 0 \in 0..11 /\ 1 <= dim(0, w.year + 1) /\ DaysBeforeMonth(0, w.year + 1) = 0
    <3>1. 0 \in 0..11
      OBVIOUS
    <3>. QED
      BY <3>1, MonthGoesOn DEF DaysBeforeMonth
  <2>7. IsDate(v)
    BY <1>1, <1>4, <2>5, <2>6 DEF IsDate
  <2>8. DayOf(v) = DayOf(w) + 1
    BY <1>1, <1>3, <2>4 DEF DayOf
  <2>. QED
    BY <2>1, <2>7, <2>8
<1>. QED
  BY <1>5, <1>6, <1>7

(* The next second is a date, and a second later.                          *)
LEMMA NextSecondIs ==
  ASSUME NEW w, IsDate(w)
  PROVE  IsDate(NextSecond(w)) /\ SecondOf(NextSecond(w)) = SecondOf(w) + 1 /\ SecondOf(w) \in Nat
<1> DEFINE D == DayOf(w)
           H == D * PerDay + w.hour
           M == H * PerHour + w.min
<1>1. /\ w.hour \in 0..(PerDay - 1) /\ w.min \in 0..(PerHour - 1) /\ w.sec \in 0..(PerMinute - 1)
      /\ w = [year |-> w.year, mon |-> w.mon, mday |-> w.mday, yday |-> w.yday, wday |-> w.wday,
              hour |-> w.hour, min |-> w.min, sec |-> w.sec]
  BY DEF IsDate
<1>2. PerDay \in Nat \ {0} /\ PerHour \in Nat \ {0} /\ PerMinute \in Nat \ {0}
  BY CalendarAssumption
<1>3. SecondOf(w) = M * PerMinute + w.sec
  BY DEF SecondOf, MinuteOf
<1>4. D \in Nat
  BY DayOfYear
<1> HIDE DEF D
<1>5. H \in Nat /\ (D + 1) * PerDay = D * PerDay + PerDay /\ D * PerDay \in Nat /\ (D + 1) * PerDay \in Nat
  BY <1>1, <1>2, <1>4, Parts
<1>6. w.hour = PerDay - 1 => H + 1 = (D + 1) * PerDay
  BY <1>1, <1>2, <1>5
<1> HIDE DEF H
<1>7. M \in Nat /\ (H + 1) * PerHour = H * PerHour + PerHour /\ H * PerHour \in Nat /\ (H + 1) * PerHour \in Nat
  BY <1>1, <1>2, <1>5, Parts
<1>8. w.min = PerHour - 1 => M + 1 = (H + 1) * PerHour
  BY <1>1, <1>2, <1>7
<1> HIDE DEF M
<1>9. /\ SecondOf(w) \in Nat
      /\ (M + 1) * PerMinute = M * PerMinute + PerMinute /\ M * PerMinute \in Nat
      /\ (M + 1) * PerMinute \in Nat
  BY <1>1, <1>2, <1>3, <1>7, Parts
<1>10. w.sec = PerMinute - 1 => SecondOf(w) + 1 = (M + 1) * PerMinute
  BY <1>1, <1>2, <1>3, <1>9
<1>11. CASE w.sec < PerMinute - 1
  <2> DEFINE v == [year |-> w.year, mon |-> w.mon, mday |-> w.mday, yday |-> w.yday, wday |-> w.wday,
                   hour |-> w.hour, min |-> w.min, sec |-> w.sec + 1]
  <2>1. NextSecond(w) = v
    BY <1>1, <1>11 DEF NextSecond
  <2>2. IsDate(v)
    BY <1>1, <1>2, <1>11 DEF IsDate
  <2>3. SecondOf(v) = M * PerMinute + (w.sec + 1)
    BY DEF SecondOf, MinuteOf, DayOf, M, H, D
  <2>. QED
    BY <1>1, <1>3, <1>9, <2>1, <2>2, <2>3
<1>12. CASE ~(w.sec < PerMinute - 1) /\ w.min < PerHour - 1
  <2> DEFINE v == [year |-> w.year, mon |-> w.mon, mday |-> w.mday, yday |-> w.yday, wday |-> w.wday,
                   hour |-> w.hour, min |-> w.min + 1, sec |-> 0]
  <2>1. NextSecond(w) = v
    BY <1>1, <1>12 DEF NextSecond
  <2>2. IsDate(v)
    BY <1>1, <1>2, <1>12 DEF IsDate
  <2>3. SecondOf(v) = (H * PerHour + (w.min + 1)) * PerMinute + 0
    BY DEF SecondOf, MinuteOf, DayOf, H, D
  <2>4. H * PerHour + (w.min + 1) = M + 1
    BY <1>1, <1>7 DEF M
  <2>. QED
    BY <1>1, <1>2, <1>9, <1>10, <1>12, <2>1, <2>2, <2>3, <2>4
<1>13. CASE ~(w.sec < PerMinute - 1) /\ ~(w.min < PerHour - 1) /\ w.hour < PerDay - 1
  <2> DEFINE v == [year |-> w.year, mon |-> w.mon, mday |-> w.mday, yday |-> w.yday, wday |-> w.wday,
                   hour |-> w.hour + 1, min |-> 0, sec |-> 0]
  <2>1. NextSecond(w) = v
    BY <1>1, <1>13 DEF NextSecond
  <2>2. IsDate(v)
    BY <1>1, <1>2, <1>13 DEF IsDate
  <2>3. SecondOf(v) = ((D * PerDay + (w.hour + 1)) * PerHour + 0) * PerMinute + 0
    BY DEF SecondOf, MinuteOf, DayOf, D
  <2>4. D * PerDay + (w.hour + 1) = H + 1
    BY <1>1, <1>5 DEF H
  <2>5. (H + 1) * PerHour + 0 = M + 1
    BY <1>1, <1>2, <1>7, <1>8, <1>13
  <2>. QED
    BY <1>1, <1>2, <1>9, <1>10, <1>13, <2>1, <2>2, <2>3, <2>4, <2>5
<1>14. CASE ~(w.sec < PerMinute - 1) /\ ~(w.min < PerHour - 1) /\ ~(w.hour < PerDay - 1)
  <2> DEFINE v == NextDay(w)
  <2>1. NextSecond(w) = v
    BY <1>14 DEF NextSecond
  <2>2. IsDate(v) /\ DayOf(v) = D + 1 /\ v.hour = 0 /\ v.min = 0 /\ v.sec = 0
    BY NextDayIs DEF D
  <2> HIDE DEF v
  <2>3. SecondOf(v) = (((D + 1) * PerDay + 0) * PerHour + 0) * PerMinute + 0
    BY <2>2 DEF SecondOf, MinuteOf
  <2>4. (D + 1) * PerDay + 0 = H + 1
    BY <1>1, <1>2, <1>5, <1>6, <1>14
  <2>5. (H + 1) * PerHour + 0 = M + 1
    BY <1>1, <1>2, <1>7, <1>8, <1>14
  <2>. QED
    BY <1>1, <1>2, <1>9, <1>10, <1>14, <2>1, <2>2, <2>3, <2>4, <2>5
<1>. QED
  BY <1>11, <1>12, <1>13, <1>14

LEMMA NewYearIs ==
  ASSUME NEW y \in Nat, y >= 1970
  PROVE  IsDate(NewYear(y)) /\ SecondOf(NewYear(y)) = SecondsOf(DaysBefore(y))
<1>1. /\ 0 \in 0..(PerDay - 1) /\ 0 \in 0..(PerHour - 1) /\ 0 \in 0..(PerMinute - 1)
      /\ PerDay \in Nat /\ PerHour \in Nat /\ PerMinute \in Nat
  BY CalendarAssumption
<1>2. DaysBefore(y) \in Nat
  BY DaysAreNat
<1>3. 0 \in 0..11 /\ 1 <= dim(0, y) /\ DaysBeforeMonth(0, y) = 0
  <2>1. 0 \in 0..11
    OBVIOUS
  <2>. QED
    BY <2>1, MonthGoesOn DEF DaysBeforeMonth
<1>4. (4 + DaysBefore(y)) % 7 \in Nat /\ 4 + DaysBefore(y) + 0 = 4 + DaysBefore(y)
  BY <1>2, NextWeekday
<1>5. IsDate(NewYear(y))
  BY <1>1, <1>3, <1>4 DEF IsDate, NewYear
<1>6. SecondOf(NewYear(y)) = (((DaysBefore(y) + 0) * PerDay + 0) * PerHour + 0) * PerMinute + 0
  BY DEF SecondOf, MinuteOf, DayOf, NewYear
<1>7. ASSUME NEW a \in Nat, NEW b \in Nat, NEW c \in Nat, NEW d \in Nat
      PROVE  (((d + 0) * b + 0) * c + 0) * a + 0 = d * a * c * b
  BY Z3
<1>. QED
  BY <1>1, <1>2, <1>5, <1>6, <1>7 DEF SecondsOf

LEMMA CalendarInitInv == CalendarInit => CalendarInv
<1> SUFFICES ASSUME CalendarInit PROVE CalendarInv
  OBVIOUS
<1>1. DaysBefore(1970) = 0
  BY DaysAreNat
<1>2. SecondsOf(0) = 0
  BY CalendarAssumption DEF SecondsOf
<1>3. IsDate(NewYear(1970)) /\ SecondOf(NewYear(1970)) = 0
  BY <1>1, <1>2, NewYearIs
<1>. QED
  BY <1>3 DEF CalendarInit, CalendarInv

LEMMA CalendarNextInv == CalendarInv /\ [CalendarNext]_calendarVars => CalendarInv'
<1> SUFFICES ASSUME CalendarInv, [CalendarNext]_calendarVars PROVE CalendarInv'
  OBVIOUS
<1>1. CASE MountLater
  <2>1. IsDate(NextSecond(wall)) /\ SecondOf(NextSecond(wall)) = SecondOf(wall) + 1
    BY NextSecondIs DEF CalendarInv
  <2>2. /\ wall' = NextSecond(wall) /\ timestamp' = timestamp + 1 /\ timestamp = SecondOf(wall)
        /\ calendar' = Timer_date(timestamp')
    BY <1>1, Zenon DEF MountLater, Mounted, CalendarInv
  <2>3. IsDate(wall') /\ timestamp' = SecondOf(wall')
    BY <2>1, <2>2
  <2>. QED
    BY <2>2, <2>3 DEF CalendarInv
<1>2. CASE MountAgain
  <2>1. PICK y \in Years : /\ wall' = NewYear(y) /\ timestamp' = SecondsOf(DaysBefore(y))
                           /\ calendar' = Timer_date(SecondsOf(DaysBefore(y)))
    BY <1>2, Zenon DEF MountAgain, Mounted
  <2>2. y \in Nat /\ y >= 1970
    BY CalendarAssumption
  <2>3. IsDate(wall') /\ timestamp' = SecondOf(wall')
    BY <2>1, <2>2, NewYearIs
  <2>. QED
    BY <2>1, <2>3 DEF CalendarInv
<1>3. CASE UNCHANGED calendarVars
  BY <1>3 DEF calendarVars, CalendarInv
<1>. QED
  BY <1>1, <1>2, <1>3 DEF CalendarNext

LEMMA CalendarInvariance == CalendarSpec => []CalendarInv
  BY CalendarInitInv, CalendarNextInv, PTL DEF CalendarSpec

(* The calendar a Timer computes is the one on the wall, for every year    *)
(* and second, and any length of the day, until the minutes since 1970     *)
(* overflow an unsigned int.                                               *)
THEOREM DateRight == CalendarSpec => []DateIsRight
<1>1. CalendarInv => DateIsRight
  <2> SUFFICES ASSUME CalendarInv, timestamp \div PerMinute < IntWord PROVE calendar = wall
    BY DEF DateIsRight
  <2>. QED
    BY DateOfSeconds DEF CalendarInv
<1>. QED
  BY <1>1, CalendarInvariance, PTL
=============================================================================
