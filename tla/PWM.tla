--------------------------------- MODULE PWM ---------------------------------
(***************************************************************************)
(* component/PWM: a pin switched on and off in the turns of the event      *)
(* loop, for times measured on the microseconds of Timer.                  *)
(***************************************************************************)
EXTENDS Clock

CONSTANTS Full,    \* the steps of a duty cycle (255 in the code)
          Quantum  \* the microseconds of one: 1000000L / frequency / 255

ASSUME PWMAssumption == Full \in Nat /\ Quantum \in Nat

VARIABLES pwm,   \* the component: stage, duty_cycle of its props, state
          duty,  \* the duty_cycle the application's expression is now
          pulse  \* the pin, and history: how long it has had its level, how long
                 \* it was to, and whether the clock or the tick wrapped since; the
                 \* last two also of the level that is prepared

pwmVars == <<pwm, duty, pulse, now>>

PWMInit == /\ pwm = [stage |-> "DEFINED", duty |-> 0, tick |-> 0, on_duty |-> FALSE]
           /\ duty = 0
           /\ pulse = [level |-> FALSE, since |-> 0, asked |-> 0, wrapped |-> TRUE,
                       next |-> 0, nextWraps |-> FALSE]

AskDuty(d) == duty' = d /\ UNCHANGED <<pwm, pulse, now>>

(* As in Button, the clock moves on after the turn.                        *)
MaxPulse == Quantum * Full + 2 * MaxPass

Held(n, p) == /\ Pass(n)
              /\ pulse' = [p EXCEPT !.since = IF @ + n > MaxPulse THEN MaxPulse + 1 ELSE @ + n,
                                    !.wrapped = @ \/ now + n >= Word,
                                    !.nextWraps = @ \/ now + n >= Word]
-----------------------------------------------------------------------------
PWM_mount(n) == /\ pwm.stage = "DEFINED"
                /\ pwm' = [pwm EXCEPT !.stage = "RELEASED", !.duty = duty]
                /\ Held(n, pulse)
                /\ UNCHANGED duty

(* Fault: the times of the two levels exchanged.                           *)
PWM_tick_swapped(on, d) == now + Quantum * (IF on THEN d ELSE Full - d)

(* The end of the level that follows, for the duty cycle of the old props. *)
PWM_tick(on, d) == now + Quantum * (IF on THEN Full - d ELSE d)

(* shouldUpdate compares the words as they are, wrapped or not.            *)
PWM_skip(n) == /\ pwm.stage = "RELEASED" /\ now < pwm.tick
               /\ Held(n, pulse)
               /\ UNCHANGED <<pwm, duty>>

PWM_willUpdate(n) ==
  LET tick == PWM_tick(pwm.on_duty, pwm.duty)
  IN  /\ pwm.stage = "RELEASED" /\ now >= pwm.tick
      /\ pwm' = [stage |-> "PREPARED", duty |-> duty, tick |-> tick % Word,
                 on_duty |-> ~pwm.on_duty]
      /\ Held(n, [pulse EXCEPT !.nextWraps = tick >= Word,
                               !.next = Quantum * (IF pwm.on_duty THEN Full - pwm.duty
                                                   ELSE pwm.duty)])
      /\ UNCHANGED duty

PWM_release(n) ==
  /\ pwm.stage = "PREPARED"
  /\ pwm' = [pwm EXCEPT !.stage = "RELEASED"]
  /\ Held(n, [pulse EXCEPT !.level = pwm.on_duty, !.since = 0, !.asked = pulse.next,
                           !.wrapped = pulse.nextWraps])
  /\ UNCHANGED duty

PWMTurn(n) == PWM_mount(n) \/ PWM_skip(n) \/ PWM_willUpdate(n) \/ PWM_release(n)

PWMNext == \/ \E d \in 0..Full : AskDuty(d)
           \/ \E n \in 0..MaxPass : PWMTurn(n)

PWMSpec == ClockInit /\ PWMInit /\ [][PWMNext]_pwmVars
-----------------------------------------------------------------------------
PWMTypeOK ==
  /\ pwm \in [stage : {"DEFINED", "PREPARED", "RELEASED"}, duty : 0..Full,
              tick : 0..(Word - 1), on_duty : BOOLEAN]
  /\ duty \in 0..Full
  /\ pulse \in [level : BOOLEAN, since : 0..(MaxPulse + 1), asked : 0..(Quantum * Full),
                wrapped : BOOLEAN, next : 0..(Quantum * Full), nextWraps : BOOLEAN]

(* The pin holds each level for the time the duty cycle gives it, early by *)
(* at most one turn and late by at most two, unless the clock wraps under  *)
(* it (every 71 minutes), where the level is cut short or left for good.   *)
PulseAsAsked ==
  [][pulse'.level # pulse.level /\ ~pulse.wrapped =>
       pulse.asked - MaxPass <= pulse.since /\ pulse.since <= pulse.asked + 2 * MaxPass]_pwmVars
=============================================================================
