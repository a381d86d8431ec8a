-------------------------------- MODULE Button --------------------------------
(***************************************************************************)
(* component/Button: a contact that bounces, read in the turns of the      *)
(* event loop and filtered on the milliseconds of Timer.                   *)
(***************************************************************************)
EXTENDS Clock

CONSTANT Bounce  \* props->bounce_delay_ms

ASSUME BounceAssumption == Bounce \in Nat

VARIABLES button,   \* the component: stage, type and state
          contact,  \* is the contact closed?
          press     \* history: the time since the last press was told, whether
                    \* the contact has opened since, and whether the component
                    \* can not see that it is closed

buttonVars == <<button, contact, press, now>>

ButtonInit == /\ button = [stage |-> "DEFINED", toggle |-> FALSE, inverse |-> FALSE,
                           level |-> FALSE, pressed |-> FALSE, tick |-> 0]
              /\ press = [since |-> Bounce + 1, opened |-> TRUE, unseen |-> FALSE]
              /\ contact = FALSE

(* With a pull-up a closed contact reads low.                              *)
LevelOf(closed) == closed # button.inverse

Active(level) == level # button.inverse

ContactMoves == /\ contact' = ~contact
                /\ press' = [press EXCEPT !.opened = @ \/ contact]
                /\ UNCHANGED <<button, now>>
-----------------------------------------------------------------------------
(* The next turn of Timer moves the milliseconds on after each turn.       *)
Later(n, p) == /\ Pass(n)
               /\ press' = [p EXCEPT !.since = IF @ + n > Bounce THEN Bounce + 1 ELSE @ + n]

(* willMount and release, the types being BTN_PUSH and BTN_TOGGLE with a   *)
(* pull-up or without.  A button held down at the start with a pull-up has *)
(* the level it would change to.                                           *)
Button_mount(n) == \E toggle, inverse \in BOOLEAN :
  /\ button.stage = "DEFINED"
  /\ button' = [button EXCEPT !.stage = "RELEASED", !.toggle = toggle, !.inverse = inverse]
  /\ Later(n, [press EXCEPT !.unseen = inverse])
  /\ UNCHANGED contact

Button_shouldUpdate(level) ==
  \/ button.tick # 0 /\ Elapsed(button.tick) >= Bounce
  \/ ~Active(button.level) /\ level # button.level
  \/ /\ ~button.toggle /\ button.pressed
     /\ ~level \/ button.inverse
     /\ ~(Active(button.level) /\ level = button.level)

Button_skip(n) ==
  /\ button.stage = "RELEASED" /\ ~Button_shouldUpdate(LevelOf(contact))
  /\ button' = [button EXCEPT !.level = LevelOf(contact)]
  /\ Later(n, [press EXCEPT !.unseen = @ /\ contact])
  /\ UNCHANGED contact

(* Fault: the delay is not started.                                        *)
Button_willUpdate_untimed(n) == \E closed \in BOOLEAN :
  /\ button.stage = "RELEASED" /\ Button_shouldUpdate(LevelOf(contact))
  /\ button' = [button EXCEPT !.stage = "PREPARED", !.level = LevelOf(closed)]
  /\ Later(n, [press EXCEPT !.opened = @ \/ ~closed, !.unseen = @ /\ closed])
  /\ contact' = closed

(* The contact may have moved when willUpdate reads it again.  A tick of 0 *)
(* stands for none, so a contact found closed when ms is 0 is not timed.   *)
Button_willUpdate(n) == \E closed \in BOOLEAN :
  LET start == button.tick = 0 /\ closed
  IN  /\ button.stage = "RELEASED" /\ Button_shouldUpdate(LevelOf(contact))
      /\ button' = [button EXCEPT !.stage = "PREPARED", !.level = LevelOf(closed),
                                  !.tick = IF start THEN now ELSE @]
      /\ Later(n, [press EXCEPT !.opened = @ \/ ~closed,
                                !.unseen = IF start THEN now = 0 ELSE @ /\ closed])
      /\ contact' = closed

(* Fault: the delay is not waited for.                                     *)
Filtered_started == button.tick # 0

(* Has the delay been started, and is it over?                             *)
Filtered == button.tick # 0 /\ Elapsed(button.tick) > Bounce

Button_release(n) ==
  LET pressed == IF Filtered /\ Active(button.level)
                 THEN button.toggle => ~button.pressed
                 ELSE button.toggle /\ button.pressed
      told    == IF button.toggle THEN pressed # button.pressed
                 ELSE pressed /\ ~button.pressed
  IN  /\ button.stage = "PREPARED"
      /\ button' = [button EXCEPT !.stage = "RELEASED", !.pressed = pressed,
                                  !.tick = IF Filtered THEN 0 ELSE @]
      /\ Later(n, IF told THEN [press EXCEPT !.since = 0, !.opened = ~contact] ELSE press)
      /\ UNCHANGED contact

ButtonTurn(n) == \/ Button_mount(n) \/ Button_skip(n)
                 \/ Button_willUpdate(n) \/ Button_release(n)

ButtonNext == ContactMoves \/ \E n \in 0..MaxPass : ButtonTurn(n)

(* The loop goes on, and so do the milliseconds.                           *)
ButtonFairness == /\ WF_buttonVars(\E n \in 0..MaxPass : ButtonTurn(n))
                  /\ WF_buttonVars(\E n \in 1..MaxPass : ButtonTurn(n))

ButtonSpec == ClockInit /\ ButtonInit /\ [][ButtonNext]_buttonVars /\ ButtonFairness
-----------------------------------------------------------------------------
ButtonTypeOK ==
  /\ button \in [stage : {"DEFINED", "PREPARED", "RELEASED"}, toggle : BOOLEAN,
                 inverse : BOOLEAN, level : BOOLEAN, pressed : BOOLEAN,
                 tick : 0..(Word - 1)]
  /\ press \in [since : 0..(Bounce + 1), opened : BOOLEAN, unseen : BOOLEAN]
  /\ contact \in BOOLEAN

(* A bounce is never a press: the press of a push button, and the change   *)
(* of a toggle, is told more than the delay after the one before it and    *)
(* only if the contact has opened in between.                              *)
Tells == IF button.toggle THEN button'.pressed # button.pressed
         ELSE button'.pressed /\ ~button.pressed

OnePressEach == [][Tells => press.opened /\ press.since > Bounce]_buttonVars

(* A push button that is held is pressed in the end, whatever the contact  *)
(* did before, unless it was down at the start behind a pull-up or was     *)
(* found closed just when the milliseconds were 0.                         *)
HoldIsPressed ==
  []<>(~contact \/ button.toggle \/ button.pressed \/ press.unseen)
=============================================================================
