------------------------------- MODULE Devices -------------------------------
(***************************************************************************)
(* Applications of the components that stand by themselves between the     *)
(* event loop and the hardware, and of the simulated pins: an application  *)
(* uses one of them, with the callbacks of src/app, and nothing of the     *)
(* others moves.                                                           *)
(***************************************************************************)
EXTENDS Timer, Button, PWM, Encoder, ADC, Bitbang, Menu, Servo,
        Calendar, PinTable

VARIABLE device  \* the component the application uses

devicesVars == <<device, timerVars, buttonVars, pwmVars, encoderVars, adcVars,
                 bitbangVars, menuVars, servoVars, calendarVars, pinVars>>

DevicesInit ==
  /\ device \in {"timer", "button", "pwm", "encoder", "adc", "bitbang", "menu", "servo",
                "calendar", "pins"}
  /\ ClockInit
  /\ TimerInit /\ ButtonInit /\ PWMInit /\ EncoderInit /\ ADCInit /\ BitbangInit
  /\ MenuInit /\ ServoInit /\ CalendarInit /\ PinInit

(* What an application leaves alone; three components read the clock.      *)
Quiet(used) ==
  /\ device = used /\ UNCHANGED device
  /\ used # "timer"   => UNCHANGED timerVars
  /\ used # "button"  => UNCHANGED <<button, contact, press>>
  /\ used # "pwm"     => UNCHANGED <<pwm, duty, pulse>>
  /\ used # "encoder" => UNCHANGED <<encoder, shaft, cycle>>
  /\ used \notin {"button", "pwm", "encoder"} => UNCHANGED now
  /\ used # "adc"     => UNCHANGED adcVars
  /\ used # "bitbang" => UNCHANGED bitbangVars
  /\ used # "menu"    => UNCHANGED menuVars
  /\ used # "servo"   => UNCHANGED servoVars
  /\ used # "calendar" => UNCHANGED calendarVars
  /\ used # "pins"    => UNCHANGED pinVars

DevicesNext == \/ Quiet("timer")   /\ TimerNext
               \/ Quiet("button")  /\ ButtonNext
               \/ Quiet("pwm")     /\ PWMNext
               \/ Quiet("encoder") /\ EncoderNext
               \/ Quiet("adc")     /\ ADCNext
               \/ Quiet("bitbang") /\ BitbangNext
               \/ Quiet("menu")    /\ MenuNext
               \/ Quiet("servo")   /\ ServoNext
               \/ Quiet("calendar") /\ CalendarNext
               \/ Quiet("pins")    /\ PinNext

(* The fairness of each component, in the application that uses it.        *)
DevicesFairness ==
  /\ WF_devicesVars(Quiet("button") /\ \E n \in 0..MaxPass : ButtonTurn(n))
  /\ WF_devicesVars(Quiet("button") /\ \E n \in 1..MaxPass : ButtonTurn(n))
  /\ WF_devicesVars(Quiet("adc") /\ ADCTurn)
  /\ WF_devicesVars(Quiet("adc") /\ Convert)
  /\ WF_devicesVars(Quiet("menu") /\ Loop)

DevicesSpec == DevicesInit /\ [][DevicesNext]_devicesVars /\ DevicesFairness

(* The types of the components.                                            *)
TypeOK == /\ TimerTypeOK /\ ButtonTypeOK /\ PWMTypeOK /\ EncoderTypeOK /\ ADCTypeOK
          /\ BitbangTypeOK /\ SerialTypeOK /\ MenuTypeOK /\ ServoTypeOK /\ PinTypeOK
=============================================================================
