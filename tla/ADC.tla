--------------------------------- MODULE ADC ---------------------------------
(***************************************************************************)
(* component/ADC, with the converter of the AVR and the application that   *)
(* reads two sensors through it in turn (app/servo_sw.c): the callback of  *)
(* a new value moves the channel to the other sensor.                      *)
(***************************************************************************)
EXTENDS Naturals

CONSTANT MaxValue  \* the largest value of a conversion

ASSUME MaxValueAssumption == MaxValue \in Nat

VARIABLES adc,     \* the component: stage, value, loading
          mux,     \* the converter: selected channel, conversion under way, result
          app,     \* the application: its sensor, and the last value of each
          analog   \* the values at the two pins

adcVars == <<adc, mux, app, analog>>

Sensor == {0, 1}
Value  == 0..MaxValue

ADCInit == /\ adc = [stage |-> "DEFINED", value |-> 0, loading |-> FALSE]
           /\ mux = [channel |-> 0, busy |-> FALSE, result |-> 0]
           /\ app = [sensor |-> 0, last |-> [s \in Sensor |-> 0]]
           /\ analog = [s \in Sensor |-> 0]

AnalogMoves(s, v) == /\ analog' = [analog EXCEPT ![s] = v]
                     /\ UNCHANGED <<adc, mux, app>>

Convert == /\ mux.busy
           /\ mux' = [mux EXCEPT !.busy = FALSE, !.result = analog[mux.channel]]
           /\ UNCHANGED <<adc, app, analog>>
-----------------------------------------------------------------------------
(* willMount and release, which reads a converter that is not converting.  *)
ADC_mount == /\ adc.stage = "DEFINED"
             /\ adc' = [adc EXCEPT !.stage = "RELEASED"]
             /\ UNCHANGED <<mux, app, analog>>

ADC_willUpdate ==
  /\ adc.stage = "RELEASED"
  /\ adc' = [adc EXCEPT !.stage = "PREPARED", !.loading = TRUE]
  /\ mux' = IF adc.loading THEN mux
            ELSE [mux EXCEPT !.channel = app.sensor, !.busy = TRUE]
  /\ UNCHANGED <<app, analog>>

(* The onChange of the application: the value is the one of its sensor.    *)
sensor_readed(value) == app' = [sensor |-> 1 - app.sensor,
                                last |-> [app.last EXCEPT ![app.sensor] = value]]

ADC_wait == /\ adc.stage = "PREPARED" /\ mux.busy
            /\ adc' = [adc EXCEPT !.stage = "RELEASED"]
            /\ UNCHANGED <<mux, app, analog>>

(* Fault: the conversion that was read is taken for one still under way.   *)
ADC_release_loading ==
  /\ adc.stage = "PREPARED" /\ ~mux.busy
  /\ adc' = [adc EXCEPT !.stage = "RELEASED", !.value = mux.result]
  /\ IF mux.result # adc.value THEN sensor_readed(mux.result) ELSE UNCHANGED app
  /\ UNCHANGED <<mux, analog>>

ADC_release ==
  /\ adc.stage = "PREPARED" /\ ~mux.busy
  /\ adc' = [stage |-> "RELEASED", loading |-> FALSE, value |-> mux.result]
  /\ IF mux.result # adc.value THEN sensor_readed(mux.result) ELSE UNCHANGED app
  /\ UNCHANGED <<mux, analog>>

ADCTurn == ADC_mount \/ ADC_willUpdate \/ ADC_wait \/ ADC_release

ADCNext == (\E s \in Sensor, v \in Value : AnalogMoves(s, v)) \/ Convert \/ ADCTurn

(* The loop goes on, and a conversion ends.                                *)
ADCFairness == WF_adcVars(ADCTurn) /\ WF_adcVars(Convert)

ADCSpec == ADCInit /\ [][ADCNext]_adcVars /\ ADCFairness
-----------------------------------------------------------------------------
ADCTypeOK ==
  /\ adc \in [stage : {"DEFINED", "PREPARED", "RELEASED"}, value : Value, loading : BOOLEAN]
  /\ mux \in [channel : Sensor, busy : BOOLEAN, result : Value]
  /\ app \in [sensor : Sensor, last : [Sensor -> Value]]
  /\ analog \in [Sensor -> Value]

(* When the sensors come to rest the application knows both of them, each  *)
(* by its own value, unless the one it reads next has the very value read  *)
(* before it: then onChange is not called and the channel stays.           *)
Stalled == adc.value = analog[app.sensor]

SensorsAreRead ==
  \A a \in [Sensor -> Value] :
    <>[](analog = a) => <>[](Stalled \/ app.last = a)
=============================================================================
