------------------------------- MODULE Encoder -------------------------------
(***************************************************************************)
(* component/Encoder: the direction of a shaft from the order in which two *)
(* pins change, by the milliseconds of Timer.  The shaft turns one way, an *)
(* edge at a time, and waits with an edge until the last one was handled.  *)
(***************************************************************************)
EXTENDS Clock

VARIABLES encoder,  \* the component: stage, levels, ticks, what is known of rpm
          shaft,    \* which quarter of a cycle it is at, and which way it turns
          cycle     \* history of the cycle: the edges told, the right turns less the
                    \* left ones, and whether each edge had a time of its own

encoderVars == <<encoder, shaft, cycle, now>>

EncoderInit ==
  /\ encoder = [stage |-> "DEFINED", level_a |-> FALSE, level_b |-> FALSE,
                tick_a |-> 0, tick_b |-> 0, rpm |-> "zero"]
  /\ shaft = [quarter |-> 0, ahead |-> TRUE]
  /\ cycle = [edges |-> 0, net |-> 0, clear |-> TRUE]

pin_a == shaft.quarter \in {1, 2}
pin_b == shaft.quarter \in {2, 3}

(* Pin a changes first in a turn ahead.  At a full cycle the count begins  *)
(* again; an edge has a time of its own when it comes in a millisecond     *)
(* other than the last edge's, and other than 0.                           *)
ShaftTurns == LET next == (shaft.quarter + IF shaft.ahead THEN 1 ELSE 3) % 4
              IN  /\ encoder.stage = "RELEASED"
                  /\ encoder.level_a = pin_a /\ encoder.level_b = pin_b
                  /\ shaft' = [shaft EXCEPT !.quarter = next]
                  /\ cycle' = IF cycle.edges = 4 THEN [edges |-> 0, net |-> 0, clear |-> TRUE]
                              ELSE cycle
                  /\ UNCHANGED <<encoder, now>>
-----------------------------------------------------------------------------
(* willMount and release, which tells a turn that did not happen.          *)
Encoder_mount(n) == \E ahead \in BOOLEAN :
  /\ encoder.stage = "DEFINED"
  /\ encoder' = [encoder EXCEPT !.stage = "RELEASED"]
  /\ shaft' = [shaft EXCEPT !.ahead = ahead]
  /\ Pass(n) /\ UNCHANGED cycle

Encoder_skip(n) == /\ encoder.stage = "RELEASED"
                   /\ encoder.level_a = pin_a /\ encoder.level_b = pin_b
                   /\ Pass(n) /\ UNCHANGED <<encoder, shaft, cycle>>

(* Fault: the older tick is kept when the milliseconds have wrapped.       *)
Older_kept(tick) == tick

(* The tick of the other pin, or 0 once the milliseconds have wrapped.     *)
Older(tick) == IF tick > now THEN 0 ELSE tick

OwnTime == now # 0 /\ now # encoder.tick_a /\ now # encoder.tick_b

Encoder_willUpdate(n) ==
  /\ encoder.stage = "RELEASED"
  /\ \/ /\ encoder.level_a # pin_a
        /\ encoder' = [encoder EXCEPT !.stage = "PREPARED", !.level_a = pin_a,
                                      !.tick_a = now, !.tick_b = Older(@)]
     \/ /\ encoder.level_a = pin_a /\ encoder.level_b # pin_b
        /\ encoder' = [encoder EXCEPT !.stage = "PREPARED", !.level_b = pin_b,
                                      !.tick_b = now, !.tick_a = Older(@)]
  /\ cycle' = [cycle EXCEPT !.clear = @ /\ OwnTime]
  /\ Pass(n) /\ UNCHANGED shaft

IsRightTurn == IF encoder.level_a /\ ~encoder.level_b
               THEN encoder.tick_a > encoder.tick_b
               ELSE encoder.tick_a < encoder.tick_b

(* The sign of the speed; the division is by the time between the edges.   *)
Rpm == CASE encoder.tick_a = 0 \/ encoder.tick_b = 0 ->
              (IF IsRightTurn \/ encoder.rpm \in {"zero", "undefined"} THEN encoder.rpm
               ELSE IF encoder.rpm = "left" THEN "right" ELSE "left")
         [] encoder.tick_a # 0 /\ encoder.tick_a = encoder.tick_b -> "undefined"
         [] OTHER -> IF IsRightTurn THEN "right" ELSE "left"

Encoder_release(n) ==
  /\ encoder.stage = "PREPARED"
  /\ encoder' = [encoder EXCEPT !.stage = "RELEASED", !.rpm = Rpm]
  /\ cycle' = [cycle EXCEPT !.edges = @ + 1, !.net = @ + IF IsRightTurn THEN 1 ELSE -1]
  /\ Pass(n) /\ UNCHANGED shaft

EncoderTurn(n) == \/ Encoder_mount(n) \/ Encoder_skip(n)
                  \/ Encoder_willUpdate(n) \/ Encoder_release(n)

EncoderNext == ShaftTurns \/ \E n \in 0..MaxPass : EncoderTurn(n)

EncoderSpec == ClockInit /\ EncoderInit /\ [][EncoderNext]_encoderVars
-----------------------------------------------------------------------------
EncoderTypeOK ==
  /\ encoder \in [stage : {"DEFINED", "PREPARED", "RELEASED"},
                  level_a : BOOLEAN, level_b : BOOLEAN,
                  tick_a : 0..(Word - 1), tick_b : 0..(Word - 1),
                  rpm : {"zero", "right", "left", "undefined"}]
  /\ shaft \in [quarter : 0..3, ahead : BOOLEAN]
  /\ cycle \in [edges : 0..4, net : -4..4, clear : BOOLEAN]

(* One of the four edges of a cycle is told for the wrong direction, so    *)
(* only a whole cycle tells which way the shaft went: two turns more to    *)
(* the right, or to the left, if each edge has a millisecond of its own.   *)
(* Only without one is the speed divided by zero.                          *)
CyclesAreTold ==
  cycle.clear =>
    /\ encoder.stage = "PREPARED" => encoder.tick_a # encoder.tick_b
    /\ cycle.edges = 4 => cycle.net = IF shaft.ahead THEN 2 ELSE -2
=============================================================================
