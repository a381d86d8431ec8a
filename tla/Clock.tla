-------------------------------- MODULE Clock --------------------------------
(***************************************************************************)
(* What the timestamps of struct Timer promise to the components that read *)
(* them in their turns (props->timer->ms, props->timer->us): a word that   *)
(* moves on by a few units between two turns of the loop, wraps, and never *)
(* goes back.                                                              *)
(***************************************************************************)
EXTENDS Integers

CONSTANTS Word,    \* the number of values of a timestamp
          MaxPass  \* the most units between two turns

ASSUME ClockAssumption == Word \in Nat \ {0} /\ MaxPass \in Nat \ {0}

VARIABLE now

ClockInit == now = 0

Pass(n) == now' = (now + n) % Word

ClockNext == \E n \in 0..MaxPass : Pass(n)

ClockSpec == ClockInit /\ [][ClockNext]_now

(* A difference kept in an int, whose correction for an overflow is one    *)
(* unit short (65535 for 65536).                                           *)
AsInt(x) == IF x % Word < Word \div 2 THEN x % Word ELSE (x % Word) - Word

Elapsed(t) == IF AsInt(now - t) < 0 THEN AsInt(Word - 1 - t + now)
              ELSE AsInt(now - t)
=============================================================================
