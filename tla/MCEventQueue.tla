---------------------------- MODULE MCEventQueue ----------------------------
(* Instances of EventQueue for TLC.  In the order runs a client is the     *)
(* timeout it asks for, so that the events are all due at different times; *)
(* in the clock run every client asks for every timeout.                   *)
EXTENDS EventQueue

SelfTimeouts == [c \in Client |-> {c}]
ShortTimeouts == [c \in Client |-> 0..3]
=============================================================================
