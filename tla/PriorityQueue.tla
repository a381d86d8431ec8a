---------------------------- MODULE PriorityQueue ----------------------------
(***************************************************************************)
(* What the event queue of component/Scheduler promises: Scheduler_enqueue *)
(* adds an event ("Add event to queue") unless the queue is full, and      *)
(* Scheduler_dequeue takes one that nothing in the queue precedes ("Get    *)
(* closest event").                                                        *)
(***************************************************************************)
EXTENDS Naturals, FiniteSets

CONSTANTS Client, Capacity, Null

VARIABLES due,      \* when the event of a waiting client is due
          waiting,  \* the clients whose event is in the queue
          taken     \* the client whose event was dequeued last, or Null

vars == <<due, waiting, taken>>

Init == /\ due = [c \in Client |-> 0]
        /\ waiting = {}
        /\ taken = Null

Enqueue(c) == /\ c \notin waiting
              /\ Cardinality(waiting) < Capacity
              /\ waiting' = waiting \cup {c}
              /\ due'[c] \in Nat /\ due' = [due EXCEPT ![c] = due'[c]]
              /\ UNCHANGED taken

Dequeue(c) == /\ c \in waiting
              /\ \A d \in waiting : due[c] <= due[d]
              /\ waiting' = waiting \ {c}
              /\ taken' = c
              /\ due' = [due EXCEPT ![c] = 0]

DequeueEmpty == /\ waiting = {}
                /\ taken' = Null
                /\ UNCHANGED <<due, waiting>>

Next == (\E c \in Client : Enqueue(c) \/ Dequeue(c)) \/ DequeueEmpty

Spec == Init /\ [][Next]_vars
=============================================================================
