----------------------------- MODULE EventQueue -----------------------------
(***************************************************************************)
(* The event queue of component/Scheduler by itself: Scheduler_enqueue and *)
(* Scheduler_dequeue called one after the other, while the timer runs.     *)
(* Each client has at most one event in the queue.                         *)
(***************************************************************************)
EXTENDS EventHeap, FiniteSets

CONSTANTS Timeouts,  \* the timeouts each client asks for, in microseconds
          Start,     \* the timer value when the system starts
          MaxTime    \* bound: the ticks the timer runs for

ASSUME TimeoutsAssumption == Timeouts \in [Client -> SUBSET Word]
ASSUME StartAssumption == Start \in Nat

VARIABLES t,             \* ticks since the start
          queue,         \* self->state.queue
          dequed_event,  \* what the last Scheduler_dequeue handed out
          due            \* history: when the event of a waiting client is due

vars == <<t, queue, dequed_event, due>>

(* Fault: a counter wider than the created field.                          *)
now_unwrapped == Start + t

(* timer->get() *)
now == (Start + t) % Wrap

Waiting == {queue.events[i].callback : i \in 0..(queue.size - 1)}

Init == /\ t = 0
        /\ queue = [size |-> 0, events |-> [i \in Index |-> null_event]]
        /\ dequed_event = null_event
        /\ due = [c \in Client |-> 0]

Tick == /\ t < MaxTime
        /\ t' = t + 1
        /\ UNCHANGED <<queue, dequed_event, due>>

Scheduler_enqueue(c, timeout) ==
  /\ c \notin Waiting
  /\ queue.size # Capacity /\ timeout # 0
  /\ LET e == [timeout_us |-> timeout, created |-> now, callback |-> c]
     IN  queue' = event_prioritify(queue, now, e)
  /\ due' = [due EXCEPT ![c] = t + 2 * timeout]
  /\ UNCHANGED <<t, dequed_event>>

Scheduler_dequeue ==
  /\ dequed_event' = Closest(queue)
  /\ queue' = IF queue.size = 0 THEN queue ELSE Dequeued(queue, now)
  /\ due' = IF queue.size = 0 THEN due
            ELSE [due EXCEPT ![dequed_event'.callback] = 0]
  /\ UNCHANGED t

Next == \/ Tick
        \/ \E c \in Client : \E timeout \in Timeouts[c] :
             Scheduler_enqueue(c, timeout)
        \/ Scheduler_dequeue

Spec == Init /\ [][Next]_vars
-----------------------------------------------------------------------------
TypeOK == /\ t \in Nat
          /\ queue \in Queue
          /\ dequed_event \in Event
          /\ due \in [Client -> Nat]

(* The slots before size hold one event of each waiting client and those   *)
(* from size on hold none: swaps neither lose, duplicate nor leave behind  *)
(* an event, and the slot after the array is never written.                *)
OneSlotEach ==
  /\ queue.size <= Capacity
  /\ Cardinality(Waiting) = queue.size /\ Null \notin Waiting
  /\ \A i \in Index : i >= queue.size => queue.events[i] = null_event

(* The head of the queue is an event that nothing in the queue precedes:   *)
(* "Get closest event" (Scheduler.c:160).                                  *)
HeadIsClosest == \A c \in Waiting : due[queue.events[0].callback] <= due[c]

Abstract == INSTANCE PriorityQueue WITH waiting <- Waiting,
                                        taken <- dequed_event.callback

(* The array implements the priority queue: what is enqueued can be        *)
(* dequeued, once, and never after an event that is due later.             *)
RefinesPriorityQueue == Abstract!Spec
=============================================================================
