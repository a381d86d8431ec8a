------------------------------ MODULE EventHeap ------------------------------
(***************************************************************************)
(* The priority queue of component/Scheduler/Scheduler.c: the comparison   *)
(* of two events and the two ways the array is reordered.  Constant-level  *)
(* operators, shared by EventQueue (the queue by itself) and Scheduler     *)
(* (the queue between the event loop and the timer interrupt).             *)
(*                                                                         *)
(* The timer counts modulo Wrap (2^16 in the code, where an int and an     *)
(* unsigned int are one timer word wide) and ticks twice per microsecond.  *)
(***************************************************************************)
EXTENDS Integers, Sequences

CONSTANTS Client,    \* the callbacks (with their args) that events carry
          Null,      \* a null callback
          Capacity,  \* queue->capacity
          Wrap       \* the number of values of the timer counter

ASSUME NullAssumption == Null \notin Client
ASSUME CapacityAssumption == Capacity \in Nat \ {0}
ASSUME WrapAssumption == Wrap \in Nat \ {0} /\ Wrap % 2 = 0

Word == 0..(Wrap - 1)

Event == [timeout_us : Word, created : Word, callback : Client \cup {Null}]

null_event == [timeout_us |-> 0, created |-> 0, callback |-> Null]

(* The array, and one slot more: the memory right after it.                *)
Index == 0..Capacity

Queue == [size : 0..(Capacity + 1), events : [Index -> Event]]

PARENT(x) == x \div 2
LEFT(x)   == 2 * x + 1
RIGHT(x)  == 2 * x + 2
-----------------------------------------------------------------------------
(* A word read as a signed int.                                            *)
Signed(x) == LET w == x % Wrap
             IN  IF w < Wrap \div 2 THEN w ELSE w - Wrap

(* Fault: microseconds taken for ticks.                                    *)
Ticks_unshifted(e) == e.timeout_us

(* The timeout in ticks: timeout_us << 1. *)
Ticks(e) == (2 * e.timeout_us) % Wrap

(* The ticks since the event was created; 65535 is one less than Wrap.     *)
Passed(now, e) == LET passed == Signed(now - e.created)
                  IN  IF passed < 0
                      THEN Signed(Wrap - 1 - e.created + now)
                      ELSE passed

(* Positive when a is closer than b.  The subtraction of the two ints is   *)
(* meant not to overflow: every run keeps events younger than Wrap / 2.    *)
event_compare(now, a, b) ==
  Signed(Passed(now, a) - Ticks(a)) - Signed(Passed(now, b) - Ticks(b))

Closer(now, a, b) == event_compare(now, a, b) > 0
-----------------------------------------------------------------------------
(* Both reorderings move one event x along a path of slots: each slot of   *)
(* the path takes the event of the next, and the last one takes x.         *)
Along(events, path, x) ==
  [i \in DOMAIN events |->
     IF \E k \in DOMAIN path : path[k] = i
     THEN LET k == CHOOSE j \in DOMAIN path : path[j] = i
          IN  IF k = Len(path) THEN x ELSE events[path[k + 1]]
     ELSE events[i]]

(* The slots the sorting loop of event_prioritify climbs from slot idx.    *)
ClimbPath(now, events, x, idx) ==
  LET climb[i \in Index] ==
        IF i > 0 /\ Closer(now, x, events[PARENT(i)])
        THEN <<i>> \o climb[PARENT(i)]
        ELSE <<i>>
  IN  climb[idx]

event_prioritify(q, now, x) ==
  [size   |-> q.size + 1,
   events |-> Along(q.events, ClimbPath(now, q.events, x, q.size), x)]

(* Fault: the right child is compared with x, not with the larger one.     *)
Largest_of_x(q, now, x, i) ==
  LET l == LEFT(i)
      r == RIGHT(i)
  IN  IF r < q.size /\ Closer(now, q.events[r], x) THEN r
      ELSE IF l < q.size /\ Closer(now, q.events[l], x) THEN l ELSE i

(* The slot event_heapify gives the event x of slot i to, or i itself.     *)
Largest(q, now, x, i) ==
  LET l == LEFT(i)
      r == RIGHT(i)
      larger == IF l < q.size /\ Closer(now, q.events[l], x) THEN l ELSE i
      best   == IF larger = i THEN x ELSE q.events[larger]
  IN  IF r < q.size /\ Closer(now, q.events[r], best) THEN r ELSE larger

(* The slots event_heapify descends, calling itself, from slot 0.          *)
SinkPath(q, now, x) ==
  LET sink[i \in Index] ==
        IF Largest(q, now, x, i) # i
        THEN <<i>> \o sink[Largest(q, now, x, i)]
        ELSE <<i>>
  IN  sink[0]

event_heapify(q, now) ==
  [q EXCEPT !.events = Along(q.events, SinkPath(q, now, q.events[0]), q.events[0])]

(* Fault: the slot after the last event is moved to the front.             *)
Dequeued_off_by_one(q, now) ==
  event_heapify([size   |-> q.size - 1,
                 events |-> [q.events EXCEPT ![0] = q.events[q.size],
                                             ![q.size] = null_event]], now)

(* What Scheduler_dequeue leaves of a queue that is not empty ...          *)
Dequeued(q, now) ==
  LET last   == q.size - 1
      popped == [size   |-> last,
                 events |-> IF last = 0
                            THEN [q.events EXCEPT ![0] = null_event]
                            ELSE [q.events EXCEPT ![0] = q.events[last],
                                                  ![last] = null_event]]
  IN  IF popped.size > 1 THEN event_heapify(popped, now) ELSE popped

(* ... and what it hands out: the null event when the queue is empty.      *)
Closest(q) == IF q.size = 0 THEN null_event ELSE q.events[0]
=============================================================================
