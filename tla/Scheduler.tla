------------------------------ MODULE Scheduler ------------------------------
(***************************************************************************)
(* component/Scheduler/Scheduler.c on the AVR: the event loop runs the     *)
(* Scheduler component and the clients that enqueue events, and the        *)
(* compare interrupt of timer 1 runs event_callback between any two steps  *)
(* of the loop.  Interrupts are off inside an interrupt, so event_callback *)
(* is one step there, with the Scheduler_enqueue its callback may call.    *)
(*                                                                         *)
(* A step of the loop is the code between two points where the interrupt   *)
(* can change what the loop goes on to use.  Where the timer is off no     *)
(* interrupt can come, and the rest of the hook is one step.               *)
(*                                                                         *)
(* The timer is the hardware of react/hal/avr.c: a free-running counter    *)
(* (TCNT1), one compare register (OCR1A) with its flag (OCF1A), and the    *)
(* interrupt enable bit (OCIE1A).                                          *)
(***************************************************************************)
EXTENDS EventHeap, FiniteSets

CONSTANTS LoopClient,      \* the clients that enqueue from the event loop
          CallbackClient,  \* the clients that enqueue from a callback
          Timeout,         \* the timeouts they ask for, in microseconds
          Masked,          \* do clients of the loop mask interrupts in the call?
          Start,           \* the timer value when the system starts
          MaxTime          \* bound: the ticks the timer runs for

ASSUME ClientAssumption == LoopClient \cup CallbackClient \subseteq Client
ASSUME TimeoutAssumption == Timeout \subseteq Word
ASSUME MaskedAssumption == Masked \in BOOLEAN
ASSUME TimeAssumption == Start \in Nat /\ MaxTime \in Nat

VARIABLES t,           \* ticks since the start
          timer,       \* on: OCIE1A; compare: OCR1A; flag: OCF1A
          stage,       \* self->instance.stage
          queue,       \* self->state.queue
          next_event,  \* self->state.next_event
          loop,        \* the event loop: its next step pc, and its locals
          due,         \* history: the tick an accepted event is due at
          status       \* history: what became of the event of each client

vars == <<t, timer, stage, queue, next_event, loop, due, status>>

(* timer->get() *)
now == (Start + t) % Wrap

(* The locals of the hook or call in progress: the event to store, its     *)
(* index, the event saved by a swap, and what release read from the timer. *)
Loop == [pc    : {"idle", "store", "size", "sort", "swap",
                  "update", "back", "decide", "arm"},
         event : Event, index : Index, swap : Event, now : Word]

idle == [pc |-> "idle", event |-> null_event, index |-> 0,
         swap |-> null_event, now |-> 0]

(* The memory after the array of events belongs to someone else.           *)
foreign == [timeout_us |-> 0, created |-> 1, callback |-> Null]

Init == /\ t = 0
        /\ timer = [on |-> FALSE, compare |-> 0, flag |-> FALSE]
        /\ stage = "DEFINED"
        /\ queue = [size   |-> 0,
                    events |-> [i \in Index |-> IF i = Capacity THEN foreign
                                                ELSE null_event]]
        /\ next_event = null_event
        /\ loop = idle
        /\ due = [c \in Client |-> 0]
        /\ status = [c \in Client |-> "new"]

enqueuing == loop.pc \in {"store", "size", "sort", "swap"}

(* The compare interrupt is pending and not masked. *)
interrupted == timer.on /\ timer.flag /\ ~(Masked /\ enqueuing)

(* The loop is at step p, and no interrupt comes first. *)
At(p) == loop.pc = p /\ ~interrupted

NewEvent(c, timeout) == [timeout_us |-> timeout, created |-> now, callback |-> c]
-----------------------------------------------------------------------------
(* The timer.                                                              *)

Tick == /\ t < MaxTime /\ ~interrupted
        /\ t' = t + 1
        /\ timer' = [timer EXCEPT !.flag = @ \/ (timer.on /\ now' = timer.compare)]
        /\ UNCHANGED <<stage, queue, next_event, loop, due, status>>

timer_off == timer' = [timer EXCEPT !.on = FALSE, !.flag = FALSE]

(* timer_set writes OCR1A and then clears the flag.  When the counter is   *)
(* already at the compare value, the match comes at its next clock, before *)
(* or after the flag is cleared.                                           *)
timer_set(ticks) ==
  \E flag \in IF ticks = now THEN BOOLEAN ELSE {FALSE} :
    timer' = [on |-> TRUE, compare |-> ticks, flag |-> flag]
-----------------------------------------------------------------------------
(* Fault: the event stays scheduled after its callback.                    *)
event_callback_kept ==
  /\ timer_off
  /\ status' = [status EXCEPT ![next_event.callback] = "fired"]
  /\ UNCHANGED <<next_event, queue, due>>

(* event_callback: the timer goes off, the callback of next_event runs and *)
(* next_event is cleared.  The callback may enqueue a next event.          *)
event_callback ==
  LET fired == [status EXCEPT ![next_event.callback] = "fired"]
  IN  /\ timer_off
      /\ next_event' = null_event
      /\ \/ /\ status' = fired
            /\ UNCHANGED <<queue, due>>
         \/ \E c \in CallbackClient, timeout \in Timeout \ {0} :
              /\ fired[c] # "accepted"
              /\ queue.size # Capacity
              /\ queue' = event_prioritify(queue, now, NewEvent(c, timeout))
              /\ due' = [due EXCEPT ![c] = t + 2 * timeout]
              /\ status' = [fired EXCEPT ![c] = "accepted"]

(* ISR(TIMER1_COMPA_vect).  A callback that is null would be called, too.  *)
Interrupt == /\ interrupted
             /\ next_event.callback # Null
             /\ event_callback
             /\ UNCHANGED <<t, stage, loop>>
-----------------------------------------------------------------------------
(* Scheduler_enqueue, called from the event loop.                          *)

Refuse(c) == /\ At("idle") /\ status[c] # "accepted"
             /\ queue.size = Capacity \/ 0 \in Timeout
             /\ status' = [status EXCEPT ![c] = "refused"]
             /\ UNCHANGED <<t, timer, stage, queue, next_event, loop, due>>

Accept(c, timeout) ==
  /\ At("idle") /\ status[c] # "accepted"
  /\ queue.size # Capacity /\ timeout # 0
  /\ loop' = [loop EXCEPT !.pc = "store", !.event = NewEvent(c, timeout),
                          !.now = now, !.index = queue.size]
  /\ due' = [due EXCEPT ![c] = t + 2 * timeout]
  /\ status' = [status EXCEPT ![c] = "accepted"]
  /\ UNCHANGED <<t, timer, stage, queue, next_event>>

(* queue->events[index] = *new_event *)
Store == /\ At("store")
         /\ queue' = [queue EXCEPT !.events[loop.index] = loop.event]
         /\ loop' = [loop EXCEPT !.pc = "size"]
         /\ UNCHANGED <<t, timer, stage, next_event, due, status>>

(* Fault: the size is not incremented.                                     *)
IncrementSize_missing ==
  /\ At("size")
  /\ loop' = [loop EXCEPT !.pc = "sort"]
  /\ UNCHANGED <<t, timer, stage, queue, next_event, due, status>>

(* queue->size += 1; the compiler may keep the size it has read as index.  *)
IncrementSize ==
  /\ At("size")
  /\ \E size \in {queue.size, loop.index} : queue' = [queue EXCEPT !.size = size + 1]
  /\ loop' = [loop EXCEPT !.pc = "sort"]
  /\ UNCHANGED <<t, timer, stage, next_event, due, status>>

(* The test of the sorting loop and the first store of its swap ...        *)
SortUp ==
  /\ At("sort")
  /\ LET i == loop.index IN
     IF i > 0 /\ Closer(loop.now, queue.events[i], queue.events[PARENT(i)])
     THEN /\ loop' = [loop EXCEPT !.pc = "swap", !.swap = queue.events[i]]
          /\ queue' = [queue EXCEPT !.events[i] = queue.events[PARENT(i)]]
     ELSE /\ loop' = idle
          /\ UNCHANGED queue
  /\ UNCHANGED <<t, timer, stage, next_event, due, status>>

(* ... and the second.                                                     *)
SwapUp ==
  /\ At("swap")
  /\ queue' = [queue EXCEPT !.events[PARENT(loop.index)] = loop.swap]
  /\ loop' = [loop EXCEPT !.pc = "sort", !.index = PARENT(loop.index),
                          !.swap = null_event]
  /\ UNCHANGED <<t, timer, stage, next_event, due, status>>
-----------------------------------------------------------------------------
(* The component: React_Component runs one of these on each turn.          *)

(* willMount; the release of a component without events returns at once.   *)
Mount == /\ At("idle") /\ stage = "DEFINED"
         /\ next_event' = null_event
         /\ stage' = "RELEASED"
         /\ UNCHANGED <<t, timer, queue, loop, due, status>>

shouldUpdate ==
  /\ queue.size # 0
  /\ \/ queue.events[0].callback = Null
     \/ next_event.callback = Null
     \/ event_compare(now, next_event, queue.events[0]) = 0

Prepare == /\ At("idle") /\ stage = "RELEASED" /\ shouldUpdate
           /\ stage' = "PREPARED"
           /\ loop' = [loop EXCEPT !.pc = "update"]
           /\ UNCHANGED <<t, timer, queue, next_event, due, status>>

(* A turn that has nothing to do: shouldUpdate says no.                    *)
Decline == /\ At("idle") /\ stage = "RELEASED" /\ ~shouldUpdate
           /\ UNCHANGED vars

(* willUpdate without a scheduled event: Scheduler_dequeue.                *)
Dequeue == /\ At("update") /\ next_event.callback = Null
           /\ next_event' = Closest(queue)
           /\ queue' = IF queue.size = 0 THEN queue ELSE Dequeued(queue, now)
           /\ loop' = idle
           /\ UNCHANGED <<t, timer, stage, due, status>>

(* willUpdate has seen a scheduled event; it may still fire before ...     *)
SeeScheduled == /\ At("update") /\ next_event.callback # Null
                /\ loop' = [loop EXCEPT !.pc = "back"]
                /\ UNCHANGED <<t, timer, stage, queue, next_event, due, status>>

(* Fault: the timer is left on while next_event changes.                   *)
BackToQueue_timer_on ==
  /\ At("back")
  /\ LET q == event_prioritify(queue, now, next_event)
     IN  next_event' = Closest(q) /\ queue' = Dequeued(q, now)
  /\ loop' = idle
  /\ UNCHANGED <<t, timer, stage, due, status>>

(* ... the timer is off, next_event back in the queue, whose capacity is   *)
(* not tested, and the closest event dequeued.                             *)
BackToQueue ==
  /\ At("back")
  /\ timer_off
  /\ LET q == event_prioritify(queue, now, next_event)
     IN  next_event' = Closest(q) /\ queue' = Dequeued(q, now)
  /\ loop' = idle
  /\ UNCHANGED <<t, stage, due, status>>

(* release, up to its first reading of the timer.                          *)
Release == /\ At("idle") /\ stage = "PREPARED"
           /\ stage' = "RELEASED"
           /\ loop' = IF next_event.callback = Null THEN loop
                      ELSE [loop EXCEPT !.pc = "decide", !.now = now]
           /\ UNCHANGED <<t, timer, queue, next_event, due, status>>

(* Fault: a tick beyond the counter.                                       *)
scheduled_tick_unwrapped ==
  loop.now + Ticks(next_event) - Passed(loop.now, next_event)

passed         == Passed(loop.now, next_event)
scheduled_tick == (loop.now + Ticks(next_event) - passed) % Wrap

(* "Scheduled event allready should happen"; passed is compared as an      *)
(* unsigned number, and the timer is read a second time.                   *)
late == \/ passed % Wrap > Ticks(next_event)
        \/ scheduled_tick > loop.now /\ now > scheduled_tick
        \/ loop.now > scheduled_tick /\ scheduled_tick > now

Fire == /\ At("decide") /\ late
        /\ event_callback
        /\ loop' = idle
        /\ UNCHANGED <<t, stage>>

Schedule == /\ At("decide") /\ ~late
            /\ loop' = [loop EXCEPT !.pc = "arm"]
            /\ UNCHANGED <<t, timer, stage, queue, next_event, due, status>>

Arm == /\ At("arm")
       /\ timer_set(scheduled_tick)
       /\ loop' = idle
       /\ UNCHANGED <<t, stage, queue, next_event, due, status>>
-----------------------------------------------------------------------------
Enqueue == \/ \E c \in LoopClient : \/ Refuse(c)
                                    \/ \E timeout \in Timeout : Accept(c, timeout)
           \/ Store \/ IncrementSize \/ SortUp \/ SwapUp

Update == \/ Mount \/ Prepare \/ Decline \/ Dequeue \/ SeeScheduled \/ BackToQueue
          \/ Release \/ Fire \/ Schedule \/ Arm

Next == Tick \/ Interrupt \/ Enqueue \/ Update

Spec == Init /\ [][Next]_vars
-----------------------------------------------------------------------------
TypeOK == /\ t \in Nat
          /\ timer \in [on : BOOLEAN, compare : Word, flag : BOOLEAN]
          /\ stage \in {"DEFINED", "PREPARED", "RELEASED"}
          /\ queue \in Queue
          /\ next_event \in Event
          /\ loop \in Loop
          /\ due \in [Client -> Nat]
          /\ status \in [Client -> {"new", "refused", "accepted", "fired"}]

(* An interrupt never finds next_event empty (it would call a null         *)
(* pointer), and release arms the timer for the event it has tested:       *)
(* next_event is cleared or replaced only while the timer is off.          *)
TimerDiscipline ==
  /\ timer.on => next_event.callback # Null
  /\ loop.pc \in {"decide", "arm"} => ~timer.on /\ next_event.callback # Null

(* What makes it inductive: the stage tells where the event loop is, and   *)
(* the timer is off before the mount and from the end of willUpdate until  *)
(* release has armed it.                                                   *)
StageInv ==
  /\ loop.pc \in {"update", "back"} => stage = "PREPARED"
  /\ loop.pc \in {"decide", "arm"} => stage = "RELEASED"
  /\ stage = "DEFINED" => ~timer.on
  /\ stage = "PREPARED" /\ loop.pc \notin {"update", "back"} => ~timer.on

(* The places that hold the event of client c: slots of the queue (while   *)
(* a swap is half done, its saved event stands for the slot it goes to),   *)
(* next_event (-1), and the call of Scheduler_enqueue in progress (-2).    *)
Places(c) ==
  LET events == IF loop.pc = "swap"
                THEN [queue.events EXCEPT ![PARENT(loop.index)] = loop.swap]
                ELSE queue.events
  IN  {i \in 0..(queue.size - 1) : events[i].callback = c}
      \cup (IF next_event.callback = c THEN {-1} ELSE {})
      \cup (IF loop.pc \in {"store", "size"} /\ loop.event.callback = c
            THEN {-2} ELSE {})

(* "Add event to queue" (Scheduler.c:17): an event for which               *)
(* Scheduler_enqueue returns true is held in exactly one place until its   *)
(* callback runs, and nowhere after.                                       *)
Accounted ==
  \A c \in Client :
    Cardinality(Places(c)) = IF status[c] = "accepted" THEN 1 ELSE 0

(* No store goes past the array, whose capacity is what enqueue calls      *)
(* "enought space in queue" (Scheduler.c:27): an event that goes back to   *)
(* the queue finds a slot there, since it came out of it.                  *)
InBounds == queue.events[Capacity] = foreign

(* A callback runs only when its event is late or due.                     *)
NeverEarly ==
  [][Interrupt \/ Fire => t >= due[next_event.callback]]_vars

(* A callback never runs before its timeout, unless the counter wraps      *)
(* between the two readings of release.                                    *)
NeverEarlyUnlessWrapped ==
  [][Interrupt \/ (Fire /\ now >= loop.now) => t >= due[next_event.callback]]_vars

(* The timer is never left waiting for a tick that has passed: such an     *)
(* event "allready should happen" (Scheduler.c:280) and would happen one   *)
(* turn of the counter later.                                              *)
NotStranded ==
  timer.on /\ ~timer.flag => t < due[next_event.callback]

(* "Update if ... new closest event available" (Scheduler.c:213): the      *)
(* component updates when the queue holds an event closer than the         *)
(* scheduled one.                                                          *)
UpdatesForCloser ==
  /\ stage = "RELEASED" /\ queue.size # 0
  /\ queue.events[0].callback # Null /\ next_event.callback # Null
  /\ Closer(now, queue.events[0], next_event)
  => shouldUpdate
=============================================================================
