-------------------------- MODULE Scheduler_proofs --------------------------
(***************************************************************************)
(* Proofs about Scheduler, for every set of clients, every capacity, every *)
(* timer width and every set of timeouts: the protocol between the event   *)
(* loop and the timer interrupt, which needs nothing of the queue, and     *)
(* then the events in the queue, of which EventHeap_proofs says what the   *)
(* two reorderings do to them.                                             *)
(***************************************************************************)
EXTENDS Scheduler, EventHeap_proofs, FiniteSetTheorems, TLAPS

(* What the proofs need to know of the records: they have these fields.    *)
Records == /\ timer = [on |-> timer.on, compare |-> timer.compare, flag |-> timer.flag]
           /\ loop = [pc |-> loop.pc, event |-> loop.event, index |-> loop.index,
                      swap |-> loop.swap, now |-> loop.now]

(* Every step keeps the inductive invariant.  The conjuncts of StageInv    *)
(* carry the timer being off from BackToQueue and Dequeue to Release.      *)
Inv == Records /\ StageInv /\ TimerDiscipline

LEMMA InitInv == Init => Inv
  BY DEF Init, Inv, Records, StageInv, TimerDiscipline, idle, null_event

LEMMA StepInv == Inv /\ [Next]_vars => Inv'
  <1> SUFFICES ASSUME Inv, [Next]_vars PROVE Inv'
    OBVIOUS
  <1> USE DEF Inv, Records, StageInv, TimerDiscipline
  <1>1. CASE Tick
    BY <1>1 DEF Tick
  <1>2. CASE Interrupt
    <2>1. /\ timer' = [timer EXCEPT !.on = FALSE, !.flag = FALSE]
          /\ loop' = loop /\ stage' = stage
      BY <1>2, Zenon DEF Interrupt, event_callback, timer_off
    <2>2. timer.on
      BY <1>2, Zenon DEF Interrupt, interrupted
    <2> QED BY <2>1, <2>2
  <1>3. ASSUME NEW c \in LoopClient, Refuse(c) PROVE Inv'
    BY <1>3 DEF Refuse
  <1>4. ASSUME NEW c \in LoopClient, NEW timeout \in Timeout, Accept(c, timeout)
        PROVE  Inv'
    BY <1>4 DEF Accept, At
  <1>5. CASE Store
    BY <1>5 DEF Store, At
  <1>6. CASE IncrementSize
    BY <1>6 DEF IncrementSize, At
  <1>7. CASE SortUp
    <2>1. CASE loop' = idle
      BY <1>7, <2>1 DEF SortUp, At, idle
    <2>2. CASE loop' = [loop EXCEPT !.pc = "swap", !.swap = queue.events[loop.index]]
      BY <1>7, <2>2 DEF SortUp, At
    <2> QED BY <1>7, <2>1, <2>2, Zenon DEF SortUp
  <1>8. CASE SwapUp
    BY <1>8 DEF SwapUp, At
  <1>9. CASE Mount
    BY <1>9 DEF Mount, At
  <1>10. CASE Prepare
    BY <1>10 DEF Prepare, At
  <1>19. CASE Decline
    BY <1>19 DEF Decline, vars
  <1>11. CASE Dequeue
    BY <1>11 DEF Dequeue, At, idle
  <1>12. CASE SeeScheduled
    BY <1>12 DEF SeeScheduled, At
  <1>13. CASE BackToQueue
    BY <1>13 DEF BackToQueue, At, timer_off, idle
  <1>14. CASE Release
    BY <1>14 DEF Release, At
  <1>15. CASE Fire
    BY <1>15 DEF Fire, At, event_callback, timer_off, idle
  <1>16. CASE Schedule
    BY <1>16 DEF Schedule, At
  <1>17. CASE Arm
    BY <1>17 DEF Arm, At, timer_set, idle
  <1>18. CASE UNCHANGED vars
    BY <1>18 DEF vars
  <1> QED BY <1>1, <1>2, <1>3, <1>4, <1>5, <1>6, <1>7, <1>8, <1>9, <1>10, <1>11,
             <1>12, <1>13, <1>14, <1>15, <1>16, <1>17, <1>18, <1>19
          DEF Next, Enqueue, Update

(* An interrupt never finds next_event empty, and the timer is off from    *)
(* the moment willUpdate takes an event until release arms it.             *)
THEOREM TimerSafety == Spec => []TimerDiscipline
  <1>1. Inv => TimerDiscipline
    BY DEF Inv
  <1> QED BY <1>1, InitInv, StepInv, PTL DEF Spec
-----------------------------------------------------------------------------
(* What the sorting steps of an enqueue in progress rely on.  The call     *)
(* writes the queue in several steps; it is undisturbed when clients of    *)
(* the loop mask interrupts in the call, or when no callback enqueues.     *)
Undisturbed == Masked \/ CallbackClient = {}

QueueInv ==
  /\ queue.size <= Capacity
  /\ loop.pc \in {"store", "size"} => loop.index = queue.size /\ queue.size < Capacity
  /\ loop.pc = "size" => queue.events[loop.index] = loop.event
  /\ loop.pc = "sort" => loop.index < queue.size
  /\ loop.pc = "swap" => 0 < loop.index /\ loop.index < queue.size
  /\ stage = "DEFINED" => next_event.callback = Null

Typed == TypeOK /\ QueueInv

LEMMA Fields ==
  ASSUME TypeOK
  PROVE  /\ queue.size \in 0..(Capacity + 1) /\ queue.events \in [Index -> Event]
         /\ queue = [size |-> queue.size, events |-> queue.events]
         /\ loop.pc \in {"idle", "store", "size", "sort", "swap",
                         "update", "back", "decide", "arm"}
         /\ loop.event \in Event /\ loop.index \in Index
         /\ loop.swap \in Event /\ loop.now \in Word
         /\ loop = [pc |-> loop.pc, event |-> loop.event, index |-> loop.index,
                    swap |-> loop.swap, now |-> loop.now]
         /\ timer.on \in BOOLEAN /\ timer.compare \in Word /\ timer.flag \in BOOLEAN
         /\ timer = [on |-> timer.on, compare |-> timer.compare, flag |-> timer.flag]
  BY DEF TypeOK, Queue, Loop

LEMMA NowIsWord == ASSUME t \in Nat PROVE now \in Word
<1>1. Start + t \in Int /\ Wrap \in Nat \ {0}
  BY TimeAssumption, WrapAssumption
<1>2. (Start + t) % Wrap \in 0..(Wrap - 1)
  BY <1>1, Z3
<1>. QED
  BY <1>2 DEF now, Word

LEMMA SignedIsInt == ASSUME NEW x \in Int PROVE Signed(x) \in Int
  BY WrapAssumption, Z3 DEF Signed

LEMMA TickIsWord == ASSUME TypeOK PROVE scheduled_tick \in Word
<1> DEFINE x == Passed(loop.now, next_event)
           y == Ticks(next_event)
<1>1. loop.now \in Int /\ next_event.created \in Int /\ next_event.timeout_us \in Int
  BY Fields DEF TypeOK, Event, Word
<1>2. Wrap \in Nat \ {0}
  BY WrapAssumption
<1>3. x \in Int
  <2>1. Signed(loop.now - next_event.created) \in Int
    BY <1>1, SignedIsInt
  <2>2. Signed(Wrap - 1 - next_event.created + loop.now) \in Int
    BY <1>1, <1>2, SignedIsInt
  <2>. QED
    BY <2>1, <2>2, Zenon DEF Passed
<1>4. y \in Int
  BY <1>1, <1>2, Z3 DEF Ticks
<1>5. scheduled_tick = (loop.now + y - x) % Wrap
  BY DEF scheduled_tick, passed
<1> HIDE DEF x, y
<1>6. loop.now + y - x \in Int
  BY <1>1, <1>3, <1>4
<1>7. (loop.now + y - x) % Wrap \in 0..(Wrap - 1)
  BY <1>2, <1>6, Z3
<1>. QED
  BY <1>5, <1>7 DEF Word

LEMMA InitTyped == Init => Typed
<1> SUFFICES ASSUME Init PROVE Typed
  OBVIOUS
<1>1. foreign \in Event /\ null_event \in Event
  BY WrapAssumption, NullIsEvent DEF foreign, Event, Word
<1>2. 0 \in 0..(Capacity + 1) /\ 0 \in Index /\ 0 \in Word /\ 0 <= Capacity
  BY CapacityAssumption, WrapAssumption DEF Index, Word
<1>3. queue \in Queue /\ queue.size = 0
  BY <1>1, <1>2 DEF Init, Queue
<1>4. loop \in Loop /\ loop.pc = "idle"
  BY <1>1, <1>2 DEF Init, Loop, idle
<1>5. timer \in [on : BOOLEAN, compare : Word, flag : BOOLEAN]
  BY <1>2 DEF Init
<1>6. next_event \in Event /\ next_event.callback = Null
  BY <1>1 DEF Init, null_event
<1>. QED
  BY <1>2, <1>3, <1>4, <1>5, <1>6 DEF Init, Typed, TypeOK, QueueInv
-----------------------------------------------------------------------------
LEMMA NewEventIsEvent ==
  ASSUME t \in Nat, NEW c \in Client, NEW timeout \in Timeout
  PROVE  NewEvent(c, timeout) \in Event
  BY NowIsWord, TimeoutAssumption DEF NewEvent, Event

LEMMA DueIsNat ==
  ASSUME t \in Nat, NEW timeout \in Timeout PROVE t + 2 * timeout \in Nat
<1>1. timeout \in Nat
  BY TimeoutAssumption, WrapAssumption DEF Word
<1>. QED
  BY <1>1

LEMMA CallbackTyped ==
  ASSUME TypeOK, queue.size <= Capacity, event_callback
  PROVE  /\ timer' = [on |-> FALSE, compare |-> timer.compare, flag |-> FALSE]
         /\ next_event' = null_event
         /\ queue' \in Queue /\ queue'.size <= Capacity
         /\ due' \in [Client -> Nat]
         /\ status' \in [Client -> {"new", "refused", "accepted", "fired"}]
         /\ CallbackClient = {} => UNCHANGED queue
<1>1. timer' = [on |-> FALSE, compare |-> timer.compare, flag |-> FALSE]
  BY Fields DEF event_callback, timer_off
<1>2. next_event' = null_event
  BY DEF event_callback
<1> DEFINE fired == [status EXCEPT ![next_event.callback] = "fired"]
<1>3. fired \in [Client -> {"new", "refused", "accepted", "fired"}]
  BY DEF TypeOK
<1> HIDE DEF fired
<1>4. CASE status' = fired /\ UNCHANGED <<queue, due>>
  BY <1>1, <1>2, <1>3, <1>4 DEF TypeOK
<1>5. ASSUME NEW c \in CallbackClient, NEW timeout \in Timeout \ {0},
             queue.size # Capacity,
             queue' = event_prioritify(queue, now, NewEvent(c, timeout)),
             due' = [due EXCEPT ![c] = t + 2 * timeout],
             status' = [fired EXCEPT ![c] = "accepted"]
      PROVE  /\ queue' \in Queue /\ queue'.size <= Capacity
             /\ due' \in [Client -> Nat]
             /\ status' \in [Client -> {"new", "refused", "accepted", "fired"}]
             /\ CallbackClient # {}
  <2>1. NewEvent(c, timeout) \in Event
    BY NewEventIsEvent, ClientAssumption DEF TypeOK
  <2>2. queue.size \in Index /\ queue.size + 1 \in 0..(Capacity + 1) /\ queue.size + 1 <= Capacity
    BY <1>5, Fields, CapacityAssumption DEF Index
  <2>3. /\ queue'.size = queue.size + 1 /\ queue'.events \in [Index -> Event]
        /\ queue' = [size |-> queue'.size, events |-> queue'.events]
    BY <1>5, <2>1, <2>2, Fields, PrioritifyRearranges
  <2>4. t + 2 * timeout \in Nat
    BY DueIsNat DEF TypeOK
  <2>5. due' \in [Client -> Nat]
    BY <1>5, <2>4 DEF TypeOK
  <2>6. status' \in [Client -> {"new", "refused", "accepted", "fired"}]
    BY <1>3, <1>5
  <2>. QED
    BY <2>2, <2>3, <2>5, <2>6 DEF Queue
<1>6. \/ status' = fired /\ UNCHANGED <<queue, due>>
      \/ \E c \in CallbackClient, timeout \in Timeout \ {0} :
              /\ queue.size # Capacity
              /\ queue' = event_prioritify(queue, now, NewEvent(c, timeout))
              /\ due' = [due EXCEPT ![c] = t + 2 * timeout]
              /\ status' = [fired EXCEPT ![c] = "accepted"]
  BY Zenon DEF event_callback, fired
<1>. QED
  BY <1>1, <1>2, <1>4, <1>5, <1>6

(* Every step of the loop and of the timer keeps Typed.                    *)
LEMMA StepTyped == ASSUME Undisturbed PROVE Inv /\ Typed /\ [Next]_vars => Typed'
<1> SUFFICES ASSUME Inv, Typed, [Next]_vars PROVE Typed'
  OBVIOUS
<1>0. TypeOK /\ QueueInv /\ queue.size <= Capacity /\ null_event \in Event
  BY NullIsEvent DEF Typed, QueueInv
<1> USE <1>0
<1>i. idle \in Loop /\ idle.pc = "idle"
  BY CapacityAssumption, WrapAssumption DEF idle, Loop, Index, Word
<1>c. ASSUME event_callback
      PROVE  /\ timer' \in [on : BOOLEAN, compare : Word, flag : BOOLEAN]
             /\ next_event' \in Event /\ next_event'.callback = Null
             /\ queue' \in Queue /\ queue'.size <= Capacity
             /\ due' \in [Client -> Nat]
             /\ status' \in [Client -> {"new", "refused", "accepted", "fired"}]
  <2>1. /\ timer' = [on |-> FALSE, compare |-> timer.compare, flag |-> FALSE]
        /\ next_event' = null_event
        /\ queue' \in Queue /\ queue'.size <= Capacity
        /\ due' \in [Client -> Nat]
        /\ status' \in [Client -> {"new", "refused", "accepted", "fired"}]
    BY <1>c, CallbackTyped
  <2>2. timer.compare \in Word /\ null_event.callback = Null
    BY Fields DEF null_event
  <2>. QED
    BY <2>1, <2>2
<1>1. CASE Tick
  <2>1. t' \in Nat /\ timer' \in [on : BOOLEAN, compare : Word, flag : BOOLEAN]
    <3>1. timer.flag \/ (timer.on /\ now' = timer.compare) \in BOOLEAN
      BY Fields, Zenon
    <3>. QED
      BY <1>1, Fields DEF Tick, TypeOK
  <2>. QED
    BY <1>1, <2>1 DEF Tick, Typed, TypeOK, QueueInv
<1>2. CASE Interrupt
  <2>1. event_callback /\ UNCHANGED <<t, stage, loop>>
    BY <1>2 DEF Interrupt
  <2>2. enqueuing => CallbackClient = {}
    BY <1>2 DEF Interrupt, interrupted, Undisturbed
  <2>3. enqueuing => UNCHANGED queue
    BY <2>1, <2>2, CallbackTyped
  <2>4. TypeOK'
    BY <1>c, <2>1 DEF TypeOK
  <2>5. QueueInv'
    BY <1>c, <2>1, <2>3 DEF QueueInv, enqueuing
  <2>. QED
    BY <2>4, <2>5 DEF Typed
<1>3. ASSUME NEW c \in LoopClient, Refuse(c) PROVE Typed'
  BY <1>3 DEF Refuse, Typed, TypeOK, QueueInv
<1>4. ASSUME NEW c \in LoopClient, NEW timeout \in Timeout, Accept(c, timeout)
      PROVE  Typed'
  <2>1. NewEvent(c, timeout) \in Event /\ now \in Word /\ t + 2 * timeout \in Nat
    BY NewEventIsEvent, NowIsWord, DueIsNat, ClientAssumption DEF TypeOK
  <2>2. queue.size \in Index /\ queue.size < Capacity
    BY <1>4, Fields, CapacityAssumption DEF Accept, Index
  <2>3. loop' = [loop EXCEPT !.pc = "store", !.event = NewEvent(c, timeout),
                             !.now = now, !.index = queue.size]
    BY <1>4 DEF Accept
  <2>4. loop' \in Loop /\ loop'.pc = "store" /\ loop'.index = queue.size
    BY <2>1, <2>2, <2>3, Fields DEF Loop
  <2>. QED
    BY <1>4, <2>1, <2>2, <2>4 DEF Accept, Typed, TypeOK, QueueInv
<1>5. CASE Store
  <2>1. /\ loop.pc = "store" /\ loop.index = queue.size /\ queue.size < Capacity
        /\ queue' = [queue EXCEPT !.events[loop.index] = loop.event]
        /\ loop' = [loop EXCEPT !.pc = "size"]
        /\ UNCHANGED <<t, timer, stage, next_event, due, status>>
    BY <1>5 DEF Store, At, QueueInv
  <2>2. queue' \in Queue /\ queue'.size = queue.size /\ queue'.events[loop.index] = loop.event
    BY <2>1, Fields DEF Queue
  <2>3. loop' \in Loop /\ loop'.pc = "size" /\ loop'.index = loop.index /\ loop'.event = loop.event
    BY <2>1, Fields DEF Loop
  <2>. QED
    BY <2>1, <2>2, <2>3 DEF Typed, TypeOK, QueueInv
<1>6. CASE IncrementSize
  <2>1. /\ loop.pc = "size" /\ loop.index = queue.size /\ queue.size < Capacity
        /\ queue' = [queue EXCEPT !.size = queue.size + 1]
        /\ loop' = [loop EXCEPT !.pc = "sort"]
        /\ UNCHANGED <<t, timer, stage, next_event, due, status>>
    BY <1>6 DEF IncrementSize, At, QueueInv
  <2>2. queue' \in Queue /\ queue'.size = queue.size + 1 /\ queue'.size <= Capacity
    BY <2>1, Fields, CapacityAssumption DEF Queue
  <2>3. loop' \in Loop /\ loop'.pc = "sort" /\ loop'.index = loop.index
    BY <2>1, Fields DEF Loop
  <2>4. loop'.index < queue'.size
    BY <2>1, <2>2, <2>3, Fields
  <2>. QED
    BY <2>1, <2>2, <2>3, <2>4 DEF Typed, TypeOK, QueueInv
<1>7. CASE SortUp
  <2>1. /\ loop.pc = "sort" /\ loop.index < queue.size
        /\ UNCHANGED <<t, timer, stage, next_event, due, status>>
    BY <1>7 DEF SortUp, At, QueueInv
  <2>2. CASE /\ loop.index > 0
             /\ loop' = [loop EXCEPT !.pc = "swap", !.swap = queue.events[loop.index]]
             /\ queue' = [queue EXCEPT !.events[loop.index] = queue.events[PARENT(loop.index)]]
    <3>1. PARENT(loop.index) \in Index
      <4>1. loop.index \in Nat /\ loop.index <= Capacity /\ Capacity \in Nat
        BY Fields, CapacityAssumption DEF Index
      <4>. QED
        BY <2>2, <4>1, Halves DEF Index
    <3>2. queue' \in Queue /\ queue'.size = queue.size
      BY <2>2, <3>1, Fields DEF Queue
    <3>3. loop' \in Loop /\ loop'.pc = "swap" /\ loop'.index = loop.index
      BY <2>2, Fields DEF Loop
    <3>. QED
      BY <2>1, <2>2, <3>2, <3>3 DEF Typed, TypeOK, QueueInv
  <2>3. CASE loop' = idle /\ UNCHANGED queue
    BY <1>i, <2>1, <2>3 DEF Typed, TypeOK, QueueInv
  <2>. QED
    BY <1>7, <2>2, <2>3, Zenon DEF SortUp
<1>8. CASE SwapUp
  <2>1. /\ loop.pc = "swap" /\ loop.index < queue.size /\ loop.index > 0
        /\ queue' = [queue EXCEPT !.events[PARENT(loop.index)] = loop.swap]
        /\ loop' = [loop EXCEPT !.pc = "sort", !.index = PARENT(loop.index),
                                !.swap = null_event]
        /\ UNCHANGED <<t, timer, stage, next_event, due, status>>
    BY <1>8, Fields, CapacityAssumption DEF SwapUp, At, QueueInv, Index
  <2>2. loop.index \in Nat /\ loop.index <= Capacity /\ Capacity \in Nat
    BY Fields, CapacityAssumption DEF Index
  <2>3. PARENT(loop.index) \in Index /\ PARENT(loop.index) < queue.size
    <3>1. PARENT(loop.index) \in Nat /\ PARENT(loop.index) < loop.index
      BY <2>1, <2>2, Halves
    <3>. QED
      BY <2>1, <2>2, <3>1, Fields DEF Index
  <2>4. queue' \in Queue /\ queue'.size = queue.size
    BY <2>1, <2>3, Fields DEF Queue
  <2>5. loop' \in Loop /\ loop'.pc = "sort" /\ loop'.index = PARENT(loop.index)
    BY <2>1, <2>3, Fields DEF Loop
  <2>. QED
    BY <2>1, <2>3, <2>4, <2>5 DEF Typed, TypeOK, QueueInv
<1>9. CASE Mount
  BY <1>9 DEF Mount, Typed, TypeOK, QueueInv
<1>10. CASE Prepare
  <2>1. loop' = [loop EXCEPT !.pc = "update"]
    BY <1>10 DEF Prepare
  <2>2. loop' \in Loop /\ loop'.pc = "update"
    BY <2>1, Fields DEF Loop
  <2>. QED
    BY <1>10, <2>2 DEF Prepare, Typed, TypeOK, QueueInv
<1>11. CASE Decline
  BY <1>11 DEF Decline, vars, Typed, TypeOK, QueueInv
<1>12. CASE Dequeue
  <2>1. queue' \in Queue /\ queue'.size <= Capacity /\ next_event' \in Event
    <3>1. CASE queue.size = 0
      BY <1>12, <3>1 DEF Dequeue, Closest, TypeOK
    <3>2. CASE queue.size # 0
      <4>1. queue.size \in 1..(Capacity + 1) /\ queue.size - 1 \in 0..(Capacity + 1) /\ queue.size - 1 <= Capacity /\ 0 \in Index
        BY <3>2, Fields, CapacityAssumption DEF Index
      <4>2. queue' = Dequeued(queue, now) /\ next_event' = queue.events[0]
        BY <1>12, <3>2 DEF Dequeue, Closest
      <4>3. /\ queue'.size = queue.size - 1 /\ queue'.events \in [Index -> Event]
            /\ queue' = [size |-> queue'.size, events |-> queue'.events]
        BY <4>1, <4>2, Fields, DequeuedRearranges
      <4>. QED
        BY <4>1, <4>2, <4>3, Fields DEF Queue
    <3>. QED
      BY <3>1, <3>2
  <2>2. stage # "DEFINED"
    BY <1>12 DEF Dequeue, At, Inv, StageInv
  <2>. QED
    BY <1>12, <1>i, <2>1, <2>2 DEF Dequeue, Typed, TypeOK, QueueInv
<1>13. CASE SeeScheduled
  <2>1. loop' = [loop EXCEPT !.pc = "back"]
    BY <1>13 DEF SeeScheduled
  <2>2. loop' \in Loop /\ loop'.pc = "back"
    BY <2>1, Fields DEF Loop
  <2>. QED
    BY <1>13, <2>2 DEF SeeScheduled, Typed, TypeOK, QueueInv
<1>14. CASE BackToQueue
  <2> DEFINE q == event_prioritify(queue, now, next_event)
  <2>1. timer_off /\ next_event' = Closest(q) /\ queue' = Dequeued(q, now)
        /\ loop' = idle /\ UNCHANGED <<t, stage, due, status>>
    BY <1>14 DEF BackToQueue
  <2> HIDE DEF q
  <2>2. queue.size \in Index /\ next_event \in Event
    BY Fields, CapacityAssumption DEF Index, TypeOK
  <2>3. q.size = queue.size + 1 /\ q.events \in [Index -> Event]
    BY <2>2, Fields, PrioritifyRearranges DEF q
  <2>4. q.size \in 1..(Capacity + 1) /\ q.size - 1 = queue.size /\ q.size # 0 /\ 0 \in Index
    BY <2>2, <2>3, CapacityAssumption DEF Index
  <2>5. /\ queue'.size = q.size - 1 /\ queue'.events \in [Index -> Event]
        /\ queue' = [size |-> queue'.size, events |-> queue'.events]
    BY <2>1, <2>3, <2>4, DequeuedRearranges
  <2>6. queue' \in Queue /\ queue'.size <= Capacity
    BY <2>4, <2>5, Fields DEF Queue
  <2>7. next_event' \in Event
    BY <2>1, <2>3, <2>4 DEF Closest
  <2>8. timer' \in [on : BOOLEAN, compare : Word, flag : BOOLEAN]
    BY <2>1, Fields DEF timer_off
  <2>9. stage # "DEFINED"
    BY <1>14 DEF BackToQueue, At, Inv, StageInv
  <2>. QED
    BY <1>i, <2>1, <2>6, <2>7, <2>8, <2>9 DEF Typed, TypeOK, QueueInv
<1>15. CASE Release
  <2>1. loop' = loop \/ loop' = [loop EXCEPT !.pc = "decide", !.now = now]
    BY <1>15 DEF Release
  <2>2. loop.pc = "idle" /\ now \in Word
    BY <1>15, NowIsWord DEF Release, At, TypeOK
  <2>3. loop' \in Loop /\ loop'.pc \in {"idle", "decide"}
    <3>1. CASE loop' = loop
      BY <2>2, <3>1 DEF TypeOK
    <3>2. CASE loop' = [loop EXCEPT !.pc = "decide", !.now = now]
      BY <2>2, <3>2, Fields DEF Loop
    <3>. QED
      BY <2>1, <3>1, <3>2
  <2>. QED
    BY <1>15, <2>3 DEF Release, Typed, TypeOK, QueueInv
<1>16. CASE Fire
  <2>1. event_callback /\ loop' = idle /\ UNCHANGED <<t, stage>>
    BY <1>16 DEF Fire
  <2>2. TypeOK'
    BY <1>c, <1>i, <2>1 DEF TypeOK
  <2>3. QueueInv'
    BY <1>c, <1>i, <2>1 DEF QueueInv
  <2>. QED
    BY <2>2, <2>3 DEF Typed
<1>17. CASE Schedule
  <2>1. loop' = [loop EXCEPT !.pc = "arm"]
    BY <1>17 DEF Schedule
  <2>2. loop' \in Loop /\ loop'.pc = "arm"
    BY <2>1, Fields DEF Loop
  <2>. QED
    BY <1>17, <2>2 DEF Schedule, Typed, TypeOK, QueueInv
<1>18. CASE Arm
  <2>1. timer' \in [on : BOOLEAN, compare : Word, flag : BOOLEAN]
    <3>1. PICK flag \in BOOLEAN : timer' = [on |-> TRUE, compare |-> scheduled_tick, flag |-> flag]
      BY <1>18, Zenon DEF Arm, timer_set
    <3>2. scheduled_tick \in Word
      BY TickIsWord
    <3>. QED
      BY <3>1, <3>2
  <2>. QED
    BY <1>18, <1>i, <2>1 DEF Arm, Typed, TypeOK, QueueInv
<1>19. CASE UNCHANGED vars
  BY <1>19 DEF vars, Typed, TypeOK, QueueInv
<1>. QED
  BY <1>1, <1>2, <1>3, <1>4, <1>5, <1>6, <1>7, <1>8, <1>9, <1>10, <1>11,
     <1>12, <1>13, <1>14, <1>15, <1>16, <1>17, <1>18, <1>19
  DEF Next, Enqueue, Update
-----------------------------------------------------------------------------
(* Accounted without cardinalities.                                        *)
Counted(c, A, s) == IF s[c] = "accepted" THEN One(A) ELSE A = {}

OneEach == \A c \in Client : Counted(c, Places(c), status)

LEMMA CountedAsMany ==
  ASSUME NEW A, NEW B, AsMany(A, B), NEW c, NEW s, Counted(c, B, s)
  PROVE  Counted(c, A, s)
  BY DEF AsMany, Counted

LEMMA OneMoreEach ==
  ASSUME NEW A, NEW B, AsMany(A, B), NEW a, a \notin A, NEW b, b \notin B
  PROVE  AsMany(A \cup {a}, B \cup {b})
<1>1. ASSUME NEW C, NEW x, x \notin C PROVE C \cup {x} # {} /\ (One(C \cup {x}) <=> C = {})
  <2>1. ASSUME NEW i, C \cup {x} = {i} PROVE C = {}
    BY <1>1, <2>1
  <2>2. C = {} => C \cup {x} = {x}
    OBVIOUS
  <2>. QED
    BY <2>1, <2>2 DEF One
<1>. QED
  BY <1>1 DEF AsMany

(* A call of Scheduler_enqueue in progress, and what Places is otherwise.  *)
Scheduled(e, c) == IF e.callback = c THEN {-1} ELSE {}

LEMMA PlacesAre ==
  ASSUME NEW c
  PROVE  /\ loop.pc \notin {"store", "size", "swap"} =>
              Places(c) = SlotsOf(queue, c) \cup Scheduled(next_event, c)
         /\ loop.pc \in {"store", "size"} =>
              Places(c) = SlotsOf(queue, c) \cup Scheduled(next_event, c)
                          \cup (IF loop.event.callback = c THEN {-2} ELSE {})
         /\ loop.pc = "swap" =>
              Places(c) = {i \in 0..(queue.size - 1) :
                             [queue.events EXCEPT ![PARENT(loop.index)] = loop.swap][i].callback = c}
                          \cup Scheduled(next_event, c)
  BY DEF Places, SlotsOf, Scheduled

LEMMA SlotsAreNat == ASSUME NEW q, NEW c PROVE -1 \notin SlotsOf(q, c) /\ -2 \notin SlotsOf(q, c)
  BY DEF SlotsOf

LEMMA HeadTaken ==
  ASSUME NEW q, q.events \in [Index -> Event], q.size \in 1..(Capacity + 1), NEW n, NEW c
  PROVE  AsMany(SlotsOf(Dequeued(q, n), c) \cup Scheduled(q.events[0], c), SlotsOf(q, c))
<1> DEFINE A == SlotsOf(Dequeued(q, n), c)
           B == SlotsOf(q, c)
<1>1. AsMany(A, B \ {0})
  BY DequeuedKeeps
<1>2. -1 \notin A
  BY SlotsAreNat
<1>3. 0 \in B <=> q.events[0].callback = c
  BY CapacityAssumption DEF SlotsOf
<1> HIDE DEF A, B
<1>4. CASE q.events[0].callback = c
  <2>1. (B \ {0}) \cup {0} = B /\ 0 \notin B \ {0}
    BY <1>3, <1>4
  <2>2. AsMany(A \cup {-1}, (B \ {0}) \cup {0})
    BY <1>1, <1>2, <2>1, OneMoreEach
  <2>. QED
    BY <1>4, <2>1, <2>2 DEF Scheduled, A, B
<1>5. CASE q.events[0].callback # c
  <2>1. B \ {0} = B
    BY <1>3, <1>5
  <2>. QED
    BY <1>1, <1>5, <2>1 DEF Scheduled, A, B
<1>. QED
  BY <1>4, <1>5

(* A callback takes its event out of the books, and may enter a new one.   *)
LEMMA CallbackCounted ==
  ASSUME Inv, Typed, OneEach, event_callback, next_event.callback # Null,
         \/ loop' = loop
         \/ loop.pc \notin {"store", "size", "swap"} /\ loop'.pc \notin {"store", "size", "swap"},
         loop.pc \in {"store", "size", "swap"} => CallbackClient = {}
  PROVE  OneEach'
<1> DEFINE fired == [status EXCEPT ![next_event.callback] = "fired"]
<1>0. TypeOK
  BY DEF Typed
<1>1. next_event.callback \in Client /\ status \in [Client -> {"new", "refused", "accepted", "fired"}]
  BY <1>0 DEF TypeOK, Event
<1>2. ASSUME NEW c \in Client PROVE Counted(c, Places(c) \ {-1}, fired)
  <2>1. -1 \in Places(c) <=> next_event.callback = c
    BY PlacesAre, SlotsAreNat, NullAssumption, Fields, <1>0 DEF Scheduled, Places
  <2>2. Counted(c, Places(c), status)
    BY DEF OneEach
  <2>3. CASE next_event.callback = c
    <3>1. One(Places(c))
      BY <2>1, <2>2, <2>3 DEF Counted
    <3>2. Places(c) \ {-1} = {}
      BY <2>1, <2>3, <3>1 DEF One
    <3>3. fired[c] # "accepted"
      BY <1>1, <2>3
    <3>. QED
      BY <3>2, <3>3 DEF Counted
  <2>4. CASE next_event.callback # c
    <3>1. Places(c) \ {-1} = Places(c) /\ fired[c] = status[c]
      BY <1>1, <2>1, <2>4
    <3> HIDE DEF fired
    <3>. QED
      BY <2>2, <3>1 DEF Counted
  <2>. QED
    BY <2>3, <2>4
<1>3. next_event' = null_event /\ null_event.callback = Null
  BY DEF event_callback, null_event
<1> HIDE DEF fired
<1>4. CASE status' = fired /\ UNCHANGED queue
  <2>1. ASSUME NEW c \in Client PROVE Places(c)' = Places(c) \ {-1}
    <3>1. c # Null
      BY NullAssumption
    <3>. QED
      BY <1>3, <1>4, <3>1 DEF Places
  <2>. QED
    BY <1>2, <1>4, <2>1 DEF OneEach, Counted
<1>5. ASSUME NEW d \in CallbackClient, NEW timeout \in Timeout,
             fired[d] # "accepted", queue.size # Capacity,
             queue' = event_prioritify(queue, now, NewEvent(d, timeout)),
             status' = [fired EXCEPT ![d] = "accepted"]
      PROVE  OneEach'
  <2>1. loop.pc \notin {"store", "size", "swap"} /\ loop'.pc \notin {"store", "size", "swap"}
    BY <1>5
  <2>2. NewEvent(d, timeout) \in Event /\ NewEvent(d, timeout).callback = d /\ d \in Client
    BY <1>0, NewEventIsEvent, ClientAssumption DEF TypeOK, NewEvent
  <2>3. queue.size \in Index /\ queue.events \in [Index -> Event] /\ queue.size \in Nat
    BY <1>0, Fields, CapacityAssumption DEF Index, Typed, QueueInv
  <2>4. ASSUME NEW c \in Client PROVE Counted(c, Places(c)', status')
    <3>1. Scheduled(null_event, c) = {}
      BY NullAssumption, <1>3 DEF Scheduled
    <3>2. Places(c)' = SlotsOf(queue', c)
      BY <1>3, <2>1, <3>1 DEF Places, SlotsOf, Scheduled
    <3>3. Places(c) \ {-1} = SlotsOf(queue, c)
      BY <2>1, PlacesAre, SlotsAreNat DEF Scheduled
    <3>4. AsMany(SlotsOf(queue', c), SlotsOf(queue, c) \cup (IF d = c THEN {queue.size} ELSE {}))
      BY <1>5, <2>2, <2>3, PrioritifyKeeps
    <3>5. CASE d = c
      <4>1. SlotsOf(queue, c) = {}
        BY <1>2, <1>5, <3>3, <3>5 DEF Counted
      <4>2. One(SlotsOf(queue', c))
        BY <3>4, <3>5, <4>1 DEF AsMany, One
      <4>. QED
        BY <3>2, <4>2, <1>5, <3>5, <1>1 DEF Counted, fired
    <3>6. CASE d # c
      <4>1. AsMany(SlotsOf(queue', c), SlotsOf(queue, c))
        BY <3>4, <3>6
      <4>2. Counted(c, SlotsOf(queue, c), fired)
        BY <1>2, <3>3
      <4>3. Counted(c, SlotsOf(queue', c), fired)
        BY <4>1, <4>2, CountedAsMany
      <4>4. status'[c] = fired[c]
        BY <1>5, <3>6, <1>1 DEF fired
      <4>. QED
        BY <3>2, <4>3, <4>4 DEF Counted
    <3>. QED
      BY <3>5, <3>6
  <2>. QED
    BY <2>4 DEF OneEach, Counted
<1>6. \/ status' = fired /\ UNCHANGED <<queue, due>>
      \/ \E c \in CallbackClient, timeout \in Timeout \ {0} :
              /\ fired[c] # "accepted"
              /\ queue.size # Capacity
              /\ queue' = event_prioritify(queue, now, NewEvent(c, timeout))
              /\ due' = [due EXCEPT ![c] = t + 2 * timeout]
              /\ status' = [fired EXCEPT ![c] = "accepted"]
  BY Zenon DEF event_callback, fired
<1>. QED
  BY <1>4, <1>5, <1>6

(* Every step of the loop and of the timer keeps each event in its place.  *)
LEMMA StepCounted ==
  ASSUME Undisturbed PROVE Inv /\ Typed /\ OneEach /\ [Next]_vars => OneEach'
<1> SUFFICES ASSUME Inv, Typed, OneEach, [Next]_vars PROVE OneEach'
  OBVIOUS
<1>0. TypeOK /\ QueueInv
  BY DEF Typed
<1> USE <1>0
<1>a. ASSUME UNCHANGED <<queue, next_event>>,
             loop' = loop \/ (/\ loop.pc \notin {"store", "size", "swap"}
                              /\ loop'.pc \notin {"store", "size", "swap"}),
             \A c \in Client : status'[c] = "accepted" <=> status[c] = "accepted"
      PROVE  OneEach'
  <2>1. ASSUME NEW c \in Client PROVE Places(c)' = Places(c)
    BY <1>a DEF Places
  <2>. QED
    BY <1>a, <2>1 DEF OneEach, Counted
<1>b. ASSUME UNCHANGED status, \A c \in Client : AsMany(Places(c)', Places(c))
      PROVE  OneEach'
  BY <1>b, CountedAsMany DEF OneEach, Counted
<1>c. ASSUME NEW A PROVE AsMany(A, A)
  BY DEF AsMany
<1>1. CASE Tick
  BY <1>1, <1>a DEF Tick
<1>2. CASE Interrupt
  <2>1. enqueuing => CallbackClient = {}
    BY <1>2 DEF Interrupt, interrupted, Undisturbed
  <2>. QED
    BY <1>2, <2>1, CallbackCounted DEF Interrupt, enqueuing
<1>3. ASSUME NEW c \in LoopClient, Refuse(c) PROVE OneEach'
  <2>1. UNCHANGED <<queue, next_event, loop>>
    BY <1>3 DEF Refuse
  <2>2. \A d \in Client : status'[d] = "accepted" <=> status[d] = "accepted"
    BY <1>3 DEF Refuse, TypeOK
  <2>. QED
    BY <1>a, <2>1, <2>2
<1>4. ASSUME NEW d \in LoopClient, NEW timeout \in Timeout, Accept(d, timeout)
      PROVE  OneEach'
  <2>1. /\ loop.pc = "idle" /\ status[d] # "accepted"
        /\ loop' = [loop EXCEPT !.pc = "store", !.event = NewEvent(d, timeout),
                                !.now = now, !.index = queue.size]
        /\ status' = [status EXCEPT ![d] = "accepted"]
        /\ UNCHANGED <<queue, next_event>>
    BY <1>4 DEF Accept, At
  <2>2. loop'.pc = "store" /\ loop'.event.callback = d
    BY <2>1, Fields DEF NewEvent
  <2>3. ASSUME NEW c \in Client PROVE Counted(c, Places(c)', status')
    <3>1. Places(c)' = Places(c) \cup (IF d = c THEN {-2} ELSE {})
      BY <2>1, <2>2 DEF Places
    <3>2. Counted(c, Places(c), status)
      BY DEF OneEach
    <3>3. CASE d = c
      <4>1. Places(c) = {}
        BY <2>1, <3>2, <3>3 DEF Counted
      <4>2. One(Places(c)') /\ status'[c] = "accepted"
        BY <2>1, <3>1, <3>3, <4>1 DEF One, TypeOK
      <4>. QED
        BY <4>2 DEF Counted
    <3>4. CASE d # c
      <4>1. Places(c)' = Places(c) /\ status'[c] = status[c]
        BY <2>1, <3>1, <3>4 DEF TypeOK
      <4>. QED
        BY <3>2, <4>1 DEF Counted
    <3>. QED
      BY <3>3, <3>4
  <2>. QED
    BY <2>3 DEF OneEach, Counted
<1>5. CASE Store
  <2>1. /\ loop.pc = "store" /\ loop.index = queue.size
        /\ queue' = [queue EXCEPT !.events[loop.index] = loop.event]
        /\ loop' = [loop EXCEPT !.pc = "size"]
        /\ UNCHANGED <<next_event, status>>
    BY <1>5 DEF Store, At, QueueInv
  <2>2. /\ queue'.size = queue.size /\ loop'.pc = "size" /\ loop'.event = loop.event
        /\ queue'.events = [queue.events EXCEPT ![loop.index] = loop.event]
    BY <2>1, Fields
  <2>3. \A i \in 0..(queue.size - 1) : queue'.events[i] = queue.events[i]
    <3>1. \A i \in 0..(queue.size - 1) : i \in Index /\ i # loop.index
      BY <2>1, Fields, CapacityAssumption DEF Index
    <3>. QED
      BY <2>2, <3>1, Fields
  <2>4. ASSUME NEW c \in Client PROVE Places(c)' = Places(c)
    BY <2>1, <2>2, <2>3 DEF Places
  <2>. QED
    BY <1>b, <1>c, <2>1, <2>4
<1>6. CASE IncrementSize
  <2>1. /\ loop.pc = "size" /\ loop.index = queue.size
        /\ queue.events[loop.index] = loop.event
        /\ queue' = [queue EXCEPT !.size = queue.size + 1]
        /\ loop' = [loop EXCEPT !.pc = "sort"]
        /\ UNCHANGED <<next_event, status>>
    BY <1>6 DEF IncrementSize, At, QueueInv
  <2>2. /\ queue'.size = queue.size + 1 /\ queue'.events = queue.events
        /\ loop'.pc = "sort" /\ queue.size \in Nat
    BY <2>1, Fields
  <2>3. ASSUME NEW c \in Client PROVE AsMany(Places(c)', Places(c))
    <3> DEFINE A == SlotsOf(queue, c) \cup Scheduled(next_event, c)
    <3>1. Places(c) = A \cup (IF loop.event.callback = c THEN {-2} ELSE {})
      BY <2>1, PlacesAre
    <3>2. SlotsOf(queue', c) = SlotsOf(queue, c) \cup (IF loop.event.callback = c THEN {queue.size} ELSE {})
      <4>1. \A i : i \in 0..(queue'.size - 1) <=> i \in 0..(queue.size - 1) \/ i = queue.size
        BY <2>2
      <4>. QED
        BY <2>1, <2>2, <4>1 DEF SlotsOf
    <3>3. Places(c)' = SlotsOf(queue', c) \cup Scheduled(next_event, c)
      BY <2>1, <2>2 DEF Places, SlotsOf, Scheduled
    <3>4. queue.size \notin A /\ -2 \notin A
      BY <2>2 DEF SlotsOf, Scheduled
    <3>5. Places(c)' = A \cup (IF loop.event.callback = c THEN {queue.size} ELSE {})
      BY <3>2, <3>3
    <3> HIDE DEF A
    <3>6. AsMany(A \cup {queue.size}, A \cup {-2}) /\ AsMany(A, A)
      BY <1>c, <3>4, OneMoreEach
    <3>. QED
      BY <3>1, <3>5, <3>6
  <2>. QED
    BY <1>b, <2>1, <2>3
<1>7. CASE SortUp
  <2>1. /\ loop.pc = "sort" /\ loop.index < queue.size
        /\ UNCHANGED <<next_event, status>>
    BY <1>7 DEF SortUp, At, QueueInv
  <2>2. CASE /\ loop.index > 0
             /\ loop' = [loop EXCEPT !.pc = "swap", !.swap = queue.events[loop.index]]
             /\ queue' = [queue EXCEPT !.events[loop.index] = queue.events[PARENT(loop.index)]]
    <3> DEFINE i == loop.index
               p == PARENT(loop.index)
               S == 0..(queue.size - 1)
               e == [queue'.events EXCEPT ![PARENT(loop'.index)] = loop'.swap]
               m == [j \in S |-> IF j = i THEN p ELSE IF j = p THEN i ELSE j]
    <3>1. i \in Nat /\ i \in S /\ p \in S /\ p # i /\ S \subseteq Index
      <4>1. i \in Nat /\ i <= Capacity /\ Capacity \in Nat /\ queue.size \in Nat /\ queue.size <= Capacity
        BY Fields, CapacityAssumption DEF Index, QueueInv
      <4>2. p \in Nat /\ p < i
        BY <2>2, <4>1, Halves
      <4>3. S \subseteq Index
        BY <4>1 DEF Index
      <4> HIDE DEF i, p
      <4>4. i < queue.size
        BY <2>1 DEF i
      <4>. QED
        BY <4>1, <4>2, <4>3, <4>4
    <3>2. /\ queue'.size = queue.size
          /\ queue'.events = [queue.events EXCEPT ![i] = queue.events[p]]
          /\ loop'.pc = "swap" /\ loop'.index = i /\ loop'.swap = queue.events[i]
      BY <2>2, Fields
    <3> HIDE DEF i, p, S
    <3>3. e = [[queue.events EXCEPT ![i] = queue.events[p]] EXCEPT ![p] = queue.events[i]]
      BY <3>2 DEF p, i
    <3> HIDE DEF e
    <3>4. \A j \in S : e[j] = queue.events[m[j]] /\ m[j] \in S
      BY <3>1, <3>3, Fields
    <3>5. m \in Bijection(S, S)
      <4>1. m \in [S -> S] /\ \A j, k \in S : m[j] = m[k] => j = k
        BY <3>1
      <4>2. \A j \in S : m[m[j]] = j /\ m[j] \in S
        BY <3>1
      <4> HIDE DEF m
      <4>3. \A j \in S : \E k \in S : m[k] = j
        BY <4>2
      <4>. QED
        BY <4>1, <4>3, Fun_IsBij
    <3> HIDE DEF m
    <3>6. ASSUME NEW c \in Client PROVE AsMany(Places(c)', Places(c))
      <4> DEFINE A == {j \in S : e[j].callback = c}
                 B == SlotsOf(queue, c)
      <4>1. Places(c)' = A \cup Scheduled(next_event, c)
        BY <2>1, <3>2 DEF Places, Scheduled, e, S
      <4>2. Places(c) = B \cup Scheduled(next_event, c)
        BY <2>1, PlacesAre
      <4>3. A \subseteq S /\ B \subseteq S /\ \A j \in S : j \in A <=> m[j] \in B
        BY <3>4 DEF SlotsOf, S
      <4>4. -1 \notin A /\ -1 \notin B
        BY DEF SlotsOf, S
      <4> HIDE DEF A, B
      <4>5. AsMany(A, B)
        BY <3>5, <4>3, Renamed
      <4>6. AsMany(A \cup {-1}, B \cup {-1})
        BY <4>4, <4>5, OneMoreEach
      <4>. QED
        BY <4>1, <4>2, <4>5, <4>6 DEF Scheduled
    <3>. QED
      BY <1>b, <2>1, <3>6
  <2>3. CASE loop' = idle /\ UNCHANGED queue
    BY <1>a, <2>1, <2>3 DEF idle
  <2>. QED
    BY <1>7, <2>2, <2>3, Zenon DEF SortUp
<1>8. CASE SwapUp
  <2>1. /\ loop.pc = "swap"
        /\ queue' = [queue EXCEPT !.events[PARENT(loop.index)] = loop.swap]
        /\ loop' = [loop EXCEPT !.pc = "sort", !.index = PARENT(loop.index),
                                !.swap = null_event]
        /\ UNCHANGED <<next_event, status>>
    BY <1>8 DEF SwapUp, At
  <2>2. /\ queue'.size = queue.size /\ loop'.pc = "sort"
        /\ queue'.events = [queue.events EXCEPT ![PARENT(loop.index)] = loop.swap]
    BY <2>1, Fields
  <2>3. ASSUME NEW c \in Client PROVE Places(c)' = Places(c)
    BY <2>1, <2>2 DEF Places
  <2>. QED
    BY <1>b, <1>c, <2>1, <2>3
<1>9. CASE Mount
  <2>1. /\ loop.pc = "idle" /\ next_event.callback = Null /\ next_event'.callback = Null
        /\ UNCHANGED <<queue, loop, status>>
    BY <1>9 DEF Mount, At, QueueInv, null_event
  <2>2. ASSUME NEW c \in Client PROVE Places(c)' = Places(c)
    BY <2>1, NullAssumption DEF Places
  <2>. QED
    BY <1>b, <1>c, <2>1, <2>2
<1>10. CASE Prepare
  BY <1>10, <1>a, Fields DEF Prepare, At
<1>11. CASE Decline
  BY <1>11, <1>a DEF Decline, vars
<1>12. CASE Dequeue
  <2>1. /\ loop.pc = "update" /\ next_event.callback = Null /\ loop' = idle
        /\ UNCHANGED status
    BY <1>12 DEF Dequeue, At
  <2>2. ASSUME NEW c \in Client PROVE AsMany(Places(c)', Places(c))
    <3>1. Places(c) = SlotsOf(queue, c)
      <4>1. Places(c) = SlotsOf(queue, c) \cup Scheduled(next_event, c)
        BY <2>1, PlacesAre
      <4>2. Scheduled(next_event, c) = {}
        BY <2>1, NullAssumption DEF Scheduled
      <4>. QED
        BY <4>1, <4>2
    <3>2. Places(c)' = SlotsOf(queue', c) \cup Scheduled(next_event', c)
      BY <2>1 DEF idle, Places, SlotsOf, Scheduled
    <3>3. CASE queue.size = 0
      <4>1. queue' = queue /\ next_event'.callback = Null
        BY <1>12, <3>3 DEF Dequeue, Closest, null_event
      <4>. QED
        BY <1>c, <3>1, <3>2, <4>1, NullAssumption DEF Scheduled
    <3>4. CASE queue.size # 0
      <4>1. queue' = Dequeued(queue, now) /\ next_event' = queue.events[0]
        BY <1>12, <3>4 DEF Dequeue, Closest
      <4>2. queue.size \in 1..(Capacity + 1) /\ queue.events \in [Index -> Event]
        BY <3>4, Fields, CapacityAssumption
      <4>. QED
        BY <3>1, <3>2, <4>1, <4>2, HeadTaken
    <3>. QED
      BY <3>3, <3>4
  <2>. QED
    BY <1>b, <2>1, <2>2
<1>13. CASE SeeScheduled
  BY <1>13, <1>a, Fields DEF SeeScheduled, At
<1>14. CASE BackToQueue
  <2> DEFINE q == event_prioritify(queue, now, next_event)
  <2>1. /\ loop.pc = "back" /\ next_event' = Closest(q) /\ queue' = Dequeued(q, now)
        /\ loop' = idle /\ UNCHANGED status
    BY <1>14 DEF BackToQueue, At
  <2> HIDE DEF q
  <2>2. /\ queue.size \in Index /\ queue.size \in Nat /\ next_event \in Event
        /\ queue.events \in [Index -> Event]
    BY Fields, CapacityAssumption DEF Index, TypeOK, QueueInv
  <2>3. q.size = queue.size + 1 /\ q.events \in [Index -> Event]
    BY <2>2, Fields, PrioritifyRearranges DEF q
  <2>4. q.size \in 1..(Capacity + 1) /\ next_event' = q.events[0]
    BY <2>1, <2>2, <2>3, CapacityAssumption DEF Index, Closest
  <2>5. ASSUME NEW c \in Client PROVE AsMany(Places(c)', Places(c))
    <3>1. Places(c) = SlotsOf(queue, c) \cup Scheduled(next_event, c)
      BY <2>1, PlacesAre
    <3>2. Places(c)' = SlotsOf(queue', c) \cup Scheduled(next_event', c)
      BY <2>1 DEF idle, Places, SlotsOf, Scheduled
    <3>3. AsMany(Places(c)', SlotsOf(q, c))
      BY <2>1, <2>3, <2>4, <3>2, HeadTaken
    <3>4. AsMany(SlotsOf(q, c), SlotsOf(queue, c) \cup (IF next_event.callback = c THEN {queue.size} ELSE {}))
      BY <2>2, PrioritifyKeeps DEF q
    <3>5. -1 \notin SlotsOf(queue, c) /\ queue.size \notin SlotsOf(queue, c)
      BY <2>2 DEF SlotsOf
    <3>6. AsMany(SlotsOf(queue, c) \cup {queue.size}, SlotsOf(queue, c) \cup {-1})
      BY <1>c, <3>5, OneMoreEach
    <3>7. AsMany(SlotsOf(q, c), Places(c))
      BY <1>c, <3>1, <3>4, <3>6 DEF Scheduled, AsMany
    <3>. QED
      BY <3>3, <3>7 DEF AsMany
  <2>. QED
    BY <1>b, <2>1, <2>5
<1>15. CASE Release
  <2>1. loop' = loop \/ (loop.pc = "idle" /\ loop'.pc = "decide")
    BY <1>15, Fields DEF Release, At
  <2>2. UNCHANGED <<queue, next_event, status>>
    BY <1>15 DEF Release
  <2>. QED
    BY <1>a, <2>1, <2>2
<1>16. CASE Fire
  <2>1. event_callback /\ loop.pc = "decide" /\ loop' = idle
    BY <1>16 DEF Fire, At
  <2>2. next_event.callback # Null
    BY <2>1 DEF Inv, TimerDiscipline
  <2>. QED
    BY <2>1, <2>2, CallbackCounted DEF idle
<1>17. CASE Schedule
  BY <1>17, <1>a, Fields DEF Schedule, At
<1>18. CASE Arm
  BY <1>18, <1>a, Fields DEF Arm, At, idle
<1>19. CASE UNCHANGED vars
  BY <1>19, <1>a DEF vars
<1>. QED
  BY <1>1, <1>2, <1>3, <1>4, <1>5, <1>6, <1>7, <1>8, <1>9, <1>10, <1>11,
     <1>12, <1>13, <1>14, <1>15, <1>16, <1>17, <1>18, <1>19
  DEF Next, Enqueue, Update

LEMMA OneEachIsAccounted == OneEach => Accounted
<1> SUFFICES ASSUME OneEach, NEW c \in Client
             PROVE  Cardinality(Places(c)) = IF status[c] = "accepted" THEN 1 ELSE 0
  BY DEF Accounted
<1>1. Counted(c, Places(c), status)
  BY DEF OneEach
<1>2. CASE status[c] = "accepted"
  <2>1. PICK i : Places(c) = {i}
    BY <1>1, <1>2 DEF Counted, One
  <2>. QED
    BY <1>2, <2>1, FS_Singleton
<1>3. CASE status[c] # "accepted"
  BY <1>1, <1>3, FS_EmptySet DEF Counted
<1>. QED
  BY <1>2, <1>3

LEMMA InitCounted == Init => OneEach
<1> SUFFICES ASSUME Init, NEW c \in Client PROVE Counted(c, Places(c), status)
  BY DEF OneEach
<1>1. Places(c) = {}
  <2>1. queue.size = 0 /\ loop.pc = "idle" /\ next_event.callback = Null /\ c # Null
    BY NullAssumption DEF Init, idle, null_event
  <2>. QED
    BY <2>1 DEF Places
<1>2. status[c] # "accepted"
  BY DEF Init
<1>. QED
  BY <1>1, <1>2 DEF Counted

(* The queue, next_event and the locals of the calls in progress stay in   *)
(* range: no index leaves the array, and the size never exceeds capacity.  *)
THEOREM TypeSafety == ASSUME Undisturbed PROVE Spec => []TypeOK
<1>1. Init => Inv /\ Typed
  BY InitInv, InitTyped
<1>2. Inv /\ Typed /\ [Next]_vars => (Inv /\ Typed)'
  BY StepInv, StepTyped
<1>3. Typed => TypeOK
  BY DEF Typed
<1>. QED
  BY <1>1, <1>2, <1>3, PTL DEF Spec

(* An accepted event is in exactly one place until its callback runs, for  *)
(* every number of clients, capacity, timer width and set of timeouts: in  *)
(* the queue, in next_event or in the call that enqueues it.               *)
THEOREM EventsAccounted == ASSUME Undisturbed PROVE Spec => []Accounted
<1>1. Init => Inv /\ Typed /\ OneEach
  BY InitInv, InitTyped, InitCounted
<1>2. Inv /\ Typed /\ OneEach /\ [Next]_vars => (Inv /\ Typed /\ OneEach)'
  BY StepInv, StepTyped, StepCounted
<1>. QED
  BY <1>1, <1>2, OneEachIsAccounted, PTL DEF Spec
-----------------------------------------------------------------------------
(* A callback does not run early.                                          *)

(* The ticks that Passed counts are never more than have passed: one less, *)
(* half a turn of the counter after the event was created, and a turn less *)
(* after each turn.                                                        *)
LEMMA PassedIsLess ==
  ASSUME NEW b \in Nat, NEW a \in 0..b, NEW e \in Event, e.created = (Start + a) % Wrap,
         NEW r, r = (Start + b) % Wrap
  PROVE  Passed(r, e) % Wrap \in Word /\ Passed(r, e) % Wrap <= b - a
<1> DEFINE w == (r - e.created) % Wrap
           half == Wrap \div 2
<1>1. /\ Wrap \in Nat \ {0} /\ half \in Nat /\ Wrap = 2 * half /\ half > 0
      /\ Start + a \in Nat /\ Start + b \in Nat
      /\ a \in Nat /\ a <= b /\ Start + a <= Start + b
      /\ (Start + b) - (Start + a) = b - a
  BY WrapAssumption, TimeAssumption, Z3
<1>2. r \in Word /\ e.created \in Word
  BY CounterParts, <1>1 DEF Event
<1>3. r \in 0..(Wrap - 1) /\ e.created \in 0..(Wrap - 1) /\ r \in Int /\ e.created \in Int
  BY <1>1, <1>2 DEF Word
<1>4. w \in Word /\ w = IF r >= e.created THEN r - e.created ELSE r - e.created + Wrap
  <2>1. CASE r >= e.created
    <3>1. r - e.created \in Word
      BY <1>1, <1>3, <2>1 DEF Word
    <3>. QED
      BY <2>1, <3>1, OneTurn
  <2>2. CASE r < e.created
    <3> DEFINE z == r - e.created + Wrap
    <3>1. z \in Word /\ r - e.created = z - Wrap
      BY <1>1, <1>3, <2>2 DEF Word
    <3> HIDE DEF z
    <3>2. w = z
      BY <3>1, OneTurn
    <3>. QED
      BY <1>3, <2>2, <3>1, <3>2 DEF z
  <2>. QED
    BY <1>3, <2>1, <2>2
<1>5. w <= b - a
  <2>1. (e.created + w) % Wrap = r
    <3>1. e.created + w \in {r, r + Wrap}
      BY <1>3, <1>4, <1>1
    <3>. QED
      BY <1>2, <3>1, OneTurn
  <2>. QED
    BY <1>1, <1>4, <2>1, MatchIsAfter
<1>6. w \in 0..(Wrap - 1)
  BY <1>4 DEF Word
<1> HIDE DEF w, half
<1>7. Signed(r - e.created) = IF w < half THEN w ELSE w - Wrap
  BY DEF Signed, w, half
<1>8. Signed(Wrap - 1 - e.created + r) =
        IF w = 0 THEN -1 ELSE IF w - 1 < half THEN w - 1 ELSE w - 1 - Wrap
  <2>1. (Wrap - 1 - e.created + r) % Wrap = IF w = 0 THEN Wrap - 1 ELSE w - 1
    <3>1. Wrap - 1 - e.created + r = IF r >= e.created THEN w - 1 + Wrap ELSE w - 1
      BY <1>1, <1>3, <1>4
    <3>2. w - 1 \in -1..(Wrap - 2) /\ (r < e.created => w # 0)
      BY <1>1, <1>3, <1>4, <1>6
    <3>3. CASE w = 0
      <4>1. Wrap - 1 \in Word /\ Wrap - 1 - e.created + r = Wrap - 1
        BY <1>1, <1>3, <3>1, <3>2, <3>3 DEF Word
      <4>. QED
        BY <3>3, <4>1, OneTurn
    <3>4. CASE w # 0
      <4>1. w - 1 \in Word
        BY <1>1, <1>6, <3>4 DEF Word
      <4>. QED
        BY <1>3, <3>1, <3>4, <4>1, OneTurn
    <3>. QED
      BY <3>3, <3>4
  <2>. QED
    BY <1>1, <1>6, <2>1 DEF Signed, half
<1>9. Passed(r, e) \in {w, w - Wrap, w - 1, w - 1 - Wrap} /\ (Passed(r, e) \in {w - 1, w - 1 - Wrap} => w # 0)
  BY <1>1, <1>6, <1>7, <1>8 DEF Passed
<1>10. Passed(r, e) % Wrap \in {w, w - 1} /\ (w = 0 => Passed(r, e) % Wrap = 0)
  <2>1. w % Wrap = w /\ (w - Wrap) % Wrap = w
    BY <1>4, OneTurn
  <2>2. w # 0 => w - 1 \in Word
    BY <1>1, <1>6 DEF Word
  <2>3. w # 0 => (w - 1) % Wrap = w - 1 /\ (w - 1 - Wrap) % Wrap = w - 1
    BY <2>2, OneTurn
  <2>. QED
    BY <1>6, <1>9, <2>1, <2>3
<1>. QED
  BY <1>1, <1>5, <1>6, <1>10 DEF Word

(* The event was created at a tick up to n, and is due after its timeout,  *)
(* in ticks; one turn of the counter is more than a timeout.               *)
Dated(e, n, d) ==
  e.callback # Null =>
    \E u \in 0..n : /\ e.created = (Start + u) % Wrap
                    /\ d[e.callback] = u + 2 * e.timeout_us
                    /\ 2 * e.timeout_us < Wrap

Short == \A timeout \in Timeout : 2 * timeout < Wrap

LEMMA DatedLater ==
  ASSUME NEW n \in Nat, NEW m \in Nat, n <= m, NEW e, NEW d, Dated(e, n, d)
  PROVE  Dated(e, m, d)
<1>1. 0..n \subseteq 0..m
  OBVIOUS
<1>. QED
  BY <1>1 DEF Dated

LEMMA DatedElsewhere ==
  ASSUME NEW d, NEW c \in Client, NEW x, NEW e \in Event, NEW n, Dated(e, n, d),
         e.callback # c, d \in [Client -> Nat]
  PROVE  Dated(e, n, [d EXCEPT ![c] = x])
<1>1. e.callback # Null => [d EXCEPT ![c] = x][e.callback] = d[e.callback]
  BY DEF Event
<1>. QED
  BY <1>1 DEF Dated

LEMMA NewIsDated ==
  ASSUME Short, TypeOK, NEW c \in Client, NEW timeout \in Timeout
  PROVE  Dated(NewEvent(c, timeout), t, [due EXCEPT ![c] = t + 2 * timeout])
<1>1. t \in 0..t /\ due \in [Client -> Nat]
  BY DEF TypeOK
<1>2. [due EXCEPT ![c] = t + 2 * timeout][c] = t + 2 * timeout
  BY <1>1
<1>. QED
  BY <1>1, <1>2 DEF NewEvent, Short, now, Dated

(* What release computes from a reading of the timer at tick b: the event  *)
(* is due when it finds it late, and the tick it schedules comes no sooner *)
(* than the event is due.                                                  *)
LEMMA LateIsDue ==
  ASSUME NEW b \in Nat, NEW e \in Event, e.callback # Null, NEW d, Dated(e, b, d),
         NEW r, r = (Start + b) % Wrap
  PROVE  /\ d[e.callback] \in Nat /\ Ticks(e) \in Word /\ Passed(r, e) % Wrap \in Word
         /\ Passed(r, e) % Wrap > Ticks(e) => b >= d[e.callback]
         /\ b + (Ticks(e) - (Passed(r, e) % Wrap)) >= d[e.callback]
<1>1. PICK a \in 0..b : /\ e.created = (Start + a) % Wrap
                        /\ d[e.callback] = a + 2 * e.timeout_us
                        /\ 2 * e.timeout_us < Wrap
  BY DEF Dated
<1>2. e.timeout_us \in Nat /\ 2 * e.timeout_us \in Word
  BY <1>1, WrapAssumption DEF Event, Word
<1>3. Ticks(e) = 2 * e.timeout_us
  BY <1>2, OneTurn DEF Ticks
<1>4. Passed(r, e) % Wrap \in Word /\ Passed(r, e) % Wrap <= b - a
  BY <1>1, PassedIsLess
<1> DEFINE p == Passed(r, e) % Wrap
           x == Ticks(e)
           y == d[e.callback]
<1> HIDE DEF p, x, y
<1>5. y = a + x /\ x \in Word /\ p \in Word /\ p <= b - a
  BY <1>1, <1>2, <1>3, <1>4 DEF p, x, y
<1>6. x \in Nat /\ p \in Nat /\ a \in Nat
  BY <1>5, WrapAssumption DEF Word
<1>7. y \in Nat /\ (p > x => b >= y) /\ b + (x - p) >= y
  BY <1>5, <1>6
<1>. QED
  BY <1>5, <1>7 DEF p, x, y

LEMMA TickAfterReading ==
  ASSUME NEW r \in Int, NEW x \in Int, NEW p \in Int
  PROVE  (r + x - p) % Wrap = (r + (x - (p % Wrap))) % Wrap
<1> DEFINE q == p \div Wrap
           s == p % Wrap
           i == r + (x - s)
<1>1. q \in Int /\ s \in Word /\ p = q * Wrap + s
  BY CounterParts
<1>2. s \in Int /\ q * Wrap \in Int
  BY <1>1, WrapAssumption DEF Word
<1> HIDE DEF q, s
<1>3. i \in Int /\ r + x - p = i - q * Wrap
  BY <1>1, <1>2
<1> HIDE DEF i
<1>4. (i - q * Wrap) % Wrap = i % Wrap
  BY <1>1, <1>3, WholeTurns
<1>. QED
  BY <1>3, <1>4 DEF i, s

(* Every event held is dated, the copies that a swap makes included.       *)
SlotsDated(q, n, d) == \A i \in 0..(q.size - 1) : Dated(q.events[i], n, d)

HeldDated == /\ SlotsDated(queue, t, due)
             /\ Dated(next_event, t, due)
             /\ loop.pc \in {"store", "size"} => Dated(loop.event, t, due)
             /\ loop.pc = "swap" => Dated(loop.swap, t, due)

(* Release goes on with a reading of the timer, and finds the event not    *)
(* late before it arms the timer.                                          *)
Read == loop.pc \in {"decide", "arm"} =>
          \E b \in 0..t : loop.now = (Start + b) % Wrap /\ Dated(next_event, b, due)

Tested == loop.pc = "arm" => passed % Wrap <= Ticks(next_event)

(* The compare value is less than a turn of the counter after a tick that  *)
(* has been: the counter meets it no sooner than the event is due.         *)
Armed ==
  timer.on =>
    /\ timer.flag => t >= due[next_event.callback]
    /\ \E b \in 0..t, k \in Word : /\ timer.compare = (((Start + b) % Wrap) + k) % Wrap
                                   /\ b + k >= due[next_event.callback]

DatesInv == HeldDated /\ Read /\ Tested /\ Armed

LEMMA InitDates == Init => DatesInv
<1> SUFFICES ASSUME Init PROVE DatesInv
  OBVIOUS
<1>1. queue.size = 0 /\ next_event.callback = Null /\ loop.pc = "idle" /\ ~timer.on
  BY DEF Init, idle, null_event
<1>2. 0..(queue.size - 1) = {}
  BY <1>1
<1>. QED
  BY <1>1, <1>2 DEF DatesInv, HeldDated, SlotsDated, Dated, Read, Tested, Armed

(* A client whose event is not accepted has none in the queue ...          *)
LEMMA NotHeld ==
  ASSUME OneEach, NEW c \in Client, status[c] # "accepted",
         loop.pc \notin {"store", "size", "swap"}
  PROVE  next_event.callback # c /\ \A i \in 0..(queue.size - 1) : queue.events[i].callback # c
<1>1. Places(c) = {}
  BY DEF OneEach, Counted
<1>2. SlotsOf(queue, c) = {} /\ Scheduled(next_event, c) = {}
  BY <1>1, PlacesAre
<1>. QED
  BY <1>2 DEF SlotsOf, Scheduled

(* ... nor has the client whose callback runs.                             *)
LEMMA NoLongerHeld ==
  ASSUME OneEach, NEW c \in Client, next_event.callback = c,
         loop.pc \notin {"store", "size", "swap"}
  PROVE  \A i \in 0..(queue.size - 1) : queue.events[i].callback # c
<1>1. Places(c) = SlotsOf(queue, c) \cup {-1}
  BY PlacesAre DEF Scheduled
<1>2. One(Places(c))
  BY <1>1 DEF OneEach, Counted
<1>3. SlotsOf(queue, c) = {}
  <2>1. PICK i : Places(c) = {i}
    BY <1>2 DEF One
  <2>. QED
    BY <1>1, <2>1, SlotsAreNat
<1>. QED
  BY <1>3 DEF SlotsOf

LEMMA AddedDated ==
  ASSUME NEW q, q.events \in [Index -> Event], q.size \in Index, NEW v, NEW x \in Event,
         NEW n, NEW d, SlotsDated(q, n, d), Dated(x, n, d)
  PROVE  SlotsDated(event_prioritify(q, v, x), n, d)
<1> DEFINE r == event_prioritify(q, v, x)
           S == 0..q.size
<1> HIDE DEF r
<1>1. r.size = q.size + 1 /\ \E m \in Bijection(S, S) : \A i \in S :
            r.events[i] = IF m[i] = q.size THEN x ELSE q.events[m[i]]
  BY PrioritifyRearranges DEF r
<1>2. PICK m \in Bijection(S, S) : \A i \in S :
            r.events[i] = IF m[i] = q.size THEN x ELSE q.events[m[i]]
  BY <1>1
<1>3. q.size \in Nat
  BY CapacityAssumption DEF Index
<1>4. 0..(r.size - 1) = S /\ \A j \in S : j = q.size \/ j \in 0..(q.size - 1)
  BY <1>1, <1>3
<1> HIDE DEF S
<1>5. ASSUME NEW i \in S PROVE Dated(r.events[i], n, d)
  <2>1. m[i] \in S
    BY <1>2, Fun_BijectionProperties
  <2>2. m[i] = q.size \/ m[i] \in 0..(q.size - 1)
    BY <1>4, <2>1
  <2>. QED
    BY <1>2, <2>2 DEF SlotsDated
<1>6. SlotsDated(r, n, d)
  BY <1>5, <1>4 DEF SlotsDated
<1>. QED
  BY <1>6 DEF r

LEMMA TakenDated ==
  ASSUME NEW q, q.events \in [Index -> Event], q.size \in 1..(Capacity + 1), NEW v,
         NEW n, NEW d, SlotsDated(q, n, d)
  PROVE  SlotsDated(Dequeued(q, v), n, d) /\ Dated(Closest(q), n, d)
<1> DEFINE r == Dequeued(q, v)
           S == 0..(q.size - 2)
           T == 1..(q.size - 1)
<1> HIDE DEF r
<1>1. r.size = q.size - 1 /\ \E m \in Bijection(S, T) : \A i \in S : r.events[i] = q.events[m[i]]
  BY DequeuedRearranges DEF r
<1>2. PICK m \in Bijection(S, T) : \A i \in S : r.events[i] = q.events[m[i]]
  BY <1>1
<1>3. q.size \in Nat /\ q.size >= 1
  BY CapacityAssumption
<1>4. ASSUME NEW i \in S PROVE Dated(r.events[i], n, d)
  <2>1. m[i] \in T
    BY <1>2, Fun_BijectionProperties
  <2>2. m[i] \in 0..(q.size - 1)
    BY <1>3, <2>1
  <2>. QED
    BY <1>2, <2>2 DEF SlotsDated
<1>5. 0..(r.size - 1) = S
  BY <1>1, <1>3
<1>6. SlotsDated(r, n, d)
  BY <1>4, <1>5 DEF SlotsDated
<1>7. Dated(q.events[0], n, d) /\ q.size # 0
  BY <1>3 DEF SlotsDated
<1>. QED
  BY <1>6, <1>7 DEF r, Closest

(* A callback may enqueue: no event held loses its date by that.           *)
LEMMA CallbackDated ==
  ASSUME Short, Typed, OneEach, HeldDated, event_callback, next_event.callback # Null,
         loop.pc \in {"store", "size", "swap"} => CallbackClient = {}
  PROVE  SlotsDated(queue', t, due') /\ (CallbackClient = {} => due' = due)
<1> DEFINE fired == [status EXCEPT ![next_event.callback] = "fired"]
<1>0. TypeOK /\ queue.size \in Index /\ queue.events \in [Index -> Event]
  BY Fields, CapacityAssumption DEF Typed, QueueInv, Index
<1>1. next_event.callback \in Client /\ status \in [Client -> {"new", "refused", "accepted", "fired"}]
  BY <1>0 DEF TypeOK, Event
<1>2. CASE UNCHANGED <<queue, due>>
  BY <1>2 DEF HeldDated
<1>3. ASSUME NEW c \in CallbackClient, NEW timeout \in Timeout \ {0},
             fired[c] # "accepted",
             queue' = event_prioritify(queue, now, NewEvent(c, timeout)),
             due' = [due EXCEPT ![c] = t + 2 * timeout]
      PROVE  SlotsDated(queue', t, due') /\ CallbackClient # {}
  <2>1. c \in Client /\ loop.pc \notin {"store", "size", "swap"}
    BY <1>3, ClientAssumption
  <2>2. \A i \in 0..(queue.size - 1) : queue.events[i].callback # c
    <3>1. CASE next_event.callback = c
      BY <2>1, <3>1, NoLongerHeld
    <3>2. CASE next_event.callback # c
      <4>1. status[c] # "accepted"
        BY <1>1, <1>3, <2>1, <3>2
      <4>. QED
        BY <2>1, <4>1, NotHeld
    <3>. QED
      BY <3>1, <3>2
  <2>3. Dated(NewEvent(c, timeout), t, due')
    BY <1>0, <1>3, <2>1, NewIsDated
  <2>4. NewEvent(c, timeout) \in Event
    BY <1>0, <2>1, NewEventIsEvent DEF TypeOK
  <2>5. SlotsDated(queue, t, due')
    <3> SUFFICES ASSUME NEW i \in 0..(queue.size - 1) PROVE Dated(queue.events[i], t, due')
      BY DEF SlotsDated
    <3>1. i \in Index
      BY <1>0, CapacityAssumption DEF Index
    <3>2. queue.events[i] \in Event /\ due \in [Client -> Nat] /\ Dated(queue.events[i], t, due)
      BY <1>0, <3>1 DEF TypeOK, HeldDated, SlotsDated
    <3>. QED
      BY <1>3, <2>1, <2>2, <3>2, DatedElsewhere
  <2>6. SlotsDated(event_prioritify(queue, now, NewEvent(c, timeout)), t, due')
    BY <1>0, <2>3, <2>4, <2>5, AddedDated
  <2>. QED
    BY <1>3, <2>6
<1>4. \/ UNCHANGED <<queue, due>>
      \/ \E c \in CallbackClient, timeout \in Timeout \ {0} :
              /\ fired[c] # "accepted"
              /\ queue' = event_prioritify(queue, now, NewEvent(c, timeout))
              /\ due' = [due EXCEPT ![c] = t + 2 * timeout]
  BY Zenon DEF event_callback, fired
<1>. QED
  BY <1>2, <1>3, <1>4

(* What release finds late is due, if the counter has not wrapped between  *)
(* its two readings of the timer.                                          *)
LEMMA ReleaseReads ==
  ASSUME Typed, Inv, DatesInv, loop.pc \in {"decide", "arm"}
  PROVE  /\ next_event.callback # Null
         /\ \E b \in 0..t :
              /\ loop.now = (Start + b) % Wrap
              /\ passed % Wrap > Ticks(next_event) => b >= due[next_event.callback]
              /\ passed % Wrap <= Ticks(next_event) =>
                   \E k \in Word : /\ scheduled_tick = (loop.now + k) % Wrap
                                   /\ b + k >= due[next_event.callback]
<1>1. next_event.callback # Null
  BY DEF Inv, TimerDiscipline
<1>2. PICK b \in 0..t : loop.now = (Start + b) % Wrap /\ Dated(next_event, b, due)
  BY DEF DatesInv, Read
<1>3. t \in Nat /\ next_event \in Event /\ loop.now \in Word /\ loop.now \in Int
  BY Fields, WrapAssumption DEF Typed, TypeOK, Word
<1>4. b \in Nat /\ b <= t
  BY <1>2, <1>3
<1> DEFINE x == Ticks(next_event)
           p == passed % Wrap
           y == due[next_event.callback]
<1>5. y \in Nat /\ x \in Word /\ p \in Word /\ (p > x => b >= y) /\ b + (x - p) >= y
  BY <1>1, <1>2, <1>3, <1>4, LateIsDue DEF passed
<1>6. scheduled_tick = (loop.now + (x - p)) % Wrap
  <2>1. passed \in Int
    <3>1. next_event.created \in Int /\ Wrap \in Int
      BY <1>3, WrapAssumption DEF Event, Word
    <3>2. loop.now - next_event.created \in Int /\ Wrap - 1 - next_event.created + loop.now \in Int
      BY <1>3, <3>1
    <3>3. Signed(loop.now - next_event.created) \in Int
          /\ Signed(Wrap - 1 - next_event.created + loop.now) \in Int
      BY <3>2, SignedIsInt
    <3>. QED
      BY <3>3, Zenon DEF passed, Passed
  <2>2. x \in Int
    BY <1>5, WrapAssumption DEF Word
  <2>. QED
    BY <1>3, <2>1, <2>2, TickAfterReading DEF scheduled_tick
<1> HIDE DEF x, p, y
<1>7. p <= x => x - p \in Word
  BY <1>5, WrapAssumption DEF Word
<1>8. (p > x => b >= y) /\ (p <= x => \E k \in Word : scheduled_tick = (loop.now + k) % Wrap /\ b + k >= y)
  BY <1>5, <1>6, <1>7
<1>. QED
  BY <1>1, <1>2, <1>8 DEF x, p, y

LEMMA FireIsDue ==
  ASSUME Typed, Inv, DatesInv, loop.pc = "decide", late, now >= loop.now
  PROVE  t >= due[next_event.callback]
<1>1. PICK b \in 0..t :
              /\ loop.now = (Start + b) % Wrap
              /\ passed % Wrap > Ticks(next_event) => b >= due[next_event.callback]
              /\ passed % Wrap <= Ticks(next_event) =>
                   \E k \in Word : /\ scheduled_tick = (loop.now + k) % Wrap
                                   /\ b + k >= due[next_event.callback]
  BY ReleaseReads
<1>2. t \in Nat /\ b \in Nat /\ b <= t /\ due[next_event.callback] \in Nat
  <2>1. next_event.callback \in Client /\ due \in [Client -> Nat] /\ t \in Nat
    BY ReleaseReads DEF Typed, TypeOK, Event
  <2>. QED
    BY <2>1
<1>3. loop.now \in Word /\ now \in Word
  BY <1>2, Fields, NowIsWord DEF Typed
<1>w. Wrap \in Nat \ {0} /\ loop.now \in Int /\ 0 <= loop.now /\ loop.now < Wrap
      /\ now \in Int /\ 0 <= now /\ now < Wrap
  BY <1>3, WrapAssumption DEF Word
<1>6. passed % Wrap \in Int /\ Ticks(next_event) \in Int
  <2>1. next_event \in Event /\ next_event.callback # Null
    BY ReleaseReads DEF Typed, TypeOK
  <2>2. PICK u \in 0..t : loop.now = (Start + u) % Wrap /\ Dated(next_event, u, due)
    BY DEF DatesInv, Read
  <2>3. Ticks(next_event) \in Word /\ Passed(loop.now, next_event) % Wrap \in Word
    BY <1>2, <2>1, <2>2, LateIsDue
  <2>. QED
    BY <2>3, WrapAssumption DEF Word, passed
<1>4. CASE passed % Wrap > Ticks(next_event)
  BY <1>1, <1>2, <1>4
<1>5. CASE passed % Wrap <= Ticks(next_event)
  <2>1. PICK k \in Word : scheduled_tick = (loop.now + k) % Wrap /\ b + k >= due[next_event.callback]
    BY <1>1, <1>5
  <2>2. k \in Int /\ 0 <= k /\ k < Wrap
    BY <1>w DEF Word
  <2>3. scheduled_tick = IF loop.now + k < Wrap THEN loop.now + k ELSE loop.now + k - Wrap
    <3>1. CASE loop.now + k < Wrap
      <4>1. loop.now + k \in Word
        BY <1>w, <2>2, <3>1 DEF Word
      <4>. QED
        BY <2>1, <3>1, <4>1, OneTurn
    <3>2. CASE loop.now + k >= Wrap
      <4> DEFINE z == loop.now + k - Wrap
      <4>1. z \in Word /\ loop.now + k = z + Wrap
        BY <1>w, <2>2, <3>2 DEF Word
      <4> HIDE DEF z
      <4>2. scheduled_tick = z
        BY <2>1, <4>1, OneTurn
      <4>. QED
        BY <1>w, <2>2, <3>2, <4>2 DEF z
    <3>. QED
      BY <1>w, <2>2, <3>1, <3>2
  <2>4. scheduled_tick > loop.now /\ now > scheduled_tick
    BY <1>5, <1>w, <2>2, <2>3, <1>6 DEF late
  <2>5. scheduled_tick = loop.now + k /\ now > loop.now + k
    BY <1>w, <2>2, <2>3, <2>4
  <2>6. now - loop.now \in Word /\ loop.now + (now - loop.now) = now
    BY <1>w, <2>2, <2>5 DEF Word
  <2>7. (Start + t) % Wrap = (((Start + b) % Wrap) + (now - loop.now)) % Wrap
    BY <1>1, <1>3, <2>6, OneTurn DEF now
  <2>8. now - loop.now <= (Start + t) - (Start + b)
    BY <1>2, <2>6, <2>7, MatchIsAfter, TimeAssumption
  <2>. QED
    BY <1>2, <1>w, <2>1, <2>2, <2>5, <2>8, TimeAssumption
<1>. QED
  BY <1>4, <1>5, <1>6

LEMMA TickDates == Inv /\ Typed /\ DatesInv /\ Tick => DatesInv'
<1> SUFFICES ASSUME Inv, Typed, DatesInv, Tick PROVE DatesInv'
  OBVIOUS
<1>1. /\ t \in Nat /\ t' = t + 1 /\ t' \in Nat /\ t <= t' /\ 0..t \subseteq 0..t'
      /\ UNCHANGED <<stage, queue, next_event, loop, due, status>>
  BY DEF Tick, Typed, TypeOK
<1>2. HeldDated'
  <2>1. ASSUME NEW e, Dated(e, t, due) PROVE Dated(e, t', due)
    BY <1>1, <2>1, DatedLater
  <2>. QED
    BY <1>1, <2>1 DEF DatesInv, HeldDated, SlotsDated
<1>3. Read' /\ Tested'
  BY <1>1 DEF DatesInv, Read, Tested, passed
<1>4. Armed'
  <2>1. timer' = [timer EXCEPT !.flag = @ \/ (timer.on /\ now' = timer.compare)]
    BY DEF Tick
  <2>2. /\ timer'.on = timer.on /\ timer'.compare = timer.compare
        /\ timer'.flag <=> timer.flag \/ (timer.on /\ now' = timer.compare)
    BY <2>1, Fields, Zenon DEF Typed
  <2> SUFFICES ASSUME timer.on
               PROVE  /\ timer'.flag => t' >= due[next_event.callback]
                      /\ \E b \in 0..t', k \in Word :
                            /\ timer.compare = (((Start + b) % Wrap) + k) % Wrap
                            /\ b + k >= due[next_event.callback]
    BY <1>1, <2>2 DEF Armed
  <2>3. PICK b \in 0..t, k \in Word :
               /\ timer.compare = (((Start + b) % Wrap) + k) % Wrap
               /\ b + k >= due[next_event.callback]
    BY DEF DatesInv, Armed
  <2>4. timer.flag => t >= due[next_event.callback]
    BY DEF DatesInv, Armed
  <2>5. due[next_event.callback] \in Nat
    <3>1. next_event.callback \in Client
      BY DEF Inv, TimerDiscipline, Typed, TypeOK, Event
    <3>. QED
      BY <3>1 DEF Typed, TypeOK
  <2>6. b \in Nat /\ k \in Int /\ b <= t /\ Start \in Nat
    BY <1>1, TimeAssumption, WrapAssumption DEF Word
  <2>7. CASE now' = timer.compare
    <3>1. (Start + t') % Wrap = (((Start + b) % Wrap) + k) % Wrap
      BY <2>3, <2>7 DEF now
    <3>2. Start + b \in Nat /\ Start + t' \in Nat /\ Start + b <= Start + t'
      BY <1>1, <2>6
    <3>3. k <= (Start + t') - (Start + b)
      BY <3>1, <3>2, MatchIsAfter
    <3>4. t' >= due[next_event.callback]
      BY <1>1, <2>3, <2>5, <2>6, <3>3
    <3>. QED
      BY <1>1, <2>3, <3>4
  <2>8. CASE ~(now' = timer.compare)
    <3>1. timer'.flag => t' >= due[next_event.callback]
      BY <1>1, <2>2, <2>4, <2>5, <2>8
    <3>. QED
      BY <1>1, <2>3, <3>1
  <2>. QED
    BY <2>7, <2>8
<1>. QED
  BY <1>2, <1>3, <1>4 DEF DatesInv

(* What a step keeps that takes no time, changes no date and no event.     *)
LEMMA SameDates ==
  ASSUME DatesInv, UNCHANGED <<t, timer, queue, next_event, due>>,
         loop'.pc \in {"idle", "update", "back", "sort"}
  PROVE  DatesInv'
<1>1. HeldDated' /\ Armed'
  BY DEF DatesInv, HeldDated, SlotsDated, Armed
<1>2. Read' /\ Tested'
  BY DEF Read, Tested
<1>. QED
  BY <1>1, <1>2 DEF DatesInv

LEMMA EnqueueDates ==
  ASSUME Short
  PROVE  Inv /\ Typed /\ OneEach /\ DatesInv /\ Enqueue => DatesInv'
<1> SUFFICES ASSUME Inv, Typed, OneEach, DatesInv, Enqueue PROVE DatesInv'
  OBVIOUS
<1>0. TypeOK /\ QueueInv
  BY DEF Typed
<1> USE <1>0
<1>1. ASSUME NEW c \in LoopClient, Refuse(c) PROVE DatesInv'
  <2>1. loop.pc = "idle" /\ UNCHANGED <<t, timer, stage, queue, next_event, loop, due>>
    BY <1>1 DEF Refuse, At
  <2>. QED
    BY <2>1, SameDates
<1>2. ASSUME NEW c \in LoopClient, NEW timeout \in Timeout, Accept(c, timeout)
      PROVE  DatesInv'
  <2>1. /\ loop.pc = "idle" /\ status[c] # "accepted" /\ c \in Client
        /\ loop' = [loop EXCEPT !.pc = "store", !.event = NewEvent(c, timeout),
                                !.now = now, !.index = queue.size]
        /\ due' = [due EXCEPT ![c] = t + 2 * timeout]
        /\ UNCHANGED <<t, timer, stage, queue, next_event>>
    BY <1>2, ClientAssumption DEF Accept, At
  <2>2. loop'.pc = "store" /\ loop'.event = NewEvent(c, timeout)
    BY <2>1, Fields
  <2>3. next_event.callback # c /\ \A i \in 0..(queue.size - 1) : queue.events[i].callback # c
    BY <2>1, NotHeld
  <2>4. due \in [Client -> Nat] /\ next_event \in Event
    BY DEF TypeOK
  <2>5. SlotsDated(queue, t, due')
    <3> SUFFICES ASSUME NEW i \in 0..(queue.size - 1) PROVE Dated(queue.events[i], t, due')
      BY DEF SlotsDated
    <3>1. queue.events[i] \in Event
      BY Fields, CapacityAssumption DEF Index
    <3>2. Dated(queue.events[i], t, due)
      BY DEF DatesInv, HeldDated, SlotsDated
    <3>. QED
      BY <2>1, <2>3, <2>4, <3>1, <3>2, DatedElsewhere
  <2>6. Dated(next_event, t, due')
    BY <2>1, <2>3, <2>4, DatedElsewhere DEF DatesInv, HeldDated
  <2>7. Dated(NewEvent(c, timeout), t, due')
    BY <2>1, NewIsDated
  <2>8. HeldDated'
    BY <2>1, <2>2, <2>5, <2>6, <2>7 DEF HeldDated
  <2>9. Read' /\ Tested'
    BY <2>2 DEF Read, Tested
  <2>10. Armed'
    <3>1. due'[next_event.callback] = due[next_event.callback]
      BY <2>1, <2>3, <2>4
    <3>. QED
      BY <2>1, <3>1 DEF DatesInv, Armed
  <2>. QED
    BY <2>8, <2>9, <2>10 DEF DatesInv
<1>3. CASE Store
  <2>1. /\ loop.pc = "store" /\ loop.index = queue.size
        /\ queue' = [queue EXCEPT !.events[loop.index] = loop.event]
        /\ loop' = [loop EXCEPT !.pc = "size"]
        /\ UNCHANGED <<t, timer, stage, next_event, due, status>>
    BY <1>3 DEF Store, At, QueueInv
  <2>2. loop'.pc = "size" /\ loop'.event = loop.event
    BY <2>1, Fields
  <2>3. /\ queue'.size = queue.size
        /\ \A i \in 0..(queue.size - 1) : queue'.events[i] = queue.events[i]
    BY <2>1, Fields DEF Index
  <2>4. HeldDated'
    BY <2>1, <2>2, <2>3 DEF DatesInv, HeldDated, SlotsDated
  <2>5. Read' /\ Tested' /\ Armed'
    BY <2>1, <2>2 DEF DatesInv, Read, Tested, Armed
  <2>. QED
    BY <2>4, <2>5 DEF DatesInv
<1>4. CASE IncrementSize
  <2>1. /\ loop.pc = "size" /\ loop.index = queue.size /\ queue.events[queue.size] = loop.event
        /\ loop' = [loop EXCEPT !.pc = "sort"]
        /\ UNCHANGED <<t, timer, stage, next_event, due, status>>
    BY <1>4 DEF IncrementSize, At, QueueInv
  <2>2. queue' = [queue EXCEPT !.size = queue.size + 1]
    BY <1>4, <2>1 DEF IncrementSize
  <2>3. queue'.size = queue.size + 1 /\ queue'.events = queue.events /\ loop'.pc = "sort"
    BY <2>1, <2>2, Fields
  <2>4. \A i \in 0..(queue'.size - 1) : i \in 0..(queue.size - 1) \/ i = queue.size
    BY <2>3, Fields
  <2>5. HeldDated'
    BY <2>1, <2>3, <2>4 DEF DatesInv, HeldDated, SlotsDated
  <2>6. Read' /\ Tested' /\ Armed'
    BY <2>1, <2>3 DEF DatesInv, Read, Tested, Armed
  <2>. QED
    BY <2>5, <2>6 DEF DatesInv
<1>5. CASE SortUp
  <2>1. loop.pc = "sort" /\ UNCHANGED <<t, timer, stage, next_event, due, status>>
    BY <1>5 DEF SortUp, At
  <2>2. CASE loop' = idle /\ UNCHANGED queue
    BY <2>1, <2>2, SameDates DEF idle
  <2>3. CASE /\ loop.index > 0
             /\ loop' = [loop EXCEPT !.pc = "swap", !.swap = queue.events[loop.index]]
             /\ queue' = [queue EXCEPT !.events[loop.index] = queue.events[PARENT(loop.index)]]
    <3>1. loop.index \in Nat /\ loop.index < queue.size /\ loop.index \in Index /\ queue.size \in Nat
      BY <2>1, Fields, CapacityAssumption DEF QueueInv, Index
    <3>2. PARENT(loop.index) \in Nat /\ PARENT(loop.index) < loop.index
      BY <2>3, <3>1, Halves
    <3>3. loop.index \in 0..(queue.size - 1) /\ PARENT(loop.index) \in 0..(queue.size - 1)
      BY <3>1, <3>2
    <3>4. Dated(queue.events[loop.index], t, due) /\ Dated(queue.events[PARENT(loop.index)], t, due)
      BY <3>3 DEF DatesInv, HeldDated, SlotsDated
    <3>5. /\ queue'.size = queue.size
          /\ \A i \in 0..(queue.size - 1) :
               queue'.events[i] = IF i = loop.index THEN queue.events[PARENT(loop.index)]
                                  ELSE queue.events[i]
      <4>1. 0..(queue.size - 1) \subseteq Index
        BY Fields, CapacityAssumption DEF QueueInv, Index
      <4>2. queue'.size = queue.size
        BY <2>3, Fields
      <4>3. queue'.events = [queue.events EXCEPT ![loop.index] = queue.events[PARENT(loop.index)]]
        BY <2>3, Fields
      <4>. QED
        BY <4>1, <4>2, <4>3, Fields
    <3>6. loop'.pc = "swap" /\ loop'.swap = queue.events[loop.index]
      BY <2>3, Fields
    <3>7. SlotsDated(queue', t, due)
      BY <3>4, <3>5 DEF DatesInv, HeldDated, SlotsDated
    <3>8. HeldDated'
      BY <2>1, <3>4, <3>6, <3>7 DEF DatesInv, HeldDated
    <3>9. Read' /\ Tested' /\ Armed'
      BY <2>1, <3>6 DEF DatesInv, Read, Tested, Armed
    <3>. QED
      BY <3>8, <3>9 DEF DatesInv
  <2>. QED
    BY <1>5, <2>2, <2>3, Zenon DEF SortUp
<1>6. CASE SwapUp
  <2>1. /\ loop.pc = "swap" /\ loop.index < queue.size /\ loop.index > 0
        /\ queue' = [queue EXCEPT !.events[PARENT(loop.index)] = loop.swap]
        /\ loop' = [loop EXCEPT !.pc = "sort", !.index = PARENT(loop.index),
                                !.swap = null_event]
        /\ UNCHANGED <<t, timer, stage, next_event, due, status>>
    BY <1>6, Fields, CapacityAssumption DEF SwapUp, At, QueueInv, Index
  <2>2. loop'.pc = "sort"
    BY <2>1, Fields
  <2>3. /\ queue'.size = queue.size
        /\ \A i \in 0..(queue.size - 1) : queue'.events[i] \in {queue.events[i], loop.swap}
    BY <2>1, Fields DEF Index
  <2>4. SlotsDated(queue', t, due)
    BY <2>1, <2>3 DEF DatesInv, HeldDated, SlotsDated
  <2>5. HeldDated'
    BY <2>1, <2>2, <2>4 DEF DatesInv, HeldDated
  <2>6. Read' /\ Tested' /\ Armed'
    BY <2>1, <2>2 DEF DatesInv, Read, Tested, Armed
  <2>. QED
    BY <2>5, <2>6 DEF DatesInv
<1>. QED
  BY <1>1, <1>2, <1>3, <1>4, <1>5, <1>6 DEF Enqueue

LEMMA InterruptDates ==
  ASSUME Undisturbed, Short
  PROVE  Inv /\ Typed /\ OneEach /\ DatesInv /\ Interrupt => DatesInv'
<1> SUFFICES ASSUME Inv, Typed, OneEach, DatesInv, Interrupt PROVE DatesInv'
  OBVIOUS
<1>1. /\ timer.on /\ next_event.callback # Null /\ ~(Masked /\ enqueuing)
      /\ event_callback /\ UNCHANGED <<t, stage, loop>>
  BY DEF Interrupt, interrupted
<1>2. loop.pc \notin {"decide", "arm"}
  BY <1>1 DEF Inv, TimerDiscipline
<1>3. loop.pc \in {"store", "size", "swap"} => CallbackClient = {}
  BY <1>1 DEF Undisturbed, enqueuing
<1>4. SlotsDated(queue', t, due') /\ (CallbackClient = {} => due' = due)
  BY <1>1, <1>3, CallbackDated DEF DatesInv
<1>5. next_event'.callback = Null /\ ~timer'.on
  <2>1. next_event' = null_event /\ timer' = [timer EXCEPT !.on = FALSE, !.flag = FALSE]
    BY <1>1 DEF event_callback, timer_off
  <2>. QED
    BY <2>1, Fields DEF null_event, Typed
<1>6. HeldDated'
  <2>1. Dated(next_event, t, due)'
    BY <1>5 DEF Dated
  <2>. QED
    BY <1>1, <1>3, <1>4, <2>1 DEF DatesInv, HeldDated
<1>7. Read' /\ Tested' /\ Armed'
  BY <1>1, <1>2, <1>5 DEF Read, Tested, Armed
<1>. QED
  BY <1>6, <1>7 DEF DatesInv

LEMMA UpdateDates ==
  ASSUME Short
  PROVE  Inv /\ Typed /\ OneEach /\ DatesInv /\ Update => DatesInv'
<1> SUFFICES ASSUME Inv, Typed, OneEach, DatesInv, Update PROVE DatesInv'
  OBVIOUS
<1>0. TypeOK /\ QueueInv
  BY DEF Typed
<1> USE <1>0
<1>i. idle.pc = "idle"
  BY DEF idle
<1>1. CASE Mount
  <2>1. /\ loop.pc = "idle" /\ loop' = loop /\ ~timer.on /\ next_event'.callback = Null
        /\ UNCHANGED <<t, timer, queue, due>>
    BY <1>1 DEF Mount, At, Inv, StageInv, null_event
  <2>2. HeldDated'
    BY <2>1 DEF DatesInv, HeldDated, SlotsDated, Dated
  <2>3. Read' /\ Tested' /\ Armed'
    BY <2>1 DEF Read, Tested, Armed
  <2>. QED
    BY <2>2, <2>3 DEF DatesInv
<1>2. CASE Prepare
  <2>1. loop' = [loop EXCEPT !.pc = "update"] /\ UNCHANGED <<t, timer, queue, next_event, due>>
    BY <1>2 DEF Prepare
  <2>2. loop'.pc = "update"
    BY <2>1, Fields
  <2>. QED
    BY <2>1, <2>2, SameDates
<1>3. CASE Decline
  BY <1>3, SameDates DEF Decline, vars, At
<1>4. CASE Dequeue
  <2>1. /\ next_event.callback = Null /\ loop' = idle /\ next_event' = Closest(queue)
        /\ queue' = IF queue.size = 0 THEN queue ELSE Dequeued(queue, now)
        /\ UNCHANGED <<t, timer, stage, due, status>>
    BY <1>4 DEF Dequeue
  <2>2. SlotsDated(queue', t, due) /\ Dated(next_event', t, due)
    <3>1. CASE queue.size = 0
      BY <2>1, <3>1 DEF DatesInv, HeldDated, Closest, Dated, null_event
    <3>2. CASE queue.size # 0
      <4>1. queue.size \in 1..(Capacity + 1)
        BY <3>2, Fields, CapacityAssumption
      <4>2. SlotsDated(Dequeued(queue, now), t, due) /\ Dated(Closest(queue), t, due)
        BY <4>1, Fields, TakenDated DEF DatesInv, HeldDated
      <4>. QED
        BY <2>1, <3>2, <4>2
    <3>. QED
      BY <3>1, <3>2
  <2>3. HeldDated'
    BY <1>i, <2>1, <2>2 DEF HeldDated
  <2>4. Read' /\ Tested' /\ Armed'
    BY <1>i, <2>1 DEF Read, Tested, Armed, Inv, TimerDiscipline
  <2>. QED
    BY <2>3, <2>4 DEF DatesInv
<1>5. CASE SeeScheduled
  <2>1. loop' = [loop EXCEPT !.pc = "back"] /\ UNCHANGED <<t, timer, queue, next_event, due>>
    BY <1>5 DEF SeeScheduled
  <2>2. loop'.pc = "back"
    BY <2>1, Fields
  <2>. QED
    BY <2>1, <2>2, SameDates
<1>6. CASE BackToQueue
  <2> DEFINE q == event_prioritify(queue, now, next_event)
  <2>1. timer_off /\ next_event' = Closest(q) /\ queue' = Dequeued(q, now)
        /\ loop' = idle /\ UNCHANGED <<t, stage, due, status>>
    BY <1>6 DEF BackToQueue
  <2> HIDE DEF q
  <2>2. queue.size \in Index /\ next_event \in Event
    BY Fields, CapacityAssumption DEF Index, TypeOK, QueueInv
  <2>3. q.size = queue.size + 1 /\ q.events \in [Index -> Event]
    BY <2>2, Fields, PrioritifyRearranges DEF q
  <2>4. q.size \in 1..(Capacity + 1)
    BY <2>2, <2>3, CapacityAssumption DEF Index
  <2>5. SlotsDated(q, t, due)
    BY <2>2, Fields, AddedDated DEF q, DatesInv, HeldDated
  <2>6. SlotsDated(queue', t, due) /\ Dated(next_event', t, due)
    BY <2>1, <2>3, <2>4, <2>5, TakenDated
  <2>7. ~timer'.on
    BY <2>1, Fields DEF timer_off
  <2>8. HeldDated'
    BY <1>i, <2>1, <2>6 DEF HeldDated
  <2>9. Read' /\ Tested' /\ Armed'
    BY <1>i, <2>1, <2>7 DEF Read, Tested, Armed
  <2>. QED
    BY <2>8, <2>9 DEF DatesInv
<1>7. CASE Release
  <2>1. /\ loop.pc = "idle" /\ UNCHANGED <<t, timer, queue, next_event, due, status>>
        /\ loop' = IF next_event.callback = Null THEN loop
                   ELSE [loop EXCEPT !.pc = "decide", !.now = now]
    BY <1>7 DEF Release, At
  <2>2. CASE next_event.callback = Null
    BY <2>1, <2>2, SameDates
  <2>3. CASE next_event.callback # Null
    <3>1. loop'.pc = "decide" /\ loop'.now = now
      BY <2>1, <2>3, Fields
    <3>2. HeldDated' /\ Tested' /\ Armed'
      BY <2>1, <3>1 DEF DatesInv, HeldDated, SlotsDated, Tested, Armed
    <3>3. t \in 0..t /\ now = (Start + t) % Wrap /\ Dated(next_event, t, due)
      BY DEF TypeOK, now, DatesInv, HeldDated
    <3>4. Read'
      BY <2>1, <3>1, <3>3 DEF Read
    <3>. QED
      BY <3>2, <3>4 DEF DatesInv
  <2>. QED
    BY <2>2, <2>3
<1>8. CASE Fire
  <2>1. loop.pc = "decide" /\ event_callback /\ loop' = idle /\ UNCHANGED <<t, stage>>
    BY <1>8 DEF Fire, At
  <2>2. next_event.callback # Null
    BY <2>1 DEF Inv, TimerDiscipline
  <2>3. SlotsDated(queue', t, due')
    BY <2>1, <2>2, CallbackDated DEF DatesInv
  <2>4. next_event'.callback = Null /\ ~timer'.on
    BY <2>1, Fields DEF event_callback, timer_off, null_event
  <2>5. HeldDated'
    BY <1>i, <2>1, <2>3, <2>4 DEF HeldDated, Dated
  <2>6. Read' /\ Tested' /\ Armed'
    BY <1>i, <2>1, <2>4 DEF Read, Tested, Armed
  <2>. QED
    BY <2>5, <2>6 DEF DatesInv
<1>9. CASE Schedule
  <2>1. /\ loop.pc = "decide" /\ ~late /\ loop' = [loop EXCEPT !.pc = "arm"]
        /\ UNCHANGED <<t, timer, stage, queue, next_event, due, status>>
    BY <1>9 DEF Schedule, At
  <2>2. loop'.pc = "arm" /\ loop'.now = loop.now
    BY <2>1, Fields
  <2>3. HeldDated' /\ Read' /\ Armed'
    BY <2>1, <2>2 DEF DatesInv, HeldDated, SlotsDated, Read, Armed
  <2>4. Tested'
    <3>1. ~(passed % Wrap > Ticks(next_event))
      BY <2>1 DEF late
    <3>2. passed % Wrap \in Int /\ Ticks(next_event) \in Int
      <4>1. PICK u \in 0..t : loop.now = (Start + u) % Wrap /\ Dated(next_event, u, due)
        BY <2>1 DEF DatesInv, Read
      <4>2. Ticks(next_event) \in Word /\ Passed(loop.now, next_event) % Wrap \in Word
        <5>1. u \in Nat /\ next_event \in Event /\ next_event.callback # Null
          BY <2>1 DEF TypeOK, Inv, TimerDiscipline
        <5>. QED
          BY <4>1, <5>1, LateIsDue
      <4>. QED
        BY <4>2, WrapAssumption DEF Word, passed
    <3>. QED
      BY <2>1, <2>2, <3>1, <3>2 DEF Tested, passed
  <2>. QED
    BY <2>3, <2>4 DEF DatesInv
<1>10. CASE Arm
  <2>1. loop.pc = "arm" /\ timer_set(scheduled_tick) /\ loop' = idle
        /\ UNCHANGED <<t, stage, queue, next_event, due, status>>
    BY <1>10 DEF Arm, At
  <2>2. PICK b \in 0..t :
              /\ loop.now = (Start + b) % Wrap
              /\ passed % Wrap <= Ticks(next_event) =>
                   \E k \in Word : /\ scheduled_tick = (loop.now + k) % Wrap
                                   /\ b + k >= due[next_event.callback]
    BY <2>1, ReleaseReads
  <2>3. PICK k \in Word : /\ scheduled_tick = (((Start + b) % Wrap) + k) % Wrap
                          /\ b + k >= due[next_event.callback]
    BY <2>1, <2>2 DEF DatesInv, Tested
  <2>4. PICK flag \in IF scheduled_tick = now THEN BOOLEAN ELSE {FALSE} :
               timer' = [on |-> TRUE, compare |-> scheduled_tick, flag |-> flag]
    BY <2>1, Zenon DEF timer_set
  <2>5. timer'.compare = scheduled_tick /\ (timer'.flag => scheduled_tick = now)
    BY <2>4
  <2>6. timer'.flag => t >= due[next_event.callback]
    <3> SUFFICES ASSUME timer'.flag PROVE t >= due[next_event.callback]
      OBVIOUS
    <3>1. due[next_event.callback] \in Nat
      BY <2>1 DEF Inv, TimerDiscipline, TypeOK, Event
    <3>2. t \in Nat /\ b \in Nat /\ b <= t /\ k \in Int /\ Start \in Nat
      BY TimeAssumption, WrapAssumption DEF TypeOK, Word
    <3>3. Start + b \in Nat /\ Start + t \in Nat /\ Start + b <= Start + t
      BY <3>2
    <3>4. (Start + t) % Wrap = (((Start + b) % Wrap) + k) % Wrap
      BY <2>3, <2>5 DEF now
    <3>5. k <= (Start + t) - (Start + b)
      BY <3>3, <3>4, MatchIsAfter
    <3>. QED
      BY <2>3, <3>1, <3>2, <3>5
  <2>7. Armed'
    BY <2>1, <2>3, <2>5, <2>6 DEF Armed
  <2>8. HeldDated' /\ Read' /\ Tested'
    BY <1>i, <2>1 DEF DatesInv, HeldDated, SlotsDated, Read, Tested
  <2>. QED
    BY <2>7, <2>8 DEF DatesInv
<1>. QED
  BY <1>1, <1>2, <1>3, <1>4, <1>5, <1>6, <1>7, <1>8, <1>9, <1>10 DEF Update

LEMMA StepDates ==
  ASSUME Undisturbed, Short
  PROVE  Inv /\ Typed /\ OneEach /\ DatesInv /\ [Next]_vars => DatesInv'
<1>1. Inv /\ Typed /\ OneEach /\ DatesInv /\ UNCHANGED vars => DatesInv'
  BY DEF vars, DatesInv, HeldDated, SlotsDated, Read, Tested, passed, Armed
<1>. QED
  BY <1>1, TickDates, InterruptDates, EnqueueDates, UpdateDates DEF Next

(* No callback runs before the timeout of its event has passed, by the     *)
(* interrupt or from release, however long the event has waited and        *)
(* however often the counter has wrapped in the meantime: unless it wraps  *)
(* between the two readings of release.  Twice a timeout has to fit the    *)
(* counter, and a call of Scheduler_enqueue is not disturbed.              *)
THEOREM CallbacksNotEarly == ASSUME Undisturbed, Short PROVE Spec => NeverEarlyUnlessWrapped
<1> DEFINE All == Inv /\ Typed /\ OneEach /\ DatesInv
<1>1. Init => All
  BY InitInv, InitTyped, InitCounted, InitDates
<1>2. All /\ [Next]_vars => All'
  BY StepInv, StepTyped, StepCounted, StepDates
<1>3. All /\ [Next]_vars => [Interrupt \/ (Fire /\ now >= loop.now) => t >= due[next_event.callback]]_vars
  <2> SUFFICES ASSUME All, [Next]_vars, Interrupt \/ (Fire /\ now >= loop.now)
               PROVE  t >= due[next_event.callback]
    OBVIOUS
  <2>1. CASE Interrupt
    BY <2>1 DEF Interrupt, interrupted, DatesInv, Armed
  <2>2. CASE Fire /\ now >= loop.now
    BY <2>2, FireIsDue DEF Fire, At
  <2>. QED
    BY <2>1, <2>2
<1>. QED
  BY <1>1, <1>2, <1>3, PTL DEF Spec, NeverEarlyUnlessWrapped
=============================================================================
