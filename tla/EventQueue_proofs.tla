-------------------------- MODULE EventQueue_proofs --------------------------
(***************************************************************************)
(* What the event queue keeps, for every timer width and set of timeouts:  *)
(* the events themselves, however many (the first half), and their order,  *)
(* while no more than five wait (the second half).                         *)
(***************************************************************************)
EXTENDS EventQueue, EventHeap_proofs, FiniteSetTheorems, TLAPS

Slots(q) == 0..(q.size - 1)

Held(q) == {q.events[i].callback : i \in Slots(q)}

Distinct(q) == \A i, j \in Slots(q) : q.events[i].callback = q.events[j].callback => i = j

Emptied(q) == \A i \in Index : i >= q.size => q.events[i] = null_event

LEMMA PrioritifyHolds ==
  ASSUME NEW q, q.events \in [Index -> Event], q.size \in Index, q.size < Capacity,
         Distinct(q), Emptied(q), NEW n, NEW x \in Event, x.callback \notin Held(q),
         NEW r, r = event_prioritify(q, n, x)
  PROVE  Distinct(r) /\ Emptied(r) /\ Held(r) = Held(q) \cup {x.callback}
<1> DEFINE S == 0..q.size
<1>1. /\ r.size = q.size + 1
      /\ \E m \in Bijection(S, S) : \A i \in S :
           r.events[i] = IF m[i] = q.size THEN x ELSE q.events[m[i]]
      /\ \A i \in Index : i > q.size => r.events[i] = q.events[i]
  BY PrioritifyRearranges
<1>2. PICK m \in Bijection(S, S) : \A i \in S :
           r.events[i] = IF m[i] = q.size THEN x ELSE q.events[m[i]]
  BY <1>1
<1>3. q.size \in Nat
  BY CapacityAssumption DEF Index
<1>4. Slots(r) = S /\ q.size \in S /\ \A i : i \in Slots(q) <=> i \in S /\ i # q.size
  BY <1>1, <1>3 DEF Slots
<1>5. /\ \A i \in S : m[i] \in S
      /\ \A i, j \in S : m[i] = m[j] => i = j
      /\ \A j \in S : \E i \in S : m[i] = j
  <2> HIDE DEF S
  <2>. QED
    BY Fun_BijectionProperties
<1> HIDE DEF S
<1>6. \A i \in Slots(q) : q.events[i].callback # x.callback
  BY DEF Held
<1>7. Distinct(r)
  BY <1>2, <1>4, <1>5, <1>6 DEF Distinct
<1>8. Emptied(r)
  <2>1. \A i \in Index : i \in Nat
    BY CapacityAssumption DEF Index
  <2>. QED
    BY <1>1, <1>3, <2>1 DEF Emptied
<1>9. Held(r) = Held(q) \cup {x.callback}
  <2>1. ASSUME NEW i \in S PROVE r.events[i].callback \in Held(q) \cup {x.callback}
    BY <1>2, <1>4, <1>5 DEF Held
  <2>2. ASSUME NEW j \in S PROVE (IF j = q.size THEN x ELSE q.events[j]).callback \in Held(r)
    <3>1. PICK i \in S : m[i] = j
      BY <1>5
    <3>2. r.events[i] = IF j = q.size THEN x ELSE q.events[j]
      BY <1>2, <3>1
    <3>. QED
      BY <1>4, <3>2 DEF Held
  <2>3. x.callback \in Held(r)
    BY <1>4, <2>2
  <2>4. \A j \in Slots(q) : q.events[j].callback \in Held(r)
    BY <1>4, <2>2
  <2>. QED
    BY <1>4, <2>1, <2>3, <2>4 DEF Held
<1>. QED
  BY <1>7, <1>8, <1>9

LEMMA DequeuedHolds ==
  ASSUME NEW q, q.events \in [Index -> Event], q.size \in 1..Capacity,
         Distinct(q), Emptied(q), NEW n, NEW r, r = Dequeued(q, n)
  PROVE  Distinct(r) /\ Emptied(r) /\ Held(r) = Held(q) \ {q.events[0].callback}
<1> DEFINE S == 0..(q.size - 2)
           T == 1..(q.size - 1)
<1>0. q.size \in 1..(Capacity + 1) /\ q.size \in Nat /\ q.size >= 1
  BY CapacityAssumption
<1>1. /\ r.size = q.size - 1
      /\ \E m \in Bijection(S, T) : \A i \in S : r.events[i] = q.events[m[i]]
      /\ r.events[q.size - 1] = null_event
      /\ \A i \in Index : i >= q.size => r.events[i] = q.events[i]
  BY <1>0, DequeuedRearranges
<1>2. PICK m \in Bijection(S, T) : \A i \in S : r.events[i] = q.events[m[i]]
  BY <1>1
<1>4. Slots(r) = S /\ 0 \in Slots(q) /\ \A i : i \in T <=> i \in Slots(q) /\ i # 0
  BY <1>0, <1>1 DEF Slots
<1> HIDE DEF S, T
<1>5. /\ \A i \in S : m[i] \in T
      /\ \A i, j \in S : m[i] = m[j] => i = j
      /\ \A j \in T : \E i \in S : m[i] = j
  BY Fun_BijectionProperties
<1>7. Distinct(r)
  BY <1>2, <1>4, <1>5 DEF Distinct
<1>8. Emptied(r)
  <2>1. \A i \in Index : i \in Nat
    BY CapacityAssumption DEF Index
  <2>2. \A i \in Index : i >= r.size => i = q.size - 1 \/ i >= q.size
    BY <1>0, <1>1, <2>1
  <2>. QED
    BY <1>1, <2>2 DEF Emptied
<1>9. Held(r) = Held(q) \ {q.events[0].callback}
  <2>1. ASSUME NEW i \in S PROVE r.events[i].callback \in Held(q) \ {q.events[0].callback}
    <3>1. m[i] \in Slots(q) /\ m[i] # 0 /\ r.events[i] = q.events[m[i]]
      BY <1>2, <1>4, <1>5
    <3>. QED
      BY <1>4, <3>1 DEF Held, Distinct
  <2>2. ASSUME NEW j \in T PROVE q.events[j].callback \in Held(r)
    <3>1. PICK i \in S : m[i] = j
      BY <1>5
    <3>. QED
      BY <1>2, <1>4, <3>1 DEF Held
  <2>. QED
    BY <1>4, <2>1, <2>2 DEF Held
<1>. QED
  BY <1>7, <1>8, <1>9
-----------------------------------------------------------------------------
(* No two slots of the queue hold an event of the same client.             *)
Inv == /\ TypeOK
       /\ queue.size <= Capacity
       /\ Distinct(queue) /\ Emptied(queue) /\ Null \notin Held(queue)

LEMMA WaitingIsHeld == Waiting = Held(queue)
  BY DEF Waiting, Held, Slots

LEMMA NowIsWord == ASSUME t \in Nat PROVE now \in Word
<1>1. Start + t \in Int /\ Wrap \in Nat \ {0}
  BY StartAssumption, WrapAssumption
<1>2. (Start + t) % Wrap \in 0..(Wrap - 1)
  BY <1>1, Z3
<1>. QED
  BY <1>2 DEF now, Word

LEMMA InitInv == Init => Inv
<1> SUFFICES ASSUME Init PROVE Inv
  OBVIOUS
<1>1. /\ queue.size = 0 /\ queue.events = [i \in Index |-> null_event]
      /\ queue = [size |-> 0, events |-> [i \in Index |-> null_event]]
  BY DEF Init
<1>2. 0 \in 0..(Capacity + 1) /\ 0 <= Capacity
  BY CapacityAssumption
<1>3. queue \in Queue
  BY <1>1, <1>2, NullIsEvent DEF Queue
<1>4. Slots(queue) = {}
  BY <1>1 DEF Slots
<1>5. Distinct(queue) /\ Null \notin Held(queue)
  BY <1>4 DEF Distinct, Held
<1>6. Emptied(queue)
  BY <1>1 DEF Emptied
<1>. QED
  BY <1>1, <1>2, <1>3, <1>5, <1>6, NullIsEvent DEF Init, Inv, TypeOK

LEMMA QueueFields ==
  ASSUME Inv
  PROVE  /\ queue.size \in Nat /\ queue.size <= Capacity /\ queue.size \in Index
         /\ queue.events \in [Index -> Event]
         /\ 0 \in Index
  BY CapacityAssumption DEF Inv, TypeOK, Queue, Index

LEMMA EnqueueInv ==
  ASSUME Inv, NEW c \in Client, NEW timeout \in Timeouts[c], Scheduler_enqueue(c, timeout)
  PROVE  Inv' /\ Waiting' = Waiting \cup {c}
<1> DEFINE e == [timeout_us |-> timeout, created |-> now, callback |-> c]
<1>1. /\ c \notin Waiting /\ queue.size # Capacity
      /\ queue' = event_prioritify(queue, now, e)
      /\ due' = [due EXCEPT ![c] = t + 2 * timeout]
      /\ UNCHANGED <<t, dequed_event>>
  BY DEF Scheduler_enqueue
<1>2. timeout \in Word /\ timeout \in Nat /\ t \in Nat
  BY TimeoutsAssumption, WrapAssumption DEF Word, Inv, TypeOK
<1>3. e \in Event /\ e.callback = c
  BY <1>2, NowIsWord DEF Event
<1> HIDE DEF e
<1>4. queue.size < Capacity /\ Capacity \in Nat
  BY <1>1, QueueFields, CapacityAssumption
<1>5. Distinct(queue') /\ Emptied(queue') /\ Held(queue') = Held(queue) \cup {c}
  BY <1>1, <1>3, <1>4, QueueFields, WaitingIsHeld, PrioritifyHolds DEF Inv
<1>6. /\ queue'.size = queue.size + 1 /\ queue'.events \in [Index -> Event]
      /\ queue' = [size |-> queue'.size, events |-> queue'.events]
  BY <1>1, <1>3, QueueFields, PrioritifyRearranges
<1>7. queue' \in Queue /\ queue'.size <= Capacity
  BY <1>4, <1>6, QueueFields DEF Queue
<1>8. due' \in [Client -> Nat]
  <2>1. t + 2 * timeout \in Nat
    BY <1>2
  <2>. QED
    BY <1>1, <2>1 DEF Inv, TypeOK
<1>9. Waiting' = Waiting \cup {c}
  BY <1>5, WaitingIsHeld DEF Waiting, Held, Slots
<1>. QED
  BY <1>1, <1>5, <1>7, <1>8, <1>9, NullAssumption DEF Inv, TypeOK

LEMMA DequeueInv ==
  ASSUME Inv, Scheduler_dequeue
  PROVE  /\ Inv'
         /\ queue.size # 0 => dequed_event'.callback \in Waiting
         /\ Waiting' = Waiting \ {dequed_event'.callback}
<1>1. CASE queue.size = 0
  <2>1. queue' = queue /\ due' = due /\ t' = t /\ dequed_event' = null_event
    BY <1>1 DEF Scheduler_dequeue, Closest
  <2>2. Waiting' = Waiting /\ Null \notin Waiting
    BY <2>1, WaitingIsHeld DEF Waiting, Inv
  <2>. QED
    BY <1>1, <2>1, <2>2, NullIsEvent DEF Inv, TypeOK, null_event
<1>2. CASE queue.size # 0
  <2>1. /\ queue' = Dequeued(queue, now) /\ dequed_event' = queue.events[0] /\ t' = t
        /\ due' = [due EXCEPT ![dequed_event'.callback] = 0]
    BY <1>2 DEF Scheduler_dequeue, Closest
  <2>2. queue.size \in 1..Capacity /\ queue.size \in 1..(Capacity + 1) /\ Capacity \in Nat
    BY <1>2, QueueFields, CapacityAssumption
  <2>3. Distinct(queue') /\ Emptied(queue') /\ Held(queue') = Held(queue) \ {queue.events[0].callback}
    BY <2>1, <2>2, QueueFields, DequeuedHolds DEF Inv
  <2>4. /\ queue'.size = queue.size - 1 /\ queue'.events \in [Index -> Event]
        /\ queue' = [size |-> queue'.size, events |-> queue'.events]
    BY <2>1, <2>2, QueueFields, DequeuedRearranges
  <2>5. queue' \in Queue /\ queue'.size <= Capacity
    BY <2>2, <2>4 DEF Queue
  <2>6. dequed_event' \in Event /\ due' \in [Client -> Nat]
    BY <2>1, QueueFields DEF Inv, TypeOK
  <2>7. queue.events[0].callback \in Held(queue)
    BY <2>2 DEF Held, Slots
  <2>8. Waiting' = Waiting \ {dequed_event'.callback}
    BY <2>1, <2>3, WaitingIsHeld DEF Waiting, Held, Slots
  <2>. QED
    BY <2>1, <2>3, <2>5, <2>6, <2>7, <2>8, WaitingIsHeld DEF Inv, TypeOK
<1>. QED
  BY <1>1, <1>2

LEMMA StepInv == Inv /\ [Next]_vars => Inv'
<1> SUFFICES ASSUME Inv, [Next]_vars PROVE Inv'
  OBVIOUS
<1>1. CASE Tick
  BY <1>1 DEF Tick, Inv, TypeOK
<1>2. ASSUME NEW c \in Client, NEW timeout \in Timeouts[c], Scheduler_enqueue(c, timeout)
      PROVE  Inv'
  BY <1>2, EnqueueInv
<1>3. CASE Scheduler_dequeue
  BY <1>3, DequeueInv
<1>4. CASE UNCHANGED vars
  BY <1>4 DEF vars, Inv, TypeOK
<1>. QED
  BY <1>1, <1>2, <1>3, <1>4 DEF Next

LEMMA InvIsOneSlotEach == Inv => OneSlotEach
<1> SUFFICES ASSUME Inv PROVE OneSlotEach
  OBVIOUS
<1> DEFINE f == [i \in Slots(queue) |-> queue.events[i].callback]
<1>1. f \in Bijection(Slots(queue), Held(queue))
  <2>1. f \in [Slots(queue) -> Held(queue)]
    BY DEF Held
  <2>2. \A i, j \in Slots(queue) : f[i] = f[j] => i = j
    BY DEF Inv, Distinct
  <2>3. \A c \in Held(queue) : \E i \in Slots(queue) : f[i] = c
    BY DEF Held
  <2> HIDE DEF f
  <2>. QED
    BY <2>1, <2>2, <2>3, Fun_IsBij
<1>2. ExistsBijection(Slots(queue), Held(queue))
  BY <1>1 DEF ExistsBijection
<1>3. IsFiniteSet(Slots(queue)) /\ Cardinality(Slots(queue)) = queue.size
  <2>1. queue.size \in Nat
    BY QueueFields
  <2>2. 0 \in Int /\ queue.size - 1 \in Int
    BY <2>1
  <2>3. /\ IsFiniteSet(0..(queue.size - 1))
        /\ Cardinality(0..(queue.size - 1)) = IF 0 > queue.size - 1 THEN 0 ELSE queue.size - 1 - 0 + 1
    BY <2>2, FS_Interval
  <2>. QED
    BY <2>1, <2>3 DEF Slots
<1>4. Cardinality(Held(queue)) = queue.size
  BY <1>2, <1>3, FS_Bijection
<1>. QED
  BY <1>4, WaitingIsHeld DEF Inv, OneSlotEach, Emptied

(* The array, the size and the event handed out stay in range.             *)
THEOREM QueueTypeSafety == Spec => []TypeOK
<1>1. Inv => TypeOK
  BY DEF Inv
<1>. QED
  BY <1>1, InitInv, StepInv, PTL DEF Spec

(* The queue holds one event of each waiting client and nothing else, and  *)
(* its slots from size on are empty, however long it is in use.            *)
THEOREM OneSlotForEach == Spec => []OneSlotEach
  BY InitInv, StepInv, InvIsOneSlotEach, PTL DEF Spec

(* What the queue promises, but for the order: an enqueue adds the event   *)
(* of a client that had none, and a dequeue hands out an event that was    *)
(* waiting and takes no other with it.                                     *)
AddsOrTakesOne ==
  [][ \/ UNCHANGED Waiting
      \/ \E c \in Client \ Waiting : Waiting' = Waiting \cup {c}
      \/ /\ dequed_event'.callback \in Waiting
         /\ Waiting' = Waiting \ {dequed_event'.callback} ]_vars

(* Every step of every queue is one of the three: Scheduler_enqueue and    *)
(* Scheduler_dequeue add and take what they say, and nothing besides.      *)
THEOREM AddsOrTakes == Spec => AddsOrTakesOne
<1> DEFINE A == \/ UNCHANGED Waiting
                \/ \E c \in Client \ Waiting : Waiting' = Waiting \cup {c}
                \/ /\ dequed_event'.callback \in Waiting
                   /\ Waiting' = Waiting \ {dequed_event'.callback}
<1>1. Inv /\ [Next]_vars => [A]_vars
  <2> SUFFICES ASSUME Inv, Next PROVE A
    OBVIOUS
  <2>1. CASE Tick
    BY <2>1 DEF Tick, Waiting
  <2>2. ASSUME NEW c \in Client, NEW timeout \in Timeouts[c], Scheduler_enqueue(c, timeout)
        PROVE  A
    <3>1. c \notin Waiting /\ Waiting' = Waiting \cup {c}
      BY <2>2, EnqueueInv DEF Scheduler_enqueue
    <3>. QED
      BY <3>1
  <2>3. CASE Scheduler_dequeue
    <3>1. CASE queue.size = 0
      BY <2>3, <3>1 DEF Scheduler_dequeue, Waiting
    <3>2. CASE queue.size # 0
      BY <2>3, <3>2, DequeueInv
    <3>. QED
      BY <3>1, <3>2
  <2>. QED
    BY <2>1, <2>2, <2>3 DEF Next
<1>. QED
  BY <1>1, InitInv, StepInv, PTL DEF Spec, AddsOrTakesOne
-----------------------------------------------------------------------------
(* The order.  An event is dated when the counter had the value it is      *)
(* stamped with at the tick its due date was counted from, and its timeout *)
(* takes at most the ticks of half a turn of the counter; it is young when *)
(* less than half a turn has passed since.                                 *)
Brief == \A c \in Client : \A timeout \in Timeouts[c] : 4 * timeout <= Wrap

Dated(e, n, d) == /\ e.callback \in Client
                  /\ \E a \in 0..n : /\ e.created = (Start + a) % Wrap
                                     /\ d[e.callback] = a + 2 * e.timeout_us
                                     /\ 4 * e.timeout_us <= Wrap

YoungEvent(e, n, d) == n - (d[e.callback] - 2 * e.timeout_us) < Wrap \div 2

Young == \A i \in Slots(queue) : YoungEvent(queue.events[i], t, due)

Few == queue.size <= 5

LEMMA SignedIsSmall ==
  ASSUME NEW x \in Int, -(Wrap \div 2) <= x, x < Wrap \div 2
  PROVE  Signed(x) = x
<1> DEFINE h == Wrap \div 2
<1>1. h \in Nat /\ h > 0 /\ Wrap = 2 * h /\ Wrap \in Nat
  <2>1. Wrap \in Nat \ {0} /\ Wrap % 2 = 0
    BY WrapAssumption
  <2>. QED
    BY <2>1, Z3
<1> HIDE DEF h
<1>2. -h <= x /\ x < h
  BY DEF h
<1>3. CASE x >= 0
  <2>1. x \in Word
    BY <1>1, <1>2, <1>3 DEF Word
  <2>2. x % Wrap = x
    BY <2>1, OneTurn
  <2>. QED
    BY <1>2, <2>2 DEF Signed, h
<1>4. CASE x < 0
  <2>1. x + Wrap \in Word
    BY <1>1, <1>2, <1>4 DEF Word
  <2>2. PICK w \in Word : w = x + Wrap
    BY <2>1
  <2>3. w - Wrap = x /\ w \in Int
    BY <1>1, <2>2
  <2>4. (w - Wrap) % Wrap = w
    BY OneTurn
  <2>5. x % Wrap = w
    BY <2>3, <2>4
  <2>6. ~(w < h)
    BY <1>1, <1>2, <2>2
  <2>7. Signed(x) = w - Wrap
    BY <2>5, <2>6 DEF Signed, h
  <2>. QED
    BY <2>3, <2>7
<1>. QED
  BY <1>3, <1>4

(* How long a young event has been waiting, as the code computes it.       *)
LEMMA PassedIsAge ==
  ASSUME NEW n \in Nat, NEW a \in 0..n, n - a < Wrap \div 2, NEW v, v = (Start + n) % Wrap,
         NEW e, e.created = (Start + a) % Wrap
  PROVE  Passed(v, e) = n - a
<1> DEFINE x == Start + a
           y == Start + n
<1>1. x \in Int /\ y \in Int /\ n - a \in Nat /\ y - x = n - a
  BY StartAssumption
<1>2. Wrap \in Nat \ {0} /\ Wrap \div 2 \in Nat
  <2>1. Wrap \in Nat \ {0}
    BY WrapAssumption
  <2>. QED
    BY <2>1, Z3
<1> DEFINE qx == x \div Wrap
           rx == x % Wrap
           qy == y \div Wrap
           ry == y % Wrap
<1>3. qx \in Int /\ rx \in Word /\ x = qx * Wrap + rx /\ qy \in Int /\ ry \in Word /\ y = qy * Wrap + ry
  BY <1>1, CounterParts
<1>4. ry \in Int /\ rx \in Int /\ qy * Wrap \in Int /\ qx * Wrap \in Int
  BY <1>2, <1>3 DEF Word
<1>5. v - e.created = ry - rx
  OBVIOUS
<1> HIDE DEF x, y, qx, rx, qy, ry
<1>6. (qy - qx) * Wrap = qy * Wrap - qx * Wrap
  BY <1>2, <1>3, Z3
<1>7. ry - rx = (n - a) - (qy - qx) * Wrap
  BY <1>1, <1>3, <1>4, <1>6
<1>8. (ry - rx) % Wrap = (n - a) % Wrap
  BY <1>1, <1>3, <1>7, WholeTurns
<1>9. Signed(ry - rx) = Signed(n - a)
  BY <1>8 DEF Signed
<1>10. Signed(n - a) = n - a
  BY <1>1, <1>2, SignedIsSmall
<1>11. ~(n - a < 0)
  BY <1>1
<1>. QED
  BY <1>5, <1>9, <1>10, <1>11 DEF Passed

(* The comparison says which of two young events is due first.             *)
LEMMA CloserIsDueFirst ==
  ASSUME NEW n \in Nat, NEW v, v = (Start + n) % Wrap, NEW d,
         NEW e \in Event, Dated(e, n, d), YoungEvent(e, n, d),
         NEW g \in Event, Dated(g, n, d), YoungEvent(g, n, d)
  PROVE  /\ d[e.callback] \in Nat
         /\ Closer(v, e, g) <=> d[e.callback] < d[g.callback]
<1>1. ASSUME NEW x \in Event, Dated(x, n, d), YoungEvent(x, n, d)
      PROVE  /\ d[x.callback] \in Nat
             /\ Signed(Passed(v, x) - Ticks(x)) = n - d[x.callback]
  <2>1. PICK a \in 0..n : /\ x.created = (Start + a) % Wrap
                          /\ d[x.callback] = a + 2 * x.timeout_us
                          /\ 4 * x.timeout_us <= Wrap
    BY <1>1 DEF Dated
  <2> DEFINE k == 2 * x.timeout_us
             h == Wrap \div 2
             y == d[x.callback]
  <2>2. x.timeout_us \in Nat /\ k \in Nat
    BY WrapAssumption DEF Event, Word
  <2>3. h \in Nat /\ h > 0 /\ Wrap = 2 * h /\ Wrap \in Nat
    <3>1. Wrap \in Nat \ {0} /\ Wrap % 2 = 0
      BY WrapAssumption
    <3>. QED
      BY <3>1, Z3
  <2>4. 2 * k <= Wrap
    BY <2>1, <2>2
  <2>5. y = a + k /\ n - (y - k) < h
    BY <1>1, <2>1 DEF YoungEvent
  <2>p. n - a < Wrap \div 2 => Passed(v, x) = n - a
    BY <2>1, PassedIsAge
  <2>6. Ticks(x) = k % Wrap
    BY DEF Ticks
  <2>s. \A z \in Int : -(Wrap \div 2) <= z /\ z < Wrap \div 2 => Signed(z) = z
    BY SignedIsSmall
  <2> SUFFICES y \in Nat /\ Signed(Passed(v, x) - Ticks(x)) = n - y
    OBVIOUS
  <2>7. n - a < Wrap \div 2 => Passed(v, x) = n - a
    BY <2>p
  <2>8. \A z \in Int : -h <= z /\ z < h => Signed(z) = z
    BY <2>s
  <2>9. n - a < h => Passed(v, x) = n - a
    BY <2>p
  <2> HIDE DEF k, h, y
  <2>10. k \in Word
    BY <2>2, <2>3, <2>4 DEF Word
  <2>11. Ticks(x) = k
    BY <2>6, <2>10, OneTurn
  <2>12. a \in Nat /\ a <= n
    OBVIOUS
  <2>13. Passed(v, x) = n - a
    BY <2>2, <2>5, <2>9, <2>12
  <2>14. n - a - k \in Int /\ -h <= n - a - k /\ n - a - k < h /\ n - a - k = n - y /\ y \in Nat
    BY <2>2, <2>3, <2>4, <2>5, <2>12
  <2>. QED
    BY <2>8, <2>11, <2>13, <2>14
<1>2. d[e.callback] \in Nat /\ Signed(Passed(v, e) - Ticks(e)) = n - d[e.callback]
  BY <1>1
<1>3. d[g.callback] \in Nat /\ Signed(Passed(v, g) - Ticks(g)) = n - d[g.callback]
  BY <1>1
<1>4. event_compare(v, e, g) = (n - d[e.callback]) - (n - d[g.callback])
  BY <1>2, <1>3 DEF event_compare
<1>. QED
  BY <1>2, <1>3, <1>4 DEF Closer

DueOf(d) == [a \in Event |-> d[a.callback]]

LEMMA YoungAgree ==
  ASSUME NEW n \in Nat, NEW v, v = (Start + n) % Wrap, NEW d, NEW A \in SUBSET Event,
         \A e \in A : Dated(e, n, d) /\ YoungEvent(e, n, d)
  PROVE  Agrees(v, A, DueOf(d))
<1>1. ASSUME NEW e \in A PROVE DueOf(d)[e] = d[e.callback]
  BY DEF DueOf
<1>2. ASSUME NEW e \in A, NEW g \in A
      PROVE  /\ d[e.callback] \in Nat
             /\ Closer(v, e, g) <=> d[e.callback] < d[g.callback]
  BY CloserIsDueFirst
<1>. QED
  BY <1>1, <1>2 DEF Agrees

(* The order does not depend on when the events of others are due.         *)
LEMMA SameOrder ==
  ASSUME NEW e, NEW n \in Nat, n <= 5, NEW f, NEW g, \A i \in 0..(n - 1) : f[e[i]] = g[e[i]],
         Order(e, n, f)
  PROVE  Order(e, n, g)
<1>1. /\ n > 1 => f[e[0]] = g[e[0]] /\ f[e[1]] = g[e[1]]
      /\ n > 2 => f[e[0]] = g[e[0]] /\ f[e[2]] = g[e[2]]
      /\ n > 3 => f[e[1]] = g[e[1]] /\ f[e[3]] = g[e[3]]
      /\ n > 4 => f[e[0]] = g[e[0]] /\ f[e[4]] = g[e[4]]
  OBVIOUS
<1>. QED
  BY <1>1 DEF Order

(* The queue and the due dates: every event in it is dated, and they stand *)
(* in the order that makes the head the first of them.                     *)
AllDated == \A i \in Slots(queue) : Dated(queue.events[i], t, due)

Ordered == Order(queue.events, queue.size, DueOf(due))

OrderInv == Inv /\ AllDated /\ Ordered

LEMMA InitOrder == Init => OrderInv
<1> SUFFICES ASSUME Init PROVE OrderInv
  OBVIOUS
<1>1. queue.size = 0
  BY DEF Init
<1>. QED
  BY <1>1, InitInv DEF OrderInv, AllDated, Slots, Ordered, Order

(* The due date of a client without an event may change.                   *)
LEMMA OtherDates ==
  ASSUME NEW d, NEW g, NEW e \in Event, g[e.callback] = d[e.callback], NEW n
  PROVE  /\ Dated(e, n, d) => Dated(e, n, g)
         /\ YoungEvent(e, n, d) => YoungEvent(e, n, g)
         /\ DueOf(d)[e] = DueOf(g)[e]
<1>1. DueOf(d)[e] = d[e.callback] /\ DueOf(g)[e] = g[e.callback]
  BY DEF DueOf
<1>. QED
  BY <1>1 DEF Dated, YoungEvent

LEMMA EnqueueOrder ==
  ASSUME Brief, OrderInv, Few', Young,
         NEW c \in Client, NEW timeout \in Timeouts[c], Scheduler_enqueue(c, timeout)
  PROVE  AllDated' /\ Ordered'
<1> DEFINE x == [timeout_us |-> timeout, created |-> now, callback |-> c]
           e == queue.events
           n == queue.size
           S == 0..n
<1>1. /\ c \notin Waiting /\ queue.size # Capacity
      /\ queue' = event_prioritify(queue, now, x)
      /\ due' = [due EXCEPT ![c] = t + 2 * timeout]
      /\ t' = t
  BY DEF Scheduler_enqueue
<1>2. timeout \in Word /\ timeout \in Nat /\ t \in Nat /\ due \in [Client -> Nat]
  BY TimeoutsAssumption, WrapAssumption DEF Word, OrderInv, Inv, TypeOK
<1>3. x \in Event /\ x.callback = c /\ x.timeout_us = timeout /\ x.created = (Start + t) % Wrap
  BY <1>2, NowIsWord DEF Event, now
<1>4. /\ n \in Nat /\ n < Capacity /\ n \in Index /\ e \in [Index -> Event] /\ Capacity \in Nat
      /\ \A i \in 0..(n - 1) : e[i] \in Event
  <2>1. n \in Nat /\ n <= Capacity /\ n \in Index /\ e \in [Index -> Event] /\ Capacity \in Nat
    BY QueueFields, CapacityAssumption DEF OrderInv
  <2>2. \A i \in 0..(n - 1) : i \in Index
    BY <2>1 DEF Index
  <2>. QED
    BY <1>1, <2>1, <2>2
<1>x. due'[c] = t + 2 * timeout
  BY <1>1, <1>2
<1>5. Dated(x, t, due') /\ YoungEvent(x, t, due')
  <2>1. 4 * timeout <= Wrap
    BY DEF Brief
  <2>2. t \in 0..t /\ 2 * timeout \in Nat
    BY <1>2
  <2>3. t - (t + 2 * timeout - 2 * timeout) = 0 /\ 0 < Wrap \div 2
    <3>1. Wrap \in Nat \ {0} /\ Wrap % 2 = 0
      BY WrapAssumption
    <3>2. 0 < Wrap \div 2
      BY <3>1, Z3
    <3>. QED
      BY <1>2, <3>2
  <2> HIDE DEF x
  <2>. QED
    BY <1>3, <1>x, <2>1, <2>2, <2>3 DEF Dated, YoungEvent
<1>6. ASSUME NEW i \in 0..(n - 1)
      PROVE  /\ Dated(e[i], t, due') /\ YoungEvent(e[i], t, due')
             /\ DueOf(due)[e[i]] = DueOf(due')[e[i]]
  <2>1. Dated(e[i], t, due) /\ YoungEvent(e[i], t, due)
    BY DEF OrderInv, AllDated, Young, Slots
  <2>2. e[i].callback \in Client
    BY <2>1 DEF Dated
  <2>3. e[i].callback # c
    BY <1>1 DEF Waiting
  <2>4. due'[e[i].callback] = due[e[i].callback] /\ e[i] \in Event
    BY <1>1, <1>2, <1>4, <2>2, <2>3
  <2> HIDE DEF e
  <2>5. Dated(e[i], t, due')
    BY <2>1, <2>4, OtherDates
  <2>6. YoungEvent(e[i], t, due')
    BY <2>1, <2>4, OtherDates
  <2>7. DueOf(due)[e[i]] = DueOf(due')[e[i]]
    BY <2>4, OtherDates
  <2>. QED
    BY <2>5, <2>6, <2>7
<1> HIDE DEF x
<1>7. Agrees(now, FirstSlots(e, n) \cup {x}, DueOf(due'))
  <2> DEFINE A == FirstSlots(e, n) \cup {x}
  <2>1. A \in SUBSET Event
    BY <1>3, <1>4 DEF FirstSlots
  <2>2. \A a \in A : Dated(a, t, due') /\ YoungEvent(a, t, due')
    BY <1>5, <1>6 DEF FirstSlots
  <2>3. now = (Start + t) % Wrap
    BY DEF now
  <2> HIDE DEF A
  <2>4. Agrees(now, A, DueOf(due'))
    BY <1>2, <2>1, <2>2, <2>3, YoungAgree
  <2>. QED
    BY <2>4 DEF A
<1>8. queue'.size = n + 1 /\ n <= 4
  BY <1>1, <1>4 DEF event_prioritify, Few
<1>9. Order(e, n, DueOf(due'))
  <2>1. Order(e, n, DueOf(due))
    BY DEF OrderInv, Ordered
  <2>2. \A i \in 0..(n - 1) : DueOf(due)[e[i]] = DueOf(due')[e[i]]
    BY <1>6
  <2> HIDE DEF e, n
  <2>. QED
    BY <1>4, <1>8, <2>1, <2>2, SameOrder
<1>10. Ordered'
  <2>1. Order(event_prioritify(queue, now, x).events, queue.size + 1, DueOf(due'))
    BY <1>4, <1>7, <1>8, <1>9, ClimbOrders
  <2>. QED
    BY <1>1, <1>8, <2>1 DEF Ordered
<1>11. AllDated'
  <2>1. \E m \in Bijection(S, S) : \A i \in S :
           queue'.events[i] = IF m[i] = queue.size THEN x ELSE queue.events[m[i]]
    BY <1>1, <1>3, <1>4, PrioritifyRearranges
  <2>2. PICK m \in Bijection(S, S) : \A i \in S :
           queue'.events[i] = IF m[i] = queue.size THEN x ELSE queue.events[m[i]]
    BY <2>1
  <2>3. \A i \in S : m[i] \in S
    <3> HIDE DEF S
    <3>. QED
      BY Fun_BijectionProperties
  <2>4. Slots(queue') = S /\ \A j \in S : j # n => j \in 0..(n - 1)
    BY <1>4, <1>8 DEF Slots
  <2>5. \A i \in S : Dated(queue'.events[i], t, due')
    BY <1>5, <1>6, <2>2, <2>3, <2>4
  <2>. QED
    BY <1>1, <2>4, <2>5 DEF AllDated, Slots
<1>. QED
  BY <1>10, <1>11

LEMMA DequeueOrder ==
  ASSUME OrderInv, Few, Young, queue.size # 0, Scheduler_dequeue
  PROVE  /\ AllDated' /\ Ordered'
         /\ \A c \in Waiting : due[dequed_event'.callback] <= due[c]
<1> DEFINE e == queue.events
           n == queue.size
           h == e[0].callback
           S == 0..(n - 2)
           T == 1..(n - 1)
<1>1. /\ queue' = Dequeued(queue, now) /\ dequed_event' = e[0] /\ t' = t
      /\ due' = [due EXCEPT ![h] = 0]
  BY DEF Scheduler_dequeue, Closest
<1>2. t \in Nat /\ due \in [Client -> Nat]
  BY DEF OrderInv, Inv, TypeOK
<1>3. /\ n \in Nat /\ n <= Capacity /\ n \in 1..5 /\ n <= Capacity + 1 /\ n \in 1..(Capacity + 1)
      /\ e \in [Index -> Event] /\ Capacity \in Nat
      /\ \A i \in 0..(n - 1) : e[i] \in Event
  <2>1. n \in Nat /\ n <= Capacity /\ e \in [Index -> Event] /\ Capacity \in Nat
    BY QueueFields, CapacityAssumption DEF OrderInv
  <2>2. \A i \in 0..(n - 1) : i \in Index
    BY <2>1 DEF Index
  <2>. QED
    BY <2>1, <2>2 DEF Few
<1>4. ASSUME NEW i \in 0..(n - 1)
      PROVE  Dated(e[i], t, due) /\ YoungEvent(e[i], t, due) /\ e[i].callback \in Client
  <2>1. Dated(e[i], t, due) /\ YoungEvent(e[i], t, due)
    BY DEF OrderInv, AllDated, Young, Slots
  <2>. QED
    BY <2>1 DEF Dated
<1>5. Agrees(now, FirstSlots(e, n), DueOf(due))
  <2> DEFINE A == FirstSlots(e, n)
  <2>1. A \in SUBSET Event
    BY <1>3 DEF FirstSlots
  <2>2. \A a \in A : Dated(a, t, due) /\ YoungEvent(a, t, due)
    BY <1>4 DEF FirstSlots
  <2>3. now = (Start + t) % Wrap
    BY DEF now
  <2> HIDE DEF A
  <2>4. Agrees(now, A, DueOf(due))
    BY <1>2, <2>1, <2>2, <2>3, YoungAgree
  <2>. QED
    BY <2>4 DEF A
<1>6. Order(e, n, DueOf(due))
  BY DEF OrderInv, Ordered
<1>7. \A c \in Waiting : due[h] <= due[c]
  <2>1. \A a \in FirstSlots(e, n) : DueOf(due)[a] \in Int
    BY <1>5 DEF Agrees
  <2>2. ASSUME NEW i \in 0..(n - 1) PROVE DueOf(due)[e[0]] <= DueOf(due)[e[i]]
    <3> HIDE DEF e, n
    <3>. QED
      BY <1>3, <1>6, <2>1, HeadComesFirst
  <2>3. \A i \in 0..(n - 1) : DueOf(due)[e[i]] = due[e[i].callback]
    BY <1>3 DEF DueOf
  <2>4. 0 \in 0..(n - 1)
    BY <1>3
  <2>. QED
    BY <2>2, <2>3, <2>4 DEF Waiting
<1>8. /\ queue'.size = n - 1
      /\ \E m \in Bijection(S, T) : \A i \in S : queue'.events[i] = e[m[i]]
  BY <1>1, <1>3, DequeuedRearranges
<1>9. PICK m \in Bijection(S, T) : \A i \in S : queue'.events[i] = e[m[i]]
  BY <1>8
<1>10. \A i \in S : m[i] \in T
  <2> HIDE DEF S, T
  <2>. QED
    BY Fun_BijectionProperties
<1>11. ASSUME NEW j \in T
       PROVE  Dated(e[j], t, due') /\ DueOf(due)[e[j]] = DueOf(due')[e[j]]
  <2>1. j \in 0..(n - 1) /\ 0 \in 0..(n - 1) /\ j # 0
    BY <1>3
  <2>2. e[j].callback # h
    BY <2>1 DEF OrderInv, Inv, Distinct, Slots
  <2>3. e[j] \in Event /\ e[j].callback \in Client /\ Dated(e[j], t, due)
    BY <1>3, <1>4, <2>1
  <2>4. due'[e[j].callback] = due[e[j].callback]
    BY <1>1, <1>2, <2>2, <2>3
  <2>. QED
    BY <2>3, <2>4, OtherDates
<1>12. AllDated'
  <2>1. Slots(queue') = S
    BY <1>3, <1>8 DEF Slots
  <2>2. \A i \in S : Dated(queue'.events[i], t, due')
    BY <1>9, <1>10, <1>11
  <2>. QED
    BY <1>1, <2>1, <2>2 DEF AllDated, Slots
<1>13. Ordered'
  <2>1. Order(Dequeued(queue, now).events, n - 1, DueOf(due))
    BY <1>3, <1>5, <1>6, SinkOrders
  <2>2. Order(queue'.events, n - 1, DueOf(due))
    BY <1>1, <2>1
  <2>3. \A i \in 0..(n - 1 - 1) : DueOf(due)[queue'.events[i]] = DueOf(due')[queue'.events[i]]
    <3>1. 0..(n - 1 - 1) = S
      BY <1>3
    <3>. QED
      BY <1>9, <1>10, <1>11, <3>1
  <2>4. n - 1 \in Nat /\ n - 1 <= 5
    BY <1>3
  <2> HIDE DEF n
  <2>5. Order(queue'.events, n - 1, DueOf(due'))
    BY <2>2, <2>3, <2>4, SameOrder
  <2>. QED
    BY <1>8, <2>5 DEF Ordered
<1>. QED
  BY <1>1, <1>7, <1>12, <1>13

LEMMA StepOrder ==
  ASSUME Brief
  PROVE  OrderInv /\ Few /\ Few' /\ Young /\ [Next]_vars => OrderInv'
<1> SUFFICES ASSUME OrderInv, Few, Few', Young, [Next]_vars PROVE OrderInv'
  OBVIOUS
<1>1. Inv'
  BY StepInv DEF OrderInv
<1>2. ASSUME UNCHANGED <<queue, due>>, t \in Nat, t' \in Nat, t <= t'
      PROVE  AllDated' /\ Ordered'
  <2>1. 0..t \subseteq 0..t'
    BY <1>2
  <2>2. \A i \in Slots(queue) : Dated(queue.events[i], t', due)
    BY <2>1 DEF OrderInv, AllDated, Dated
  <2>. QED
    BY <1>2, <2>2 DEF OrderInv, AllDated, Ordered
<1>t. t \in Nat
  BY DEF OrderInv, Inv, TypeOK
<1>3. CASE Tick
  BY <1>1, <1>2, <1>3, <1>t DEF Tick, OrderInv
<1>4. ASSUME NEW c \in Client, NEW timeout \in Timeouts[c], Scheduler_enqueue(c, timeout)
      PROVE  OrderInv'
  BY <1>1, <1>4, EnqueueOrder DEF OrderInv
<1>5. CASE Scheduler_dequeue
  <2>1. CASE queue.size = 0
    <3>1. queue' = queue /\ due' = due /\ t' = t
      BY <1>5, <2>1 DEF Scheduler_dequeue
    <3>. QED
      BY <1>1, <1>2, <1>t, <3>1 DEF OrderInv
  <2>2. CASE queue.size # 0
    BY <1>1, <1>5, <2>2, DequeueOrder DEF OrderInv
  <2>. QED
    BY <2>1, <2>2
<1>6. CASE UNCHANGED vars
  BY <1>1, <1>2, <1>6, <1>t DEF vars, OrderInv
<1>. QED
  BY <1>3, <1>4, <1>5, <1>6 DEF Next

LEMMA InitRefines == Init => Abstract!Init
<1> SUFFICES ASSUME Init PROVE Abstract!Init
  OBVIOUS
<1>1. queue.size = 0 /\ dequed_event.callback = Null /\ due = [c \in Client |-> 0]
  BY DEF Init, null_event
<1>2. Waiting = {}
  BY <1>1 DEF Waiting
<1>. QED
  BY <1>1, <1>2 DEF Abstract!Init

LEMMA StepRefines ==
  ASSUME Brief
  PROVE  OrderInv /\ Few /\ Young /\ [Next]_vars => [Abstract!Next]_(Abstract!vars)
<1> SUFFICES ASSUME OrderInv, Few, Young, [Next]_vars
             PROVE  [Abstract!Next]_(Abstract!vars)
  OBVIOUS
<1>i. Inv /\ t \in Nat /\ due \in [Client -> Nat]
  BY DEF OrderInv, Inv, TypeOK
<1>1. CASE Tick
  <2>1. Waiting' = Waiting /\ dequed_event' = dequed_event /\ due' = due
    BY <1>1 DEF Tick, Waiting
  <2>. QED
    BY <2>1 DEF Abstract!vars
<1>2. ASSUME NEW c \in Client, NEW timeout \in Timeouts[c], Scheduler_enqueue(c, timeout)
      PROVE  Abstract!Next
  <2>1. Waiting' = Waiting \cup {c}
    BY <1>2, <1>i, EnqueueInv
  <2>2. c \notin Waiting /\ queue.size # Capacity /\ dequed_event' = dequed_event
        /\ due' = [due EXCEPT ![c] = t + 2 * timeout]
    BY <1>2 DEF Scheduler_enqueue
  <2>3. Cardinality(Waiting) < Capacity
    <3>1. Cardinality(Waiting) = queue.size /\ queue.size <= Capacity
      BY <1>i, InvIsOneSlotEach DEF OneSlotEach
    <3>2. queue.size \in Nat /\ Capacity \in Nat
      BY <1>i, QueueFields, CapacityAssumption
    <3>. QED
      BY <2>2, <3>1, <3>2
  <2>4. due'[c] \in Nat /\ due' = [due EXCEPT ![c] = due'[c]]
    <3>1. timeout \in Nat
      BY TimeoutsAssumption, WrapAssumption DEF Word
    <3>2. t + 2 * timeout \in Nat
      BY <1>i, <3>1
    <3>3. due'[c] = t + 2 * timeout
      BY <1>i, <2>2
    <3>. QED
      BY <2>2, <3>2, <3>3
  <2>c. Abstract!Cardinality(Waiting) = Cardinality(Waiting)
    BY Zenon DEF Cardinality, Abstract!Cardinality, IsFiniteSet, Abstract!IsFiniteSet
  <2>5. Abstract!Enqueue(c)
    BY <2>1, <2>2, <2>3, <2>4, <2>c DEF Abstract!Enqueue
  <2>. QED
    BY <2>5 DEF Abstract!Next
<1>3. CASE Scheduler_dequeue
  <2>1. CASE queue.size = 0
    <3>1. dequed_event'.callback = Null /\ due' = due /\ Waiting = {} /\ Waiting' = {}
      BY <1>3, <2>1 DEF Scheduler_dequeue, Closest, null_event, Waiting
    <3>2. Abstract!DequeueEmpty
      BY <3>1 DEF Abstract!DequeueEmpty
    <3>. QED
      BY <3>2 DEF Abstract!Next
  <2>2. CASE queue.size # 0
    <3> DEFINE c == dequed_event'.callback
    <3>1. c \in Waiting /\ Waiting' = Waiting \ {c}
      BY <1>3, <1>i, <2>2, DequeueInv
    <3>2. \A d \in Waiting : due[c] <= due[d]
      BY <1>3, <2>2, DequeueOrder
    <3>3. due' = [due EXCEPT ![c] = 0]
      BY <1>3, <2>2 DEF Scheduler_dequeue
    <3>4. c \in Client
      <4>1. \A i \in Slots(queue) : queue.events[i].callback \in Client
        BY DEF OrderInv, AllDated, Dated
      <4>. QED
        BY <3>1, <4>1 DEF Waiting, Slots
    <3>5. Abstract!Dequeue(c)
      BY <3>1, <3>2, <3>3 DEF Abstract!Dequeue
    <3>. QED
      BY <3>4, <3>5 DEF Abstract!Next
  <2>. QED
    BY <2>1, <2>2
<1>4. CASE UNCHANGED vars
  <2>1. Waiting' = Waiting /\ dequed_event' = dequed_event /\ due' = due
    BY <1>4 DEF vars, Waiting
  <2>. QED
    BY <2>1 DEF Abstract!vars
<1>. QED
  BY <1>1, <1>2, <1>3, <1>4 DEF Next

(* When no timeout takes more than half a turn of the counter, and as long *)
(* as no more than five events wait, none for half a turn, the array is    *)
(* the priority queue it is meant to be: what is enqueued can be dequeued, *)
(* once, and nothing that is due earlier is left behind.  With six events  *)
(* that is false (see HeadIsClosest).                                      *)
THEOREM FewInOrder ==
  ASSUME Brief
  PROVE  Spec /\ [](Few /\ Young) => RefinesPriorityQueue
<1>1. OrderInv /\ Few /\ Few' /\ Young /\ [Next]_vars => OrderInv'
  BY StepOrder
<1>2. OrderInv /\ Few /\ Young /\ [Next]_vars => [Abstract!Next]_(Abstract!vars)
  BY StepRefines
<1>. QED
  BY <1>1, <1>2, InitOrder, InitRefines, PTL DEF Spec, RefinesPriorityQueue, Abstract!Spec
=============================================================================
