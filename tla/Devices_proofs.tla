---------------------------- MODULE Devices_proofs ----------------------------
(***************************************************************************)
(* Proofs about the components that Devices brings together, those of      *)
(* Time_proofs aside: the servos behind Scheduler, the bits of Bitbang,    *)
(* the lines of Serial and Menu, and the pins of the simulated hardware.   *)
(***************************************************************************)
EXTENDS Devices, Time_proofs, FiniteSetTheorems, SequenceTheorems, TLAPS

(* Servo, for every finite set of servos for which Scheduler has room,     *)
(* every set of angles and every interleaving of the loop and the          *)
(* interrupt, enqueues that meet included.                                 *)

(* The loop is at a step of a turn of s.                                   *)
ServoBusy(s, at) == servoLoop.at = at /\ servoLoop.of = {s}

(* The next event of s is still to come from the loop, and not from an     *)
(* event of s.                                                             *)
Owed(s) == \/ servo[s].stage = "DEFINED" \/ servo[s].on_duty = "STANDY"
           \/ servo[s].stage = "PREPARED" /\ ~ServoBusy(s, "decide")
           \/ ServoBusy(s, "enqueue")

(* The events of each servo, with the one the loop owes it: as many as     *)
(* there are servos at first, and never more.                              *)
Claims == [s \in Instance |-> IF Owed(s) THEN pending[s] + 1 ELSE pending[s]]

Fit(waiting) == /\ IsFiniteSet(Events(waiting))
                /\ Cardinality(Events(waiting)) <= Cardinality(Instance)

(* What holds of one servo at every step of a turn.                        *)
ServoInv(s) ==
  /\ s \notin doubled => pending[s] <= 1 /\ (Owed(s) => pending[s] = 0)
  /\ s \in lost => pending[s] = 0
  /\ ServoBusy(s, "decide") => servo[s].stage = "PREPARED"
  /\ ServoBusy(s, "write") => servo[s].stage # "RELEASED"
  /\ ServoBusy(s, "write") /\ servo[s].props.speed = 0 => s \notin servoLoop.write
  /\ ServoBusy(s, "enqueue") => servo[s].stage = "RELEASED" /\ servo[s].props.speed # 0
  /\ ServoBusy(s, "enqueue") => servo[s].on_duty # "STANDY"
  /\ ServoBusy(s, "copy") \/ ServoBusy(s, "restart") => servo[s].stage # "DEFINED"
  /\ ~Owed(s) => (s \in lost <=> pending[s] = 0)
  /\ servo[s].stage = "RELEASED" /\ servo[s].on_duty = "STANDY" /\ ~ServoBusy(s, "restart")
       => servo[s].props.speed = 0

ServosInv == ServoTypeOK /\ OffInStandby /\ Fit(Claims) /\ \A s \in Instance : ServoInv(s)

LEMMA EventOf ==
  ASSUME NEW w \in [Instance -> Nat], NEW s \in Instance, NEW k
  PROVE  <<s, k>> \in Events(w) <=> k \in 1..w[s]
<1>1. <<s, k>> \in Events(w) <=> \E t \in Instance : <<s, k>> \in {t} \X (1..w[t])
  BY DEF Events
<1>. QED
  BY <1>1

LEMMA EventsGrow ==
  ASSUME NEW v \in [Instance -> Nat], NEW w \in [Instance -> Nat],
         \A t \in Instance : v[t] <= w[t]
  PROVE  Events(v) \subseteq Events(w)
<1>1. SUFFICES ASSUME NEW t \in Instance, NEW e \in {t} \X (1..v[t]) PROVE e \in Events(w)
  BY DEF Events
<1>2. PICK k \in 1..v[t] : e = <<t, k>>
  BY <1>1
<1>3. k \in 1..w[t]
  BY <1>2
<1>. QED
  BY <1>2, <1>3, EventOf

(* Fewer events fit, and where there is one less there is room for one.    *)
LEMMA Fewer ==
  ASSUME NEW v \in [Instance -> Nat], NEW w \in [Instance -> Nat],
         \A t \in Instance : v[t] <= w[t], Fit(w)
  PROVE  Fit(v)
<1>1. Events(v) \subseteq Events(w)
  BY EventsGrow
<1>2. /\ IsFiniteSet(Events(v)) /\ Cardinality(Events(v)) <= Cardinality(Events(w))
  BY <1>1, FS_Subset DEF Fit
<1>. QED
  BY <1>2, FS_CardinalityType, ServoAssumption DEF Fit

LEMMA RoomBelow ==
  ASSUME NEW v \in [Instance -> Nat], NEW w \in [Instance -> Nat],
         \A t \in Instance : v[t] <= w[t], NEW s \in Instance, v[s] < w[s],
         Fit(w), nulls \in 0..Spare
  PROVE  HasRoom(v)
<1> DEFINE e == <<s, w[s]>>
           rest == Events(w) \ {e}
<1>1. e \in Events(w) /\ e \notin Events(v)
  BY EventOf
<1>2. Events(v) \subseteq rest
  BY <1>1, EventsGrow
<1>3. /\ IsFiniteSet(rest) /\ Cardinality(rest) = Cardinality(Events(w)) - 1
  BY <1>1, FS_RemoveElement DEF Fit
<1>4. /\ IsFiniteSet(Events(v)) /\ Cardinality(Events(v)) <= Cardinality(rest)
  BY <1>2, <1>3, FS_Subset
<1>5. /\ Cardinality(Events(v)) \in Nat /\ Cardinality(Events(w)) \in Nat
      /\ Cardinality(Instance) \in Nat
  BY <1>4, FS_CardinalityType, ServoAssumption DEF Fit
<1>. QED
  BY <1>3, <1>4, <1>5, ServoAssumption DEF Fit, HasRoom

(* One event less of one servo and one more of another fit as well.        *)
LEMMA MovedFits ==
  ASSUME NEW v \in [Instance -> Nat], NEW g \in Instance, NEW d \in Instance,
         g # d, v[g] > 0, Fit(v)
  PROVE  Fit([v EXCEPT ![g] = @ - 1, ![d] = @ + 1])
<1> DEFINE w == [v EXCEPT ![g] = @ - 1, ![d] = @ + 1]
           gone == <<g, v[g]>>
           new == <<d, v[d] + 1>>
           rest == Events(v) \ {gone}
<1>1. w \in [Instance -> Nat] /\ w[g] = v[g] - 1 /\ w[d] = v[d] + 1
      /\ \A t \in Instance \ {g, d} : w[t] = v[t]
  OBVIOUS
<1>2. gone \in Events(v)
  BY EventOf
<1>3. Events(w) \subseteq rest \cup {new}
  <2> HIDE DEF w
  <2>1. SUFFICES ASSUME NEW t \in Instance, NEW e \in {t} \X (1..w[t])
                 PROVE  e \in rest \cup {new}
    BY DEF Events
  <2>2. PICK k \in 1..w[t] : e = <<t, k>>
    BY <2>1
  <2>3. k \in 1..v[t] \/ e = new
    BY <1>1, <2>2
  <2>4. e # gone
    BY <1>1, <2>2
  <2>. QED
    BY <2>2, <2>3, <2>4, EventOf
<1>4. /\ IsFiniteSet(rest) /\ Cardinality(rest) = Cardinality(Events(v)) - 1
  BY <1>2, FS_RemoveElement DEF Fit
<1>5. /\ IsFiniteSet(rest \cup {new})
      /\ Cardinality(rest \cup {new}) <= Cardinality(Events(v))
  <2>1. /\ IsFiniteSet(rest \cup {new})
        /\ Cardinality(rest \cup {new}) = IF new \in rest THEN Cardinality(rest)
                                          ELSE Cardinality(rest) + 1
    <3> HIDE DEF rest, new
    <3>. QED
      BY <1>4, FS_AddElement
  <2>2. Cardinality(Events(v)) \in Nat
    BY FS_CardinalityType DEF Fit
  <2> HIDE DEF rest, new
  <2>. QED
    BY <1>4, <2>1, <2>2
<1>6. /\ IsFiniteSet(Events(w)) /\ Cardinality(Events(w)) <= Cardinality(rest \cup {new})
  BY <1>3, <1>5, FS_Subset
<1>7. /\ Cardinality(Events(w)) \in Nat /\ Cardinality(Events(v)) \in Nat
      /\ Cardinality(rest \cup {new}) \in Nat /\ Cardinality(Instance) \in Nat
  BY <1>5, <1>6, FS_CardinalityType, ServoAssumption DEF Fit
<1>8. Fit(w)
  BY <1>5, <1>6, <1>7 DEF Fit
<1>. QED
  BY <1>8
-----------------------------------------------------------------------------
LEMMA ClaimsType ==
  ASSUME ServoTypeOK
  PROVE  /\ Claims \in [Instance -> Nat]
         /\ \A s \in Instance : /\ pending[s] \in Nat
                                /\ Claims[s] = IF Owed(s) THEN pending[s] + 1 ELSE pending[s]
<1>1. \A s \in Instance : pending[s] \in Nat
  BY DEF ServoTypeOK
<1> HIDE DEF Owed
<1>. QED
  BY <1>1 DEF Claims

LEMMA ServoInitInv == ServoInit => ServosInv
<1> SUFFICES ASSUME ServoInit PROVE ServosInv
  OBVIOUS
<1>1. (CHOOSE a \in Angle : TRUE) \in Angle
  BY ServoAssumption
<1>2. ServoTypeOK
  BY <1>1, ServoAssumption DEF ServoInit, ServoTypeOK, ServoProps, AtRest
<1>3. OffInStandby /\ \A s \in Instance : ServoInv(s) /\ Owed(s) /\ pending[s] = 0
  BY DEF ServoInit, OffInStandby, ServoInv, ServoBusy, AtRest, Owed
<1>4. Fit(Claims)
  <2> DEFINE f == [s \in Instance |-> <<s, 1>>]
             Image == {f[s] : s \in Instance}
  <2>1. /\ IsFiniteSet(Image) /\ Cardinality(Image) <= Cardinality(Instance)
    <3>1. f \in Surjection(Instance, Image)
      BY DEF Surjection
    <3>. QED
      BY <3>1, ServoAssumption, FS_Surjection
  <2>2. \A s \in Instance : Claims[s] = 1
    BY <1>2, <1>3, ClaimsType
  <2>3. Events(Claims) \subseteq Image
    <3>1. SUFFICES ASSUME NEW s \in Instance, NEW e \in {s} \X (1..Claims[s]) PROVE e \in Image
      BY DEF Events
    <3>2. e = <<s, 1>>
      BY <2>2
    <3>. QED
      BY <3>2
  <2>4. /\ IsFiniteSet(Events(Claims)) /\ Cardinality(Events(Claims)) <= Cardinality(Image)
    BY <2>1, <2>3, FS_Subset
  <2>. QED
    BY <2>1, <2>4, FS_CardinalityType, ServoAssumption DEF Fit
<1>. QED
  BY <1>2, <1>3, <1>4 DEF ServosInv

(* A step after which no servo has more events, with the one it is owed,   *)
(* than before.                                                            *)
LEMMA NoMoreClaims ==
  ASSUME ServosInv, ServoTypeOK',
         \A t \in Instance : (IF Owed(t)' THEN pending'[t] + 1 ELSE pending'[t])
                               <= IF Owed(t) THEN pending[t] + 1 ELSE pending[t]
  PROVE  Fit(Claims')
<1>1. Claims \in [Instance -> Nat] /\ Fit(Claims)
      /\ \A t \in Instance : Claims[t] = IF Owed(t) THEN pending[t] + 1 ELSE pending[t]
  BY ClaimsType DEF ServosInv
<1>2. Claims' \in [Instance -> Nat]
      /\ \A t \in Instance : Claims'[t] = IF Owed(t)' THEN pending'[t] + 1 ELSE pending'[t]
  <2>1. \A t \in Instance : pending'[t] \in Nat
    BY DEF ServoTypeOK
  <2> HIDE DEF Owed
  <2>. QED
    BY <2>1 DEF Claims
<1>3. \A t \in Instance : Claims'[t] <= Claims[t]
  BY <1>1, <1>2
<1> HIDE DEF Claims
<1>. QED
  BY <1>1, <1>2, <1>3, Fewer

(* The interrupt finds a slot for the event its callback leaves.           *)
LEMMA InterruptRoom ==
  ASSUME ServosInv, NEW s \in Instance, pending[s] > 0
  PROVE  HasRoom([pending EXCEPT ![s] = @ - 1])
<1> DEFINE left == [pending EXCEPT ![s] = @ - 1]
<1>1. /\ Claims \in [Instance -> Nat] /\ Fit(Claims) /\ nulls \in 0..Spare
      /\ pending \in [Instance -> Nat] /\ \A t \in Instance : pending[t] <= Claims[t]
  <2>1. \A t \in Instance : pending[t] <= Claims[t]
    BY ClaimsType DEF ServosInv
  <2>. QED
    BY <2>1, ClaimsType DEF ServosInv, ServoTypeOK
<1>2. /\ left \in [Instance -> Nat] /\ left[s] < Claims[s]
      /\ \A t \in Instance : left[t] <= Claims[t]
  <2>1. left[s] = pending[s] - 1 /\ \A t \in Instance \ {s} : left[t] = pending[t]
    BY <1>1
  <2>2. left \in [Instance -> Nat]
    BY <1>1
  <2> HIDE DEF left
  <2>. QED
    BY <1>1, <2>1, <2>2
<1> HIDE DEF left, Claims
<1>3. HasRoom(left)
  BY <1>1, <1>2, RoomBelow
<1>. QED
  BY <1>3 DEF left

LEMMA ServoInterruptInv ==
  ASSUME ServosInv, NEW s \in Instance, Interrupt(s) PROVE ServosInv'
<1> DEFINE left == [pending EXCEPT ![s] = @ - 1]
<1>1. ServoTypeOK /\ OffInStandby /\ \A t \in Instance : ServoInv(t)
  BY DEF ServosInv
<1>2. left \in [Instance -> Nat] /\ left[s] = pending[s] - 1 /\ pending[s] > 0
      /\ \A t \in Instance \ {s} : left[t] = pending[t]
  BY <1>1 DEF ServoTypeOK, Interrupt
<1>3. pending' = IF servo[s].props.speed = 0 THEN left ELSE pending
  <2>1. Enqueued(s, left) = [left EXCEPT ![s] = @ + 1]
    BY <1>2, InterruptRoom DEF Enqueued
  <2>2. [left EXCEPT ![s] = @ + 1] = pending
    <3>1. pending[s] \in Nat /\ pending = [t \in Instance |-> pending[t]]
      BY <1>1 DEF ServoTypeOK
    <3> HIDE DEF left
    <3>2. [left EXCEPT ![s] = @ + 1][s] = pending[s]
      BY <1>2, <3>1
    <3>. QED
      BY <1>2, <3>1, <3>2
  <2>3. pending' = NextEvent(s, left)
    BY Zenon DEF Interrupt
  <2>. QED
    BY <2>1, <2>2, <2>3, Zenon DEF NextEvent
<1>4. /\ port' = Toggled(s) /\ undone' = undone \ {s}
      /\ servo' = [servo EXCEPT ![s].on_duty = Duty(s, port')]
      /\ UNCHANGED <<asked, lost, doubled>>
  BY Zenon DEF Interrupt
<1>5. /\ nulls' \in 0..Spare /\ servoLoop'.met \in BOOLEAN
      /\ servoLoop' = [servoLoop EXCEPT !.met = servoLoop'.met]
  <2>1. nulls' \in 0..Spare
    <3>1. nulls' \in OneNullMore \/ nulls' = nulls
      BY DEF Interrupt
    <3>. QED
      BY <1>1, <3>1, ServoAssumption DEF OneNullMore, ServoTypeOK
  <2>2. servoLoop' = [servoLoop EXCEPT !.met = @ \/ (servoLoop.at = "enqueue" /\ pending' # left)]
    BY Zenon DEF Interrupt
  <2>3. servoLoop.met \in BOOLEAN
    BY <1>1 DEF ServoTypeOK
  <2>. QED
    BY <1>1, <2>1, <2>2, <2>3 DEF ServoTypeOK
<1> HIDE DEF left
<1>6. /\ port' \in SUBSET Instance
      /\ servo'[s].on_duty = "STANDY" <=> servo[s].props.speed = 0
      /\ servo[s].props.speed = 0 => s \notin port'
      /\ \A t \in Instance \ {s} : t \in port' <=> t \in port
  BY <1>1, <1>4 DEF Toggled, Duty, ServoTypeOK
<1>7. /\ servo'[s].on_duty \in {"STANDY", "ON_DUTY", "ON_OFFSET"}
      /\ servo'[s].stage = servo[s].stage /\ servo'[s].props = servo[s].props
      /\ \A t \in Instance \ {s} : servo'[t] = servo[t]
  BY <1>1, <1>4 DEF Duty, ServoTypeOK
<1>8. ServoTypeOK'
  <2>1. servo' \in [Instance -> [stage : {"DEFINED", "PREPARED", "RELEASED"}, props : ServoProps,
                                 on_duty : {"STANDY", "ON_DUTY", "ON_OFFSET"}]]
    BY <1>1, <1>4 DEF Duty, ServoTypeOK
  <2>2. pending' \in [Instance -> Nat]
    BY <1>1, <1>2, <1>3 DEF ServoTypeOK
  <2>. QED
    BY <1>1, <1>4, <1>5, <1>6, <2>1, <2>2 DEF ServoTypeOK
<1>9. OffInStandby'
  BY <1>1, <1>4, <1>6, <1>7 DEF OffInStandby, ServoTypeOK
<1>10. \A t \in Instance : /\ ServoBusy(t, "decide")' <=> ServoBusy(t, "decide")
                           /\ ServoBusy(t, "write")' <=> ServoBusy(t, "write")
                           /\ ServoBusy(t, "enqueue")' <=> ServoBusy(t, "enqueue")
                           /\ ServoBusy(t, "copy")' <=> ServoBusy(t, "copy")
                           /\ ServoBusy(t, "restart")' <=> ServoBusy(t, "restart")
  BY <1>1, <1>5 DEF ServoBusy, ServoTypeOK
<1>11. servoLoop'.write = servoLoop.write
  BY <1>1, <1>5 DEF ServoTypeOK
<1>12. \A t \in Instance : pending[t] \in Nat
  BY <1>1 DEF ServoTypeOK
<1>13. ASSUME NEW t \in Instance
       PROVE  /\ ServoInv(t)'
              /\ (IF Owed(t)' THEN pending'[t] + 1 ELSE pending'[t])
                   <= IF Owed(t) THEN pending[t] + 1 ELSE pending[t]
  <2>0. ServoInv(t) /\ pending[t] \in Nat
    BY <1>1, <1>12
  <2>1. CASE t = s
    <3>1. Owed(s)' => servo[s].props.speed = 0 \/ Owed(s)
      BY <1>6, <1>7, <1>10 DEF Owed
    <3>2. pending'[s] = IF servo[s].props.speed = 0 THEN pending[s] - 1 ELSE pending[s]
      BY <1>2, <1>3
    <3>3. s \notin lost
      BY <1>2, <2>0, <2>1 DEF ServoInv
    <3>4. (IF Owed(s)' THEN pending'[s] + 1 ELSE pending'[s])
             <= IF Owed(s) THEN pending[s] + 1 ELSE pending[s]
      <4> HIDE DEF Owed
      <4>. QED
        BY <1>2, <2>0, <2>1, <3>1, <3>2
    <3>5. s \notin doubled' => pending'[s] <= 1 /\ (Owed(s)' => pending'[s] = 0)
      <4> HIDE DEF Owed
      <4>. QED
        BY <1>2, <1>4, <2>0, <2>1, <3>1, <3>2 DEF ServoInv
    <3>6. ~Owed(s)' => pending'[s] > 0
      <4>1. ~Owed(s)' => servo[s].props.speed # 0
        BY <1>6 DEF Owed
      <4>. QED
        BY <1>2, <3>2, <4>1
    <3>7. s \notin lost'
      BY <1>4, <3>3
    <3>8. /\ ServoBusy(s, "decide")' => servo'[s].stage = "PREPARED"
          /\ ServoBusy(s, "write")' => servo'[s].stage # "RELEASED"
          /\ ServoBusy(s, "write")' /\ servo'[s].props.speed = 0 => s \notin servoLoop'.write
          /\ ServoBusy(s, "enqueue")' => servo'[s].stage = "RELEASED" /\ servo'[s].props.speed # 0
          /\ ServoBusy(s, "enqueue")' => servo'[s].on_duty # "STANDY"
          /\ ServoBusy(s, "copy")' \/ ServoBusy(s, "restart")' => servo'[s].stage # "DEFINED"
          /\ servo'[s].on_duty = "STANDY" => servo'[s].props.speed = 0
      BY <1>6, <1>7, <1>10, <1>11, <2>0, <2>1 DEF ServoInv
    <3>. QED
      BY <2>1, <3>4, <3>5, <3>6, <3>7, <3>8 DEF ServoInv
  <2>2. CASE t # s
    <3>1. servo'[t] = servo[t] /\ pending'[t] = pending[t]
      BY <1>2, <1>3, <1>7, <2>2
    <3>2. Owed(t)' <=> Owed(t)
      BY <1>10, <3>1 DEF Owed
    <3>3. (IF Owed(t)' THEN pending'[t] + 1 ELSE pending'[t])
             <= IF Owed(t) THEN pending[t] + 1 ELSE pending[t]
      <4> HIDE DEF Owed
      <4>. QED
        BY <2>0, <3>1, <3>2
    <3>4. ServoInv(t)'
      <4> HIDE DEF Owed
      <4>. QED
        BY <1>4, <1>10, <1>11, <2>0, <3>1, <3>2 DEF ServoInv
    <3>. QED
      BY <3>3, <3>4
  <2>. QED
    BY <2>1, <2>2
<1>14. Fit(Claims')
  BY <1>8, <1>13, NoMoreClaims
<1>. QED
  BY <1>8, <1>9, <1>13, <1>14 DEF ServosInv

(* A step of the loop that has nothing to do with servo t.                 *)
LEMMA OtherServo ==
  ASSUME NEW t \in Instance, ServoInv(t), servoLoop.of # {t}, servoLoop'.of # {t},
         servo'[t] = servo[t], pending'[t] = pending[t],
         t \in lost' <=> t \in lost, t \in doubled' <=> t \in doubled
  PROVE  ServoInv(t)' /\ (Owed(t)' <=> Owed(t))
<1>1. \A at : ~ServoBusy(t, at) /\ ~ServoBusy(t, at)'
  BY DEF ServoBusy
<1>2. Owed(t)' <=> Owed(t)
  BY <1>1 DEF Owed
<1>3. ServoInv(t)'
  <2> HIDE DEF Owed
  <2>. QED
    BY <1>1, <1>2 DEF ServoInv
<1>. QED
  BY <1>2, <1>3

(* A step of the loop with servo s that leaves the events alone.           *)
LEMMA LoopStep ==
  ASSUME ServosInv, ServoTypeOK', OffInStandby', NEW s \in Instance,
         pending' = pending, doubled' = doubled,
         \A t \in Instance \ {s} : /\ servo'[t] = servo[t] /\ (t \in lost' <=> t \in lost)
                                   /\ servoLoop.of # {t} /\ servoLoop'.of # {t},
         ServoInv(s)', Owed(s)' => Owed(s)
  PROVE  ServosInv'
<1>1. \A t \in Instance : pending[t] \in Nat
  BY DEF ServosInv, ServoTypeOK
<1>2. ASSUME NEW t \in Instance PROVE ServoInv(t)' /\ (Owed(t)' => Owed(t))
  <2>1. CASE t = s
    BY <2>1
  <2>2. CASE t # s
    BY <2>2, OtherServo DEF ServosInv
  <2>. QED
    BY <2>1, <2>2
<1>3. Fit(Claims')
  <2> HIDE DEF Owed
  <2>1. \A t \in Instance : (IF Owed(t)' THEN pending'[t] + 1 ELSE pending'[t])
                              <= IF Owed(t) THEN pending[t] + 1 ELSE pending[t]
    BY <1>1, <1>2
  <2>. QED
    BY <2>1, NoMoreClaims
<1>. QED
  BY <1>2, <1>3 DEF ServosInv

LEMMA MountServoInv == ASSUME ServosInv, NEW s \in Instance, MountServo(s) PROVE ServosInv'
<1> DEFINE mounted == [servo[s] EXCEPT !.props = asked[s], !.on_duty = "ON_DUTY"]
<1>1. ServoTypeOK /\ OffInStandby /\ ServoInv(s) /\ servo[s].stage = "DEFINED"
  BY DEF ServosInv, MountServo
<1>2. mounted \in [stage : {"DEFINED", "PREPARED", "RELEASED"}, props : ServoProps,
                   on_duty : {"STANDY", "ON_DUTY", "ON_OFFSET"}]
      /\ mounted.on_duty = "ON_DUTY" /\ mounted.stage = "DEFINED"
  BY <1>1 DEF ServoTypeOK
<1>3. servo' = [servo EXCEPT ![s] = mounted]
  BY DEF MountServo
<1>4. /\ servoLoop = AtRest
      /\ servoLoop' = [at |-> "write", of |-> {s}, write |-> port \ {s}, met |-> FALSE]
      /\ UNCHANGED <<asked, pending, nulls, port, lost, doubled, undone>>
  BY DEF MountServo, AtRest
<1> HIDE DEF mounted
<1>5. ServoTypeOK'
  BY <1>1, <1>2, <1>3, <1>4 DEF ServoTypeOK
<1>6. servo'[s] = mounted /\ \A t \in Instance \ {s} : servo'[t] = servo[t]
  BY <1>1, <1>3 DEF ServoTypeOK
<1>7. OffInStandby'
  BY <1>1, <1>2, <1>4, <1>6 DEF OffInStandby
<1>8. Owed(s) /\ Owed(s)'
  BY <1>1, <1>2, <1>6 DEF Owed
<1>9. ServoInv(s)'
  <2>1. /\ ~ServoBusy(s, "decide")' /\ ~ServoBusy(s, "enqueue")'
        /\ ~ServoBusy(s, "copy")' /\ ~ServoBusy(s, "restart")'
    BY <1>4 DEF ServoBusy
  <2>2. s \notin servoLoop'.write
    BY <1>4
  <2> HIDE DEF Owed
  <2>. QED
    BY <1>1, <1>2, <1>4, <1>6, <1>8, <2>1, <2>2 DEF ServoInv
<1>. QED
  BY <1>4, <1>5, <1>6, <1>7, <1>8, <1>9, LoopStep DEF AtRest

LEMMA ReadPortInv == ASSUME ServosInv, NEW s \in Instance, ReadPort(s) PROVE ServosInv'
<1>1. ServoTypeOK /\ OffInStandby /\ ServoInv(s) /\ servo[s].stage = "PREPARED"
  BY DEF ServosInv, ReadPort
<1>2. /\ servoLoop = AtRest
      /\ servoLoop' = [at |-> "write", of |-> {s}, write |-> Toggled(s), met |-> FALSE]
      /\ UNCHANGED <<asked, servo, pending, nulls, port, lost, doubled, undone>>
  BY DEF ReadPort, AtRest
<1>3. Toggled(s) \in SUBSET Instance /\ (servo[s].props.speed = 0 => s \notin Toggled(s))
  BY <1>1 DEF Toggled, ServoTypeOK
<1>4. ServoTypeOK'
  BY <1>1, <1>2, <1>3 DEF ServoTypeOK
<1>5. OffInStandby'
  BY <1>1, <1>2 DEF OffInStandby
<1>6. ~ServoBusy(s, "decide")
  BY <1>2 DEF ServoBusy, AtRest
<1>7. /\ ~ServoBusy(s, "decide")' /\ ~ServoBusy(s, "enqueue")'
      /\ ~ServoBusy(s, "copy")' /\ ~ServoBusy(s, "restart")'
  BY <1>2 DEF ServoBusy
<1>8. Owed(s) /\ Owed(s)'
  BY <1>1, <1>2, <1>6, <1>7 DEF Owed
<1>9. ServoInv(s)'
  <2> HIDE DEF Owed
  <2>. QED
    BY <1>1, <1>2, <1>3, <1>7, <1>8 DEF ServoInv
<1>. QED
  BY <1>2, <1>4, <1>5, <1>8, <1>9, LoopStep DEF AtRest

LEMMA WritePortInv == ASSUME ServosInv, NEW s \in Instance, WritePort(s) PROVE ServosInv'
<1> DEFINE released == [servo[s] EXCEPT !.stage = "RELEASED", !.on_duty = Duty(s, port')]
<1>1. /\ ServoTypeOK /\ OffInStandby /\ ServoInv(s)
      /\ servoLoop.at = "write" /\ servoLoop.of = {s}
  BY DEF ServosInv, WritePort
<1>2. /\ port' = servoLoop.write
      /\ undone' = (undone \cup (port' \ port)) \ {s}
      /\ servo' = [servo EXCEPT ![s].stage = "RELEASED", ![s].on_duty = Duty(s, port')]
      /\ UNCHANGED <<asked, pending, nulls, lost, doubled>>
  BY Zenon DEF WritePort
<1>3. /\ servo[s].props.speed = 0 => servoLoop' = AtRest
      /\ servo[s].props.speed # 0 =>
           servoLoop' = [at |-> "enqueue", of |-> {s}, write |-> {}, met |-> FALSE]
  BY DEF WritePort, AtRest
<1>a. released \in [stage : {"DEFINED", "PREPARED", "RELEASED"}, props : ServoProps,
                     on_duty : {"STANDY", "ON_DUTY", "ON_OFFSET"}]
  BY <1>1 DEF ServoTypeOK, Duty
<1>b. servo' = [servo EXCEPT ![s] = released]
  BY <1>2
<1>4. /\ servo'[s].stage = "RELEASED" /\ servo'[s].props = servo[s].props
      /\ servo'[s].on_duty \in {"STANDY", "ON_DUTY", "ON_OFFSET"}
      /\ servo'[s].on_duty = "STANDY" <=> servo[s].props.speed = 0
      /\ \A t \in Instance \ {s} : servo'[t] = servo[t]
  BY <1>1, <1>2 DEF ServoTypeOK, Duty
<1>5. ServoTypeOK'
  <2>1. servo' \in [Instance -> [stage : {"DEFINED", "PREPARED", "RELEASED"}, props : ServoProps,
                                 on_duty : {"STANDY", "ON_DUTY", "ON_OFFSET"}]]
    <3> HIDE DEF released
    <3>. QED
      BY <1>1, <1>a, <1>b DEF ServoTypeOK
  <2>2. servoLoop' \in [at : {"rest", "write", "enqueue", "decide", "copy", "restart"},
                        of : SUBSET Instance, write : SUBSET Instance, met : BOOLEAN]
    <3>1. \/ servoLoop' = AtRest
          \/ servoLoop' = [at |-> "enqueue", of |-> {s}, write |-> {}, met |-> FALSE]
      BY <1>3, Zenon
    <3>2. CASE servoLoop' = AtRest
      BY <3>2 DEF AtRest
    <3>3. CASE servoLoop' = [at |-> "enqueue", of |-> {s}, write |-> {}, met |-> FALSE]
      BY <3>3
    <3>. QED
      BY <3>1, <3>2, <3>3
  <2>. QED
    BY <1>1, <1>2, <2>1, <2>2 DEF ServoTypeOK
<1>6. ServoBusy(s, "write")
  BY <1>1 DEF ServoBusy
<1>7. OffInStandby'
  <2>1. servo[s].props.speed = 0 => s \notin port'
    BY <1>1, <1>2, <1>6 DEF ServoInv
  <2>. QED
    BY <1>1, <1>2, <1>4, <2>1 DEF OffInStandby, ServoTypeOK
<1>8. Owed(s) /\ Owed(s)'
  <2>1. Owed(s)
    BY <1>1, <1>6 DEF Owed, ServoInv, ServoBusy, ServoTypeOK
  <2>2. Owed(s)'
    BY <1>3, <1>4 DEF Owed, ServoBusy
  <2>. QED
    BY <2>1, <2>2
<1>9. ServoInv(s)'
  <2>1. /\ ~ServoBusy(s, "decide")' /\ ~ServoBusy(s, "write")'
        /\ ~ServoBusy(s, "copy")' /\ ~ServoBusy(s, "restart")'
        /\ ServoBusy(s, "enqueue")' => servo[s].props.speed # 0
    BY <1>3 DEF ServoBusy, AtRest
  <2> HIDE DEF Owed
  <2>. QED
    BY <1>1, <1>2, <1>4, <1>8, <2>1 DEF ServoInv
<1>10. \A t \in Instance \ {s} : servoLoop.of # {t} /\ servoLoop'.of # {t}
  BY <1>1, <1>3 DEF AtRest
<1>. QED
  BY <1>2, <1>4, <1>5, <1>7, <1>8, <1>9, <1>10, LoopStep

LEMMA PrepareServoInv == ASSUME ServosInv, NEW s \in Instance, PrepareServo(s) PROVE ServosInv'
<1>1. ServoTypeOK /\ OffInStandby /\ ServoInv(s) /\ servo[s].stage = "RELEASED"
  BY DEF ServosInv, PrepareServo
<1>2. /\ servoLoop = AtRest
      /\ servoLoop' = [at |-> "decide", of |-> {s}, write |-> {}, met |-> FALSE]
      /\ servo' = [servo EXCEPT ![s].stage = "PREPARED"]
      /\ UNCHANGED <<asked, pending, nulls, port, lost, doubled, undone>>
  BY DEF PrepareServo, AtRest
<1>3. ServoTypeOK'
  BY <1>1, <1>2 DEF ServoTypeOK
<1>4. /\ servo'[s].stage = "PREPARED" /\ servo'[s].on_duty = servo[s].on_duty
      /\ \A t \in Instance \ {s} : servo'[t] = servo[t]
  BY <1>1, <1>2 DEF ServoTypeOK
<1>5. OffInStandby'
  BY <1>1, <1>2, <1>4 DEF OffInStandby
<1>6. /\ ServoBusy(s, "decide")' /\ ~ServoBusy(s, "enqueue")' /\ ~ServoBusy(s, "write")'
      /\ ~ServoBusy(s, "copy")' /\ ~ServoBusy(s, "restart")'
      /\ ~ServoBusy(s, "enqueue")
  BY <1>2 DEF ServoBusy, AtRest
<1>7. Owed(s)' <=> Owed(s)
  BY <1>1, <1>4, <1>6 DEF Owed
<1>8. ServoInv(s)'
  <2> HIDE DEF Owed
  <2>. QED
    BY <1>1, <1>2, <1>4, <1>6, <1>7 DEF ServoInv
<1>. QED
  BY <1>2, <1>3, <1>4, <1>5, <1>7, <1>8, LoopStep DEF AtRest

LEMMA DecideInv == ASSUME ServosInv, NEW s \in Instance, Decide(s) PROVE ServosInv'
<1>1. /\ ServoTypeOK /\ OffInStandby /\ ServoInv(s)
      /\ servoLoop.at = "decide" /\ servoLoop.of = {s}
  BY DEF ServosInv, Decide
<1>2. /\ servoLoop' = [servoLoop EXCEPT !.at = "copy"]
      /\ servo' = IF servo[s].on_duty = "STANDY" THEN servo
                  ELSE [servo EXCEPT ![s].stage = "RELEASED"]
      /\ UNCHANGED <<asked, pending, nulls, port, lost, doubled, undone>>
  BY Zenon DEF Decide
<1>3. ServoTypeOK'
  BY <1>1, <1>2 DEF ServoTypeOK
<1>4. /\ servo'[s].stage = IF servo[s].on_duty = "STANDY" THEN servo[s].stage ELSE "RELEASED"
      /\ servo'[s].on_duty = servo[s].on_duty
      /\ \A t \in Instance : servo'[t].on_duty = servo[t].on_duty
      /\ \A t \in Instance \ {s} : servo'[t] = servo[t]
  BY <1>1, <1>2 DEF ServoTypeOK
<1>5. OffInStandby'
  BY <1>1, <1>2, <1>4 DEF OffInStandby
<1>6. /\ ServoBusy(s, "decide") /\ ServoBusy(s, "copy")' /\ ~ServoBusy(s, "enqueue")
      /\ ~ServoBusy(s, "decide")' /\ ~ServoBusy(s, "enqueue")' /\ ~ServoBusy(s, "write")'
      /\ ~ServoBusy(s, "restart")' /\ servoLoop'.of = {s}
  BY <1>1, <1>2 DEF ServoBusy, ServoTypeOK
<1>7. servo[s].stage = "PREPARED"
  BY <1>1, <1>6 DEF ServoInv
<1>8. Owed(s)' <=> Owed(s)
  BY <1>4, <1>6, <1>7 DEF Owed
<1>9. ServoInv(s)'
  <2> HIDE DEF Owed
  <2>. QED
    BY <1>1, <1>2, <1>4, <1>6, <1>7, <1>8 DEF ServoInv
<1>. QED
  BY <1>1, <1>2, <1>3, <1>4, <1>5, <1>6, <1>8, <1>9, LoopStep

LEMMA CopyPropsInv == ASSUME ServosInv, NEW s \in Instance, CopyProps(s) PROVE ServosInv'
<1>1. /\ ServoTypeOK /\ OffInStandby /\ ServoInv(s)
      /\ servoLoop.at = "copy" /\ servoLoop.of = {s}
  BY DEF ServosInv, CopyProps
<1>2. /\ servo' = [servo EXCEPT ![s].props = asked[s]]
      /\ UNCHANGED <<asked, pending, nulls, port, lost, doubled, undone>>
  BY Zenon DEF CopyProps
<1>3. \/ /\ servo[s].props.speed = 0 /\ asked[s].speed # 0
         /\ servoLoop' = [servoLoop EXCEPT !.at = "restart"]
      \/ /\ ~(servo[s].props.speed = 0 /\ asked[s].speed # 0)
         /\ servoLoop' = AtRest
  BY DEF CopyProps
<1>a. /\ servoLoop' \in [at : {"rest", "write", "enqueue", "decide", "copy", "restart"},
                          of : SUBSET Instance, write : SUBSET Instance, met : BOOLEAN]
      /\ servoLoop'.of = {} \/ servoLoop'.of = {s}
  <2>1. CASE servoLoop' = [servoLoop EXCEPT !.at = "restart"]
    BY <1>1, <2>1 DEF ServoTypeOK
  <2>2. CASE servoLoop' = AtRest
    BY <2>2 DEF AtRest
  <2>. QED
    BY <1>3, <2>1, <2>2
<1>4. ServoTypeOK'
  <2>1. servo' \in [Instance -> [stage : {"DEFINED", "PREPARED", "RELEASED"}, props : ServoProps,
                                 on_duty : {"STANDY", "ON_DUTY", "ON_OFFSET"}]]
    BY <1>1, <1>2 DEF ServoTypeOK
  <2>. QED
    BY <1>1, <1>2, <1>a, <2>1 DEF ServoTypeOK
<1>5. /\ servo'[s].stage = servo[s].stage /\ servo'[s].on_duty = servo[s].on_duty
      /\ servo'[s].props = asked[s]
      /\ \A t \in Instance : servo'[t].on_duty = servo[t].on_duty
      /\ \A t \in Instance \ {s} : servo'[t] = servo[t]
  BY <1>1, <1>2 DEF ServoTypeOK
<1>6. OffInStandby'
  BY <1>1, <1>2, <1>5 DEF OffInStandby
<1>7. /\ ServoBusy(s, "copy") /\ ~ServoBusy(s, "decide") /\ ~ServoBusy(s, "enqueue")
      /\ ~ServoBusy(s, "decide")' /\ ~ServoBusy(s, "enqueue")' /\ ~ServoBusy(s, "write")'
      /\ ~ServoBusy(s, "copy")' /\ ~ServoBusy(s, "restart")
  BY <1>1, <1>3 DEF ServoBusy, AtRest, ServoTypeOK
<1>8. Owed(s)' <=> Owed(s)
  BY <1>5, <1>7 DEF Owed
<1>9. ServoInv(s)'
  <2>1. servo[s].stage = "RELEASED" /\ servo[s].on_duty = "STANDY" => servo[s].props.speed = 0
    BY <1>1, <1>7 DEF ServoInv
  <2>2. ServoBusy(s, "restart")' \/ servo[s].props.speed # 0 \/ asked[s].speed = 0
    BY <1>1, <1>3 DEF ServoBusy, ServoTypeOK
  <2>3. /\ s \notin doubled' => pending'[s] <= 1 /\ (Owed(s)' => pending'[s] = 0)
        /\ s \in lost' => pending'[s] = 0
        /\ ~Owed(s)' => (s \in lost' <=> pending'[s] = 0)
        /\ servo'[s].stage # "DEFINED"
    <3> HIDE DEF Owed
    <3>. QED
      BY <1>1, <1>2, <1>5, <1>7, <1>8 DEF ServoInv
  <2> HIDE DEF Owed
  <2>. QED
    BY <1>5, <1>7, <2>1, <2>2, <2>3 DEF ServoInv
<1>10. \A t \in Instance \ {s} : servoLoop.of # {t} /\ servoLoop'.of # {t}
  BY <1>1, <1>a
<1>. QED
  BY <1>2, <1>4, <1>5, <1>6, <1>8, <1>9, <1>10, LoopStep

LEMMA RestartServoInv == ASSUME ServosInv, NEW s \in Instance, RestartServo(s) PROVE ServosInv'
<1>1. /\ ServoTypeOK /\ OffInStandby /\ ServoInv(s)
      /\ servoLoop.at = "restart" /\ servoLoop.of = {s}
  BY DEF ServosInv, RestartServo
<1>2. /\ servo' = [servo EXCEPT ![s].on_duty = "ON_DUTY"]
      /\ servoLoop' = AtRest
      /\ lost' = IF servo[s].stage = "RELEASED" /\ pending[s] = 0 THEN lost \cup {s} ELSE lost
      /\ UNCHANGED <<asked, pending, nulls, port, doubled, undone>>
  BY Zenon DEF RestartServo
<1>3. ServoTypeOK'
  BY <1>1, <1>2 DEF ServoTypeOK, AtRest
<1>4. /\ servo'[s].stage = servo[s].stage /\ servo'[s].on_duty = "ON_DUTY"
      /\ \A t \in Instance \ {s} : servo'[t] = servo[t] /\ (t \in lost' <=> t \in lost)
  BY <1>1, <1>2 DEF ServoTypeOK
<1>5. OffInStandby'
  BY <1>1, <1>2, <1>4 DEF OffInStandby
<1>6. /\ ServoBusy(s, "restart") /\ ~ServoBusy(s, "decide") /\ ~ServoBusy(s, "enqueue")
      /\ ~ServoBusy(s, "decide")' /\ ~ServoBusy(s, "enqueue")' /\ ~ServoBusy(s, "write")'
      /\ ~ServoBusy(s, "copy")' /\ ~ServoBusy(s, "restart")'
  BY <1>1, <1>2 DEF ServoBusy, AtRest
<1>7. servo[s].stage \in {"PREPARED", "RELEASED"}
  BY <1>1, <1>6 DEF ServoInv, ServoTypeOK
<1>8. (Owed(s)' <=> servo[s].stage = "PREPARED") /\ (Owed(s)' => Owed(s))
  BY <1>4, <1>6, <1>7 DEF Owed
<1>9. ServoInv(s)'
  <2>1. /\ s \notin doubled' => pending'[s] <= 1 /\ (Owed(s)' => pending'[s] = 0)
        /\ s \in lost' => pending'[s] = 0
    <3> HIDE DEF Owed
    <3>. QED
      BY <1>1, <1>2, <1>8 DEF ServoInv
  <2>2. ~Owed(s)' => (s \in lost' <=> pending'[s] = 0)
    <3>1. ~Owed(s)' => servo[s].stage = "RELEASED"
      BY <1>7, <1>8
    <3> HIDE DEF Owed
    <3>. QED
      BY <1>2, <2>1, <3>1
  <2> HIDE DEF Owed
  <2>. QED
    BY <1>4, <1>6, <2>1, <2>2 DEF ServoInv
<1>. QED
  BY <1>1, <1>2, <1>3, <1>4, <1>5, <1>8, <1>9, LoopStep DEF AtRest

(* The loop finds a slot for the event it owes, whatever null events and   *)
(* doubled events there are.                                               *)
LEMMA LoopRoom ==
  ASSUME ServosInv, NEW s \in Instance, ServoBusy(s, "enqueue")
  PROVE  HasRoom(pending)
<1>1. /\ Claims \in [Instance -> Nat] /\ Fit(Claims) /\ nulls \in 0..Spare
      /\ pending \in [Instance -> Nat]
      /\ \A t \in Instance : Claims[t] = IF Owed(t) THEN pending[t] + 1 ELSE pending[t]
  BY ClaimsType DEF ServosInv, ServoTypeOK
<1>2. Owed(s)
  BY DEF Owed
<1> HIDE DEF Owed, Claims
<1>3. pending[s] < Claims[s] /\ \A t \in Instance : pending[t] <= Claims[t]
  BY <1>1, <1>2
<1>. QED
  BY <1>1, <1>3, RoomBelow

LEMMA EnqueueServoInv == ASSUME ServosInv, NEW s \in Instance, EnqueueServo(s) PROVE ServosInv'
<1> DEFINE both == Enqueued(s, pending)
           held == {t \in Instance : both[t] > 0}
<1>1. /\ ServoTypeOK /\ OffInStandby /\ \A t \in Instance : ServoInv(t)
      /\ servoLoop.at = "enqueue" /\ servoLoop.of = {s}
  BY DEF ServosInv, EnqueueServo
<1>2. /\ IF servoLoop.met
         THEN pending' \in Collided(s, pending) /\ nulls' \in OneNullMore
         ELSE pending' = both /\ nulls' = nulls
      /\ lost' = (lost \ {s}) \cup {t \in Instance : both[t] > 0 /\ pending'[t] = 0}
      /\ doubled' = doubled \cup {t \in Instance : pending'[t] > both[t]}
      /\ servoLoop' = AtRest
      /\ UNCHANGED <<asked, servo, port, undone>>
  BY Zenon DEF EnqueueServo
<1>3. \A t \in Instance : pending[t] \in Nat
  BY <1>1 DEF ServoTypeOK
<1>4. /\ both \in [Instance -> Nat] /\ both[s] = pending[s] + 1
      /\ \A t \in Instance \ {s} : both[t] = pending[t]
  <2>1. both = [pending EXCEPT ![s] = @ + 1]
    BY <1>1, LoopRoom DEF Enqueued, ServoBusy
  <2> HIDE DEF both
  <2>. QED
    BY <1>1, <2>1 DEF ServoTypeOK
<1>5. /\ servo[s].stage = "RELEASED" /\ servo[s].on_duty # "STANDY"
      /\ servo[s].props.speed # 0
  BY <1>1 DEF ServoInv, ServoBusy
<1>6. \A t \in Instance : \A at : ServoBusy(t, at) => t = s /\ at = "enqueue"
  BY <1>1 DEF ServoBusy
<1>7. \A t \in Instance : \A at : ~ServoBusy(t, at)'
  BY <1>2 DEF ServoBusy, AtRest
<1>8. \A t \in Instance : Owed(t)' <=> t # s /\ Owed(t)
  BY <1>2, <1>5, <1>6, <1>7 DEF Owed
<1>9. Owed(s)
  BY <1>1 DEF Owed, ServoBusy
<1>10. \/ pending' = both
       \/ \E t \in held : pending' = [both EXCEPT ![t] = @ - 1]
       \/ \E g \in held, d \in held : /\ g # d
                                      /\ pending' = [both EXCEPT ![g] = @ - 1, ![d] = @ + 1]
  <2>1. CASE ~servoLoop.met
    BY <1>2, <2>1
  <2>2. CASE servoLoop.met
    <3>1. pending' \in Collided(s, pending)
      BY <1>2, <2>2
    <3>2. \/ pending' = both
          \/ pending' \in {[both EXCEPT ![t] = @ - 1] : t \in held}
          \/ pending' \in {[both EXCEPT ![p[1]] = @ - 1, ![p[2]] = @ + 1] :
                             p \in {q \in held \X held : q[1] # q[2]}}
      BY <3>1, Zenon DEF Collided
    <3>3. ASSUME NEW p \in held \X held, p[1] # p[2],
                 pending' = [both EXCEPT ![p[1]] = @ - 1, ![p[2]] = @ + 1]
          PROVE  \E g \in held, d \in held : /\ g # d
                                             /\ pending' = [both EXCEPT ![g] = @ - 1, ![d] = @ + 1]
      <4> HIDE DEF held, both
      <4>1. p[1] \in held /\ p[2] \in held
        OBVIOUS
      <4>. QED
        BY <3>3, <4>1
    <3> HIDE DEF held, both
    <3>. QED
      BY <3>2, <3>3
  <2>. QED
    BY <2>1, <2>2
<1>11. held \subseteq Instance /\ \A t \in held : both[t] > 0
  OBVIOUS
<1> DEFINE due == [t \in Instance |-> IF Owed(t)' THEN both[t] + 1 ELSE both[t]]
<1>12. /\ due \in [Instance -> Nat] /\ Fit(due)
       /\ \A t \in Instance : due[t] = (IF Owed(t)' THEN both[t] + 1 ELSE both[t])
  <2>1. Claims \in [Instance -> Nat] /\ Fit(Claims)
        /\ \A t \in Instance : Claims[t] = IF Owed(t) THEN pending[t] + 1 ELSE pending[t]
    BY ClaimsType DEF ServosInv
  <2> HIDE DEF Owed, both, Claims
  <2>2. due \in [Instance -> Nat]
        /\ \A t \in Instance : due[t] = (IF Owed(t)' THEN both[t] + 1 ELSE both[t])
    BY <1>4
  <2>3. \A t \in Instance : due[t] <= Claims[t]
    <3> HIDE DEF due
    <3>. QED
      BY <1>3, <1>4, <1>8, <1>9, <2>1, <2>2
  <2> HIDE DEF due
  <2>. QED
    BY <2>1, <2>2, <2>3, Fewer
<1> HIDE DEF both, held, due, Owed
<1>13. /\ pending' \in [Instance -> Nat]
       /\ \A t \in Instance : both[t] = 0 => pending'[t] = 0
       /\ \/ \A t \in Instance : pending'[t] <= both[t]
          \/ \E g \in Instance, d \in Instance :
               /\ g # d /\ both[g] > 0
               /\ pending'[g] = both[g] - 1 /\ pending'[d] = both[d] + 1
               /\ \A t \in Instance \ {g, d} : pending'[t] = both[t]
  <2>1. CASE pending' = both
    BY <1>4, <2>1
  <2>2. ASSUME NEW t \in held, pending' = [both EXCEPT ![t] = @ - 1]
        PROVE  /\ pending' \in [Instance -> Nat]
               /\ \A u \in Instance : both[u] = 0 => pending'[u] = 0
               /\ \A u \in Instance : pending'[u] <= both[u]
    <3>1. both[t] \in Nat /\ both[t] > 0 /\ t \in Instance
      BY <1>4, <1>11
    <3>2. pending'[t] = both[t] - 1 /\ \A u \in Instance \ {t} : pending'[u] = both[u]
      BY <1>4, <2>2, <3>1
    <3>3. pending' \in [Instance -> Nat]
      BY <1>4, <2>2, <3>1
    <3>. QED
      BY <1>4, <3>1, <3>2, <3>3
  <2>3. ASSUME NEW g \in held, NEW d \in held, g # d,
               pending' = [both EXCEPT ![g] = @ - 1, ![d] = @ + 1]
        PROVE  /\ pending' \in [Instance -> Nat]
               /\ \A u \in Instance : both[u] = 0 => pending'[u] = 0
               /\ both[g] > 0 /\ g \in Instance /\ d \in Instance
               /\ pending'[g] = both[g] - 1 /\ pending'[d] = both[d] + 1
               /\ \A t \in Instance \ {g, d} : pending'[t] = both[t]
    <3>1. /\ both[g] \in Nat /\ both[g] > 0 /\ g \in Instance
          /\ both[d] \in Nat /\ both[d] > 0 /\ d \in Instance
      BY <1>4, <1>11
    <3>2. pending'[g] = both[g] - 1 /\ pending'[d] = both[d] + 1
          /\ \A u \in Instance \ {g, d} : pending'[u] = both[u]
      BY <1>4, <2>3, <3>1
    <3>3. pending' \in [Instance -> Nat]
      BY <1>4, <2>3, <3>1
    <3>. QED
      BY <1>4, <3>1, <3>2, <3>3
  <2>. QED
    BY <1>10, <2>1, <2>2, <2>3
<1>14. ServoTypeOK'
  <2>1. nulls' \in 0..Spare
    BY <1>1, <1>2, ServoAssumption DEF OneNullMore, ServoTypeOK
  <2>2. lost' \in SUBSET Instance /\ doubled' \in SUBSET Instance
    BY <1>1, <1>2 DEF ServoTypeOK
  <2>3. servoLoop' \in [at : {"rest", "write", "enqueue", "decide", "copy", "restart"},
                        of : SUBSET Instance, write : SUBSET Instance, met : BOOLEAN]
    BY <1>2 DEF AtRest
  <2>. QED
    BY <1>1, <1>2, <1>13, <2>1, <2>2, <2>3 DEF ServoTypeOK
<1>15. OffInStandby'
  BY <1>1, <1>2 DEF OffInStandby
<1>16. Fit(Claims')
  <2>1. Claims' \in [Instance -> Nat]
        /\ \A t \in Instance : Claims'[t] = IF Owed(t)' THEN pending'[t] + 1 ELSE pending'[t]
    BY <1>13 DEF Claims
  <2> HIDE DEF Claims
  <2>2. CASE \A t \in Instance : pending'[t] <= both[t]
    <3>1. \A t \in Instance : pending'[t] \in Nat /\ both[t] \in Nat
      BY <1>4, <1>13
    <3>2. \A t \in Instance : Claims'[t] <= due[t]
      BY <1>12, <2>1, <2>2, <3>1
    <3>. QED
      BY <1>12, <2>1, <3>2, Fewer
  <2>3. ASSUME NEW g \in Instance, NEW d \in Instance,
               g # d, both[g] > 0,
               pending'[g] = both[g] - 1, pending'[d] = both[d] + 1,
               \A t \in Instance \ {g, d} : pending'[t] = both[t]
        PROVE  Fit(Claims')
    <3> DEFINE moved == [due EXCEPT ![g] = @ - 1, ![d] = @ + 1]
    <3>1. \A t \in Instance : both[t] \in Nat
      BY <1>4
    <3>2. due[g] > 0 /\ due[g] \in Nat /\ due[d] \in Nat
      BY <1>12, <2>3, <3>1
    <3>3. Fit(moved)
      BY <1>12, <2>3, <3>2, MovedFits
    <3>4. moved[g] = due[g] - 1 /\ moved[d] = due[d] + 1 /\ moved \in [Instance -> Nat]
          /\ \A t \in Instance \ {g, d} : moved[t] = due[t]
      BY <1>12, <2>3, <3>2
    <3> HIDE DEF moved
    <3>5. \A t \in Instance : Claims'[t] = moved[t]
      BY <1>12, <2>1, <2>3, <3>1, <3>4
    <3>6. Claims' = moved
      BY <2>1, <3>4, <3>5
    <3>. QED
      BY <3>3, <3>6
  <2>. QED
    BY <1>13, <2>2, <2>3
<1>17. ASSUME NEW t \in Instance PROVE ServoInv(t)'
  <2>1. pending'[t] \in Nat /\ both[t] \in Nat /\ pending[t] \in Nat /\ ServoInv(t)
    BY <1>1, <1>3, <1>4, <1>13
  <2>2. /\ t \in lost' <=> (t \in lost /\ t # s) \/ (both[t] > 0 /\ pending'[t] = 0)
        /\ t \in doubled' <=> t \in doubled \/ pending'[t] > both[t]
    BY <1>2
  <2>3. t \notin doubled' => pending'[t] <= 1 /\ (Owed(t)' => pending'[t] = 0)
    BY <1>4, <1>8, <1>9, <2>1, <2>2 DEF ServoInv
  <2>4. /\ t \in lost' => pending'[t] = 0
        /\ ~Owed(t)' => (t \in lost' <=> pending'[t] = 0)
    <3>1. CASE t = s
      BY <1>4, <2>1, <2>2, <3>1
    <3>2. CASE t # s
      BY <1>4, <1>8, <1>13, <2>1, <2>2, <3>2 DEF ServoInv
    <3>. QED
      BY <3>1, <3>2
  <2>5. servo'[t].stage = "RELEASED" /\ servo'[t].on_duty = "STANDY"
          => servo'[t].props.speed = 0
    BY <1>2, <1>6, <2>1 DEF ServoInv
  <2>. QED
    BY <1>7, <2>3, <2>4, <2>5 DEF ServoInv
<1>. QED
  BY <1>14, <1>15, <1>16, <1>17 DEF ServosInv

(* A step that leaves everything the servos use alone.                     *)
LEMMA ServoStutterInv ==
  ASSUME ServosInv, ServoTypeOK',
         UNCHANGED <<servo, pending, port, servoLoop, lost, doubled, undone>>
  PROVE  ServosInv'
<1>1. OffInStandby'
  BY DEF ServosInv, OffInStandby
<1>2. \A t \in Instance : (Owed(t)' <=> Owed(t)) /\ \A at : ServoBusy(t, at)' <=> ServoBusy(t, at)
  BY DEF Owed, ServoBusy
<1>3. \A t \in Instance : ServoInv(t)'
  <2> HIDE DEF Owed
  <2>. QED
    BY <1>2 DEF ServosInv, ServoInv
<1>4. Claims' = Claims
  <2> HIDE DEF Owed
  <2>. QED
    BY <1>2 DEF Claims
<1>5. Fit(Claims')
  <2> HIDE DEF Claims
  <2>. QED
    BY <1>4 DEF ServosInv
<1>. QED
  BY <1>1, <1>3, <1>5 DEF ServosInv

LEMMA ServoNextInv == ServosInv /\ [ServoNext]_servoVars => ServosInv'
<1> SUFFICES ASSUME ServosInv, [ServoNext]_servoVars PROVE ServosInv'
  OBVIOUS
<1>1. CASE UNCHANGED servoVars
  <2>1. ServoTypeOK'
    BY <1>1 DEF ServosInv, ServoTypeOK, servoVars
  <2>. QED
    BY <1>1, <2>1, ServoStutterInv DEF servoVars
<1>2. CASE DiscardNull
  <2>1. ServoTypeOK'
    BY <1>2, ServoAssumption DEF ServosInv, ServoTypeOK, DiscardNull
  <2>. QED
    BY <1>2, <2>1, ServoStutterInv DEF DiscardNull
<1>3. ASSUME NEW s \in Instance, AskServo(s) PROVE ServosInv'
  <2>1. ServoTypeOK'
    BY <1>3 DEF ServosInv, ServoTypeOK, AskServo
  <2>. QED
    BY <1>3, <2>1, ServoStutterInv DEF AskServo
<1>4. ASSUME NEW s \in Instance, Interrupt(s) PROVE ServosInv'
  BY <1>4, ServoInterruptInv
<1>5. ASSUME NEW s \in Instance, ServoStep(s) PROVE ServosInv'
  BY <1>5, MountServoInv, ReadPortInv, WritePortInv, EnqueueServoInv, PrepareServoInv,
     DecideInv, CopyPropsInv, RestartServoInv DEF ServoStep
<1>. QED
  BY <1>1, <1>2, <1>3, <1>4, <1>5 DEF ServoNext

(* What ties the turns of a servo, its event in Scheduler and its pin, at  *)
(* every step of the loop and the interrupt.                               *)
THEOREM ServoInvariance == ServoSpec => []ServosInv
<1>1. ServosInv /\ [ServoNext]_servoVars => ServosInv'
  BY ServoNextInv
<1>. QED
  BY ServoInitInv, <1>1, PTL DEF ServoSpec

(* The types of the servos, their events and the loop.                     *)
THEOREM ServoTypes == ServoSpec => []ServoTypeOK
<1>1. ServosInv => ServoTypeOK
  BY DEF ServosInv
<1>. QED
  BY ServoInvariance, <1>1, PTL

(* No servo ever has two events in Scheduler, and none in standby, but for *)
(* those whose event an enqueue of the loop has doubled with one of the    *)
(* interrupt inside it.                                                    *)
THEOREM EventsAreOne == ServoSpec => []OneEventEach
<1>1. ServosInv => OneEventEach
  <2> SUFFICES ASSUME ServosInv, NEW s \in Instance \ doubled
               PROVE  pending[s] <= 1 /\ (servo[s].on_duty = "STANDY" => pending[s] = 0)
    BY DEF OneEventEach
  <2>1. ServoInv(s)
    BY DEF ServosInv
  <2>. QED
    BY <2>1 DEF ServoInv, Owed
<1>. QED
  BY ServoInvariance, <1>1, PTL

(* The servos never have more events between them than there are servos,   *)
(* whatever enqueues of the loop and of the interrupt lose and double.     *)
THEOREM EventsAlwaysFit == ServoSpec => []EventsFit
<1>1. ServosInv => EventsFit
  <2> SUFFICES ASSUME ServosInv PROVE EventsFit
    OBVIOUS
  <2>1. pending \in [Instance -> Nat]
    BY DEF ServosInv, ServoTypeOK
  <2>2. Claims \in [Instance -> Nat] /\ Fit(Claims)
        /\ \A s \in Instance : pending[s] <= Claims[s]
    BY ClaimsType DEF ServosInv
  <2> HIDE DEF Claims
  <2>3. Fit(pending)
    BY <2>1, <2>2, Fewer
  <2>. QED
    BY <2>3 DEF Fit, EventsFit
<1>. QED
  BY ServoInvariance, <1>1, PTL

(* Scheduler refuses no event of a servo: neither the one the loop is      *)
(* enqueuing, nor the one the callback leaves in the place of its own.     *)
THEOREM NeverRefused ==
  ServoSpec => [](\A s \in Instance :
    /\ ServoBusy(s, "enqueue") => HasRoom(pending)
    /\ pending[s] > 0 => HasRoom([pending EXCEPT ![s] = @ - 1]))
<1>1. ServosInv => \A s \in Instance :
        /\ ServoBusy(s, "enqueue") => HasRoom(pending)
        /\ pending[s] > 0 => HasRoom([pending EXCEPT ![s] = @ - 1])
  BY LoopRoom, InterruptRoom
<1>. QED
  BY ServoInvariance, <1>1, PTL

(* Only a servo whose stop came while it was started again, or whose event *)
(* was lost where an enqueue of the loop met one of the interrupt, is      *)
(* without an event.                                                       *)
THEOREM OnlyLostStall == ServoSpec => []RunsUnlessLost
<1>1. ServosInv => RunsUnlessLost
  <2> SUFFICES ASSUME ServosInv, servoLoop = AtRest, NEW s \in Instance,
                      servo[s].stage = "RELEASED"
               PROVE  IF servo[s].on_duty = "STANDY" THEN servo[s].props.speed = 0
                      ELSE s \notin lost <=> pending[s] > 0
    BY DEF RunsUnlessLost
  <2>1. ServoInv(s) /\ pending[s] \in Nat /\ \A at : ~ServoBusy(s, at)
    BY DEF ServosInv, ServoTypeOK, ServoBusy, AtRest
  <2>2. Owed(s) <=> servo[s].on_duty = "STANDY"
    BY <2>1 DEF Owed
  <2> HIDE DEF Owed
  <2>. QED
    BY <2>1, <2>2 DEF ServoInv
<1>. QED
  BY ServoInvariance, <1>1, PTL

(* Only a write of the register for another servo leaves the pin of a      *)
(* servo on in standby.                                                    *)
THEOREM PinsAreOff == ServoSpec => []OffInStandby
<1>1. ServosInv => OffInStandby
  BY DEF ServosInv
<1>. QED
  BY ServoInvariance, <1>1, PTL
-----------------------------------------------------------------------------
(* Bitbang, for every width of a byte and room of its buffers.             *)

(* The bit of the byte that is clocked out with the i-th pulse.            *)
BitAt(i) == IF spi.little_endian THEN Width - i ELSE i - 1

LEMMA ReversedBit ==
  ASSUME NEW b \in BitByte, NEW i \in 1..Width
  PROVE  reverse(b) \in BitByte /\ (i - 1 \in reverse(b) <=> Width - i \in b)
<1>1. Width \in Nat \ {0} /\ \A k \in b : k \in 0..(Width - 1)
  BY BitbangAssumption DEF BitByte, Bit
<1>2. reverse(b) \in BitByte
  BY <1>1 DEF reverse, BitByte, Bit
<1>3. i - 1 \in reverse(b) <=> \E k \in b : i - 1 = Width - 1 - k
  BY DEF reverse
<1>4. \A k \in b : i - 1 = Width - 1 - k <=> k = Width - i
  BY <1>1
<1>. QED
  BY <1>2, <1>3, <1>4

LEMMA Appended ==
  ASSUME NEW S, NEW s \in Seq(S), NEW x \in S
  PROVE  /\ Append(s, x) \in Seq(S) /\ Len(Append(s, x)) = Len(s) + 1
         /\ Append(s, x)[Len(s) + 1] = x
         /\ \A i \in 1..Len(s) : Append(s, x)[i] = s[i]
  OBVIOUS

(* A byte is under way exactly from the turn that takes it to the turn     *)
(* after its last pulse; until then the slave has seen its first bits, and *)
(* the component has kept what it has heard.                               *)
BitInv ==
  /\ spi \in [stage : {"DEFINED", "PREPARED", "RELEASED"}, little_endian : BOOLEAN,
              sending : BOOLEAN, out : BitByte, in : BitByte, position : -1..Width]
  /\ fifo \in [out : Seq(BitByte), in : Seq(BitByte)]
  /\ Len(fifo.out) <= Room /\ Len(fifo.in) <= Room
  /\ line \in [clock : BOOLEAN, out : BOOLEAN]
  /\ slave \in [byte : BitByte, bits : Seq(BOOLEAN), heard : Seq(BOOLEAN)]
  /\ Len(slave.bits) <= Width /\ Len(slave.heard) <= Width
  /\ spi.stage = "DEFINED" => ~spi.sending /\ spi.position = 0
  /\ spi.stage = "PREPARED" => spi.sending
  /\ spi.sending =>
       /\ spi.out = IF spi.little_endian THEN reverse(slave.byte) ELSE slave.byte
       /\ Len(slave.bits) = spi.position
       /\ Len(slave.heard) = spi.position - (IF spi.stage = "PREPARED" THEN 0 ELSE 1)
       /\ spi.stage = "RELEASED" => line.clock
  /\ ~spi.sending => spi.out = {} /\ spi.position \in {-1, 0}
  /\ spi.position = -1 => Len(slave.bits) = Width /\ Len(slave.heard) = Width
  /\ spi.sending \/ spi.position = -1 =>
       /\ \A i \in 1..Len(slave.bits) : slave.bits[i] = (BitAt(i) \in slave.byte)
       /\ \A k \in 1..Len(slave.heard) : k < Width => (k \in spi.in <=> slave.heard[k])

LEMMA BitInit_Inv == BitbangInit => BitInv
<1> SUFFICES ASSUME BitbangInit PROVE BitInv
  OBVIOUS
<1>1. {} \in BitByte /\ 0 \in -1..Width /\ 0 <= Room
  BY BitbangAssumption DEF BitByte
<1>2. /\ <<>> \in Seq(BitByte) /\ <<>> \in Seq(BOOLEAN)
      /\ Len(<<>>) = 0
  OBVIOUS
<1>. QED
  BY <1>1, <1>2 DEF BitbangInit, BitInv

LEMMA BitNextInv == BitInv /\ [BitbangNext]_bitbangVars => BitInv'
<1> SUFFICES ASSUME BitInv, [BitbangNext]_bitbangVars PROVE BitInv'
  OBVIOUS
<1> DEFINE Spi == [stage : {"DEFINED", "PREPARED", "RELEASED"}, little_endian : BOOLEAN,
                   sending : BOOLEAN, out : BitByte, in : BitByte, position : -1..Width]
           Slave == [byte : BitByte, bits : Seq(BOOLEAN), heard : Seq(BOOLEAN)]
           Line == [clock : BOOLEAN, out : BOOLEAN]
           Fifo == [out : Seq(BitByte), in : Seq(BitByte)]
<1>1. /\ spi \in Spi /\ slave \in Slave /\ line \in Line /\ fifo \in Fifo
      /\ Width \in Nat \ {0} /\ Room \in Nat \ {0}
  BY BitbangAssumption DEF BitInv
<1>2. /\ spi.sending \in BOOLEAN /\ spi.out \in BitByte /\ spi.in \in BitByte
      /\ spi.position \in -1..Width /\ spi.little_endian \in BOOLEAN
      /\ slave.byte \in BitByte /\ slave.bits \in Seq(BOOLEAN) /\ slave.heard \in Seq(BOOLEAN)
      /\ fifo.out \in Seq(BitByte) /\ fifo.in \in Seq(BitByte)
      /\ line.clock \in BOOLEAN
      /\ Len(slave.bits) \in Nat /\ Len(slave.heard) \in Nat
  BY <1>1
<1>3. ASSUME NEW b \in BitByte, Write(b) PROVE BitInv'
  <2>1. /\ Append(fifo.out, b) \in Seq(BitByte)
        /\ Len(Append(fifo.out, b)) = Len(fifo.out) + 1
    BY <1>2, Appended
  <2>2. /\ Len(fifo.out) < Room /\ spi' = spi /\ line' = line /\ slave' = slave
        /\ fifo' = [fifo EXCEPT !.out = Append(@, b)]
    BY <1>3 DEF Write
  <2>3. fifo' \in Fifo /\ Len(fifo'.out) <= Room /\ fifo'.in = fifo.in
    <3> DEFINE q == Append(fifo.out, b)
    <3>1. fifo' = [fifo EXCEPT !.out = q] /\ q \in Seq(BitByte) /\ Len(q) <= Room
      BY <1>1, <1>2, <2>1, <2>2
    <3> HIDE DEF q
    <3>. QED
      BY <1>1, <3>1
  <2>. QED
    BY <2>2, <2>3 DEF BitInv, BitAt
<1>4. CASE ReadInput
  <2>1. /\ fifo.in # <<>> /\ spi' = spi /\ line' = line /\ slave' = slave
        /\ fifo' = [fifo EXCEPT !.in = Tail(@)]
    BY <1>4 DEF ReadInput
  <2>2. Tail(fifo.in) \in Seq(BitByte) /\ Len(Tail(fifo.in)) = Len(fifo.in) - 1
    BY <1>2, <2>1
  <2>3. fifo' \in Fifo /\ fifo'.out = fifo.out /\ Len(fifo'.in) <= Room
    <3> DEFINE q == Tail(fifo.in)
    <3>1. Len(fifo.in) <= Room /\ Len(fifo.in) \in Nat
      BY <1>2 DEF BitInv
    <3>2. fifo' = [fifo EXCEPT !.in = q] /\ q \in Seq(BitByte) /\ Len(q) <= Room
      BY <1>1, <2>1, <2>2, <3>1
    <3> HIDE DEF q
    <3>. QED
      BY <1>1, <3>2
  <2>. QED
    BY <2>1, <2>3 DEF BitInv, BitAt
<1>5. CASE Bitbang_mount
  <2>1. PICK little_endian \in BOOLEAN :
          /\ spi.stage = "DEFINED"
          /\ spi' = [spi EXCEPT !.stage = "RELEASED", !.little_endian = little_endian]
          /\ fifo' = fifo /\ line' = line /\ slave' = slave
    BY <1>5 DEF Bitbang_mount
  <2>2. /\ spi' \in Spi /\ spi'.stage = "RELEASED" /\ spi'.sending = spi.sending
        /\ spi'.out = spi.out /\ spi'.position = spi.position
    BY <1>1, <2>1
  <2>3. ~spi.sending /\ spi.position = 0
    BY <2>1 DEF BitInv
  <2>. QED
    BY <2>1, <2>2, <2>3 DEF BitInv
<1>6. CASE Bitbang_willUpdate /\ ~spi.sending
  <2>1. spi.out = {} /\ spi.position \in {-1, 0} /\ fifo.out # <<>> /\ Loads
    BY <1>6 DEF Bitbang_willUpdate, Bitbang_shouldUpdate, Loads, BitInv
  <2>2. /\ Head(fifo.out) \in BitByte /\ Tail(fifo.out) \in Seq(BitByte)
        /\ Len(Tail(fifo.out)) = Len(fifo.out) - 1
    BY <1>2, <2>1
  <2>3. Loaded \in BitByte
    <3>1. 1 \in 1..Width
      BY <1>1
    <3>. QED
      BY <2>2, <3>1, ReversedBit DEF Loaded
  <2>4. PICK level \in BOOLEAN :
          /\ spi' = [spi EXCEPT !.stage = "PREPARED", !.sending = @ \/ Loads,
                                !.out = IF Loads THEN Loaded ELSE @, !.in = Heard(level),
                                !.position = IF @ = -1 THEN 0 ELSE @]
          /\ fifo' = [out |-> IF Loads THEN Tail(fifo.out) ELSE fifo.out, in |-> Stored]
          /\ line' = [line EXCEPT !.clock = FALSE]
          /\ slave' = IF Loads THEN [byte |-> Head(fifo.out), bits |-> <<>>, heard |-> <<>>]
                      ELSE IF line.clock THEN [slave EXCEPT !.heard = Append(@, level)]
                      ELSE slave
    BY <1>6 DEF Bitbang_willUpdate
  <2>5. /\ spi' = [spi EXCEPT !.stage = "PREPARED", !.sending = TRUE, !.out = Loaded,
                              !.in = Heard(level), !.position = 0]
        /\ fifo' = [out |-> Tail(fifo.out), in |-> Stored]
        /\ slave' = [byte |-> Head(fifo.out), bits |-> <<>>, heard |-> <<>>]
    BY <1>6, <2>1, <2>4
  <2>6. Heard(level) \in BitByte
    BY <1>2 DEF Heard, BitByte
  <2>7. Stored \in Seq(BitByte) /\ Len(Stored) <= Room
    BY <1>1, <1>2, Appended DEF Stored, BitInv
  <2>8. /\ spi' \in Spi /\ spi'.stage = "PREPARED" /\ spi'.sending /\ spi'.out = Loaded
        /\ spi'.position = 0 /\ spi'.little_endian = spi.little_endian
    <3> DEFINE in == Heard(level)
               out == Loaded
    <3>1. 0 \in -1..Width /\ in \in BitByte /\ out \in BitByte
      BY <1>1, <2>3, <2>6
    <3>2. spi' = [spi EXCEPT !.stage = "PREPARED", !.sending = TRUE, !.out = out,
                             !.in = in, !.position = 0]
      BY <2>5
    <3> HIDE DEF in, out
    <3>3. /\ spi' \in Spi /\ spi'.stage = "PREPARED" /\ spi'.sending /\ spi'.out = out
          /\ spi'.position = 0 /\ spi'.little_endian = spi.little_endian
      BY <1>1, <3>1, <3>2
    <3>. QED
      BY <3>3 DEF out
  <2>9. line' \in Line
    BY <1>1, <2>4
  <2>10. /\ fifo' \in Fifo /\ Len(fifo'.out) <= Room /\ Len(fifo'.in) <= Room
    BY <1>1, <1>2, <2>2, <2>5, <2>7 DEF BitInv
  <2>11. /\ slave' \in Slave /\ slave'.byte = Head(fifo.out)
         /\ Len(slave'.bits) = 0 /\ Len(slave'.heard) = 0
    BY <2>2, <2>5
  <2>. QED
    BY <1>1, <2>8, <2>9, <2>10, <2>11 DEF BitInv, Loaded
<1>7. CASE Bitbang_willUpdate /\ spi.sending
  <2>1. /\ ~Loads /\ spi.stage = "RELEASED" /\ line.clock
        /\ spi.position = Len(slave.bits) /\ Len(slave.heard) = spi.position - 1
        /\ spi.position \in 1..Width
    BY <1>2, <1>7 DEF Bitbang_willUpdate, Loads, BitInv
  <2>2. PICK level \in BOOLEAN :
          /\ spi' = [spi EXCEPT !.stage = "PREPARED", !.sending = @ \/ Loads,
                                !.out = IF Loads THEN Loaded ELSE @, !.in = Heard(level),
                                !.position = IF @ = -1 THEN 0 ELSE @]
          /\ fifo' = [out |-> IF Loads THEN Tail(fifo.out) ELSE fifo.out, in |-> Stored]
          /\ line' = [line EXCEPT !.clock = FALSE]
          /\ slave' = IF Loads THEN [byte |-> Head(fifo.out), bits |-> <<>>, heard |-> <<>>]
                      ELSE IF line.clock THEN [slave EXCEPT !.heard = Append(@, level)]
                      ELSE slave
    BY <1>7 DEF Bitbang_willUpdate
  <2>3. /\ spi' = [spi EXCEPT !.stage = "PREPARED", !.in = Heard(level)]
        /\ fifo' = [out |-> fifo.out, in |-> fifo.in]
        /\ slave' = [slave EXCEPT !.heard = Append(@, level)]
    <3>1. spi.position # -1 /\ spi.sending = TRUE
      BY <1>2, <1>7, <2>1
    <3>2. Stored = fifo.in
      BY <3>1 DEF Stored
    <3>. QED
      BY <1>1, <2>1, <2>2, <3>1, <3>2
  <2>4. /\ Append(slave.heard, level) \in Seq(BOOLEAN)
        /\ Len(Append(slave.heard, level)) = spi.position
        /\ Append(slave.heard, level)[spi.position] = level
        /\ \A k \in 1..(spi.position - 1) : Append(slave.heard, level)[k] = slave.heard[k]
    BY <1>2, <2>1, Appended
  <2>5. /\ slave' \in Slave /\ slave'.byte = slave.byte /\ slave'.bits = slave.bits
        /\ slave'.heard = Append(slave.heard, level)
    BY <1>1, <2>3, <2>4
  <2>6. Heard(level) \in BitByte
    BY <1>2 DEF Heard, BitByte
  <2>7. /\ spi' \in Spi /\ spi'.stage = "PREPARED" /\ spi'.sending = spi.sending
        /\ spi'.position = spi.position /\ spi'.little_endian = spi.little_endian
        /\ spi'.out = spi.out /\ spi'.in = Heard(level)
    BY <1>1, <2>3, <2>6
  <2>8. line' \in Line
    BY <1>1, <2>2
  <2>9. fifo' \in Fifo /\ fifo'.out = fifo.out /\ fifo'.in = fifo.in
    BY <1>2, <2>3
  <2>10. ASSUME NEW k \in 1..spi.position, k < Width
         PROVE  k \in Heard(level) <=> Append(slave.heard, level)[k]
    <3>1. CASE k = spi.position
      <4>1. spi.position \in Bit
        BY <1>1, <2>1, <2>10, <3>1 DEF Bit
      <4>. QED
        BY <2>4, <3>1, <4>1 DEF Heard
    <3>2. CASE k # spi.position
      <4>1. k \in 1..(spi.position - 1)
        BY <2>1, <3>2
      <4>2. k \in spi.in <=> slave.heard[k]
        BY <1>7, <2>1, <2>10, <4>1 DEF BitInv
      <4>3. k \in Heard(level) <=> k \in spi.in
        BY <3>2 DEF Heard
      <4>. QED
        BY <2>4, <4>1, <4>2, <4>3
    <3>. QED
      BY <3>1, <3>2
  <2>11. \A i \in 1..Len(slave.bits) : slave.bits[i] = (BitAt(i) \in slave.byte)
    BY <1>7 DEF BitInv
  <2>12. \A i \in 1..Len(slave'.bits) : slave'.bits[i] = (BitAt(i)' \in slave'.byte)
    BY <2>5, <2>7, <2>11 DEF BitAt
  <2>13. \A k \in 1..Len(slave'.heard) : k < Width => (k \in spi'.in <=> slave'.heard[k])
    BY <2>4, <2>5, <2>7, <2>10
  <2>. QED
    BY <1>1, <1>7, <2>1, <2>4, <2>5, <2>7, <2>8, <2>9, <2>12, <2>13 DEF BitInv
<1>8. CASE Bitbang_release
  <2> DEFINE last == spi.position = Width
             rise == spi.sending /\ ~last
             bit  == spi.position \in spi.out
  <2>1. /\ spi.stage = "PREPARED" /\ spi.sending
        /\ Len(slave.bits) = spi.position /\ Len(slave.heard) = spi.position
        /\ spi.position \in 0..Width
        /\ spi.out = IF spi.little_endian THEN reverse(slave.byte) ELSE slave.byte
    BY <1>2, <1>8 DEF Bitbang_release, BitInv
  <2>2. /\ spi' = [spi EXCEPT !.stage = "RELEASED", !.out = IF last THEN {} ELSE @,
                              !.sending = ~last,
                              !.position = IF last THEN -1 ELSE @ + 1]
        /\ line' = [out |-> bit, clock |-> ~last]
        /\ slave' = IF last THEN slave ELSE [slave EXCEPT !.bits = Append(@, bit)]
        /\ fifo' = fifo
    <3>1. spi.sending = TRUE
      BY <1>2, <2>1
    <3>. QED
      BY <1>8, <3>1 DEF Bitbang_release
  <2>3. /\ \A i \in 1..Len(slave.bits) : slave.bits[i] = (BitAt(i) \in slave.byte)
        /\ \A k \in 1..Len(slave.heard) : k < Width => (k \in spi.in <=> slave.heard[k])
    BY <2>1 DEF BitInv
  <2>4. last \in BOOLEAN /\ bit \in BOOLEAN
    OBVIOUS
  <2>5. CASE last
    <3>1. /\ spi' = [spi EXCEPT !.stage = "RELEASED", !.out = {}, !.sending = FALSE,
                                !.position = -1]
          /\ slave' = slave
      BY <2>2, <2>5
    <3>2. line' \in Line
      BY <2>2, <2>4
    <3>3. /\ spi' \in Spi /\ spi'.stage = "RELEASED" /\ spi'.sending = FALSE
          /\ spi'.out = {} /\ spi'.position = -1 /\ spi'.in = spi.in
          /\ spi'.little_endian = spi.little_endian
      <4>1. {} \in BitByte /\ -1 \in -1..Width
        BY <1>1 DEF BitByte
      <4>. QED
        BY <1>1, <3>1, <4>1
    <3>4. \A i \in 1..Len(slave'.bits) : slave'.bits[i] = (BitAt(i)' \in slave'.byte)
      BY <2>3, <3>1, <3>3 DEF BitAt
    <3>. QED
      BY <1>1, <2>1, <2>2, <2>3, <2>5, <3>1, <3>2, <3>3, <3>4 DEF BitInv
  <2>6. CASE ~last
    <3> HIDE DEF bit
    <3>1. /\ spi' = [spi EXCEPT !.stage = "RELEASED", !.sending = TRUE,
                                !.position = spi.position + 1]
          /\ slave' = [slave EXCEPT !.bits = Append(@, bit)]
          /\ line' = [out |-> bit, clock |-> TRUE]
      BY <1>1, <2>2, <2>6
    <3>2. spi.position + 1 \in 1..Width
      BY <1>1, <2>1, <2>6
    <3>3. /\ spi' \in Spi /\ spi'.stage = "RELEASED" /\ spi'.sending = TRUE
          /\ spi'.out = spi.out /\ spi'.position = spi.position + 1 /\ spi'.in = spi.in
          /\ spi'.little_endian = spi.little_endian
      <4> DEFINE next == spi.position + 1
      <4>1. next \in -1..Width /\ spi' = [spi EXCEPT !.stage = "RELEASED", !.sending = TRUE,
                                                    !.position = next]
        BY <3>1, <3>2
      <4> HIDE DEF next
      <4>2. /\ spi' \in Spi /\ spi'.stage = "RELEASED" /\ spi'.sending = TRUE
            /\ spi'.out = spi.out /\ spi'.position = next /\ spi'.in = spi.in
            /\ spi'.little_endian = spi.little_endian
        BY <1>1, <4>1
      <4>. QED
        BY <4>2 DEF next
    <3>4. /\ Append(slave.bits, bit) \in Seq(BOOLEAN)
          /\ Len(Append(slave.bits, bit)) = spi.position + 1
          /\ Append(slave.bits, bit)[spi.position + 1] = bit
          /\ \A i \in 1..spi.position : Append(slave.bits, bit)[i] = slave.bits[i]
      BY <1>2, <2>1, <2>4, Appended
    <3>5. /\ slave' \in Slave /\ slave'.byte = slave.byte /\ slave'.heard = slave.heard
          /\ slave'.bits = Append(slave.bits, bit)
      BY <1>1, <3>1, <3>4
    <3>6. bit = (BitAt(spi.position + 1) \in slave.byte)
      <4>1. /\ spi.little_endian =>
                 (spi.position \in reverse(slave.byte)
                    <=> Width - (spi.position + 1) \in slave.byte)
        <5>1. (spi.position + 1) - 1 = spi.position
          BY <2>1
        <5>. QED
          BY <1>2, <3>2, <5>1, ReversedBit
      <4>2. (spi.position + 1) - 1 = spi.position
        BY <2>1
      <4>. QED
        BY <2>1, <4>1, <4>2 DEF BitAt, bit
    <3>7. ASSUME NEW i \in 1..(spi.position + 1)
          PROVE  Append(slave.bits, bit)[i] = (BitAt(i) \in slave.byte)
      <4>1. CASE i = spi.position + 1
        BY <3>4, <3>6, <4>1
      <4>2. CASE i # spi.position + 1
        <5>1. i \in 1..spi.position
          BY <2>1, <4>2
        <5>. QED
          BY <2>1, <2>3, <3>4, <5>1
      <4>. QED
        BY <4>1, <4>2
    <3>8. \A i \in 1..Len(slave'.bits) : slave'.bits[i] = (BitAt(i)' \in slave'.byte)
      BY <3>3, <3>4, <3>5, <3>7 DEF BitAt
    <3>9. line' \in Line /\ line'.clock
      BY <2>4, <3>1
    <3>. QED
      BY <1>1, <2>1, <2>2, <2>3, <3>2, <3>3, <3>4, <3>5, <3>8, <3>9 DEF BitInv
  <2>. QED
    BY <2>5, <2>6
<1>9. CASE UNCHANGED bitbangVars
  BY <1>9 DEF bitbangVars, BitInv, BitAt
<1>. QED
  BY <1>3, <1>4, <1>5, <1>6, <1>7, <1>8, <1>9 DEF BitbangNext, BitbangTurn

LEMMA BitInvariance == BitbangSpec => []BitInv
  BY BitInit_Inv, BitNextInv, PTL DEF BitbangSpec
-----------------------------------------------------------------------------
(* The slave reads, lowest bit first or last, the byte that was taken from *)
(* the buffer, whatever else is written and read while it is under way.    *)
THEOREM BitsClocked == BitbangSpec => []BitsAreClocked
<1>1. BitInv => BitsAreClocked
  <2> SUFFICES ASSUME BitInv, spi.position = -1
               PROVE  slave.bits = [i \in 1..Width |->
                        (IF spi.little_endian THEN Width - i ELSE i - 1) \in slave.byte]
    BY DEF BitsAreClocked
  <2>1. slave.bits \in Seq(BOOLEAN) /\ Len(slave.bits) = Width
    BY DEF BitInv
  <2>2. slave.bits = [i \in 1..Width |-> slave.bits[i]]
    BY <2>1
  <2>3. \A i \in 1..Width : slave.bits[i] =
          ((IF spi.little_endian THEN Width - i ELSE i - 1) \in slave.byte)
    BY <2>1 DEF BitInv, BitAt
  <2>. QED
    BY <2>2, <2>3
<1>. QED
  BY <1>1, BitInvariance, PTL

(* The byte read is what was on the input under the pulses, shifted by one *)
(* bit, without the last.                                                  *)
THEOREM InputShifted == BitbangSpec => []InputIsShifted
<1>1. BitInv => InputIsShifted
  <2> SUFFICES ASSUME BitInv, spi.position = -1
               PROVE  /\ Len(slave.heard) = Width
                      /\ spi.in \ {0} = {k \in 1..(Width - 1) : slave.heard[k]}
    BY DEF InputIsShifted
  <2>1. /\ Len(slave.heard) = Width /\ Width \in Nat \ {0}
        /\ \A k \in 1..Width : k < Width => (k \in spi.in <=> slave.heard[k])
        /\ spi.in \subseteq 0..(Width - 1)
    BY BitbangAssumption DEF BitInv, BitByte, Bit
  <2>. QED
    BY <2>1
<1>. QED
  BY <1>1, BitInvariance, PTL
-----------------------------------------------------------------------------
(* Serial and Menu, for every set of menus, prompt and size of the         *)
(* buffers, however the peer types.                                        *)

(* The loop takes its turns in lockstep: between two turns of Menu Serial  *)
(* takes one, and a line that it has read finds Menu at rest.              *)
MenuInv ==
  /\ MenuTypeOK /\ SerialTypeOK /\ LinesAreKept
  /\ serial.stage = "PREPARED" /\ serial.mode = "TRANSCIEVER" => uart.ready
  /\ menu.stage = "DEFINED" => /\ command = <<>>
                               /\ serial.stage = IF turn = "uart" THEN "DEFINED" ELSE "RELEASED"
  /\ menu.stage # "DEFINED" => serial.stage # "DEFINED"
  /\ menu.stage # "PREPARED" => menu.command = <<>>
  /\ menu.stage = "RELEASED" /\ turn = "uart" => command = <<>>
  /\ menu.stage = "RELEASED" /\ command # <<>> => serial.stage = "RELEASED"
  /\ menu.stage = "PREPARED" => (command = <<>> <=> menu.current = NoCommand)
  /\ menu.stage = "PREPARED" /\ turn = "uart" => serial.stage = "RELEASED"
-----------------------------------------------------------------------------
(* The lengths a buffer bounds.                                            *)
LEMMA Bounded ==
  ASSUME NEW S, NEW n \in Nat
  PROVE  \A s : s \in BoundedSeq(S, n) <=> s \in Seq(S) /\ Len(s) <= n
<1>1. ASSUME NEW s \in BoundedSeq(S, n) PROVE s \in Seq(S) /\ Len(s) <= n
  <2>1. PICK m \in 0..n : s \in [1..m -> S]
    BY DEF BoundedSeq, SeqOf
  <2>. QED
    BY <2>1
<1>2. ASSUME NEW s \in Seq(S), Len(s) <= n PROVE s \in BoundedSeq(S, n)
  <2>1. Len(s) \in 0..n /\ s \in [1..Len(s) -> S]
    BY <1>2
  <2>. QED
    BY <2>1 DEF BoundedSeq, SeqOf
<1>. QED
  BY <1>1, <1>2

LEMMA LeastOfTwo ==
  ASSUME NEW a \in Nat, NEW b \in Nat PROVE Min({a, b}) = IF a <= b THEN a ELSE b
<1> DEFINE least == IF a <= b THEN a ELSE b
<1>1. least \in {a, b} /\ \A y \in {a, b} : least <= y
  OBVIOUS
<1>2. \A x \in {a, b} : (\A y \in {a, b} : x <= y) => x = least
  OBVIOUS
<1> HIDE DEF least
<1>3. (CHOOSE x \in {a, b} : \A y \in {a, b} : x <= y) = least
  BY <1>1, <1>2, Zenon
<1>. QED
  BY <1>3 DEF Min, least

(* What is written stays behind what waits, within the buffer.             *)
LEMMA WrittenIsBehind ==
  ASSUME NEW S, NEW queue \in Seq(S), NEW bytes \in Seq(S), Len(queue) <= BUFFER_SIZE - 1
  PROVE  /\ Written(queue, bytes) \in Seq(S) /\ Len(Written(queue, bytes)) <= BUFFER_SIZE - 1
         /\ Len(queue) <= Len(Written(queue, bytes))
         /\ \A i \in 1..Len(queue) : Written(queue, bytes)[i] = queue[i]
<1> DEFINE all == queue \o bytes
           n   == IF Len(all) <= BUFFER_SIZE - 1 THEN Len(all) ELSE BUFFER_SIZE - 1
<1>1. /\ all \in Seq(S) /\ Len(all) = Len(queue) + Len(bytes)
      /\ \A i \in 1..Len(queue) : all[i] = queue[i]
  OBVIOUS
<1>2. Len(all) \in Nat /\ BUFFER_SIZE - 1 \in Nat /\ Len(queue) \in Nat /\ Len(bytes) \in Nat
  BY <1>1, SerialAssumption
<1> HIDE DEF all
<1>3. Written(queue, bytes) = SubSeq(all, 1, n)
  BY <1>2, LeastOfTwo DEF Written, all
<1>4. n \in 0..Len(all) /\ Len(queue) <= n /\ n <= BUFFER_SIZE - 1
  BY <1>1, <1>2
<1> HIDE DEF n
<1>5. /\ SubSeq(all, 1, n) \in Seq(S) /\ Len(SubSeq(all, 1, n)) = n
      /\ \A i \in 1..n : SubSeq(all, 1, n)[i] = all[i]
  BY <1>1, <1>4
<1>. QED
  BY <1>1, <1>2, <1>3, <1>4, <1>5

LEMMA FrontOf ==
  ASSUME NEW S, NEW s \in Seq(S), s # <<>>
  PROVE  Front(s) \in Seq(S) /\ Len(Front(s)) = Len(s) - 1
<1>1. Len(s) - 1 \in 0..Len(s)
  OBVIOUS
<1> DEFINE n == Len(s) - 1
<1> HIDE DEF n
<1>2. n \in Nat /\ \A i \in 1..n : s[i] \in S
  BY <1>1 DEF n
<1>3. SubSeq(s, 1, n) \in Seq(S) /\ Len(SubSeq(s, 1, n)) = n
  BY <1>2, SubSeqProperties
<1>. QED
  BY <1>3 DEF Front, n

(* The command that is read, and the bytes that stay.                      *)
LEMMA ReadIsLine ==
  ASSUME NEW bytes \in Seq(Char \cup {NUL}), Len(bytes) <= BUFFER_SIZE - 1, bytes # <<>>,
         command \in Seq(Char), Len(command) <= BUFFER_SIZE - 2
  PROVE  /\ read_command(bytes).line \in Seq(Char)
         /\ Len(read_command(bytes).line) <= BUFFER_SIZE - 2
         /\ read_command(bytes).rest \in Seq(Char \cup {NUL})
         /\ Len(read_command(bytes).rest) <= BUFFER_SIZE - 1
         /\ read_command(bytes).new => read_command(bytes).line # <<>>
         /\ ~read_command(bytes).new => read_command(bytes).line \in {command, <<>>}
<1> DEFINE I      == {i \in 1..Len(bytes) : bytes[i] = NUL}
           nul    == IF I # {} THEN Min(I) ELSE 0
           copied == IF nul = 0 THEN bytes ELSE SubSeq(bytes, 1, nul - 1)
           rest   == IF nul = 0 THEN <<>> ELSE SubSeq(bytes, nul + 1, Len(bytes))
<1>1. nul \in 0..Len(bytes) /\ (nul # 0 => nul \in I)
      /\ \A i \in 1..Len(bytes) : (nul = 0 \/ i < nul) => bytes[i] # NUL
  <2>1. CASE I = {}
    BY <2>1
  <2>2. CASE I # {}
    <3>1. \E n \in I : \A i \in I : n <= i
      <4>1. I \subseteq Nat /\ I # {}
        BY <2>2
      <4> HIDE DEF I
      <4>. QED
        BY <4>1, Least
    <3>2. Min(I) \in I /\ \A i \in I : Min(I) <= i
      <4> HIDE DEF I
      <4>. QED
        BY <3>1, Zenon DEF Min
    <3>3. \A i \in 1..Len(bytes) : i < nul => bytes[i] # NUL
      <4>1. nul = Min(I)
        BY <2>2
      <4>2. nul \in I /\ \A i \in I : nul <= i
        BY <3>2, <4>1
      <4> HIDE DEF nul
      <4>3. nul \in Nat
        BY <4>2
      <4>. QED
        BY <4>2, <4>3
    <3>4. nul \in I /\ nul # 0
      BY <2>2, <3>2
    <3> HIDE DEF nul
    <3>. QED
      BY <3>3, <3>4
  <2>. QED
    BY <2>1, <2>2
<1>2. SelectInSeq(bytes, LAMBDA b : b = NUL) = nul
  BY Zenon DEF SelectInSeq
<1> HIDE DEF nul
<1>3. read_command(bytes) = [line |-> IF copied = <<>> THEN command ELSE Front(copied),
                             new |-> Len(copied) > 1, rest |-> rest]
  BY <1>2, Zenon DEF read_command
<1>4. copied \in Seq(Char) /\ Len(copied) <= Len(bytes)
  BY <1>1, SerialAssumption
<1>5. rest \in Seq(Char \cup {NUL}) /\ Len(rest) <= Len(bytes)
  BY <1>1
<1>6. copied # <<>> => /\ Front(copied) \in Seq(Char) /\ Len(Front(copied)) = Len(copied) - 1
  <2> HIDE DEF copied
  <2>. QED
    BY <1>4, FrontOf
<1>7. Len(bytes) \in Nat /\ Len(copied) \in Nat /\ (Len(copied) = 0 <=> copied = <<>>)
  <2> HIDE DEF copied
  <2>. QED
    BY <1>4
<1>8. BUFFER_SIZE \in Nat
  BY SerialAssumption
<1> HIDE DEF copied, rest
<1>9. Len(copied) > 1 => Front(copied) # <<>>
  BY <1>6, <1>7
<1>10. copied # <<>> /\ ~(Len(copied) > 1) => Front(copied) = <<>>
  BY <1>6, <1>7
<1> DEFINE got == IF copied = <<>> THEN command ELSE Front(copied)
<1>11. /\ got \in Seq(Char) /\ Len(got) <= BUFFER_SIZE - 2
       /\ Len(copied) > 1 => got # <<>>
       /\ ~(Len(copied) > 1) => got \in {command, <<>>}
  <2>1. CASE copied = <<>>
    BY <1>7, <2>1
  <2>2. CASE copied # <<>>
    <3>1. got = Front(copied)
      BY <2>2
    <3>. QED
      BY <1>4, <1>6, <1>7, <1>8, <1>9, <1>10, <2>2, <3>1
  <2>. QED
    BY <2>1, <2>2
<1> HIDE DEF got
<1>12. /\ read_command(bytes).line = got /\ read_command(bytes).rest = rest
       /\ read_command(bytes).new = (Len(copied) > 1)
  BY <1>3 DEF got
<1>13. Len(rest) <= BUFFER_SIZE - 1
  BY <1>5, <1>8, <1>7
<1>. QED
  BY <1>5, <1>11, <1>12, <1>13
-----------------------------------------------------------------------------
(* Serial.  The types as sequences.                                        *)
SerialTyped ==
  /\ serial \in [stage : {"DEFINED", "PREPARED", "RELEASED"},
                 mode : {"TRANSCIEVER", "RECEIVER"}, sending : Char \cup {NUL}]
  /\ uart \in [in : Char \cup {NUL}, ready : BOOLEAN]
  /\ tx \in Seq(Char \cup {NUL}) /\ Len(tx) <= BUFFER_SIZE - 1
  /\ rx \in [bytes : Seq(Char \cup {NUL}), write : 0..(BUFFER_SIZE - 1)]
  /\ Len(rx.bytes) <= BUFFER_SIZE - 1
  /\ command \in Seq(Char) /\ Len(command) <= BUFFER_SIZE - 2

LEMMA SerialTypes == (SerialTypeOK <=> SerialTyped) /\ (SerialTypeOK' <=> SerialTyped')
<1>1. BUFFER_SIZE - 1 \in Nat /\ BUFFER_SIZE - 2 \in Nat
  BY SerialAssumption
<1>2. /\ \A s : s \in BoundedSeq(Char \cup {NUL}, BUFFER_SIZE - 1) <=>
               s \in Seq(Char \cup {NUL}) /\ Len(s) <= BUFFER_SIZE - 1
      /\ \A s : s \in BoundedSeq(Char, BUFFER_SIZE - 2) <=>
               s \in Seq(Char) /\ Len(s) <= BUFFER_SIZE - 2
  BY <1>1, Bounded
<1>3. ASSUME NEW r
      PROVE  r \in [bytes : BoundedSeq(Char \cup {NUL}, BUFFER_SIZE - 1),
                    write : 0..(BUFFER_SIZE - 1)] <=>
               /\ r \in [bytes : Seq(Char \cup {NUL}), write : 0..(BUFFER_SIZE - 1)]
               /\ Len(r.bytes) <= BUFFER_SIZE - 1
  BY <1>2
<1>4. SerialTypeOK <=> SerialTyped
  BY <1>2, <1>3 DEF SerialTypeOK, SerialTyped
<1>5. SerialTypeOK' <=> SerialTyped'
  BY <1>2, <1>3 DEF SerialTypeOK, SerialTyped
<1>. QED
  BY <1>4, <1>5

(* A byte that is received.                                                *)
LEMMA Received ==
  ASSUME SerialTypeOK, Serial_receive
  PROVE  /\ SerialTypeOK'
         /\ serial.stage = "PREPARED" /\ serial.mode = "RECEIVER" /\ serial'.stage = "RELEASED"
         /\ uart'.ready = uart.ready
         /\ \E echo \in Char \cup {NUL} : tx' = Written(tx, <<echo>>)
         /\ \/ UNCHANGED <<command, lines>>
            \/ command' = <<>> /\ lines' = lines
            \/ command' # <<>> /\ lines' = Append(lines, command')
<1> DEFINE Byte == Char \cup {NUL}
           fits == Len(rx.bytes) < BUFFER_SIZE - 1
           buffer(b) == IF fits THEN [bytes |-> Append(rx.bytes, b),
                                      write |-> (rx.write + 1) % BUFFER_SIZE]
                        ELSE rx
<1>1. PICK b \in IF uart.in # NUL THEN {uart.in} ELSE Stray :
        /\ serial.stage = "PREPARED" /\ serial.mode = "RECEIVER"
        /\ serial' = [serial EXCEPT !.stage = "RELEASED", !.sending = NUL]
        /\ uart' = [uart EXCEPT !.in = NUL]
        /\ \E echo \in read_symbol(buffer(b)) : tx' = Written(tx, <<echo>>)
        /\ IF b = CR
           THEN /\ rx' = [buffer(b) EXCEPT !.bytes = read_command(buffer(b).bytes).rest]
                /\ command' = read_command(buffer(b).bytes).line
                /\ lines' = IF read_command(buffer(b).bytes).new
                            THEN Append(lines, read_command(buffer(b).bytes).line) ELSE lines
           ELSE rx' = buffer(b) /\ UNCHANGED <<command, lines>>
  BY Zenon DEF Serial_receive
<1>2. /\ serial \in [stage : {"DEFINED", "PREPARED", "RELEASED"},
                     mode : {"TRANSCIEVER", "RECEIVER"}, sending : Byte]
      /\ uart \in [in : Byte, ready : BOOLEAN]
      /\ tx \in Seq(Byte) /\ Len(tx) <= BUFFER_SIZE - 1
      /\ rx \in [bytes : Seq(Byte), write : 0..(BUFFER_SIZE - 1)]
      /\ Len(rx.bytes) <= BUFFER_SIZE - 1
      /\ command \in Seq(Char) /\ Len(command) <= BUFFER_SIZE - 2
  BY SerialTypes DEF SerialTyped
<1>3. b \in Byte /\ Stray \subseteq Byte /\ NUL \in Byte /\ BUFFER_SIZE \in Nat \ {0, 1}
  BY <1>2, SerialAssumption
<1> HIDE DEF Byte
<1>4. /\ buffer(b) \in [bytes : Seq(Byte), write : 0..(BUFFER_SIZE - 1)]
      /\ Len(buffer(b).bytes) <= BUFFER_SIZE - 1 /\ buffer(b).bytes # <<>>
  <2>1. CASE fits
    <3> DEFINE q == Append(rx.bytes, b)
               w == (rx.write + 1) % BUFFER_SIZE
    <3>1. q \in Seq(Byte) /\ Len(q) = Len(rx.bytes) + 1 /\ Len(rx.bytes) \in Nat
      BY <1>2, <1>3
    <3>2. w \in 0..(BUFFER_SIZE - 1)
      <4>1. rx.write \in Nat
        BY <1>2
      <4>. QED
        BY <1>3, <4>1, Z3
    <3>3. buffer(b) = [bytes |-> q, write |-> w]
      BY <2>1
    <3> HIDE DEF q, w, buffer
    <3>4. q # <<>> /\ Len(q) <= BUFFER_SIZE - 1
      BY <1>3, <2>1, <3>1
    <3>. QED
      BY <3>1, <3>2, <3>3, <3>4
  <2>2. CASE ~fits
    <3>1. buffer(b) = rx
      BY <2>2
    <3> HIDE DEF buffer
    <3>2. Len(rx.bytes) \in Nat
      BY <1>2
    <3>3. rx.bytes # <<>>
      BY <1>3, <2>2, <3>2
    <3>. QED
      BY <1>2, <3>1, <3>3
  <2>. QED
    BY <2>1, <2>2
<1> HIDE DEF buffer
<1>5. \E echo \in Byte : tx' = Written(tx, <<echo>>)
  <2>1. read_symbol(buffer(b)) \subseteq Byte
    <3>1. Last(buffer(b).bytes) \in Byte
      BY <1>4 DEF Last
    <3>. QED
      BY <1>3, <3>1 DEF read_symbol
  <2>. QED
    BY <1>1, <2>1
<1>6. tx' \in Seq(Byte) /\ Len(tx') <= BUFFER_SIZE - 1
  <2>1. PICK echo \in Byte : tx' = Written(tx, <<echo>>)
    BY <1>5
  <2>2. <<echo>> \in Seq(Byte)
    OBVIOUS
  <2>. QED
    BY <1>2, <2>1, <2>2, WrittenIsBehind
<1>7. CASE b = CR
  <2> DEFINE read == read_command(buffer(b).bytes)
  <2>1. /\ read.line \in Seq(Char) /\ Len(read.line) <= BUFFER_SIZE - 2
        /\ read.rest \in Seq(Byte) /\ Len(read.rest) <= BUFFER_SIZE - 1
        /\ read.new => read.line # <<>>
        /\ ~read.new => read.line \in {command, <<>>}
    BY <1>2, <1>4, ReadIsLine DEF Byte
  <2>2. /\ rx' = [buffer(b) EXCEPT !.bytes = read.rest] /\ command' = read.line
        /\ lines' = IF read.new THEN Append(lines, read.line) ELSE lines
    BY <1>1, <1>7
  <2> HIDE DEF read
  <2>3. /\ rx' \in [bytes : Seq(Byte), write : 0..(BUFFER_SIZE - 1)]
        /\ Len(rx'.bytes) <= BUFFER_SIZE - 1
    BY <1>4, <2>1, <2>2
  <2>4. SerialTypeOK'
    BY <1>1, <1>2, <1>3, <1>6, <2>1, <2>2, <2>3, SerialTypes DEF Byte, SerialTyped
  <2>. QED
    BY <1>1, <1>2, <1>5, <2>1, <2>2, <2>4 DEF Byte
<1>8. CASE b # CR
  <2>1. rx' = buffer(b) /\ UNCHANGED <<command, lines>>
    BY <1>1, <1>8
  <2>2. SerialTypeOK'
    BY <1>1, <1>2, <1>3, <1>4, <1>6, <2>1, SerialTypes DEF Byte, SerialTyped
  <2>. QED
    BY <1>1, <1>2, <1>5, <2>1, <2>2 DEF Byte
<1>. QED
  BY <1>7, <1>8

(* A turn of Serial changes the command only where it receives, and then   *)
(* it is at rest afterwards.                                               *)
LEMMA SerialTurned ==
  ASSUME SerialTypeOK, SerialTurn
  PROVE  /\ SerialTypeOK' /\ serial'.stage # "DEFINED"
         /\ serial.stage # "RELEASED" => serial'.stage = "RELEASED"
         /\ serial.stage # "PREPARED" => UNCHANGED <<command, lines>>
         /\ \/ UNCHANGED <<command, lines>>
            \/ command' = <<>> /\ lines' = lines
            \/ command' # <<>> /\ lines' = Append(lines, command')
         /\ serial'.stage = "PREPARED" /\ serial'.mode = "TRANSCIEVER" => uart'.ready
<1>1. SerialTyped
  BY SerialTypes
<1>2. CASE Serial_mount
  <2>1. SerialTyped'
    BY <1>1, <1>2 DEF Serial_mount, SerialTyped
  <2>. QED
    BY <1>1, <1>2, <2>1, SerialTypes DEF Serial_mount, SerialTyped
<1>3. CASE Serial_poll
  <2>1. CASE PollReceived
    <3>1. SerialTyped'
      BY <1>1, <1>3, <2>1 DEF Serial_poll, PollReceived, SerialTyped
    <3>. QED
      BY <1>1, <1>3, <2>1, <3>1, SerialTypes DEF Serial_poll, PollReceived, SerialTyped
  <2>2. CASE PollIdle
    <3>1. SerialTyped'
      BY <1>1, <1>3, <2>2 DEF Serial_poll, PollIdle, SerialTyped
    <3>. QED
      BY <1>1, <1>3, <2>2, <3>1, SerialTypes DEF Serial_poll, PollIdle, SerialTyped
  <2>3. CASE PollSend
    <3>1. Head(tx) \in Char \cup {NUL} /\ Tail(tx) \in Seq(Char \cup {NUL})
          /\ Len(Tail(tx)) = Len(tx) - 1 /\ Len(tx) \in Nat
      BY <1>1, <2>3, HeadTailProperties DEF PollSend, SerialTyped
    <3>2. SerialTyped'
      BY <1>1, <1>3, <2>3, <3>1, SerialAssumption DEF Serial_poll, PollSend, SerialTyped
    <3>. QED
      BY <1>1, <1>3, <2>3, <3>2, SerialTypes DEF Serial_poll, PollSend, SerialTyped
  <2>4. CASE PollNul
    <3>1. Len(tx) \in Nat /\ \A i \in 3..Len(tx) : tx[i] \in Char \cup {NUL}
      BY <1>1 DEF SerialTyped
    <3>2. /\ SubSeq(tx, 3, Len(tx)) \in Seq(Char \cup {NUL})
          /\ Len(SubSeq(tx, 3, Len(tx))) = IF 3 <= Len(tx) THEN Len(tx) - 3 + 1 ELSE 0
      BY <3>1, SubSeqProperties
    <3>3. SerialTyped'
      BY <1>1, <1>3, <2>4, <3>1, <3>2, SerialAssumption DEF Serial_poll, PollNul, SerialTyped
    <3>. QED
      BY <1>1, <1>3, <2>4, <3>3, SerialTypes DEF Serial_poll, PollNul, SerialTyped
  <2>. QED
    BY <1>3, <2>1, <2>2, <2>3, <2>4 DEF Serial_poll
<1>4. CASE Serial_transmit
  <2>1. SerialTyped'
    BY <1>1, <1>4 DEF Serial_transmit, SerialTyped
  <2>. QED
    BY <1>1, <1>4, <2>1, SerialTypes DEF Serial_transmit, SerialTyped
<1>5. CASE Serial_receive
  BY <1>5, Received
<1>. QED
  BY <1>2, <1>3, <1>4, <1>5 DEF SerialTurn

(* What waits stays in front of what is written.                           *)
LEMMA WrittenKeepsOrder ==
  ASSUME NEW S, NEW queue \in Seq(S), NEW bytes \in Seq(S), Len(queue) <= BUFFER_SIZE - 1,
         NEW first \in Seq(S)
  PROVE  IsPrefix(first \o queue, first \o Written(queue, bytes))
<1> DEFINE new == Written(queue, bytes)
           a   == first \o queue
           b   == first \o new
<1>1. /\ new \in Seq(S) /\ Len(queue) <= Len(new)
      /\ \A i \in 1..Len(queue) : new[i] = queue[i]
  BY WrittenIsBehind
<1> HIDE DEF new
<1>2. /\ a \in Seq(S) /\ Len(a) = Len(first) + Len(queue)
      /\ \A i \in 1..Len(first) + Len(queue) :
           a[i] = IF i <= Len(first) THEN first[i] ELSE queue[i - Len(first)]
  BY ConcatProperties
<1>3. /\ b \in Seq(S) /\ Len(b) = Len(first) + Len(new)
      /\ \A i \in 1..Len(first) + Len(new) :
           b[i] = IF i <= Len(first) THEN first[i] ELSE new[i - Len(first)]
  BY <1>1, ConcatProperties
<1>4. Len(first) \in Nat /\ Len(queue) \in Nat /\ Len(new) \in Nat
  BY <1>1
<1> HIDE DEF a, b
<1>5. /\ Len(a) \in Nat /\ Len(b) \in Nat /\ Len(a) <= Len(b)
      /\ \A i \in 1..Len(a) : a[i] = b[i]
  <2>1. Len(a) \in Nat /\ Len(b) \in Nat /\ Len(a) <= Len(b)
    BY <1>1, <1>2, <1>3, <1>4
  <2>2. ASSUME NEW i \in 1..Len(a) PROVE a[i] = b[i]
    <3>1. /\ i \in 1..Len(first) + Len(queue) /\ i \in 1..Len(first) + Len(new)
          /\ i > Len(first) => i - Len(first) \in 1..Len(queue)
      BY <1>1, <1>2, <1>4
    <3>2. a[i] = IF i <= Len(first) THEN first[i] ELSE queue[i - Len(first)]
      BY <1>2, <3>1
    <3>3. b[i] = IF i <= Len(first) THEN first[i] ELSE new[i - Len(first)]
      BY <1>3, <3>1
    <3>4. i > Len(first) => new[i - Len(first)] = queue[i - Len(first)]
      BY <1>1, <3>1
    <3>. QED
      BY <1>4, <3>1, <3>2, <3>3, <3>4
  <2>. QED
    BY <2>1, <2>2
<1>6. SubSeq(a, 1, Len(a)) = SubSeq(b, 1, Len(a))
  <2> DEFINE n == Len(a)
  <2>0. n \in Nat /\ n = Len(a)
    BY <1>5
  <2> HIDE DEF n
  <2>1. /\ \A i \in 1..n : a[i] \in S
        /\ \A i \in 1..n : b[i] \in S
    BY <1>2, <1>3, <1>5, <2>0
  <2>2. /\ SubSeq(a, 1, n) \in Seq(S) /\ Len(SubSeq(a, 1, n)) = IF 1 <= n THEN n - 1 + 1 ELSE 0
        /\ \A i \in 1..(n - 1 + 1) : SubSeq(a, 1, n)[i] = a[1 + i - 1]
    BY <2>0, <2>1, SubSeqProperties
  <2>3. /\ SubSeq(b, 1, n) \in Seq(S) /\ Len(SubSeq(b, 1, n)) = IF 1 <= n THEN n - 1 + 1 ELSE 0
        /\ \A i \in 1..(n - 1 + 1) : SubSeq(b, 1, n)[i] = b[1 + i - 1]
    BY <2>0, <2>1, SubSeqProperties
  <2>4. \A i \in 1..n : SubSeq(a, 1, n)[i] = SubSeq(b, 1, n)[i]
    BY <1>5, <2>0, <2>2, <2>3
  <2>5. Len(SubSeq(a, 1, n)) = n /\ Len(SubSeq(b, 1, n)) = n
    BY <2>0, <2>2, <2>3
  <2>6. SubSeq(a, 1, n) = SubSeq(b, 1, n)
    BY <2>2, <2>3, <2>4, <2>5, SeqEqual
  <2>. QED
    BY <2>0, <2>6
<1>. QED
  BY <1>5, <1>6 DEF IsPrefix, a, b, new
-----------------------------------------------------------------------------
LEMMA MenuInitInv == MenuInit => MenuInv
<1> SUFFICES ASSUME MenuInit PROVE MenuInv
  OBVIOUS
<1>1. SerialTyped
  BY SerialAssumption DEF MenuInit, SerialInit, SerialTyped
<1>2. MenuTypeOK
  BY MenusAssumption DEF MenuInit, MenuTypeOK, Commands
<1>. QED
  BY <1>1, <1>2, SerialTypes DEF MenuInit, SerialInit, MenuInv, LinesAreKept

(* print_shell, also behind the words of a callback.                       *)
LEMMA Prompted ==
  ASSUME SerialTyped, UNCHANGED <<serial, uart, rx>>, tx' = Written(tx, Prompt),
         command' \in {command, <<>>}
  PROVE  SerialTyped'
<1>1. Prompt \in Seq(Char \cup {NUL})
  BY MenusAssumption
<1>2. tx' \in Seq(Char \cup {NUL}) /\ Len(tx') <= BUFFER_SIZE - 1
  BY <1>1, WrittenIsBehind DEF SerialTyped
<1>3. command' \in Seq(Char) /\ Len(command') <= BUFFER_SIZE - 2
  <2>1. <<>> \in Seq(Char) /\ Len(<<>>) = 0 /\ BUFFER_SIZE - 2 \in Nat
    BY SerialAssumption
  <2>2. command \in Seq(Char) /\ Len(command) <= BUFFER_SIZE - 2
    BY DEF SerialTyped
  <2>3. CASE command' = command
    BY <2>2, <2>3
  <2>4. CASE command' = <<>>
    <3>1. Len(command') = 0 /\ command' \in Seq(Char)
      BY <2>1, <2>4
    <3>. QED
      BY <2>1, <3>1
  <2>. QED
    BY <2>3, <2>4
<1>. QED
  BY <1>2, <1>3 DEF SerialTyped

LEMMA UartTurnInv ==
  ASSUME MenuInv, turn = "uart", turn' = "tty", SerialTurn, UNCHANGED <<menu, typed>>
  PROVE  MenuInv'
<1>1. /\ SerialTypeOK' /\ serial'.stage # "DEFINED"
      /\ serial.stage # "RELEASED" => serial'.stage = "RELEASED"
      /\ serial.stage # "PREPARED" => UNCHANGED <<command, lines>>
      /\ \/ UNCHANGED <<command, lines>>
         \/ command' = <<>> /\ lines' = lines
         \/ command' # <<>> /\ lines' = Append(lines, command')
      /\ serial'.stage = "PREPARED" /\ serial'.mode = "TRANSCIEVER" => uart'.ready
  BY SerialTurned DEF MenuInv
<1>2. MenuTypeOK'
  BY DEF MenuInv, MenuTypeOK
<1>3. menu.stage \in {"DEFINED", "PREPARED", "RELEASED"}
  BY DEF MenuInv, MenuTypeOK
<1>4. serial.stage = "PREPARED" => menu.stage = "RELEASED" /\ command = <<>> /\ lines = <<>>
  BY <1>3 DEF MenuInv, LinesAreKept
<1>5. LinesAreKept'
  BY <1>1, <1>3, <1>4 DEF MenuInv, LinesAreKept
<1>. QED
  BY <1>1, <1>2, <1>3, <1>4, <1>5 DEF MenuInv

LEMMA TtyTurnInv ==
  ASSUME MenuInv, turn = "tty", turn' = "uart", MenuTurn,
         UNCHANGED <<serial, uart, rx, wire, typed>>
  PROVE  MenuInv'
<1>1. /\ menu \in [stage : {"DEFINED", "PREPARED", "RELEASED"}, command : Seq(Char),
                   previous : Commands, current : Commands]
      /\ typed \in 0..MaxTyped
      /\ SerialTyped /\ command \in Seq(Char)
      /\ serial.stage = "DEFINED" => FALSE
      /\ lines = IF command = <<>> THEN <<>> ELSE <<command>>
      /\ Tail(<<command>>) = <<>>
      /\ NoCommand \in Commands
  BY SerialTypes DEF MenuInv, MenuTypeOK, SerialTyped, LinesAreKept, Commands
<1>2. CASE Menu_mount
  <2>1. SerialTyped' /\ MenuTypeOK'
    BY <1>1, <1>2 DEF Menu_mount, SerialTyped, MenuTypeOK
  <2>. QED
    BY <1>1, <1>2, <2>1, SerialTypes DEF Menu_mount, MenuInv, LinesAreKept
<1>3. CASE Menu_skip
  <2>1. SerialTyped' /\ MenuTypeOK'
    BY <1>1, <1>3 DEF Menu_skip, SerialTyped, MenuTypeOK
  <2>2. command = <<>>
    BY <1>3 DEF Menu_skip, MenuInv
  <2>. QED
    BY <1>1, <1>3, <2>1, <2>2, SerialTypes DEF Menu_skip, MenuInv, LinesAreKept
<1>4. CASE Menu_willUpdate
  <2>1. /\ menu.stage = "RELEASED" /\ command # <<>> /\ serial.stage = "RELEASED"
    BY <1>4 DEF Menu_willUpdate, MenuInv
  <2>2. ASSUME NEW i \in Found,
               menu' = [stage |-> "PREPARED", command |-> command, previous |-> menu.current,
                        current |-> Menus[menu.current.menu][i]],
               UNCHANGED <<tx, command, lines>>
        PROVE  MenuInv'
    <3>1. menu.current.menu \in DOMAIN Menus
      <4>1. \A m \in DOMAIN Menus : \A k \in DOMAIN Menus[m] :
              Menus[m][k] \in [word : Seq(Char), menu : DOMAIN Menus] \ {NoCommand}
        BY MenusAssumption
      <4>2. menu.current = NoCommand
              \/ \E m \in DOMAIN Menus : \E k \in DOMAIN Menus[m] : menu.current = Menus[m][k]
        BY <1>1 DEF Commands, Range
      <4>. QED
        BY <4>1, <4>2, MenusAssumption DEF NoCommand
    <3> DEFINE new == Menus[menu.current.menu][i]
    <3>2. new \in Commands /\ new # NoCommand
      <4>1. i \in DOMAIN Menus[menu.current.menu]
        BY DEF Found
      <4>2. \A m \in DOMAIN Menus : \A k \in DOMAIN Menus[m] : Menus[m][k] # NoCommand
        BY MenusAssumption
      <4>. QED
        BY <3>1, <4>1, <4>2 DEF Commands, Range
    <3> HIDE DEF new
    <3>3. menu' = [stage |-> "PREPARED", command |-> command, previous |-> menu.current,
                   current |-> new]
      BY <2>2 DEF new
    <3>4. SerialTyped' /\ MenuTypeOK'
      BY <1>1, <2>2, <3>2, <3>3 DEF SerialTyped, MenuTypeOK
    <3>. QED
      BY <1>1, <2>1, <2>2, <3>2, <3>3, <3>4, SerialTypes DEF MenuInv, LinesAreKept
  <2>3. ASSUME menu' = [menu EXCEPT !.stage = "PREPARED", !.command = command,
                                    !.current = NoCommand],
               print_shell, lines' = Tail(lines)
        PROVE  MenuInv'
    <3>1. SerialTyped'
      BY <1>1, <2>3, Prompted DEF print_shell
    <3>2. MenuTypeOK' /\ menu'.stage = "PREPARED" /\ menu'.current = NoCommand
      BY <1>1, <2>3 DEF MenuTypeOK
    <3>3. command' = <<>> /\ lines' = <<>>
      BY <1>1, <2>1, <2>3 DEF print_shell
    <3>. QED
      BY <1>1, <2>1, <3>1, <3>2, <3>3, SerialTypes DEF MenuInv, LinesAreKept
  <2>. QED
    BY <1>4, <2>2, <2>3 DEF Menu_willUpdate
<1>5. CASE Menu_release
  <2>1. /\ menu.stage = "PREPARED"
        /\ menu' = [menu EXCEPT !.stage = "RELEASED", !.command = <<>>]
    BY <1>5 DEF Menu_release
  <2>2. MenuTypeOK' /\ menu'.stage = "RELEASED" /\ menu'.command = <<>>
    <3>1. <<>> \in Seq(Char)
      OBVIOUS
    <3>. QED
      BY <1>1, <2>1, <3>1 DEF MenuTypeOK
  <2>3. CASE menu.current = NoCommand
    <3>1. command = <<>> /\ UNCHANGED <<tx, command, lines>>
      BY <1>5, <2>1, <2>3 DEF Menu_release, MenuInv
    <3>2. SerialTyped'
      BY <1>1, <3>1 DEF SerialTyped
    <3>. QED
      BY <1>1, <2>1, <2>2, <3>1, <3>2, SerialTypes DEF MenuInv, LinesAreKept
  <2>4. CASE menu.current # NoCommand
    <3>1. command # <<>> /\ print_shell /\ lines' = Tail(lines)
      BY <1>5, <2>1, <2>4 DEF Menu_release, MenuInv
    <3>2. SerialTyped'
      BY <1>1, <3>1, Prompted DEF print_shell
    <3>3. command' = <<>> /\ lines' = <<>>
      BY <1>1, <3>1 DEF print_shell
    <3>. QED
      BY <1>1, <2>1, <2>2, <3>2, <3>3, SerialTypes DEF MenuInv, LinesAreKept
  <2>. QED
    BY <2>3, <2>4
<1>. QED
  BY <1>2, <1>3, <1>4, <1>5 DEF MenuTurn

LEMMA MenuNextInv == ASSUME MenuInv, [MenuNext]_menuVars PROVE MenuInv'
<1>1. ASSUME NEW b \in Char, Type(b) PROVE MenuInv'
  <2>1. SerialTyped /\ SerialTyped' /\ MenuTypeOK'
    <3>1. SerialTyped /\ MenuTypeOK
      BY SerialTypes DEF MenuInv
    <3>2. uart' \in [in : Char \cup {NUL}, ready : BOOLEAN]
      BY <1>1, <3>1 DEF Type, PeerSends, SerialTyped
    <3>3. typed' \in 0..MaxTyped
      BY <1>1, <3>1, MenusAssumption DEF Type, MenuTypeOK
    <3>4. UNCHANGED <<menu, turn, serial, tx, rx, command, wire, lines>>
      BY <1>1 DEF Type, PeerSends
    <3>. QED
      BY <3>1, <3>2, <3>3, <3>4 DEF SerialTyped, MenuTypeOK
  <2>. QED
    BY <1>1, <2>1, SerialTypes DEF MenuInv, Type, PeerSends, LinesAreKept, SerialTyped
<1>2. CASE Drain
  <2>1. SerialTyped /\ SerialTyped' /\ MenuTypeOK'
    BY <1>2, SerialTypes DEF MenuInv, Drain, UartDrains, SerialTyped, MenuTypeOK
  <2>. QED
    BY <1>2, <2>1, SerialTypes DEF MenuInv, Drain, UartDrains, LinesAreKept, SerialTyped
<1>3. CASE Loop
  BY <1>3, UartTurnInv, TtyTurnInv DEF Loop
<1>4. CASE UNCHANGED menuVars
  <2>1. SerialTyped /\ SerialTyped' /\ MenuTypeOK'
    BY <1>4, SerialTypes DEF MenuInv, menuVars, serialVars, SerialTyped, MenuTypeOK
  <2>. QED
    BY <1>4, <2>1, SerialTypes DEF MenuInv, menuVars, serialVars, LinesAreKept
<1>. QED
  BY <1>1, <1>2, <1>3, <1>4 DEF MenuNext

LEMMA MenuInvariance == MenuSpec => []MenuInv
<1>1. MenuInv /\ [MenuNext]_menuVars => MenuInv'
  BY MenuNextInv
<1>. QED
  BY MenuInitInv, <1>1, PTL DEF MenuSpec

(* No line is replaced by the next, and none runs as another, whatever is  *)
(* typed, for every set of menus and every size of the buffers.            *)
THEOREM LinesKept == MenuSpec => []LinesAreKept
<1>1. MenuInv => LinesAreKept
  BY DEF MenuInv
<1>. QED
  BY MenuInvariance, <1>1, PTL

(* The variables of the menu, the UART and the buffers keep their types.   *)
THEOREM MenuTypes == MenuSpec => [](MenuTypeOK /\ SerialTypeOK)
<1>1. MenuInv => MenuTypeOK /\ SerialTypeOK
  BY DEF MenuInv
<1>. QED
  BY MenuInvariance, <1>1, PTL
-----------------------------------------------------------------------------
(* What waits is sent in order.                                            *)
UnsentGoesOut == \/ serial.stage = "DEFINED"
                 \/ ~Sends /\ IsPrefix(Unsent, Unsent')
                 \/ ~Sends /\ Head(Unsent) = NUL /\ Unsent' = SubSeq(Unsent, 3, Len(Unsent))
                 \/ Sends /\ Unsent = <<wire'>> \o Unsent'

FirstToGo == IF serial.stage = "PREPARED" /\ serial.mode = "TRANSCIEVER"
             THEN <<serial.sending>> ELSE <<>>

LEMMA StillUnsent ==
  ASSUME SerialTyped, ~Sends, FirstToGo' = FirstToGo,
         tx' = tx \/ \E bytes \in Seq(Char \cup {NUL}) : tx' = Written(tx, bytes)
  PROVE  UnsentGoesOut
<1> DEFINE Byte == Char \cup {NUL}
<1>1. tx \in Seq(Byte) /\ Len(tx) <= BUFFER_SIZE - 1 /\ FirstToGo \in Seq(Byte)
  <2>1. serial.sending \in Byte /\ tx \in Seq(Byte) /\ Len(tx) <= BUFFER_SIZE - 1
    BY DEF SerialTyped
  <2> HIDE DEF Byte
  <2>2. <<serial.sending>> \in Seq(Byte) /\ <<>> \in Seq(Byte)
    BY <2>1
  <2>. QED
    BY <2>1, <2>2 DEF FirstToGo
<1> HIDE DEF Byte
<1>2. Unsent = FirstToGo \o tx /\ Unsent' = FirstToGo \o tx'
  BY DEF Unsent, FirstToGo
<1>3. IsPrefix(FirstToGo \o tx, FirstToGo \o tx')
  <2>1. CASE tx' = tx
    BY <2>1 DEF IsPrefix
  <2>2. CASE tx' # tx
    <3>1. PICK bytes \in Seq(Byte) : tx' = Written(tx, bytes)
      BY <2>2 DEF Byte
    <3>. QED
      BY <1>1, <3>1, WrittenKeepsOrder
  <2>. QED
    BY <2>1, <2>2
<1>. QED
  BY <1>2, <1>3 DEF UnsentGoesOut

LEMMA StepGoesOut == ASSUME MenuInv, MenuNext PROVE UnsentGoesOut
<1>1. SerialTyped
  BY SerialTypes DEF MenuInv
<1>2. ASSUME NEW b \in Char, Type(b) PROVE UnsentGoesOut
  BY <1>1, <1>2, StillUnsent DEF Type, PeerSends, SerialTyped, Sends, FirstToGo
<1>3. CASE Drain
  BY <1>1, <1>3, StillUnsent DEF Drain, UartDrains, SerialTyped, Sends, FirstToGo
<1>4. CASE MenuTurn /\ UNCHANGED <<serial, uart, rx, wire, typed>>
  <2>1. tx' = tx \/ tx' = Written(tx, Prompt)
    BY <1>4 DEF MenuTurn, Menu_mount, Menu_skip, Menu_willUpdate, Menu_release, print_shell
  <2>2. Prompt \in Seq(Char \cup {NUL})
    BY MenusAssumption
  <2>. QED
    BY <1>1, <1>4, <2>1, <2>2, StillUnsent DEF Sends, FirstToGo
<1>5. CASE Serial_mount
  BY <1>5 DEF Serial_mount, UnsentGoesOut
<1>6. CASE Serial_poll
  <2>1. serial.stage = "RELEASED" /\ uart' = uart
    BY <1>6 DEF Serial_poll
  <2>2. ~Sends
    BY <2>1 DEF Sends
  <2>3. CASE PollReceived
    BY <1>1, <2>1, <2>2, <2>3, StillUnsent DEF PollReceived, FirstToGo, SerialTyped
  <2>4. CASE PollIdle
    BY <1>1, <2>1, <2>2, <2>4, StillUnsent DEF PollIdle, FirstToGo, SerialTyped
  <2>5. CASE PollSend
    <3>1. /\ FirstToGo = <<>> /\ FirstToGo' = <<Head(tx)>> /\ tx' = Tail(tx) /\ tx # <<>>
          /\ tx \in Seq(Char \cup {NUL})
      BY <1>1, <2>1, <2>5 DEF PollSend, FirstToGo, SerialTyped
    <3>2. <<>> \o tx = tx /\ <<Head(tx)>> \o Tail(tx) = tx
      BY <3>1
    <3>3. Unsent = tx /\ Unsent' = tx
      BY <3>1, <3>2 DEF Unsent, FirstToGo
    <3>. QED
      BY <2>2, <3>3 DEF UnsentGoesOut, IsPrefix
  <2>6. CASE PollNul
    <3>1. /\ FirstToGo = <<>> /\ FirstToGo' = <<>> /\ tx' = SubSeq(tx, 3, Len(tx)) /\ Head(tx) = NUL
          /\ tx \in Seq(Char \cup {NUL}) /\ tx' \in Seq(Char \cup {NUL})
      <4>1. SerialTyped'
        BY <1>6, SerialTypes, SerialTurned DEF SerialTurn, MenuInv
      <4>. QED
        BY <1>1, <2>1, <2>6, <4>1 DEF PollNul, FirstToGo, SerialTyped
    <3>2. <<>> \o tx = tx /\ <<>> \o tx' = tx'
      BY <3>1
    <3>3. Unsent = tx /\ Unsent' = tx'
      BY <3>1, <3>2 DEF Unsent, FirstToGo
    <3>. QED
      BY <2>2, <3>1, <3>3 DEF UnsentGoesOut
  <2>. QED
    BY <1>6, <2>3, <2>4, <2>5, <2>6 DEF Serial_poll
<1>7. CASE Serial_transmit
  <2>1. /\ FirstToGo = <<serial.sending>> /\ FirstToGo' = <<>> /\ tx' = tx /\ wire' = serial.sending
        /\ uart.ready /\ ~uart'.ready /\ tx \in Seq(Char \cup {NUL})
    BY <1>1, <1>7 DEF Serial_transmit, FirstToGo, SerialTyped, MenuInv
  <2>2. <<>> \o tx = tx
    BY <2>1
  <2>3. Unsent = <<wire'>> \o tx /\ Unsent' = tx
    BY <2>1, <2>2 DEF Unsent, FirstToGo
  <2>. QED
    BY <2>1, <2>3 DEF UnsentGoesOut, Sends
<1>8. CASE Serial_receive
  <2>1. /\ serial.stage = "PREPARED" /\ serial.mode = "RECEIVER" /\ serial'.stage = "RELEASED"
        /\ uart'.ready = uart.ready
        /\ \E echo \in Char \cup {NUL} : tx' = Written(tx, <<echo>>)
    BY <1>8, Received DEF MenuInv
  <2>2. PICK echo \in Char \cup {NUL} : tx' = Written(tx, <<echo>>)
    BY <2>1
  <2>3. <<echo>> \in Seq(Char \cup {NUL})
    OBVIOUS
  <2>4. FirstToGo' = FirstToGo /\ ~Sends
    BY <2>1 DEF FirstToGo, Sends
  <2>. QED
    BY <1>1, <2>2, <2>3, <2>4, StillUnsent
<1>. QED
  BY <1>2, <1>3, <1>4, <1>5, <1>6, <1>7, <1>8 DEF MenuNext, Loop, SerialTurn

LEMMA UnsentStep ==
  MenuInv /\ [MenuNext]_menuVars
    => [\/ serial.stage = "DEFINED"
        \/ ~Sends /\ IsPrefix(Unsent, Unsent')
        \/ ~Sends /\ Head(Unsent) = NUL /\ Unsent' = SubSeq(Unsent, 3, Len(Unsent))
        \/ Sends /\ Unsent = <<wire'>> \o Unsent']_serialVars
<1>1. MenuInv /\ [MenuNext]_menuVars => [UnsentGoesOut]_serialVars
  BY StepGoesOut DEF menuVars
<1>. QED
  BY <1>1 DEF UnsentGoesOut

(* However receiving, echoing and the strings of the menu come between,    *)
(* the bytes go out in the order they were written.                        *)
THEOREM SentAsWritten == MenuSpec => SentInOrder
  BY UnsentStep, MenuInvariance, PTL DEF MenuSpec, SentInOrder
-----------------------------------------------------------------------------
(* PinTable, for any number of threads and pins, and a table of any size.  *)

(* The threads that put an entry at the end of the table, and the entries  *)
(* the table has when they have.                                           *)
Storing == {t \in Thread : call[t].pc \in {"key", "data", "used"}}
Reach   == pins.used + Cardinality(Storing)

(* However the threads race, they stay in the memory after the table.      *)
InMemory ==
  /\ PinTypeOK
  /\ Reach <= TableSize + Cardinality(Thread)
  /\ \A i \in Slot : pins.index[i] # NoKey \/ pins.data[i] # NULL => i < Reach
  /\ \A t \in Thread : /\ call[t].pc \in {"idle", "read"} => call[t].copy = NULL
                       /\ Adding(t) => call[t].copy # NULL
                       /\ call[t].pc # "idle" => call[t].key \in Key

(* A key that is in the table, and one for which the table has no room.    *)
Kept(t)   == \E i \in 0..(pins.used - 1) :
                pins.index[i] = call[t].key /\ pins.data[i] = call[t].copy
Absent(k)  == \A i \in 0..(pins.used - 1) : pins.index[i] # k
NoCopy(c)  == \A i \in 0..(pins.used - 1) : pins.data[i] # c
Refused(t)  == /\ pins.used >= TableSize /\ call[t].copy # NULL
              /\ Absent(call[t].key) /\ NoCopy(call[t].copy)

(* While two threads have not raced: each entry has a key and a copy of    *)
(* its own,                                                                *)
Entered ==
  \A i \in 0..(pins.used - 1) :
    /\ pins.index[i] # NoKey /\ pins.data[i] # NULL
    /\ \A j \in 0..(pins.used - 1) :
         pins.index[i] = pins.index[j] \/ pins.data[i] = pins.data[j] => i = j

(* one thread at most adds an entry,                                       *)
OneAdds == \A t, u \in Thread : Adding(t) /\ Adding(u) => t = u

(* after the last one,                                                     *)
Beyond ==
  \A i \in Slot : i >= pins.used =>
    /\ pins.index[i] # NoKey => i = pins.used /\ \E t \in Thread : call[t].pc \in {"data", "used"}
    /\ pins.data[i] # NULL   => i = pins.used /\ \E t \in Thread : call[t].pc = "used"

(* for a key that is not there and with a copy that nobody knows, and who  *)
(* uses a copy uses the one in the table, unless there was no room for it. *)
Orderly(t) ==
  /\ Adding(t) => /\ Absent(call[t].key) /\ NoCopy(call[t].copy) /\ ~copy[call[t].copy]
                  /\ \A u \in Thread \ {t} : call[u].copy # call[t].copy
  /\ t \in Storing => pins.used < TableSize
  /\ call[t].pc \in {"data", "used"} => pins.index[pins.used] = call[t].key
  /\ call[t].pc = "used" => pins.data[pins.used] = call[t].copy
  /\ call[t].pc = "use" => Kept(t) \/ Refused(t)

(* The copies in the table have the bits of their keys.                    *)
Bits == /\ \A i \in 0..(pins.used - 1) : copy[pins.data[i]] = set[pins.index[i]]
        /\ \A k \in Key : Absent(k) /\ pins.used < TableSize => ~set[k]

InOrder == Entered /\ OneAdds /\ Beyond /\ Bits /\ \A t \in Thread : Orderly(t)

PinInv == InMemory /\ (~raced => InOrder)
-----------------------------------------------------------------------------

PinCall == [pc : {"idle", "read", "write", "key", "data", "used", "use"},
            key : Key \cup {NoKey}, copy : Copy \cup {NULL}]
PinArrays == [index : [Slot -> Key \cup {NoKey}], data : [Slot -> Copy \cup {NULL}],
              used : Slot]

LEMMA PinConstants ==
  /\ NoKey \notin Key /\ NULL \notin Copy /\ NULL = 0 /\ NoKey = 0
  /\ TableSize \in Nat /\ IsFiniteSet(Thread) /\ Cardinality(Thread) \in Nat
  /\ Slot = 0..(TableSize + Cardinality(Thread)) /\ Key \subseteq Nat
<1>1. Cardinality(Thread) \in Nat
  BY PinAssumption, FS_CardinalityType
<1>2. ASSUME NEW pin \in Pin PROVE hash_pin(pin) \in Nat \ {0}
  <2>1. pin.name \in 1..1000 /\ pin.number \in 0..7
    BY PinAssumption
  <2>2. pin.name + pin.number \in 1..1007
    <3>1. \A x \in 1..1000, y \in 0..7 : x + y \in 1..1007
      OBVIOUS
    <3>. QED
      BY <2>1, <3>1
  <2>3. \A x \in 1..1007 : x % 10007 = x
    BY Z3
  <2>. QED
    BY <2>2, <2>3 DEF hash_pin, MAX_TABLE_SIZE
<1>. QED
  BY <1>1, <1>2, PinAssumption DEF Key, NoKey, NULL, Copy, Slot

LEMMA FirstIsLeast ==
  ASSUME NEW slots, slots \subseteq Nat, slots # {}
  PROVE  First(slots) \in slots /\ \A j \in slots : First(slots) <= j
<1>1. \E i \in slots : \A j \in slots : i <= j
  BY Least
<1>. QED
  BY <1>1, Zenon DEF First

(* One thread moves on in its call.                                        *)
LEMMA Moves ==
  ASSUME PinTypeOK, NEW t \in Thread, NEW c \in PinCall, call' = [call EXCEPT ![t] = c]
  PROVE  /\ call' \in [Thread -> PinCall] /\ call'[t] = c
         /\ \A u \in Thread \ {t} : call'[u] = call[u]
         /\ Cardinality(Storing) \in 0..Cardinality(Thread)
         /\ Cardinality(Storing') \in 0..Cardinality(Thread)
         /\ t \notin Storing /\ c.pc \in {"key", "data", "used"}
              => Cardinality(Storing') = Cardinality(Storing) + 1
         /\ t \in Storing /\ c.pc \notin {"key", "data", "used"}
              => Cardinality(Storing') = Cardinality(Storing) - 1
         /\ (t \in Storing <=> c.pc \in {"key", "data", "used"})
              => Cardinality(Storing') = Cardinality(Storing)
<1>1. /\ call \in [Thread -> PinCall] /\ call' \in [Thread -> PinCall] /\ call'[t] = c
      /\ \A u \in Thread \ {t} : call'[u] = call[u]
  BY DEF PinTypeOK, PinCall
<1>2. /\ Storing \in SUBSET Thread /\ Storing' \in SUBSET Thread
      /\ Storing' = IF c.pc \in {"key", "data", "used"} THEN Storing \cup {t} ELSE Storing \ {t}
  BY <1>1 DEF Storing
<1>3. /\ IsFiniteSet(Storing) /\ Cardinality(Storing) \in 0..Cardinality(Thread)
      /\ Cardinality(Storing') \in 0..Cardinality(Thread)
  <2>1. IsFiniteSet(Storing) /\ IsFiniteSet(Storing')
    BY <1>2, PinConstants, FS_Subset
  <2>2. Cardinality(Storing) <= Cardinality(Thread) /\ Cardinality(Storing') <= Cardinality(Thread)
    BY <1>2, PinConstants, FS_Subset
  <2>3. Cardinality(Storing) \in Nat /\ Cardinality(Storing') \in Nat
    BY <2>1, FS_CardinalityType
  <2>. QED
    BY <2>1, <2>2, <2>3, PinConstants
<1>4. /\ Cardinality(Storing \cup {t}) = IF t \in Storing THEN Cardinality(Storing)
                                       ELSE Cardinality(Storing) + 1
      /\ Cardinality(Storing \ {t}) = IF t \in Storing THEN Cardinality(Storing) - 1
                                    ELSE Cardinality(Storing)
  BY <1>3, FS_AddElement, FS_RemoveElement
<1>. QED
  BY <1>1, <1>2, <1>3, <1>4

(* There is always a copy that nobody knows.                               *)
LEMMA CopyIsFree ==
  ASSUME InMemory, NEW t \in Thread, call[t].copy = NULL
  PROVE  \E c \in Copy : ~InUse(c)
<1> DEFINE n      == Cardinality(Thread)
           Others == Thread \ {t}
           stored == [i \in 0..(Reach - 1) |-> pins.data[i]]
           held   == [u \in Others |-> call[u].copy]
           D      == {stored[i] : i \in 0..(Reach - 1)}
           C      == {held[u] : u \in Others}
<1>1. /\ n \in Nat /\ TableSize \in Nat /\ NULL \notin Copy
      /\ pins \in PinArrays /\ call \in [Thread -> PinCall]
      /\ Slot = 0..(TableSize + n) /\ Copy = 1..(TableSize + 2 * n)
  BY PinConstants DEF InMemory, PinTypeOK, PinArrays, PinCall, Copy
<1>2. Reach \in Nat /\ Reach <= TableSize + n
  <2>1. Cardinality(Storing) \in Nat
    <3>1. Storing \in SUBSET Thread
      BY DEF Storing
    <3>. QED
      BY <3>1, PinConstants, FS_Subset, FS_CardinalityType
  <2>2. pins.used \in Nat
    BY <1>1 DEF PinArrays
  <2>. QED
    BY <2>1, <2>2 DEF Reach, InMemory
<1>3. IsFiniteSet(0..(Reach - 1)) /\ Cardinality(0..(Reach - 1)) = Reach
  <2>1. 0 \in Int /\ Reach - 1 \in Int
    BY <1>2
  <2>2. /\ IsFiniteSet(0..(Reach - 1))
        /\ Cardinality(0..(Reach - 1)) = IF 0 > Reach - 1 THEN 0 ELSE Reach - 1 - 0 + 1
    BY <2>1, FS_Interval
  <2>. QED
    BY <1>2, <2>2
<1>4. IsFiniteSet(D) /\ Cardinality(D) <= Reach
  <2>1. stored \in Surjection(0..(Reach - 1), D)
    BY DEF Surjection
  <2> HIDE DEF stored, D
  <2>. QED
    BY <1>3, <2>1, FS_Surjection
<1>5. IsFiniteSet(Others) /\ Cardinality(Others) = n - 1
  BY PinConstants, FS_RemoveElement
<1>6. IsFiniteSet(C) /\ Cardinality(C) <= n - 1
  <2>1. held \in Surjection(Others, C)
    BY DEF Surjection
  <2> HIDE DEF held, C, Others, n
  <2>. QED
    BY <1>5, <2>1, FS_Surjection
<1>7. Cardinality(D \cup C) <= Reach + (n - 1) /\ IsFiniteSet(D \cup C)
  <2>1. /\ IsFiniteSet(D \cup C)
        /\ Cardinality(D \cup C) = Cardinality(D) + Cardinality(C) - Cardinality(D \cap C)
    <3> HIDE DEF D, C
    <3>. QED
      BY <1>4, <1>6, FS_Union
  <2>2. D \cap C \in SUBSET D
    OBVIOUS
  <2> HIDE DEF D, C, n
  <2>3. IsFiniteSet(D \cap C) /\ Cardinality(D \cap C) \in Nat
    BY <1>4, <2>2, FS_Subset, FS_CardinalityType
  <2>4. Cardinality(D) \in Nat /\ Cardinality(C) \in Nat
    BY <1>4, <1>6, FS_CardinalityType
  <2>. QED
    BY <1>1, <1>2, <1>4, <1>6, <2>1, <2>3, <2>4
<1>8. IsFiniteSet(Copy) /\ Cardinality(Copy) = TableSize + 2 * n
  <2> DEFINE m == TableSize + 2 * n
  <2>1. m \in Nat /\ Copy = 1..m
    BY <1>1
  <2> HIDE DEF m, n
  <2>2. IsFiniteSet(1..m) /\ Cardinality(1..m) = IF 1 > m THEN 0 ELSE m - 1 + 1
    BY <2>1, FS_Interval
  <2>3. IsFiniteSet(Copy) /\ Cardinality(Copy) = m
    BY <2>1, <2>2
  <2>. QED
    BY <2>3 DEF m
<1>9. ~(Copy \subseteq D \cup C)
  <2> HIDE DEF D, C, n
  <2>1. SUFFICES ASSUME Copy \in SUBSET (D \cup C) PROVE FALSE
    OBVIOUS
  <2>2. Cardinality(Copy) <= Cardinality(D \cup C) /\ Cardinality(D \cup C) \in Nat
    BY <1>7, <2>1, FS_Subset, FS_CardinalityType
  <2>. QED
    BY <1>1, <1>2, <1>7, <1>8, <2>2
<1>10. PICK c \in Copy : c \notin D /\ c \notin C
  BY <1>9
<1>11. ASSUME NEW i \in Slot, pins.data[i] = c PROVE FALSE
  <2>1. c # NULL /\ i \in Nat
    BY <1>1
  <2>2. i < Reach
    BY <1>11, <2>1 DEF InMemory
  <2>3. i \in 0..(Reach - 1)
    BY <1>2, <2>1, <2>2
  <2>4. c \in D
    BY <1>11, <2>3
  <2>. QED
    BY <1>10, <2>4
<1>12. ASSUME NEW u \in Thread, call[u].copy = c PROVE FALSE
  <2>1. u # t
    BY <1>1, <1>12
  <2>2. c \in C
    BY <1>12, <2>1
  <2>. QED
    BY <1>10, <2>2
<1>. QED
  BY <1>11, <1>12 DEF InUse

(* What a step of a thread must leave to stay in the memory.               *)
Fits(t, c) ==
  /\ c \in PinCall /\ call' = [call EXCEPT ![t] = c]
  /\ c.pc \in {"idle", "read"} => c.copy = NULL
  /\ c.pc \in {"write", "key", "data", "used"} => c.copy # NULL
  /\ c.pc # "idle" => c.key \in Key
  /\ pins' \in PinArrays /\ copy' \in [Copy -> BOOLEAN]
  /\ set' \in [Key -> BOOLEAN] /\ raced' \in BOOLEAN
  /\ Reach' >= Reach /\ Reach' <= TableSize + Cardinality(Thread)
  /\ \A i \in Slot : \/ pins'.index[i] = pins.index[i] /\ pins'.data[i] = pins.data[i]
                     \/ i < Reach'

LEMMA StaysInMemory ==
  ASSUME InMemory, NEW t \in Thread, NEW c, Fits(t, c)
  PROVE  InMemory'
<1> USE DEF Fits
<1>1. PinTypeOK
  BY DEF InMemory
<1>2. /\ call' \in [Thread -> PinCall] /\ call'[t] = c
      /\ \A u \in Thread \ {t} : call'[u] = call[u]
  BY <1>1, Moves
<1>3. PinTypeOK'
  BY <1>2 DEF PinTypeOK, PinArrays, PinCall
<1>4. \A i \in Slot : pins'.index[i] # NoKey \/ pins'.data[i] # NULL => i < Reach'
  <2>1. Reach \in Nat /\ Reach' \in Nat /\ \A i \in Slot : i \in Nat
    <3>0. /\ Cardinality(Storing) \in 0..Cardinality(Thread)
          /\ Cardinality(Storing') \in 0..Cardinality(Thread)
      BY <1>1, Moves
    <3>1. Cardinality(Storing) \in Nat /\ Cardinality(Storing') \in Nat
      BY <3>0, PinConstants
    <3>2. pins.used \in Nat /\ pins'.used \in Nat /\ \A i \in Slot : i \in Nat
      BY <1>1, PinConstants DEF PinTypeOK, PinArrays
    <3>. QED
      BY <3>1, <3>2 DEF Reach
  <2>. QED
    BY <2>1 DEF InMemory
<1>5. ASSUME NEW u \in Thread
      PROVE  /\ call'[u].pc \in {"idle", "read"} => call'[u].copy = NULL
             /\ call'[u].pc \in {"write", "key", "data", "used"} => call'[u].copy # NULL
             /\ call'[u].pc # "idle" => call'[u].key \in Key
  BY <1>2 DEF InMemory, Adding
<1>. QED
  BY <1>3, <1>4, <1>5 DEF InMemory, Adding

(* A step leaves a thread there, with this key and copy.                    *)
To(t, pc, key, c) == \E r \in PinCall : /\ call' = [call EXCEPT ![t] = r]
                                        /\ r.pc = pc /\ r.key = key /\ r.copy = c

LEMMA ToStep ==
  ASSUME PinTypeOK, NEW t \in Thread,
         NEW pc \in {"idle", "read", "write", "key", "data", "used", "use"},
         call' = [call EXCEPT ![t].pc = pc]
  PROVE  To(t, pc, call[t].key, call[t].copy)
<1> DEFINE o == call[t]
           r == [o EXCEPT !.pc = pc]
<1>1. call' = [call EXCEPT ![t] = r]
  OBVIOUS
<1>2. o \in PinCall
  BY DEF PinTypeOK, PinCall
<1> HIDE DEF o
<1>3. r \in PinCall /\ r.pc = pc /\ r.key = o.key /\ r.copy = o.copy
  BY <1>2 DEF PinCall
<1> HIDE DEF r
<1>. QED
  BY <1>1, <1>3 DEF To, o

LEMMA ToKey ==
  ASSUME PinTypeOK, NEW t \in Thread,
         NEW pc \in {"idle", "read", "write", "key", "data", "used", "use"}, NEW key \in Key,
         call' = [call EXCEPT ![t].pc = pc, ![t].key = key]
  PROVE  To(t, pc, key, call[t].copy)
<1> DEFINE o == call[t]
           r == [o EXCEPT !.pc = pc, !.key = key]
<1>1. call' = [call EXCEPT ![t] = r]
  OBVIOUS
<1>2. o \in PinCall
  BY DEF PinTypeOK, PinCall
<1> HIDE DEF o
<1>3. r \in PinCall /\ r.pc = pc /\ r.key = key /\ r.copy = o.copy
  BY <1>2 DEF PinCall
<1> HIDE DEF r
<1>. QED
  BY <1>1, <1>3 DEF To, o

LEMMA ToCopy ==
  ASSUME PinTypeOK, NEW t \in Thread,
         NEW pc \in {"idle", "read", "write", "key", "data", "used", "use"}, NEW c \in Copy \cup {NULL},
         call' = [call EXCEPT ![t].pc = pc, ![t].copy = c]
  PROVE  To(t, pc, call[t].key, c)
<1> DEFINE o == call[t]
           r == [o EXCEPT !.pc = pc, !.copy = c]
<1>1. call' = [call EXCEPT ![t] = r]
  OBVIOUS
<1>2. o \in PinCall
  BY DEF PinTypeOK, PinCall
<1> HIDE DEF o
<1>3. r \in PinCall /\ r.pc = pc /\ r.key = o.key /\ r.copy = c
  BY <1>2 DEF PinCall
<1> HIDE DEF r
<1>. QED
  BY <1>1, <1>3 DEF To, o

(* The steps of a call, each as what it leaves the thread with.            *)
LEMMA CallSteps ==
  ASSUME InMemory, NEW t \in Thread
  PROVE  /\ \A pin \in Pin : CallPin(t, pin) =>
              hash_pin(pin) \in Key /\ To(t, "read", hash_pin(pin), NULL)
         /\ hash_read(t) => \E i \in 0..pins.used :
              /\ i = First(Entries(call[t].key)) /\ pins.index[i] = call[t].key
              /\ To(t, "use", call[t].key, pins.data[i])
         /\ get_pin(t) => \E new \in Copy :
              /\ ~InUse(new) /\ new # NULL /\ copy' = [copy EXCEPT ![new] = FALSE]
              /\ To(t, "write", call[t].key, new)
         /\ \A pc \in {"key", "data", "used", "use"} :
              call' = [call EXCEPT ![t].pc = pc] => To(t, pc, call[t].key, call[t].copy)
<1>1. /\ PinTypeOK /\ pins \in PinArrays
      /\ call[t].pc \in {"idle", "read"} => call[t].copy = NULL
      /\ call[t].key \in Key \cup {NoKey} /\ call[t].copy \in Copy \cup {NULL}
      /\ pins.used \in Slot /\ pins.used \in Nat
      /\ 0..pins.used \subseteq Slot /\ 0..pins.used \subseteq Nat
  BY PinConstants DEF InMemory, PinTypeOK, PinCall, PinArrays
<1>2. ASSUME NEW pin \in Pin, CallPin(t, pin)
      PROVE  hash_pin(pin) \in Key /\ To(t, "read", hash_pin(pin), NULL)
  <2> DEFINE k == hash_pin(pin)
  <2>1. k \in Key
    BY DEF Key
  <2>2. call' = [call EXCEPT ![t].pc = "read", ![t].key = k] /\ call[t].copy = NULL
    BY <1>1, <1>2 DEF CallPin
  <2> HIDE DEF k
  <2>3. To(t, "read", k, call[t].copy)
    BY <1>1, <2>1, <2>2, ToKey
  <2>. QED
    BY <2>1, <2>2, <2>3 DEF k
<1>3. ASSUME hash_read(t)
      PROVE  \E i \in 0..pins.used :
               /\ i = First(Entries(call[t].key)) /\ pins.index[i] = call[t].key
               /\ To(t, "use", call[t].key, pins.data[i])
  <2> DEFINE i == First(Entries(call[t].key))
             d == pins.data[i]
  <2>1. i \in Entries(call[t].key)
    <3>1. Entries(call[t].key) \subseteq Nat /\ Entries(call[t].key) # {}
      BY <1>1, <1>3 DEF Entries, hash_read
    <3>. QED
      BY <3>1, FirstIsLeast
  <2>2. i \in 0..pins.used /\ pins.index[i] = call[t].key
    BY <2>1 DEF Entries
  <2>3. call' = [call EXCEPT ![t].pc = "use", ![t].copy = d]
    BY <1>3 DEF hash_read
  <2> HIDE DEF i
  <2>4. d \in Copy \cup {NULL}
    BY <1>1, <2>2 DEF PinArrays
  <2> HIDE DEF d
  <2>5. To(t, "use", call[t].key, d)
    BY <1>1, <2>3, <2>4, ToCopy
  <2>. QED
    BY <2>2, <2>5 DEF i, d
<1>4. ASSUME get_pin(t)
      PROVE  \E new \in Copy :
               /\ ~InUse(new) /\ new # NULL /\ copy' = [copy EXCEPT ![new] = FALSE]
               /\ To(t, "write", call[t].key, new)
  <2> DEFINE new == CHOOSE c \in Copy : ~InUse(c)
  <2>1. /\ copy' = [copy EXCEPT ![new] = FALSE]
        /\ call' = [call EXCEPT ![t].pc = "write", ![t].copy = new]
        /\ call[t].copy = NULL
    BY <1>1, <1>4 DEF get_pin
  <2>2. new \in Copy /\ ~InUse(new)
    <3>1. \E c \in Copy : ~InUse(c)
      BY <2>1, CopyIsFree
    <3>. QED
      BY <3>1, Zenon
  <2> HIDE DEF new
  <2>3. new # NULL
    BY <2>2, PinConstants
  <2>4. To(t, "write", call[t].key, new)
    BY <1>1, <2>1, <2>2, ToCopy
  <2>. QED
    BY <2>1, <2>2, <2>3, <2>4
<1>5. ASSUME NEW pc \in {"key", "data", "used", "use"}, call' = [call EXCEPT ![t].pc = pc]
      PROVE  To(t, pc, call[t].key, call[t].copy)
  BY <1>1, <1>5, ToStep
<1>. QED
  BY <1>2, <1>3, <1>4, <1>5

LEMMA PinStepInMemory ==
  ASSUME InMemory, NEW t \in Thread,
         \/ \E pin \in Pin : CallPin(t, pin)
         \/ hash_read(t) \/ get_pin(t)
         \/ hash_write(t) \/ StoreKey(t) \/ StoreData(t) \/ IncrementUsed(t)
         \/ \E op \in {"on", "off", "get"} : UsePin(t, op)
  PROVE  InMemory'
<1>1. /\ PinTypeOK /\ pins \in PinArrays /\ call \in [Thread -> PinCall]
      /\ copy \in [Copy -> BOOLEAN] /\ set \in [Key -> BOOLEAN] /\ raced \in BOOLEAN
      /\ pins.used \in Nat /\ TableSize \in Nat /\ Cardinality(Thread) \in Nat
      /\ Slot = 0..(TableSize + Cardinality(Thread))
      /\ pins.index \in [Slot -> Key \cup {NoKey}] /\ pins.data \in [Slot -> Copy \cup {NULL}]
      /\ Reach <= TableSize + Cardinality(Thread)
      /\ call[t].copy \in Copy \cup {NULL}
      /\ call[t].pc \in {"write", "key", "data", "used"} => call[t].copy # NULL
      /\ call[t].pc # "idle" => call[t].key \in Key
  BY PinConstants DEF InMemory, PinTypeOK, PinCall, PinArrays, Adding
<1>2. Cardinality(Storing) \in 0..Cardinality(Thread)
  <2>1. call[t] \in PinCall /\ call = [call EXCEPT ![t] = call[t]]
    BY <1>1
  <2>2. Storing \in SUBSET Thread
    BY DEF Storing
  <2>. QED
    BY <2>2, PinConstants, FS_Subset, FS_CardinalityType
<1>3. t \in Storing <=> call[t].pc \in {"key", "data", "used"}
  BY DEF Storing
<1>4. ASSUME NEW pin \in Pin, CallPin(t, pin) PROVE InMemory'
  <2>1. PICK c \in PinCall : /\ call' = [call EXCEPT ![t] = c] /\ c.pc = "read"
                             /\ c.key \in Key /\ c.copy = NULL
    BY <1>4, CallSteps DEF To
  <2>2. UNCHANGED <<pins, copy, set, raced>> /\ t \notin Storing
    BY <1>3, <1>4 DEF CallPin
  <2>3. Cardinality(Storing') = Cardinality(Storing)
    BY <1>1, <2>1, <2>2, Moves
  <2>4. Reach' = Reach /\ Reach \in Nat
    BY <1>1, <1>2, <2>2, <2>3 DEF Reach
  <2>5. Fits(t, c)
    BY <1>1, <2>1, <2>2, <2>4 DEF Fits
  <2>. QED
    BY <2>5, StaysInMemory
<1>5. CASE hash_read(t)
  <2>1. PICK c \in PinCall : /\ call' = [call EXCEPT ![t] = c] /\ c.pc = "use"
                             /\ c.key = call[t].key
    BY <1>5, CallSteps DEF To
  <2>2. UNCHANGED <<pins, copy, set>> /\ raced' \in BOOLEAN /\ call[t].pc = "read"
    BY <1>1, <1>5 DEF hash_read
  <2>3. Cardinality(Storing') = Cardinality(Storing)
    BY <1>1, <1>3, <2>1, <2>2, Moves
  <2>4. Reach' = Reach /\ Reach \in Nat
    BY <1>1, <1>2, <2>2, <2>3 DEF Reach
  <2>5. Fits(t, c)
    BY <1>1, <2>1, <2>2, <2>4 DEF Fits
  <2>. QED
    BY <2>5, StaysInMemory
<1>6. CASE get_pin(t)
  <2>1. PICK new \in Copy, c \in PinCall :
          /\ new # NULL /\ copy' = [copy EXCEPT ![new] = FALSE]
          /\ call' = [call EXCEPT ![t] = c] /\ c.pc = "write"
          /\ c.key = call[t].key /\ c.copy = new
    BY <1>6, CallSteps DEF To
  <2>2. UNCHANGED <<pins, set>> /\ raced' \in BOOLEAN /\ call[t].pc = "read"
    BY <1>1, <1>6 DEF get_pin
  <2>3. Cardinality(Storing') = Cardinality(Storing)
    BY <1>1, <1>3, <2>1, <2>2, Moves
  <2>4. Reach' = Reach /\ Reach \in Nat
    BY <1>1, <1>2, <2>2, <2>3 DEF Reach
  <2>5. copy' \in [Copy -> BOOLEAN]
    BY <1>1, <2>1
  <2>6. Fits(t, c)
    BY <1>1, <2>1, <2>2, <2>4, <2>5 DEF Fits
  <2>. QED
    BY <2>6, StaysInMemory
<1>7. CASE hash_write(t)
  <2>1. UNCHANGED <<copy, set, raced>> /\ call[t].pc = "write"
    BY <1>7 DEF hash_write
  <2>2. CASE Entries(call[t].key) # {}
    <3> DEFINE i == First(Entries(call[t].key))
               d == call[t].copy
    <3>1. i \in 0..pins.used /\ pins.index[i] = call[t].key
      <4>1. Entries(call[t].key) \subseteq Nat
        BY <1>1 DEF Entries
      <4>2. i \in Entries(call[t].key)
        BY <2>2, <4>1, FirstIsLeast
      <4>. QED
        BY <4>2 DEF Entries
    <3>2. pins' = [pins EXCEPT !.data[i] = d] /\ call' = [call EXCEPT ![t].pc = "use"]
      BY <1>7, <2>2 DEF hash_write
    <3> HIDE DEF i, d
    <3>3. PICK c \in PinCall : /\ call' = [call EXCEPT ![t] = c] /\ c.pc = "use"
                               /\ c.key = call[t].key
      BY <3>2, CallSteps DEF To
    <3>4. i \in Slot /\ i \in Nat
      BY <1>1, <3>1 DEF PinArrays
    <3>5. /\ pins' \in PinArrays /\ pins'.used = pins.used /\ pins'.index = pins.index
          /\ \A j \in Slot \ {i} : pins'.data[j] = pins.data[j]
      BY <1>1, <3>2, <3>4 DEF PinArrays, d
    <3>6. Cardinality(Storing') = Cardinality(Storing)
      BY <1>1, <1>3, <2>1, <3>3, Moves
    <3>7. Reach' = Reach /\ Reach \in Nat
      BY <1>1, <1>2, <3>5, <3>6 DEF Reach
    <3>8. i < Reach
      BY <1>1, <2>1, <3>1, <3>4, PinConstants DEF InMemory
    <3>9. \A j \in Slot : \/ pins'.index[j] = pins.index[j] /\ pins'.data[j] = pins.data[j]
                          \/ j < Reach'
      BY <3>5, <3>7, <3>8
    <3>10. Fits(t, c)
      BY <1>1, <2>1, <3>3, <3>5, <3>7, <3>9 DEF Fits
    <3>. QED
      BY <3>10, StaysInMemory
  <2>3. CASE Entries(call[t].key) = {}
    <3> DEFINE pc == IF pins.used < TableSize THEN "key" ELSE "use"
    <3>1. pins' = pins /\ call' = [call EXCEPT ![t].pc = pc]
      BY <1>7, <2>3 DEF hash_write
    <3>2. pc \in {"key", "data", "used", "use"} /\ (pc \in {"key", "data", "used"} => pins.used < TableSize)
      OBVIOUS
    <3> HIDE DEF pc
    <3>0. To(t, pc, call[t].key, call[t].copy)
      BY <1>1, <3>1, <3>2, ToStep
    <3>3. PICK c \in PinCall : /\ call' = [call EXCEPT ![t] = c] /\ c.pc = pc
                               /\ c.key = call[t].key /\ c.copy = call[t].copy
      BY <3>0 DEF To
    <3>4. /\ Cardinality(Storing') \in 0..Cardinality(Thread)
          /\ IF pc \in {"key", "data", "used"}
             THEN Cardinality(Storing') = Cardinality(Storing) + 1
             ELSE Cardinality(Storing') = Cardinality(Storing)
      BY <1>1, <1>3, <2>1, <3>3, Moves
    <3>5. /\ Reach' = pins.used + Cardinality(Storing')
          /\ Reach = pins.used + Cardinality(Storing)
      BY <3>1 DEF Reach
    <3>6. Reach' >= Reach /\ Reach' <= TableSize + Cardinality(Thread)
      <4>1. CASE pc \in {"key", "data", "used"}
        BY <1>1, <1>2, <3>2, <3>4, <3>5, <4>1
      <4>2. CASE pc \notin {"key", "data", "used"}
        BY <1>1, <1>2, <3>4, <3>5, <4>2
      <4>. QED
        BY <4>1, <4>2
    <3>7. Fits(t, c)
      BY <1>1, <2>1, <3>1, <3>2, <3>3, <3>6 DEF Fits
    <3>. QED
      BY <3>7, StaysInMemory
  <2>. QED
    BY <2>2, <2>3
<1>8. CASE StoreKey(t) \/ StoreData(t) \/ IncrementUsed(t)
  <2> DEFINE pc == CASE call[t].pc = "key" -> "data" [] call[t].pc = "data" -> "used"
                     [] OTHER -> "use"
             k  == call[t].key
             d  == call[t].copy
  <2>1. /\ UNCHANGED <<copy, set, raced>> /\ call[t].pc \in {"key", "data", "used"}
        /\ call' = [call EXCEPT ![t].pc = pc]
        /\ pins' = CASE call[t].pc = "key"  -> [pins EXCEPT !.index[pins.used] = k]
                     [] call[t].pc = "data" -> [pins EXCEPT !.data[pins.used] = d]
                     [] OTHER               -> [pins EXCEPT !.used = @ + 1]
    BY <1>8 DEF StoreKey, StoreData, IncrementUsed
  <2>2. pc \in {"data", "used", "use"} /\ (pc = "use" <=> call[t].pc = "used")
    BY <2>1
  <2> HIDE DEF pc
  <2>0. To(t, pc, call[t].key, call[t].copy)
    BY <1>1, <2>1, <2>2, ToStep
  <2>3. PICK c \in PinCall : /\ call' = [call EXCEPT ![t] = c] /\ c.pc = pc
                             /\ c.key = call[t].key /\ c.copy = call[t].copy
    BY <2>0 DEF To
  <2>4. t \in Storing
    BY <1>3, <2>1
  <2>5. /\ Cardinality(Storing') \in 0..Cardinality(Thread)
        /\ Cardinality(Storing') = IF pc = "use" THEN Cardinality(Storing) - 1
                                   ELSE Cardinality(Storing)
    BY <1>1, <2>2, <2>3, <2>4, Moves
  <2>6. Cardinality(Storing) >= 1
    <3>1. Storing \in SUBSET Thread /\ Storing # {}
      BY <2>4 DEF Storing
    <3>2. IsFiniteSet(Storing)
      BY <3>1, PinConstants, FS_Subset
    <3>3. Cardinality(Storing) # 0
      BY <3>1, <3>2, FS_EmptySet
    <3>. QED
      BY <1>1, <1>2, <3>3
  <2>7. pins.used \in Slot /\ pins.used < Reach /\ pins.used + 1 \in Slot
    BY <1>1, <1>2, <2>6 DEF Reach
  <2>11. /\ c.pc \in {"data", "used", "use"} /\ c.key \in Key /\ c.copy # NULL
         /\ copy' = copy /\ set' = set /\ raced' = raced
    BY <1>1, <2>1, <2>2, <2>3
  <2>8. CASE call[t].pc = "key"
    <3>1. pins' = [pins EXCEPT !.index[pins.used] = k] /\ k \in Key /\ pc # "use"
      BY <1>1, <2>1, <2>2, <2>8
    <3> HIDE DEF k
    <3>2. /\ pins' \in PinArrays /\ pins'.used = pins.used /\ pins'.data = pins.data
          /\ \A j \in Slot \ {pins.used} : pins'.index[j] = pins.index[j]
      BY <1>1, <2>7, <3>1 DEF PinArrays
    <3>3. Reach' = Reach /\ Reach \in Nat
      BY <1>1, <1>2, <2>5, <3>1, <3>2 DEF Reach
    <3>4. \A j \in Slot : \/ pins'.index[j] = pins.index[j] /\ pins'.data[j] = pins.data[j]
                          \/ j < Reach'
      BY <2>7, <3>2, <3>3
    <3>5. Fits(t, c)
      BY <1>1, <2>3, <2>11, <3>2, <3>3, <3>4 DEF Fits
    <3>. QED
      BY <3>5, StaysInMemory
  <2>9. CASE call[t].pc = "data"
    <3>1. pins' = [pins EXCEPT !.data[pins.used] = d] /\ d \in Copy \cup {NULL} /\ pc # "use"
      BY <1>1, <2>1, <2>2, <2>9
    <3> HIDE DEF d
    <3>2. /\ pins' \in PinArrays /\ pins'.used = pins.used /\ pins'.index = pins.index
          /\ \A j \in Slot \ {pins.used} : pins'.data[j] = pins.data[j]
      BY <1>1, <2>7, <3>1 DEF PinArrays
    <3>3. Reach' = Reach /\ Reach \in Nat
      BY <1>1, <1>2, <2>5, <3>1, <3>2 DEF Reach
    <3>4. \A j \in Slot : \/ pins'.index[j] = pins.index[j] /\ pins'.data[j] = pins.data[j]
                          \/ j < Reach'
      BY <2>7, <3>2, <3>3
    <3>5. Fits(t, c)
      BY <1>1, <2>3, <2>11, <3>2, <3>3, <3>4 DEF Fits
    <3>. QED
      BY <3>5, StaysInMemory
  <2>10. CASE call[t].pc = "used"
    <3> DEFINE n == pins.used + 1
    <3>1. pins' = [pins EXCEPT !.used = n] /\ pc = "use" /\ n \in Slot
      BY <2>1, <2>2, <2>7, <2>10
    <3>2. n = pins.used + 1
      OBVIOUS
    <3> HIDE DEF n
    <3>3. /\ pins' \in PinArrays /\ pins'.used = n
          /\ pins'.index = pins.index /\ pins'.data = pins.data
      BY <1>1, <3>1 DEF PinArrays
    <3>4. Reach' = Reach /\ Reach \in Nat
      <4>1. Reach' = n + (Cardinality(Storing) - 1)
        BY <2>5, <3>1, <3>3 DEF Reach
      <4>2. Reach = pins.used + Cardinality(Storing)
        BY DEF Reach
      <4>3. pins.used \in Nat /\ Cardinality(Storing) \in Nat
        BY <1>1, <1>2
      <4>4. Reach' = (pins.used + 1) + (Cardinality(Storing) - 1)
        BY <3>2, <4>1
      <4>. QED
        BY <4>2, <4>3, <4>4
    <3>5. Fits(t, c)
      BY <1>1, <2>3, <2>11, <3>1, <3>3, <3>4 DEF Fits
    <3>. QED
      BY <3>5, StaysInMemory
  <2>. QED
    BY <2>1, <2>8, <2>9, <2>10
<1>9. ASSUME NEW op \in {"on", "off", "get"}, UsePin(t, op) PROVE InMemory'
  <2>1. /\ call[t].pc = "use" /\ UNCHANGED <<pins, raced>>
        /\ call' = [call EXCEPT ![t] = Idle]
    BY <1>9 DEF UsePin
  <2>2. Idle \in PinCall /\ Idle.pc = "idle" /\ Idle.copy = NULL
    BY DEF Idle, PinCall
  <2>3. copy' \in [Copy -> BOOLEAN] /\ set' \in [Key -> BOOLEAN]
    <3>1. \A b \in BOOLEAN : PortBit(op, b) \in BOOLEAN
      BY DEF PortBit
    <3>2. \A b \in BOOLEAN : (PortBit(op, b) /\ \E i \in Slot : pins.data[i] = call[t].copy) \in BOOLEAN
      OBVIOUS
    <3>. QED
      BY <1>1, <1>9, <3>1, <3>2 DEF UsePin
  <2>4. Cardinality(Storing') = Cardinality(Storing)
    BY <1>1, <1>3, <2>1, <2>2, Moves
  <2>5. Reach' = Reach /\ Reach \in Nat
    BY <1>1, <1>2, <2>1, <2>4 DEF Reach
  <2>6. Fits(t, Idle)
    BY <1>1, <2>1, <2>2, <2>3, <2>5 DEF Fits
  <2>. QED
    BY <2>6, StaysInMemory
<1>. QED
  BY <1>4, <1>5, <1>6, <1>7, <1>8, <1>9

(* What the steps have in common: the entries of the table are typed, and  *)
(* one thread moves.                                                       *)
LEMMA PinsTyped ==
  ASSUME InMemory
  PROVE  /\ pins \in PinArrays /\ call \in [Thread -> PinCall]
         /\ copy \in [Copy -> BOOLEAN] /\ set \in [Key -> BOOLEAN] /\ raced \in BOOLEAN
         /\ pins.used \in Nat /\ pins.used \in Slot
         /\ \A i \in Slot : i \in Nat /\ pins.index[i] \in Key \cup {NoKey}
                            /\ pins.data[i] \in Copy \cup {NULL}
         /\ \A i \in 0..(pins.used - 1) : i \in Slot /\ i \in Nat /\ i < pins.used
         /\ NULL \notin Copy /\ NoKey \notin Key /\ TableSize \in Nat
<1>1. /\ pins \in PinArrays /\ call \in [Thread -> PinCall]
      /\ copy \in [Copy -> BOOLEAN] /\ set \in [Key -> BOOLEAN] /\ raced \in BOOLEAN
  BY DEF InMemory, PinTypeOK, PinCall, PinArrays
<1>2. /\ pins.used \in Slot
      /\ \A i \in Slot : pins.index[i] \in Key \cup {NoKey} /\ pins.data[i] \in Copy \cup {NULL}
  BY <1>1 DEF PinArrays
<1>3. /\ \A i \in Slot : i \in Nat
      /\ \A i \in 0..(pins.used - 1) : i \in Slot /\ i \in Nat /\ i < pins.used
  BY <1>2, PinConstants
<1>. QED
  BY <1>1, <1>2, <1>3, PinConstants

LEMMA PinInitInv == PinInit => PinInv
<1> SUFFICES ASSUME PinInit PROVE PinInv
  OBVIOUS
<1>1. Storing = {} /\ Cardinality(Storing) = 0
  <2>1. Storing = {}
    BY DEF PinInit, Storing, Idle
  <2>. QED
    BY <2>1, FS_EmptySet
<1>2. pins.used = 0 /\ Reach = 0
  BY <1>1 DEF PinInit, Reach
<1>3. PinTypeOK
  <2>1. Idle \in PinCall
    BY DEF Idle, PinCall
  <2>2. 0 \in Slot
    BY PinConstants
  <2>. QED
    BY <2>1, <2>2 DEF PinInit, PinTypeOK, PinCall
<1>4. \A t \in Thread : call[t].pc = "idle" /\ call[t].copy = NULL
  BY DEF PinInit, Idle
<1>5. \A i \in Slot : pins.index[i] = NoKey /\ pins.data[i] = NULL
  BY DEF PinInit
<1>6. InMemory
  BY <1>2, <1>3, <1>4, <1>5, PinConstants DEF InMemory, Adding
<1>7. 0..(pins.used - 1) = {}
  BY <1>2
<1>8. Entered /\ OneAdds /\ Beyond
  BY <1>4, <1>5, <1>7 DEF Entered, OneAdds, Beyond, Adding
<1>9. Bits
  BY <1>7 DEF Bits, PinInit
<1>10. \A t \in Thread : Orderly(t)
  BY <1>1, <1>4 DEF Orderly, Adding
<1>. QED
  BY <1>6, <1>8, <1>9, <1>10 DEF PinInv, InOrder

(* A thread that does not add an entry moves, and the table stays.         *)
Aside(t, c) ==
  /\ c \in PinCall /\ call' = [call EXCEPT ![t] = c] /\ pins' = pins
  /\ call[t].pc \notin {"write", "key", "data", "used"}
  /\ c.pc \notin {"write", "key", "data", "used"}
  /\ c.pc = "use" => Kept(t)' \/ Refused(t)'
  /\ c.copy = NULL \/ ~NoCopy(c.copy)
  /\ \A d \in Copy : copy'[d] = copy[d] \/ d = call[t].copy

LEMMA AsideInOrder ==
  ASSUME InMemory, InOrder, NEW t \in Thread, NEW c, Aside(t, c), Bits'
  PROVE  InOrder'
<1>1. /\ c \in PinCall /\ call' = [call EXCEPT ![t] = c] /\ pins' = pins
      /\ call[t].pc \notin {"write", "key", "data", "used"}
      /\ c.pc \notin {"write", "key", "data", "used"}
      /\ c.pc = "use" => Kept(t)' \/ Refused(t)'
  BY DEF Aside
<1>2. /\ call \in [Thread -> PinCall] /\ call'[t] = c
      /\ \A u \in Thread \ {t} : call'[u] = call[u]
  BY <1>1, PinsTyped
<1>3. \A u \in Thread : Adding(u)' <=> Adding(u)
  BY <1>1, <1>2 DEF Adding
<1>4. Entered' /\ OneAdds'
  BY <1>1, <1>3 DEF InOrder, Entered, OneAdds
<1>5. Beyond'
  BY <1>1, <1>2 DEF InOrder, Beyond
<1>6. Orderly(t)'
  BY <1>1, <1>2 DEF Orderly, Adding, Storing
<1>7. ASSUME NEW u \in Thread \ {t} PROVE Orderly(u)'
  <2>1. Orderly(u) /\ call'[u] = call[u]
    BY <1>2 DEF InOrder
  <2>2. /\ u \in Storing' <=> u \in Storing
        /\ Kept(u)' <=> Kept(u)
        /\ Refused(u)' <=> Refused(u)
        /\ Absent(call[u].key)' <=> Absent(call[u].key)
        /\ NoCopy(call[u].copy)' <=> NoCopy(call[u].copy)
    BY <1>1, <2>1 DEF Storing, Kept, Refused, Absent, NoCopy
  <2>3. ASSUME Adding(u)
        PROVE  ~copy'[call[u].copy] /\ \A v \in Thread \ {u} : call'[v].copy # call[u].copy
    <3> DEFINE d == call[u].copy
    <3>1. /\ d \in Copy /\ d # NULL /\ NoCopy(d) /\ ~copy[d]
          /\ \A v \in Thread \ {u} : call[v].copy # d
      BY <1>2, <2>1, <2>3 DEF InMemory, Orderly, PinCall
    <3> HIDE DEF d
    <3>2. ~copy'[d]
      BY <3>1 DEF Aside
    <3>3. c.copy # d
      BY <3>1 DEF Aside
    <3>. QED
      BY <1>2, <3>1, <3>2, <3>3 DEF d
  <2>4. Adding(u)' => /\ (Absent(call[u].key) /\ NoCopy(call[u].copy))'
                      /\ ~copy'[call'[u].copy]
                      /\ \A v \in Thread \ {u} : call'[v].copy # call'[u].copy
    <3>1. Adding(u) => Absent(call[u].key) /\ NoCopy(call[u].copy)
      BY <2>1 DEF Orderly
    <3>. QED
      BY <1>3, <2>1, <2>2, <2>3, <3>1
  <2>5. /\ u \in Storing => pins.used < TableSize
        /\ call[u].pc \in {"data", "used"} => pins.index[pins.used] = call[u].key
        /\ call[u].pc = "used" => pins.data[pins.used] = call[u].copy
        /\ call[u].pc = "use" => Kept(u) \/ Refused(u)
    BY <2>1 DEF Orderly
  <2>6. /\ u \in Storing' => pins'.used < TableSize
        /\ call'[u].pc \in {"data", "used"} => pins'.index[pins'.used] = call'[u].key
        /\ call'[u].pc = "used" => pins'.data[pins'.used] = call'[u].copy
        /\ call'[u].pc = "use" => Kept(u)' \/ Refused(u)'
    BY <1>1, <2>1, <2>2, <2>5
  <2>. QED
    BY <2>4, <2>6 DEF Orderly
<1>. QED
  BY <1>4, <1>5, <1>6, <1>7 DEF InOrder

(* The thread that adds an entry moves, and the entries that are there     *)
(* stay.                                                                   *)
Alone(t, c) ==
  /\ c \in PinCall /\ call' = [call EXCEPT ![t] = c] /\ set' = set
  /\ \A u \in Thread \ {t} : ~Adding(u)
  /\ pins'.used = pins.used
  /\ \A i \in 0..(pins.used - 1) : /\ pins'.index[i] = pins.index[i]
                                   /\ pins'.data[i] = pins.data[i]
                                   /\ copy'[pins.data[i]] = copy[pins.data[i]]

LEMMA AloneInOrder ==
  ASSUME InMemory, InOrder, NEW t \in Thread, NEW c, Alone(t, c), Beyond', Orderly(t)'
  PROVE  InOrder'
<1>1. /\ c \in PinCall /\ call' = [call EXCEPT ![t] = c] /\ set' = set
      /\ \A u \in Thread \ {t} : ~Adding(u)
      /\ pins'.used = pins.used
      /\ \A i \in 0..(pins.used - 1) : /\ pins'.index[i] = pins.index[i]
                                       /\ pins'.data[i] = pins.data[i]
                                       /\ copy'[pins.data[i]] = copy[pins.data[i]]
  BY DEF Alone
<1>2. /\ call \in [Thread -> PinCall] /\ call'[t] = c
      /\ \A u \in Thread \ {t} : call'[u] = call[u]
  BY <1>1, PinsTyped
<1>3. \A u \in Thread \ {t} : ~Adding(u)'
  BY <1>1, <1>2 DEF Adding
<1>4. Entered' /\ OneAdds'
  <2>1. OneAdds'
    BY <1>3 DEF OneAdds
  <2>2. Entered'
    BY <1>1 DEF InOrder, Entered
  <2>. QED
    BY <2>1, <2>2
<1>5. \A k : Absent(k)' <=> Absent(k)
  BY <1>1 DEF Absent
<1>6. \A d : NoCopy(d)' <=> NoCopy(d)
  BY <1>1 DEF NoCopy
<1>7. Bits'
  <2>1. ASSUME NEW i \in 0..(pins.used - 1) PROVE copy'[pins'.data[i]] = set'[pins'.index[i]]
    <3>1. copy[pins.data[i]] = set[pins.index[i]]
      BY DEF InOrder, Bits
    <3>. QED
      BY <1>1, <3>1
  <2>2. ASSUME NEW k \in Key, Absent(k)', pins'.used < TableSize PROVE ~set'[k]
    <3>1. Absent(k) /\ pins.used < TableSize
      BY <1>1, <1>5, <2>2
    <3>2. ~set[k]
      BY <3>1 DEF InOrder, Bits
    <3>. QED
      BY <1>1, <3>2
  <2>. QED
    BY <1>1, <2>1, <2>2 DEF Bits
<1>8. ASSUME NEW u \in Thread \ {t} PROVE Orderly(u)'
  <2>1. Orderly(u) /\ call'[u] = call[u] /\ ~Adding(u) /\ ~Adding(u)'
    BY <1>1, <1>2, <1>3 DEF InOrder
  <2>2. Kept(u)' <=> Kept(u)
    BY <1>1, <2>1 DEF Kept
  <2>3. Refused(u)' <=> Refused(u)
    <3>1. Absent(call[u].key)' <=> Absent(call[u].key)
      BY <1>1, <2>1 DEF Absent
    <3>2. NoCopy(call[u].copy)' <=> NoCopy(call[u].copy)
      BY <1>1, <2>1 DEF NoCopy
    <3>. QED
      BY <1>1, <2>1, <3>1, <3>2 DEF Refused
  <2>4. call'[u].pc = "use" => Kept(u)' \/ Refused(u)'
    BY <2>1, <2>2, <2>3 DEF Orderly
  <2>5. call'[u].pc \notin {"write", "key", "data", "used"} /\ u \notin Storing'
    BY <2>1 DEF Adding, Storing
  <2>. QED
    BY <2>1, <2>4, <2>5 DEF Orderly
<1>. QED
  BY <1>4, <1>7, <1>8 DEF InOrder

LEMMA CallPinInOrder ==
  ASSUME InMemory, InOrder, NEW t \in Thread, NEW pin \in Pin, CallPin(t, pin)
  PROVE  InOrder'
<1>1. PICK c \in PinCall : /\ call' = [call EXCEPT ![t] = c] /\ c.pc = "read"
                           /\ c.copy = NULL
  BY CallSteps DEF To
<1>2. UNCHANGED <<pins, copy, set, raced>> /\ call[t].pc = "idle"
  BY DEF CallPin
<1>3. Bits'
  BY <1>2 DEF InOrder, Bits, Absent
<1>4. Aside(t, c)
  BY <1>1, <1>2 DEF Aside
<1>. QED
  BY <1>3, <1>4, AsideInOrder

LEMMA HashReadInOrder ==
  ASSUME InMemory, InOrder, NEW t \in Thread, hash_read(t), ~raced'
  PROVE  InOrder'
<1>1. PICK i \in 0..pins.used, c \in PinCall :
        /\ i = First(Entries(call[t].key)) /\ pins.index[i] = call[t].key
        /\ call' = [call EXCEPT ![t] = c] /\ c.pc = "use"
        /\ c.key = call[t].key /\ c.copy = pins.data[i]
  BY CallSteps DEF To
<1>2. UNCHANGED <<pins, copy, set>> /\ call[t].pc = "read" /\ i # pins.used
  BY <1>1 DEF hash_read
<1>3. i \in 0..(pins.used - 1)
  BY <1>1, <1>2, PinsTyped
<1>4. Bits'
  BY <1>2 DEF InOrder, Bits, Absent
<1>5. call'[t] = c
  BY <1>1, PinsTyped
<1>6. Kept(t)' /\ ~NoCopy(c.copy)
  BY <1>1, <1>2, <1>3, <1>5 DEF Kept, NoCopy
<1>7. Aside(t, c)
  BY <1>1, <1>2, <1>6 DEF Aside
<1>. QED
  BY <1>4, <1>7, AsideInOrder

LEMMA GetPinInOrder ==
  ASSUME InMemory, InOrder, NEW t \in Thread, get_pin(t), ~raced'
  PROVE  InOrder'
<1>1. PICK new \in Copy, c \in PinCall :
        /\ ~InUse(new) /\ copy' = [copy EXCEPT ![new] = FALSE]
        /\ call' = [call EXCEPT ![t] = c] /\ c.pc = "write"
        /\ c.key = call[t].key /\ c.copy = new
  BY CallSteps DEF To
<1>2. /\ UNCHANGED <<pins, set>> /\ Entries(call[t].key) = {}
      /\ \A u \in Thread : ~Adding(u)
  BY DEF get_pin
<1>3. /\ call'[t] = c /\ \A u \in Thread \ {t} : call'[u] = call[u]
      /\ copy'[new] = FALSE /\ \A d \in Copy \ {new} : copy'[d] = copy[d]
  BY <1>1, PinsTyped
<1>4. NoCopy(new) /\ \A u \in Thread : call[u].copy # new
  <2>1. \A i \in Slot : pins.data[i] # new
    BY <1>1 DEF InUse
  <2>. QED
    BY <1>1, <2>1, PinsTyped DEF InUse, NoCopy
<1>5. Absent(call[t].key)
  BY <1>2, PinsTyped DEF Absent, Entries
<1>6. Alone(t, c)
  <2>1. ASSUME NEW i \in 0..(pins.used - 1) PROVE copy'[pins.data[i]] = copy[pins.data[i]]
    <3>1. pins.data[i] \in Copy
      BY PinsTyped DEF InOrder, Entered
    <3>2. pins.data[i] # new
      BY <1>4 DEF NoCopy
    <3>. QED
      BY <1>3, <3>1, <3>2
  <2>. QED
    BY <1>1, <1>2, <2>1 DEF Alone
<1>7. Beyond'
  <2>1. \A u \in Thread : call[u].pc \notin {"data", "used"}
    BY <1>2 DEF Adding
  <2>. QED
    BY <1>2, <2>1 DEF InOrder, Beyond
<1>8. Orderly(t)'
  <2>1. Absent(call[t].key)' <=> Absent(call[t].key)
    BY <1>1, <1>2, <1>3 DEF Absent
  <2>. QED
    BY <1>1, <1>2, <1>3, <1>4, <1>5 DEF Orderly, Absent, NoCopy, Storing
<1>. QED
  BY <1>6, <1>7, <1>8, AloneInOrder

(* Nobody but an adding thread adds.                                       *)
LEMMA NobodyElse ==
  ASSUME InOrder, NEW t \in Thread, Adding(t)
  PROVE  \A u \in Thread \ {t} : ~Adding(u)
BY DEF InOrder, OneAdds

LEMMA HashWriteInOrder ==
  ASSUME InMemory, InOrder, NEW t \in Thread, hash_write(t)
  PROVE  InOrder'
<1>1. call[t].pc = "write" /\ UNCHANGED <<copy, set>>
  BY DEF hash_write
<1>2. /\ Adding(t) /\ Orderly(t) /\ call[t].key \in Key /\ call[t].copy # NULL
      /\ \A u \in Thread \ {t} : ~Adding(u)
  BY <1>1, NobodyElse DEF Adding, InOrder, InMemory
<1>3. /\ Absent(call[t].key) /\ NoCopy(call[t].copy) /\ ~copy[call[t].copy]
      /\ \A u \in Thread \ {t} : call[u].copy # call[t].copy
  BY <1>2 DEF Orderly
<1>4. \A u \in Thread : call[u].pc \notin {"data", "used"}
  BY <1>1, <1>2 DEF Adding
<1>5. pins.index[pins.used] = NoKey
  BY <1>4, PinsTyped DEF InOrder, Beyond
<1>6. Entries(call[t].key) = {}
  <2>1. ASSUME NEW i \in 0..pins.used, pins.index[i] = call[t].key PROVE FALSE
    <3>1. i = pins.used \/ i \in 0..(pins.used - 1)
      BY PinsTyped
    <3>. QED
      BY <1>2, <1>3, <1>5, <2>1, <3>1, PinsTyped DEF Absent
  <2>. QED
    BY <2>1 DEF Entries
<1> DEFINE pc == IF pins.used < TableSize THEN "key" ELSE "use"
<1>7. pins' = pins /\ call' = [call EXCEPT ![t].pc = pc]
  BY <1>6 DEF hash_write
<1>8. pc \in {"key", "data", "used", "use"} /\ IF pins.used < TableSize THEN pc = "key" ELSE pc = "use"
  OBVIOUS
<1> HIDE DEF pc
<1>9. PICK c \in PinCall : /\ call' = [call EXCEPT ![t] = c] /\ c.pc = pc
                           /\ c.key = call[t].key /\ c.copy = call[t].copy
  <2>1. PinTypeOK
    BY DEF InMemory
  <2>2. To(t, pc, call[t].key, call[t].copy)
    BY <1>7, <1>8, <2>1, ToStep
  <2>. QED
    BY <2>2 DEF To
<1>10. call'[t] = c /\ \A u \in Thread \ {t} : call'[u] = call[u]
  BY <1>9, PinsTyped
<1>11. Alone(t, c)
  BY <1>1, <1>2, <1>7, <1>9 DEF Alone
<1>12. Beyond'
  BY <1>4, <1>7 DEF InOrder, Beyond
<1>13. Orderly(t)'
  <2>1. Absent(call[t].key)' /\ NoCopy(call[t].copy)'
    BY <1>3, <1>7, <1>9, <1>10 DEF Absent, NoCopy
  <2>2. /\ ~copy'[call'[t].copy] /\ \A u \in Thread \ {t} : call'[u].copy # call'[t].copy
    BY <1>1, <1>3, <1>9, <1>10
  <2>3. t \in Storing' => pins'.used < TableSize
    BY <1>7, <1>8, <1>9, <1>10 DEF Storing
  <2>4. call'[t].pc \notin {"data", "used"}
    BY <1>8, <1>9, <1>10
  <2>5. call'[t].pc = "use" => Refused(t)'
    <3>1. call'[t].pc = "use" => ~(pins.used < TableSize)
      BY <1>8, <1>9, <1>10
    <3>. QED
      BY <1>2, <1>7, <1>9, <1>10, <2>1, <3>1, PinsTyped DEF Refused
  <2>. QED
    BY <2>1, <2>2, <2>3, <2>4, <2>5 DEF Orderly
<1>. QED
  BY <1>11, <1>12, <1>13, AloneInOrder

LEMMA StoreInOrder ==
  ASSUME InMemory, InOrder, NEW t \in Thread, StoreKey(t) \/ StoreData(t)
  PROVE  InOrder'
<1> DEFINE k  == call[t].key
           d  == call[t].copy
           pc == IF call[t].pc = "key" THEN "data" ELSE "used"
<1>1. /\ UNCHANGED <<copy, set>> /\ call[t].pc \in {"key", "data"}
      /\ call' = [call EXCEPT ![t].pc = pc]
      /\ pins' = IF call[t].pc = "key" THEN [pins EXCEPT !.index[pins.used] = k]
                 ELSE [pins EXCEPT !.data[pins.used] = d]
  BY DEF StoreKey, StoreData
<1>2. pc \in {"key", "data", "used", "use"} /\ IF call[t].pc = "key" THEN pc = "data" ELSE pc = "used"
  OBVIOUS
<1> HIDE DEF pc
<1>3. PICK c \in PinCall : /\ call' = [call EXCEPT ![t] = c] /\ c.pc = pc
                           /\ c.key = call[t].key /\ c.copy = call[t].copy
  <2>1. PinTypeOK
    BY DEF InMemory
  <2>2. To(t, pc, call[t].key, call[t].copy)
    BY <1>1, <1>2, <2>1, ToStep
  <2>. QED
    BY <2>2 DEF To
<1>4. call'[t] = c /\ \A u \in Thread \ {t} : call'[u] = call[u]
  BY <1>3, PinsTyped
<1>5. /\ Adding(t) /\ Orderly(t) /\ t \in Storing /\ k \in Key /\ d # NULL /\ d \in Copy
      /\ \A u \in Thread \ {t} : ~Adding(u)
  <2>1. Adding(t) /\ call[t].pc # "idle"
    BY <1>1 DEF Adding
  <2>2. call[t].copy \in Copy \cup {NULL}
    BY PinsTyped DEF PinCall
  <2>3. t \in Storing
    BY <1>1 DEF Storing
  <2>. QED
    BY <2>1, <2>2, <2>3, NobodyElse DEF InOrder, InMemory
<1>6. /\ Absent(k) /\ NoCopy(d) /\ ~copy[d] /\ pins.used < TableSize
      /\ \A u \in Thread \ {t} : call[u].copy # d
      /\ call[t].pc = "data" => pins.index[pins.used] = k
  BY <1>5 DEF Orderly
<1> HIDE DEF k, d
<1>7. /\ pins'.used = pins.used
      /\ \A i \in Slot \ {pins.used} : pins'.index[i] = pins.index[i] /\ pins'.data[i] = pins.data[i]
      /\ call[t].pc = "key" => pins'.index[pins.used] = k /\ pins'.data = pins.data
      /\ call[t].pc = "data" => pins'.data[pins.used] = d /\ pins'.index = pins.index
  <2>1. pins \in PinArrays /\ pins.used \in Slot
    BY PinsTyped
  <2>2. CASE call[t].pc = "key"
    BY <1>1, <2>1, <2>2 DEF PinArrays
  <2>3. CASE call[t].pc = "data"
    BY <1>1, <2>1, <2>3 DEF PinArrays
  <2>. QED
    BY <1>1, <2>2, <2>3
<1>8. \A i \in 0..(pins.used - 1) : i \in Slot \ {pins.used}
  BY PinsTyped
<1>9. Alone(t, c)
  BY <1>1, <1>3, <1>5, <1>7, <1>8 DEF Alone
<1>10. Beyond'
  <2>1. ASSUME NEW i \in Slot, i >= pins'.used
        PROVE  /\ pins'.index[i] # NoKey => i = pins'.used /\ \E u \in Thread : call'[u].pc \in {"data", "used"}
               /\ pins'.data[i] # NULL   => i = pins'.used /\ \E u \in Thread : call'[u].pc = "used"
    <3>1. call'[t].pc \in {"data", "used"} /\ (call[t].pc = "data" => call'[t].pc = "used")
      BY <1>1, <1>2, <1>3, <1>4
    <3>2. CASE i = pins.used
      <4>1. call[t].pc = "key" => pins.data[i] = NULL
        BY <1>5, <2>1, <3>2, PinsTyped DEF InOrder, Beyond, Adding
      <4>. QED
        BY <1>1, <1>7, <3>1, <3>2, <4>1
    <3>3. CASE i # pins.used
      BY <1>7, <2>1, <3>3 DEF InOrder, Beyond
    <3>. QED
      BY <3>2, <3>3
  <2>. QED
    BY <2>1 DEF Beyond
<1>11. Orderly(t)'
  <2>1. (Absent(call[t].key) /\ NoCopy(call[t].copy))'
    BY <1>3, <1>4, <1>6, <1>7, <1>8 DEF Absent, NoCopy, k, d
  <2>2. /\ ~copy'[call'[t].copy] /\ \A u \in Thread \ {t} : call'[u].copy # call'[t].copy
    BY <1>1, <1>3, <1>4, <1>6 DEF d
  <2>3. /\ pins'.used < TableSize
        /\ call'[t].pc \in {"data", "used"} => pins'.index[pins'.used] = call'[t].key
        /\ call'[t].pc = "used" => pins'.data[pins'.used] = call'[t].copy
    BY <1>1, <1>2, <1>3, <1>4, <1>6, <1>7 DEF k, d
  <2>4. call'[t].pc # "use"
    BY <1>2, <1>3, <1>4
  <2>. QED
    BY <2>1, <2>2, <2>3, <2>4 DEF Orderly
<1>. QED
  BY <1>9, <1>10, <1>11, AloneInOrder

LEMMA IncrementInOrder ==
  ASSUME InMemory, InOrder, NEW t \in Thread, IncrementUsed(t)
  PROVE  InOrder'
<1> DEFINE k == call[t].key
           d == call[t].copy
           n == pins.used
<1>1. /\ UNCHANGED <<copy, set>> /\ call[t].pc = "used"
      /\ call' = [call EXCEPT ![t].pc = "use"] /\ pins' = [pins EXCEPT !.used = n + 1]
  BY DEF IncrementUsed
<1>2. PICK c \in PinCall : /\ call' = [call EXCEPT ![t] = c] /\ c.pc = "use"
                           /\ c.key = call[t].key /\ c.copy = call[t].copy
  <2>1. PinTypeOK
    BY DEF InMemory
  <2>2. To(t, "use", call[t].key, call[t].copy)
    BY <1>1, <2>1, ToStep
  <2>. QED
    BY <2>2 DEF To
<1>3. call'[t] = c /\ \A u \in Thread \ {t} : call'[u] = call[u]
  BY <1>2, PinsTyped
<1>4. /\ Adding(t) /\ Orderly(t) /\ t \in Storing /\ k \in Key /\ d # NULL
      /\ \A u \in Thread \ {t} : ~Adding(u)
  <2>1. Adding(t) /\ t \in Storing
    BY <1>1 DEF Adding, Storing
  <2>. QED
    BY <1>1, <2>1, NobodyElse DEF InOrder, InMemory
<1>5. /\ Absent(k) /\ NoCopy(d) /\ ~copy[d] /\ n < TableSize
      /\ pins.index[n] = k /\ pins.data[n] = d
  BY <1>1, <1>4 DEF Orderly
<1>6. pins'.used = n + 1 /\ pins'.index = pins.index /\ pins'.data = pins.data /\ n \in Nat
  BY <1>1, PinsTyped DEF PinArrays
<1>7. \A i \in 0..(pins'.used - 1) : i = n \/ i \in 0..(n - 1)
  BY <1>6
<1>8. /\ \A u \in Thread : ~Adding(u)'
      /\ \A i \in 0..(n - 1) : i \in 0..(pins'.used - 1) /\ i # n
      /\ n \in 0..(pins'.used - 1)
  <2>1. \A u \in Thread : ~Adding(u)'
    BY <1>2, <1>3, <1>4 DEF Adding
  <2>. QED
    BY <1>6, <2>1
<1> HIDE DEF k, d
<1>9. Entered'
  <2>1. ASSUME NEW i \in 0..(pins'.used - 1)
        PROVE  pins'.index[i] # NoKey /\ pins'.data[i] # NULL
    BY <1>4, <1>5, <1>6, <1>7, PinsTyped DEF InOrder, Entered
  <2>2. ASSUME NEW i \in 0..(pins'.used - 1), NEW j \in 0..(pins'.used - 1),
               pins'.index[i] = pins'.index[j] \/ pins'.data[i] = pins'.data[j]
        PROVE  i = j
    <3>1. \A m \in 0..(n - 1) : pins.index[m] # k /\ pins.data[m] # d
      BY <1>5 DEF Absent, NoCopy
    <3>2. CASE i = n
      BY <1>5, <1>6, <1>7, <2>2, <3>1, <3>2
    <3>3. CASE j = n
      BY <1>5, <1>6, <1>7, <2>2, <3>1, <3>3
    <3>4. CASE i # n /\ j # n
      <4>1. i \in 0..(n - 1) /\ j \in 0..(n - 1)
        BY <1>7, <3>4
      <4>2. pins.index[i] = pins.index[j] \/ pins.data[i] = pins.data[j]
        BY <1>6, <2>2
      <4>. QED
        BY <4>1, <4>2 DEF InOrder, Entered
    <3>. QED
      BY <3>2, <3>3, <3>4
  <2>. QED
    BY <2>1, <2>2 DEF Entered
<1>10. OneAdds'
  BY <1>8 DEF OneAdds
<1>11. Beyond'
  <2>1. ASSUME NEW i \in Slot, i >= pins'.used PROVE pins'.index[i] = NoKey /\ pins'.data[i] = NULL
    <3>1. i \in Nat /\ i > n
      BY <1>6, <2>1, PinsTyped
    <3>. QED
      BY <1>6, <3>1 DEF InOrder, Beyond
  <2>. QED
    BY <2>1 DEF Beyond
<1>12. Bits'
  <2>1. ~set[k]
    BY <1>4, <1>5 DEF InOrder, Bits
  <2>2. ASSUME NEW i \in 0..(pins'.used - 1) PROVE copy'[pins'.data[i]] = set'[pins'.index[i]]
    <3>1. CASE i = n
      <4>1. copy[d] = set[k]
        <5>1. copy[d] \in BOOLEAN /\ set[k] \in BOOLEAN
          <6>1. d \in Copy
            BY <1>4, PinsTyped DEF PinCall, d
          <6>. QED
            BY <1>4, <6>1, PinsTyped
        <5>. QED
          BY <1>5, <2>1, <5>1
      <4>. QED
        BY <1>1, <1>5, <1>6, <3>1, <4>1
    <3>2. CASE i # n
      <4>1. i \in 0..(n - 1)
        BY <1>7, <3>2
      <4>2. copy[pins.data[i]] = set[pins.index[i]]
        BY <4>1 DEF InOrder, Bits
      <4>. QED
        BY <1>1, <1>6, <4>2
    <3>. QED
      BY <3>1, <3>2
  <2>3. ASSUME NEW key \in Key, Absent(key)', pins'.used < TableSize PROVE ~set'[key]
    <3>1. Absent(key)
      BY <1>6, <1>8, <2>3 DEF Absent
    <3>. QED
      BY <1>1, <1>5, <3>1 DEF InOrder, Bits
  <2>. QED
    BY <2>2, <2>3 DEF Bits
<1>13. ASSUME NEW u \in Thread PROVE Orderly(u)'
  <2>1. call'[u].pc = "use" => Kept(u)'
    <3>1. CASE u = t
      <4>1. pins'.index[n] = call'[u].key /\ pins'.data[n] = call'[u].copy
        BY <1>2, <1>3, <1>5, <1>6, <3>1 DEF k, d
      <4>. QED
        BY <1>8, <4>1 DEF Kept
    <3>2. CASE u # t
      <4>1. call'[u] = call[u]
        BY <1>3, <3>2
      <4>2. call[u].pc = "use" => Kept(u)
        BY <1>5, PinsTyped DEF InOrder, Orderly, Refused
      <4>. QED
        BY <1>6, <1>8, <4>1, <4>2 DEF Kept
    <3>. QED
      BY <3>1, <3>2
  <2>2. call'[u].pc \notin {"write", "key", "data", "used"} /\ u \notin Storing' /\ ~Adding(u)'
    BY <1>8 DEF Adding, Storing
  <2>. QED
    BY <2>1, <2>2 DEF Orderly
<1>. QED
  BY <1>9, <1>10, <1>11, <1>12, <1>13 DEF InOrder

LEMMA UsePinInOrder ==
  ASSUME InMemory, InOrder, NEW t \in Thread, NEW op \in {"on", "off", "get"}, UsePin(t, op), ~raced
  PROVE  InOrder'
<1> DEFINE k == call[t].key
           d == call[t].copy
           b == PortBit(op, copy[d]) /\ \E i \in Slot : pins.data[i] = d
           s == PortBit(op, set[k])
<1>1. /\ call[t].pc = "use" /\ d # NULL /\ UNCHANGED pins
      /\ call' = [call EXCEPT ![t] = Idle]
      /\ copy' = [copy EXCEPT ![d] = b] /\ set' = [set EXCEPT ![k] = s]
  BY DEF UsePin
<1>2. Idle \in PinCall /\ Idle.pc = "idle" /\ Idle.copy = NULL
  BY DEF Idle, PinCall
<1>3. k \in Key /\ d \in Copy /\ (Kept(t) \/ Refused(t))
  BY <1>1, PinsTyped DEF InMemory, InOrder, Orderly, PinCall
<1>4. (\E i \in Slot : pins.data[i] = d) /\ copy[d] = set[k] => b = s
  <2>1. copy[d] \in BOOLEAN /\ set[k] \in BOOLEAN
    BY <1>3, PinsTyped
  <2>2. ASSUME copy[d] = set[k] PROVE PortBit(op, copy[d]) = s /\ s \in BOOLEAN
    BY <2>1, <2>2 DEF PortBit
  <2>3. ASSUME \E i \in Slot : pins.data[i] = d PROVE b = (PortBit(op, copy[d]) /\ TRUE)
    BY <2>3, Zenon
  <2>4. ASSUME NEW x \in BOOLEAN PROVE (x /\ TRUE) = x
    OBVIOUS
  <2> HIDE DEF b, s
  <2>. QED
    BY <2>2, <2>3, <2>4
<1>5. Kept(t) <=> \E i \in 0..(pins.used - 1) : pins.index[i] = k /\ pins.data[i] = d
  BY DEF Kept
<1>6. Refused(t) => pins.used >= TableSize /\ Absent(k) /\ NoCopy(d)
  BY DEF Refused
<1> HIDE DEF k, d, b, s
<1>7. /\ copy'[d] = b /\ \A e \in Copy \ {d} : copy'[e] = copy[e]
      /\ set'[k] = s /\ \A j \in Key \ {k} : set'[j] = set[j]
  BY <1>1, <1>3, PinsTyped
<1>8. Bits'
  <2>1. ASSUME NEW i \in 0..(pins.used - 1) PROVE copy'[pins.data[i]] = set'[pins.index[i]]
    <3>1. /\ copy[pins.data[i]] = set[pins.index[i]]
          /\ pins.data[i] \in Copy /\ pins.index[i] \in Key /\ i \in Slot
      BY PinsTyped DEF InOrder, Bits, Entered
    <3>2. pins.index[i] = k <=> pins.data[i] = d
      <4>1. CASE Kept(t)
        <5>1. PICK j \in 0..(pins.used - 1) : pins.index[j] = k /\ pins.data[j] = d
          BY <1>5, <4>1
        <5>. QED
          BY <5>1 DEF InOrder, Entered
      <4>2. CASE Refused(t)
        BY <1>6, <4>2 DEF Absent, NoCopy
      <4>. QED
        BY <1>3, <4>1, <4>2
    <3>3. CASE pins.index[i] = k
      BY <1>4, <1>7, <3>1, <3>2, <3>3
    <3>4. CASE pins.index[i] # k
      BY <1>7, <3>1, <3>2, <3>4
    <3>. QED
      BY <3>3, <3>4
  <2>2. ASSUME NEW j \in Key, Absent(j), pins.used < TableSize PROVE ~set'[j]
    <3>1. ~set[j]
      BY <2>2 DEF InOrder, Bits
    <3>2. j # k
      <4>1. Kept(t)
        BY <1>3, <1>6, <2>2, PinsTyped
      <4>. QED
        BY <1>5, <2>2, <4>1 DEF Absent
    <3>. QED
      BY <1>7, <3>1, <3>2
  <2>3. \A j : Absent(j)' <=> Absent(j)
    BY <1>1 DEF Absent
  <2>. QED
    BY <1>1, <2>1, <2>2, <2>3 DEF Bits
<1>9. Aside(t, Idle)
  BY <1>1, <1>2, <1>7 DEF Aside, d
<1>. QED
  BY <1>8, <1>9, AsideInOrder

(* The invariant goes on, whatever the threads do.                         *)
LEMMA PinNextInv == PinInv /\ [PinNext]_pinVars => PinInv'
<1> SUFFICES ASSUME PinInv, [PinNext]_pinVars PROVE PinInv'
  OBVIOUS
<1>1. InMemory /\ (~raced => InOrder)
  BY DEF PinInv
<1>2. CASE UNCHANGED pinVars
  BY <1>1, <1>2 DEF pinVars, PinInv, InMemory, PinTypeOK, Reach, Storing, Adding, InOrder,
     Entered, OneAdds, Beyond, Bits, Orderly, Kept, Refused, Absent, NoCopy
<1>3. ASSUME NEW t \in Thread,
             \/ \E pin \in Pin : CallPin(t, pin)
             \/ hash_read(t) \/ get_pin(t)
             \/ hash_write(t) \/ StoreKey(t) \/ StoreData(t) \/ IncrementUsed(t)
             \/ \E op \in {"on", "off", "get"} : UsePin(t, op)
      PROVE  PinInv'
  <2>1. InMemory'
    BY <1>1, <1>3, PinStepInMemory
  <2>2. ASSUME ~raced' PROVE InOrder'
    <3>1. ~raced
      BY <1>3, <2>2 DEF CallPin, hash_read, get_pin, hash_write, StoreKey, StoreData,
         IncrementUsed, UsePin
    <3>. QED
      BY <1>1, <1>3, <2>2, <3>1, CallPinInOrder, HashReadInOrder, GetPinInOrder,
         HashWriteInOrder, StoreInOrder, IncrementInOrder, UsePinInOrder
  <2>. QED
    BY <2>1, <2>2 DEF PinInv
<1>4. ASSUME NEW t \in Thread, CrashPin(t) PROVE PinInv'
  <2>1. PinInit'
    BY <1>4 DEF CrashPin, PinInit
  <2>2. PinInit' => PinInv'
    BY PinInitInv, PTL
  <2>. QED
    BY <2>1, <2>2
<1>. QED
  BY <1>2, <1>3, <1>4 DEF PinNext

LEMMA PinInvariance == PinSpec => []PinInv
BY PinInitInv, PinNextInv, PTL DEF PinSpec

(* However many threads call for pins, and however they race, the table    *)
(* and the copies are what they are declared: the stores of hash_write     *)
(* stay in the arrays and the entries of the threads after them.           *)
THEOREM PinTypes == PinSpec => []PinTypeOK
<1>1. PinInv => PinTypeOK
  BY DEF PinInv, InMemory
<1>. QED
  BY <1>1, PinInvariance, PTL

(* Every thread sees a pin as the calls of all have left it, as long as no *)
(* two have been in get_pin for a new pin at once, for any number of       *)
(* threads and pins and a table of any size.                               *)
THEOREM PinsKept == PinSpec => []PinsAreKept
<1>1. ASSUME PinInv, ~raced, NEW k \in Key
      PROVE  LET slots == {i \in 0..(pins.used - 1) : pins.index[i] = k}
             IN  IF slots # {} THEN copy[pins.data[First(slots)]] = set[k]
                 ELSE pins.used < TableSize => ~set[k]
  <2> DEFINE slots == {i \in 0..(pins.used - 1) : pins.index[i] = k}
  <2>1. Bits
    BY <1>1 DEF PinInv, InOrder
  <2>2. ASSUME slots # {} PROVE copy[pins.data[First(slots)]] = set[k]
    <3>1. First(slots) \in slots
      BY <2>2, FirstIsLeast
    <3>. QED
      BY <2>1, <3>1 DEF Bits
  <2>3. ASSUME slots = {}, pins.used < TableSize PROVE ~set[k]
    <3>1. Absent(k)
      BY <2>3 DEF Absent
    <3>. QED
      BY <2>1, <2>3, <3>1 DEF Bits
  <2>. QED
    BY <2>2, <2>3
<1>2. PinInv => PinsAreKept
  BY <1>1 DEF PinsAreKept
<1>. QED
  BY <1>2, PinInvariance, PTL
-----------------------------------------------------------------------------
(* Devices: in every application each component does what it does by       *)
(* itself, and so what was proved of it holds.                             *)

ADCSteps    == ADCInit /\ [][ADCNext]_adcVars
MenuSteps   == MenuInit /\ [][MenuNext]_menuVars
ButtonSteps == ClockInit /\ ButtonInit /\ [][ButtonNext]_buttonVars

LEMMA ADCNextTyped == ADCTypeOK /\ [ADCNext]_adcVars => ADCTypeOK'
<1> SUFFICES ASSUME ADCTypeOK, [ADCNext]_adcVars PROVE ADCTypeOK'
  OBVIOUS
<1> USE DEF ADCTypeOK, Sensor, Value
<1>1. ASSUME NEW s \in Sensor, NEW v \in Value, AnalogMoves(s, v) PROVE ADCTypeOK'
  BY <1>1 DEF AnalogMoves
<1>2. CASE Convert
  BY <1>2 DEF Convert
<1>3. CASE ADC_mount
  BY <1>3 DEF ADC_mount
<1>4. CASE ADC_willUpdate
  BY <1>4 DEF ADC_willUpdate
<1>5. CASE ADC_wait
  BY <1>5 DEF ADC_wait
<1>6. CASE ADC_release
  BY <1>6 DEF ADC_release, sensor_readed
<1>7. CASE UNCHANGED adcVars
  BY <1>7 DEF adcVars
<1>. QED
  BY <1>1, <1>2, <1>3, <1>4, <1>5, <1>6, <1>7 DEF ADCNext, ADCTurn

(* The variables of the ADC, of the converter and of the application that  *)
(* reads two sensors keep their types.                                     *)
THEOREM ADCTypes == ADCSpec => []ADCTypeOK
<1>1. ADCInit => ADCTypeOK
  BY MaxValueAssumption DEF ADCInit, ADCTypeOK, Sensor, Value
<1>. QED
  BY <1>1, ADCNextTyped, PTL DEF ADCSpec

(* A step of an application is a step of the component it uses, and        *)
(* nothing for the others; the clock moves for three of them.              *)
LEMMA DeviceSteps ==
  ASSUME [DevicesNext]_devicesVars
  PROVE  /\ device' = device
         /\ [TimerNext]_timerVars /\ [ADCNext]_adcVars /\ [BitbangNext]_bitbangVars
         /\ [MenuNext]_menuVars /\ [ServoNext]_servoVars /\ [CalendarNext]_calendarVars
         /\ [PinNext]_pinVars
         /\ IF device = "button" THEN [ButtonNext]_buttonVars
            ELSE UNCHANGED <<button, contact, press>>
         /\ IF device = "pwm" THEN [PWMNext]_pwmVars ELSE UNCHANGED <<pwm, duty, pulse>>
         /\ IF device = "encoder" THEN [EncoderNext]_encoderVars
            ELSE UNCHANGED <<encoder, shaft, cycle>>
<1>1. CASE UNCHANGED devicesVars
  BY <1>1 DEF devicesVars, buttonVars, pwmVars, encoderVars
<1>2. CASE Quiet("timer") /\ TimerNext
  BY <1>2 DEF Quiet
<1>3. CASE Quiet("button") /\ ButtonNext
  BY <1>3 DEF Quiet
<1>4. CASE Quiet("pwm") /\ PWMNext
  BY <1>4 DEF Quiet
<1>5. CASE Quiet("encoder") /\ EncoderNext
  BY <1>5 DEF Quiet
<1>6. CASE Quiet("adc") /\ ADCNext
  BY <1>6 DEF Quiet
<1>7. CASE Quiet("bitbang") /\ BitbangNext
  BY <1>7 DEF Quiet
<1>8. CASE Quiet("menu") /\ MenuNext
  BY <1>8 DEF Quiet
<1>9. CASE Quiet("servo") /\ ServoNext
  BY <1>9 DEF Quiet
<1>10. CASE Quiet("calendar") /\ CalendarNext
  BY <1>10 DEF Quiet
<1>11. CASE Quiet("pins") /\ PinNext
  BY <1>11 DEF Quiet
<1>. QED
  BY <1>1, <1>2, <1>3, <1>4, <1>5, <1>6, <1>7, <1>8, <1>9, <1>10, <1>11 DEF DevicesNext

(* The applications implement the components: the steps of one, seen       *)
(* through the variables of any component that keeps its own time, are     *)
(* steps of that component, and so are those of Button, PWM and Encoder in *)
(* the applications that use them.                                         *)
THEOREM EachByItself ==
  DevicesSpec => /\ TimerSpec /\ BitbangSpec /\ ServoSpec /\ CalendarSpec /\ PinSpec
                 /\ ADCSteps /\ MenuSteps
                 /\ device = "button"  => ButtonSteps
                 /\ device = "pwm"     => PWMSpec
                 /\ device = "encoder" => EncoderSpec
<1>1. [DevicesNext]_devicesVars =>
        /\ [TimerNext]_timerVars /\ [ADCNext]_adcVars /\ [BitbangNext]_bitbangVars
        /\ [MenuNext]_menuVars /\ [ServoNext]_servoVars /\ [CalendarNext]_calendarVars
        /\ [PinNext]_pinVars
  BY DeviceSteps
<1>2. [DevicesNext]_devicesVars /\ device = "button" =>
        [ButtonNext]_buttonVars /\ (device = "button")'
  BY DeviceSteps
<1>3. [DevicesNext]_devicesVars /\ device = "pwm" => [PWMNext]_pwmVars /\ (device = "pwm")'
  BY DeviceSteps
<1>4. [DevicesNext]_devicesVars /\ device = "encoder" =>
        [EncoderNext]_encoderVars /\ (device = "encoder")'
  BY DeviceSteps
<1>5. DevicesInit => /\ ClockInit /\ TimerInit /\ ButtonInit /\ PWMInit /\ EncoderInit /\ ADCInit
                     /\ BitbangInit /\ MenuInit /\ ServoInit /\ CalendarInit /\ PinInit
  BY DEF DevicesInit
<1>6. DevicesSpec => DevicesInit /\ [][DevicesNext]_devicesVars
  BY DEF DevicesSpec
<1>. QED
  BY <1>1, <1>2, <1>3, <1>4, <1>5, <1>6, PTL
     DEF TimerSpec, BitbangSpec, ServoSpec, CalendarSpec, PinSpec, PWMSpec, EncoderSpec,
         ADCSteps, MenuSteps, ButtonSteps

(* What the application does not use is as it was at the start.            *)
LEMMA OthersAtRest ==
  DevicesSpec => /\ ~(device = "button")  => [](ButtonInit /\ ~(device = "button"))
                 /\ ~(device = "pwm")     => [](PWMInit /\ ~(device = "pwm"))
                 /\ ~(device = "encoder") => [](EncoderInit /\ ~(device = "encoder"))
<1>1. DevicesInit => ButtonInit /\ PWMInit /\ EncoderInit
  BY DEF DevicesInit
<1>2. ButtonInit /\ ~(device = "button") /\ [DevicesNext]_devicesVars =>
        (ButtonInit /\ ~(device = "button"))'
  BY DeviceSteps DEF ButtonInit
<1>3. PWMInit /\ ~(device = "pwm") /\ [DevicesNext]_devicesVars => (PWMInit /\ ~(device = "pwm"))'
  BY DeviceSteps DEF PWMInit
<1>4. EncoderInit /\ ~(device = "encoder") /\ [DevicesNext]_devicesVars =>
        (EncoderInit /\ ~(device = "encoder"))'
  BY DeviceSteps DEF EncoderInit
<1>5. DevicesSpec => DevicesInit /\ [][DevicesNext]_devicesVars
  BY DEF DevicesSpec
<1>. QED
  BY <1>1, <1>2, <1>3, <1>4, <1>5, PTL

(* In every application the variables of all the components keep their     *)
(* types.                                                                  *)
THEOREM DevicesTypes == DevicesSpec => []TypeOK
<1>1. ADCInit => ADCTypeOK
  BY MaxValueAssumption DEF ADCInit, ADCTypeOK, Sensor, Value
<1>2. DevicesSpec => []ADCTypeOK
  BY <1>1, ADCNextTyped, EachByItself, PTL DEF ADCSteps
<1>3. DevicesSpec => [](MenuTypeOK /\ SerialTypeOK)
  <2>1. MenuInv => MenuTypeOK /\ SerialTypeOK
    BY DEF MenuInv
  <2>2. MenuInv /\ [MenuNext]_menuVars => MenuInv'
    BY MenuNextInv
  <2>. QED
    BY <2>1, <2>2, MenuInitInv, EachByItself, PTL DEF MenuSteps
<1>4. DevicesSpec => []BitbangTypeOK
  <2>1. BitInv => BitbangTypeOK
    BY DEF BitInv, BitbangTypeOK
  <2>. QED
    BY <2>1, BitInvariance, EachByItself, PTL
<1>5. DevicesSpec => []ButtonTypeOK
  <2>1. ButtonInit => ButtonTypeOK
    <3> SUFFICES ASSUME ButtonInit PROVE ButtonTypeOK
      OBVIOUS
    <3>1. 0 \in 0..(Word - 1) /\ Bounce + 1 \in 0..(Bounce + 1)
      BY ClockAssumption, BounceAssumption
    <3>. QED
      BY <3>1 DEF ButtonInit, ButtonTypeOK
  <2>2. ButtonInv => ButtonTypeOK
    BY DEF ButtonInv
  <2>. QED
    BY <2>1, <2>2, ButtonInit_Inv, ButtonNextInv, OthersAtRest, EachByItself, PTL DEF ButtonSteps
<1>6. DevicesSpec => []PWMTypeOK
  <2>1. PWMInit => PWMTypeOK
    <3>1. Quantum * Full \in Nat /\ 0 \in 0..(MaxPulse + 1) /\ 0 \in 0..Full /\ 0 \in 0..(Word - 1)
      BY PWMAssumption, Units, ClockAssumption DEF MaxPulse
    <3>. QED
      BY <3>1 DEF PWMInit, PWMTypeOK
  <2>2. PWMInv => PWMTypeOK
    BY DEF PWMInv
  <2>. QED
    BY <2>1, <2>2, PWMInvariance, OthersAtRest, EachByItself, PTL
<1>7. DevicesSpec => []EncoderTypeOK
  <2>1. EncoderInit => EncoderTypeOK
    BY ClockAssumption DEF EncoderInit, EncoderTypeOK
  <2>2. EncoderInv => EncoderTypeOK
    BY DEF EncoderInv
  <2>. QED
    BY <2>1, <2>2, EncoderInvariance, OthersAtRest, EachByItself, PTL
<1>. QED
  BY <1>2, <1>3, <1>4, <1>5, <1>6, <1>7, TimerTypeCorrectness, ServoTypes, PinTypes,
     EachByItself, PTL DEF TypeOK

(* In every application, all that is said of the states of the components: *)
(* time is neither lost nor made up, a cycle of the shaft is told, bits    *)
(* and lines are kept, a servo has one event but where enqueues meet and   *)
(* the servos no more than there are of them, the date is right, and so on,*)
(* with the exceptions each of the properties names.                       *)
THEOREM DevicesSafety ==
  DevicesSpec => [](/\ TimeIsKept /\ TimeIsCarried /\ CyclesAreTold
                    /\ BitsAreClocked /\ InputIsShifted /\ LinesAreKept
                    /\ OneEventEach /\ EventsFit /\ RunsUnlessLost /\ OffInStandby
                    /\ DateIsRight /\ PinsAreKept)
<1>1. DevicesSpec => []CyclesAreTold
  <2>1. EncoderInit => CyclesAreTold
    BY DEF EncoderInit, CyclesAreTold
  <2>. QED
    BY <2>1, CyclesTold, OthersAtRest, EachByItself, PTL
<1>2. DevicesSpec => []LinesAreKept
  <2>1. MenuInv => LinesAreKept
    BY DEF MenuInv
  <2>2. MenuInv /\ [MenuNext]_menuVars => MenuInv'
    BY MenuNextInv
  <2>. QED
    BY <2>1, <2>2, MenuInitInv, EachByItself, PTL DEF MenuSteps
<1>. QED
  BY <1>1, <1>2, TimeKept, TimeCarried, BitsClocked, InputShifted, EventsAreOne, EventsAlwaysFit,
     OnlyLostStall, PinsAreOff, DateRight, PinsKept, EachByItself, PTL

(* In every application, all that is said of their steps: Timer is a       *)
(* clock, a bounce is no press, a pulse has the length it was asked for,   *)
(* and what is written is sent in order.                                   *)
THEOREM DevicesActions ==
  DevicesSpec => TimeIsAClock /\ OnePressEach /\ PulseAsAsked /\ SentInOrder
<1>1. DevicesSpec => OnePressEach
  <2>1. ~(device = "button") /\ [DevicesNext]_devicesVars =>
          [Tells => press.opened /\ press.since > Bounce]_buttonVars
    BY DeviceSteps DEF Tells
  <2>2. DevicesSpec => [][DevicesNext]_devicesVars
    BY DEF DevicesSpec
  <2>. QED
    BY <2>1, <2>2, PressTold, ButtonInit_Inv, ButtonNextInv, OthersAtRest, EachByItself, PTL
       DEF ButtonSteps, OnePressEach
<1>2. DevicesSpec => PulseAsAsked
  <2> DEFINE Asked == pulse'.level # pulse.level /\ ~pulse.wrapped =>
                        /\ pulse.asked - MaxPass <= pulse.since
                        /\ pulse.since <= pulse.asked + 2 * MaxPass
  <2>1. ~(device = "pwm") /\ [DevicesNext]_devicesVars => [Asked]_pwmVars
    BY DeviceSteps
  <2>2. DevicesSpec => [][DevicesNext]_devicesVars
    BY DEF DevicesSpec
  <2>3. (~(device = "pwm") => [](PWMInit /\ ~(device = "pwm"))) /\ [][DevicesNext]_devicesVars
        /\ ~(device = "pwm") => [][Asked]_pwmVars
    BY <2>1, PTL
  <2>4. DevicesSpec /\ ~(device = "pwm") => PulseAsAsked
    BY <2>2, <2>3, OthersAtRest, PTL DEF PulseAsAsked
  <2>. QED
    BY <2>4, PulseKept, EachByItself, PTL
<1>3. DevicesSpec => SentInOrder
  <2>1. MenuInv /\ [MenuNext]_menuVars => MenuInv'
    BY MenuNextInv
  <2>. QED
    BY <2>1, UnsentStep, MenuInitInv, EachByItself, PTL DEF MenuSteps, SentInOrder
<1>. QED
  BY <1>1, <1>2, <1>3, TimeOfAClock, EachByItself, PTL
=============================================================================
