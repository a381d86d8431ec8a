-------------------------------- MODULE Servo --------------------------------
(***************************************************************************)
(* component/Servo: the servos of a loop (app/servo_sw.c), their pins in   *)
(* one port register, and the events they leave with Scheduler, whose      *)
(* callback is the release of the servo, in the interrupt.                 *)
(*                                                                         *)
(* Scheduler is the bag of the events it holds, any of which may fire at   *)
(* any time: the lengths of the pulses and the order of the queue are left *)
(* out.  Nothing masks the interrupt, so an enqueue of the loop is several *)
(* steps (Scheduler.tla): one that the interrupt comes into with an        *)
(* enqueue of its own may lose an event, or lose one and double another,   *)
(* or leave a null event in the queue.  So may willUpdate of Scheduler,    *)
(* which puts a null event back when the interrupt has fired under it.     *)
(*                                                                         *)
(* A turn of the loop is split where the interrupt can change what it goes *)
(* on to use, or where its write undoes one of the interrupt.              *)
(***************************************************************************)
EXTENDS Integers, FiniteSets

CONSTANTS Instance,  \* the servos
          Angle,     \* the angles they may be asked for
          SERVO_SPEED, \* props->speed of a servo that runs
          Capacity,  \* the slots of Scheduler's queue
          Spare      \* bound: the null events that are in the queue at once

(* servo_sw.c has three servos and fifteen slots.  What happens when null  *)
(* events leave an event no slot is in Scheduler.tla (InBounds).           *)
ASSUME ServoAssumption ==
  /\ SERVO_SPEED \in Nat \ {0} /\ Capacity \in Nat /\ Spare \in Nat /\ Angle # {}
  /\ IsFiniteSet(Instance) /\ Cardinality(Instance) + Spare <= Capacity

VARIABLES asked,    \* the props the expressions of the application evaluate to
          servo,    \* the components: stage, props, and the part of a period they are in
          pending,  \* how many events of each wait in Scheduler
          nulls,    \* how many null events are in its queue
          port,     \* the servos whose pin is on
          servoLoop, \* where the loop is, with which servo, the port it is to write, and
                     \* whether its enqueue has met one of the interrupt
          lost,     \* history: the servos that were left without an event, by a restart
                    \* or an enqueue, and have not had one since
          doubled,  \* history: the servos whose event an enqueue has doubled
          undone    \* history: the servos whose pin another's write put back

servoVars == <<asked, servo, pending, nulls, port, servoLoop, lost, doubled, undone>>

ServoProps == [speed : {0, SERVO_SPEED}, angle : Angle]

AtRest == [at |-> "rest", of |-> {}, write |-> {}, met |-> FALSE]

ServoInit ==
  /\ asked = [s \in Instance |-> [speed |-> SERVO_SPEED, angle |-> CHOOSE a \in Angle : TRUE]]
  /\ servo = [s \in Instance |-> [stage |-> "DEFINED", on_duty |-> "STANDY", props |-> asked[s]]]
  /\ pending = [s \in Instance |-> 0] /\ nulls = 0
  /\ port = {} /\ servoLoop = AtRest
  /\ lost = {} /\ doubled = {} /\ undone = {}

(* Callbacks of the loop change the application between turns.             *)
AskServo(s) == /\ servoLoop = AtRest
               /\ \E p \in ServoProps : asked' = [asked EXCEPT ![s] = p]
               /\ UNCHANGED <<servo, pending, nulls, port, servoLoop, lost, doubled, undone>>
-----------------------------------------------------------------------------
(* Scheduler_enqueue refuses an event when the queue is full.              *)
Events(waiting) == UNION {{s} \X (1..waiting[s]) : s \in Instance}
HasRoom(waiting) == Cardinality(Events(waiting)) + nulls < Capacity
Enqueued(s, waiting) == IF HasRoom(waiting) THEN [waiting EXCEPT ![s] = @ + 1] ELSE waiting

(* What an enqueue of the loop and one of the interrupt inside it leave:   *)
(* both events; all but one that a store has overwritten; or this with     *)
(* another one twice, in its slot and from a swap.                         *)
Collided(s, waiting) ==
  LET both    == Enqueued(s, waiting)
      held    == {t \in Instance : both[t] > 0}
      without == {[both EXCEPT ![t] = @ - 1] : t \in held}
      twice   == {[both EXCEPT ![p[1]] = @ - 1, ![p[2]] = @ + 1] :
                    p \in {q \in held \X held : q[1] # q[2]}}
  IN  {both} \cup without \cup twice

(* The size may have been incremented for both with only one stored.       *)
OneNullMore == IF nulls < Spare THEN {nulls, nulls + 1} ELSE {nulls}

(* Fault: a servo that stops leaves an event all the same.                 *)
NextEvent_always(s, waiting) == Enqueued(s, waiting)

(* The event a release leaves, unless the servo stops.                     *)
NextEvent(s, waiting) == IF servo[s].props.speed = 0 THEN waiting ELSE Enqueued(s, waiting)

(* Fault: a servo that stops leaves its pin as it is.                      *)
Toggled_left(s) ==
  IF servo[s].props.speed = 0 THEN port
  ELSE IF servo[s].on_duty = "ON_DUTY" THEN port \ {s} ELSE port \cup {s}

(* The port with the other level of a servo, or off.                       *)
Toggled(s) == IF servo[s].props.speed # 0 /\ servo[s].on_duty # "ON_DUTY"
              THEN port \cup {s} ELSE port \ {s}

(* What release makes of on_duty with the level it has put out.            *)
Duty(s, pins) == IF servo[s].props.speed = 0 THEN "STANDY"
                 ELSE IF s \in pins THEN "ON_DUTY" ELSE "ON_OFFSET"

(* An event fires between any two steps of the loop, and under willUpdate  *)
(* of Scheduler.                                                           *)
Interrupt(s) ==
  LET left == [pending EXCEPT ![s] = @ - 1]
  IN  /\ pending[s] > 0
      /\ port' = Toggled(s) /\ undone' = undone \ {s}
      /\ servo' = [servo EXCEPT ![s].on_duty = Duty(s, port')]
      /\ pending' = NextEvent(s, left)
      /\ nulls' \in IF servoLoop = AtRest THEN OneNullMore ELSE {nulls}
      /\ servoLoop' = [servoLoop EXCEPT !.met = @ \/ (servoLoop.at = "enqueue" /\ pending' # left)]
      /\ UNCHANGED <<asked, lost, doubled>>

(* Scheduler dequeues a null event and has nothing to schedule.            *)
DiscardNull == /\ servoLoop = AtRest /\ nulls > 0
               /\ nulls' = nulls - 1
               /\ UNCHANGED <<asked, servo, pending, port, servoLoop, lost, doubled, undone>>
-----------------------------------------------------------------------------
(* willMount, and the release of a mount or an update up to the reading of *)
(* the port register.                                                      *)
MountServo(s) ==
  /\ servoLoop = AtRest /\ servo[s].stage = "DEFINED"
  /\ servo' = [servo EXCEPT ![s].props = asked[s], ![s].on_duty = "ON_DUTY"]
  /\ servoLoop' = [AtRest EXCEPT !.at = "write", !.of = {s}, !.write = port \ {s}]
  /\ UNCHANGED <<asked, pending, nulls, port, lost, doubled, undone>>

ReadPort(s) ==
  /\ servoLoop = AtRest /\ servo[s].stage = "PREPARED"
  /\ servoLoop' = [AtRest EXCEPT !.at = "write", !.of = {s}, !.write = Toggled(s)]
  /\ UNCHANGED <<asked, servo, pending, nulls, port, lost, doubled, undone>>

(* release writes the whole register back: pins the interrupt has turned   *)
(* off meanwhile are on again.  A servo that runs goes on to enqueue ...   *)
WritePort(s) ==
  /\ servoLoop.at = "write" /\ servoLoop.of = {s}
  /\ port' = servoLoop.write
  /\ undone' = (undone \cup (port' \ port)) \ {s}
  /\ servo' = [servo EXCEPT ![s].stage = "RELEASED", ![s].on_duty = Duty(s, port')]
  /\ servoLoop' = IF servo[s].props.speed = 0 THEN AtRest
                  ELSE [AtRest EXCEPT !.at = "enqueue", !.of = {s}]
  /\ UNCHANGED <<asked, pending, nulls, lost, doubled>>

(* ... with the interrupt enabled.                                         *)
EnqueueServo(s) ==
  LET both == Enqueued(s, pending)
  IN  /\ servoLoop.at = "enqueue" /\ servoLoop.of = {s}
      /\ IF servoLoop.met
         THEN pending' \in Collided(s, pending) /\ nulls' \in OneNullMore
         ELSE pending' = both /\ nulls' = nulls
      /\ lost' = (lost \ {s}) \cup {t \in Instance : both[t] > 0 /\ pending'[t] = 0}
      /\ doubled' = doubled \cup {t \in Instance : pending'[t] > both[t]}
      /\ servoLoop' = AtRest
      /\ UNCHANGED <<asked, servo, port, undone>>

shouldUpdateServo(s) == \/ servo[s].props # asked[s]
                        \/ servo[s].props.speed # 0 /\ servo[s].on_duty = "STANDY"

PrepareServo(s) ==
  /\ servoLoop = AtRest /\ servo[s].stage = "RELEASED" /\ shouldUpdateServo(s)
  /\ servo' = [servo EXCEPT ![s].stage = "PREPARED"]
  /\ servoLoop' = [AtRest EXCEPT !.at = "decide", !.of = {s}]
  /\ UNCHANGED <<asked, pending, nulls, port, lost, doubled, undone>>

(* Fault: a servo that waits for its event is released as well.            *)
Decide_prepared(s) ==
  /\ servoLoop.at = "decide" /\ servoLoop.of = {s}
  /\ servoLoop' = [servoLoop EXCEPT !.at = "copy"]
  /\ UNCHANGED <<asked, servo, pending, nulls, port, lost, doubled, undone>>

(* willUpdate leaves the release to the event of a servo that has one ...  *)
Decide(s) ==
  /\ servoLoop.at = "decide" /\ servoLoop.of = {s}
  /\ servo' = IF servo[s].on_duty = "STANDY" THEN servo
              ELSE [servo EXCEPT ![s].stage = "RELEASED"]
  /\ servoLoop' = [servoLoop EXCEPT !.at = "copy"]
  /\ UNCHANGED <<asked, pending, nulls, port, lost, doubled, undone>>

(* ... and mounts one that starts again, which copies the props first.     *)
CopyProps(s) ==
  /\ servoLoop.at = "copy" /\ servoLoop.of = {s}
  /\ servo' = [servo EXCEPT ![s].props = asked[s]]
  /\ servoLoop' = IF servo[s].props.speed = 0 /\ asked[s].speed # 0
                  THEN [servoLoop EXCEPT !.at = "restart"] ELSE AtRest
  /\ UNCHANGED <<asked, pending, nulls, port, lost, doubled, undone>>

(* The event of the stop may have come after Decide counted on it.         *)
RestartServo(s) ==
  /\ servoLoop.at = "restart" /\ servoLoop.of = {s}
  /\ servo' = [servo EXCEPT ![s].on_duty = "ON_DUTY"]
  /\ lost' = IF servo[s].stage = "RELEASED" /\ pending[s] = 0 THEN lost \cup {s} ELSE lost
  /\ servoLoop' = AtRest
  /\ UNCHANGED <<asked, pending, nulls, port, doubled, undone>>

ServoStep(s) == \/ MountServo(s) \/ ReadPort(s) \/ WritePort(s) \/ EnqueueServo(s)
                \/ PrepareServo(s) \/ Decide(s) \/ CopyProps(s) \/ RestartServo(s)
ServoNext == DiscardNull \/ \E s \in Instance : AskServo(s) \/ Interrupt(s) \/ ServoStep(s)

ServoSpec == ServoInit /\ [][ServoNext]_servoVars
-----------------------------------------------------------------------------
(* The types.                                                              *)
ServoTypeOK ==
  /\ asked \in [Instance -> ServoProps]
  /\ servo \in [Instance -> [stage : {"DEFINED", "PREPARED", "RELEASED"}, props : ServoProps,
                             on_duty : {"STANDY", "ON_DUTY", "ON_OFFSET"}]]
  /\ pending \in [Instance -> Nat] /\ nulls \in 0..Spare
  /\ port \in SUBSET Instance
  /\ servoLoop \in [at : {"rest", "write", "enqueue", "decide", "copy", "restart"},
                    of : SUBSET Instance, write : SUBSET Instance, met : BOOLEAN]
  /\ lost \in SUBSET Instance /\ doubled \in SUBSET Instance /\ undone \in SUBSET Instance

(* A servo never has two events in Scheduler, whichever of the loop and    *)
(* the interrupt left the last one, and one that stands by has none, unless *)
(* its event was doubled by an enqueue of the loop that met one of the     *)
(* interrupt.                                                              *)
OneEventEach == \A s \in Instance \ doubled :
  /\ pending[s] <= 1
  /\ servo[s].on_duty = "STANDY" => pending[s] = 0

(* Whatever is lost and doubled, Scheduler never holds more events than    *)
(* there are servos: an enqueue that doubles one event has lost another.   *)
(* So no event is refused for want of a slot.                              *)
EventsFit == Cardinality(Events(pending)) <= Cardinality(Instance)

(* Between turns, a mounted servo that does not stand by has the event     *)
(* that will move it on, and one that stands by was asked to.  A servo     *)
(* that was started again in the moment its stop came, or whose event an   *)
(* enqueue of the loop and one of the interrupt have lost between them,    *)
(* has none, and its turns leave its release to the event it has not.      *)
RunsUnlessLost == servoLoop = AtRest =>
  \A s \in Instance : servo[s].stage = "RELEASED" =>
    IF servo[s].on_duty = "STANDY" THEN servo[s].props.speed = 0
    ELSE s \notin lost <=> pending[s] > 0

(* The pin of a servo that stands by is off, unless the loop wrote the     *)
(* register back for another servo after the interrupt had turned it off.  *)
OffInStandby == \A s \in Instance \ undone :
  servo[s].on_duty = "STANDY" => s \notin port
=============================================================================
