---------------------------------- MODULE IO ----------------------------------
(***************************************************************************)
(* component/IO/IO.c: one IO component, its turns in the event loop, and   *)
(* the pins of the AVR it configures (react/hal/avr.c).  The application   *)
(* changes the props it offers, and the circuit around the pins changes    *)
(* their lines, between any two turns.                                     *)
(*                                                                         *)
(* The pins are handled by one io_handler: props->io never changes.        *)
(***************************************************************************)
CONSTANTS Pin,         \* the pins the component may be given
          SwitchesMode \* may the application change the mode of the props?

ASSUME SwitchesModeAssumption == SwitchesMode \in BOOLEAN

VARIABLES want,   \* what the application's expression for the props is now
          props,  \* self->props
          stage,  \* self->instance.stage
          level,  \* self->state.level
          told,   \* history: the last of onHigh and onLow that was called
          ddr,    \* the DDR bit of each pin: is it an output?
          port,   \* the PORT bit of each pin: its output level, or its pull-up
          line    \* what drives each pin from outside, if anything does

vars == <<want, props, stage, level, told, ddr, port, line>>

Level == {"LOW", "HIGH"}
Props == [mode : {"INPUT", "OUTPUT"}, level : Level, pin : Pin]

Init == /\ want \in Props
        /\ props \in Props
        /\ stage = "DEFINED"
        /\ level = "LOW" /\ told = "nothing"
        /\ ddr = [p \in Pin |-> FALSE]
        /\ port = [p \in Pin |-> "LOW"]
        /\ line \in [Pin -> Level \cup {"OPEN"}]
-----------------------------------------------------------------------------
(* The pins, seen from outside and from the component.                     *)

(* Fault: an open input without its pull-up.                               *)
io_get_floating(p) == IF ddr[p] THEN port[p] ELSE line[p]

(* What PIN reads: the line of an input, or its pull-up when that is open. *)
io_get(p) == IF ddr[p] \/ line[p] = "OPEN" THEN port[p] ELSE line[p]

io_in(p) == /\ ddr' = [ddr EXCEPT ![p] = FALSE]
            /\ port' = [port EXCEPT ![p] = "HIGH"]

io_out(p) == /\ ddr' = [ddr EXCEPT ![p] = TRUE]
             /\ UNCHANGED port

(* willUpdate configures the next pin for the mode it already has ...      *)
Configure(mode, pin) == IF mode = "INPUT" THEN io_in(pin) ELSE io_out(pin)

(* ... and release sets the level of an output, or reads an input and      *)
(* calls back when it has changed.                                         *)
SetLevel(p, l) == port' = [port EXCEPT ![p] = l]

(* Fault: the level is told but not remembered.                            *)
ReadLevel_forgotten(l) ==
  /\ told' = IF l = level THEN told ELSE IF l = "HIGH" THEN "onHigh" ELSE "onLow"
  /\ UNCHANGED level

ReadLevel(l) ==
  /\ level' = l
  /\ told' = IF l = level THEN told ELSE IF l = "HIGH" THEN "onHigh" ELSE "onLow"
-----------------------------------------------------------------------------
Ask(p) == /\ SwitchesMode \/ p.mode = want.mode
          /\ want' = p
          /\ UNCHANGED <<props, stage, level, told, ddr, port, line>>

DriveLine(p, l) == /\ line' = [line EXCEPT ![p] = l]
                   /\ UNCHANGED <<want, props, stage, level, told, ddr, port>>

(* willMount and release; the props are those offered at the mount.        *)
MountOutput == /\ stage = "DEFINED" /\ want.mode = "OUTPUT"
               /\ props' = want /\ stage' = "RELEASED"
               /\ ddr' = [ddr EXCEPT ![want.pin] = TRUE]
               /\ SetLevel(want.pin, want.level)
               /\ UNCHANGED <<want, level, told, line>>

MountInput == /\ stage = "DEFINED" /\ want.mode = "INPUT"
              /\ props' = want /\ stage' = "RELEASED"
              /\ io_in(want.pin)
              /\ ReadLevel(IF line[want.pin] = "OPEN" THEN "HIGH"
                           ELSE line[want.pin])
              /\ UNCHANGED <<want, line>>

(* Faults: the level, or the input mode, is forgotten in the test.         *)
shouldUpdate_but_level == \/ props.mode = "INPUT"
                          \/ want.mode # props.mode \/ want.pin # props.pin
shouldUpdate_but_input == want # props

shouldUpdate == props.mode = "INPUT" \/ want # props

(* Fault: a new pin is not configured.                                     *)
Prepare_same_pin == /\ stage = "RELEASED" /\ shouldUpdate
                    /\ stage' = "PREPARED"
                    /\ IF props.mode # want.mode
                       THEN Configure(props.mode, want.pin)
                       ELSE UNCHANGED <<ddr, port>>
                    /\ props' = want
                    /\ UNCHANGED <<want, level, told, line>>

(* shouldUpdate and willUpdate, which sees the props it is about to lose.  *)
Prepare == /\ stage = "RELEASED" /\ shouldUpdate
           /\ stage' = "PREPARED"
           /\ IF props.mode # want.mode \/ props.pin # want.pin
              THEN Configure(props.mode, want.pin)
              ELSE UNCHANGED <<ddr, port>>
           /\ props' = want
           /\ UNCHANGED <<want, level, told, line>>

(* release of an output and of an input.                                   *)
ReleaseOutput == /\ stage = "PREPARED" /\ props.mode = "OUTPUT"
                 /\ stage' = "RELEASED"
                 /\ SetLevel(props.pin, props.level)
                 /\ UNCHANGED <<want, props, level, told, ddr, line>>

ReleaseInput == /\ stage = "PREPARED" /\ props.mode = "INPUT"
                /\ stage' = "RELEASED"
                /\ ReadLevel(io_get(props.pin))
                /\ UNCHANGED <<want, props, ddr, port, line>>

Turn == MountOutput \/ MountInput \/ Prepare \/ ReleaseOutput \/ ReleaseInput

Next == \/ \E p \in Props : Ask(p)
        \/ \E p \in Pin, l \in Level \cup {"OPEN"} : DriveLine(p, l)
        \/ Turn

(* The loop never stops, and neither do the turns of the component.        *)
Spec == Init /\ [][Next]_vars /\ WF_vars(Turn)
-----------------------------------------------------------------------------
TypeOK == /\ want \in Props /\ props \in Props
          /\ stage \in {"DEFINED", "PREPARED", "RELEASED"}
          /\ level \in Level
          /\ told \in {"nothing", "onLow", "onHigh"}
          /\ ddr \in [Pin -> BOOLEAN]
          /\ port \in [Pin -> Level]
          /\ line \in [Pin -> Level \cup {"OPEN"}]

(* "Configure pin for operation in certain mode" (IO.c:37): the pin of the *)
(* props is an output exactly when their mode is.                          *)
DirectionIsMode ==
  stage # "DEFINED" => (ddr[props.pin] <=> props.mode = "OUTPUT")

(* At rest an output is seen outside at the level of its props, and the    *)
(* last callback of an input is the one for the level it has read, even    *)
(* across a change of pins, whose other callback may never have been due.  *)
RestIsDriven ==
  stage = "RELEASED" =>
    CASE props.mode = "OUTPUT" -> io_get(props.pin) = props.level
      [] props.mode = "INPUT"  -> level = "HIGH" <=> told = "onHigh"

(* The level the application goes on asking for is seen on its pin ...     *)
OutputSettles ==
  \A p \in Pin, l \in Level :
    <>[](want = [mode |-> "OUTPUT", level |-> l, pin |-> p]) => <>[](io_get(p) = l)

(* ... and a line that rests at a level is told to the application.        *)
InputSettles ==
  \A p \in Pin, l \in Level :
    <>[](want.mode = "INPUT" /\ want.pin = p /\ line[p] = l)
      => <>[](level = l /\ (l = "HIGH" <=> told = "onHigh"))
=============================================================================
