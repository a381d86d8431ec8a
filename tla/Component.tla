------------------------------ MODULE Component ------------------------------
(***************************************************************************)
(* react/component.c: the components of an event loop take turns, and each *)
(* turn is one call of React_Component, which runs one step of the         *)
(* lifecycle of its component.                                             *)
(*                                                                         *)
(* The hooks are those of a component that only shows its props: it asks   *)
(* for an update when it is offered other props than its own, and may ask  *)
(* for one on its own account.  The wrappers of react/component.h around   *)
(* the hooks copy next_props to props.  The props of apply(...) are an     *)
(* expression over the application's state, which callbacks and interrupts *)
(* change at any time; it is evaluated when the turn begins.               *)
(***************************************************************************)
CONSTANTS Instance,  \* the components of the loop
          Props,     \* the values of their props
          Nothing    \* what is shown before a release

ASSUME InstanceAssumption == Instance # {}

VARIABLES want,      \* what the application's expressions evaluate to
          stage,     \* instance->stage
          props,     \* self->props
          shown,     \* the props the last Release has shown
          loop       \* the components that wait for their turn in this loop

vars == <<want, stage, props, shown, loop>>

Init == /\ want \in [Instance -> Props]
        /\ stage = [i \in Instance |-> "DEFINED"]
        /\ props \in [Instance -> Props]
        /\ shown = [i \in Instance |-> Nothing]
        /\ loop = Instance

Ask(i, p) == /\ want' = [want EXCEPT ![i] = p]
             /\ UNCHANGED <<stage, props, shown, loop>>

(* Fault: a loop that does not start again.                                *)
TakeTurn_once(i) == i \in loop /\ loop' = loop \ {i}

(* Every component has a turn in each loop, in whatever order.             *)
TakeTurn(i) == /\ i \in loop
               /\ loop' = IF loop = {i} THEN Instance ELSE loop \ {i}
-----------------------------------------------------------------------------
(* The branches of React_Component(instance, next_props).                  *)

(* The wrapper of willMount copies the props before the hook runs ...      *)
WillMount(i, next_props) == props' = [props EXCEPT ![i] = next_props]

(* Fault: a willUpdate that does not copy the props.                       *)
WillUpdate_uncopied(i, next_props) == UNCHANGED props

(* ... and that of willUpdate after.                                       *)
WillUpdate(i, next_props) == props' = [props EXCEPT ![i] = next_props]

(* Release shows the props.                                                *)
Mount(i, next_props) == /\ stage[i] = "DEFINED"
                        /\ WillMount(i, next_props)
                        /\ shown' = [shown EXCEPT ![i] = next_props]
                        /\ stage' = [stage EXCEPT ![i] = "RELEASED"]

(* ShouldUpdate returns true.                                              *)
Prepare(i, next_props) == /\ stage[i] = "RELEASED"
                          /\ stage' = [stage EXCEPT ![i] = "PREPARED"]
                          /\ WillUpdate(i, next_props)
                          /\ UNCHANGED shown

(* Fault: a shouldUpdate that misses a change of the props.                *)
Skip_changed(i, next_props) == /\ stage[i] = "RELEASED"
                               /\ UNCHANGED <<stage, props, shown>>

(* ShouldUpdate returns false.                                             *)
Skip(i, next_props) == /\ stage[i] = "RELEASED"
                       /\ next_props = props[i]
                       /\ UNCHANGED <<stage, props, shown>>

(* Fault: the stage moves on and release is not called.                    *)
Release_skipped(i, next_props) == /\ stage[i] = "PREPARED"
                                  /\ stage' = [stage EXCEPT ![i] = "RELEASED"]
                                  /\ UNCHANGED <<props, shown>>

(* Release and DidUpdate; the props offered on this turn are not looked at.*)
Release(i, next_props) == /\ stage[i] = "PREPARED"
                          /\ stage' = [stage EXCEPT ![i] = "RELEASED"]
                          /\ shown' = [shown EXCEPT ![i] = props[i]]
                          /\ UNCHANGED props

React_Component(i, next_props) ==
  \/ Mount(i, next_props)
  \/ Prepare(i, next_props) \/ Skip(i, next_props)
  \/ Release(i, next_props)

Turn(i) == /\ TakeTurn(i)
           /\ React_Component(i, want[i])
           /\ UNCHANGED want

Next == \E i \in Instance : (\E p \in Props : Ask(i, p)) \/ Turn(i)

(* while (React_Component(...) && ...): the loop never stops.              *)
Spec == Init /\ [][Next]_vars /\ WF_vars(\E i \in Instance : Turn(i))
-----------------------------------------------------------------------------
TypeOK == /\ want \in [Instance -> Props]
          /\ stage \in [Instance -> {"DEFINED", "PREPARED", "RELEASED"}]
          /\ props \in [Instance -> Props]
          /\ shown \in [Instance -> Props \cup {Nothing}]
          /\ loop \in (SUBSET Instance) \ {{}}

(* A component at rest shows the props it has: no change of its props is   *)
(* left without a release.                                                 *)
RestIsShown == \A i \in Instance : stage[i] = "RELEASED" => shown[i] = props[i]

Phase(i) == CASE stage[i] = "DEFINED"  -> "unmounted"
              [] stage[i] = "PREPARED" -> "prepared"
              [] stage[i] = "RELEASED" -> "released"

Drawn(i) == INSTANCE Lifecycle WITH want <- want[i], props <- props[i],
                                    shown <- shown[i], phase <- Phase(i)

(* Each component of the loop follows the lifecycle of README.md whatever  *)
(* the others and the application do in between ...                        *)
FollowsLifecycle ==
  /\ \A i \in Instance : Drawn(i)!Init
  /\ [][\A i \in Instance : [Drawn(i)!Next]_(Drawn(i)!vars)]_vars

(* ... and in the end shows what the application goes on asking for.       *)
AllSettle == \A i \in Instance : Drawn(i)!Settles
=============================================================================
