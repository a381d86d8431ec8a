------------------------------ MODULE Lifecycle ------------------------------
(***************************************************************************)
(* The lifecycle README.md draws for a component, seen from outside.  It   *)
(* is mounted once, and shows the props it is mounted with; from then on a *)
(* preparation takes the props the application offers, and the release     *)
(* that follows shows them.  What the application asks for may change at   *)
(* any time; what it goes on asking for is shown in the end.  README.md    *)
(* draws an unmounting step too, which nothing in the code takes.          *)
(***************************************************************************)
CONSTANTS Props,   \* the values of the component's props
          Nothing  \* what is shown before the mount

VARIABLES want,    \* the props the application asks for
          props,   \* the props the component has taken
          shown,   \* the props its last release has shown
          phase    \* "unmounted", "prepared" or "released"

vars == <<want, props, shown, phase>>

Init == /\ want \in Props /\ props \in Props
        /\ shown = Nothing
        /\ phase = "unmounted"

Ask(p) == want' = p /\ UNCHANGED <<props, shown, phase>>

(* willMount, release, didMount.                                           *)
Mount == /\ phase = "unmounted" /\ phase' = "released"
         /\ props' = want
         /\ shown' = want
         /\ UNCHANGED want

(* shouldUpdate, willUpdate.                                               *)
Prepare == /\ phase = "released" /\ phase' = "prepared"
           /\ props' = want
           /\ UNCHANGED <<want, shown>>

(* release, didUpdate.                                                     *)
Release == /\ phase = "prepared" /\ phase' = "released"
           /\ shown' = props
           /\ UNCHANGED <<want, props>>

Next == (\E p \in Props : Ask(p)) \/ Mount \/ Prepare \/ Release

Settles == \A p \in Props : <>[](want = p) => <>[](shown = p)

Spec == Init /\ [][Next]_vars /\ Settles
=============================================================================
