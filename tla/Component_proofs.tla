-------------------------- MODULE Component_proofs --------------------------
(***************************************************************************)
(* Proofs about Component, for every set of components and of props.       *)
(***************************************************************************)
EXTENDS Component, TLAPS

(* Types, and the invariant that a component at rest shows its props, are  *)
(* inductive together.                                                     *)
Inv == TypeOK /\ RestIsShown

LEMMA InitInv == Init => Inv
  BY InstanceAssumption DEF Init, Inv, TypeOK, RestIsShown

LEMMA StepInv == Inv /\ [Next]_vars => Inv'
  <1> SUFFICES ASSUME Inv, [Next]_vars PROVE Inv'
    OBVIOUS
  <1> USE DEF Inv, TypeOK, RestIsShown
  <1>1. ASSUME NEW i \in Instance, NEW p \in Props, Ask(i, p) PROVE Inv'
    BY <1>1 DEF Ask
  <1>2. ASSUME NEW i \in Instance, Turn(i) PROVE Inv'
    <2>1. loop' \in (SUBSET Instance) \ {{}}
      BY <1>2, InstanceAssumption DEF Turn, TakeTurn
    <2>2. want' = want /\ want[i] \in Props
      BY <1>2 DEF Turn
    <2>3. CASE Mount(i, want[i])
      BY <2>1, <2>2, <2>3 DEF Mount, WillMount
    <2>4. CASE Prepare(i, want[i])
      BY <2>1, <2>2, <2>4 DEF Prepare, WillUpdate
    <2>5. CASE Skip(i, want[i])
      BY <2>1, <2>2, <2>5 DEF Skip
    <2>6. CASE Release(i, want[i])
      BY <2>1, <2>2, <2>6 DEF Release
    <2> QED BY <1>2, <2>3, <2>4, <2>5, <2>6 DEF Turn, React_Component
  <1>3. CASE UNCHANGED vars
    BY <1>3 DEF vars
  <1> QED BY <1>1, <1>2, <1>3 DEF Next

LEMMA Invariance == Spec => []Inv
  BY InitInv, StepInv, PTL DEF Spec

(* Every stage, props and shown state keeps its type, and the event loop   *)
(* never owes turns to anything but its components.                        *)
THEOREM TypeCorrectness == Spec => []TypeOK
  BY Invariance, PTL DEF Inv

(* A component at rest shows the props it has, whatever the order of the   *)
(* turns and whenever the application changes its mind.                    *)
THEOREM RestSafety == Spec => []RestIsShown
  BY Invariance, PTL DEF Inv

LEMMA InitFollows == Init => \A i \in Instance : Drawn(i)!Init
  BY DEF Init, Drawn!Init, Phase

(* A turn of component i is a step of its own lifecycle, and changes       *)
(* nothing of the others'.                                                 *)
LEMMA StepFollows ==
  Inv /\ [Next]_vars => \A i \in Instance : [Drawn(i)!Next]_(Drawn(i)!vars)
  <1> SUFFICES ASSUME Inv, [Next]_vars, NEW i \in Instance
               PROVE  [Drawn(i)!Next]_(Drawn(i)!vars)
    OBVIOUS
  <1> USE DEF Inv, TypeOK
  <1>1. ASSUME NEW j \in Instance, NEW p \in Props, Ask(j, p)
        PROVE  [Drawn(i)!Next]_(Drawn(i)!vars)
    <2>1. Phase(i)' = Phase(i)
      BY <1>1 DEF Ask, Phase
    <2>2. CASE i = j
      BY <1>1, <2>1, <2>2 DEF Ask, Drawn!Next, Drawn!Ask
    <2>3. CASE i # j
      BY <1>1, <2>1, <2>3 DEF Ask, Drawn!vars
    <2> QED BY <2>2, <2>3
  <1>2. ASSUME NEW j \in Instance, Turn(j)
        PROVE  [Drawn(i)!Next]_(Drawn(i)!vars)
    <2>1. want' = want /\ React_Component(j, want[j])
      BY <1>2 DEF Turn
    <2>2. CASE i = j
      <3>1. CASE Mount(i, want[i])
        BY <2>1, <3>1 DEF Mount, Phase, Drawn!Next, Drawn!Mount, WillMount
      <3>2. CASE Prepare(i, want[i])
        BY <2>1, <3>2 DEF Prepare, Phase, Drawn!Next, Drawn!Prepare, WillUpdate
      <3>3. CASE Skip(i, want[i])
        BY <2>1, <3>3 DEF Skip, Phase, Drawn!vars
      <3>4. CASE Release(i, want[i])
        BY <2>1, <3>4 DEF Release, Phase, Drawn!Next, Drawn!Release
      <3> QED BY <2>1, <2>2, <3>1, <3>2, <3>3, <3>4 DEF React_Component
    <2>3. CASE i # j
      <3>1. /\ stage'[i] = stage[i]
            /\ props'[i] = props[i]
            /\ shown'[i] = shown[i]
        BY <2>1, <2>3 DEF React_Component, Mount, WillMount, Prepare, WillUpdate, Skip, Release
      <3> QED BY <2>1, <3>1 DEF Phase, Drawn!vars
    <2> QED BY <2>2, <2>3
  <1>3. CASE UNCHANGED vars
    BY <1>3 DEF vars, Phase, Drawn!vars
  <1> QED BY <1>1, <1>2, <1>3 DEF Next

(* Every component of every loop follows the lifecycle of README.md.       *)
THEOREM LifecycleFollowed == Spec => FollowsLifecycle
  BY InitInv, StepInv, InitFollows, StepFollows, PTL
  DEF Spec, FollowsLifecycle
=============================================================================
