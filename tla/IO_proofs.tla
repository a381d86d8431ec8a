------------------------------ MODULE IO_proofs ------------------------------
(***************************************************************************)
(* Proof that an application which never switches the mode of an IO always *)
(* finds its pin configured for that mode, whatever pins it moves it to.   *)
(***************************************************************************)
EXTENDS IO, TLAPS

(* The hypothesis the configuration in willUpdate depends on: it compares  *)
(* the old mode with the next one, and configures the pin for the old one. *)
Inv == /\ want \in Props /\ props \in Props
       /\ ddr \in [Pin -> BOOLEAN]
       /\ stage # "DEFINED" => props.mode = want.mode
       /\ DirectionIsMode

(* What the next invariant needs of the pins, which all have a level.      *)
DriveInv == /\ TypeOK
            /\ level = "HIGH" <=> told = "onHigh"
            /\ stage = "RELEASED" /\ props.mode = "OUTPUT" =>
                 port[props.pin] = props.level

(* Setting the bit of one pin leaves the register a register, sets that    *)
(* bit and leaves the bits of the other pins.                              *)
LEMMA SetBit ==
  ASSUME NEW f \in [Pin -> BOOLEAN], NEW p \in Pin, NEW b \in BOOLEAN
  PROVE  [f EXCEPT ![p] = b] \in [Pin -> BOOLEAN] /\ [f EXCEPT ![p] = b][p] = b
  OBVIOUS

LEMMA InitInv == Init => Inv
  BY DEF Init, Inv, DirectionIsMode

(* Every step keeps the invariant when no Ask switches the mode.           *)
LEMMA NextInv == ASSUME ~SwitchesMode, Inv, [Next]_vars PROVE Inv'
<1>1. ASSUME NEW p \in Props, Ask(p) PROVE Inv'
  BY <1>1 DEF Ask, Inv, DirectionIsMode
<1>2. ASSUME NEW p \in Pin, NEW l \in Level \cup {"OPEN"}, DriveLine(p, l)
      PROVE  Inv'
  BY <1>2 DEF DriveLine, Inv, DirectionIsMode
<1>3. CASE MountOutput
  <2>1. want.pin \in Pin
    BY DEF Inv, Props
  <2>2. ddr' \in [Pin -> BOOLEAN] /\ ddr'[want.pin] = TRUE
    BY <1>3, <2>1, SetBit DEF MountOutput, Inv
  <2>. QED
    BY <1>3, <2>2 DEF MountOutput, Inv, DirectionIsMode
<1>4. CASE MountInput
  <2>1. want.pin \in Pin
    BY DEF Inv, Props
  <2>2. ddr' \in [Pin -> BOOLEAN] /\ ddr'[want.pin] = FALSE
    BY <1>4, <2>1, SetBit DEF MountInput, io_in, Inv
  <2>. QED
    BY <1>4, <2>2 DEF MountInput, Inv, DirectionIsMode
<1>5. CASE Prepare
  <2>1. /\ want.pin \in Pin
        /\ props.mode \in {"INPUT", "OUTPUT"}
    BY DEF Inv, Props
  <2>2. props.mode = want.mode /\ props' = want /\ want' = want
    BY <1>5 DEF Prepare, Inv
  <2>3. CASE props.pin # want.pin
    <3>1. Configure(props.mode, want.pin)
      BY <1>5, <2>3 DEF Prepare
    <3>2. /\ ddr' \in [Pin -> BOOLEAN]
          /\ ddr'[want.pin] <=> props.mode = "OUTPUT"
      BY <2>1, <3>1, SetBit DEF Configure, io_in, io_out, Inv
    <3>. QED
      BY <2>2, <3>2 DEF Inv, DirectionIsMode
  <2>4. CASE props.pin = want.pin
    <3>1. ddr' = ddr
      BY <1>5, <2>2, <2>4 DEF Prepare
    <3>. QED
      BY <1>5, <2>2, <2>4, <3>1 DEF Prepare, Inv, DirectionIsMode
  <2>. QED
    BY <2>3, <2>4
<1>6. CASE ReleaseOutput
  BY <1>6 DEF ReleaseOutput, Inv, DirectionIsMode
<1>7. CASE ReleaseInput
  BY <1>7 DEF ReleaseInput, Inv, DirectionIsMode
<1>8. CASE UNCHANGED vars
  BY <1>8 DEF vars, Inv, DirectionIsMode
<1>. QED
  BY <1>1, <1>2, <1>3, <1>4, <1>5, <1>6, <1>7, <1>8 DEF Next, Turn

(* As long as the application keeps to one mode, the pin of the props is   *)
(* an output exactly when that mode is OUTPUT.                             *)
THEOREM DirectionSafety == ASSUME ~SwitchesMode PROVE Spec => []DirectionIsMode
<1>1. Init => Inv
  BY InitInv
<1>2. Inv /\ [Next]_vars => Inv'
  BY NextInv
<1>3. Inv => DirectionIsMode
  BY DEF Inv
<1>. QED
  BY <1>1, <1>2, <1>3, PTL DEF Spec
-----------------------------------------------------------------------------
(* An output keeps the level it was given, and the callback of an input    *)
(* follows the level it has read.                                          *)
LEMMA SetPort ==
  ASSUME NEW f \in [Pin -> Level], NEW p \in Pin, NEW l \in Level
  PROVE  [f EXCEPT ![p] = l] \in [Pin -> Level] /\ [f EXCEPT ![p] = l][p] = l
  OBVIOUS

LEMMA ReadTells ==
  ASSUME DriveInv, NEW l \in Level, ReadLevel(l)
  PROVE  /\ level' \in Level /\ told' \in {"nothing", "onLow", "onHigh"}
         /\ level' = "HIGH" <=> told' = "onHigh"
  BY DEF DriveInv, TypeOK, ReadLevel, Level

LEMMA DriveInitInv == Init => DriveInv
  BY DEF Init, DriveInv, TypeOK, Level

LEMMA DriveNextInv == ASSUME DriveInv, [Next]_vars PROVE DriveInv'
<1>0. /\ want.pin \in Pin /\ want.level \in Level /\ want.mode \in {"INPUT", "OUTPUT"}
      /\ props.pin \in Pin /\ props.level \in Level /\ props.mode \in {"INPUT", "OUTPUT"}
  BY DEF DriveInv, TypeOK, Props
<1>1. ASSUME NEW p \in Props, Ask(p) PROVE DriveInv'
  BY <1>1 DEF Ask, DriveInv, TypeOK
<1>2. ASSUME NEW p \in Pin, NEW l \in Level \cup {"OPEN"}, DriveLine(p, l)
      PROVE  DriveInv'
  BY <1>2 DEF DriveLine, DriveInv, TypeOK
<1>3. CASE MountOutput
  <2>1. port' \in [Pin -> Level] /\ port'[want.pin] = want.level
    BY <1>0, <1>3, SetPort DEF MountOutput, SetLevel, DriveInv, TypeOK
  <2>2. ddr' \in [Pin -> BOOLEAN]
    BY <1>0, <1>3, SetBit DEF MountOutput, DriveInv, TypeOK
  <2>. QED
    BY <1>3, <2>1, <2>2 DEF MountOutput, DriveInv, TypeOK
<1>4. CASE MountInput
  <2>1. port' \in [Pin -> Level] /\ ddr' \in [Pin -> BOOLEAN]
    BY <1>0, <1>4, SetPort, SetBit DEF MountInput, io_in, Level, DriveInv, TypeOK
  <2>2. PICK l \in Level : ReadLevel(l)
    BY <1>0, <1>4 DEF MountInput, DriveInv, TypeOK, Level
  <2>3. /\ level' \in Level /\ told' \in {"nothing", "onLow", "onHigh"}
        /\ level' = "HIGH" <=> told' = "onHigh"
    BY <2>2, ReadTells
  <2>. QED
    BY <1>4, <2>1, <2>3 DEF MountInput, DriveInv, TypeOK
<1>5. CASE Prepare
  <2>1. port' \in [Pin -> Level] /\ ddr' \in [Pin -> BOOLEAN]
    <3>1. ddr \in [Pin -> BOOLEAN] /\ port \in [Pin -> Level] /\ "HIGH" \in Level
      BY DEF DriveInv, TypeOK, Level
    <3>2. CASE io_in(want.pin)
      BY <1>0, <3>1, <3>2, SetPort, SetBit DEF io_in
    <3>3. CASE io_out(want.pin)
      BY <1>0, <3>1, <3>3, SetBit DEF io_out
    <3>4. CASE UNCHANGED <<ddr, port>>
      BY <3>1, <3>4
    <3>. QED
      BY <1>5, <3>2, <3>3, <3>4 DEF Prepare, Configure
  <2>. QED
    BY <1>5, <2>1 DEF Prepare, DriveInv, TypeOK
<1>6. CASE ReleaseOutput
  <2>1. port' \in [Pin -> Level] /\ port'[props.pin] = props.level
    BY <1>0, <1>6, SetPort DEF ReleaseOutput, SetLevel, DriveInv, TypeOK
  <2>. QED
    BY <1>6, <2>1 DEF ReleaseOutput, DriveInv, TypeOK
<1>7. CASE ReleaseInput
  <2>1. PICK l \in Level : ReadLevel(l)
    <3>1. io_get(props.pin) \in Level
      BY <1>0 DEF io_get, DriveInv, TypeOK
    <3>. QED
      BY <1>7, <3>1 DEF ReleaseInput
  <2>2. /\ level' \in Level /\ told' \in {"nothing", "onLow", "onHigh"}
        /\ level' = "HIGH" <=> told' = "onHigh"
    BY <2>1, ReadTells
  <2>. QED
    BY <1>7, <2>2 DEF ReleaseInput, DriveInv, TypeOK
<1>8. CASE UNCHANGED vars
  BY <1>8 DEF vars, DriveInv, TypeOK
<1>. QED
  BY <1>1, <1>2, <1>3, <1>4, <1>5, <1>6, <1>7, <1>8 DEF Next, Turn

LEMMA DriveInvariance == Spec => []DriveInv
<1>1. DriveInv /\ [Next]_vars => DriveInv'
  BY DriveNextInv
<1>. QED
  BY DriveInitInv, <1>1, PTL DEF Spec

(* Whatever the application asks for, every bit and level stays one.       *)
THEOREM TypeCorrectness == Spec => []TypeOK
<1>1. DriveInv => TypeOK
  BY DEF DriveInv
<1>. QED
  BY <1>1, DriveInvariance, PTL

(* As long as the application keeps to one mode, an output at rest is seen *)
(* at the level of its props; an input has told the level it has read.     *)
THEOREM RestSafety == ASSUME ~SwitchesMode PROVE Spec => []RestIsDriven
<1>1. Inv /\ DriveInv => RestIsDriven
  <2> SUFFICES ASSUME Inv, DriveInv, stage = "RELEASED"
               PROVE  CASE props.mode = "OUTPUT" -> io_get(props.pin) = props.level
                        [] props.mode = "INPUT"  -> level = "HIGH" <=> told = "onHigh"
    BY DEF RestIsDriven
  <2>1. CASE props.mode = "OUTPUT"
    <3>1. ddr[props.pin] /\ port[props.pin] = props.level
      BY <2>1 DEF Inv, DirectionIsMode, DriveInv
    <3>. QED
      BY <2>1, <3>1 DEF io_get
  <2>2. CASE props.mode = "INPUT"
    BY <2>2 DEF DriveInv
  <2>. QED
    BY <2>1, <2>2 DEF DriveInv, TypeOK, Props
<1>2. Init => Inv
  BY InitInv
<1>3. Inv /\ [Next]_vars => Inv'
  BY NextInv
<1>. QED
  BY <1>1, <1>2, <1>3, DriveInvariance, PTL DEF Spec
=============================================================================
