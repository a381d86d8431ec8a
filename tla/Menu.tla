--------------------------------- MODULE Menu ---------------------------------
(***************************************************************************)
(* component/Menu behind Serial, as app/uart_menu/main.c composes them:    *)
(* loop(timer, uart, counter) { apply(Menu, tty, ...) }.  The two take     *)
(* their turns one after the other, so a command that Serial has read is   *)
(* seen by Menu in the same loop.                                          *)
(***************************************************************************)
EXTENDS Serial

CONSTANTS Menus,   \* for each menu, "root" among them, the commands in order: the
                   \* word of each and its menu, or "root" when it has none
          Prompt,  \* what print_shell writes, and what the callbacks write before
          MaxTyped \* the bytes the peer sends in a behaviour

(* The menu and the command of the state when they are null.               *)
NoCommand == [word |-> <<>>, menu |-> "root"]

ASSUME MenusAssumption ==
  /\ "root" \in DOMAIN Menus
  /\ \A m \in DOMAIN Menus :
       Menus[m] \in Seq([word : Seq(Char), menu : DOMAIN Menus] \ {NoCommand})
  /\ Prompt \in Seq(Char) /\ MaxTyped \in Nat

VARIABLES menu,    \* the component: stage, state
          turn,    \* whose turn it is in the loop
          typed    \* the bytes the peer has sent

menuVars == <<menu, turn, typed, serialVars>>

MenuInit == /\ SerialInit
            /\ menu = [stage |-> "DEFINED", command |-> <<>>,
                       previous |-> NoCommand, current |-> NoCommand]
            /\ turn = "uart" /\ typed = 0
-----------------------------------------------------------------------------
(* print_shell clears the command of the props; print_command_not_found    *)
(* ends with it.                                                           *)
print_shell == command' = <<>> /\ tx' = Written(tx, Prompt)

Menu_mount == /\ menu.stage = "DEFINED"
              /\ menu' = [menu EXCEPT !.stage = "RELEASED"]
              /\ UNCHANGED <<tx, command, lines>>

Menu_skip == /\ menu.stage = "RELEASED"
             /\ command = <<>> \/ command = menu.command
             /\ UNCHANGED <<menu, tx, command, lines>>

(* The first command of the menu that the string begins with.              *)
Found == {i \in DOMAIN Menus[menu.current.menu] :
            /\ IsPrefix(Menus[menu.current.menu][i].word, command)
            /\ \A j \in 1..(i - 1) : ~IsPrefix(Menus[menu.current.menu][j].word, command)}

Menu_willUpdate ==
  /\ menu.stage = "RELEASED"
  /\ command # <<>> /\ command # menu.command
  /\ \/ \E i \in Found :
          /\ menu' = [stage |-> "PREPARED", command |-> command, previous |-> menu.current,
                      current |-> Menus[menu.current.menu][i]]
          /\ UNCHANGED <<tx, command, lines>>
     \/ /\ Found = {}
        /\ menu' = [menu EXCEPT !.stage = "PREPARED", !.command = command,
                                !.current = NoCommand]
        /\ print_shell /\ lines' = Tail(lines)

(* Faults: didUpdate leaves the command of the state; the command of the   *)
(* props is left by onCommand.                                             *)
Menu_release_kept ==
  /\ menu.stage = "PREPARED"
  /\ menu' = [menu EXCEPT !.stage = "RELEASED"]
  /\ IF menu.current = NoCommand THEN UNCHANGED <<tx, command, lines>>
     ELSE print_shell /\ lines' = Tail(lines)
Menu_release_uncleared ==
  /\ menu.stage = "PREPARED"
  /\ menu' = [menu EXCEPT !.stage = "RELEASED", !.command = <<>>]
  /\ IF menu.current = NoCommand THEN UNCHANGED <<tx, lines>>
     ELSE tx' = Written(tx, Prompt) /\ lines' = Tail(lines)
  /\ UNCHANGED command

(* release calls the callback and onCommand, didUpdate clears the command  *)
(* of the state.                                                           *)
Menu_release ==
  /\ menu.stage = "PREPARED"
  /\ menu' = [menu EXCEPT !.stage = "RELEASED", !.command = <<>>]
  /\ IF menu.current = NoCommand THEN UNCHANGED <<tx, command, lines>>
     ELSE print_shell /\ lines' = Tail(lines)

MenuTurn == Menu_mount \/ Menu_skip \/ Menu_willUpdate \/ Menu_release

Loop == \/ /\ turn = "uart" /\ turn' = "tty"
           /\ SerialTurn
           /\ UNCHANGED <<menu, typed>>
        \/ /\ turn = "tty" /\ turn' = "uart"
           /\ MenuTurn
           /\ UNCHANGED <<serial, uart, rx, wire, typed>>

Type(b) == /\ typed < MaxTyped /\ typed' = typed + 1
           /\ PeerSends(b) /\ UNCHANGED <<menu, turn>>

Drain == UartDrains /\ UNCHANGED <<menu, turn, typed>>

MenuNext == (\E b \in Char : Type(b)) \/ Drain \/ Loop

(* The loop goes on.                                                       *)
MenuFairness == WF_menuVars(Loop)

MenuSpec == MenuInit /\ [][MenuNext]_menuVars /\ MenuFairness
-----------------------------------------------------------------------------
Commands == {NoCommand} \cup UNION {Range(Menus[m]) : m \in DOMAIN Menus}

MenuTypeOK ==
  /\ menu \in [stage : {"DEFINED", "PREPARED", "RELEASED"}, command : Seq(Char),
               previous : Commands, current : Commands]
  /\ turn \in {"uart", "tty"} /\ typed \in 0..MaxTyped

(* A line that has been read is kept until its command has run, or is      *)
(* refused: the next line never replaces it, because Serial needs two      *)
(* turns for a byte and Menu two for a command, and the command that runs  *)
(* is the one of the line.                                                 *)
LinesAreKept ==
  /\ lines = IF command = <<>> THEN <<>> ELSE <<command>>
  /\ menu.stage = "PREPARED" /\ menu.current # NoCommand => menu.command = command

(* Every line is run or refused in the end, also one like the last.        *)
LinesAreRun == lines # <<>> ~> lines = <<>>
=============================================================================
