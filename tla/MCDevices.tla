------------------------------ MODULE MCDevices ------------------------------
(* A shell of two menus, each with one command, and three pins, for Devices.*)
EXTENDS Devices

MCMenus == [m \in {"root", "sub"} |->
              IF m = "root" THEN <<[word |-> <<"t">>, menu |-> "sub"]>>
              ELSE <<[word |-> <<"x">>, menu |-> "root"]>>]

MCPrompt == <<CR, "x">>
(* B2 and C1, which have the same hash, and D5.                            *)
MCPin == {[name |-> 66, number |-> 2], [name |-> 67, number |-> 1],
          [name |-> 68, number |-> 5]}

MCStray  == {"t", CR, NUL}
=============================================================================
