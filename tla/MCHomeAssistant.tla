-------------------------- MODULE MCHomeAssistant --------------------------
(* Instances of HomeAssistant for TLC. *)
EXTENDS HomeAssistant

CONSTANTS d1

(* The configuration file before and after it was changed. *)
Watching == [mode |-> "observer", groups |-> {}, devices |-> {d1},
             dosing |-> {}, grouped |-> {}]
Driving  == [mode |-> "control", groups |-> {}, devices |-> {d1},
             dosing |-> {}, grouped |-> {}]

Files == {Watching, Driving}

=============================================================================
