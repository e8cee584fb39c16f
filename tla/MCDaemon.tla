------------------------------ MODULE MCDaemon ------------------------------
(* Instances of Daemon for TLC. *)
EXTENDS Daemon

CONSTANTS g1, d1

(* The configuration file before and after it was changed. *)
Watching == [mode |-> "observer", groups |-> {}, devices |-> {d1},
             dosing |-> {}, grouped |-> {}]
Driving  == [mode |-> "control", groups |-> {g1}, devices |-> {d1},
             dosing |-> {}, grouped |-> {d1}]

Files == {Watching, Driving}

=============================================================================
