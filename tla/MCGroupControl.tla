-------------------------- MODULE MCGroupControl --------------------------
(* Instances of GroupControl for TLC. *)
EXTENDS GroupControlProperties, TLC

CONSTANTS g1, g2, gx, d1, d2, d3, dx

(* Bodies that carry nothing but the fields given. *)
Body == [enabled |-> None, pattern |-> None, power |-> None,
         min_power |-> None, max_power |-> None, action |-> None]

DeviceBody == [enabled |-> None, power |-> None, action |-> None]

Acting(actions) == {[Body EXCEPT !.action = a] : a \in actions}

Default == [enabled |-> TRUE, pattern |-> "constant",
            power |-> 2, min_power |-> 1, max_power |-> 2]

(* Request ids are compared for equality only. *)
RequestSymmetry == Permutations(RequestIds)

-----------------------------------------------------------------------------
(* One group of two pumps of different gain, and a return pump in no group. *)

PairMembers == [g \in {g1} |-> {d1, d2}]
PairFirst   == [d \in {d1, d2} |-> g1]
PairConfig  == [g \in {g1} |-> Default]
OverConfig  == [g \in {g1} |-> [Default EXCEPT !.max_power = 1]]
PairGains   == [g \in {g1} |-> [d \in {d1, d2} |->
                  [enabled |-> TRUE, gain |-> IF d = d1 THEN 100 ELSE 50]]]
PairDevices == [d \in {d1, d2} |->
                  [dosing |-> FALSE, min_power |-> 1, max_power |-> 2]]
TrioDevices == [d \in {d1, d2, d3} |-> PairDevices[d1]]

(* Every action, and patches that move the limits around the power. *)
AllCommands ==
    Acting(GroupActions) \cup
    {[Body EXCEPT !.enabled = TRUE], [Body EXCEPT !.enabled = FALSE],
     [Body EXCEPT !.power = 1], [Body EXCEPT !.max_power = 1],
     [Body EXCEPT !.max_power = 2], [Body EXCEPT !.min_power = 2, !.max_power = 2],
     [Body EXCEPT !.min_power = 2], [Body EXCEPT !.pattern = "wave"],
     [Body EXCEPT !.pattern = "future"],
     [Body EXCEPT !.action = "clear_emergency", !.enabled = TRUE],
     Body}

PairDeviceCommands ==
    {[DeviceBody EXCEPT !.action = "resume_group"],
     [DeviceBody EXCEPT !.enabled = TRUE, !.power = 2]}

-----------------------------------------------------------------------------
(* Observer mode: a default pattern no calculator implements, one command.  *)

ResumeCommands == {[Body EXCEPT !.enabled = TRUE, !.pattern = "constant"]}

FutureConfig == [g \in {g1} |-> [Default EXCEPT !.pattern = "future"]]

-----------------------------------------------------------------------------
(* Commands and observations together: the actions that move the status.   *)

StatusCommands ==
    Acting({"emergency_stop", "clear_emergency"}) \cup {[Body EXCEPT !.enabled = TRUE]}
OverrideCommands == {[DeviceBody EXCEPT !.enabled = TRUE]}

-----------------------------------------------------------------------------
(* Two groups that share d2. *)

SharedMembers == [g \in {g1, g2} |-> IF g = g1 THEN {d1, d2} ELSE {d2}]
SharedFirst   == [d \in {d1, d2} |-> g1]
SharedConfig  == [g \in {g1, g2} |-> Default]
SharedGains   == [g \in {g1, g2} |-> [d \in SharedMembers[g] |->
                    [enabled |-> TRUE, gain |-> 100]]]
SharedCommands ==
    Acting({"emergency_stop", "clear_emergency", "start_feed"}) \cup
    {[Body EXCEPT !.enabled = TRUE], [Body EXCEPT !.power = 1]}
=============================================================================
