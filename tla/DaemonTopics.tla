---------------------------- MODULE DaemonTopics ----------------------------
(***************************************************************************)
(* The retained topics of the daemon's MQTT contract and their payloads    *)
(* (src/jebao_flow/mqtt/topics.py, models.py), as Contract, Daemon and     *)
(* HomeAssistant share them.                                               *)
(***************************************************************************)
EXTENDS Naturals

CONSTANTS
    None,
    Junk,             \* a payload that is not the daemon's
    Groups, Devices,
    Configs,          \* what the configuration file may hold
    MaxRevision,      \* bound on the revisions of a state
    MaxStarts         \* bound on starts of the process

Things == Groups \cup Devices

(* A state is told by its revision and the process it is of. *)
Snapshots == [epoch : 0 .. MaxStarts, revision : 0 .. MaxRevision]

ASSUME TopicsAssumption ==
    /\ None # Junk
    /\ Groups \cap Devices = {}
    /\ \A x \in {None, Junk} :
         x \notin Configs /\ x \notin Snapshots /\ x \notin {"online", "offline"}
    /\ MaxRevision \in Nat /\ MaxStarts \in Nat
    /\ \A c \in Configs :
         /\ c.mode \in {"observer", "control"}
         /\ c.groups \in SUBSET Groups
         /\ c.devices \in SUBSET Devices
         /\ c.dosing \in SUBSET Devices
         /\ c.grouped \in SUBSET Devices

-----------------------------------------------------------------------------
(* The payload of system/config is a function of the configuration, which  *)
(* stands for it.                                                          *)
Availability == <<"system", "availability">>
SystemConfig == <<"system", "config">>
State(t)     == <<"state", t>>

StateTopics == {State(t) : t \in Things}
Topics      == {Availability, SystemConfig} \cup StateTopics

Payloads(topic) ==
    {None, Junk} \cup
    CASE topic = Availability -> {"online", "offline"}
      [] topic = SystemConfig -> Configs
      [] OTHER -> Snapshots

Listed(c) == c.groups \cup c.devices

(* system_config: what can be asked and seen of a device. *)
Controls(c, d) ==
    IF c.mode = "observer" THEN {}
    ELSE IF d \in c.dosing THEN {"status"}
    ELSE {"enabled", "power"} \cup
         IF d \in c.grouped THEN {"resume_group"} ELSE {}

Observables(c, d) ==
    IF d \in c.dosing THEN {"enabled", "error", "schedule"}
    ELSE {"enabled", "power", "mode", "frequency", "error", "schedule"}

=============================================================================
