---------------------------- MODULE StateSource ----------------------------
(***************************************************************************)
(* What the MQTT adapter relies on in GroupControlService: every state     *)
(* topic has a version that only grows, a change made by the observer is   *)
(* announced through the dirty sets and their event, and a change made by  *)
(* a command is not: the caller of apply publishes it.                     *)
(*                                                                         *)
(* GroupControl implements this specification (ImplementsSource), and      *)
(* MqttAdapter is built on its actions.                                    *)
(***************************************************************************)
EXTENDS Integers

CONSTANTS
    Groups,
    Devices,
    Members,          \* Members[g]: the devices of group g
    MaxVersion        \* bound on versions

VARIABLES
    version,          \* revision of the payload of each state topic
    dirty,            \* _dirty_groups and _dirty_devices, as topics
    updateEvent       \* _update_event.is_set()

sourceVars == <<version, dirty, updateEvent>>

GroupTopic(g)  == <<"group", g>>
DeviceTopic(d) == <<"device", d>>

StateTopics == ({"group"} \X Groups) \cup ({"device"} \X Devices)
Versions    == 0 .. MaxVersion

(* The group with its members, and the device with the groups it is in.    *)
GroupScope(g)  == {GroupTopic(g)} \cup {DeviceTopic(d) : d \in Members[g]}
DeviceScope(d) == {DeviceTopic(d)} \cup
                  {GroupTopic(g) : g \in {h \in Groups : d \in Members[h]}}

ASSUME SourceAssumption ==
    /\ MaxVersion \in Nat
    /\ Members \in [Groups -> SUBSET Devices]

SourceInit ==
    /\ version = [t \in StateTopics |-> 0]
    /\ dirty = {}
    /\ updateEvent = FALSE

Bump(topics) ==
    /\ \A t \in topics : version[t] < MaxVersion
    /\ version' = [t \in StateTopics |->
                      IF t \in topics THEN version[t] + 1 ELSE version[t]]

(* apply: the group changes, and the members that follow it. *)
GroupCommanded(g) ==
    /\ \E followers \in SUBSET Members[g] :
          Bump({GroupTopic(g)} \cup {DeviceTopic(d) : d \in followers})
    /\ UNCHANGED <<dirty, updateEvent>>

(* apply_device: the device changes, and the groups that show it. *)
DeviceCommanded(d) ==
    /\ Bump(DeviceScope(d))
    /\ UNCHANGED <<dirty, updateEvent>>

Announce(topics) ==
    /\ dirty' = dirty \cup topics
    /\ updateEvent' = TRUE

(* record_observer_event: a change, or only a heartbeat. *)
Observed(d) == Bump(DeviceScope(d)) /\ Announce(DeviceScope(d))

Refreshed(d) == Announce(DeviceScope(d)) /\ UNCHANGED version

(* wait_for_updates. *)
Drained ==
    /\ updateEvent
    /\ updateEvent' = FALSE
    /\ dirty' = {}
    /\ UNCHANGED version

SourceNext ==
    \/ \E g \in Groups : GroupCommanded(g)
    \/ \E d \in Devices : DeviceCommanded(d) \/ Observed(d) \/ Refreshed(d)
    \/ Drained

SourceSpec == SourceInit /\ [][SourceNext]_sourceVars

=============================================================================
