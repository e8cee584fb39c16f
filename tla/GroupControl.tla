---------------------------- MODULE GroupControl ----------------------------
(***************************************************************************)
(* GroupControlService (src/jebao_flow/mqtt/service.py): the server-owned  *)
(* desired state of pump groups and pumps, the validation of MQTT commands *)
(* and the merge of LAN observations.                                      *)
(*                                                                         *)
(* The service lives on one asyncio thread and every method modelled here  *)
(* runs without an await, so each is one action.  Commands (consumer task),*)
(* observations (one worker task per pump) and the publisher task that     *)
(* drains the dirty sets interleave in any order.                          *)
(*                                                                         *)
(* Data abstraction.  Pattern kinds fall into three classes (see Patterns);*)
(* period and transition only feed the waveform, so a command that sets    *)
(* nothing else is a command whose modelled fields are all None.  reading  *)
(* stands for the observed (power, mode, frequency); configuration for the *)
(* observed attributes together with the schedule without its clock, which *)
(* _schedule_configuration removes before comparing.  observation_source   *)
(* and change_source are functions of the three time stamps and are left   *)
(* out, as are the fields that never change after start-up.                *)
(***************************************************************************)
EXTENDS Integers, Sequences, FiniteSets

CONSTANTS
    None,             \* Python's None in an optional field
    Groups,           \* ids of the configured groups
    Devices,          \* ids of the configured devices
    GroupTopics,      \* group ids a command topic can carry, known or not
    DeviceTopics,     \* device ids a command topic can carry, known or not
    Members,          \* Members[g]: the devices of group g
    FirstGroup,       \* FirstGroup[d]: group_ids[0] of a grouped device
    GroupConfig,      \* GroupConfig[g]: enabled flag and defaults
    MemberConfig,     \* MemberConfig[g][d]: enabled flag, gain in hundredths
    DeviceConfig,     \* DeviceConfig[d]: dosing flag and power limits
    ObserverMode,     \* runtime.mode is RuntimeMode.OBSERVER
    Heartbeat,        \* observer.publish_heartbeat_seconds
    RequestIds,       \* request ids clients use
    GroupCommands,    \* bodies of the group commands clients send
    DeviceCommands,   \* bodies of the device commands clients send
    Readings,         \* observed (power, mode, frequency)
    Configurations,   \* observed attributes and schedule
    Errors,           \* texts of errors
    Reporting         \* devices the observer reports on in this instance

CONSTANTS
    MaxPower,         \* 100 in the code
    MaxDedup,         \* _MAX_DEDUPLICATION_ENTRIES, 512 in the code
    MaxTime,          \* bound on observation time stamps
    MaxRevision       \* bound on revision counters

VARIABLES
    groupStates,      \* _states
    deviceStates,     \* _device_states
    results,          \* _results, oldest first
    deviceResults,    \* _device_results, oldest first
    dirtyDevices,     \* _dirty_devices
    dirtyGroups,      \* _dirty_groups
    updateEvent,      \* _update_event.is_set()
    lastPublished     \* _last_published_seen_at, 0 for None

vars == <<groupStates, deviceStates, results, deviceResults,
          dirtyDevices, dirtyGroups, updateEvent, lastPublished>>

-----------------------------------------------------------------------------
(* Types *)

Powers  == 0 .. MaxPower
Times   == 0 .. MaxTime        \* 0 stands for None: never
Revisions == 0 .. MaxRevision

(* "wave" is every implemented time-varying pattern; "future" the kinds the *)
(* public model names and PatternCalculator does not support.               *)
Patterns == {"constant", "wave", "future"}
SupportedPatterns == {"constant", "wave"}

GroupStatuses == {"starting", "running", "stopped", "feeding",
                  "degraded", "error", "emergency_stop"}

GroupActions == {"start_feed", "stop_feed", "emergency_stop",
                 "clear_emergency", "resume_all_members"}

DeviceStatuses == {"unobserved", "group_control", "manual_override", "running",
                   "stopped", "error", "unmapped", "connecting", "offline"}

ControlModes == {"group", "manual_override", "standalone"}

(* Booleans that may be None. *)
Unknown  == "unknown"
Switch(b) == IF b THEN "true" ELSE "false"
Ternary  == {Unknown, "true", "false"}

Observation ==
    [actual_enabled : Ternary,
     reading        : Readings \cup {None},
     configuration  : Configurations \cup {None},
     online         : Ternary,
     error          : Errors \cup {None},
     last_seen_at   : Times,
     last_changed_at : Times,
     last_configuration_changed_at : Times]

DeviceState ==
    [revision        : Revisions,
     enabled         : BOOLEAN,
     power           : Powers,
     status          : DeviceStatuses,
     control_mode    : ControlModes,
     last_request_id : RequestIds \cup {None},
     observed        : Observation]

MemberState ==
    [control_mode : {"group", "manual_override"},
     enabled      : BOOLEAN,
     target_power : Powers,
     observed     : Observation]

(* What an MQTT client may ask for, and what it got. *)
Desired ==
    [enabled : BOOLEAN, pattern : Patterns,
     power : Powers, min_power : Powers, max_power : Powers]

GroupCommandBody ==
    [enabled   : BOOLEAN \cup {None},
     pattern   : Patterns \cup {None},
     power     : Powers \cup {None},
     min_power : Powers \cup {None},
     max_power : Powers \cup {None},
     action    : GroupActions \cup {None}]

DeviceCommandBody ==
    [enabled : BOOLEAN \cup {None},
     power   : Powers \cup {None},
     action  : {"resume_group", None}]

GroupState(g) ==
    [revision        : Revisions,
     status          : GroupStatuses,
     desired         : Desired,
     members         : [Members[g] -> MemberState],
     actual_enabled  : Ternary,
     online_member_count : Nat,
     last_seen_at    : Times,
     last_changed_at : Times,
     last_configuration_changed_at : Times,
     last_request_id : RequestIds \cup {None}]

Reasons == {"unknown_group", "observer_mode_read_only", "unsupported_pattern",
            "emergency_stop_locked", "min_power_exceeds_max_power",
            "power_outside_active_limits", "unknown_device",
            "group_emergency_stop_locked", "device_is_not_grouped",
            "enabled_control_unsupported", "power_control_unsupported",
            "power_outside_device_limits"}

Accepted == "accepted"        \* the reason field of an accepted request

Result(topics) ==
    [request_id : RequestIds, target : topics,
     revision : Revisions, reason : Reasons \cup {Accepted}]

(* The payload of a successful get_state: DeviceState of protocol/models.py *)
Readouts ==
    [enabled : BOOLEAN, reading : Readings, configuration : Configurations,
     error : Errors \cup {None}, observed_at : 1 .. MaxTime]

-----------------------------------------------------------------------------
(* Assumptions on the configuration: AppConfig and its validators *)

ASSUME NoneAssumption ==
    /\ None \notin BOOLEAN
    /\ None \notin Powers
    /\ None \notin Patterns
    /\ None \notin GroupActions \cup {"resume_group"}
    /\ None \notin RequestIds \cup Readings \cup Configurations \cup Errors

ASSUME BoundsAssumption ==
    /\ MaxPower \in Nat /\ MaxTime \in Nat /\ MaxRevision \in Nat
    /\ MaxDedup \in Nat \ {0}
    /\ Heartbeat \in Nat \ {0}

ASSUME TopologyAssumption ==
    /\ IsFiniteSet(Devices)
    /\ Groups \subseteq GroupTopics
    /\ Devices \subseteq DeviceTopics
    /\ Reporting \subseteq Devices
    /\ Members \in [Groups -> (SUBSET Devices) \ {{}}]
    /\ \A d \in Devices :
         (\E g \in Groups : d \in Members[g]) =>
             FirstGroup[d] \in Groups /\ d \in Members[FirstGroup[d]]

ASSUME ConfigAssumption ==
    /\ ObserverMode \in BOOLEAN
    /\ \A g \in Groups :
         /\ GroupConfig[g] \in Desired
         /\ GroupConfig[g].min_power <= GroupConfig[g].max_power
         /\ ~ObserverMode => GroupConfig[g].pattern \in SupportedPatterns
         /\ \A d \in Members[g] :
              /\ MemberConfig[g][d].enabled \in BOOLEAN
              /\ MemberConfig[g][d].gain \in Nat
    /\ \A d \in Devices :
         /\ DeviceConfig[d].dosing \in BOOLEAN
         /\ DeviceConfig[d].min_power \in Powers
         /\ DeviceConfig[d].max_power \in Powers
         /\ DeviceConfig[d].min_power <= DeviceConfig[d].max_power

ASSUME CommandAssumption ==
    /\ GroupCommands \subseteq GroupCommandBody
    /\ DeviceCommands \subseteq DeviceCommandBody

-----------------------------------------------------------------------------
(* Targets: PatternCalculator and member_target *)

GroupsOf(d) == {g \in Groups : d \in Members[g]}

Clamp(value, lower, upper) ==
    IF value > upper THEN upper ELSE IF value < lower THEN lower ELSE value

(* clamp_enabled_power: value is in hundredths, the result a whole power,   *)
(* rounded half up; a disabled target stays at zero.                        *)
ClampEnabledPower(value, desired, enabled) ==
    IF enabled
    THEN (Clamp(value, 100 * desired.min_power, 100 * desired.max_power) + 50)
            \div 100
    ELSE 0

MemberTarget(g, d, desired, demand) ==
    LET enabled == desired.enabled /\ MemberConfig[g][d].enabled
    IN  [enabled |-> enabled,
         power   |-> ClampEnabledPower(demand, desired, enabled)]

(* _calculate_targets falls back to CONSTANT for an unimplemented pattern   *)
(* in observer mode, where targets are informational.                       *)
EffectivePattern(desired) ==
    IF ObserverMode /\ desired.pattern \notin SupportedPatterns
    THEN "constant"
    ELSE desired.pattern

(* Requested power times gain, in hundredths, for each member.  A wave is   *)
(* sampled at time.monotonic(), so a call may return any value of the       *)
(* active range; two calls in one command may return different ones.        *)
Demands(g, desired) ==
    IF EffectivePattern(desired) = "constant"
    THEN {[d \in Members[g] |-> desired.power * MemberConfig[g][d].gain]}
    ELSE {[d \in Members[g] |-> 100 * wave[d]] :
            wave \in [Members[g] -> desired.min_power .. desired.max_power]}

(* The target maps one call of _calculate_targets can return. *)
CalculateTargets(g, desired) ==
    {[d \in Members[g] |-> MemberTarget(g, d, desired, demand[d])] :
        demand \in Demands(g, desired)}

(* One call per group of gs. *)
TargetsOfEach(gs, states) ==
    {t \in [gs -> UNION {CalculateTargets(g, states[g].desired) : g \in gs}] :
        \A g \in gs : t[g] \in CalculateTargets(g, states[g].desired)}

-----------------------------------------------------------------------------
(* Group views: _calculate_members and the two refreshes *)

CalculateMembers(g, devs, targets) ==
    [d \in Members[g] |->
        LET manual == devs[d].control_mode = "manual_override"
        IN  [control_mode |-> IF manual THEN "manual_override" ELSE "group",
             enabled      |-> IF manual THEN devs[d].enabled
                                        ELSE targets[d].enabled,
             target_power |-> IF manual THEN devs[d].power
                                        ELSE targets[d].power,
             observed     |-> devs[d].observed]]

Bump(revision, increment) == IF increment THEN revision + 1 ELSE revision

RefreshGroupMembers(g, state, devs, targets, increment) ==
    [state EXCEPT
        !.revision = Bump(@, increment),
        !.members  = CalculateMembers(g, devs, targets)]

OnlineMembers(members) ==
    {d \in DOMAIN members : members[d].observed.online = "true"}

ObservedStatus(members) ==
    LET observed == {d \in DOMAIN members : members[d].observed.online # Unknown}
        online   == OnlineMembers(members)
        errors   == {d \in DOMAIN members : members[d].observed.error # None}
    IN  IF errors # {} /\ errors = DOMAIN members THEN "error"
        ELSE IF errors # {} THEN "degraded"
        ELSE IF online # {} /\ online = DOMAIN members
             THEN IF \E d \in online : members[d].observed.actual_enabled = "true"
                  THEN "running" ELSE "stopped"
        ELSE IF online # {} THEN "degraded"
        ELSE IF observed # {} THEN "error"
        ELSE "starting"

ObservedEnabled(members) ==
    LET online == OnlineMembers(members)
    IN  IF online = {} THEN Unknown
        ELSE Switch(\E d \in online : members[d].observed.actual_enabled = "true")

(* The latest time of a set, 0 (None) when there is none. *)
Latest(times) ==
    IF times = {} THEN 0 ELSE CHOOSE t \in times : \A u \in times : u <= t

RefreshGroupObservation(g, state, devs, targets, increment) ==
    LET members == CalculateMembers(g, devs, targets)
        latest(field) == Latest({members[d].observed[field] : d \in Members[g]})
    IN  [state EXCEPT
            !.revision = Bump(@, increment),
            !.members  = members,
            !.status   = ObservedStatus(members),
            !.actual_enabled = ObservedEnabled(members),
            !.online_member_count = Cardinality(OnlineMembers(members)),
            !.last_seen_at    = latest("last_seen_at"),
            !.last_changed_at = latest("last_changed_at"),
            !.last_configuration_changed_at =
                latest("last_configuration_changed_at")]

-----------------------------------------------------------------------------
(* Request deduplication: _results, _device_results and _remember *)

Remembered(log) == {log[i].request_id : i \in DOMAIN log}

(* Mutant: popitem(last=True) drops the newest. *)
RememberDropsNewest(log, result) ==
    IF Len(log) < MaxDedup THEN Append(log, result) ELSE log

(* A request is remembered only when it was not already, so move_to_end has *)
(* nothing to move and at most one entry is popped.                         *)
Remember(log, result) ==
    IF Len(log) < MaxDedup
    THEN Append(log, result)
    ELSE Append(Tail(log), result)

-----------------------------------------------------------------------------
(* Start-up: _initial_state, _initial_device_state, __init__ *)

Unobserved ==
    [actual_enabled |-> Unknown, reading |-> None, configuration |-> None,
     online |-> Unknown, error |-> None, last_seen_at |-> 0,
     last_changed_at |-> 0, last_configuration_changed_at |-> 0]

InitialDeviceState(d, targets) ==
    LET grouped == GroupsOf(d) # {}
    IN  [revision |-> 0,
         enabled  |-> grouped /\ GroupConfig[FirstGroup[d]].enabled,
         power    |-> IF grouped THEN targets[FirstGroup[d]][d].power
                                 ELSE DeviceConfig[d].min_power,
         status   |-> "unobserved",
         control_mode |-> IF grouped THEN "group" ELSE "standalone",
         last_request_id |-> None,
         observed |-> Unobserved]

InitialState(g, devs, targets) ==
    [revision |-> 0,
     status   |-> IF ObserverMode THEN "starting"
                  ELSE IF GroupConfig[g].enabled THEN "running" ELSE "stopped",
     desired  |-> GroupConfig[g],
     members  |-> CalculateMembers(g, devs, targets),
     actual_enabled |-> Unknown,
     online_member_count |-> 0,
     last_seen_at |-> 0,
     last_changed_at |-> 0,
     last_configuration_changed_at |-> 0,
     last_request_id |-> None]

Init ==
    /\ \E first, second \in TargetsOfEach(Groups, [g \in Groups |->
                                  [desired |-> GroupConfig[g]]]) :
         /\ deviceStates = [d \in Devices |-> InitialDeviceState(d, first)]
         /\ groupStates = [g \in Groups |->
                              InitialState(g, deviceStates, second[g])]
    /\ results = <<>>
    /\ deviceResults = <<>>
    /\ dirtyDevices = {}
    /\ dirtyGroups = {}
    /\ updateEvent = FALSE
    /\ lastPublished = [d \in Devices |-> 0]

-----------------------------------------------------------------------------
(* Group commands: apply *)

Given(value, current) == IF value = None THEN current ELSE value

Patched(desired, c) ==
    [enabled   |-> Given(c.enabled, desired.enabled),
     pattern   |-> Given(c.pattern, desired.pattern),
     power     |-> Given(c.power, desired.power),
     min_power |-> Given(c.min_power, desired.min_power),
     max_power |-> Given(c.max_power, desired.max_power)]

(* Mutant: the read-only check is missing. *)
GroupVerdictWritable(g, c) ==
    IF g \notin Groups THEN "unknown_group" ELSE Accepted

(* Mutant: the power check reads the limits from before the patch. *)
GroupVerdictOldLimits(g, c) ==
    IF c.pattern = "future" THEN "unsupported_pattern"
    ELSE IF groupStates[g].status = "emergency_stop"
            /\ c.action # "clear_emergency"
         THEN "emergency_stop_locked"
    ELSE LET current == groupStates[g].desired
             asked   == Patched(current, c)
         IN  IF asked.min_power > asked.max_power
             THEN "min_power_exceeds_max_power"
             ELSE IF asked.enabled
                     /\ asked.power \notin current.min_power .. current.max_power
             THEN "power_outside_active_limits"
             ELSE Accepted

(* The verdict on a command, in the order the checks are made. *)
GroupVerdict(g, c) ==
    IF g \notin Groups THEN "unknown_group"
    ELSE IF ObserverMode THEN "observer_mode_read_only"
    ELSE IF c.pattern # None /\ c.pattern \notin SupportedPatterns
         THEN "unsupported_pattern"
    ELSE IF groupStates[g].status = "emergency_stop"
            /\ c.action # "clear_emergency"
         THEN "emergency_stop_locked"
    ELSE LET asked == Patched(groupStates[g].desired, c)
         IN  IF asked.min_power > asked.max_power
             THEN "min_power_exceeds_max_power"
             ELSE IF asked.enabled
                     /\ asked.power \notin asked.min_power .. asked.max_power
             THEN "power_outside_active_limits"
             ELSE Accepted

CommandedStatus(state, enabled, c) ==
    CASE c.action = "start_feed"         -> "feeding"
      [] c.action = "emergency_stop"     -> "emergency_stop"
      [] c.action = "clear_emergency"    -> "stopped"
      [] c.action = "resume_all_members" -> state.status
      [] OTHER -> IF enabled THEN "running" ELSE "stopped"

(* Mutant: an accepted command leaves the revision alone. *)
CommandedSameRevision(state, r, c) ==
    LET asked == Patched(state.desired, c)
    IN  [state EXCEPT
            !.status  = CommandedStatus(state, asked.enabled, c),
            !.desired = [asked EXCEPT !.enabled =
                             @ /\ c.action # "emergency_stop"],
            !.last_request_id = r]

Commanded(state, r, c) ==
    LET asked == Patched(state.desired, c)
    IN  [state EXCEPT
            !.revision = @ + 1,
            !.status   = CommandedStatus(state, asked.enabled, c),
            !.desired  = [asked EXCEPT !.enabled =
                              @ /\ c.action # "emergency_stop"],
            !.last_request_id = r]

(* Mutant: the emergency stop respects manual overrides. *)
ForcesExceptEmergency(c) ==
    c.enabled # None \/ c.action \in {"start_feed", "resume_all_members"}

ForcesGroupControl(c) ==
    \/ c.enabled # None
    \/ c.action \in {"start_feed", "emergency_stop", "resume_all_members"}

SentToMember(device, desired, power) ==
    [device EXCEPT
        !.revision = @ + 1,
        !.enabled  = desired.enabled,
        !.power    = power,
        !.status   = "group_control",
        !.control_mode = "group"]

(* Mutants: the group's power is sent without the member's gain; nothing is *)
(* sent unless forced; a manual override is overwritten.                    *)
SyncWithoutGain(g, desired, targets, force) ==
    [d \in Devices |->
        IF /\ d \in Members[g]
           /\ force \/ deviceStates[d].control_mode # "manual_override"
        THEN SentToMember(deviceStates[d], desired,
                          IF desired.enabled THEN desired.power ELSE 0)
        ELSE deviceStates[d]]

SyncOnlyWhenForced(g, desired, targets, force) ==
    [d \in Devices |->
        IF d \in Members[g] /\ force
        THEN SentToMember(deviceStates[d], desired, targets[d].power)
        ELSE deviceStates[d]]

SyncOverwritesOverride(g, desired, targets, force) ==
    [d \in Devices |->
        IF d \in Members[g]
        THEN SentToMember(deviceStates[d], desired, targets[d].power)
        ELSE deviceStates[d]]

(* _sync_group_devices: a manual override survives unless group control is  *)
(* forced.  The enabled flag is the group's, the power the member's target. *)
SyncGroupDevices(g, desired, targets, force) ==
    [d \in Devices |->
        IF /\ d \in Members[g]
           /\ force \/ deviceStates[d].control_mode # "manual_override"
        THEN SentToMember(deviceStates[d], desired, targets[d].power)
        ELSE deviceStates[d]]

ApplyRejected(g, r, c) ==
    /\ r \notin Remembered(results)
    /\ GroupVerdict(g, c) # Accepted
    /\ results' = Remember(results,
            [request_id |-> r, target |-> g, reason |-> GroupVerdict(g, c),
             revision |-> IF g \in Groups THEN groupStates[g].revision ELSE 0])
    /\ UNCHANGED <<groupStates, deviceStates, deviceResults,
                   dirtyDevices, dirtyGroups, updateEvent, lastPublished>>

ApplyAccepted(g, r, c) ==
    /\ r \notin Remembered(results)
    /\ GroupVerdict(g, c) = Accepted
    /\ groupStates[g].revision < MaxRevision
    /\ \A d \in Members[g] : deviceStates[d].revision < MaxRevision
    /\ LET updated == Commanded(groupStates[g], r, c)
       IN  /\ \E sent, shown \in CalculateTargets(g, updated.desired) :
                /\ deviceStates' = SyncGroupDevices(g, updated.desired, sent,
                                                    ForcesGroupControl(c))
                /\ groupStates' = [groupStates EXCEPT ![g] =
                       RefreshGroupMembers(g, updated, deviceStates', shown,
                                           FALSE)]
           /\ results' = Remember(results,
                  [request_id |-> r, target |-> g, reason |-> Accepted,
                   revision |-> updated.revision])
    /\ UNCHANGED <<deviceResults, dirtyDevices, dirtyGroups,
                   updateEvent, lastPublished>>

-----------------------------------------------------------------------------
(* Device commands: apply_device *)

DeviceControls(d) ==
    IF ObserverMode THEN {}
    ELSE IF DeviceConfig[d].dosing THEN {"status"}
    ELSE {"enabled", "power"}
            \cup (IF GroupsOf(d) # {} THEN {"resume_group"} ELSE {})

(* Mutant: of the locks only the first group's, of the limits none. *)
DeviceVerdictFirstGroup(d, c) ==
    IF d \notin Devices THEN "unknown_device"
    ELSE IF GroupsOf(d) = {}
         THEN IF c.action = "resume_group" THEN "device_is_not_grouped" ELSE Accepted
    ELSE IF groupStates[FirstGroup[d]].status = "emergency_stop"
         THEN "group_emergency_stop_locked"
    ELSE Accepted

DeviceVerdict(d, c) ==
    IF d \notin Devices THEN "unknown_device"
    ELSE IF ObserverMode THEN "observer_mode_read_only"
    ELSE IF \E g \in GroupsOf(d) : groupStates[g].status = "emergency_stop"
         THEN "group_emergency_stop_locked"
    ELSE IF c.action = "resume_group"
         THEN IF "resume_group" \in DeviceControls(d)
              THEN Accepted ELSE "device_is_not_grouped"
    ELSE IF c.enabled # None /\ "enabled" \notin DeviceControls(d)
         THEN "enabled_control_unsupported"
    ELSE IF c.power # None /\ "power" \notin DeviceControls(d)
         THEN "power_control_unsupported"
    ELSE IF c.power # None /\ c.power \notin
                DeviceConfig[d].min_power .. DeviceConfig[d].max_power
         THEN "power_outside_device_limits"
    ELSE Accepted

Resumed(device, r, target) ==
    [device EXCEPT
        !.revision = @ + 1,
        !.enabled  = target.enabled,
        !.power    = target.power,
        !.status   = "group_control",
        !.control_mode = "group",
        !.last_request_id = r]

Overridden(d, r, c) ==
    LET device  == deviceStates[d]
        enabled == Given(c.enabled, device.enabled)
        grouped == GroupsOf(d) # {}
    IN  [device EXCEPT
            !.revision = @ + 1,
            !.enabled  = enabled,
            !.power    = Given(c.power, @),
            !.status   = IF grouped THEN "manual_override"
                         ELSE IF enabled THEN "running" ELSE "stopped",
            !.control_mode = IF grouped THEN "manual_override" ELSE @,
            !.last_request_id = r]

ApplyDeviceRejected(d, r, c) ==
    /\ r \notin Remembered(deviceResults)
    /\ DeviceVerdict(d, c) # Accepted
    /\ deviceResults' = Remember(deviceResults,
            [request_id |-> r, target |-> d, reason |-> DeviceVerdict(d, c),
             revision |-> IF d \in Devices THEN deviceStates[d].revision ELSE 0])
    /\ UNCHANGED <<groupStates, deviceStates, results,
                   dirtyDevices, dirtyGroups, updateEvent, lastPublished>>

(* Mutant: the groups keep showing the member as it was. *)
StoreDeviceOnly(d, r, updated) ==
    /\ deviceStates' = [deviceStates EXCEPT ![d] = updated]
    /\ deviceResults' = Remember(deviceResults,
            [request_id |-> r, target |-> d, reason |-> Accepted,
             revision |-> updated.revision])
    /\ UNCHANGED <<groupStates, results, dirtyDevices, dirtyGroups,
                   updateEvent, lastPublished>>

(* Stores the device, refreshes the members of all its groups and remembers *)
(* the result.                                                              *)
StoreDevice(d, r, updated) ==
    /\ deviceStates' = [deviceStates EXCEPT ![d] = updated]
    /\ \E shown \in TargetsOfEach(GroupsOf(d), groupStates) :
         groupStates' = [g \in Groups |->
            IF g \in GroupsOf(d)
            THEN RefreshGroupMembers(g, groupStates[g], deviceStates',
                                     shown[g], TRUE)
            ELSE groupStates[g]]
    /\ deviceResults' = Remember(deviceResults,
            [request_id |-> r, target |-> d, reason |-> Accepted,
             revision |-> updated.revision])
    /\ UNCHANGED <<results, dirtyDevices, dirtyGroups,
                   updateEvent, lastPublished>>

BelowBound(d) ==
    /\ deviceStates[d].revision < MaxRevision
    /\ \A g \in GroupsOf(d) : groupStates[g].revision < MaxRevision

ApplyDeviceResume(d, r, c) ==
    /\ r \notin Remembered(deviceResults)
    /\ DeviceVerdict(d, c) = Accepted
    /\ c.action = "resume_group"
    /\ BelowBound(d)
    /\ LET g == FirstGroup[d]
       IN  \E targets \in CalculateTargets(g, groupStates[g].desired) :
             StoreDevice(d, r, Resumed(deviceStates[d], r, targets[d]))

ApplyDeviceOverride(d, r, c) ==
    /\ r \notin Remembered(deviceResults)
    /\ DeviceVerdict(d, c) = Accepted
    /\ c.action = None
    /\ BelowBound(d)
    /\ StoreDevice(d, r, Overridden(d, r, c))

-----------------------------------------------------------------------------
(* Observations: record_observer_event *)

(* The part of the handler after the device's own fields were computed:     *)
(* device is the new record but for its revision, semantic tells whether    *)
(* anything but freshness changed, publish whether the device and its       *)
(* groups become dirty; the groups in rebuilt are recomputed from devs.     *)
StoreAndRefresh(d, device, semantic, publish, rebuilt, devs) ==
    /\ semantic => BelowBound(d)
    /\ deviceStates' = [deviceStates EXCEPT ![d] =
            [device EXCEPT !.revision = Bump(@, semantic)]]
    /\ \E shown \in TargetsOfEach(GroupsOf(d), groupStates) :
         groupStates' = [g \in Groups |->
            IF g \in rebuilt
            THEN RefreshGroupObservation(g, groupStates[g], devs,
                                         shown[g], semantic)
            ELSE groupStates[g]]
    /\ dirtyDevices' = IF publish THEN dirtyDevices \cup {d} ELSE dirtyDevices
    /\ dirtyGroups' = IF publish THEN dirtyGroups \cup GroupsOf(d)
                                 ELSE dirtyGroups
    /\ updateEvent' = (updateEvent \/ publish)
    /\ UNCHANGED <<results, deviceResults>>

(* Mutant: the first group alone is rebuilt. *)
StoreObservationFirstGroup(d, device, semantic, refresh, publish) ==
    StoreAndRefresh(d, device, semantic, publish,
                    IF refresh THEN {FirstGroup[d]} ELSE {}, deviceStates')

StoreObservation(d, device, semantic, refresh, publish) ==
    StoreAndRefresh(d, device, semantic, publish,
                    IF refresh THEN GroupsOf(d) ELSE {}, deviceStates')

(* Mutants: a pump that was switched has not changed; a new configuration  *)
(* is no change.                                                            *)
OperationalChangeOfReading(seen, s) ==
    seen.last_seen_at # 0 /\ seen.reading # s.reading

ConfigurationUnwatched(seen, s) == FALSE

OperationalChange(seen, s) ==
    /\ seen.last_seen_at # 0
    /\ <<seen.actual_enabled, seen.reading>> # <<Switch(s.enabled), s.reading>>

ConfigurationChange(seen, s) ==
    /\ seen.last_seen_at # 0
    /\ seen.configuration # s.configuration

(* The observed fields after readout s. *)
Merged(seen, s) ==
    [actual_enabled |-> Switch(s.enabled),
     reading        |-> s.reading,
     configuration  |-> s.configuration,
     online         |-> "true",
     error          |-> s.error,
     last_seen_at   |-> s.observed_at,
     last_changed_at |->
        IF OperationalChange(seen, s) THEN s.observed_at
                                      ELSE seen.last_changed_at,
     last_configuration_changed_at |->
        IF ConfigurationChange(seen, s) THEN s.observed_at
                                        ELSE seen.last_configuration_changed_at]

ReadoutStatus(s) ==
    IF s.error # None THEN "error" ELSE IF s.enabled THEN "running" ELSE "stopped"

(* Mutant: off by one, > for >=. *)
HeartbeatLate(d, time) ==
    lastPublished[d] = 0 \/ time - lastPublished[d] > Heartbeat

HeartbeatDue(d, time) ==
    lastPublished[d] = 0 \/ time - lastPublished[d] >= Heartbeat

(* A successful poll.  A readout that is not newer than the last one is     *)
(* dropped by the early return, so it leaves every variable unchanged.      *)
RecordReadout(d, s) ==
    LET current  == deviceStates[d]
        seen     == current.observed
        semantic == \/ seen.last_seen_at = 0
                    \/ OperationalChange(seen, s)
                    \/ ConfigurationChange(seen, s)
                    \/ <<seen.online, seen.error, current.status>>
                          # <<"true", s.error, ReadoutStatus(s)>>
        publish  == semantic \/ HeartbeatDue(d, s.observed_at)
    IN  /\ s.observed_at > seen.last_seen_at
        /\ StoreObservation(d,
               [current EXCEPT !.observed = Merged(seen, s),
                               !.status   = ReadoutStatus(s)],
               semantic, TRUE, publish)
        /\ lastPublished' = IF publish
                            THEN [lastPublished EXCEPT ![d] = s.observed_at]
                            ELSE lastPublished

(* A report without a state: the identity was not resolved, a connection    *)
(* attempt starts, or the worker lost the device.                           *)
RecordAbsence(d, status, error) ==
    LET current  == deviceStates[d]
        online   == CASE status = "unmapped"   -> Unknown
                      [] status = "connecting" -> current.observed.online
                      [] OTHER                 -> "false"
        semantic == <<current.observed.online, current.observed.error,
                      current.status>> # <<online, error, status>>
    IN  /\ StoreObservation(d,
               [current EXCEPT !.observed = [@ EXCEPT !.online = online,
                                                      !.error  = error],
                               !.status   = status],
               semantic, semantic, semantic)
        /\ UNCHANGED lastPublished

(* wait_for_updates: hands the dirty sets to the publisher. *)
WaitForUpdates ==
    /\ updateEvent
    /\ updateEvent' = FALSE
    /\ dirtyDevices' = {}
    /\ dirtyGroups' = {}
    /\ UNCHANGED <<groupStates, deviceStates, results, deviceResults,
                   lastPublished>>

-----------------------------------------------------------------------------
ApplyGroup(g, r, c) == ApplyRejected(g, r, c) \/ ApplyAccepted(g, r, c)

ApplyDevice(d, r, c) ==
    \/ ApplyDeviceRejected(d, r, c)
    \/ ApplyDeviceResume(d, r, c)
    \/ ApplyDeviceOverride(d, r, c)

(* ObserverEvent as devices/observer.py emits it: connecting carries no     *)
(* error, unmapped and offline always carry one.                            *)
RecordObserverEvent(d) ==
    \/ \E s \in Readouts : RecordReadout(d, s)
    \/ RecordAbsence(d, "connecting", None)
    \/ \E status \in {"unmapped", "offline"}, error \in Errors :
          RecordAbsence(d, status, error)

Next ==
    \/ \E g \in GroupTopics, r \in RequestIds, c \in GroupCommands :
          ApplyGroup(g, r, c)
    \/ \E d \in DeviceTopics, r \in RequestIds, c \in DeviceCommands :
          ApplyDevice(d, r, c)
    \/ \E d \in Reporting : RecordObserverEvent(d)
    \/ WaitForUpdates

Spec == Init /\ [][Next]_vars

-----------------------------------------------------------------------------
(* Invariants *)

(* Type invariant: every payload the service keeps is one its pydantic      *)
(* models accept, a group shows exactly its configured members, control     *)
(* mode never holds an unimplemented pattern (create_pattern would raise),  *)
(* the limits are ordered, and the logs stay within their cap.              *)
TypeOK ==
    /\ groupStates = [g \in Groups |-> groupStates[g]]
    /\ \A g \in Groups :
         /\ groupStates[g] \in GroupState(g)
         /\ ~ObserverMode => groupStates[g].desired.pattern \in SupportedPatterns
         /\ groupStates[g].desired.min_power <= groupStates[g].desired.max_power
    /\ deviceStates \in [Devices -> DeviceState]
    /\ \A d \in Devices :
         (deviceStates[d].control_mode = "standalone") <=> (GroupsOf(d) = {})
    /\ results \in Seq(Result(GroupTopics)) /\ Len(results) <= MaxDedup
    /\ deviceResults \in Seq(Result(DeviceTopics)) /\ Len(deviceResults) <= MaxDedup
    /\ dirtyDevices \in SUBSET Devices
    /\ dirtyGroups \in SUBSET Groups
    /\ updateEvent \in BOOLEAN
    /\ lastPublished \in [Devices -> Times]

=============================================================================
