------------------------ MODULE GroupControlProperties ------------------------
(***************************************************************************)
(* What GroupControlService must keep true: invariants over its stored     *)
(* payloads and action properties of its steps.                            *)
(***************************************************************************)
EXTENDS GroupControl

-----------------------------------------------------------------------------
(* Invariants *)

(* What a group shows of a member's actual state is what the device record  *)
(* holds, and the group's own summary is computed from it, although only    *)
(* observations recompute the summary and commands rebuild the members.     *)
GroupViewCurrent ==
    \A g \in Groups :
      LET state   == groupStates[g]
          members == state.members
      IN  /\ \A d \in Members[g] : members[d].observed = deviceStates[d].observed
          /\ state.actual_enabled = ObservedEnabled(members)
          /\ state.online_member_count = Cardinality(OnlineMembers(members))
          /\ state.last_seen_at =
               Latest({members[d].observed.last_seen_at : d \in Members[g]})
          /\ state.last_changed_at =
               Latest({members[d].observed.last_changed_at : d \in Members[g]})

OnlyGroup(g, d) == GroupsOf(d) = {g}

(* For a device of one group, the group view and the device record agree on *)
(* who controls the device and with what: an override shows the device's    *)
(* own values, and under a constant pattern a group-controlled device was   *)
(* sent exactly the power the group shows, whatever mix of group commands,  *)
(* overrides and resumes came before.                                       *)
MemberViewAgrees ==
    \A g \in Groups : \A d \in Members[g] :
      LET view   == groupStates[g].members[d]
          device == deviceStates[d]
      IN  OnlyGroup(g, d) =>
            /\ view.control_mode = device.control_mode
            /\ device.control_mode = "manual_override" =>
                 view.enabled = device.enabled /\ view.target_power = device.power
            /\ /\ device.control_mode = "group"
               /\ EffectivePattern(groupStates[g].desired) = "constant"
               => view.target_power = device.power

(* "Output passes the group limits": the power last sent to a device its    *)
(* only group controls, and the one the group shows, are zero or within the *)
(* limits now in force, although limits change after the power was sent.    *)
WithinGroupLimits(power, desired) ==
    power = 0 \/ power \in desired.min_power .. desired.max_power

GroupPowersWithinLimits ==
    \A g \in Groups : \A d \in Members[g] :
      OnlyGroup(g, d) /\ deviceStates[d].control_mode = "group" =>
        /\ WithinGroupLimits(deviceStates[d].power, groupStates[g].desired)
        /\ WithinGroupLimits(groupStates[g].members[d].target_power,
                             groupStates[g].desired)

(* While a group is in emergency stop, every device that belongs to it      *)
(* alone is under group control, switched off at power zero: no override,   *)
(* resume or patch slips past the two locks of apply and apply_device.      *)
EmergencyHoldsOwnMembers ==
    \A g \in Groups : groupStates[g].status = "emergency_stop" =>
      /\ ~groupStates[g].desired.enabled
      /\ \A d \in Members[g] : OnlyGroup(g, d) =>
           /\ deviceStates[d].control_mode = "group"
           /\ ~deviceStates[d].enabled
           /\ deviceStates[d].power = 0

(* The same for every member, as docs/home-assistant.md says of emergency   *)
(* stop ("applies to all members"): false when two groups share a device,   *)
(* because apply looks at the status of its own group only.                 *)
EmergencyHoldsEveryMember ==
    \A g \in Groups : groupStates[g].status = "emergency_stop" =>
      \A d \in Members[g] : ~deviceStates[d].enabled

EmergencyStop ==
    [enabled |-> None, pattern |-> None, power |-> None,
     min_power |-> None, max_power |-> None, action |-> "emergency_stop"]

(* A plain emergency stop is refused in one case only: the group was        *)
(* configured enabled with a power outside its limits, which GroupDefaults  *)
(* allows, and no command to it was ever carried out.  The checks on the    *)
(* patched power run before the action switches the group off, so this      *)
(* needs that no command leaves an enabled group outside its limits.        *)
WithinLimits(desired) ==
    desired.enabled => desired.power \in desired.min_power .. desired.max_power

StopRefusedOnlyAsConfigured ==
    \A g \in Groups :
      /\ ~ObserverMode /\ groupStates[g].status # "emergency_stop"
      /\ GroupVerdict(g, EmergencyStop) # Accepted
      => groupStates[g].desired = GroupConfig[g] /\ ~WithinLimits(GroupConfig[g])

(* Equipment outside the groups obeys its own limits, and a dosing pump     *)
(* outside the groups stays as it started: no command reaches it.           *)
StandaloneWithinDeviceLimits ==
    \A d \in Devices : GroupsOf(d) = {} =>
      /\ deviceStates[d].power \in
            DeviceConfig[d].min_power .. DeviceConfig[d].max_power
      /\ DeviceConfig[d].dosing =>
           /\ ~deviceStates[d].enabled
           /\ deviceStates[d].power = DeviceConfig[d].min_power

(* Observer mode is read-only: no history of commands and observations      *)
(* moves a desired value away from its configured one or accepts a request. *)
ObserverModeReadOnly ==
    ObserverMode =>
      /\ \A g \in Groups : groupStates[g].desired = GroupConfig[g]
      /\ \A d \in Devices : deviceStates[d].control_mode # "manual_override"
      /\ \A i \in DOMAIN results : results[i].reason # Accepted
      /\ \A i \in DOMAIN deviceResults : deviceResults[i].reason # Accepted

(* Freshness: the last_seen_at a client can have been sent lags the one the *)
(* service holds by less than one heartbeat.                                *)
PublishedFreshness ==
    \A d \in Devices :
      LET seen == deviceStates[d].observed.last_seen_at
      IN  seen # 0 => /\ lastPublished[d] # 0
                      /\ lastPublished[d] <= seen
                      /\ seen - lastPublished[d] < Heartbeat

(* No lost wake-up: while anything is dirty the publisher's event is set.   *)
NoLostWakeup ==
    dirtyDevices \cup dirtyGroups # {} => updateEvent

(* Remembered results tell the order of a group's changes: later entries    *)
(* carry no smaller revision, an accepted one a larger revision than every  *)
(* earlier entry, and none runs ahead of the state it speaks of.            *)
ResultsOrdered(log, states, known) ==
    \A i \in DOMAIN log : log[i].target \in known =>
      /\ log[i].revision <= states[log[i].target].revision
      /\ \A j \in DOMAIN log : j < i /\ log[j].target = log[i].target =>
           /\ log[j].revision <= log[i].revision
           /\ log[i].reason = Accepted => log[j].revision < log[i].revision

ResultRevisionsOrdered ==
    /\ ResultsOrdered(results, groupStates, Groups)
    /\ ResultsOrdered(deviceResults, deviceStates, Devices)

-----------------------------------------------------------------------------
(* Action properties *)

(* A group's desired values change only on behalf of a request that was not *)
(* remembered: neither a redelivered command nor an observation moves them. *)
DesiredChangesOnlyByFreshRequest ==
    [][\A g \in Groups :
         groupStates'[g].desired # groupStates[g].desired =>
           /\ groupStates'[g].last_request_id \notin Remembered(results)
           /\ groupStates'[g].last_request_id \in Remembered(results')
           /\ groupStates'[g].revision > groupStates[g].revision]_vars

(* A manual override is touched in two ways only: by a command to the       *)
(* device itself, or by a forcing command to one of its groups, which takes *)
(* every member of that group back.  No patch of a pattern, power or limit  *)
(* overwrites it ("docs/home-assistant.md": not overwritten by the pattern).*)
Told(device) == <<device.control_mode, device.enabled, device.power>>

OverrideKept ==
    [][\A d \in Devices :
         /\ deviceStates[d].control_mode = "manual_override"
         /\ Told(deviceStates'[d]) # Told(deviceStates[d])
         => \/ deviceResults' # deviceResults
            \/ \E g \in GroupsOf(d), r \in RequestIds, c \in GroupCommands :
                 /\ ForcesGroupControl(c)
                 /\ ApplyAccepted(g, r, c)
                 /\ \A e \in Members[g] :
                      deviceStates'[e].control_mode = "group"]_vars

(* While any group of a device is in emergency stop, no command to the      *)
(* device takes effect, also when another of its groups is running.         *)
EmergencyLocksDevices ==
    [][\A g \in Groups : groupStates[g].status = "emergency_stop" =>
         \A d \in Members[g] :
           /\ deviceStates'[d].last_request_id = deviceStates[d].last_request_id
           /\ deviceStates'[d].control_mode = "manual_override" =>
                Told(deviceStates'[d]) = Told(deviceStates[d])]_vars

(* Anything a client can see of a device's actual state, except that it was *)
(* seen again, reaches the publisher with its groups: it is dirty and the   *)
(* event is set in the same step, and both revisions grew.                  *)
Visible(observed) == [observed EXCEPT !.last_seen_at = 0]

ObservedChangeIsQueued ==
    [][\A d \in Devices :
         Visible(deviceStates'[d].observed) # Visible(deviceStates[d].observed) =>
           /\ d \in dirtyDevices' /\ GroupsOf(d) \subseteq dirtyGroups'
           /\ updateEvent'
           /\ deviceStates'[d].revision > deviceStates[d].revision
           /\ \A g \in GroupsOf(d) :
                groupStates'[g].revision > groupStates[g].revision]_vars

(* "When it changed" is decided only between two consecutive observations:  *)
(* the first readout is a baseline.  Afterwards the time of the last change *)
(* becomes that of the readout whenever the operating values differ from    *)
(* the readout before, however many absences and commands came between, and *)
(* stays as it is in every other step; so with the configuration.           *)
Stamp(before, after, old, new, differs) ==
    new = IF before.last_seen_at # 0 /\ differs THEN after.last_seen_at ELSE old

ChangeStamped ==
    [][\A d \in Devices :
         LET before == deviceStates[d].observed
             after  == deviceStates'[d].observed
         IN  /\ Stamp(before, after, before.last_changed_at, after.last_changed_at,
                      <<before.actual_enabled, before.reading>> #
                        <<after.actual_enabled, after.reading>>)
             /\ Stamp(before, after, before.last_configuration_changed_at,
                      after.last_configuration_changed_at,
                      before.configuration # after.configuration)]_vars

(* README.md: "emergency stop is never released automatically".  False: an  *)
(* observation overwrites the group status (_refresh_group_observation).    *)
EmergencyReleasedOnlyByRequest ==
    [][\A g \in Groups :
         /\ groupStates[g].status = "emergency_stop"
         /\ groupStates'[g].status # "emergency_stop"
         => groupStates'[g].last_request_id \notin Remembered(results)
              /\ results' # results]_vars

-----------------------------------------------------------------------------
(* Refinement *)

Revision(topic) ==
    IF topic[1] = "group" THEN groupStates[topic[2]].revision
                          ELSE deviceStates[topic[2]].revision

SourceTopics  == ({"group"} \X Groups) \cup ({"device"} \X Devices)
SourceVersion == [t \in SourceTopics |-> Revision(t)]
SourceDirty   == ({"group"} \X dirtyGroups) \cup ({"device"} \X dirtyDevices)

Source ==
    INSTANCE StateSource WITH version    <- SourceVersion,
                              dirty      <- SourceDirty,
                              MaxVersion <- MaxRevision

(* The service keeps what the adapter relies on: every command and every    *)
(* observation raises the revisions of a device together with those of its  *)
(* groups by one, observations announce all of them in the same step, and   *)
(* only wait_for_updates takes the announcement back, all of it at once.    *)
ImplementsSource == Source!SourceSpec

=============================================================================
