----------------------- MODULE GroupControlSafetyProofs -----------------------
(***************************************************************************)
(* The safety properties of GroupControl that hold of every configuration: *)
(* what the two kinds of lock, the limits, the read-only mode and the      *)
(* publisher's queue guarantee, and how the copies a group shows follow    *)
(* its devices.  The lemmas before the theorems say what a step of each    *)
(* kind leaves alone.  At the end: the service implements StateSource.     *)
(***************************************************************************)
EXTENDS GroupControlProofs

-----------------------------------------------------------------------------
(* What steps leave alone *)

(* An observation never touches what a device was told, nor a group's       *)
(* desired values, and never puts a group into emergency stop.              *)
ObservationKeeps ==
    /\ \A d \in Devices :
         /\ Told(deviceStates'[d]) = Told(deviceStates[d])
         /\ deviceStates'[d].last_request_id = deviceStates[d].last_request_id
    /\ \A g \in Groups :
         /\ groupStates'[g].desired = groupStates[g].desired
         /\ groupStates'[g].last_request_id = groupStates[g].last_request_id
         /\ \/ groupStates'[g].status = groupStates[g].status
            \/ groupStates'[g].status # "emergency_stop"
    /\ UNCHANGED <<results, deviceResults>>

LEMMA StoreObservationKeeps ==
    ASSUME TypeOK, NEW d \in Devices, NEW device \in DeviceState,
           Told(device) = Told(deviceStates[d]),
           device.last_request_id = deviceStates[d].last_request_id,
           NEW semantic \in BOOLEAN, NEW refresh \in BOOLEAN, NEW publish \in BOOLEAN,
           StoreObservation(d, device, semantic, refresh, publish)
    PROVE  ObservationKeeps
<1>1. deviceStates' = [deviceStates EXCEPT ![d] =
          [device EXCEPT !.revision = Bump(@, semantic)]]
      /\ UNCHANGED <<results, deviceResults>>
  BY DEF StoreObservation, StoreAndRefresh
<1>2. \A e \in Devices :
         /\ Told(deviceStates'[e]) = Told(deviceStates[e])
         /\ deviceStates'[e].last_request_id = deviceStates[e].last_request_id
  BY <1>1 DEF TypeOK, Told, DeviceState
<1>3. ASSUME NEW g \in Groups
      PROVE  /\ groupStates'[g].desired = groupStates[g].desired
             /\ groupStates'[g].last_request_id = groupStates[g].last_request_id
             /\ \/ groupStates'[g].status = groupStates[g].status
                \/ groupStates'[g].status # "emergency_stop"
  <2>1. PICK shown \in TargetsOfEach(GroupsOf(d), groupStates) :
          groupStates' = [h \in Groups |->
            IF h \in (IF refresh THEN GroupsOf(d) ELSE {})
            THEN RefreshGroupObservation(h, groupStates[h], deviceStates',
                                         shown[h], semantic)
            ELSE groupStates[h]]
    BY DEF StoreObservation, StoreAndRefresh
  <2>2. groupStates[g] \in GroupState(g)
    BY DEF TypeOK
  <2>3. \A members : ObservedStatus(members) # "emergency_stop"
    BY DEF ObservedStatus
  <2> DEFINE after == RefreshGroupObservation(g, groupStates[g], deviceStates',
                                              shown[g], semantic)
  <2>4. /\ after.desired = groupStates[g].desired
        /\ after.last_request_id = groupStates[g].last_request_id
        /\ after.status =
             ObservedStatus(CalculateMembers(g, deviceStates', shown[g]))
    BY <2>2 DEF RefreshGroupObservation, GroupState
  <2>5. groupStates'[g] = after \/ groupStates'[g] = groupStates[g]
    BY <2>1
  <2> HIDE DEF after
  <2> QED
    BY <2>3, <2>4, <2>5
<1> QED
  BY <1>1, <1>2, <1>3 DEF ObservationKeeps

LEMMA ObserverEventKeeps ==
    ASSUME TypeOK, NEW d \in Reporting, RecordObserverEvent(d)
    PROVE  ObservationKeeps
<1>1. d \in Devices /\ deviceStates[d] \in DeviceState
      /\ deviceStates[d].observed \in Observation
  BY TopologyAssumption DEF TypeOK, DeviceState
<1>2. ASSUME NEW s \in Readouts, RecordReadout(d, s)
      PROVE  ObservationKeeps
  <2> DEFINE seen == deviceStates[d].observed
             device == [deviceStates[d] EXCEPT !.observed = Merged(seen, s),
                                               !.status = ReadoutStatus(s)]
  <2>1. Merged(seen, s) \in Observation /\ ReadoutStatus(s) \in DeviceStatuses
    BY <1>1, MergedType DEF ReadoutStatus, DeviceStatuses
  <2>2. device \in DeviceState /\ Told(device) = Told(deviceStates[d])
        /\ device.last_request_id = deviceStates[d].last_request_id
    BY <1>1, <2>1 DEF DeviceState, Told
  <2>3. PICK semantic \in BOOLEAN, publish \in BOOLEAN :
          StoreObservation(d, device, semantic, TRUE, publish)
    BY <1>2 DEF RecordReadout
  <2> HIDE DEF device
  <2> QED
    BY <1>1, <2>2, <2>3, StoreObservationKeeps
<1>3. ASSUME NEW status \in {"connecting", "unmapped", "offline"},
             NEW error \in Errors \cup {None}, RecordAbsence(d, status, error)
      PROVE  ObservationKeeps
  <2> DEFINE online == CASE status = "unmapped"   -> Unknown
                         [] status = "connecting" -> deviceStates[d].observed.online
                         [] OTHER                 -> "false"
             device == [deviceStates[d] EXCEPT
                          !.observed = [@ EXCEPT !.online = online,
                                                 !.error = error],
                          !.status = status]
  <2>1. online \in Ternary
    BY <1>1 DEF Observation, Ternary, Unknown
  <2>2. PICK semantic \in BOOLEAN :
          StoreObservation(d, device, semantic, semantic, semantic)
    BY <1>3 DEF RecordAbsence
  <2> HIDE DEF online
  <2>3. [deviceStates[d].observed EXCEPT !.online = online, !.error = error]
          \in Observation
    BY <1>1, <2>1 DEF Observation
  <2>4. device \in DeviceState /\ Told(device) = Told(deviceStates[d])
        /\ device.last_request_id = deviceStates[d].last_request_id
    BY <1>1, <2>3 DEF DeviceState, DeviceStatuses, Told
  <2> HIDE DEF device
  <2> QED
    BY <1>1, <2>2, <2>4, StoreObservationKeeps
<1> QED
  BY <1>2, <1>3 DEF RecordObserverEvent

(* An accepted group command: the group takes the commanded values, every   *)
(* member it controls is sent them, and nothing else moves.                 *)
LEMMA AcceptedCommand ==
    ASSUME TypeOK, NEW g \in GroupTopics, NEW r \in RequestIds,
           NEW c \in GroupCommandBody, ApplyAccepted(g, r, c)
    PROVE  LET updated == Commanded(groupStates[g], r, c)
           IN  /\ g \in Groups /\ ~ObserverMode /\ GroupOK(g, updated)
               /\ groupStates'[g].desired = updated.desired
               /\ groupStates'[g].status = updated.status
               /\ groupStates'[g].last_request_id = r
               /\ groupStates'[g].revision = groupStates[g].revision + 1
               /\ \A h \in Groups \ {g} : groupStates'[h] = groupStates[h]
               /\ \E sent \in CalculateTargets(g, updated.desired) :
                    \A d \in Devices :
                      IF /\ d \in Members[g]
                         /\ \/ ForcesGroupControl(c)
                            \/ deviceStates[d].control_mode # "manual_override"
                      THEN Told(deviceStates'[d]) =
                             <<"group", updated.desired.enabled, sent[d].power>>
                      ELSE deviceStates'[d] = deviceStates[d]
               /\ \A d \in Devices : deviceStates'[d].last_request_id
                                        = deviceStates[d].last_request_id
               /\ UNCHANGED <<deviceResults, dirtyDevices, dirtyGroups,
                              updateEvent, lastPublished>>
<1> DEFINE updated == Commanded(groupStates[g], r, c)
<1>1. g \in Groups /\ ~ObserverMode
  BY GroupVerdictAccepted DEF ApplyAccepted
<1>2. GroupOK(g, groupStates[g])
  BY <1>1 DEF TypeOK, GroupOK
<1>3. GroupOK(g, updated)
  BY <1>2, CommandedType DEF ApplyAccepted
<1>4. updated.last_request_id = r /\ updated.revision = groupStates[g].revision + 1
  BY <1>2 DEF Commanded, GroupOK, GroupState
<1>5. PICK sent \in CalculateTargets(g, updated.desired),
           shown \in CalculateTargets(g, updated.desired) :
        /\ deviceStates' = SyncGroupDevices(g, updated.desired, sent,
                                            ForcesGroupControl(c))
        /\ groupStates' = [groupStates EXCEPT ![g] =
              RefreshGroupMembers(g, updated, deviceStates', shown, FALSE)]
  BY DEF ApplyAccepted
<1> HIDE DEF updated
<1>6. /\ groupStates'[g] =
           RefreshGroupMembers(g, updated, deviceStates', shown, FALSE)
      /\ \A h \in Groups \ {g} : groupStates'[h] = groupStates[h]
  BY <1>1, <1>5 DEF TypeOK
<1>7. /\ groupStates'[g].desired = updated.desired
      /\ groupStates'[g].status = updated.status
      /\ groupStates'[g].last_request_id = updated.last_request_id
      /\ groupStates'[g].revision = updated.revision
  BY <1>3, <1>6 DEF RefreshGroupMembers, Bump, GroupOK, GroupState
<1>8. ASSUME NEW d \in Devices
      PROVE  /\ IF /\ d \in Members[g]
                   /\ \/ ForcesGroupControl(c)
                      \/ deviceStates[d].control_mode # "manual_override"
                THEN Told(deviceStates'[d]) =
                       <<"group", updated.desired.enabled, sent[d].power>>
                ELSE deviceStates'[d] = deviceStates[d]
             /\ deviceStates'[d].last_request_id = deviceStates[d].last_request_id
  <2>1. deviceStates[d] \in DeviceState
    BY DEF TypeOK
  <2> QED
    BY <1>5, <2>1 DEF SyncGroupDevices, SentToMember, Told, DeviceState
<1>9. UNCHANGED <<deviceResults, dirtyDevices, dirtyGroups,
                  updateEvent, lastPublished>>
  BY DEF ApplyAccepted
<1> QED
  BY <1>1, <1>3, <1>4, <1>5, <1>6, <1>7, <1>8, <1>9 DEF updated

(* An accepted device command touches that device alone, and of its groups  *)
(* only the members and the revision.                                       *)
StoredDevice(d, updated) ==
    /\ deviceStates' = [deviceStates EXCEPT ![d] = updated]
    /\ \A g \in Groups :
         /\ groupStates'[g].desired = groupStates[g].desired
         /\ groupStates'[g].status = groupStates[g].status
         /\ groupStates'[g].last_request_id = groupStates[g].last_request_id
    /\ UNCHANGED <<results, dirtyDevices, dirtyGroups, updateEvent, lastPublished>>

LEMMA StoreDeviceKeeps ==
    ASSUME TypeOK, NEW d, NEW r, NEW updated, StoreDevice(d, r, updated)
    PROVE  StoredDevice(d, updated)
<1>1. PICK shown \in TargetsOfEach(GroupsOf(d), groupStates) :
        groupStates' = [g \in Groups |->
            IF g \in GroupsOf(d)
            THEN RefreshGroupMembers(g, groupStates[g], deviceStates',
                                     shown[g], TRUE)
            ELSE groupStates[g]]
  BY DEF StoreDevice
<1>2. ASSUME NEW g \in Groups
      PROVE  /\ groupStates'[g].desired = groupStates[g].desired
             /\ groupStates'[g].status = groupStates[g].status
             /\ groupStates'[g].last_request_id = groupStates[g].last_request_id
  <2>1. groupStates[g] \in GroupState(g)
    BY DEF TypeOK
  <2> DEFINE after == RefreshGroupMembers(g, groupStates[g], deviceStates',
                                          shown[g], TRUE)
  <2>2. /\ after.desired = groupStates[g].desired
        /\ after.status = groupStates[g].status
        /\ after.last_request_id = groupStates[g].last_request_id
    BY <2>1 DEF RefreshGroupMembers, GroupState
  <2>3. groupStates'[g] = after \/ groupStates'[g] = groupStates[g]
    BY <1>1
  <2> HIDE DEF after
  <2> QED
    BY <2>2, <2>3
<1> QED
  BY <1>2 DEF StoreDevice, StoredDevice

(* Every step is one of four kinds. *)
GroupStep ==
    \E g \in GroupTopics, r \in RequestIds, c \in GroupCommands :
        ApplyAccepted(g, r, c)

DeviceStep ==
    \E d \in DeviceTopics, r \in RequestIds, c \in DeviceCommands :
        ApplyDeviceResume(d, r, c) \/ ApplyDeviceOverride(d, r, c)

LEMMA StepKinds ==
    ASSUME TypeOK, [Next]_vars
    PROVE  \/ UNCHANGED <<groupStates, deviceStates>>
           \/ GroupStep
           \/ DeviceStep
           \/ ObservationKeeps
<1>1. ASSUME NEW d \in Reporting, RecordObserverEvent(d)
      PROVE  ObservationKeeps
  BY <1>1, ObserverEventKeeps
<1> QED
  BY <1>1 DEF Next, ApplyGroup, ApplyDevice, ApplyRejected, ApplyDeviceRejected,
              WaitForUpdates, GroupStep, DeviceStep, vars

(* What a device was told by its own command. *)
LEMMA DeviceCommand ==
    ASSUME TypeOK, NEW d \in DeviceTopics, NEW r \in RequestIds, NEW c,
           ApplyDeviceResume(d, r, c) \/ ApplyDeviceOverride(d, r, c)
    PROVE  /\ d \in Devices /\ ~ObserverMode
           /\ \A g \in GroupsOf(d) : groupStates[g].status # "emergency_stop"
           /\ \E updated :
                /\ StoredDevice(d, updated)
                /\ \/ /\ GroupsOf(d) # {}
                      /\ \E targets \in CalculateTargets(FirstGroup[d],
                                          groupStates[FirstGroup[d]].desired) :
                           updated = Resumed(deviceStates[d], r, targets[d])
                   \/ /\ updated = Overridden(d, r, c)
                      /\ c.enabled = None \/ "enabled" \in DeviceControls(d)
                      /\ c.power = None \/ "power" \in DeviceControls(d)
                      /\ \/ c.power = None
                         \/ c.power \in DeviceConfig[d].min_power
                                          .. DeviceConfig[d].max_power
<1>1. DeviceVerdict(d, c) = Accepted
  BY DEF ApplyDeviceResume, ApplyDeviceOverride
<1>2. CASE ApplyDeviceResume(d, r, c)
  <2>1. c.action = "resume_group"
    BY <1>2 DEF ApplyDeviceResume
  <2>2. GroupsOf(d) # {}
    BY <1>1, <2>1, DeviceVerdictAccepted DEF DeviceControls
  <2>3. PICK targets \in CalculateTargets(FirstGroup[d],
                                          groupStates[FirstGroup[d]].desired) :
          StoreDevice(d, r, Resumed(deviceStates[d], r, targets[d]))
    BY <1>2 DEF ApplyDeviceResume
  <2>4. StoredDevice(d, Resumed(deviceStates[d], r, targets[d]))
    BY <2>3, StoreDeviceKeeps
  <2> QED
    BY <1>1, <2>2, <2>4, DeviceVerdictAccepted
<1>3. CASE ApplyDeviceOverride(d, r, c)
  <2>1. c.action # "resume_group"
    BY <1>3, NoneAssumption DEF ApplyDeviceOverride
  <2>2. StoredDevice(d, Overridden(d, r, c))
    BY <1>3, StoreDeviceKeeps DEF ApplyDeviceOverride
  <2> QED
    BY <1>1, <2>1, <2>2, DeviceVerdictAccepted
<1> QED
  BY <1>2, <1>3

-----------------------------------------------------------------------------
(* Emergency stop *)

LEMMA InitEmergency == Init => EmergencyHoldsOwnMembers
<1> SUFFICES ASSUME Init, NEW g \in Groups
             PROVE  groupStates[g].status # "emergency_stop"
  BY DEF EmergencyHoldsOwnMembers
<1>1. PICK devs, t : groupStates[g] = InitialState(g, devs, t)
  BY DEF Init
<1> QED
  BY <1>1 DEF InitialState

LEMMA GroupStepEmergency ==
    ASSUME TypeOK, EmergencyHoldsOwnMembers, GroupStep
    PROVE  EmergencyHoldsOwnMembers'
<1>1. PICK g \in GroupTopics, r \in RequestIds, c \in GroupCommands :
        ApplyAccepted(g, r, c)
  BY DEF GroupStep
<1> DEFINE updated == Commanded(groupStates[g], r, c)
<1>2. c \in GroupCommandBody
  BY CommandAssumption
<1>3. /\ g \in Groups /\ ~ObserverMode /\ GroupOK(g, updated)
      /\ groupStates'[g].desired = updated.desired
      /\ groupStates'[g].status = updated.status
      /\ \A h \in Groups \ {g} : groupStates'[h] = groupStates[h]
  BY <1>1, <1>2, AcceptedCommand
<1>4. PICK sent \in CalculateTargets(g, updated.desired) :
        \A d \in Devices :
          IF /\ d \in Members[g]
             /\ \/ ForcesGroupControl(c)
                \/ deviceStates[d].control_mode # "manual_override"
          THEN Told(deviceStates'[d]) =
                 <<"group", updated.desired.enabled, sent[d].power>>
          ELSE deviceStates'[d] = deviceStates[d]
  BY <1>1, <1>2, AcceptedCommand
(* Only an emergency stop leaves the commanded group in emergency stop.     *)
<1>5. updated.status = "emergency_stop" =>
        c.action = "emergency_stop" /\ ~updated.desired.enabled
  <2>1. groupStates[g].status = "emergency_stop" => c.action = "clear_emergency"
    BY <1>1, GroupVerdictAccepted DEF ApplyAccepted
  <2>2. groupStates[g] \in GroupState(g)
    BY <1>3 DEF TypeOK
  <2>3. updated.status = CommandedStatus(groupStates[g],
                  Patched(groupStates[g].desired, c).enabled, c)
    BY <2>2 DEF Commanded, GroupState
  <2>4. updated.status = "emergency_stop" => c.action = "emergency_stop"
    BY <2>1, <2>3 DEF CommandedStatus
  <2>5. groupStates[g].desired \in Desired
    BY <2>2 DEF GroupState
  <2>6. Patched(groupStates[g].desired, c) \in Desired
    BY <1>2, <2>5, PatchedType
  <2>7. c.action = "emergency_stop" => ~updated.desired.enabled
    BY <2>2, <2>6 DEF Commanded, GroupState, Desired
  <2> QED
    BY <2>4, <2>7
<1>6. \A d \in Members[g] : ~updated.desired.enabled => sent[d].power = 0
  <2> HIDE DEF updated
  <2>1. updated.desired \in Desired
        /\ updated.desired.min_power <= updated.desired.max_power
    BY <1>3 DEF GroupOK, GroupState
  <2>2. \A d \in Members[g] :
          /\ sent[d].enabled = (updated.desired.enabled /\ MemberConfig[g][d].enabled)
          /\ ~sent[d].enabled => sent[d].power = 0
    BY <1>3, <1>4, <2>1, TargetsType
  <2> QED
    BY <2>2
<1>7. ASSUME NEW h \in Groups, groupStates'[h].status = "emergency_stop"
      PROVE  /\ ~groupStates'[h].desired.enabled
             /\ \A d \in Members[h] : OnlyGroup(h, d) =>
                  /\ deviceStates'[d].control_mode = "group"
                  /\ ~deviceStates'[d].enabled
                  /\ deviceStates'[d].power = 0
  <2> HIDE DEF updated
  <2>1. CASE h = g
    <3>1. c.action = "emergency_stop" /\ ~updated.desired.enabled
      BY <1>3, <1>5, <1>7, <2>1
    <3>2. ForcesGroupControl(c)
      BY <3>1 DEF ForcesGroupControl
    <3>3. ASSUME NEW d \in Members[g]
          PROVE  Told(deviceStates'[d]) = <<"group", updated.desired.enabled, 0>>
      BY <1>3, <1>4, <1>6, <3>1, <3>2, TopologyAssumption
    <3> QED
      BY <1>3, <2>1, <3>1, <3>3 DEF Told
  <2>2. CASE h # g
    <3>1. groupStates'[h] = groupStates[h]
      BY <1>3, <2>2
    <3>2. ASSUME NEW d \in Members[h], OnlyGroup(h, d)
          PROVE  deviceStates'[d] = deviceStates[d]
      <4>1. d \in Devices /\ d \notin Members[g]
        BY <1>3, <2>2, <3>2, TopologyAssumption DEF OnlyGroup, GroupsOf
      <4> QED
        BY <1>4, <4>1
    <3> QED
      BY <1>7, <3>1, <3>2 DEF EmergencyHoldsOwnMembers
  <2> QED
    BY <2>1, <2>2
<1> QED
  BY <1>7 DEF EmergencyHoldsOwnMembers, OnlyGroup, GroupsOf

LEMMA DeviceStepEmergency ==
    ASSUME TypeOK, EmergencyHoldsOwnMembers, DeviceStep
    PROVE  EmergencyHoldsOwnMembers'
<1>1. PICK d \in DeviceTopics, r \in RequestIds, c \in DeviceCommands :
        ApplyDeviceResume(d, r, c) \/ ApplyDeviceOverride(d, r, c)
  BY DEF DeviceStep
<1>2. /\ d \in Devices
      /\ \A g \in GroupsOf(d) : groupStates[g].status # "emergency_stop"
  BY <1>1, DeviceCommand
<1>3. PICK updated : StoredDevice(d, updated)
  BY <1>1, DeviceCommand
<1>4. ASSUME NEW g \in Groups, groupStates'[g].status = "emergency_stop"
      PROVE  /\ groupStates[g].status = "emergency_stop"
             /\ groupStates'[g].desired = groupStates[g].desired
             /\ \A e \in Members[g] : deviceStates'[e] = deviceStates[e]
  <2>1. groupStates[g].status = "emergency_stop"
        /\ groupStates'[g].desired = groupStates[g].desired
    BY <1>3, <1>4 DEF StoredDevice
  <2>2. d \notin Members[g]
    BY <1>2, <2>1 DEF GroupsOf
  <2> QED
    BY <1>3, <2>1, <2>2, TopologyAssumption DEF StoredDevice, TypeOK
<1> QED
  BY <1>4 DEF EmergencyHoldsOwnMembers, OnlyGroup, GroupsOf

LEMMA StepEmergency ==
    TypeOK /\ EmergencyHoldsOwnMembers /\ [Next]_vars => EmergencyHoldsOwnMembers'
<1> SUFFICES ASSUME TypeOK, EmergencyHoldsOwnMembers, [Next]_vars
             PROVE  EmergencyHoldsOwnMembers'
  OBVIOUS
<1>1. CASE UNCHANGED <<groupStates, deviceStates>>
  BY <1>1 DEF EmergencyHoldsOwnMembers, OnlyGroup, GroupsOf
<1>2. CASE ObservationKeeps
  BY <1>2, TopologyAssumption
     DEF ObservationKeeps, EmergencyHoldsOwnMembers, OnlyGroup, GroupsOf, Told
<1> QED
  BY <1>1, <1>2, StepKinds, GroupStepEmergency, DeviceStepEmergency

(* An emergency stop reaches every device that belongs to the group alone,  *)
(* and while the group reports it no command of any kind switches such a    *)
(* device on: the two locks of apply and apply_device leave no gap.         *)
THEOREM EmergencyHolds == Spec => []EmergencyHoldsOwnMembers
BY InitEmergency, StepEmergency, InitType, StepType, PTL DEF Spec

(* While any group of a device is in emergency stop, no step carries out a  *)
(* command to that device: apply_device checks every group, not the first.  *)
THEOREM EmergencyLocks == Spec => EmergencyLocksDevices
<1>1. ASSUME TypeOK, [Next]_vars, NEW g \in Groups,
             groupStates[g].status = "emergency_stop", NEW d \in Members[g]
      PROVE  /\ deviceStates'[d].last_request_id = deviceStates[d].last_request_id
             /\ deviceStates'[d].control_mode = "manual_override" =>
                  Told(deviceStates'[d]) = Told(deviceStates[d])
  <2>1. d \in Devices /\ g \in GroupsOf(d)
    BY <1>1, TopologyAssumption DEF GroupsOf
  <2>2. CASE GroupStep
    <3>1. PICK h \in GroupTopics, r \in RequestIds, c \in GroupCommands :
            ApplyAccepted(h, r, c)
      BY <2>2 DEF GroupStep
    <3>2. c \in GroupCommandBody
      BY CommandAssumption
    <3>3. deviceStates'[d].last_request_id = deviceStates[d].last_request_id
      BY <1>1, <2>1, <3>1, <3>2, AcceptedCommand
    <3>4. Told(deviceStates'[d])[1] = "group" \/ deviceStates'[d] = deviceStates[d]
      BY <1>1, <2>1, <3>1, <3>2, AcceptedCommand
    <3> QED
      BY <3>3, <3>4 DEF Told
  <2>3. CASE DeviceStep
    <3>1. PICK e, updated :
            /\ e \in DeviceTopics
            /\ \A h \in GroupsOf(e) : groupStates[h].status # "emergency_stop"
            /\ StoredDevice(e, updated)
      BY <1>1, <2>3, DeviceCommand DEF DeviceStep
    <3>2. d # e
      BY <1>1, <2>1, <3>1
    <3>3. deviceStates'[d] = deviceStates[d]
      BY <1>1, <2>1, <3>1, <3>2 DEF StoredDevice, TypeOK
    <3> QED
      BY <3>3
  <2>4. CASE ObservationKeeps
    BY <2>1, <2>4 DEF ObservationKeeps
  <2>5. CASE UNCHANGED <<groupStates, deviceStates>>
    BY <2>5
  <2> QED
    BY <1>1, <2>2, <2>3, <2>4, <2>5, StepKinds
<1>2. TypeOK /\ [Next]_vars =>
        [\A g \in Groups : groupStates[g].status = "emergency_stop" =>
           \A d \in Members[g] :
             /\ deviceStates'[d].last_request_id = deviceStates[d].last_request_id
             /\ deviceStates'[d].control_mode = "manual_override" =>
                  Told(deviceStates'[d]) = Told(deviceStates[d])]_vars
  BY <1>1
<1> QED
  BY <1>2, InitType, StepType, PTL DEF Spec, EmergencyLocksDevices

-----------------------------------------------------------------------------
(* Observer mode *)

LEMMA RememberEntries ==
    ASSUME NEW topics, NEW log, Log(log, topics), NEW result \in Result(topics),
           NEW i \in DOMAIN Remember(log, result)
    PROVE  \/ Remember(log, result)[i] = result
           \/ \E j \in DOMAIN log : Remember(log, result)[i] = log[j]
<1>1. CASE Len(log) < MaxDedup
  <2>1. Remember(log, result) = Append(log, result)
    BY <1>1 DEF Remember
  <2> QED
    BY <2>1 DEF Log
<1>2. CASE ~(Len(log) < MaxDedup)
  <2>1. Remember(log, result) = Append(Tail(log), result)
    BY <1>2 DEF Remember
  <2>2. log \in Seq(Result(topics)) /\ log # <<>>
    BY <1>2, BoundsAssumption DEF Log
  <2>3. Tail(log) \in Seq(Result(topics)) /\ Len(Tail(log)) = Len(log) - 1
        /\ \A k \in 1 .. Len(Tail(log)) : Tail(log)[k] = log[k + 1]
    BY <2>2
  <2>4. i = Len(log) \/ i \in 1 .. Len(log) - 1
    BY <2>1, <2>2, <2>3
  <2>5. CASE i = Len(log)
    BY <2>1, <2>2, <2>3, <2>5
  <2>6. CASE i \in 1 .. Len(log) - 1
    <3>1. Remember(log, result)[i] = log[i + 1] /\ i + 1 \in DOMAIN log
      BY <2>1, <2>2, <2>3, <2>6
    <3> QED
      BY <3>1
  <2> QED
    BY <2>4, <2>5, <2>6
<1> QED
  BY <1>1, <1>2

LEMMA StepReadOnly ==
    TypeOK /\ ObserverModeReadOnly /\ [Next]_vars => ObserverModeReadOnly'
<1> SUFFICES ASSUME TypeOK, ObserverModeReadOnly, [Next]_vars, ObserverMode
             PROVE  ObserverModeReadOnly'
  BY DEF ObserverModeReadOnly
<1>1. ~GroupStep /\ ~DeviceStep
  BY GroupVerdictAccepted, DeviceVerdictAccepted
     DEF GroupStep, DeviceStep, ApplyAccepted, ApplyDeviceResume, ApplyDeviceOverride
<1>2. /\ \A g \in Groups : groupStates'[g].desired = GroupConfig[g]
      /\ \A d \in Devices : deviceStates'[d].control_mode # "manual_override"
  BY <1>1, StepKinds DEF ObserverModeReadOnly, ObservationKeeps, Told
<1>3. \/ UNCHANGED <<results, deviceResults>>
      \/ \E g \in GroupTopics, r \in RequestIds, c \in GroupCommands :
           ApplyRejected(g, r, c)
      \/ \E d \in DeviceTopics, r \in RequestIds, c \in DeviceCommands :
           ApplyDeviceRejected(d, r, c)
  BY <1>1, ObserverEventKeeps
     DEF Next, vars, ApplyGroup, ApplyDevice, GroupStep, DeviceStep,
         ObservationKeeps, WaitForUpdates
<1>4. Log(results, GroupTopics) /\ Log(deviceResults, DeviceTopics)
  BY TypeParts DEF LogsOK
<1>5. Log(results', GroupTopics) /\ Log(deviceResults', DeviceTopics)
  BY StepType DEF TypeOK, Log
<1>6. \A i \in DOMAIN results' : results'[i].reason # Accepted
  <2>1. CASE UNCHANGED results
    BY <2>1 DEF ObserverModeReadOnly
  <2>2. ASSUME NEW g \in GroupTopics, NEW r \in RequestIds, NEW c \in GroupCommands,
               ApplyRejected(g, r, c)
        PROVE  \A i \in DOMAIN results' : results'[i].reason # Accepted
    <3> DEFINE revision == IF g \in Groups THEN groupStates[g].revision ELSE 0
               result == [request_id |-> r, target |-> g,
                          reason |-> GroupVerdict(g, c), revision |-> revision]
    <3>1. revision \in Revisions
      BY BoundsAssumption DEF TypeOK, GroupState, Revisions
    <3>2. result \in Result(GroupTopics) /\ result.reason # Accepted
      <4> HIDE DEF revision
      <4> QED
        BY <2>2, <3>1, GroupVerdictType DEF Result, ApplyRejected
    <3>3. results' = Remember(results, result)
      BY <2>2 DEF ApplyRejected
    <3> HIDE DEF result
    <3> QED
      BY <1>4, <3>2, <3>3, RememberEntries DEF ObserverModeReadOnly
  <2> QED
    BY <1>3, <2>1, <2>2 DEF ApplyDeviceRejected
<1>7. \A i \in DOMAIN deviceResults' : deviceResults'[i].reason # Accepted
  <2>1. CASE UNCHANGED deviceResults
    BY <2>1 DEF ObserverModeReadOnly
  <2>2. ASSUME NEW d \in DeviceTopics, NEW r \in RequestIds,
               NEW c \in DeviceCommands, ApplyDeviceRejected(d, r, c)
        PROVE  \A i \in DOMAIN deviceResults' : deviceResults'[i].reason # Accepted
    <3> DEFINE revision == IF d \in Devices THEN deviceStates[d].revision ELSE 0
               result == [request_id |-> r, target |-> d,
                          reason |-> DeviceVerdict(d, c), revision |-> revision]
    <3>1. revision \in Revisions
      BY BoundsAssumption DEF TypeOK, DeviceState, Revisions
    <3>2. result \in Result(DeviceTopics) /\ result.reason # Accepted
      <4> HIDE DEF revision
      <4> QED
        BY <2>2, <3>1, DeviceVerdictType DEF Result, ApplyDeviceRejected
    <3>3. deviceResults' = Remember(deviceResults, result)
      BY <2>2 DEF ApplyDeviceRejected
    <3> HIDE DEF result
    <3> QED
      BY <1>4, <3>2, <3>3, RememberEntries DEF ObserverModeReadOnly
  <2> QED
    BY <1>3, <2>1, <2>2 DEF ApplyRejected
<1> QED
  BY <1>2, <1>6, <1>7 DEF ObserverModeReadOnly

LEMMA InitReadOnly == Init => ObserverModeReadOnly
<1> SUFFICES ASSUME Init
             PROVE  /\ \A g \in Groups : groupStates[g].desired = GroupConfig[g]
                    /\ \A d \in Devices :
                         deviceStates[d].control_mode # "manual_override"
                    /\ results = <<>> /\ deviceResults = <<>>
  BY DEF ObserverModeReadOnly
<1>1. PICK first, second :
        /\ deviceStates = [d \in Devices |-> InitialDeviceState(d, first)]
        /\ groupStates = [g \in Groups |-> InitialState(g, deviceStates, second[g])]
  BY DEF Init
<1> QED
  BY <1>1 DEF Init, InitialDeviceState, InitialState

(* In observer mode no request is ever accepted and no desired value leaves *)
(* its configured one.                                                      *)
THEOREM ReadOnly == Spec => []ObserverModeReadOnly
BY InitReadOnly, StepReadOnly, InitType, StepType, PTL DEF Spec

-----------------------------------------------------------------------------
(* The publisher's queue and freshness *)

(* asyncio.Event and the two dirty sets never drift apart: an observation   *)
(* that arrives while the publisher works is published without another one. *)
THEOREM Wakeup == Spec => []NoLostWakeup
<1>1. Init => NoLostWakeup
  BY DEF Init, NoLostWakeup
<1>2. ASSUME NoLostWakeup, [Next]_vars
      PROVE  NoLostWakeup'
  <2>1. ASSUME NEW d \in Reporting, RecordObserverEvent(d)
        PROVE  NoLostWakeup'
    <3>1. PICK device, semantic, refresh, publish :
            StoreObservation(d, device, semantic, refresh, publish)
      BY <2>1 DEF RecordObserverEvent, RecordReadout, RecordAbsence
    <3>2. CASE publish
      BY <3>1, <3>2 DEF StoreObservation, StoreAndRefresh, NoLostWakeup
    <3>3. CASE ~publish
      <4>1. dirtyDevices' = dirtyDevices /\ dirtyGroups' = dirtyGroups
            /\ (updateEvent => updateEvent')
        BY <3>1, <3>3 DEF StoreObservation, StoreAndRefresh
      <4> QED
        BY <1>2, <4>1 DEF NoLostWakeup
    <3> QED
      BY <3>2, <3>3
  <2>2. CASE UNCHANGED <<dirtyDevices, dirtyGroups, updateEvent>>
    BY <1>2, <2>2 DEF NoLostWakeup
  <2>3. CASE WaitForUpdates
    BY <2>3 DEF WaitForUpdates, NoLostWakeup
  <2>4. ASSUME NEW g, NEW r, NEW c, ApplyGroup(g, r, c)
        PROVE  UNCHANGED <<dirtyDevices, dirtyGroups, updateEvent>>
    BY <2>4 DEF ApplyGroup, ApplyRejected, ApplyAccepted
  <2>5. ASSUME NEW d, NEW r, NEW c, ApplyDevice(d, r, c)
        PROVE  UNCHANGED <<dirtyDevices, dirtyGroups, updateEvent>>
    <3>1. ASSUME NEW updated, StoreDevice(d, r, updated)
          PROVE  UNCHANGED <<dirtyDevices, dirtyGroups, updateEvent>>
      BY <3>1 DEF StoreDevice
    <3> QED
      BY <2>5, <3>1 DEF ApplyDevice, ApplyDeviceRejected, ApplyDeviceResume,
                        ApplyDeviceOverride
  <2> QED
    BY <1>2, <2>1, <2>2, <2>3, <2>4, <2>5 DEF Next, vars
<1> QED
  BY <1>1, <1>2, PTL DEF Spec

LEMMA CommandsKeepObserved ==
    ASSUME TypeOK, GroupStep \/ DeviceStep
    PROVE  /\ \A d \in Devices : deviceStates'[d].observed = deviceStates[d].observed
           /\ UNCHANGED <<dirtyDevices, dirtyGroups, updateEvent, lastPublished>>
<1>1. CASE GroupStep
  <2>1. PICK g \in GroupTopics, r \in RequestIds, c \in GroupCommands :
          ApplyAccepted(g, r, c)
    BY <1>1 DEF GroupStep
  <2>2. PICK desired, sent, force :
          deviceStates' = SyncGroupDevices(g, desired, sent, force)
    BY <2>1 DEF ApplyAccepted
  <2>3. ASSUME NEW d \in Devices
        PROVE  deviceStates'[d].observed = deviceStates[d].observed
    <3>1. deviceStates[d] \in DeviceState
      BY DEF TypeOK
    <3> QED
      BY <2>2, <3>1 DEF SyncGroupDevices, SentToMember, DeviceState
  <2> QED
    BY <2>1, <2>3 DEF ApplyAccepted
<1>2. CASE DeviceStep
  <2>1. PICK d \in DeviceTopics, r \in RequestIds, c \in DeviceCommands :
          ApplyDeviceResume(d, r, c) \/ ApplyDeviceOverride(d, r, c)
    BY <1>2 DEF DeviceStep
  <2>2. d \in Devices /\ deviceStates[d] \in DeviceState
    BY <2>1, DeviceCommand DEF TypeOK
  <2>3. PICK updated :
          /\ StoredDevice(d, updated)
          /\ \/ \E target : updated = Resumed(deviceStates[d], r, target)
             \/ updated = Overridden(d, r, c)
    BY <2>1, DeviceCommand
  <2>4. updated.observed = deviceStates[d].observed
    BY <2>2, <2>3 DEF Resumed, Overridden, DeviceState
  <2> QED
    BY <2>2, <2>3, <2>4 DEF StoredDevice, TypeOK
<1> QED
  BY <1>1, <1>2

Fresh(d) ==
    LET seen == deviceStates[d].observed.last_seen_at
    IN  seen # 0 => /\ lastPublished[d] # 0
                    /\ lastPublished[d] <= seen
                    /\ seen - lastPublished[d] < Heartbeat

LEMMA ReadoutFresh ==
    ASSUME TypeOK, NEW d \in Devices, Fresh(d), NEW s \in Readouts,
           RecordReadout(d, s)
    PROVE  /\ Fresh(d)'
           /\ \A e \in Devices \ {d} :
                deviceStates'[e] = deviceStates[e] /\ lastPublished'[e] = lastPublished[e]
<1> DEFINE seen == deviceStates[d].observed
           device == [deviceStates[d] EXCEPT !.observed = Merged(seen, s),
                                             !.status = ReadoutStatus(s)]
           semantic == \/ seen.last_seen_at = 0
                       \/ OperationalChange(seen, s)
                       \/ ConfigurationChange(seen, s)
                       \/ <<seen.online, seen.error, deviceStates[d].status>>
                            # <<"true", s.error, ReadoutStatus(s)>>
           publish == semantic \/ HeartbeatDue(d, s.observed_at)
<1>1. /\ StoreObservation(d, device, semantic, TRUE, publish)
      /\ lastPublished' = IF publish
                          THEN [lastPublished EXCEPT ![d] = s.observed_at]
                          ELSE lastPublished
      /\ s.observed_at > seen.last_seen_at
  BY DEF RecordReadout
<1>2. deviceStates[d] \in DeviceState /\ lastPublished[d] \in Nat
      /\ seen \in Observation /\ seen.last_seen_at \in Nat
  BY BoundsAssumption DEF TypeOK, DeviceState, Observation, Times
<1>3. s.observed_at \in Nat /\ s.observed_at # 0
  BY BoundsAssumption DEF Readouts
<1>4. seen.last_seen_at = 0 => publish
  OBVIOUS
<1>5. ~publish => ~HeartbeatDue(d, s.observed_at)
  OBVIOUS
<1> HIDE DEF semantic, publish
<1>6. deviceStates' = [deviceStates EXCEPT ![d] =
          [device EXCEPT !.revision = Bump(@, semantic)]]
  BY <1>1 DEF StoreObservation, StoreAndRefresh
<1>7. deviceStates'[d].observed = Merged(seen, s)
  BY <1>2, <1>6 DEF TypeOK, DeviceState
<1>8. deviceStates'[d].observed.last_seen_at = s.observed_at
  BY <1>7 DEF Merged
<1>9. CASE publish
  <2>1. lastPublished'[d] = s.observed_at
    BY <1>1, <1>9 DEF TypeOK
  <2> QED
    BY <1>1, <1>3, <1>6, <1>8, <1>9, <2>1, BoundsAssumption DEF Fresh, TypeOK
<1>10. CASE ~publish
  <2>1. /\ lastPublished[d] # 0 /\ lastPublished[d] <= seen.last_seen_at
        /\ s.observed_at - lastPublished[d] < Heartbeat
    BY <1>2, <1>3, <1>4, <1>5, <1>10, BoundsAssumption DEF Fresh, HeartbeatDue
  <2> QED
    BY <1>1, <1>2, <1>3, <1>6, <1>8, <1>10, <2>1, BoundsAssumption DEF Fresh, TypeOK
<1> QED
  BY <1>9, <1>10

LEMMA AbsenceFresh ==
    ASSUME TypeOK, NEW d \in Devices, NEW status, NEW error,
           RecordAbsence(d, status, error)
    PROVE  /\ \A e \in Devices : deviceStates'[e].observed.last_seen_at
                                   = deviceStates[e].observed.last_seen_at
           /\ UNCHANGED lastPublished
<1> DEFINE online == CASE status = "unmapped"   -> Unknown
                       [] status = "connecting" -> deviceStates[d].observed.online
                       [] OTHER                 -> "false"
           device == [deviceStates[d] EXCEPT
                        !.observed = [@ EXCEPT !.online = online, !.error = error],
                        !.status = status]
<1>1. PICK semantic : StoreObservation(d, device, semantic, semantic, semantic)
  BY DEF RecordAbsence
<1>2. deviceStates[d] \in DeviceState /\ deviceStates[d].observed \in Observation
  BY DEF TypeOK, DeviceState
<1> HIDE DEF online
<1>3. device.observed.last_seen_at = deviceStates[d].observed.last_seen_at
  BY <1>2 DEF DeviceState, Observation
<1>4. [device EXCEPT !.revision = Bump(@, semantic)].observed = device.observed
  BY <1>2 DEF DeviceState
<1> HIDE DEF device
<1>5. deviceStates' = [deviceStates EXCEPT ![d] =
          [device EXCEPT !.revision = Bump(@, semantic)]]
  BY <1>1 DEF StoreObservation, StoreAndRefresh
<1> QED
  BY <1>3, <1>4, <1>5 DEF TypeOK, RecordAbsence

(* The last_seen_at that went out to the broker lags the real one by less   *)
(* than publish_heartbeat_seconds, for every heartbeat and every sequence   *)
(* of readouts, absences and commands.                                      *)
THEOREM Freshness == Spec => []PublishedFreshness
<1>1. PublishedFreshness <=> \A d \in Devices : Fresh(d)
  BY DEF PublishedFreshness, Fresh
<1>2. Init => PublishedFreshness
  <2> SUFFICES ASSUME Init, NEW d \in Devices
               PROVE  deviceStates[d].observed.last_seen_at = 0
    BY DEF PublishedFreshness
  <2>1. PICK targets : deviceStates = [e \in Devices |-> InitialDeviceState(e, targets)]
    BY DEF Init
  <2> QED
    BY <2>1 DEF InitialDeviceState, Unobserved
<1>3. ASSUME TypeOK, PublishedFreshness, [Next]_vars
      PROVE  PublishedFreshness'
  <2> SUFFICES ASSUME NEW d \in Devices PROVE Fresh(d)'
    BY DEF PublishedFreshness, Fresh
  <2>1. Fresh(d)
    BY <1>1, <1>3
  <2>2. CASE GroupStep \/ DeviceStep
    BY <1>3, <2>1, <2>2, CommandsKeepObserved DEF Fresh
  <2>3. ASSUME NEW e \in Reporting, RecordObserverEvent(e)
        PROVE  Fresh(d)'
    <3>1. e \in Devices
      BY TopologyAssumption
    <3>2. CASE \E s \in Readouts : RecordReadout(e, s)
      <4>1. Fresh(e)
        BY <1>1, <1>3, <3>1
      <4> QED
        BY <1>3, <2>1, <3>1, <3>2, <4>1, ReadoutFresh DEF Fresh
    <3>3. CASE \E status, error : RecordAbsence(e, status, error)
      BY <1>3, <2>1, <3>1, <3>3, AbsenceFresh DEF Fresh
    <3> QED
      BY <2>3, <3>2, <3>3 DEF RecordObserverEvent
  <2>4. CASE UNCHANGED <<deviceStates, lastPublished>>
    BY <2>1, <2>4 DEF Fresh
  <2> QED
    BY <1>3, <2>2, <2>3, <2>4
       DEF Next, vars, ApplyGroup, ApplyDevice, ApplyRejected, ApplyDeviceRejected,
           WaitForUpdates, GroupStep, DeviceStep
<1> QED
  BY <1>2, <1>3, InitType, StepType, PTL DEF Spec

-----------------------------------------------------------------------------
(* Limits *)

(* Equipment outside the groups: apply_device is its only source of values. *)
Standalone(d, device) ==
    /\ device.power \in DeviceConfig[d].min_power .. DeviceConfig[d].max_power
    /\ DeviceConfig[d].dosing =>
         ~device.enabled /\ device.power = DeviceConfig[d].min_power

LEMMA StepStandalone ==
    ASSUME TypeOK, [Next]_vars, NEW d \in Devices, GroupsOf(d) = {},
           Standalone(d, deviceStates[d])
    PROVE  Standalone(d, deviceStates'[d])
<1>1. deviceStates[d] \in DeviceState
  BY DEF TypeOK
<1>2. CASE GroupStep
  <2>1. PICK g \in GroupTopics, r \in RequestIds, c \in GroupCommands :
          ApplyAccepted(g, r, c)
    BY <1>2 DEF GroupStep
  <2>2. c \in GroupCommandBody /\ g \in Groups
    BY <2>1, CommandAssumption, AcceptedCommand
  <2>3. d \notin Members[g]
    BY <2>2 DEF GroupsOf
  <2> QED
    BY <2>1, <2>2, <2>3, AcceptedCommand
<1>3. CASE DeviceStep
  <2>1. PICK e \in DeviceTopics, r \in RequestIds, c \in DeviceCommands :
          ApplyDeviceResume(e, r, c) \/ ApplyDeviceOverride(e, r, c)
    BY <1>3 DEF DeviceStep
  <2>2. PICK updated :
          /\ StoredDevice(e, updated)
          /\ \/ GroupsOf(e) # {}
             \/ /\ updated = Overridden(e, r, c)
                /\ c.enabled = None \/ "enabled" \in DeviceControls(e)
                /\ c.power = None \/ "power" \in DeviceControls(e)
                /\ \/ c.power = None
                   \/ c.power \in DeviceConfig[e].min_power
                                    .. DeviceConfig[e].max_power
    BY <2>1, DeviceCommand
  <2>3. CASE e = d
    <3>1. /\ updated.power = Given(c.power, deviceStates[d].power)
          /\ updated.enabled = Given(c.enabled, deviceStates[d].enabled)
      BY <1>1, <2>2, <2>3 DEF Overridden, DeviceState
    <3>2. DeviceConfig[d].dosing => c.enabled = None /\ c.power = None
      BY <2>2, <2>3 DEF DeviceControls
    <3>3. deviceStates'[d] = updated
      BY <2>2, <2>3 DEF StoredDevice, TypeOK
    <3> QED
      BY <2>2, <2>3, <3>1, <3>2, <3>3 DEF Standalone, Given
  <2>4. CASE e # d
    BY <2>2, <2>4 DEF StoredDevice, TypeOK
  <2> QED
    BY <2>3, <2>4
<1>4. CASE ObservationKeeps
  BY <1>4 DEF ObservationKeeps, Told, Standalone
<1>5. CASE UNCHANGED <<groupStates, deviceStates>>
  BY <1>5
<1> QED
  BY <1>2, <1>3, <1>4, <1>5, StepKinds

(* Power outside the limits of an ungrouped device is never accepted, and a *)
(* dosing pump that no group holds is never switched by this service.       *)
THEOREM StandaloneLimits == Spec => []StandaloneWithinDeviceLimits
<1>1. StandaloneWithinDeviceLimits <=>
        \A d \in Devices : GroupsOf(d) = {} => Standalone(d, deviceStates[d])
  BY DEF StandaloneWithinDeviceLimits, Standalone
<1>2. Init => StandaloneWithinDeviceLimits
  <2> SUFFICES ASSUME Init, NEW d \in Devices, GroupsOf(d) = {}
               PROVE  Standalone(d, deviceStates[d])
    BY <1>1
  <2>1. PICK targets : deviceStates = [e \in Devices |-> InitialDeviceState(e, targets)]
    BY DEF Init
  <2>2. /\ DeviceConfig[d].min_power \in 0 .. MaxPower
        /\ DeviceConfig[d].max_power \in 0 .. MaxPower
        /\ DeviceConfig[d].min_power <= DeviceConfig[d].max_power
    BY ConfigAssumption DEF Powers
  <2>3. deviceStates[d].power = DeviceConfig[d].min_power /\ ~deviceStates[d].enabled
    BY <2>1 DEF InitialDeviceState
  <2> QED
    BY <2>2, <2>3, BoundsAssumption DEF Standalone
<1>3. ASSUME TypeOK, StandaloneWithinDeviceLimits, [Next]_vars
      PROVE  StandaloneWithinDeviceLimits'
  <2>1. \A d \in Devices : GroupsOf(d) = {} => Standalone(d, deviceStates'[d])
    BY <1>1, <1>3, StepStandalone
  <2> QED
    BY <2>1 DEF StandaloneWithinDeviceLimits, Standalone, GroupsOf
<1> QED
  BY <1>2, <1>3, InitType, StepType, PTL DEF Spec

(* A group holds what it was configured with, or a power within its limits. *)
Bounded(g) ==
    groupStates[g].desired = GroupConfig[g] \/ WithinLimits(groupStates[g].desired)

LEMMA StepWithinLimits ==
    ASSUME TypeOK, [Next]_vars, NEW g \in Groups
    PROVE  \/ groupStates'[g].desired = groupStates[g].desired
           \/ WithinLimits(groupStates'[g].desired)
<1>1. CASE GroupStep
  <2>1. PICK h \in GroupTopics, r \in RequestIds, c \in GroupCommands :
          ApplyAccepted(h, r, c)
    BY <1>1 DEF GroupStep
  <2>2. c \in GroupCommandBody
    BY CommandAssumption
  <2>3. CASE g = h
    <3> DEFINE asked == Patched(groupStates[g].desired, c)
    <3>1. groupStates[g] \in GroupState(g) /\ groupStates[g].desired \in Desired
      BY DEF TypeOK, GroupState
    <3>2. asked \in Desired
      BY <2>2, <3>1, PatchedType
    <3>3. WithinLimits(asked)
      BY <2>1, <2>3, GroupVerdictAccepted DEF ApplyAccepted, WithinLimits
    <3> HIDE DEF asked
    <3>4. [asked EXCEPT !.enabled = @ /\ c.action # "emergency_stop"].enabled
             => asked.enabled
      BY <3>2 DEF Desired
    <3>5. WithinLimits([asked EXCEPT !.enabled =
                                  @ /\ c.action # "emergency_stop"])
      BY <3>2, <3>3, <3>4 DEF WithinLimits, Desired
    <3>6. Commanded(groupStates[g], r, c).desired =
            [asked EXCEPT !.enabled = @ /\ c.action # "emergency_stop"]
      BY <3>1 DEF Commanded, GroupState, asked
    <3>7. groupStates'[g].desired = Commanded(groupStates[g], r, c).desired
      BY <2>1, <2>2, <2>3, AcceptedCommand
    <3> QED
      BY <3>5, <3>6, <3>7
  <2>4. CASE g # h
    BY <2>1, <2>2, <2>4, AcceptedCommand
  <2> QED
    BY <2>3, <2>4
<1>2. CASE DeviceStep
  <2>1. PICK d, updated : d \in DeviceTopics /\ StoredDevice(d, updated)
    BY <1>2, DeviceCommand DEF DeviceStep
  <2> QED
    BY <2>1 DEF StoredDevice
<1>3. CASE ObservationKeeps
  BY <1>3 DEF ObservationKeeps
<1>4. CASE UNCHANGED <<groupStates, deviceStates>>
  BY <1>4
<1> QED
  BY <1>1, <1>2, <1>3, <1>4, StepKinds

(* A plain emergency stop is refused only to a group that still holds what  *)
(* it was configured with, a power outside its limits: from the first       *)
(* command that is carried out on, the order of the checks in apply does no *)
(* harm, for every configuration the validators let through.                *)
THEOREM StopRefused == Spec => []StopRefusedOnlyAsConfigured
<1> DEFINE Inv == \A g \in Groups : Bounded(g)
<1>1. Init => Inv
  <2> SUFFICES ASSUME Init, NEW g \in Groups
               PROVE  groupStates[g].desired = GroupConfig[g]
    BY DEF Bounded
  <2>1. PICK devs, t : groupStates[g] = InitialState(g, devs, t)
    BY DEF Init
  <2> QED
    BY <2>1 DEF InitialState
<1>2. TypeOK /\ Inv /\ [Next]_vars => Inv'
  BY StepWithinLimits DEF Bounded
<1>3. ASSUME TypeOK, Inv
      PROVE  StopRefusedOnlyAsConfigured
  <2> SUFFICES ASSUME NEW g \in Groups, ~ObserverMode,
                      groupStates[g].status # "emergency_stop",
                      WithinLimits(groupStates[g].desired)
               PROVE  GroupVerdict(g, EmergencyStop) = Accepted
    BY <1>3 DEF StopRefusedOnlyAsConfigured, Bounded
  <2>1. groupStates[g].desired \in Desired
        /\ groupStates[g].desired.min_power <= groupStates[g].desired.max_power
    BY <1>3 DEF TypeOK, GroupState
  <2>2. Patched(groupStates[g].desired, EmergencyStop) = groupStates[g].desired
    BY <2>1 DEF Patched, EmergencyStop, Given, Desired
  <2>3. ~(groupStates[g].desired.min_power > groupStates[g].desired.max_power)
    BY <2>1, BoundsAssumption DEF Desired, Powers
  <2>4. ~(groupStates[g].desired.enabled
          /\ groupStates[g].desired.power \notin
               groupStates[g].desired.min_power .. groupStates[g].desired.max_power)
    BY DEF WithinLimits
  <2>5. EmergencyStop.pattern = None
    BY DEF EmergencyStop
  <2> QED
    BY <2>2, <2>3, <2>4, <2>5 DEF GroupVerdict
<1> QED
  BY <1>1, <1>2, <1>3, InitType, StepType, PTL DEF Spec

(* What a group shows of a member it controls is a target of its own.       *)
LEMMA ViewWithin ==
    ASSUME NEW g \in Groups, NEW desired \in Desired,
           desired.min_power <= desired.max_power, NEW devs,
           NEW t \in CalculateTargets(g, desired), NEW d \in Members[g]
    PROVE  /\ WithinGroupLimits(t[d].power, desired)
           /\ devs[d].control_mode = "group" =>
                WithinGroupLimits(CalculateMembers(g, devs, t)[d].target_power,
                                  desired)
<1>1. WithinGroupLimits(t[d].power, desired)
  <2>1. t[d].enabled \in BOOLEAN
    BY TargetsType DEF Targets
  <2> QED
    BY <2>1, TargetsType DEF WithinGroupLimits
<1> QED
  BY <1>1 DEF CalculateMembers

PowersWithin(g, d) ==
    /\ WithinGroupLimits(deviceStates[d].power, groupStates[g].desired)
    /\ WithinGroupLimits(groupStates[g].members[d].target_power,
                         groupStates[g].desired)

Controlled(g, d) == OnlyGroup(g, d) /\ deviceStates[d].control_mode = "group"

LEMMA OnlyGroupFirst ==
    ASSUME NEW g \in Groups, NEW d \in Members[g], OnlyGroup(g, d)
    PROVE  /\ d \in Devices /\ FirstGroup[d] = g
           /\ \A h \in Groups : d \in Members[h] => h = g
BY TopologyAssumption DEF OnlyGroup, GroupsOf

LEMMA GroupStepPowers ==
    ASSUME TypeOK, GroupStep, NEW g \in Groups, NEW d \in Members[g],
           Controlled(g, d) => PowersWithin(g, d), Controlled(g, d)'
    PROVE  PowersWithin(g, d)'
<1>1. PICK h \in GroupTopics, r \in RequestIds, c \in GroupCommands :
        ApplyAccepted(h, r, c)
  BY DEF GroupStep
<1> DEFINE updated == Commanded(groupStates[h], r, c)
<1>2. c \in GroupCommandBody
  BY CommandAssumption
<1>3. h \in Groups /\ GroupOK(h, updated)
  BY <1>1, <1>2, AcceptedCommand
<1>4. PICK sent \in CalculateTargets(h, updated.desired),
           shown \in CalculateTargets(h, updated.desired) :
        /\ deviceStates' = SyncGroupDevices(h, updated.desired, sent,
                                            ForcesGroupControl(c))
        /\ groupStates' = [groupStates EXCEPT ![h] =
              RefreshGroupMembers(h, updated, deviceStates', shown, FALSE)]
  BY <1>1 DEF ApplyAccepted
<1> HIDE DEF updated
<1>5. updated \in GroupState(h) /\ updated.desired \in Desired
      /\ updated.desired.min_power <= updated.desired.max_power
  BY <1>3 DEF GroupOK, GroupState
<1>6. OnlyGroup(g, d) /\ deviceStates'[d].control_mode = "group"
  BY DEF Controlled, OnlyGroup, GroupsOf
<1>7. d \in Devices /\ deviceStates[d] \in DeviceState
  BY TopologyAssumption DEF TypeOK
<1>8. CASE h = g
  <2>1. groupStates'[g] =
          RefreshGroupMembers(g, updated, deviceStates', shown, FALSE)
    BY <1>3, <1>4, <1>8 DEF TypeOK
  <2>2. /\ groupStates'[g].desired = updated.desired
        /\ groupStates'[g].members = CalculateMembers(g, deviceStates', shown)
    BY <1>5, <1>8, <2>1 DEF RefreshGroupMembers, GroupState
  <2>3. WithinGroupLimits(groupStates'[g].members[d].target_power, updated.desired)
    BY <1>4, <1>5, <1>6, <1>8, <2>2, ViewWithin
  <2>4. deviceStates'[d].power = sent[d].power
    BY <1>4, <1>6, <1>7, <1>8 DEF SyncGroupDevices, SentToMember, DeviceState
  <2>5. WithinGroupLimits(sent[d].power, updated.desired)
    BY <1>4, <1>5, <1>8, ViewWithin
  <2> QED
    BY <2>2, <2>3, <2>4, <2>5 DEF PowersWithin
<1>9. CASE h # g
  <2>1. d \notin Members[h]
    BY <1>3, <1>6, <1>9, OnlyGroupFirst
  <2>2. deviceStates'[d] = deviceStates[d]
    BY <1>4, <1>7, <2>1 DEF SyncGroupDevices
  <2>3. groupStates'[g] = groupStates[g]
    BY <1>4, <1>9 DEF TypeOK
  <2> QED
    BY <1>6, <2>2, <2>3 DEF Controlled, PowersWithin
<1> QED
  BY <1>8, <1>9

(* The two ways the members of a group are rebuilt without a group command. *)
Rebuilt(g) ==
    \/ groupStates'[g] = groupStates[g]
    \/ /\ groupStates'[g].desired = groupStates[g].desired
       /\ \E shown \in CalculateTargets(g, groupStates[g].desired) :
            groupStates'[g].members = CalculateMembers(g, deviceStates', shown)

LEMMA RebuiltWithin ==
    ASSUME TypeOK, NEW g \in Groups, NEW d \in Members[g], Rebuilt(g),
           deviceStates'[d].control_mode = "group",
           WithinGroupLimits(groupStates[g].members[d].target_power,
                             groupStates[g].desired)
           \/ groupStates'[g] # groupStates[g]
    PROVE  WithinGroupLimits(groupStates'[g].members[d].target_power,
                             groupStates'[g].desired)
<1>1. CASE groupStates'[g] = groupStates[g]
  BY <1>1
<1>2. CASE groupStates'[g] # groupStates[g]
  <2>1. PICK shown \in CalculateTargets(g, groupStates[g].desired) :
          /\ groupStates'[g].desired = groupStates[g].desired
          /\ groupStates'[g].members = CalculateMembers(g, deviceStates', shown)
    BY <1>2 DEF Rebuilt
  <2>2. groupStates[g].desired \in Desired
        /\ groupStates[g].desired.min_power <= groupStates[g].desired.max_power
    BY DEF TypeOK, GroupState
  <2> QED
    BY <2>1, <2>2, ViewWithin
<1> QED
  BY <1>1, <1>2

LEMMA StoreDeviceRebuilds ==
    ASSUME TypeOK, NEW d, NEW r, NEW updated, StoreDevice(d, r, updated),
           NEW g \in Groups
    PROVE  /\ Rebuilt(g)
           /\ g \in GroupsOf(d) =>
                \E shown \in CalculateTargets(g, groupStates[g].desired) :
                  groupStates'[g].members = CalculateMembers(g, deviceStates', shown)
<1>1. PICK shown \in TargetsOfEach(GroupsOf(d), groupStates) :
        groupStates' = [h \in Groups |->
            IF h \in GroupsOf(d)
            THEN RefreshGroupMembers(h, groupStates[h], deviceStates',
                                     shown[h], TRUE)
            ELSE groupStates[h]]
  BY DEF StoreDevice
<1>2. CASE g \in GroupsOf(d)
  <2>1. shown[g] \in CalculateTargets(g, groupStates[g].desired)
    BY <1>2, TargetsOfEachType DEF GroupsOf
  <2>2. groupStates'[g] = RefreshGroupMembers(g, groupStates[g], deviceStates',
                                              shown[g], TRUE)
    BY <1>1, <1>2
  <2>3. groupStates[g] \in GroupState(g)
    BY DEF TypeOK
  <2>4. /\ groupStates'[g].desired = groupStates[g].desired
        /\ groupStates'[g].members = CalculateMembers(g, deviceStates', shown[g])
    BY <2>2, <2>3 DEF RefreshGroupMembers, GroupState
  <2> QED
    BY <2>1, <2>4 DEF Rebuilt
<1>3. CASE g \notin GroupsOf(d)
  BY <1>1, <1>3 DEF Rebuilt
<1> QED
  BY <1>2, <1>3

LEMMA ObserverEventRebuilds ==
    ASSUME TypeOK, NEW d, RecordObserverEvent(d), NEW g \in Groups
    PROVE  Rebuilt(g)
<1>1. PICK device, semantic, refresh, publish :
        StoreObservation(d, device, semantic, refresh, publish)
  BY DEF RecordObserverEvent, RecordReadout, RecordAbsence
<1>2. PICK shown \in TargetsOfEach(GroupsOf(d), groupStates) :
        groupStates' = [h \in Groups |->
          IF h \in (IF refresh THEN GroupsOf(d) ELSE {})
          THEN RefreshGroupObservation(h, groupStates[h], deviceStates',
                                       shown[h], semantic)
          ELSE groupStates[h]]
  BY <1>1 DEF StoreObservation, StoreAndRefresh
<1>3. CASE g \in GroupsOf(d) /\ refresh
  <2>1. shown[g] \in CalculateTargets(g, groupStates[g].desired)
    BY <1>3, TargetsOfEachType DEF GroupsOf
  <2>2. groupStates'[g] = RefreshGroupObservation(g, groupStates[g], deviceStates',
                                                  shown[g], semantic)
    BY <1>2, <1>3
  <2>3. groupStates[g] \in GroupState(g)
    BY DEF TypeOK
  <2>4. /\ groupStates'[g].desired = groupStates[g].desired
        /\ groupStates'[g].members = CalculateMembers(g, deviceStates', shown[g])
    BY <2>2, <2>3 DEF RefreshGroupObservation, GroupState
  <2> QED
    BY <2>1, <2>4 DEF Rebuilt
<1>4. CASE ~(g \in GroupsOf(d) /\ refresh)
  BY <1>2, <1>4 DEF Rebuilt
<1> QED
  BY <1>3, <1>4

LEMMA DeviceStepPowers ==
    ASSUME TypeOK, DeviceStep, NEW g \in Groups, NEW d \in Members[g],
           Controlled(g, d) => PowersWithin(g, d), Controlled(g, d)'
    PROVE  PowersWithin(g, d)'
<1>1. PICK e \in DeviceTopics, r \in RequestIds, c \in DeviceCommands :
        ApplyDeviceResume(e, r, c) \/ ApplyDeviceOverride(e, r, c)
  BY DEF DeviceStep
<1>2. PICK updated : StoreDevice(e, r, updated)
  BY <1>1 DEF ApplyDeviceResume, ApplyDeviceOverride
<1>3. OnlyGroup(g, d) /\ deviceStates'[d].control_mode = "group"
  BY DEF Controlled, OnlyGroup, GroupsOf
<1>4. d \in Devices /\ deviceStates[d] \in DeviceState /\ FirstGroup[d] = g
  BY <1>3, OnlyGroupFirst DEF TypeOK
<1>5. groupStates[g].desired \in Desired
      /\ groupStates[g].desired.min_power <= groupStates[g].desired.max_power
  BY DEF TypeOK, GroupState
<1>6. groupStates'[g].desired = groupStates[g].desired
  BY <1>2, StoreDeviceKeeps DEF StoredDevice
<1>7. CASE e # d
  <2>1. deviceStates'[d] = deviceStates[d]
    BY <1>2, <1>4, <1>7 DEF StoreDevice, TypeOK
  <2>2. PowersWithin(g, d)
    BY <1>3, <2>1 DEF Controlled
  <2> QED
    BY <1>2, <1>3, <1>6, <2>1, <2>2, StoreDeviceRebuilds, RebuiltWithin
       DEF PowersWithin
<1>8. CASE e = d
  <2>1. PICK shown \in CalculateTargets(g, groupStates[g].desired) :
          groupStates'[g].members = CalculateMembers(g, deviceStates', shown)
    BY <1>2, <1>8, StoreDeviceRebuilds DEF GroupsOf
  <2>2. WithinGroupLimits(groupStates'[g].members[d].target_power,
                          groupStates'[g].desired)
    BY <1>3, <1>5, <1>6, <2>1, ViewWithin
  <2>3. PICK updated2 :
          /\ StoredDevice(d, updated2)
          /\ \/ \E targets \in CalculateTargets(g, groupStates[g].desired) :
                   updated2 = Resumed(deviceStates[d], r, targets[d])
             \/ updated2 = Overridden(d, r, c)
    BY <1>1, <1>4, <1>8, DeviceCommand
  <2>4. deviceStates'[d] = updated2
    BY <1>4, <2>3 DEF StoredDevice, TypeOK
  <2>5. updated2 # Overridden(d, r, c)
    <3>1. Overridden(d, r, c).control_mode = "manual_override"
      BY <1>4 DEF Overridden, DeviceState, GroupsOf
    <3> QED
      BY <1>3, <2>4, <3>1
  <2>6. PICK targets \in CalculateTargets(g, groupStates[g].desired) :
          updated2 = Resumed(deviceStates[d], r, targets[d])
    BY <2>3, <2>5
  <2>7. deviceStates'[d].power = targets[d].power
    BY <1>4, <2>4, <2>6 DEF Resumed, DeviceState
  <2>8. WithinGroupLimits(deviceStates'[d].power, groupStates'[g].desired)
    BY <1>5, <1>6, <2>7, ViewWithin
  <2> QED
    BY <2>2, <2>8 DEF PowersWithin
<1> QED
  BY <1>7, <1>8

LEMMA StepPowers ==
    ASSUME TypeOK, [Next]_vars, NEW g \in Groups, NEW d \in Members[g],
           Controlled(g, d) => PowersWithin(g, d), Controlled(g, d)'
    PROVE  PowersWithin(g, d)'
<1>1. CASE GroupStep
  BY <1>1, GroupStepPowers
<1>2. CASE DeviceStep
  BY <1>2, DeviceStepPowers
<1>3. ASSUME NEW e \in Reporting, RecordObserverEvent(e)
      PROVE  PowersWithin(g, d)'
  <2>1. ObservationKeeps /\ Rebuilt(g)
    BY <1>3, ObserverEventKeeps, ObserverEventRebuilds
  <2>2. d \in Devices /\ OnlyGroup(g, d) /\ deviceStates'[d].control_mode = "group"
    BY TopologyAssumption DEF Controlled, OnlyGroup, GroupsOf
  <2>3. /\ deviceStates[d].control_mode = "group"
        /\ deviceStates'[d].power = deviceStates[d].power
        /\ groupStates'[g].desired = groupStates[g].desired
    BY <2>1, <2>2 DEF ObservationKeeps, Told
  <2>4. PowersWithin(g, d)
    BY <2>2, <2>3 DEF Controlled
  <2> QED
    BY <2>1, <2>2, <2>3, <2>4, RebuiltWithin DEF PowersWithin
<1>4. CASE UNCHANGED <<groupStates, deviceStates>>
  BY <1>4 DEF PowersWithin, Controlled, OnlyGroup, GroupsOf
<1> QED
  BY <1>1, <1>2, <1>3, <1>4
     DEF Next, vars, ApplyGroup, ApplyDevice, ApplyRejected, ApplyDeviceRejected,
         WaitForUpdates, GroupStep, DeviceStep

LEMMA InitPowers ==
    ASSUME Init, NEW g \in Groups, NEW d \in Members[g], Controlled(g, d)
    PROVE  PowersWithin(g, d)
<1> DEFINE configured == [h \in Groups |-> [desired |-> GroupConfig[h]]]
<1>1. PICK first \in TargetsOfEach(Groups, configured),
           second \in TargetsOfEach(Groups, configured) :
        /\ deviceStates = [e \in Devices |-> InitialDeviceState(e, first)]
        /\ groupStates = [h \in Groups |-> InitialState(h, deviceStates, second[h])]
  BY DEF Init
<1>2. configured[g].desired = GroupConfig[g]
  OBVIOUS
<1> HIDE DEF configured
<1>3. /\ first[g] \in CalculateTargets(g, GroupConfig[g])
      /\ second[g] \in CalculateTargets(g, GroupConfig[g])
  BY <1>2, TargetsOfEachType
<1>4. GroupConfig[g] \in Desired /\ GroupConfig[g].min_power <= GroupConfig[g].max_power
  BY ConfigAssumption
<1>5. d \in Devices /\ FirstGroup[d] = g
  BY OnlyGroupFirst DEF Controlled
<1>6. /\ groupStates[g].desired = GroupConfig[g]
      /\ groupStates[g].members = CalculateMembers(g, deviceStates, second[g])
  BY <1>1 DEF InitialState
<1>7. deviceStates[d].power = first[g][d].power
  BY <1>1, <1>5 DEF InitialDeviceState, GroupsOf
<1>8. WithinGroupLimits(first[g][d].power, GroupConfig[g])
  BY <1>3, <1>4, ViewWithin
<1>9. WithinGroupLimits(groupStates[g].members[d].target_power, GroupConfig[g])
  BY <1>3, <1>4, <1>6, ViewWithin DEF Controlled
<1> QED
  BY <1>6, <1>7, <1>8, <1>9 DEF PowersWithin

(* Whatever mix of patterns, limits, gains, overrides and resumes came      *)
(* before, the power of a group-controlled device is zero or within the     *)
(* limits its group holds now, in the device record and in the group view.  *)
THEOREM PowersLimited == Spec => []GroupPowersWithinLimits
<1>1. GroupPowersWithinLimits <=>
        \A g \in Groups : \A d \in Members[g] : Controlled(g, d) => PowersWithin(g, d)
  BY DEF GroupPowersWithinLimits, Controlled, PowersWithin
<1>2. Init => GroupPowersWithinLimits
  BY <1>1, InitPowers
<1>3. ASSUME TypeOK, GroupPowersWithinLimits, [Next]_vars
      PROVE  GroupPowersWithinLimits'
  <2>1. \A g \in Groups : \A d \in Members[g] :
          Controlled(g, d)' => PowersWithin(g, d)'
    BY <1>1, <1>3, StepPowers
  <2> QED
    BY <2>1 DEF GroupPowersWithinLimits, Controlled, PowersWithin, OnlyGroup, GroupsOf
<1> QED
  BY <1>2, <1>3, InitType, StepType, PTL DEF Spec

-----------------------------------------------------------------------------
(* Requests *)

LEMMA RememberLast ==
    ASSUME NEW topics, NEW log, Log(log, topics), NEW result \in Result(topics)
    PROVE  result.request_id \in Remembered(Remember(log, result))
<1>1. PICK kept \in Seq(Result(topics)) : Remember(log, result) = Append(kept, result)
  <2>1. log \in Seq(Result(topics))
    BY DEF Log
  <2>2. CASE Len(log) < MaxDedup
    BY <2>1, <2>2 DEF Remember
  <2>3. CASE ~(Len(log) < MaxDedup)
    <3>1. log # <<>>
      BY <2>1, <2>3, BoundsAssumption
    <3>2. Tail(log) \in Seq(Result(topics))
      BY <2>1, <3>1
    <3> QED
      BY <2>3, <3>2 DEF Remember
  <2> QED
    BY <2>2, <2>3
<1>2. Len(kept) + 1 \in DOMAIN Append(kept, result)
      /\ Append(kept, result)[Len(kept) + 1] = result
  OBVIOUS
<1> QED
  BY <1>1, <1>2 DEF Remembered

(* A group's desired values move only with a request that was not already   *)
(* answered: a redelivered QoS 1 command does not apply twice while it is   *)
(* remembered, and no observation moves them.                               *)
THEOREM DesiredFresh == Spec => DesiredChangesOnlyByFreshRequest
<1>1. ASSUME TypeOK, [Next]_vars, NEW g \in Groups,
             groupStates'[g].desired # groupStates[g].desired
      PROVE  /\ groupStates'[g].last_request_id \notin Remembered(results)
             /\ groupStates'[g].last_request_id \in Remembered(results')
             /\ groupStates'[g].revision > groupStates[g].revision
  <2>1. GroupStep
    BY <1>1, StepKinds, DeviceCommand DEF ObservationKeeps, DeviceStep, StoredDevice
  <2>2. PICK h \in GroupTopics, r \in RequestIds, c \in GroupCommands :
          ApplyAccepted(h, r, c)
    BY <2>1 DEF GroupStep
  <2>3. c \in GroupCommandBody
    BY CommandAssumption
  <2>4. h = g
    BY <1>1, <2>2, <2>3, AcceptedCommand
  <2>5. /\ groupStates'[g].last_request_id = r
        /\ groupStates'[g].revision = groupStates[g].revision + 1
    BY <1>1, <2>2, <2>3, <2>4, AcceptedCommand
  <2>11. groupStates[g].revision \in Nat
    BY <1>1, BoundsAssumption DEF TypeOK, GroupState, Revisions
  <2> DEFINE updated == Commanded(groupStates[g], r, c)
             result == [request_id |-> r, target |-> g, reason |-> Accepted,
                        revision |-> updated.revision]
  <2>6. r \notin Remembered(results) /\ results' = Remember(results, result)
    BY <2>2, <2>4 DEF ApplyAccepted
  <2>7. GroupOK(g, updated)
    BY <1>1, <2>2, <2>3, <2>4, AcceptedCommand
  <2> HIDE DEF updated
  <2>8. result \in Result(GroupTopics) /\ result.request_id = r
    BY <2>2, <2>4, <2>7 DEF Result, GroupOK, GroupState
  <2>9. Log(results, GroupTopics)
    BY <1>1 DEF TypeOK, Log
  <2> HIDE DEF result
  <2>10. r \in Remembered(results')
    BY <2>6, <2>8, <2>9, RememberLast
  <2> QED
    BY <2>5, <2>6, <2>10, <2>11
<1>2. TypeOK /\ [Next]_vars =>
        [\A g \in Groups :
           groupStates'[g].desired # groupStates[g].desired =>
             /\ groupStates'[g].last_request_id \notin Remembered(results)
             /\ groupStates'[g].last_request_id \in Remembered(results')
             /\ groupStates'[g].revision > groupStates[g].revision]_vars
  BY <1>1
<1> QED
  BY <1>2, InitType, StepType, PTL DEF Spec, DesiredChangesOnlyByFreshRequest

-----------------------------------------------------------------------------
(* Overrides *)

(* A device command leaves a new result behind. *)
LEMMA DeviceStepAnswers ==
    ASSUME TypeOK, TypeOK', DeviceStep
    PROVE  deviceResults' # deviceResults
<1>1. PICK d \in DeviceTopics, r \in RequestIds, c \in DeviceCommands :
        ApplyDeviceResume(d, r, c) \/ ApplyDeviceOverride(d, r, c)
  BY DEF DeviceStep
<1>2. d \in Devices /\ r \notin Remembered(deviceResults)
  BY <1>1, DeviceVerdictAccepted DEF ApplyDeviceResume, ApplyDeviceOverride
<1>3. PICK updated : StoreDevice(d, r, updated)
  BY <1>1 DEF ApplyDeviceResume, ApplyDeviceOverride
<1> DEFINE result == [request_id |-> r, target |-> d, reason |-> Accepted,
                      revision |-> updated.revision]
<1>4. deviceResults' = Remember(deviceResults, result)
  BY <1>3 DEF StoreDevice
<1>5. updated \in DeviceState
  BY <1>2, <1>3 DEF StoreDevice, TypeOK
<1>6. result \in Result(DeviceTopics) /\ result.request_id = r
  BY <1>5, TopologyAssumption DEF Result, DeviceState
<1> HIDE DEF result
<1>7. r \in Remembered(deviceResults')
  BY <1>4, <1>6, RememberLast DEF TypeOK, Log
<1> QED
  BY <1>2, <1>7

(* A manual override ends or changes only with a command to the device or a *)
(* forcing command to one of its groups, which takes back every member at   *)
(* once (_sync_group_devices).                                              *)
THEOREM OverridesKept == Spec => OverrideKept
<1> DEFINE Kept(d) ==
      \/ deviceResults' # deviceResults
      \/ \E g \in GroupsOf(d), r \in RequestIds, c \in GroupCommands :
           /\ ForcesGroupControl(c)
           /\ ApplyAccepted(g, r, c)
           /\ \A e \in Members[g] : deviceStates'[e].control_mode = "group"
<1>1. ASSUME TypeOK, TypeOK', [Next]_vars, NEW d \in Devices,
             deviceStates[d].control_mode = "manual_override",
             Told(deviceStates'[d]) # Told(deviceStates[d])
      PROVE  Kept(d)
  <2>1. CASE GroupStep
    <3>1. PICK g \in GroupTopics, r \in RequestIds, c \in GroupCommands :
            ApplyAccepted(g, r, c)
      BY <2>1 DEF GroupStep
    <3> DEFINE desired == Commanded(groupStates[g], r, c).desired
    <3>2. PICK sent \in CalculateTargets(g, desired) :
            \A e \in Devices :
              IF /\ e \in Members[g]
                 /\ \/ ForcesGroupControl(c)
                    \/ deviceStates[e].control_mode # "manual_override"
              THEN Told(deviceStates'[e]) = <<"group", desired.enabled, sent[e].power>>
              ELSE deviceStates'[e] = deviceStates[e]
      BY <1>1, <3>1, AcceptedCommand, CommandAssumption
    <3>3. g \in Groups
      BY <1>1, <3>1, AcceptedCommand, CommandAssumption
    <3> HIDE DEF desired
    <3>4. d \in Members[g] /\ ForcesGroupControl(c)
      BY <1>1, <3>2
    <3>5. g \in GroupsOf(d) /\ Members[g] \subseteq Devices
      BY <3>3, <3>4, TopologyAssumption DEF GroupsOf
    <3>6. \A e \in Members[g] : deviceStates'[e].control_mode = "group"
      BY <3>2, <3>4, <3>5 DEF Told
    <3> QED
      BY <3>1, <3>4, <3>5, <3>6
  <2>2. CASE DeviceStep
    BY <1>1, <2>2, DeviceStepAnswers
  <2>3. CASE ObservationKeeps
    BY <1>1, <2>3 DEF ObservationKeeps
  <2>4. CASE UNCHANGED <<groupStates, deviceStates>>
    BY <1>1, <2>4
  <2> QED
    BY <1>1, <2>1, <2>2, <2>3, <2>4, StepKinds
<1>2. TypeOK /\ TypeOK' /\ [Next]_vars =>
        [\A d \in Devices :
           /\ deviceStates[d].control_mode = "manual_override"
           /\ Told(deviceStates'[d]) # Told(deviceStates[d])
           => \/ deviceResults' # deviceResults
              \/ \E g \in GroupsOf(d), r \in RequestIds, c \in GroupCommands :
                   /\ ForcesGroupControl(c)
                   /\ ApplyAccepted(g, r, c)
                   /\ \A e \in Members[g] :
                        deviceStates'[e].control_mode = "group"]_vars
  BY <1>1
<1> QED
  BY <1>2, TypeCorrect, PTL DEF Spec, OverrideKept

-----------------------------------------------------------------------------
(* Views *)

(* The power a constant pattern asks of a member.                           *)
ConstantPower(g, d, desired) ==
    ClampEnabledPower(desired.power * MemberConfig[g][d].gain, desired,
                      desired.enabled /\ MemberConfig[g][d].enabled)

LEMMA ConstantTarget ==
    ASSUME NEW g, NEW desired, EffectivePattern(desired) = "constant",
           NEW t \in CalculateTargets(g, desired), NEW d \in Members[g]
    PROVE  t[d].power = ConstantPower(g, d, desired)
<1>1. PICK demand \in Demands(g, desired) :
        t = [e \in Members[g] |-> MemberTarget(g, e, desired, demand[e])]
  BY DEF CalculateTargets
<1>2. demand[d] = desired.power * MemberConfig[g][d].gain
  BY <1>1 DEF Demands
<1>3. t[d] = MemberTarget(g, d, desired, demand[d])
  BY <1>1
<1> QED
  BY <1>2, <1>3 DEF MemberTarget, ConstantPower

(* What the agreement of a member's two records rests on: both hold the one *)
(* power of the pattern, which a rebuild of the view computes again.        *)
Agreed(view, device, desired, power) ==
    /\ view.control_mode = device.control_mode
    /\ device.control_mode = "manual_override" =>
         view.enabled = device.enabled /\ view.target_power = device.power
    /\ device.control_mode = "group" /\ EffectivePattern(desired) = "constant" =>
         view.target_power = power /\ device.power = power

Agrees(g, d) ==
    Agreed(groupStates[g].members[d], deviceStates[d], groupStates[g].desired,
           ConstantPower(g, d, groupStates[g].desired))

(* A member whose device record is the pattern's agrees with a new view.    *)
LEMMA RebuiltAgrees ==
    ASSUME NEW g, NEW d \in Members[g], NEW devs, NEW desired,
           NEW shown \in CalculateTargets(g, desired),
           devs[d].control_mode \in {"group", "manual_override"},
           devs[d].control_mode = "group" /\ EffectivePattern(desired) = "constant"
             => devs[d].power = ConstantPower(g, d, desired)
    PROVE  Agreed(CalculateMembers(g, devs, shown)[d], devs[d], desired,
                  ConstantPower(g, d, desired))
<1> DEFINE power == ConstantPower(g, d, desired)
           view  == CalculateMembers(g, devs, shown)[d]
<1>1. /\ view.control_mode = devs[d].control_mode
      /\ devs[d].control_mode = "manual_override" =>
           view.enabled = devs[d].enabled /\ view.target_power = devs[d].power
      /\ devs[d].control_mode = "group" => view.target_power = shown[d].power
  BY DEF CalculateMembers
<1>2. EffectivePattern(desired) = "constant" => shown[d].power = power
  BY ConstantTarget
<1> HIDE DEF power, view
<1> QED
  BY <1>1, <1>2 DEF Agreed, power, view

LEMMA GroupStepAgrees ==
    ASSUME TypeOK, GroupStep, NEW g \in Groups, NEW d \in Members[g],
           OnlyGroup(g, d), Agrees(g, d)
    PROVE  Agrees(g, d)'
<1>1. PICK h \in GroupTopics, r \in RequestIds, c \in GroupCommands :
        ApplyAccepted(h, r, c)
  BY DEF GroupStep
<1> DEFINE updated == Commanded(groupStates[h], r, c)
<1>2. h \in Groups /\ GroupOK(h, updated)
  BY <1>1, AcceptedCommand, CommandAssumption
<1>3. PICK sent \in CalculateTargets(h, updated.desired),
           shown \in CalculateTargets(h, updated.desired) :
        /\ deviceStates' = SyncGroupDevices(h, updated.desired, sent,
                                            ForcesGroupControl(c))
        /\ groupStates' = [groupStates EXCEPT ![h] =
              RefreshGroupMembers(h, updated, deviceStates', shown, FALSE)]
  BY <1>1 DEF ApplyAccepted
<1> HIDE DEF updated
<1>4. d \in Devices /\ deviceStates[d] \in DeviceState
      /\ deviceStates[d].control_mode \in {"group", "manual_override"}
  BY TopologyAssumption DEF TypeOK, DeviceState, ControlModes, GroupsOf
<1>5. CASE h = g
  <2>1. groupStates'[g] =
          RefreshGroupMembers(g, updated, deviceStates', shown, FALSE)
    BY <1>2, <1>3, <1>5 DEF TypeOK
  <2>2. /\ groupStates'[g].desired = updated.desired
        /\ groupStates'[g].members = CalculateMembers(g, deviceStates', shown)
    BY <1>2, <1>5, <2>1 DEF RefreshGroupMembers, GroupOK, GroupState
  <2>3. \/ /\ deviceStates'[d].control_mode = "group"
           /\ deviceStates'[d].power = sent[d].power
        \/ deviceStates'[d].control_mode = "manual_override"
    BY <1>3, <1>4, <1>5 DEF SyncGroupDevices, SentToMember, DeviceState
  <2>4. EffectivePattern(updated.desired) = "constant" =>
          sent[d].power = ConstantPower(g, d, updated.desired)
    BY <1>3, <1>5, ConstantTarget
  <2>5. Agreed(CalculateMembers(g, deviceStates', shown)[d], deviceStates'[d],
               updated.desired, ConstantPower(g, d, updated.desired))
    BY <1>3, <1>5, <2>3, <2>4, RebuiltAgrees
  <2> QED
    BY <2>2, <2>5 DEF Agrees, ConstantPower
<1>6. CASE h # g
  <2>1. d \notin Members[h]
    BY <1>2, <1>6, OnlyGroupFirst
  <2>2. deviceStates'[d] = deviceStates[d]
    BY <1>3, <1>4, <2>1 DEF SyncGroupDevices
  <2>3. groupStates'[g] = groupStates[g]
    BY <1>3, <1>6 DEF TypeOK
  <2> QED
    BY <2>2, <2>3 DEF Agrees, ConstantPower
<1> QED
  BY <1>5, <1>6

(* The other steps leave the pattern alone: what is left to show is that    *)
(* the device record still holds its power.                                 *)
LEMMA RebuildAgrees ==
    ASSUME TypeOK, TypeOK', NEW g \in Groups, NEW d \in Members[g], Agrees(g, d),
           Rebuilt(g), groupStates'[g].desired = groupStates[g].desired,
           \/ Told(deviceStates'[d]) = Told(deviceStates[d])
           \/ /\ \E shown \in CalculateTargets(g, groupStates[g].desired) :
                   groupStates'[g].members = CalculateMembers(g, deviceStates', shown)
              /\ \/ deviceStates'[d].control_mode = "manual_override"
                 \/ \E t \in CalculateTargets(g, groupStates[g].desired) :
                      deviceStates'[d].power = t[d].power
    PROVE  Agrees(g, d)'
<1> DEFINE desired == groupStates[g].desired
           power   == ConstantPower(g, d, desired)
<1>1. d \in Devices
      /\ deviceStates'[d].control_mode \in {"group", "manual_override"}
  BY TopologyAssumption DEF TypeOK, DeviceState, ControlModes, GroupsOf
<1>2. CASE /\ Told(deviceStates'[d]) = Told(deviceStates[d])
           /\ groupStates'[g] = groupStates[g]
  BY <1>2 DEF Agrees, Agreed, Told, ConstantPower
<1>3. ASSUME NEW shown \in CalculateTargets(g, desired),
             groupStates'[g].members = CalculateMembers(g, deviceStates', shown)
      PROVE  Agrees(g, d)'
  <2>1. deviceStates'[d].control_mode = "group"
          /\ EffectivePattern(desired) = "constant"
        => deviceStates'[d].power = power
    <3>1. CASE Told(deviceStates'[d]) = Told(deviceStates[d])
      BY <3>1 DEF Agrees, Agreed, Told
    <3>2. ASSUME NEW t \in CalculateTargets(g, desired),
                 deviceStates'[d].power = t[d].power
          PROVE  EffectivePattern(desired) = "constant" =>
                   deviceStates'[d].power = power
      BY <3>2, ConstantTarget
    <3> QED
      BY <3>1, <3>2
  <2>2. Agreed(CalculateMembers(g, deviceStates', shown)[d], deviceStates'[d],
               desired, power)
    BY <1>1, <1>3, <2>1, RebuiltAgrees
  <2> QED
    BY <1>3, <2>2 DEF Agrees, ConstantPower
<1> QED
  BY <1>2, <1>3 DEF Rebuilt

LEMMA DeviceStepAgrees ==
    ASSUME TypeOK, TypeOK', DeviceStep, NEW g \in Groups, NEW d \in Members[g],
           OnlyGroup(g, d), Agrees(g, d)
    PROVE  Agrees(g, d)'
<1>1. PICK e \in DeviceTopics, r \in RequestIds, c \in DeviceCommands :
        ApplyDeviceResume(e, r, c) \/ ApplyDeviceOverride(e, r, c)
  BY DEF DeviceStep
<1>2. PICK updated : StoreDevice(e, r, updated)
  BY <1>1 DEF ApplyDeviceResume, ApplyDeviceOverride
<1>3. /\ Rebuilt(g)
      /\ g \in GroupsOf(e) =>
           \E shown \in CalculateTargets(g, groupStates[g].desired) :
             groupStates'[g].members = CalculateMembers(g, deviceStates', shown)
      /\ groupStates'[g].desired = groupStates[g].desired
  BY <1>2, StoreDeviceKeeps, StoreDeviceRebuilds DEF StoredDevice
<1>4. d \in Devices /\ deviceStates[d] \in DeviceState
      /\ FirstGroup[d] = g /\ GroupsOf(d) = {g}
  BY OnlyGroupFirst DEF TypeOK, OnlyGroup
<1>5. CASE e # d
  <2>1. deviceStates'[d] = deviceStates[d]
    BY <1>2, <1>4, <1>5 DEF StoreDevice, TypeOK
  <2> QED
    BY <1>3, <2>1, RebuildAgrees DEF Told
<1>6. CASE e = d
  <2>1. PICK now :
          /\ StoredDevice(d, now)
          /\ \/ \E targets \in CalculateTargets(g, groupStates[g].desired) :
                   now = Resumed(deviceStates[d], r, targets[d])
             \/ now = Overridden(d, r, c)
    BY <1>1, <1>4, <1>6, DeviceCommand
  <2>2. deviceStates'[d] = now
    BY <1>4, <2>1 DEF StoredDevice, TypeOK
  <2>3. \/ now.control_mode = "manual_override"
        \/ \E t \in CalculateTargets(g, groupStates[g].desired) :
             now.power = t[d].power
    BY <1>4, <2>1 DEF Overridden, Resumed, DeviceState
  <2> QED
    BY <1>3, <1>4, <1>6, <2>2, <2>3, RebuildAgrees
<1> QED
  BY <1>5, <1>6

LEMMA StepAgrees ==
    ASSUME TypeOK, TypeOK', [Next]_vars, NEW g \in Groups, NEW d \in Members[g],
           OnlyGroup(g, d), Agrees(g, d)
    PROVE  Agrees(g, d)'
<1>1. CASE GroupStep
  BY <1>1, GroupStepAgrees
<1>2. CASE DeviceStep
  BY <1>2, DeviceStepAgrees
<1>3. ASSUME NEW e \in Reporting, RecordObserverEvent(e)
      PROVE  Agrees(g, d)'
  <2>1. /\ Rebuilt(g) /\ groupStates'[g].desired = groupStates[g].desired
        /\ Told(deviceStates'[d]) = Told(deviceStates[d])
    BY <1>3, ObserverEventKeeps, ObserverEventRebuilds, OnlyGroupFirst
       DEF ObservationKeeps
  <2> QED
    BY <2>1, RebuildAgrees
<1>4. CASE UNCHANGED <<groupStates, deviceStates>>
  BY <1>4 DEF Agrees, ConstantPower
<1> QED
  BY <1>1, <1>2, <1>3, <1>4
     DEF Next, vars, ApplyGroup, ApplyDevice, ApplyRejected, ApplyDeviceRejected,
         WaitForUpdates, GroupStep, DeviceStep

LEMMA InitAgrees ==
    ASSUME Init, NEW g \in Groups, NEW d \in Members[g], OnlyGroup(g, d)
    PROVE  Agrees(g, d)
<1> DEFINE configured == [h \in Groups |-> [desired |-> GroupConfig[h]]]
<1>1. PICK first \in TargetsOfEach(Groups, configured),
           second \in TargetsOfEach(Groups, configured) :
        /\ deviceStates = [e \in Devices |-> InitialDeviceState(e, first)]
        /\ groupStates = [h \in Groups |-> InitialState(h, deviceStates, second[h])]
  BY DEF Init
<1>2. configured[g].desired = GroupConfig[g]
  OBVIOUS
<1> HIDE DEF configured
<1>3. /\ first[g] \in CalculateTargets(g, GroupConfig[g])
      /\ second[g] \in CalculateTargets(g, GroupConfig[g])
  BY <1>2, TargetsOfEachType
<1>4. d \in Devices /\ FirstGroup[d] = g /\ GroupsOf(d) = {g}
  BY OnlyGroupFirst DEF OnlyGroup
<1>5. /\ groupStates[g].desired = GroupConfig[g]
      /\ groupStates[g].members = CalculateMembers(g, deviceStates, second[g])
  BY <1>1 DEF InitialState
<1>6. deviceStates[d].power = first[g][d].power
      /\ deviceStates[d].control_mode = "group"
  BY <1>1, <1>4 DEF InitialDeviceState
<1>7. EffectivePattern(GroupConfig[g]) = "constant" =>
        deviceStates[d].power = ConstantPower(g, d, GroupConfig[g])
  BY <1>3, <1>6, ConstantTarget
<1> QED
  BY <1>3, <1>5, <1>6, <1>7, RebuiltAgrees DEF Agrees

(* A member of one group never shows other values than its device record    *)
(* holds: overrides, resumes, patches and observations in any order keep    *)
(* the two copies of who controls the device, and with what, the same.      *)
THEOREM ViewsAgree == Spec => []MemberViewAgrees
<1> DEFINE AllAgree ==
             \A g \in Groups : \A d \in Members[g] : OnlyGroup(g, d) => Agrees(g, d)
<1>1. AllAgree => MemberViewAgrees
  BY DEF MemberViewAgrees, Agrees, Agreed
<1>2. Init => AllAgree
  BY InitAgrees
<1>3. TypeOK /\ TypeOK' /\ AllAgree /\ [Next]_vars => AllAgree'
  <2> SUFFICES ASSUME TypeOK, TypeOK', AllAgree, [Next]_vars,
                      NEW g \in Groups, NEW d \in Members[g], OnlyGroup(g, d)
               PROVE  Agrees(g, d)'
    BY DEF OnlyGroup, GroupsOf
  <2> QED
    BY StepAgrees
<1> HIDE DEF AllAgree
<1> QED
  BY <1>1, <1>2, <1>3, TypeCorrect, PTL DEF Spec

-----------------------------------------------------------------------------
(* Summaries *)

(* What a group shows of its members' actual state, for one group.          *)
Summarised(state, members) ==
    /\ state.actual_enabled = ObservedEnabled(members)
    /\ state.online_member_count = Cardinality(OnlineMembers(members))
    /\ \A field \in {"last_seen_at", "last_changed_at"} :
         state[field] = Latest({members[d].observed[field] : d \in DOMAIN members})

ViewCurrent(g) ==
    /\ \A d \in Members[g] :
         groupStates[g].members[d].observed = deviceStates[d].observed
    /\ Summarised(groupStates[g], groupStates[g].members)

(* The summary speaks of the observed part of the members only.             *)
LEMMA SummaryOfObserved ==
    ASSUME NEW state, NEW now, NEW before, NEW after,
           Summarised(state, before), DOMAIN after = DOMAIN before,
           \A d \in DOMAIN before : after[d].observed = before[d].observed,
           now.actual_enabled = state.actual_enabled,
           now.online_member_count = state.online_member_count,
           now.last_seen_at = state.last_seen_at,
           now.last_changed_at = state.last_changed_at
    PROVE  Summarised(now, after)
<1>1. OnlineMembers(after) = OnlineMembers(before)
      /\ OnlineMembers(before) \subseteq DOMAIN before
  BY DEF OnlineMembers
<1>2. ObservedEnabled(after) = ObservedEnabled(before)
  BY <1>1 DEF ObservedEnabled
<1>3. ASSUME NEW field
      PROVE  {after[d].observed[field] : d \in DOMAIN after}
               = {before[d].observed[field] : d \in DOMAIN before}
  OBVIOUS
<1>4. /\ now["last_seen_at"] = state["last_seen_at"]
      /\ now["last_changed_at"] = state["last_changed_at"]
  OBVIOUS
<1> QED
  BY <1>1, <1>2, <1>3, <1>4 DEF Summarised

LEMMA KeptView ==
    ASSUME TypeOK, TypeOK', NEW g \in Groups, ViewCurrent(g),
           \A d \in Members[g] :
             /\ deviceStates'[d].observed = deviceStates[d].observed
             /\ groupStates'[g].members[d].observed = deviceStates'[d].observed,
           groupStates'[g].actual_enabled = groupStates[g].actual_enabled,
           groupStates'[g].online_member_count = groupStates[g].online_member_count,
           groupStates'[g].last_seen_at = groupStates[g].last_seen_at,
           groupStates'[g].last_changed_at = groupStates[g].last_changed_at
    PROVE  ViewCurrent(g)'
<1> DEFINE before == groupStates[g].members
           after  == groupStates'[g].members
<1>1. DOMAIN before = Members[g] /\ DOMAIN after = Members[g]
  BY DEF TypeOK, GroupState
<1>2. \A d \in Members[g] : after[d].observed = before[d].observed
  BY DEF ViewCurrent
<1>3. Summarised(groupStates[g], before)
  BY DEF ViewCurrent
<1> HIDE DEF before, after
<1>4. Summarised(groupStates'[g], after)
  BY <1>1, <1>2, <1>3, SummaryOfObserved
<1> QED
  BY <1>4 DEF ViewCurrent, Summarised, after, ObservedEnabled, OnlineMembers, Latest

LEMMA RefreshedView ==
    ASSUME TypeOK, TypeOK', NEW g \in Groups, NEW shown, NEW semantic,
           groupStates'[g] = RefreshGroupObservation(g, groupStates[g],
                                deviceStates', shown, semantic)
    PROVE  ViewCurrent(g)'
<1> DEFINE members == CalculateMembers(g, deviceStates', shown)
<1>1. groupStates[g] \in GroupState(g)
  BY DEF TypeOK
<1>2. /\ groupStates'[g].members = members
      /\ groupStates'[g].actual_enabled = ObservedEnabled(members)
      /\ groupStates'[g].online_member_count = Cardinality(OnlineMembers(members))
      /\ groupStates'[g].last_seen_at =
           Latest({members[d].observed["last_seen_at"] : d \in Members[g]})
      /\ groupStates'[g].last_changed_at =
           Latest({members[d].observed["last_changed_at"] : d \in Members[g]})
  BY <1>1 DEF RefreshGroupObservation, GroupState
<1>3. /\ DOMAIN members = Members[g]
      /\ \A d \in Members[g] : members[d].observed = deviceStates'[d].observed
  BY DEF CalculateMembers
<1> HIDE DEF members
<1>4. Summarised(groupStates'[g], members)
  BY <1>2, <1>3 DEF Summarised
<1>5. Summarised(groupStates'[g], groupStates'[g].members)
  BY <1>2, <1>4
<1>6. \A d \in Members[g] :
        groupStates'[g].members[d].observed = deviceStates'[d].observed
  BY <1>2, <1>3
<1> QED
  BY <1>5, <1>6
     DEF ViewCurrent, Summarised, ObservedEnabled, OnlineMembers, Latest

LEMMA CommandView ==
    ASSUME TypeOK, TypeOK', GroupStep \/ DeviceStep, NEW g \in Groups, ViewCurrent(g)
    PROVE  ViewCurrent(g)'
<1>1. \A d \in Members[g] : deviceStates'[d].observed = deviceStates[d].observed
  BY CommandsKeepObserved, TopologyAssumption
<1>2. groupStates[g] \in GroupState(g)
  BY DEF TypeOK
<1>3. \/ groupStates'[g] = groupStates[g]
      \/ \E state, shown, increment :
           /\ state = groupStates[g]
              \/ \E r, c : state = Commanded(groupStates[g], r, c)
           /\ groupStates'[g] =
                RefreshGroupMembers(g, state, deviceStates', shown, increment)
  <2>1. CASE GroupStep
    <3>1. PICK h \in GroupTopics, r \in RequestIds, c \in GroupCommands :
            ApplyAccepted(h, r, c)
      BY <2>1 DEF GroupStep
    <3>2. PICK shown : groupStates' = [groupStates EXCEPT ![h] =
             RefreshGroupMembers(h, Commanded(groupStates[h], r, c), deviceStates',
                                 shown, FALSE)]
      BY <3>1 DEF ApplyAccepted
    <3> QED
      BY <3>2 DEF TypeOK
  <2>2. CASE DeviceStep
    <3>1. PICK d, r, updated : StoreDevice(d, r, updated)
      BY <2>2 DEF DeviceStep, ApplyDeviceResume, ApplyDeviceOverride
    <3>2. PICK shown : groupStates' = [h \in Groups |->
             IF h \in GroupsOf(d)
             THEN RefreshGroupMembers(h, groupStates[h], deviceStates',
                                      shown[h], TRUE)
             ELSE groupStates[h]]
      BY <3>1 DEF StoreDevice
    <3> QED
      BY <3>2
  <2> QED
    BY <2>1, <2>2
<1>4. CASE groupStates'[g] = groupStates[g]
  BY <1>1, <1>4, KeptView DEF ViewCurrent
<1>5. ASSUME NEW state, NEW shown, NEW increment,
             state = groupStates[g]
               \/ \E r, c : state = Commanded(groupStates[g], r, c),
             groupStates'[g] =
               RefreshGroupMembers(g, state, deviceStates', shown, increment)
      PROVE  ViewCurrent(g)'
  <2>1. /\ DOMAIN state = DOMAIN groupStates[g]
        /\ state.actual_enabled = groupStates[g].actual_enabled
        /\ state.online_member_count = groupStates[g].online_member_count
        /\ state.last_seen_at = groupStates[g].last_seen_at
        /\ state.last_changed_at = groupStates[g].last_changed_at
    BY <1>2, <1>5 DEF Commanded, GroupState
  <2>2. /\ groupStates'[g].members = CalculateMembers(g, deviceStates', shown)
        /\ groupStates'[g].actual_enabled = groupStates[g].actual_enabled
        /\ groupStates'[g].online_member_count = groupStates[g].online_member_count
        /\ groupStates'[g].last_seen_at = groupStates[g].last_seen_at
        /\ groupStates'[g].last_changed_at = groupStates[g].last_changed_at
    BY <1>2, <1>5, <2>1 DEF RefreshGroupMembers, GroupState
  <2>3. \A d \in Members[g] :
          groupStates'[g].members[d].observed = deviceStates'[d].observed
    BY <2>2 DEF CalculateMembers
  <2> QED
    BY <1>1, <2>2, <2>3, KeptView
<1> QED
  BY <1>3, <1>4, <1>5

(* An observation that says nothing new skips the refresh: it changed no    *)
(* observed value.                                                          *)
LEMMA ObservationView ==
    ASSUME TypeOK, TypeOK', NEW e \in Devices, RecordObserverEvent(e),
           NEW g \in Groups, ViewCurrent(g)
    PROVE  ViewCurrent(g)'
<1>1. PICK device, semantic, refresh, publish :
        /\ StoreObservation(e, device, semantic, refresh, publish)
        /\ ~refresh => device.observed = deviceStates[e].observed
  <2>1. CASE \E s \in Readouts : RecordReadout(e, s)
    BY <2>1 DEF RecordReadout
  <2>2. ASSUME NEW status, NEW error, RecordAbsence(e, status, error)
        PROVE  \E device, semantic, refresh, publish :
                 /\ StoreObservation(e, device, semantic, refresh, publish)
                 /\ ~refresh => device.observed = deviceStates[e].observed
    <3> DEFINE current == deviceStates[e]
               online == CASE status = "unmapped"   -> Unknown
                           [] status = "connecting" -> current.observed.online
                           [] OTHER                 -> "false"
               semantic == <<current.observed.online, current.observed.error,
                             current.status>> # <<online, error, status>>
               device == [current EXCEPT
                            !.observed = [@ EXCEPT !.online = online,
                                                   !.error = error],
                            !.status = status]
    <3>1. StoreObservation(e, device, semantic, semantic, semantic)
      BY <2>2 DEF RecordAbsence
    <3>2. current \in DeviceState /\ current.observed \in Observation
      BY DEF TypeOK, DeviceState
    <3> HIDE DEF online
    <3>3. ~semantic => device.observed = current.observed
      BY <3>2 DEF DeviceState, Observation
    <3> HIDE DEF semantic, device
    <3> QED
      BY <3>1, <3>3
  <2> QED
    BY <2>1, <2>2 DEF RecordObserverEvent
<1>2. deviceStates' = [deviceStates EXCEPT ![e] =
          [device EXCEPT !.revision = Bump(@, semantic)]]
  BY <1>1 DEF StoreObservation, StoreAndRefresh
<1>3. PICK shown : groupStates' = [h \in Groups |->
        IF h \in (IF refresh THEN GroupsOf(e) ELSE {})
        THEN RefreshGroupObservation(h, groupStates[h], deviceStates',
                                     shown[h], semantic)
        ELSE groupStates[h]]
  BY <1>1 DEF StoreObservation, StoreAndRefresh
<1>4. CASE refresh /\ g \in GroupsOf(e)
  BY <1>3, <1>4, RefreshedView
<1>5. CASE ~(refresh /\ g \in GroupsOf(e))
  <2>1. groupStates'[g] = groupStates[g]
    BY <1>3, <1>5
  <2>2. ASSUME NEW d \in Members[g]
        PROVE  deviceStates'[d].observed = deviceStates[d].observed
    <3>1. CASE d # e
      BY <1>2, <3>1, TopologyAssumption DEF TypeOK
    <3>2. CASE d = e
      <4>1. device.observed = deviceStates[e].observed
        BY <1>1, <1>5, <3>2 DEF GroupsOf
      <4>2. deviceStates'[e] \in DeviceState
            /\ deviceStates'[e] = [device EXCEPT !.revision = Bump(@, semantic)]
        BY <1>2 DEF TypeOK
      <4>3. deviceStates'[e].observed = device.observed
        BY <4>2 DEF DeviceState
      <4> QED
        BY <3>2, <4>1, <4>3
    <3> QED
      BY <3>1, <3>2
  <2> QED
    BY <2>1, <2>2, KeptView DEF ViewCurrent
<1> QED
  BY <1>4, <1>5

LEMMA InitView ==
    ASSUME Init, NEW g \in Groups
    PROVE  ViewCurrent(g)
<1>1. PICK targets : deviceStates = [e \in Devices |-> InitialDeviceState(e, targets)]
  BY DEF Init
<1>2. PICK second :
        groupStates = [h \in Groups |-> InitialState(h, deviceStates, second[h])]
  BY DEF Init
<1> DEFINE members == groupStates[g].members
<1>3. \A d \in Members[g] : deviceStates[d].observed = Unobserved
  BY <1>1, TopologyAssumption DEF InitialDeviceState
<1>4. /\ DOMAIN members = Members[g]
      /\ \A d \in Members[g] : members[d].observed = deviceStates[d].observed
  BY <1>2 DEF InitialState, CalculateMembers
<1>5. /\ groupStates[g].actual_enabled = Unknown
      /\ groupStates[g].online_member_count = 0
      /\ groupStates[g]["last_seen_at"] = 0
      /\ groupStates[g]["last_changed_at"] = 0
  BY <1>2 DEF InitialState
<1> HIDE DEF members
<1>6. OnlineMembers(members) = {}
  BY <1>3, <1>4 DEF OnlineMembers, Unobserved, Unknown
<1>7. Cardinality(OnlineMembers(members)) = 0
  BY <1>6, FS_EmptySet
<1>8. ObservedEnabled(members) = Unknown
  BY <1>6 DEF ObservedEnabled
<1>9. ASSUME NEW field \in {"last_seen_at", "last_changed_at"}
      PROVE  Latest({members[d].observed[field] : d \in DOMAIN members}) = 0
  <2> DEFINE times == {members[d].observed[field] : d \in DOMAIN members}
  <2>1. \A t \in times : t = 0
    BY <1>3, <1>4 DEF Unobserved
  <2> HIDE DEF times
  <2>2. CASE times = {}
    BY <2>2 DEF Latest, times
  <2>3. CASE times # {}
    <3>1. times = {0}
      BY <2>1, <2>3
    <3>2. (CHOOSE t \in times : \A u \in times : u <= t) = 0
      BY <3>1
    <3> QED
      BY <2>3, <3>2 DEF Latest, times
  <2> QED
    BY <2>2, <2>3
<1> QED
  BY <1>4, <1>5, <1>7, <1>8, <1>9 DEF ViewCurrent, Summarised, members

(* What a group shows of its members' actual state is what the device       *)
(* records hold, and its summary is computed from it, after any mix of      *)
(* commands, which rebuild the members only, and observations, which may    *)
(* skip the refresh when they say nothing new.                              *)
THEOREM ViewsCurrent == Spec => []GroupViewCurrent
<1> DEFINE AllCurrent == \A g \in Groups : ViewCurrent(g)
<1>1. TypeOK /\ AllCurrent => GroupViewCurrent
  <2> SUFFICES ASSUME TypeOK, AllCurrent, NEW g \in Groups
               PROVE  /\ \A d \in Members[g] :
                           groupStates[g].members[d].observed
                             = deviceStates[d].observed
                      /\ LET members == groupStates[g].members
                         IN  /\ groupStates[g].actual_enabled
                                  = ObservedEnabled(members)
                             /\ groupStates[g].online_member_count
                                  = Cardinality(OnlineMembers(members))
                             /\ groupStates[g].last_seen_at =
                                  Latest({members[d].observed.last_seen_at :
                                            d \in Members[g]})
                             /\ groupStates[g].last_changed_at =
                                  Latest({members[d].observed.last_changed_at :
                                            d \in Members[g]})
    BY DEF GroupViewCurrent
  <2> DEFINE members == groupStates[g].members
  <2>1. DOMAIN members = Members[g]
    BY DEF TypeOK, GroupState
  <2>2. ViewCurrent(g)
    OBVIOUS
  <2>3. Summarised(groupStates[g], members)
    BY <2>2 DEF ViewCurrent
  <2> HIDE DEF members
  <2>4. /\ groupStates[g]["last_seen_at"] =
             Latest({members[d].observed["last_seen_at"] : d \in Members[g]})
        /\ groupStates[g]["last_changed_at"] =
             Latest({members[d].observed["last_changed_at"] : d \in Members[g]})
    BY <2>1, <2>3 DEF Summarised
  <2> QED
    BY <2>2, <2>3, <2>4 DEF ViewCurrent, Summarised, members
<1>2. Init => AllCurrent
  BY InitView
<1>3. TypeOK /\ TypeOK' /\ AllCurrent /\ [Next]_vars => AllCurrent'
  <2> SUFFICES ASSUME TypeOK, TypeOK', AllCurrent, [Next]_vars, NEW g \in Groups
               PROVE  ViewCurrent(g)'
    BY DEF ViewCurrent
  <2>1. ViewCurrent(g)
    OBVIOUS
  <2>2. CASE GroupStep \/ DeviceStep
    BY <2>1, <2>2, CommandView
  <2>3. ASSUME NEW e \in Reporting, RecordObserverEvent(e)
        PROVE  ViewCurrent(g)'
    BY <2>1, <2>3, ObservationView, TopologyAssumption
  <2>4. CASE UNCHANGED <<groupStates, deviceStates>>
    BY <2>1, <2>4, KeptView DEF ViewCurrent
  <2> QED
    BY <2>2, <2>3, <2>4
       DEF Next, vars, ApplyGroup, ApplyDevice, ApplyRejected, ApplyDeviceRejected,
           WaitForUpdates, GroupStep, DeviceStep
<1> HIDE DEF AllCurrent
<1> QED
  BY <1>1, <1>2, <1>3, TypeCorrect, PTL DEF Spec

-----------------------------------------------------------------------------
(* Observed changes *)

(* Where a new observation comes from: a readout, or a report without one.  *)
ByReadout(d, s) ==
    /\ RecordReadout(d, s)
    /\ deviceStates'[d].observed = Merged(deviceStates[d].observed, s)

ByAbsence(d, status, error) ==
    /\ RecordAbsence(d, status, error)
    /\ \E online :
         deviceStates'[d].observed =
           [deviceStates[d].observed EXCEPT !.online = online, !.error = error]

LEMMA ObservedMoves ==
    ASSUME TypeOK, TypeOK', [Next]_vars, NEW d \in Devices,
           deviceStates'[d].observed # deviceStates[d].observed
    PROVE  \/ \E s \in Readouts : ByReadout(d, s)
           \/ \E status, error : ByAbsence(d, status, error)
<1>1. ~(GroupStep \/ DeviceStep) /\ ~UNCHANGED deviceStates
  BY CommandsKeepObserved
<1>2. PICK e \in Reporting : RecordObserverEvent(e)
  BY <1>1 DEF Next, vars, ApplyGroup, ApplyDevice, ApplyRejected,
              ApplyDeviceRejected, WaitForUpdates, GroupStep, DeviceStep
<1>3. deviceStates[d] \in DeviceState /\ deviceStates[d].observed \in Observation
      /\ deviceStates'[d] \in DeviceState
  BY DEF TypeOK, DeviceState
<1>4. e = d
  BY <1>2 DEF RecordObserverEvent, RecordReadout, RecordAbsence, StoreObservation,
              StoreAndRefresh, TypeOK
<1>5. ASSUME NEW device, NEW semantic, NEW refresh, NEW publish,
             StoreObservation(d, device, semantic, refresh, publish)
      PROVE  deviceStates'[d].observed = device.observed
  <2>1. deviceStates'[d] = [device EXCEPT !.revision = Bump(@, semantic)]
    BY <1>5 DEF StoreObservation, StoreAndRefresh, TypeOK
  <2>2. DOMAIN device = DOMAIN deviceStates'[d]
    BY <2>1
  <2> QED
    BY <1>3, <2>1, <2>2 DEF DeviceState
<1>6. ASSUME NEW s \in Readouts, RecordReadout(d, s)
      PROVE  ByReadout(d, s)
  <2> DEFINE device == [deviceStates[d] EXCEPT
                          !.observed = Merged(deviceStates[d].observed, s),
                          !.status = ReadoutStatus(s)]
  <2>1. PICK semantic, refresh, publish :
          StoreObservation(d, device, semantic, refresh, publish)
    BY <1>6 DEF RecordReadout
  <2>2. device.observed = Merged(deviceStates[d].observed, s)
    BY <1>3 DEF DeviceState
  <2> HIDE DEF device
  <2> QED
    BY <1>5, <1>6, <2>1, <2>2 DEF ByReadout
<1>7. ASSUME NEW status, NEW error, RecordAbsence(d, status, error)
      PROVE  ByAbsence(d, status, error)
  <2> DEFINE online == CASE status = "unmapped"   -> Unknown
                         [] status = "connecting" -> deviceStates[d].observed.online
                         [] OTHER                 -> "false"
             device == [deviceStates[d] EXCEPT
                          !.observed = [@ EXCEPT !.online = online, !.error = error],
                          !.status = status]
  <2>1. PICK semantic : StoreObservation(d, device, semantic, semantic, semantic)
    BY <1>7 DEF RecordAbsence
  <2> HIDE DEF online
  <2>2. device.observed =
          [deviceStates[d].observed EXCEPT !.online = online, !.error = error]
    BY <1>3 DEF DeviceState
  <2> HIDE DEF device
  <2> QED
    BY <1>5, <1>7, <2>1, <2>2 DEF ByAbsence
<1> QED
  BY <1>2, <1>4, <1>6, <1>7 DEF RecordObserverEvent

(* What a semantic change leaves for the publisher.                         *)
Queued(d) ==
    /\ d \in dirtyDevices' /\ GroupsOf(d) \subseteq dirtyGroups'
    /\ updateEvent'
    /\ deviceStates'[d].revision > deviceStates[d].revision
    /\ \A g \in GroupsOf(d) : groupStates'[g].revision > groupStates[g].revision

LEMMA SemanticQueued ==
    ASSUME TypeOK, NEW d \in Devices, NEW device,
           DOMAIN device = DOMAIN deviceStates[d],
           device.revision = deviceStates[d].revision,
           StoreObservation(d, device, TRUE, TRUE, TRUE)
    PROVE  Queued(d)
<1>1. /\ dirtyDevices' = dirtyDevices \cup {d}
      /\ dirtyGroups' = dirtyGroups \cup GroupsOf(d)
      /\ updateEvent'
      /\ deviceStates' = [deviceStates EXCEPT ![d] =
            [device EXCEPT !.revision = Bump(@, TRUE)]]
  BY DEF StoreObservation, StoreAndRefresh
<1>2. deviceStates'[d].revision > deviceStates[d].revision
  <2>1. deviceStates[d] \in DeviceState /\ deviceStates[d].revision \in Nat
    BY BoundsAssumption DEF TypeOK, DeviceState, Revisions
  <2>2. deviceStates'[d] = [device EXCEPT !.revision = Bump(@, TRUE)]
    BY <1>1 DEF TypeOK
  <2>3. deviceStates'[d].revision = deviceStates[d].revision + 1
    BY <2>1, <2>2 DEF Bump, DeviceState
  <2> QED
    BY <2>1, <2>3
<1>3. ASSUME NEW g \in GroupsOf(d)
      PROVE  groupStates'[g].revision > groupStates[g].revision
  <2>1. g \in Groups /\ groupStates[g] \in GroupState(g)
        /\ groupStates[g].revision \in Nat
    BY BoundsAssumption DEF TypeOK, GroupsOf, GroupState, Revisions
  <2>2. PICK shown : groupStates'[g] =
          RefreshGroupObservation(g, groupStates[g], deviceStates', shown, TRUE)
    BY <2>1 DEF StoreObservation, StoreAndRefresh
  <2>3. groupStates'[g].revision = groupStates[g].revision + 1
    BY <2>1, <2>2 DEF RefreshGroupObservation, Bump, GroupState
  <2> QED
    BY <2>1, <2>3
<1> QED
  BY <1>1, <1>2, <1>3 DEF Queued

LEMMA ReadoutQueued ==
    ASSUME TypeOK, NEW d \in Devices, NEW s \in Readouts, ByReadout(d, s),
           Visible(deviceStates'[d].observed) # Visible(deviceStates[d].observed)
    PROVE  Queued(d)
<1> DEFINE current  == deviceStates[d]
           seen     == current.observed
           device   == [current EXCEPT !.observed = Merged(seen, s),
                                       !.status   = ReadoutStatus(s)]
           semantic == \/ seen.last_seen_at = 0
                       \/ OperationalChange(seen, s)
                       \/ ConfigurationChange(seen, s)
                       \/ <<seen.online, seen.error, current.status>>
                            # <<"true", s.error, ReadoutStatus(s)>>
           publish  == semantic \/ HeartbeatDue(d, s.observed_at)
<1>1. StoreObservation(d, device, semantic, TRUE, publish)
  BY DEF ByReadout, RecordReadout
<1>2. current \in DeviceState /\ seen \in Observation
  BY DEF TypeOK, DeviceState
<1>3. semantic
  <2> SUFFICES ASSUME ~semantic PROVE FALSE
    OBVIOUS
  <2>1. /\ seen.last_seen_at # 0
        /\ ~OperationalChange(seen, s) /\ ~ConfigurationChange(seen, s)
        /\ seen.online = "true" /\ seen.error = s.error
    OBVIOUS
  <2>2. /\ seen.actual_enabled = Switch(s.enabled)
        /\ seen.reading = s.reading
        /\ seen.configuration = s.configuration
    BY <2>1 DEF OperationalChange, ConfigurationChange
  <2>3. Visible(Merged(seen, s)) = Visible(seen)
    BY <1>2, <2>1, <2>2 DEF Visible, Merged, Observation
  <2> QED
    BY <2>3 DEF ByReadout
<1>4. semantic = TRUE /\ publish = TRUE
  BY <1>3
<1>5. DOMAIN device = DOMAIN current /\ device.revision = current.revision
  BY <1>2 DEF DeviceState
<1> HIDE DEF device, semantic, publish
<1>6. StoreObservation(d, device, TRUE, TRUE, TRUE)
  BY <1>1, <1>4
<1> QED
  BY <1>5, <1>6, SemanticQueued

LEMMA AbsenceQueued ==
    ASSUME TypeOK, NEW d \in Devices, NEW status, NEW error,
           RecordAbsence(d, status, error),
           deviceStates'[d].observed # deviceStates[d].observed
    PROVE  Queued(d)
<1> DEFINE current  == deviceStates[d]
           online   == CASE status = "unmapped"   -> Unknown
                         [] status = "connecting" -> current.observed.online
                         [] OTHER                 -> "false"
           semantic == <<current.observed.online, current.observed.error,
                         current.status>> # <<online, error, status>>
           device   == [current EXCEPT
                          !.observed = [@ EXCEPT !.online = online,
                                                 !.error = error],
                          !.status = status]
<1>1. StoreObservation(d, device, semantic, semantic, semantic)
  BY DEF RecordAbsence
<1>2. current \in DeviceState /\ current.observed \in Observation
  BY DEF TypeOK, DeviceState
<1> HIDE DEF online
<1>3. ~semantic => device = current
  BY <1>2 DEF DeviceState, Observation
<1>4. DOMAIN device = DOMAIN current /\ device.revision = current.revision
  BY <1>2 DEF DeviceState
<1>5. semantic \in BOOLEAN
  OBVIOUS
<1> HIDE DEF semantic, device
<1>6. semantic = TRUE
  <2> SUFFICES ASSUME ~semantic PROVE FALSE
    BY <1>5
  <2>1. deviceStates'[d] = [current EXCEPT !.revision = Bump(@, semantic)]
    BY <1>1, <1>3 DEF StoreObservation, StoreAndRefresh, TypeOK
  <2> QED
    BY <1>2, <2>1 DEF DeviceState
<1>7. StoreObservation(d, device, TRUE, TRUE, TRUE)
  BY <1>1, <1>6
<1> QED
  BY <1>4, <1>7, SemanticQueued

(* No visible change of a device's actual state is lost: the step that      *)
(* records it hands the device and all its groups to the publisher and      *)
(* raises their revisions, whatever the order of reports and commands.      *)
THEOREM ChangesQueued == Spec => ObservedChangeIsQueued
<1>1. ASSUME TypeOK, TypeOK', [Next]_vars, NEW d \in Devices,
             Visible(deviceStates'[d].observed) # Visible(deviceStates[d].observed)
      PROVE  Queued(d)
  <2>1. deviceStates'[d].observed # deviceStates[d].observed
    BY <1>1
  <2>2. CASE \E s \in Readouts : ByReadout(d, s)
    BY <1>1, <2>2, ReadoutQueued
  <2>3. CASE \E status, error : ByAbsence(d, status, error)
    BY <1>1, <2>1, <2>3, AbsenceQueued DEF ByAbsence
  <2> QED
    BY <1>1, <2>1, <2>2, <2>3, ObservedMoves
<1>2. TypeOK /\ TypeOK' /\ [Next]_vars =>
        [\A d \in Devices :
           Visible(deviceStates'[d].observed) # Visible(deviceStates[d].observed) =>
             /\ d \in dirtyDevices' /\ GroupsOf(d) \subseteq dirtyGroups'
             /\ updateEvent'
             /\ deviceStates'[d].revision > deviceStates[d].revision
             /\ \A g \in GroupsOf(d) :
                  groupStates'[g].revision > groupStates[g].revision]_vars
  BY <1>1 DEF Queued
<1> QED
  BY <1>2, TypeCorrect, PTL DEF Spec, ObservedChangeIsQueued

-----------------------------------------------------------------------------
(* Time stamps *)

StampsMove(before, after) ==
    /\ Stamp(before, after, before.last_changed_at, after.last_changed_at,
             <<before.actual_enabled, before.reading>> #
               <<after.actual_enabled, after.reading>>)
    /\ Stamp(before, after, before.last_configuration_changed_at,
             after.last_configuration_changed_at,
             before.configuration # after.configuration)

LEMMA StepStamps ==
    ASSUME TypeOK, TypeOK', [Next]_vars, NEW d \in Devices
    PROVE  StampsMove(deviceStates[d].observed, deviceStates'[d].observed)
<1> DEFINE before == deviceStates[d].observed
           after  == deviceStates'[d].observed
<1>1. before \in Observation
  BY DEF TypeOK, DeviceState
<1>2. CASE after = before
  BY <1>2 DEF StampsMove, Stamp
<1>3. ASSUME NEW s \in Readouts, ByReadout(d, s)
      PROVE  StampsMove(before, after)
  <2>1. after = Merged(before, s)
    BY <1>3 DEF ByReadout, RecordReadout
  <2> HIDE DEF before, after
  <2> QED
    BY <2>1
       DEF Merged, OperationalChange, ConfigurationChange, StampsMove, Stamp
<1>4. ASSUME NEW status, NEW error, ByAbsence(d, status, error)
      PROVE  StampsMove(before, after)
  <2>1. PICK online : after = [before EXCEPT !.online = online, !.error = error]
    BY <1>4 DEF ByAbsence
  <2> HIDE DEF before, after
  <2> QED
    BY <1>1, <2>1 DEF StampsMove, Stamp, Observation
<1> QED
  BY <1>2, <1>3, <1>4, ObservedMoves

(* The times of the last change move to the time of the readout with every  *)
(* readout that differs from the one before it, in the operating values or  *)
(* in the configuration, and with nothing else: not with the first, nor     *)
(* with an absence, nor with a command.                                     *)
THEOREM ChangesStamped == Spec => ChangeStamped
<1>1. TypeOK /\ TypeOK' /\ [Next]_vars =>
        [\A d \in Devices :
           LET before == deviceStates[d].observed
               after  == deviceStates'[d].observed
           IN  /\ Stamp(before, after, before.last_changed_at,
                        after.last_changed_at,
                        <<before.actual_enabled, before.reading>> #
                          <<after.actual_enabled, after.reading>>)
               /\ Stamp(before, after, before.last_configuration_changed_at,
                        after.last_configuration_changed_at,
                        before.configuration # after.configuration)]_vars
  BY StepStamps DEF StampsMove
<1> QED
  BY <1>1, TypeCorrect, PTL DEF Spec, ChangeStamped

-----------------------------------------------------------------------------
(* GroupControl implements StateSource, what the MQTT adapter relies on:   *)
(* every step of the service is a step of the source or leaves it alone.   *)
(* The growth of revisions this shows orders the remembered results.       *)


(* The revisions behind the versions, one fact per kind of topic.          *)
RevisionsMove(topics) ==
    /\ \A g \in Groups :
         IF <<"group", g>> \in topics
         THEN /\ groupStates[g].revision < MaxRevision
              /\ groupStates'[g].revision = groupStates[g].revision + 1
         ELSE groupStates'[g].revision = groupStates[g].revision
    /\ \A d \in Devices :
         IF <<"device", d>> \in topics
         THEN /\ deviceStates[d].revision < MaxRevision
              /\ deviceStates'[d].revision = deviceStates[d].revision + 1
         ELSE deviceStates'[d].revision = deviceStates[d].revision

LEMMA VersionsMove ==
    ASSUME NEW topics \in SUBSET SourceTopics, RevisionsMove(topics)
    PROVE  Source!Bump(topics)
<1>1. Source!StateTopics = SourceTopics
  BY DEF Source!StateTopics, SourceTopics
<1>2. ASSUME NEW t \in SourceTopics
      PROVE  IF t \in topics
             THEN /\ Revision(t) < MaxRevision
                  /\ Revision(t)' = Revision(t) + 1
             ELSE Revision(t)' = Revision(t)
  <2>1. CASE t \in {"group"} \X Groups
    <3>1. PICK g \in Groups : t = <<"group", g>>
      BY <2>1
    <3> QED
      BY <3>1 DEF Revision, RevisionsMove
  <2>2. CASE t \in {"device"} \X Devices
    <3>1. PICK d \in Devices : t = <<"device", d>>
      BY <2>2
    <3> QED
      BY <3>1 DEF Revision, RevisionsMove
  <2> QED
    BY <2>1, <2>2 DEF SourceTopics
<1>3. SourceVersion' = [t \in SourceTopics |-> Revision(t)']
  BY DEF SourceVersion, SourceTopics
<1>4. \A t \in topics : SourceVersion[t] < MaxRevision
  BY <1>2 DEF SourceVersion
<1>5. SourceVersion' = [t \in SourceTopics |->
          IF t \in topics THEN SourceVersion[t] + 1 ELSE SourceVersion[t]]
  BY <1>2, <1>3 DEF SourceVersion
<1> QED
  BY <1>1, <1>4, <1>5 DEF Source!Bump

LEMMA VersionsStay ==
    ASSUME RevisionsMove({})
    PROVE  UNCHANGED SourceVersion
<1>1. \A t \in SourceTopics : Revision(t)' = Revision(t)
  BY DEF SourceTopics, Revision, RevisionsMove
<1>2. SourceVersion' = [t \in SourceTopics |-> Revision(t)']
  BY DEF SourceVersion, SourceTopics
<1> QED
  BY <1>1, <1>2 DEF SourceVersion

(* The topics a device's change concerns. *)
LEMMA ScopeOfDevice ==
    ASSUME NEW d \in Devices
    PROVE  /\ Source!DeviceScope(d) \in SUBSET SourceTopics
           /\ \A g \in Groups :
                <<"group", g>> \in Source!DeviceScope(d) <=> g \in GroupsOf(d)
           /\ \A e \in Devices :
                <<"device", e>> \in Source!DeviceScope(d) <=> e = d
           /\ Source!DeviceScope(d) = {<<"device", d>>} \cup ({"group"} \X GroupsOf(d))
BY DEF Source!DeviceScope, Source!DeviceTopic, Source!GroupTopic, SourceTopics,
       GroupsOf

LEMMA GroupCommandRefines ==
    ASSUME TypeOK, NEW g \in GroupTopics, NEW r \in RequestIds,
           NEW c \in GroupCommandBody, ApplyAccepted(g, r, c)
    PROVE  Source!SourceNext
<1> DEFINE desired == Commanded(groupStates[g], r, c).desired
           followers == {d \in Members[g] :
                            \/ ForcesGroupControl(c)
                            \/ deviceStates[d].control_mode # "manual_override"}
           topics == {<<"group", g>>} \cup {<<"device", d>> : d \in followers}
<1>1. /\ g \in Groups
      /\ groupStates'[g].revision = groupStates[g].revision + 1
      /\ \A h \in Groups \ {g} : groupStates'[h] = groupStates[h]
      /\ UNCHANGED <<dirtyDevices, dirtyGroups, updateEvent>>
  BY AcceptedCommand
<1>2. Members[g] \subseteq Devices
  BY <1>1, TopologyAssumption
<1>3. /\ groupStates[g].revision < MaxRevision
      /\ \A d \in Members[g] : deviceStates[d].revision < MaxRevision
  BY DEF ApplyAccepted
<1>4. PICK sent : deviceStates' =
          SyncGroupDevices(g, desired, sent, ForcesGroupControl(c))
  BY DEF ApplyAccepted
<1> HIDE DEF desired
<1>5. ASSUME NEW d \in Devices
      PROVE  deviceStates'[d].revision =
               IF d \in followers THEN deviceStates[d].revision + 1
                                  ELSE deviceStates[d].revision
  <2>1. deviceStates[d] \in DeviceState
    BY DEF TypeOK
  <2> QED
    BY <1>4, <2>1 DEF SyncGroupDevices, SentToMember, DeviceState
<1>6. RevisionsMove(topics)
  <2>1. \A h \in Groups : <<"group", h>> \in topics <=> h = g
    OBVIOUS
  <2>2. \A d \in Devices : <<"device", d>> \in topics <=> d \in followers
    OBVIOUS
  <2> HIDE DEF topics
  <2> QED
    BY <1>1, <1>3, <1>5, <2>1, <2>2 DEF RevisionsMove
<1>7. topics \in SUBSET SourceTopics
  BY <1>1, <1>2 DEF SourceTopics
<1>8. Source!Bump({Source!GroupTopic(g)} \cup {Source!DeviceTopic(d) : d \in followers})
  <2>1. Source!Bump(topics)
    BY <1>6, <1>7, VersionsMove
  <2> QED
    BY <2>1 DEF Source!GroupTopic, Source!DeviceTopic
<1>9. UNCHANGED <<SourceDirty, updateEvent>>
  BY <1>1 DEF SourceDirty
<1>10. followers \in SUBSET Members[g]
  OBVIOUS
<1> HIDE DEF followers
<1>11. Source!GroupCommanded(g)
  BY <1>8, <1>9, <1>10 DEF Source!GroupCommanded
<1> QED
  BY <1>1, <1>11 DEF Source!SourceNext

LEMMA DeviceCommandRefines ==
    ASSUME TypeOK, NEW d \in Devices, NEW r, NEW updated,
           BelowBound(d), StoreDevice(d, r, updated),
           updated.revision = deviceStates[d].revision + 1
    PROVE  Source!SourceNext
<1>1. /\ deviceStates' = [deviceStates EXCEPT ![d] = updated]
      /\ UNCHANGED <<dirtyDevices, dirtyGroups, updateEvent>>
  BY DEF StoreDevice
<1>2. PICK shown : groupStates' = [g \in Groups |->
            IF g \in GroupsOf(d)
            THEN RefreshGroupMembers(g, groupStates[g], deviceStates',
                                     shown[g], TRUE)
            ELSE groupStates[g]]
  BY DEF StoreDevice
<1>3. ASSUME NEW g \in Groups
      PROVE  groupStates'[g].revision =
               IF g \in GroupsOf(d) THEN groupStates[g].revision + 1
                                    ELSE groupStates[g].revision
  <2>1. groupStates[g] \in GroupState(g)
    BY DEF TypeOK
  <2>2. RefreshGroupMembers(g, groupStates[g], deviceStates', shown[g], TRUE).revision
          = groupStates[g].revision + 1
    BY <2>1 DEF RefreshGroupMembers, Bump, GroupState
  <2>3. groupStates'[g] =
          IF g \in GroupsOf(d)
          THEN RefreshGroupMembers(g, groupStates[g], deviceStates', shown[g], TRUE)
          ELSE groupStates[g]
    BY <1>2
  <2> QED
    BY <2>2, <2>3
<1>4. \A e \in Devices :
        deviceStates'[e].revision =
          IF e = d THEN deviceStates[e].revision + 1 ELSE deviceStates[e].revision
  BY <1>1 DEF TypeOK
<1>5. RevisionsMove(Source!DeviceScope(d))
  BY <1>3, <1>4, ScopeOfDevice DEF RevisionsMove, BelowBound
<1>6. Source!Bump(Source!DeviceScope(d))
  BY <1>5, VersionsMove, ScopeOfDevice
<1>7. UNCHANGED <<SourceDirty, updateEvent>>
  BY <1>1 DEF SourceDirty
<1>8. Source!DeviceCommanded(d)
  BY <1>6, <1>7 DEF Source!DeviceCommanded
<1> QED
  BY <1>8 DEF Source!SourceNext

LEMMA ObservationRefines ==
    ASSUME TypeOK, NEW d \in Devices, NEW device \in DeviceState,
           device.revision = deviceStates[d].revision,
           NEW semantic \in BOOLEAN, NEW refresh \in BOOLEAN,
           NEW publish \in BOOLEAN, semantic => refresh /\ publish,
           StoreObservation(d, device, semantic, refresh, publish)
    PROVE  Source!SourceNext \/ UNCHANGED <<SourceVersion, SourceDirty, updateEvent>>
<1>1. /\ semantic => BelowBound(d)
      /\ deviceStates' = [deviceStates EXCEPT ![d] =
            [device EXCEPT !.revision = Bump(@, semantic)]]
      /\ dirtyDevices' = IF publish THEN dirtyDevices \cup {d} ELSE dirtyDevices
      /\ dirtyGroups' = IF publish THEN dirtyGroups \cup GroupsOf(d)
                                   ELSE dirtyGroups
      /\ updateEvent' = (updateEvent \/ publish)
  BY DEF StoreObservation, StoreAndRefresh
<1>2. PICK shown : groupStates' = [g \in Groups |->
            IF g \in (IF refresh THEN GroupsOf(d) ELSE {})
            THEN RefreshGroupObservation(g, groupStates[g], deviceStates',
                                         shown[g], semantic)
            ELSE groupStates[g]]
  BY DEF StoreObservation, StoreAndRefresh
<1>3. ASSUME NEW g \in Groups
      PROVE  groupStates'[g].revision =
               IF semantic /\ g \in GroupsOf(d)
               THEN groupStates[g].revision + 1 ELSE groupStates[g].revision
  <2>1. groupStates[g] \in GroupState(g)
    BY DEF TypeOK
  <2> DEFINE after == RefreshGroupObservation(g, groupStates[g], deviceStates',
                                              shown[g], semantic)
  <2>2. after.revision = IF semantic THEN groupStates[g].revision + 1
                                     ELSE groupStates[g].revision
    BY <2>1 DEF RefreshGroupObservation, Bump, GroupState
  <2>3. groupStates'[g] =
          IF g \in (IF refresh THEN GroupsOf(d) ELSE {})
          THEN after ELSE groupStates[g]
    BY <1>2
  <2> HIDE DEF after
  <2> QED
    BY <2>2, <2>3
<1>4. ASSUME NEW e \in Devices
      PROVE  deviceStates'[e].revision =
               IF semantic /\ e = d
               THEN deviceStates[e].revision + 1 ELSE deviceStates[e].revision
  <2>1. CASE e = d
    BY <1>1, <2>1 DEF TypeOK, Bump, DeviceState
  <2>2. CASE e # d
    BY <1>1, <2>2 DEF TypeOK
  <2> QED
    BY <2>1, <2>2
<1>5. CASE publish
  <2>1. SourceDirty' = SourceDirty \cup Source!DeviceScope(d) /\ updateEvent' = TRUE
    <3>1. updateEvent' = TRUE
      BY <1>1, <1>5, Zenon
    <3>2. dirtyDevices' = dirtyDevices \cup {d} /\ dirtyGroups' = dirtyGroups \cup GroupsOf(d)
      BY <1>1, <1>5
    <3>3. Source!DeviceScope(d) = {<<"device", d>>} \cup ({"group"} \X GroupsOf(d))
      BY ScopeOfDevice
    <3>4. SourceDirty' = SourceDirty \cup Source!DeviceScope(d)
      BY <3>2, <3>3 DEF SourceDirty
    <3> QED
      BY <3>1, <3>4
  <2>2. Source!Announce(Source!DeviceScope(d))
    BY <2>1 DEF Source!Announce
  <2>3. CASE semantic
    <3>1. RevisionsMove(Source!DeviceScope(d))
      BY <1>1, <1>3, <1>4, <2>3, ScopeOfDevice DEF RevisionsMove, BelowBound
    <3>2. Source!Bump(Source!DeviceScope(d))
      BY <3>1, VersionsMove, ScopeOfDevice
    <3> QED
      BY <2>2, <3>2 DEF Source!Observed, Source!SourceNext
  <2>4. CASE ~semantic
    <3>1. RevisionsMove({})
      BY <1>3, <1>4, <2>4 DEF RevisionsMove
    <3>2. UNCHANGED SourceVersion
      BY <3>1, VersionsStay
    <3> QED
      BY <2>2, <3>2 DEF Source!Refreshed, Source!SourceNext
  <2> QED
    BY <2>3, <2>4
<1>6. CASE ~publish
  <2>1. RevisionsMove({})
    BY <1>3, <1>4, <1>6 DEF RevisionsMove
  <2>2. UNCHANGED <<dirtyDevices, dirtyGroups, updateEvent>>
    BY <1>1, <1>6 DEF TypeOK
  <2> QED
    BY <2>1, <2>2, VersionsStay DEF SourceDirty
<1> QED
  BY <1>5, <1>6

LEMMA ObserverEventRefines ==
    ASSUME TypeOK, NEW d \in Reporting, RecordObserverEvent(d)
    PROVE  Source!SourceNext \/ UNCHANGED <<SourceVersion, SourceDirty, updateEvent>>
<1>1. d \in Devices /\ deviceStates[d] \in DeviceState
      /\ deviceStates[d].observed \in Observation
  BY TopologyAssumption DEF TypeOK, DeviceState
<1>2. ASSUME NEW s \in Readouts, RecordReadout(d, s)
      PROVE  Source!SourceNext
               \/ UNCHANGED <<SourceVersion, SourceDirty, updateEvent>>
  <2> DEFINE seen == deviceStates[d].observed
             device == [deviceStates[d] EXCEPT !.observed = Merged(seen, s),
                                               !.status = ReadoutStatus(s)]
  <2>1. Merged(seen, s) \in Observation /\ ReadoutStatus(s) \in DeviceStatuses
    BY <1>1, MergedType DEF ReadoutStatus, DeviceStatuses
  <2>2. device \in DeviceState /\ device.revision = deviceStates[d].revision
    BY <1>1, <2>1 DEF DeviceState
  <2>3. PICK semantic \in BOOLEAN, publish \in BOOLEAN :
          /\ StoreObservation(d, device, semantic, TRUE, publish)
          /\ semantic => publish
    BY <1>2 DEF RecordReadout
  <2> HIDE DEF device
  <2> QED
    BY <1>1, <2>2, <2>3, ObservationRefines
<1>3. ASSUME NEW status \in {"connecting", "unmapped", "offline"},
             NEW error \in Errors \cup {None}, RecordAbsence(d, status, error)
      PROVE  Source!SourceNext
               \/ UNCHANGED <<SourceVersion, SourceDirty, updateEvent>>
  <2> DEFINE online == CASE status = "unmapped"   -> Unknown
                         [] status = "connecting" -> deviceStates[d].observed.online
                         [] OTHER                 -> "false"
             device == [deviceStates[d] EXCEPT
                          !.observed = [@ EXCEPT !.online = online,
                                                 !.error = error],
                          !.status = status]
  <2>1. online \in Ternary
    BY <1>1 DEF Observation, Ternary, Unknown
  <2>2. PICK semantic \in BOOLEAN :
          StoreObservation(d, device, semantic, semantic, semantic)
    BY <1>3 DEF RecordAbsence
  <2> HIDE DEF online
  <2>3. [deviceStates[d].observed EXCEPT !.online = online, !.error = error]
          \in Observation
    BY <1>1, <2>1 DEF Observation
  <2>4. device \in DeviceState /\ device.revision = deviceStates[d].revision
    BY <1>1, <2>3 DEF DeviceState, DeviceStatuses
  <2> HIDE DEF device
  <2> QED
    BY <1>1, <2>2, <2>4, ObservationRefines
<1> QED
  BY <1>2, <1>3 DEF RecordObserverEvent

LEMMA StepRefines ==
    ASSUME TypeOK, [Next]_vars
    PROVE  Source!SourceNext \/ UNCHANGED <<SourceVersion, SourceDirty, updateEvent>>
<1>1. ASSUME NEW g \in GroupTopics, NEW r \in RequestIds, NEW c \in GroupCommands,
             ApplyGroup(g, r, c)
      PROVE  Source!SourceNext
               \/ UNCHANGED <<SourceVersion, SourceDirty, updateEvent>>
  <2>1. CASE ApplyAccepted(g, r, c)
    BY <2>1, GroupCommandRefines, CommandAssumption
  <2>2. CASE ApplyRejected(g, r, c)
    BY <2>2 DEF ApplyRejected, SourceVersion, SourceDirty, Revision
  <2> QED
    BY <1>1, <2>1, <2>2 DEF ApplyGroup
<1>2. ASSUME NEW d \in DeviceTopics, NEW r \in RequestIds, NEW c \in DeviceCommands,
             ApplyDevice(d, r, c)
      PROVE  Source!SourceNext
               \/ UNCHANGED <<SourceVersion, SourceDirty, updateEvent>>
  <2>1. d \in Devices => deviceStates[d] \in DeviceState
    BY DEF TypeOK
  <2>2. CASE ApplyDeviceRejected(d, r, c)
    BY <2>2 DEF ApplyDeviceRejected, SourceVersion, SourceDirty, Revision
  <2>3. CASE ApplyDeviceResume(d, r, c)
    <3>1. d \in Devices /\ BelowBound(d)
      BY <2>3, DeviceVerdictAccepted DEF ApplyDeviceResume
    <3>2. PICK target : StoreDevice(d, r, Resumed(deviceStates[d], r, target))
      BY <2>3 DEF ApplyDeviceResume
    <3>3. Resumed(deviceStates[d], r, target).revision = deviceStates[d].revision + 1
      BY <2>1, <3>1 DEF Resumed, DeviceState
    <3> QED
      BY <3>1, <3>2, <3>3, DeviceCommandRefines
  <2>4. CASE ApplyDeviceOverride(d, r, c)
    <3>1. d \in Devices /\ BelowBound(d) /\ StoreDevice(d, r, Overridden(d, r, c))
      BY <2>4, DeviceVerdictAccepted DEF ApplyDeviceOverride
    <3>2. Overridden(d, r, c).revision = deviceStates[d].revision + 1
      BY <2>1, <3>1 DEF Overridden, DeviceState
    <3> QED
      BY <3>1, <3>2, DeviceCommandRefines
  <2> QED
    BY <1>2, <2>2, <2>3, <2>4 DEF ApplyDevice
<1>3. ASSUME WaitForUpdates
      PROVE  Source!SourceNext
  <2>1. SourceDirty' = {} /\ UNCHANGED SourceVersion /\ updateEvent /\ updateEvent' = FALSE
    BY <1>3 DEF WaitForUpdates, SourceDirty, SourceVersion, Revision
  <2> QED
    BY <2>1 DEF Source!Drained, Source!SourceNext
<1>4. CASE UNCHANGED vars
  BY <1>4 DEF vars, SourceVersion, SourceDirty, Revision
<1> QED
  BY <1>1, <1>2, <1>3, <1>4, ObserverEventRefines DEF Next

LEMMA InitRefines == Init => Source!SourceInit
<1> SUFFICES ASSUME Init PROVE Source!SourceInit
  OBVIOUS
<1>1. \A d \in Devices : deviceStates[d].revision = 0
  BY DEF Init, InitialDeviceState
<1>2. \A g \in Groups : groupStates[g].revision = 0
  BY DEF Init, InitialState
<1>3. \A t \in SourceTopics : Revision(t) = 0
  BY <1>1, <1>2 DEF SourceTopics, Revision
<1>4. SourceDirty = {} /\ updateEvent = FALSE
  BY DEF Init, SourceDirty
<1> QED
  BY <1>3, <1>4 DEF Source!SourceInit, Source!StateTopics, SourceVersion, SourceTopics

(* The service implements the source of states the adapter is built on: the *)
(* revisions of a device and of its groups move together, observations are  *)
(* announced in the step that makes them, and only wait_for_updates takes    *)
(* an announcement back.                                                     *)
THEOREM RefinesSource == Spec => ImplementsSource
<1>1. TypeOK /\ [Next]_vars => [Source!SourceNext]_(Source!sourceVars)
  BY StepRefines DEF Source!sourceVars
<1> QED
  BY <1>1, InitRefines, TypeCorrect, PTL DEF Spec, ImplementsSource, Source!SourceSpec

-----------------------------------------------------------------------------
(* The order of remembered results *)

(* A log with one entry more, and perhaps the oldest one less.             *)
LEMMA RememberShift ==
    ASSUME NEW topics, NEW log, Log(log, topics), NEW result \in Result(topics)
    PROVE  \E kept \in Seq(Result(topics)), shift \in {0, 1} :
             /\ Remember(log, result) = Append(kept, result)
             /\ \A i \in DOMAIN kept :
                  i + shift \in DOMAIN log /\ kept[i] = log[i + shift]
<1>1. log \in Seq(Result(topics))
  BY DEF Log
<1>2. CASE Len(log) < MaxDedup
  <2>1. /\ Remember(log, result) = Append(log, result)
        /\ \A i \in DOMAIN log : i + 0 \in DOMAIN log /\ log[i] = log[i + 0]
    BY <1>1, <1>2 DEF Remember
  <2> QED
    BY <1>1, <2>1
<1>3. CASE ~(Len(log) < MaxDedup)
  <2>1. log # <<>>
    BY <1>1, <1>3, BoundsAssumption
  <2>2. /\ Tail(log) \in Seq(Result(topics))
        /\ \A i \in DOMAIN Tail(log) :
             i + 1 \in DOMAIN log /\ Tail(log)[i] = log[i + 1]
    BY <1>1, <2>1
  <2>3. Remember(log, result) = Append(Tail(log), result)
    BY <1>3 DEF Remember
  <2> QED
    BY <2>2, <2>3
<1> QED
  BY <1>2, <1>3

LEMMA RevisionsTyped ==
    ASSUME NEW topics, NEW log, Log(log, topics), NEW i \in DOMAIN log
    PROVE  log[i].revision \in Nat
<1>1. log[i] \in Result(topics)
  BY DEF Log
<1> QED
  BY <1>1, BoundsAssumption DEF Result, Revisions

LEMMA RememberOrdered ==
    ASSUME NEW topics, NEW log, Log(log, topics), NEW result \in Result(topics),
           NEW known, NEW before, NEW after,
           \A t \in known :
             /\ before[t].revision \in Nat /\ after[t].revision \in Nat
             /\ before[t].revision <= after[t].revision,
           result.target \in known =>
             /\ before[result.target].revision <= result.revision
             /\ result.revision <= after[result.target].revision
             /\ result.reason = Accepted =>
                  before[result.target].revision < result.revision,
           ResultsOrdered(log, before, known)
    PROVE  ResultsOrdered(Remember(log, result), after, known)
<1>1. PICK kept \in Seq(Result(topics)), shift \in {0, 1} :
        /\ Remember(log, result) = Append(kept, result)
        /\ \A i \in DOMAIN kept :
             i + shift \in DOMAIN log /\ kept[i] = log[i + shift]
  BY RememberShift
<1> DEFINE new == Append(kept, result)
           last == Len(kept) + 1
<1>2. /\ DOMAIN new = 1 .. last /\ DOMAIN kept = 1 .. Len(kept)
      /\ Len(kept) \in Nat
      /\ new[last] = result
      /\ \A i \in DOMAIN kept : new[i] = kept[i]
  OBVIOUS
<1>3. \A i \in DOMAIN log : log[i].revision \in Nat
  BY RevisionsTyped
<1>4. result.revision \in Nat
  BY BoundsAssumption DEF Result, Revisions
<1> HIDE DEF new
<1>5. ASSUME NEW i \in DOMAIN kept, kept[i].target \in known
      PROVE  /\ kept[i].revision \in Nat
             /\ kept[i].revision <= before[kept[i].target].revision
             /\ \A j \in DOMAIN kept : j < i /\ kept[j].target = kept[i].target =>
                  /\ kept[j].revision <= kept[i].revision
                  /\ kept[i].reason = Accepted => kept[j].revision < kept[i].revision
  <2>1. i + shift \in DOMAIN log /\ kept[i] = log[i + shift] /\ i \in Nat
    BY <1>1, <1>2, <1>5
  <2>2. ASSUME NEW j \in DOMAIN kept, j < i, kept[j].target = kept[i].target
        PROVE  /\ kept[j].revision <= kept[i].revision
               /\ kept[i].reason = Accepted => kept[j].revision < kept[i].revision
    <3>1. /\ j + shift \in DOMAIN log /\ kept[j] = log[j + shift]
          /\ j + shift < i + shift
      BY <1>1, <1>2, <2>1, <2>2
    <3> QED
      BY <1>5, <2>1, <2>2, <3>1 DEF ResultsOrdered
  <2> QED
    BY <1>3, <1>5, <2>1, <2>2 DEF ResultsOrdered
<1>6. ASSUME NEW i \in 1 .. last, new[i].target \in known
      PROVE  /\ new[i].revision <= after[new[i].target].revision
             /\ \A j \in 1 .. last : j < i /\ new[j].target = new[i].target =>
                  /\ new[j].revision <= new[i].revision
                  /\ new[i].reason = Accepted => new[j].revision < new[i].revision
  <2>1. CASE i \in DOMAIN kept
    <3>1. \A j \in 1 .. last : j < i => j \in DOMAIN kept
      BY <1>2, <2>1
    <3>2. new[i] = kept[i] /\ \A j \in DOMAIN kept : new[j] = kept[j]
      BY <1>2, <2>1
    <3>3. new[i].revision <= after[new[i].target].revision
      BY <1>5, <1>6, <2>1, <3>2
    <3> QED
      BY <1>5, <1>6, <2>1, <3>1, <3>2, <3>3
  <2>2. CASE i = last
    <3>1. \A j \in 1 .. last : j < i => j \in DOMAIN kept
      BY <1>2, <2>2
    <3>2. ASSUME NEW j \in DOMAIN kept, kept[j].target = result.target
          PROVE  /\ kept[j].revision <= result.revision
                 /\ result.reason = Accepted => kept[j].revision < result.revision
      BY <1>2, <1>4, <1>5, <1>6, <2>2, <3>2
    <3> QED
      BY <1>2, <1>6, <2>2, <3>1, <3>2
  <2> QED
    BY <1>2, <2>1, <2>2
<1> QED
  BY <1>1, <1>2, <1>6 DEF ResultsOrdered, new

(* A log that stays in order while the revisions grow.                     *)
LEMMA StaysOrdered ==
    ASSUME NEW topics, NEW log, Log(log, topics), NEW known, NEW before, NEW after,
           \A t \in known :
             /\ before[t].revision \in Nat /\ after[t].revision \in Nat
             /\ before[t].revision <= after[t].revision,
           ResultsOrdered(log, before, known)
    PROVE  ResultsOrdered(log, after, known)
<1>1. \A i \in DOMAIN log : log[i].revision \in Nat
  BY RevisionsTyped
<1> QED
  BY <1>1 DEF ResultsOrdered

(* No step takes a revision back. *)
LEMMA RevisionsGrow ==
    ASSUME TypeOK, TypeOK', [Next]_vars
    PROVE  /\ \A g \in Groups :
                /\ groupStates[g].revision \in Nat /\ groupStates'[g].revision \in Nat
                /\ groupStates[g].revision <= groupStates'[g].revision
           /\ \A d \in Devices :
                /\ deviceStates[d].revision \in Nat /\ deviceStates'[d].revision \in Nat
                /\ deviceStates[d].revision <= deviceStates'[d].revision
<1>1. /\ \A g \in Groups : groupStates[g].revision \in Nat
                            /\ groupStates'[g].revision \in Nat
      /\ \A d \in Devices : deviceStates[d].revision \in Nat
                             /\ deviceStates'[d].revision \in Nat
  BY BoundsAssumption DEF TypeOK, GroupState, DeviceState, Revisions
<1>2. \A t \in SourceTopics : Revision(t) \in Nat
  BY <1>1 DEF SourceTopics, Revision
<1>3. Source!StateTopics = SourceTopics
  BY DEF Source!StateTopics, SourceTopics
<1>4. UNCHANGED SourceVersion \/ \E topics : Source!Bump(topics)
  BY StepRefines DEF Source!SourceNext, Source!GroupCommanded,
       Source!DeviceCommanded, Source!Observed, Source!Refreshed, Source!Drained
<1>5. ASSUME NEW t \in SourceTopics PROVE Revision(t) <= Revision(t)'
  <2>1. SourceVersion[t] = Revision(t) /\ SourceVersion'[t] = Revision(t)'
    BY DEF SourceVersion, SourceTopics
  <2>2. SourceVersion'[t] = SourceVersion[t] \/ SourceVersion'[t] = SourceVersion[t] + 1
    BY <1>3, <1>4 DEF Source!Bump
  <2> QED
    BY <1>2, <2>1, <2>2
<1>6. /\ \A g \in Groups : Revision(<<"group", g>>) = groupStates[g].revision
                            /\ Revision(<<"group", g>>)' = groupStates'[g].revision
      /\ \A d \in Devices : Revision(<<"device", d>>) = deviceStates[d].revision
                             /\ Revision(<<"device", d>>)' = deviceStates'[d].revision
  BY DEF Revision
<1>7. /\ \A g \in Groups : <<"group", g>> \in SourceTopics
      /\ \A d \in Devices : <<"device", d>> \in SourceTopics
  BY DEF SourceTopics
<1> QED
  BY <1>1, <1>5, <1>6, <1>7

LEMMA GroupResultsStep ==
    ASSUME TypeOK, TypeOK', [Next]_vars, ResultsOrdered(results, groupStates, Groups)
    PROVE  ResultsOrdered(results', groupStates', Groups)
<1>1. Log(results, GroupTopics)
  BY DEF TypeOK, Log
<1>2. CASE UNCHANGED results
  BY <1>1, <1>2, RevisionsGrow, StaysOrdered
<1>3. ASSUME NEW g \in GroupTopics, NEW r \in RequestIds, NEW c \in GroupCommands,
             ApplyRejected(g, r, c)
      PROVE  ResultsOrdered(results', groupStates', Groups)
  <2> DEFINE revision == IF g \in Groups THEN groupStates[g].revision ELSE 0
             result   == [request_id |-> r, target |-> g,
                          reason |-> GroupVerdict(g, c), revision |-> revision]
  <2>1. revision \in Revisions
    BY BoundsAssumption DEF TypeOK, GroupState, Revisions
  <2>2. result \in Result(GroupTopics)
    <3> HIDE DEF revision
    <3> QED
      BY <2>1, GroupVerdictType DEF Result
  <2>3. /\ results' = Remember(results, result) /\ groupStates' = groupStates
        /\ result.reason # Accepted /\ result.target = g
        /\ g \in Groups => result.revision = groupStates[g].revision
    BY <1>3 DEF ApplyRejected
  <2> HIDE DEF result
  <2> QED
    BY <1>1, <2>2, <2>3, RevisionsGrow, RememberOrdered
<1>4. ASSUME NEW g \in GroupTopics, NEW r \in RequestIds, NEW c \in GroupCommands,
             ApplyAccepted(g, r, c)
      PROVE  ResultsOrdered(results', groupStates', Groups)
  <2> DEFINE updated == Commanded(groupStates[g], r, c)
             result  == [request_id |-> r, target |-> g, reason |-> Accepted,
                         revision |-> updated.revision]
  <2>1. /\ g \in Groups /\ GroupOK(g, updated)
        /\ groupStates'[g].revision = groupStates[g].revision + 1
    BY <1>4, AcceptedCommand, CommandAssumption
  <2>2. updated.revision = groupStates[g].revision + 1
    BY <2>1 DEF Commanded, TypeOK, GroupState
  <2>3. results' = Remember(results, result)
    BY <1>4 DEF ApplyAccepted
  <2> HIDE DEF updated
  <2>4. result \in Result(GroupTopics)
    BY <2>1 DEF Result, GroupOK, GroupState
  <2>5. result.target = g /\ result.revision = groupStates[g].revision + 1
    BY <2>2
  <2> HIDE DEF result
  <2> QED
    BY <1>1, <2>1, <2>3, <2>4, <2>5, RevisionsGrow, RememberOrdered
<1>5. \/ UNCHANGED results
      \/ \E g \in GroupTopics, r \in RequestIds, c \in GroupCommands :
           ApplyRejected(g, r, c) \/ ApplyAccepted(g, r, c)
  <2>1. ASSUME NEW d \in Reporting, RecordObserverEvent(d)
        PROVE  UNCHANGED results
    BY <2>1, ObserverEventKeeps DEF ObservationKeeps
  <2>2. ASSUME NEW d, NEW r, NEW c, ApplyDevice(d, r, c)
        PROVE  UNCHANGED results
    BY <2>2 DEF ApplyDevice, ApplyDeviceRejected, ApplyDeviceResume,
                ApplyDeviceOverride, StoreDevice
  <2> QED
    BY <2>1, <2>2 DEF Next, vars, ApplyGroup, WaitForUpdates
<1> QED
  BY <1>2, <1>3, <1>4, <1>5

(* The result of a device command that was carried out. *)
LEMMA StoredResult ==
    ASSUME TypeOK, TypeOK', [Next]_vars, NEW d \in Devices, NEW r \in RequestIds,
           NEW updated, StoreDevice(d, r, updated),
           updated.revision = deviceStates[d].revision + 1,
           ResultsOrdered(deviceResults, deviceStates, Devices)
    PROVE  ResultsOrdered(deviceResults', deviceStates', Devices)
<1> DEFINE result == [request_id |-> r, target |-> d, reason |-> Accepted,
                      revision |-> updated.revision]
<1>1. /\ Log(deviceResults, DeviceTopics)
      /\ deviceResults' = Remember(deviceResults, result)
  BY DEF TypeOK, Log, StoreDevice
<1>2. deviceStates'[d] = updated /\ updated \in DeviceState
  BY DEF TypeOK, StoreDevice
<1>3. result \in Result(DeviceTopics)
  BY <1>2, TopologyAssumption DEF Result, DeviceState
<1>4. /\ result.target = d /\ result.revision = deviceStates[d].revision + 1
      /\ result.revision = deviceStates'[d].revision
  BY <1>2
<1> HIDE DEF result
<1> QED
  BY <1>1, <1>3, <1>4, RevisionsGrow, RememberOrdered

LEMMA DeviceResultsStep ==
    ASSUME TypeOK, TypeOK', [Next]_vars,
           ResultsOrdered(deviceResults, deviceStates, Devices)
    PROVE  ResultsOrdered(deviceResults', deviceStates', Devices)
<1>1. Log(deviceResults, DeviceTopics)
  BY DEF TypeOK, Log
<1>2. CASE UNCHANGED deviceResults
  BY <1>1, <1>2, RevisionsGrow, StaysOrdered
<1>3. ASSUME NEW d \in DeviceTopics, NEW r \in RequestIds, NEW c \in DeviceCommands,
             ApplyDeviceRejected(d, r, c)
      PROVE  ResultsOrdered(deviceResults', deviceStates', Devices)
  <2> DEFINE revision == IF d \in Devices THEN deviceStates[d].revision ELSE 0
             result   == [request_id |-> r, target |-> d,
                          reason |-> DeviceVerdict(d, c), revision |-> revision]
  <2>1. revision \in Revisions
    BY BoundsAssumption DEF TypeOK, DeviceState, Revisions
  <2>2. result \in Result(DeviceTopics)
    <3> HIDE DEF revision
    <3> QED
      BY <2>1, DeviceVerdictType DEF Result
  <2>3. /\ deviceResults' = Remember(deviceResults, result)
        /\ deviceStates' = deviceStates
        /\ result.reason # Accepted /\ result.target = d
        /\ d \in Devices => result.revision = deviceStates[d].revision
    BY <1>3 DEF ApplyDeviceRejected
  <2> HIDE DEF result
  <2> QED
    BY <1>1, <2>2, <2>3, RevisionsGrow, RememberOrdered
<1>4. ASSUME NEW d \in DeviceTopics, NEW r \in RequestIds, NEW c \in DeviceCommands,
             ApplyDeviceResume(d, r, c) \/ ApplyDeviceOverride(d, r, c)
      PROVE  ResultsOrdered(deviceResults', deviceStates', Devices)
  <2>1. d \in Devices
    BY <1>4, DeviceVerdictAccepted DEF ApplyDeviceResume, ApplyDeviceOverride
  <2>2. deviceStates[d] \in DeviceState
    BY <2>1 DEF TypeOK
  <2>3. CASE ApplyDeviceResume(d, r, c)
    <3>1. PICK target : StoreDevice(d, r, Resumed(deviceStates[d], r, target))
      BY <2>3 DEF ApplyDeviceResume
    <3>2. Resumed(deviceStates[d], r, target).revision = deviceStates[d].revision + 1
      BY <2>2 DEF Resumed, DeviceState
    <3> QED
      BY <2>1, <3>1, <3>2, StoredResult
  <2>4. CASE ApplyDeviceOverride(d, r, c)
    <3>1. StoreDevice(d, r, Overridden(d, r, c))
      BY <2>4 DEF ApplyDeviceOverride
    <3>2. Overridden(d, r, c).revision = deviceStates[d].revision + 1
      BY <2>2 DEF Overridden, DeviceState
    <3> QED
      BY <2>1, <3>1, <3>2, StoredResult
  <2> QED
    BY <1>4, <2>3, <2>4
<1>5. \/ UNCHANGED deviceResults
      \/ \E d \in DeviceTopics, r \in RequestIds, c \in DeviceCommands :
           \/ ApplyDeviceRejected(d, r, c)
           \/ ApplyDeviceResume(d, r, c) \/ ApplyDeviceOverride(d, r, c)
  <2>1. ASSUME NEW d \in Reporting, RecordObserverEvent(d)
        PROVE  UNCHANGED deviceResults
    BY <2>1, ObserverEventKeeps DEF ObservationKeeps
  <2>2. ASSUME NEW g, NEW r, NEW c, ApplyGroup(g, r, c)
        PROVE  UNCHANGED deviceResults
    BY <2>2 DEF ApplyGroup, ApplyRejected, ApplyAccepted
  <2> QED
    BY <2>1, <2>2 DEF Next, vars, ApplyDevice, WaitForUpdates
<1> QED
  BY <1>2, <1>3, <1>4, <1>5

(* Remembered results tell the order in which requests were answered: none *)
(* runs ahead of the state it speaks of, and one that changed something     *)
(* carries a higher revision than everything answered before it (_remember  *)
(* and _remember_device).                                                   *)
THEOREM ResultsInOrder == Spec => []ResultRevisionsOrdered
<1>1. Init => ResultRevisionsOrdered
  BY DEF Init, ResultRevisionsOrdered, ResultsOrdered
<1>2. TypeOK /\ TypeOK' /\ ResultRevisionsOrdered /\ [Next]_vars
        => ResultRevisionsOrdered'
  BY GroupResultsStep, DeviceResultsStep DEF ResultRevisionsOrdered
<1> QED
  BY <1>1, <1>2, TypeCorrect, PTL DEF Spec

=============================================================================
