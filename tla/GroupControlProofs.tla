-------------------------- MODULE GroupControlProofs --------------------------
(***************************************************************************)
(* Proofs about GroupControl for every configuration, every set of         *)
(* commands and every bound.  The first part types the operators the       *)
(* actions are built from; the theorems follow.                            *)
(***************************************************************************)
EXTENDS GroupControlProperties, FiniteSetTheorems, WellFoundedInduction, TLAPS

Targets(g) == [Members[g] -> [enabled : BOOLEAN, power : Powers]]

-----------------------------------------------------------------------------
(* Operators *)

(* A set of times that is not empty has a latest element. *)
LEMMA LatestExists ==
    ASSUME NEW S \in SUBSET Times, S # {}
    PROVE  \E t \in S : \A u \in S : u <= t
<1> DEFINE Before == OpToRel(<, Nat)
           Lags   == {MaxTime - t : t \in S}
<1>1. Lags \in SUBSET Nat /\ Lags # {}
  <2>1. \A t \in S : MaxTime - t \in Nat
    BY BoundsAssumption DEF Times
  <2> QED BY <2>1
<1>2. PICK lag \in Lags : \A y \in Lags : <<y, lag>> \notin Before
  <2> HIDE DEF Before, Lags
  <2> QED BY <1>1, NatLessThanWellFounded, WFMin DEF Before
<1>3. \A y \in Lags : ~(y < lag)
  BY <1>1, <1>2 DEF OpToRel
<1>4. PICK t \in S : lag = MaxTime - t
  BY <1>2
<1>5. \A u \in S : ~(MaxTime - u < MaxTime - t)
  BY <1>3, <1>4
<1> QED
  BY <1>4, <1>5, BoundsAssumption DEF Times

LEMMA LatestType ==
    ASSUME NEW S \in SUBSET Times
    PROVE  Latest(S) \in Times
<1>1. CASE S = {}
  BY <1>1, BoundsAssumption DEF Latest, Times
<1>2. CASE S # {}
  BY <1>2, LatestExists DEF Latest
<1> QED
  BY <1>1, <1>2

(* A target is zero when disabled and within the limits otherwise. *)
LEMMA ClampedPower ==
    ASSUME NEW desired \in Desired, desired.min_power <= desired.max_power,
           NEW value \in Int, NEW enabled \in BOOLEAN
    PROVE  LET power == ClampEnabledPower(value, desired, enabled)
           IN  /\ power \in Powers
               /\ enabled => power \in desired.min_power .. desired.max_power
               /\ ~enabled => power = 0
<1>1. desired.min_power \in 0 .. MaxPower /\ desired.max_power \in 0 .. MaxPower
  BY DEF Desired, Powers
<1>2. Clamp(value, 100 * desired.min_power, 100 * desired.max_power)
        \in 100 * desired.min_power .. 100 * desired.max_power
  BY <1>1 DEF Clamp
<1> QED
  BY <1>1, <1>2, BoundsAssumption DEF ClampEnabledPower, Powers

LEMMA TargetsType ==
    ASSUME NEW g \in Groups, NEW desired \in Desired,
           desired.min_power <= desired.max_power,
           NEW t \in CalculateTargets(g, desired)
    PROVE  /\ t \in Targets(g)
           /\ \A d \in Members[g] :
                /\ t[d].enabled = (desired.enabled /\ MemberConfig[g][d].enabled)
                /\ t[d].enabled =>
                     t[d].power \in desired.min_power .. desired.max_power
                /\ ~t[d].enabled => t[d].power = 0
<1>1. PICK demand \in Demands(g, desired) :
        t = [d \in Members[g] |-> MemberTarget(g, d, desired, demand[d])]
  BY DEF CalculateTargets
<1>2. desired.min_power \in Nat /\ desired.max_power \in Nat /\ desired.power \in Nat
      /\ desired.enabled \in BOOLEAN
  BY BoundsAssumption DEF Desired, Powers
<1>3. \A d \in Members[g] : demand[d] \in Int
  BY <1>2, ConfigAssumption DEF Demands
<1>4. ASSUME NEW d \in Members[g]
      PROVE  LET target == MemberTarget(g, d, desired, demand[d])
             IN  /\ target \in [enabled : BOOLEAN, power : Powers]
                 /\ target.enabled = (desired.enabled /\ MemberConfig[g][d].enabled)
                 /\ target.enabled =>
                      target.power \in desired.min_power .. desired.max_power
                 /\ ~target.enabled => target.power = 0
  <2>1. (desired.enabled /\ MemberConfig[g][d].enabled) \in BOOLEAN
    BY <1>2
  <2> QED
    BY <1>3, <2>1, ClampedPower DEF MemberTarget
<1> QED
  BY <1>1, <1>4 DEF Targets

(* What is known of the target map of one group among several. *)
LEMMA TargetsOfEachType ==
    ASSUME NEW gs \in SUBSET Groups, NEW states, NEW t \in TargetsOfEach(gs, states)
    PROVE  \A g \in gs : t[g] \in CalculateTargets(g, states[g].desired)
BY DEF TargetsOfEach

-----------------------------------------------------------------------------
(* Group views *)

LEMMA MembersType ==
    ASSUME NEW g \in Groups, NEW devs \in [Devices -> DeviceState],
           NEW t \in Targets(g)
    PROVE  CalculateMembers(g, devs, t) \in [Members[g] -> MemberState]
<1> SUFFICES ASSUME NEW d \in Members[g]
             PROVE  CalculateMembers(g, devs, t)[d] \in MemberState
  BY DEF CalculateMembers
<1>1. d \in Devices
  BY TopologyAssumption
<1>2. devs[d] \in DeviceState
  BY <1>1
<1>3. t[d].enabled \in BOOLEAN /\ t[d].power \in Powers
  BY DEF Targets
<1>4. /\ devs[d].enabled \in BOOLEAN /\ devs[d].power \in Powers
      /\ devs[d].observed \in Observation
  BY <1>2 DEF DeviceState
<1> QED
  BY <1>3, <1>4 DEF CalculateMembers, MemberState

(* The scalar conjuncts of TypeOK on one group record. *)
GroupOK(g, state) ==
    /\ state \in GroupState(g)
    /\ ~ObserverMode => state.desired.pattern \in SupportedPatterns
    /\ state.desired.min_power <= state.desired.max_power

LEMMA RefreshMembersType ==
    ASSUME NEW g \in Groups, NEW state, GroupOK(g, state),
           NEW devs \in [Devices -> DeviceState], NEW t \in Targets(g),
           NEW increment \in BOOLEAN, increment => state.revision < MaxRevision
    PROVE  GroupOK(g, RefreshGroupMembers(g, state, devs, t, increment))
<1>1. CalculateMembers(g, devs, t) \in [Members[g] -> MemberState]
  BY MembersType
<1>2. Bump(state.revision, increment) \in Revisions
  BY BoundsAssumption DEF Bump, GroupOK, GroupState, Revisions
<1> QED
  BY <1>1, <1>2 DEF RefreshGroupMembers, GroupOK, GroupState

LEMMA RefreshObservationType ==
    ASSUME NEW g \in Groups, NEW state, GroupOK(g, state),
           NEW devs \in [Devices -> DeviceState], NEW t \in Targets(g),
           NEW increment \in BOOLEAN, increment => state.revision < MaxRevision
    PROVE  GroupOK(g, RefreshGroupObservation(g, state, devs, t, increment))
<1> DEFINE members == CalculateMembers(g, devs, t)
           after == RefreshGroupObservation(g, state, devs, t, increment)
<1>1. members \in [Members[g] -> MemberState]
  BY MembersType
<1>2. Bump(state.revision, increment) \in Revisions
  BY BoundsAssumption DEF Bump, GroupOK, GroupState, Revisions
<1>3. ObservedStatus(members) \in GroupStatuses
  BY DEF ObservedStatus, GroupStatuses
<1>4. ObservedEnabled(members) \in Ternary
  BY DEF ObservedEnabled, Ternary, Switch, Unknown
<1>5. Cardinality(OnlineMembers(members)) \in Nat
  <2>1. OnlineMembers(members) \in SUBSET Devices
    BY <1>1, TopologyAssumption DEF OnlineMembers
  <2> QED
    BY <2>1, TopologyAssumption, FS_Subset, FS_CardinalityType
<1>6. \A d \in Members[g] : members[d].observed \in Observation
  BY <1>1 DEF MemberState
<1>7. Latest({members[d].observed["last_seen_at"] : d \in Members[g]}) \in Times
  BY <1>6, LatestType DEF Observation
<1>8. Latest({members[d].observed["last_changed_at"] : d \in Members[g]}) \in Times
  BY <1>6, LatestType DEF Observation
<1>9. Latest({members[d].observed["last_configuration_changed_at"] :
                d \in Members[g]}) \in Times
  BY <1>6, LatestType DEF Observation
<1> HIDE DEF members
<1> QED
  BY <1>1, <1>2, <1>3, <1>4, <1>5, <1>7, <1>8, <1>9
     DEF RefreshGroupObservation, GroupOK, GroupState, members

-----------------------------------------------------------------------------
(* Request logs *)

Log(log, topics) == log \in Seq(Result(topics)) /\ Len(log) <= MaxDedup

LEMMA RememberType ==
    ASSUME NEW topics, NEW log, Log(log, topics), NEW result \in Result(topics)
    PROVE  Log(Remember(log, result), topics)
<1>1. CASE Len(log) < MaxDedup
  BY <1>1, BoundsAssumption DEF Log, Remember
<1>2. CASE ~(Len(log) < MaxDedup)
  <2>1. log # <<>> /\ Len(log) = MaxDedup
    BY <1>2, BoundsAssumption DEF Log
  <2>2. Tail(log) \in Seq(Result(topics)) /\ Len(Tail(log)) = Len(log) - 1
    BY <2>1, BoundsAssumption DEF Log
  <2> QED
    BY <1>2, <2>1, <2>2, BoundsAssumption DEF Log, Remember
<1> QED
  BY <1>1, <1>2

-----------------------------------------------------------------------------
(* Commands *)

LEMMA PatchedType ==
    ASSUME NEW desired \in Desired, NEW c \in GroupCommandBody
    PROVE  Patched(desired, c) \in Desired
<1>1. /\ desired.enabled \in BOOLEAN /\ desired.pattern \in Patterns
      /\ desired.power \in Powers
      /\ desired.min_power \in Powers /\ desired.max_power \in Powers
  BY DEF Desired
<1>2. /\ c.enabled \in BOOLEAN \cup {None} /\ c.pattern \in Patterns \cup {None}
      /\ c.power \in Powers \cup {None}
      /\ c.min_power \in Powers \cup {None} /\ c.max_power \in Powers \cup {None}
  BY DEF GroupCommandBody
<1>3. Given(c.enabled, desired.enabled) \in BOOLEAN
  BY <1>1, <1>2 DEF Given
<1>4. /\ Given(c.pattern, desired.pattern) \in Patterns
      /\ Given(c.power, desired.power) \in Powers
      /\ Given(c.min_power, desired.min_power) \in Powers
      /\ Given(c.max_power, desired.max_power) \in Powers
  BY <1>1, <1>2 DEF Given
<1> QED
  BY <1>3, <1>4 DEF Patched, Desired

LEMMA GroupVerdictType ==
    ASSUME NEW g, NEW c
    PROVE  GroupVerdict(g, c) \in Reasons \cup {Accepted}
BY DEF GroupVerdict, Reasons

LEMMA DeviceVerdictType ==
    ASSUME NEW d, NEW c
    PROVE  DeviceVerdict(d, c) \in Reasons \cup {Accepted}
BY DEF DeviceVerdict, Reasons

(* What an accepted group command has passed. *)
LEMMA GroupVerdictAccepted ==
    ASSUME NEW g, NEW c, GroupVerdict(g, c) = Accepted
    PROVE  LET asked == Patched(groupStates[g].desired, c)
           IN  /\ g \in Groups
               /\ ~ObserverMode
               /\ c.pattern = None \/ c.pattern \in SupportedPatterns
               /\ \/ groupStates[g].status # "emergency_stop"
                  \/ c.action = "clear_emergency"
               /\ ~(asked.min_power > asked.max_power)
               /\ asked.enabled =>
                    asked.power \in asked.min_power .. asked.max_power
BY DEF GroupVerdict, Accepted

(* What an accepted device command has passed. *)
LEMMA DeviceVerdictAccepted ==
    ASSUME NEW d, NEW c, DeviceVerdict(d, c) = Accepted
    PROVE  /\ d \in Devices
           /\ ~ObserverMode
           /\ \A g \in GroupsOf(d) : groupStates[g].status # "emergency_stop"
           /\ c.action = "resume_group" => "resume_group" \in DeviceControls(d)
           /\ c.action # "resume_group" =>
                /\ c.enabled = None \/ "enabled" \in DeviceControls(d)
                /\ c.power = None \/ "power" \in DeviceControls(d)
                /\ \/ c.power = None
                   \/ c.power \in
                        DeviceConfig[d].min_power .. DeviceConfig[d].max_power
BY DEF DeviceVerdict, Accepted

(* A command leaves a group with a supported pattern and ordered limits.    *)
LEMMA CommandedType ==
    ASSUME NEW g, NEW c \in GroupCommandBody, NEW r \in RequestIds,
           GroupVerdict(g, c) = Accepted,
           g \in Groups => GroupOK(g, groupStates[g]),
           groupStates[g].revision < MaxRevision
    PROVE  GroupOK(g, Commanded(groupStates[g], r, c))
<1> DEFINE asked == Patched(groupStates[g].desired, c)
           after == [asked EXCEPT !.enabled = @ /\ c.action # "emergency_stop"]
<1>1. g \in Groups /\ GroupOK(g, groupStates[g])
  BY GroupVerdictAccepted
<1>2. groupStates[g].desired \in Desired
  BY <1>1 DEF GroupOK, GroupState
<1>3. asked \in Desired
  BY <1>2, PatchedType
<1>4. after \in Desired
  <2>1. (asked.enabled /\ c.action # "emergency_stop") \in BOOLEAN
    OBVIOUS
  <2> QED
    BY <1>3, <2>1 DEF Desired
<1>5. after.min_power = asked.min_power /\ after.max_power = asked.max_power
      /\ after.pattern = asked.pattern
  BY <1>3 DEF Desired
<1>6. asked.min_power <= asked.max_power
  BY <1>3, GroupVerdictAccepted, BoundsAssumption DEF Desired, Powers
<1>7. asked.pattern \in SupportedPatterns
  BY <1>1, GroupVerdictAccepted DEF GroupOK, Patched, Given
<1>8. CommandedStatus(groupStates[g], asked.enabled, c) \in GroupStatuses
  BY <1>1 DEF CommandedStatus, GroupOK, GroupState, GroupStatuses
<1>9. groupStates[g].revision + 1 \in Revisions
  BY <1>1, BoundsAssumption DEF GroupOK, GroupState, Revisions
<1>10. Commanded(groupStates[g], r, c) =
         [groupStates[g] EXCEPT
            !.revision = groupStates[g].revision + 1,
            !.status   = CommandedStatus(groupStates[g], asked.enabled, c),
            !.desired  = after,
            !.last_request_id = r]
  BY DEF Commanded
<1> HIDE DEF asked, after
<1> QED
  BY <1>1, <1>4, <1>5, <1>6, <1>7, <1>8, <1>9, <1>10 DEF GroupOK, GroupState

LEMMA SentType ==
    ASSUME NEW device \in DeviceState, device.revision < MaxRevision,
           NEW desired \in Desired, NEW power \in Powers
    PROVE  SentToMember(device, desired, power) \in DeviceState
<1>1. desired.enabled \in BOOLEAN
  BY DEF Desired
<1>2. device.revision + 1 \in Revisions
  BY BoundsAssumption DEF DeviceState, Revisions
<1> QED
  BY <1>1, <1>2 DEF SentToMember, DeviceState, DeviceStatuses, ControlModes

LEMMA SyncType ==
    ASSUME NEW g \in Groups, NEW desired \in Desired, NEW t \in Targets(g),
           NEW force \in BOOLEAN,
           deviceStates \in [Devices -> DeviceState],
           \A d \in Members[g] : deviceStates[d].revision < MaxRevision
    PROVE  SyncGroupDevices(g, desired, t, force) \in [Devices -> DeviceState]
<1> SUFFICES ASSUME NEW d \in Devices
             PROVE  SyncGroupDevices(g, desired, t, force)[d] \in DeviceState
  BY DEF SyncGroupDevices
<1>1. deviceStates[d] \in DeviceState
  OBVIOUS
<1>2. d \in Members[g] =>
        SentToMember(deviceStates[d], desired, t[d].power) \in DeviceState
  BY <1>1, SentType DEF Targets
<1> QED
  BY <1>1, <1>2 DEF SyncGroupDevices

-----------------------------------------------------------------------------
(* Observations *)

LEMMA MergedType ==
    ASSUME NEW seen \in Observation, NEW s \in Readouts
    PROVE  Merged(seen, s) \in Observation
<1>1. s.observed_at \in Times
  BY BoundsAssumption DEF Readouts, Times
<1>2. Switch(s.enabled) \in Ternary
  BY DEF Switch, Ternary
<1> QED
  BY <1>1, <1>2 DEF Merged, Observation, Readouts, Ternary

(* Storing a report keeps the types of everything it writes.                *)
StoredOK ==
    /\ groupStates' = [g \in Groups |-> groupStates'[g]]
    /\ \A g \in Groups : GroupOK(g, groupStates'[g])
    /\ deviceStates' \in [Devices -> DeviceState]

LEMMA StoreObservationType ==
    ASSUME TypeOK, NEW d \in Devices, NEW device \in DeviceState,
           device.revision = deviceStates[d].revision,
           NEW semantic \in BOOLEAN, NEW refresh \in BOOLEAN, NEW publish \in BOOLEAN,
           StoreObservation(d, device, semantic, refresh, publish)
    PROVE  /\ StoredOK
           /\ dirtyDevices' \in SUBSET Devices
           /\ dirtyGroups' \in SUBSET Groups
           /\ updateEvent' \in BOOLEAN
<1> DEFINE rebuilt == IF refresh THEN GroupsOf(d) ELSE {}
<1>1. rebuilt \in SUBSET Groups /\ rebuilt \subseteq GroupsOf(d)
  BY DEF GroupsOf
<1>2. StoreAndRefresh(d, device, semantic, publish, rebuilt, deviceStates')
  BY DEF StoreObservation
<1>3. \A g \in Groups : GroupOK(g, groupStates[g])
  BY DEF TypeOK, GroupOK
<1>4. deviceStates' \in [Devices -> DeviceState]
  <2>1. deviceStates[d] \in DeviceState
    BY DEF TypeOK
  <2>2. Bump(device.revision, semantic) \in Revisions
    BY <1>2, <2>1, BoundsAssumption
       DEF StoreAndRefresh, BelowBound, Bump, Revisions, DeviceState
  <2>3. [device EXCEPT !.revision = Bump(@, semantic)] \in DeviceState
    BY <2>2 DEF DeviceState
  <2> QED
    BY <1>2, <2>3 DEF StoreAndRefresh, TypeOK
<1>5. PICK shown \in TargetsOfEach(GroupsOf(d), groupStates) :
        groupStates' = [g \in Groups |->
            IF g \in rebuilt
            THEN RefreshGroupObservation(g, groupStates[g], deviceStates',
                                         shown[g], semantic)
            ELSE groupStates[g]]
  BY <1>2 DEF StoreAndRefresh
<1>6. ASSUME NEW g \in Groups, g \in rebuilt
      PROVE  GroupOK(g, RefreshGroupObservation(g, groupStates[g], deviceStates',
                                                shown[g], semantic))
  <2>1. g \in GroupsOf(d)
    BY <1>1, <1>6
  <2>2. shown[g] \in CalculateTargets(g, groupStates[g].desired)
    BY <2>1, TargetsOfEachType DEF GroupsOf
  <2>3. shown[g] \in Targets(g)
    BY <1>3, <2>2, TargetsType DEF GroupOK, GroupState
  <2>4. semantic => groupStates[g].revision < MaxRevision
    BY <1>2, <2>1 DEF StoreAndRefresh, BelowBound
  <2> QED
    BY <1>3, <1>4, <2>3, <2>4, RefreshObservationType
<1>7. StoredOK
  <2> HIDE DEF rebuilt
  <2>1. \A g \in Groups : GroupOK(g, groupStates'[g])
    BY <1>3, <1>5, <1>6
  <2> QED
    BY <1>4, <1>5, <2>1 DEF StoredOK
<1>8. GroupsOf(d) \in SUBSET Groups
  BY DEF GroupsOf
<1> QED
  BY <1>2, <1>7, <1>8 DEF StoreAndRefresh, TypeOK

-----------------------------------------------------------------------------
(* Type correctness *)

LEMMA InitialGroupType ==
    ASSUME NEW g \in Groups, NEW devs \in [Devices -> DeviceState],
           NEW t \in Targets(g)
    PROVE  GroupOK(g, InitialState(g, devs, t))
<1>1. CalculateMembers(g, devs, t) \in [Members[g] -> MemberState]
  BY MembersType
<1>2. GroupConfig[g] \in Desired
  BY ConfigAssumption
<1> QED
  BY <1>1, <1>2, ConfigAssumption, BoundsAssumption
     DEF InitialState, GroupOK, GroupState, GroupStatuses, Revisions, Times,
         Ternary, Unknown

LEMMA InitialDeviceType ==
    ASSUME NEW d \in Devices, NEW targets,
           \A g \in Groups : targets[g] \in Targets(g)
    PROVE  InitialDeviceState(d, targets) \in DeviceState
<1>1. Unobserved \in Observation
  BY BoundsAssumption DEF Unobserved, Observation, Ternary, Unknown, Times
<1>2. ASSUME GroupsOf(d) # {}
      PROVE  /\ FirstGroup[d] \in Groups /\ d \in Members[FirstGroup[d]]
             /\ GroupConfig[FirstGroup[d]].enabled \in BOOLEAN
             /\ targets[FirstGroup[d]][d].power \in Powers
  <2>1. FirstGroup[d] \in Groups /\ d \in Members[FirstGroup[d]]
    BY <1>2, TopologyAssumption DEF GroupsOf
  <2> QED
    BY <2>1, ConfigAssumption DEF Desired, Targets
<1>3. DeviceConfig[d].min_power \in Powers
  BY ConfigAssumption
<1> QED
  BY <1>1, <1>2, <1>3, BoundsAssumption
     DEF InitialDeviceState, DeviceState, DeviceStatuses, ControlModes, Revisions

LEMMA InitType == Init => TypeOK
<1> SUFFICES ASSUME Init PROVE TypeOK
  OBVIOUS
<1>1. PICK first \in TargetsOfEach(Groups, [g \in Groups |-> [desired |-> GroupConfig[g]]]),
           second \in TargetsOfEach(Groups, [g \in Groups |-> [desired |-> GroupConfig[g]]]) :
        /\ deviceStates = [d \in Devices |-> InitialDeviceState(d, first)]
        /\ groupStates = [g \in Groups |-> InitialState(g, deviceStates, second[g])]
  BY DEF Init
<1>2. ASSUME NEW g \in Groups
      PROVE  first[g] \in Targets(g) /\ second[g] \in Targets(g)
  <2> DEFINE configured == [h \in Groups |-> [desired |-> GroupConfig[h]]]
  <2>1. first \in TargetsOfEach(Groups, configured)
        /\ second \in TargetsOfEach(Groups, configured)
    BY <1>1
  <2>2. configured[g].desired = GroupConfig[g]
    OBVIOUS
  <2> HIDE DEF configured
  <2>3. /\ first[g] \in CalculateTargets(g, GroupConfig[g])
        /\ second[g] \in CalculateTargets(g, GroupConfig[g])
    BY <2>1, <2>2, TargetsOfEachType
  <2> QED
    BY <2>3, TargetsType, ConfigAssumption
<1>3. deviceStates \in [Devices -> DeviceState]
  BY <1>1, <1>2, InitialDeviceType
<1>4. \A g \in Groups : GroupOK(g, groupStates[g])
  BY <1>1, <1>2, <1>3, InitialGroupType
<1>5. \A d \in Devices :
        (deviceStates[d].control_mode = "standalone") <=> (GroupsOf(d) = {})
  BY <1>1 DEF InitialDeviceState
<1>6. groupStates = [g \in Groups |-> groupStates[g]]
  BY <1>1
<1>7. /\ results \in Seq(Result(GroupTopics)) /\ Len(results) <= MaxDedup
      /\ deviceResults \in Seq(Result(DeviceTopics)) /\ Len(deviceResults) <= MaxDedup
  BY BoundsAssumption DEF Init
<1>8. /\ dirtyDevices \in SUBSET Devices /\ dirtyGroups \in SUBSET Groups
      /\ updateEvent \in BOOLEAN /\ lastPublished \in [Devices -> Times]
  <2>1. 0 \in Times
    BY BoundsAssumption DEF Times
  <2>2. lastPublished = [d \in Devices |-> 0]
    BY DEF Init
  <2>3. lastPublished \in [Devices -> Times]
    BY <2>1, <2>2
  <2> QED
    BY <2>3 DEF Init
<1>9. \A g \in Groups :
         /\ groupStates[g] \in GroupState(g)
         /\ ~ObserverMode => groupStates[g].desired.pattern \in SupportedPatterns
         /\ groupStates[g].desired.min_power <= groupStates[g].desired.max_power
  BY <1>4 DEF GroupOK
<1> QED
  BY <1>3, <1>5, <1>6, <1>7, <1>8, <1>9 DEF TypeOK

(* TypeOK in the parts the steps below establish. *)
GroupsOK ==
    /\ groupStates = [g \in Groups |-> groupStates[g]]
    /\ \A g \in Groups : GroupOK(g, groupStates[g])

DevicesOK ==
    /\ deviceStates \in [Devices -> DeviceState]
    /\ \A d \in Devices :
         (deviceStates[d].control_mode = "standalone") <=> (GroupsOf(d) = {})

LogsOK == Log(results, GroupTopics) /\ Log(deviceResults, DeviceTopics)

QueueOK ==
    /\ dirtyDevices \in SUBSET Devices /\ dirtyGroups \in SUBSET Groups
    /\ updateEvent \in BOOLEAN

LEMMA TypeParts ==
    TypeOK <=> GroupsOK /\ DevicesOK /\ LogsOK /\ QueueOK
                 /\ lastPublished \in [Devices -> Times]
BY DEF TypeOK, GroupsOK, GroupOK, DevicesOK, LogsOK, Log, QueueOK

LEMMA ApplyRejectedType ==
    ASSUME TypeOK, NEW g \in GroupTopics, NEW r \in RequestIds, NEW c,
           ApplyRejected(g, r, c)
    PROVE  TypeOK'
<1> DEFINE revision == IF g \in Groups THEN groupStates[g].revision ELSE 0
           result == [request_id |-> r, target |-> g,
                      reason |-> GroupVerdict(g, c), revision |-> revision]
<1>1. revision \in Revisions
  BY TypeParts, BoundsAssumption DEF GroupsOK, GroupOK, GroupState, Revisions
<1>2. result \in Result(GroupTopics)
  <2> HIDE DEF revision
  <2> QED
    BY <1>1, GroupVerdictType DEF Result
<1>3. results' = Remember(results, result)
  BY DEF ApplyRejected
<1> HIDE DEF result
<1>4. Log(results', GroupTopics)
  BY <1>2, <1>3, RememberType, TypeParts DEF LogsOK
<1>5. LogsOK'
  BY <1>4, TypeParts DEF LogsOK, ApplyRejected
<1>6. GroupsOK' /\ DevicesOK' /\ QueueOK' /\ lastPublished' \in [Devices -> Times]
  BY TypeParts DEF GroupsOK, DevicesOK, QueueOK, ApplyRejected
<1> QED
  BY <1>5, <1>6
     DEF TypeOK, GroupsOK, GroupOK, DevicesOK, LogsOK, Log, QueueOK

LEMMA ApplyDeviceRejectedType ==
    ASSUME TypeOK, NEW d \in DeviceTopics, NEW r \in RequestIds, NEW c,
           ApplyDeviceRejected(d, r, c)
    PROVE  TypeOK'
<1> DEFINE revision == IF d \in Devices THEN deviceStates[d].revision ELSE 0
           result == [request_id |-> r, target |-> d,
                      reason |-> DeviceVerdict(d, c), revision |-> revision]
<1>1. revision \in Revisions
  BY TypeParts, BoundsAssumption DEF DevicesOK, DeviceState, Revisions
<1>2. result \in Result(DeviceTopics)
  <2> HIDE DEF revision
  <2> QED
    BY <1>1, DeviceVerdictType DEF Result
<1>3. deviceResults' = Remember(deviceResults, result)
  BY DEF ApplyDeviceRejected
<1> HIDE DEF result
<1>4. Log(deviceResults', DeviceTopics)
  BY <1>2, <1>3, RememberType, TypeParts DEF LogsOK
<1>5. LogsOK'
  BY <1>4, TypeParts DEF LogsOK, ApplyDeviceRejected
<1>6. GroupsOK' /\ DevicesOK' /\ QueueOK' /\ lastPublished' \in [Devices -> Times]
  BY TypeParts DEF GroupsOK, DevicesOK, QueueOK, ApplyDeviceRejected
<1> QED
  BY <1>5, <1>6
     DEF TypeOK, GroupsOK, GroupOK, DevicesOK, LogsOK, Log, QueueOK

LEMMA ApplyAcceptedType ==
    ASSUME TypeOK, NEW g \in GroupTopics, NEW r \in RequestIds,
           NEW c \in GroupCommandBody, ApplyAccepted(g, r, c)
    PROVE  TypeOK'
<1> DEFINE updated == Commanded(groupStates[g], r, c)
           force == ForcesGroupControl(c)
<1>1. g \in Groups
  BY GroupVerdictAccepted DEF ApplyAccepted
<1>2. GroupOK(g, updated)
  BY CommandedType, TypeParts DEF ApplyAccepted, GroupsOK
<1>3. PICK sent \in CalculateTargets(g, updated.desired),
           shown \in CalculateTargets(g, updated.desired) :
        /\ deviceStates' = SyncGroupDevices(g, updated.desired, sent, force)
        /\ groupStates' = [groupStates EXCEPT ![g] =
              RefreshGroupMembers(g, updated, deviceStates', shown, FALSE)]
  BY DEF ApplyAccepted
<1>4. results' = Remember(results,
                   [request_id |-> r, target |-> g, reason |-> Accepted,
                    revision |-> updated.revision])
  BY DEF ApplyAccepted
<1>5. \A d \in Members[g] : deviceStates[d].revision < MaxRevision
  BY DEF ApplyAccepted
<1>6. UNCHANGED <<deviceResults, dirtyDevices, dirtyGroups,
                  updateEvent, lastPublished>>
  BY DEF ApplyAccepted
<1>7. force \in BOOLEAN
  BY DEF ForcesGroupControl
<1> HIDE DEF updated, force
<1>8. /\ updated.desired \in Desired /\ updated.revision \in Revisions
      /\ updated.desired.min_power <= updated.desired.max_power
  BY <1>2 DEF GroupOK, GroupState
<1>9. sent \in Targets(g) /\ shown \in Targets(g)
  BY <1>1, <1>8, TargetsType
<1>10. deviceStates' \in [Devices -> DeviceState]
  BY <1>1, <1>3, <1>5, <1>7, <1>8, <1>9, SyncType, TypeParts DEF DevicesOK
<1>11. DevicesOK'
  <2>1. ASSUME NEW d \in Devices
        PROVE  deviceStates'[d].control_mode = "standalone" <=> GroupsOf(d) = {}
    <3>1. CASE d \in Members[g]
      BY <1>1, <1>3, <3>1, TypeParts
         DEF DevicesOK, SyncGroupDevices, SentToMember, GroupsOf, DeviceState
    <3>2. CASE d \notin Members[g]
      BY <1>3, <3>2, TypeParts DEF DevicesOK, SyncGroupDevices
    <3> QED
      BY <3>1, <3>2
  <2> QED
    BY <1>10, <2>1 DEF DevicesOK
<1>12. GroupsOK'
  <2>1. GroupOK(g, RefreshGroupMembers(g, updated, deviceStates', shown, FALSE))
    BY <1>1, <1>2, <1>9, <1>10, RefreshMembersType
  <2> QED
    BY <1>1, <1>3, <2>1, TypeParts DEF GroupsOK
<1>13. LogsOK'
  <2>1. [request_id |-> r, target |-> g, reason |-> Accepted,
         revision |-> updated.revision] \in Result(GroupTopics)
    BY <1>8 DEF Result
  <2>2. Log(results', GroupTopics)
    BY <1>4, <2>1, RememberType, TypeParts DEF LogsOK
  <2> QED
    BY <1>6, <2>2, TypeParts DEF LogsOK
<1>14. QueueOK' /\ lastPublished' \in [Devices -> Times]
  BY <1>6, TypeParts DEF QueueOK
<1> QED
  BY <1>11, <1>12, <1>13, <1>14
     DEF TypeOK, GroupsOK, GroupOK, DevicesOK, LogsOK, Log, QueueOK

LEMMA StoreDeviceType ==
    ASSUME TypeOK, NEW d \in Devices, NEW r \in RequestIds,
           NEW updated \in DeviceState,
           (updated.control_mode = "standalone") <=> (GroupsOf(d) = {}),
           \A g \in GroupsOf(d) : groupStates[g].revision < MaxRevision,
           StoreDevice(d, r, updated)
    PROVE  TypeOK'
<1>1. deviceStates' = [deviceStates EXCEPT ![d] = updated]
  BY DEF StoreDevice
<1>2. PICK shown \in TargetsOfEach(GroupsOf(d), groupStates) :
        groupStates' = [g \in Groups |->
            IF g \in GroupsOf(d)
            THEN RefreshGroupMembers(g, groupStates[g], deviceStates',
                                     shown[g], TRUE)
            ELSE groupStates[g]]
  BY DEF StoreDevice
<1>3. DevicesOK'
  BY <1>1, TypeParts DEF DevicesOK
<1>4. ASSUME NEW g \in GroupsOf(d)
      PROVE  GroupOK(g, RefreshGroupMembers(g, groupStates[g], deviceStates',
                                            shown[g], TRUE))
  <2>1. g \in Groups /\ GroupOK(g, groupStates[g])
    BY TypeParts DEF GroupsOf, GroupsOK
  <2>2. shown[g] \in CalculateTargets(g, groupStates[g].desired)
    BY TargetsOfEachType DEF GroupsOf
  <2>3. shown[g] \in Targets(g)
    BY <2>1, <2>2, TargetsType DEF GroupOK, GroupState
  <2> QED
    BY <1>3, <2>1, <2>3, RefreshMembersType DEF DevicesOK
<1>5. GroupsOK'
  BY <1>2, <1>4, TypeParts DEF GroupsOK
<1>6. LogsOK'
  <2>1. [request_id |-> r, target |-> d, reason |-> Accepted,
         revision |-> updated.revision] \in Result(DeviceTopics)
    BY TopologyAssumption DEF Result, DeviceState
  <2>2. Log(deviceResults', DeviceTopics)
    BY <2>1, RememberType, TypeParts DEF LogsOK, StoreDevice
  <2> QED
    BY <2>2, TypeParts DEF LogsOK, StoreDevice
<1>7. QueueOK' /\ lastPublished' \in [Devices -> Times]
  BY TypeParts DEF QueueOK, StoreDevice
<1> QED
  BY <1>3, <1>5, <1>6, <1>7
     DEF TypeOK, GroupsOK, GroupOK, DevicesOK, LogsOK, Log, QueueOK

LEMMA ApplyDeviceResumeType ==
    ASSUME TypeOK, NEW d \in DeviceTopics, NEW r \in RequestIds, NEW c,
           ApplyDeviceResume(d, r, c)
    PROVE  TypeOK'
<1> DEFINE g == FirstGroup[d]
<1>1. d \in Devices /\ "resume_group" \in DeviceControls(d)
  BY DeviceVerdictAccepted DEF ApplyDeviceResume
<1>2. GroupsOf(d) # {}
  BY <1>1 DEF DeviceControls
<1>3. g \in Groups /\ d \in Members[g]
  BY <1>1, <1>2, TopologyAssumption DEF GroupsOf
<1>4. PICK targets \in CalculateTargets(g, groupStates[g].desired) :
        StoreDevice(d, r, Resumed(deviceStates[d], r, targets[d]))
  BY DEF ApplyDeviceResume
<1>5. targets \in Targets(g)
  BY <1>3, <1>4, TargetsType, TypeParts DEF GroupsOK, GroupOK, GroupState
<1> HIDE DEF g
<1>6. /\ deviceStates[d] \in DeviceState
      /\ deviceStates[d].revision + 1 \in Revisions
      /\ \A h \in GroupsOf(d) : groupStates[h].revision < MaxRevision
  BY <1>1, TypeParts, BoundsAssumption
     DEF ApplyDeviceResume, BelowBound, DevicesOK, DeviceState, Revisions
<1>7. targets[d].enabled \in BOOLEAN /\ targets[d].power \in Powers
  BY <1>3, <1>5 DEF Targets
<1>8. Resumed(deviceStates[d], r, targets[d]) \in DeviceState
  BY <1>6, <1>7 DEF Resumed, DeviceState, DeviceStatuses, ControlModes
<1>9. Resumed(deviceStates[d], r, targets[d]).control_mode = "group"
  BY <1>6 DEF Resumed, DeviceState
<1> QED
  BY <1>1, <1>2, <1>4, <1>6, <1>8, <1>9, StoreDeviceType

LEMMA ApplyDeviceOverrideType ==
    ASSUME TypeOK, NEW d \in DeviceTopics, NEW r \in RequestIds,
           NEW c \in DeviceCommandBody, ApplyDeviceOverride(d, r, c)
    PROVE  TypeOK'
<1>1. d \in Devices
  BY DeviceVerdictAccepted DEF ApplyDeviceOverride
<1>2. StoreDevice(d, r, Overridden(d, r, c))
  BY DEF ApplyDeviceOverride
<1>3. /\ deviceStates[d] \in DeviceState
      /\ deviceStates[d].revision + 1 \in Revisions
      /\ \A h \in GroupsOf(d) : groupStates[h].revision < MaxRevision
  BY <1>1, TypeParts, BoundsAssumption
     DEF ApplyDeviceOverride, BelowBound, DevicesOK, DeviceState, Revisions
<1>4. Given(c.enabled, deviceStates[d].enabled) \in BOOLEAN
  BY <1>3 DEF Given, DeviceCommandBody, DeviceState
<1>5. Given(c.power, deviceStates[d].power) \in Powers
  BY <1>3 DEF Given, DeviceCommandBody, DeviceState
<1>6. Overridden(d, r, c) \in DeviceState
  BY <1>3, <1>4, <1>5 DEF Overridden, DeviceState, DeviceStatuses, ControlModes
<1>7. (Overridden(d, r, c).control_mode = "standalone") <=> (GroupsOf(d) = {})
  BY <1>1, <1>3, TypeParts DEF Overridden, DeviceState, DevicesOK
<1> QED
  BY <1>1, <1>2, <1>3, <1>6, <1>7, StoreDeviceType

LEMMA RecordReadoutType ==
    ASSUME TypeOK, NEW d \in Devices, NEW s \in Readouts, RecordReadout(d, s)
    PROVE  TypeOK'
<1> DEFINE current == deviceStates[d]
           seen == current.observed
           semantic == \/ seen.last_seen_at = 0
                       \/ OperationalChange(seen, s)
                       \/ ConfigurationChange(seen, s)
                       \/ <<seen.online, seen.error, current.status>>
                            # <<"true", s.error, ReadoutStatus(s)>>
           publish == semantic \/ HeartbeatDue(d, s.observed_at)
           device == [current EXCEPT !.observed = Merged(seen, s),
                                     !.status = ReadoutStatus(s)]
<1>1. /\ StoreObservation(d, device, semantic, TRUE, publish)
      /\ lastPublished' = IF publish
                          THEN [lastPublished EXCEPT ![d] = s.observed_at]
                          ELSE lastPublished
  BY DEF RecordReadout
<1>2. current \in DeviceState /\ seen \in Observation
  BY TypeParts DEF DevicesOK, DeviceState
<1>3. Merged(seen, s) \in Observation /\ ReadoutStatus(s) \in DeviceStatuses
  BY <1>2, MergedType DEF ReadoutStatus, DeviceStatuses
<1>4. device \in DeviceState /\ device.revision = current.revision
      /\ device.control_mode = current.control_mode
  BY <1>2, <1>3 DEF DeviceState
<1>5. semantic \in BOOLEAN /\ publish \in BOOLEAN
  OBVIOUS
<1>6. s.observed_at \in Times
  BY BoundsAssumption DEF Readouts, Times
<1> HIDE DEF semantic, publish, device
<1>7. StoredOK /\ QueueOK'
  BY <1>1, <1>4, <1>5, StoreObservationType DEF QueueOK
<1>8. deviceStates' = [deviceStates EXCEPT ![d] =
          [device EXCEPT !.revision = Bump(@, semantic)]]
      /\ UNCHANGED <<results, deviceResults>>
  BY <1>1 DEF StoreObservation, StoreAndRefresh
<1>9. DevicesOK'
  <2>1. [device EXCEPT !.revision = Bump(@, semantic)].control_mode
          = current.control_mode
    BY <1>4 DEF DeviceState
  <2> QED
    BY <1>7, <1>8, <2>1, TypeParts DEF StoredOK, DevicesOK
<1>10. lastPublished' \in [Devices -> Times]
  BY <1>1, <1>6, TypeParts
<1>11. LogsOK' /\ GroupsOK'
  BY <1>7, <1>8, TypeParts DEF LogsOK, GroupsOK, StoredOK
<1> QED
  BY <1>7, <1>9, <1>10, <1>11
     DEF TypeOK, GroupsOK, GroupOK, DevicesOK, LogsOK, Log, QueueOK

LEMMA RecordAbsenceType ==
    ASSUME TypeOK, NEW d \in Devices,
           NEW status \in {"connecting", "unmapped", "offline"},
           NEW error \in Errors \cup {None}, RecordAbsence(d, status, error)
    PROVE  TypeOK'
<1> DEFINE current == deviceStates[d]
           online == CASE status = "unmapped"   -> Unknown
                       [] status = "connecting" -> current.observed.online
                       [] OTHER                 -> "false"
           semantic == <<current.observed.online, current.observed.error,
                         current.status>> # <<online, error, status>>
           device == [current EXCEPT !.observed = [@ EXCEPT !.online = online,
                                                            !.error = error],
                                     !.status = status]
<1>1. StoreObservation(d, device, semantic, semantic, semantic)
      /\ UNCHANGED lastPublished
  BY DEF RecordAbsence
<1>2. current \in DeviceState /\ current.observed \in Observation
  BY TypeParts DEF DevicesOK, DeviceState
<1>3. online \in Ternary
  BY <1>2 DEF Observation, Ternary, Unknown
<1>4. device \in DeviceState /\ device.revision = current.revision
      /\ device.control_mode = current.control_mode
  <2> HIDE DEF online
  <2>1. [current.observed EXCEPT !.online = online, !.error = error]
          \in Observation
    BY <1>2, <1>3 DEF Observation
  <2> QED
    BY <1>2, <2>1 DEF DeviceState, DeviceStatuses
<1>5. semantic \in BOOLEAN
  OBVIOUS
<1> HIDE DEF semantic, device
<1>6. StoredOK /\ QueueOK'
  BY <1>1, <1>4, <1>5, StoreObservationType DEF QueueOK
<1>7. deviceStates' = [deviceStates EXCEPT ![d] =
          [device EXCEPT !.revision = Bump(@, semantic)]]
      /\ UNCHANGED <<results, deviceResults>>
  BY <1>1 DEF StoreObservation, StoreAndRefresh
<1>8. DevicesOK'
  <2>1. [device EXCEPT !.revision = Bump(@, semantic)].control_mode
          = current.control_mode
    BY <1>4 DEF DeviceState
  <2> QED
    BY <1>6, <1>7, <2>1, TypeParts DEF StoredOK, DevicesOK
<1>9. LogsOK' /\ GroupsOK' /\ lastPublished' \in [Devices -> Times]
  BY <1>1, <1>6, <1>7, TypeParts DEF LogsOK, GroupsOK, StoredOK
<1> QED
  BY <1>6, <1>8, <1>9
     DEF TypeOK, GroupsOK, GroupOK, DevicesOK, LogsOK, Log, QueueOK

LEMMA StepType == TypeOK /\ [Next]_vars => TypeOK'
<1> SUFFICES ASSUME TypeOK, [Next]_vars
             PROVE  TypeOK'
  OBVIOUS
<1>1. ASSUME NEW g \in GroupTopics, NEW r \in RequestIds, NEW c \in GroupCommands,
             ApplyGroup(g, r, c)
      PROVE  TypeOK'
  <2>1. c \in GroupCommandBody
    BY CommandAssumption
  <2> QED
    BY <1>1, <2>1, ApplyRejectedType, ApplyAcceptedType DEF ApplyGroup
<1>2. ASSUME NEW d \in DeviceTopics, NEW r \in RequestIds, NEW c \in DeviceCommands,
             ApplyDevice(d, r, c)
      PROVE  TypeOK'
  <2>1. c \in DeviceCommandBody
    BY CommandAssumption
  <2> QED
    BY <1>2, <2>1, ApplyDeviceRejectedType, ApplyDeviceResumeType,
       ApplyDeviceOverrideType DEF ApplyDevice
<1>3. ASSUME NEW d \in Reporting, RecordObserverEvent(d)
      PROVE  TypeOK'
  <2>1. d \in Devices
    BY TopologyAssumption
  <2> QED
    BY <1>3, <2>1, RecordReadoutType, RecordAbsenceType DEF RecordObserverEvent
<1>4. ASSUME WaitForUpdates
      PROVE  TypeOK'
  BY <1>4 DEF WaitForUpdates, TypeOK
<1>5. ASSUME UNCHANGED vars
      PROVE  TypeOK'
  BY <1>5 DEF vars, TypeOK
<1> QED
  BY <1>1, <1>2, <1>3, <1>4, <1>5 DEF Next

(* Every payload the service keeps stays one its pydantic models accept,    *)
(* and the request logs stay within _MAX_DEDUPLICATION_ENTRIES, whatever    *)
(* the configuration and the commands: no handler of service.py can raise a *)
(* validation error half-way through its update.                            *)
THEOREM TypeCorrect == Spec => []TypeOK
BY InitType, StepType, PTL DEF Spec

=============================================================================
