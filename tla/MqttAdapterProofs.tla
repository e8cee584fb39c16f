-------------------------- MODULE MqttAdapterProofs --------------------------
(***************************************************************************)
(* Safety of the adapter for any number of groups and devices, any number  *)
(* of lost connections and any bound on the versions.                      *)
(***************************************************************************)
EXTENDS MqttAdapter, TLAPS

-----------------------------------------------------------------------------
(* Types *)

SourceTypeOK ==
    /\ version \in [StateTopics -> Versions]
    /\ dirty \in SUBSET StateTopics
    /\ updateEvent \in BOOLEAN
    /\ updateEvent <=> dirty # {}

(* What a scope consists of. *)
LEMMA Scopes ==
    /\ \A g \in Groups : /\ GroupScope(g) \in SUBSET StateTopics
                         /\ GroupTopic(g) \in GroupScope(g)
    /\ \A d \in Devices : /\ DeviceScope(d) \in SUBSET StateTopics
                          /\ DeviceTopic(d) \in DeviceScope(d)
BY SourceAssumption
   DEF GroupScope, DeviceScope, GroupTopic, DeviceTopic, StateTopics

(* Versions of the bumped topics grow by one, the others stay. *)
LEMMA BumpMoves ==
    ASSUME SourceTypeOK, NEW topics \in SUBSET StateTopics, Bump(topics)
    PROVE  /\ version' \in [StateTopics -> Versions]
           /\ \A t \in StateTopics :
                version'[t] = IF t \in topics THEN version[t] + 1 ELSE version[t]
BY SourceAssumption DEF SourceTypeOK, Bump, Versions

(* A group command moves versions of the group's scope and nothing else.   *)
LEMMA GroupCommandedMoves ==
    ASSUME SourceTypeOK, NEW g \in Groups, GroupCommanded(g)
    PROVE  /\ SourceTypeOK'
           /\ \A t \in StateTopics : version'[t] >= version[t]
           /\ \A t \in StateTopics \ GroupScope(g) : version'[t] = version[t]
           /\ UNCHANGED <<dirty, updateEvent>>
<1>1. PICK followers \in SUBSET Members[g] :
        Bump({GroupTopic(g)} \cup {DeviceTopic(d) : d \in followers})
  BY DEF GroupCommanded
<1> DEFINE topics == {GroupTopic(g)} \cup {DeviceTopic(d) : d \in followers}
<1>2. topics \subseteq GroupScope(g)
  BY DEF GroupScope
<1>3. topics \in SUBSET StateTopics
  BY <1>2, Scopes
<1>4. UNCHANGED <<dirty, updateEvent>>
  BY DEF GroupCommanded
<1> HIDE DEF topics
<1>5. /\ version' \in [StateTopics -> Versions]
      /\ \A t \in StateTopics :
           version'[t] = IF t \in topics THEN version[t] + 1 ELSE version[t]
  BY <1>1, <1>3, BumpMoves DEF topics
<1> QED
  BY <1>2, <1>4, <1>5 DEF SourceTypeOK, Versions

LEMMA DeviceCommandedMoves ==
    ASSUME SourceTypeOK, NEW d \in Devices, DeviceCommanded(d)
    PROVE  /\ SourceTypeOK'
           /\ \A t \in StateTopics : version'[t] >= version[t]
           /\ \A t \in StateTopics \ DeviceScope(d) : version'[t] = version[t]
           /\ UNCHANGED <<dirty, updateEvent>>
<1>1. Bump(DeviceScope(d)) /\ UNCHANGED <<dirty, updateEvent>>
  BY DEF DeviceCommanded
<1>2. /\ version' \in [StateTopics -> Versions]
      /\ \A t \in StateTopics :
           version'[t] = IF t \in DeviceScope(d) THEN version[t] + 1 ELSE version[t]
  BY <1>1, BumpMoves, Scopes
<1> QED
  BY <1>1, <1>2 DEF SourceTypeOK, Versions

(* A report moves versions of what it announces. *)
LEMMA ReportMoves ==
    ASSUME SourceTypeOK, NEW d \in Devices, Observed(d) \/ Refreshed(d)
    PROVE  /\ SourceTypeOK'
           /\ \A t \in StateTopics : version'[t] >= version[t]
           /\ \A t \in StateTopics : t \in dirty' \/ version'[t] = version[t]
           /\ dirty \subseteq dirty'
<1>1. dirty' = dirty \cup DeviceScope(d) /\ updateEvent' = TRUE
  BY DEF Observed, Refreshed, Announce
<1>2. DeviceScope(d) \in SUBSET StateTopics /\ DeviceScope(d) # {}
  BY Scopes
<1>3. /\ version' \in [StateTopics -> Versions]
      /\ \A t \in StateTopics :
           /\ version'[t] >= version[t]
           /\ t \in DeviceScope(d) \/ version'[t] = version[t]
  <2>1. CASE Observed(d)
    <3>1. /\ version' \in [StateTopics -> Versions]
          /\ \A t \in StateTopics : version'[t] =
               IF t \in DeviceScope(d) THEN version[t] + 1 ELSE version[t]
      BY <1>2, <2>1, BumpMoves DEF Observed
    <3> QED
      BY <3>1 DEF SourceTypeOK, Versions
  <2>2. CASE Refreshed(d)
    BY <2>2 DEF Refreshed, SourceTypeOK, Versions
  <2> QED
    BY <2>1, <2>2
<1> QED
  BY <1>1, <1>2, <1>3 DEF SourceTypeOK

LEMMA DrainedMoves ==
    ASSUME SourceTypeOK, Drained
    PROVE  SourceTypeOK' /\ dirty # {} /\ dirty' = {} /\ UNCHANGED version
BY DEF SourceTypeOK, Drained

-----------------------------------------------------------------------------
(* The variables of the adapter *)

AdapterTypeOK ==
    /\ phase \in Phases
    /\ todo \in [Tasks -> SUBSET StateTopics]
    /\ lead \in [Tasks -> Kinds]
    /\ captured \in [StateTopics -> Versions]
    /\ queue \in Seq(Message)
    /\ retained \in [StateTopics -> Versions \cup {Absent}]
    /\ availability \in {"online", "offline"}
    /\ willArmed \in BOOLEAN
    /\ silent \in BOOLEAN
    /\ stopEvent \in BOOLEAN
    /\ accepted \in SUBSET {"group", "device"}
    /\ losses \in 0 .. MaxLosses
    /\ timeouts \in 0 .. MaxTimeouts

LEMMA TypeParts == TypeOK <=> SourceTypeOK /\ AdapterTypeOK
BY DEF TypeOK, SourceTypeOK, AdapterTypeOK

LEMMA HandedType ==
    ASSUME AdapterTypeOK, NEW k \in Tasks, NEW v \in Versions,
           NEW t \in StateTopics \cup {Online, Offline, Answer}
    PROVE  Handed(k, t, v) \in Seq(Message)
BY DEF AdapterTypeOK, Handed, Message

LEMMA ZeroVersion == 0 \in Versions
BY SourceAssumption DEF Versions

(* A round of a publish loop hands over one topic of the loop. *)
LEMMA PublishedOne ==
    ASSUME SourceTypeOK, AdapterTypeOK, NEW k \in Tasks,
           NEW topics \in SUBSET StateTopics, NEW kind \in Kinds,
           PublishOneOf(k, topics, kind)
    PROVE  \E t \in topics :
             /\ queue' = Handed(k, t, version[t])
             /\ queue' \in Seq(Message)
             /\ todo' = [todo EXCEPT ![k] = topics \ {t}]
             /\ todo' \in [Tasks -> SUBSET StateTopics]
             /\ lead' \in [Tasks -> Kinds]
<1>1. PICK t \in Foremost(topics, kind) :
        /\ queue' = Handed(k, t, version[t])
        /\ todo' = [todo EXCEPT ![k] = topics \ {t}]
        /\ lead' = [lead EXCEPT ![k] = IF topics = {t} THEN "group" ELSE kind]
  BY DEF PublishOneOf
<1>2. t \in topics
  BY DEF Foremost
<1>3. version[t] \in Versions
  BY <1>2 DEF SourceTypeOK
<1>4. queue' \in Seq(Message)
  BY <1>1, <1>2, <1>3, HandedType
<1> QED
  BY <1>1, <1>2, <1>4 DEF AdapterTypeOK, Kinds

(* An answer starts the consumer's loop over topics. *)
LEMMA AnsweredType ==
    ASSUME AdapterTypeOK, NEW topics \in SUBSET StateTopics,
           NEW kind \in Kinds, Answered(topics, kind),
           accepted' \in SUBSET {"group", "device"}
    PROVE  AdapterTypeOK'
<1>1. queue' \in Seq(Message)
  BY HandedType, ZeroVersion DEF Answered, Tasks
<1> QED
  BY <1>1 DEF AdapterTypeOK, Answered

(* What a failed connection leaves has its type. *)
AfterFailure ==
    /\ phase' \in Phases
    /\ todo' \in [Tasks -> SUBSET StateTopics]
    /\ lead' \in [Tasks -> Kinds]
    /\ captured' \in [StateTopics -> Versions]
    /\ queue' \in Seq(Message)
    /\ UNCHANGED <<version, dirty, updateEvent, retained, availability,
                   stopEvent, accepted>>

LEMMA FailedType == Failed => AfterFailure
BY ZeroVersion
   DEF Failed, LoopsEnd, NoSnapshots, Phases, Kinds, sourceVars, AfterFailure

(* What is taken when the snapshots of a loop are. *)
Kind(t) == {u \in StateTopics : u[1] = t[1]}

Taken(t) ==
    IF Kind(t) \subseteq todo["main"]
    THEN [u \in StateTopics |->
             IF u \in Kind(t) THEN version[u] ELSE captured[u]]
    ELSE captured

LEMMA SnapshotSent ==
    ASSUME SourceTypeOK, AdapterTypeOK, PublishSnapshot
    PROVE  \E t \in Foremost(todo["main"], lead["main"]) :
             /\ t \in todo["main"] /\ t \in StateTopics
             /\ Taken(t) \in [StateTopics -> Versions]
             /\ captured' = IF todo["main"] \cap Kind(t) = {t}
                            THEN NoSnapshots ELSE Taken(t)
             /\ captured' \in [StateTopics -> Versions]
             /\ queue' = Handed("main", t, Taken(t)[t])
             /\ queue' \in Seq(Message)
             /\ todo' = [todo EXCEPT !["main"] = @ \ {t}]
<1>1. PICK t \in Foremost(todo["main"], lead["main"]) :
         LET kind  == {u \in StateTopics : u[1] = t[1]}
             taken == IF kind \subseteq todo["main"]
                      THEN [u \in StateTopics |->
                               IF u \in kind THEN version[u] ELSE captured[u]]
                      ELSE captured
         IN  /\ captured' = IF todo["main"] \cap kind = {t}
                            THEN NoSnapshots ELSE taken
             /\ queue' = Handed("main", t, taken[t])
             /\ todo' = [todo EXCEPT !["main"] = @ \ {t}]
  BY DEF PublishSnapshot
<1>2. t \in todo["main"] /\ t \in StateTopics
  BY <1>1 DEF Foremost, Tasks, AdapterTypeOK
<1>3. Taken(t) \in [StateTopics -> Versions]
  BY DEF SourceTypeOK, AdapterTypeOK, Taken
<1>4. NoSnapshots \in [StateTopics -> Versions]
  BY ZeroVersion DEF NoSnapshots
<1>5. /\ captured' = IF todo["main"] \cap Kind(t) = {t}
                     THEN NoSnapshots ELSE Taken(t)
      /\ queue' = Handed("main", t, Taken(t)[t])
      /\ todo' = [todo EXCEPT !["main"] = @ \ {t}]
  BY <1>1 DEF Taken, Kind
<1>6. queue' \in Seq(Message)
  BY <1>2, <1>3, <1>5, HandedType DEF Tasks
<1> QED
  BY <1>2, <1>3, <1>4, <1>5, <1>6

LEMMA InitType == Init => SourceTypeOK /\ AdapterTypeOK
<1> SUFFICES ASSUME Init PROVE SourceTypeOK /\ AdapterTypeOK
  OBVIOUS
<1> USE DEF Init, SourceInit
<1>1. SourceTypeOK
  BY ZeroVersion DEF SourceTypeOK
<1>2. queue \in Seq(Message)
  OBVIOUS
<1>3. captured \in [StateTopics -> Versions]
  BY ZeroVersion DEF NoSnapshots
<1>4. losses \in 0 .. MaxLosses /\ timeouts \in 0 .. MaxTimeouts
  BY AdapterAssumption
<1> QED
  BY <1>1, <1>2, <1>3, <1>4 DEF AdapterTypeOK, Phases, Connected, Kinds

LEMMA StepType ==
    ASSUME SourceTypeOK, AdapterTypeOK, [Next]_vars
    PROVE  SourceTypeOK' /\ AdapterTypeOK'
<1>1. CASE Connect
  BY <1>1, HandedType, ZeroVersion 
     DEF Connect, Tasks, SourceTypeOK, AdapterTypeOK, sourceVars, Phases, Connected
<1>2. CASE Greeted
  BY <1>2 DEF Greeted, SourceTypeOK, AdapterTypeOK, sourceVars, Phases,
              Connected, Kinds
<1>3. CASE PublishSnapshot
  BY <1>3, SnapshotSent
     DEF PublishSnapshot, SourceTypeOK, AdapterTypeOK, sourceVars, Tasks
<1>4. CASE StartServing
  BY <1>4 DEF StartServing, SourceTypeOK, AdapterTypeOK, sourceVars, Phases, Connected
<1>5. CASE BeginClose
  BY <1>5, HandedType, ZeroVersion 
     DEF BeginClose, Tasks, SourceTypeOK, AdapterTypeOK, sourceVars, Phases, Connected
<1>6. CASE Close
  <2>1. /\ todo' \in [Tasks -> SUBSET StateTopics]
        /\ lead' \in [Tasks -> Kinds]
        /\ captured' \in [StateTopics -> Versions]
        /\ queue' \in Seq(Message)
    BY <1>6, ZeroVersion DEF Close, LoopsEnd, NoSnapshots, Kinds
  <2>2. phase' \in Phases /\ willArmed' \in BOOLEAN
    BY <1>6 DEF Close, Phases
  <2>3. UNCHANGED <<version, dirty, updateEvent, retained, availability,
                    silent, stopEvent, accepted, losses, timeouts>>
    BY <1>6 DEF Close, sourceVars
  <2> QED
    BY <2>1, <2>2, <2>3 DEF SourceTypeOK, AdapterTypeOK
<1>6a. CASE ConsumerFails
  <2>1. /\ todo' \in [Tasks -> SUBSET StateTopics]
        /\ lead' \in [Tasks -> Kinds]
        /\ captured' \in [StateTopics -> Versions]
        /\ queue' \in Seq(Message)
    BY <1>6a, ZeroVersion DEF ConsumerFails, LoopsEnd, NoSnapshots, Kinds
  <2>2. phase' \in Phases /\ willArmed' \in BOOLEAN /\ silent' \in BOOLEAN
    BY <1>6a DEF ConsumerFails, Phases
  <2>3. UNCHANGED <<version, dirty, updateEvent, retained, availability,
                    stopEvent, accepted, losses, timeouts>>
    BY <1>6a DEF ConsumerFails, sourceVars
  <2> QED
    BY <2>1, <2>2, <2>3 DEF SourceTypeOK, AdapterTypeOK
<1>7. CASE Lost
  <2>1. losses' \in 0 .. MaxLosses
    BY <1>7, AdapterAssumption DEF Lost, AdapterTypeOK
  <2>2. /\ AfterFailure
        /\ UNCHANGED <<willArmed, silent, timeouts>>
    BY <1>7, FailedType DEF Lost
  <2> QED
    BY <2>1, <2>2 DEF AfterFailure, SourceTypeOK, AdapterTypeOK
<1>8. CASE TimedOut
  <2>1. timeouts' \in 0 .. MaxTimeouts
    BY <1>8, AdapterAssumption DEF TimedOut, AdapterTypeOK
  <2>2. AfterFailure
    BY <1>8, FailedType DEF TimedOut
  <2>3. willArmed' \in BOOLEAN /\ silent' \in BOOLEAN /\ losses' = losses
    BY <1>8 DEF TimedOut
  <2> QED
    BY <2>1, <2>2, <2>3 DEF AfterFailure, SourceTypeOK, AdapterTypeOK
<1>9. CASE Retry
  BY <1>9 DEF Retry, SourceTypeOK, AdapterTypeOK, sourceVars, Phases, Connected
<1>10. CASE Leave
  BY <1>10 DEF Leave, SourceTypeOK, AdapterTypeOK, sourceVars, Phases, Connected
<1>11. CASE Stop
  BY <1>11 DEF Stop, SourceTypeOK, AdapterTypeOK, sourceVars, Phases, Connected
<1>12. CASE TakeUpdate
  <2>1. SourceTypeOK' /\ dirty \in SUBSET StateTopics
    BY <1>12, DrainedMoves DEF TakeUpdate, SourceTypeOK
  <2>2. /\ queue' \in Seq(Message)
        /\ todo' \in [Tasks -> SUBSET StateTopics]
        /\ lead' \in [Tasks -> Kinds]
    BY <1>12, <2>1, PublishedOne DEF TakeUpdate, Tasks, Kinds
  <2> QED
    BY <1>12, <2>1, <2>2 DEF TakeUpdate, AdapterTypeOK
<1>13. ASSUME NEW k \in Tasks, Publish(k)
      PROVE  (SourceTypeOK /\ AdapterTypeOK)'
  <2>1. /\ queue' \in Seq(Message)
        /\ todo' \in [Tasks -> SUBSET StateTopics]
        /\ lead' \in [Tasks -> Kinds]
    BY <1>13, PublishedOne DEF Publish, AdapterTypeOK
  <2> QED
    BY <1>13, <2>1 DEF Publish, SourceTypeOK, AdapterTypeOK, sourceVars
<1>14. ASSUME NEW g \in Groups, ConsumeGroup(g)
      PROVE  (SourceTypeOK /\ AdapterTypeOK)'
  <2>1. accepted' \in SUBSET {"group", "device"}
    BY <1>14 DEF ConsumeGroup, AdapterTypeOK
  <2> QED
    BY <1>14, <2>1, GroupCommandedMoves, Scopes, AnsweredType
       DEF ConsumeGroup, Kinds
<1>15. ASSUME NEW d \in Devices, ConsumeDevice(d)
      PROVE  (SourceTypeOK /\ AdapterTypeOK)'
  <2>1. accepted' \in SUBSET {"group", "device"}
    BY <1>15 DEF ConsumeDevice, AdapterTypeOK
  <2> QED
    BY <1>15, <2>1, DeviceCommandedMoves, Scopes, AnsweredType
       DEF ConsumeDevice, Kinds
<1>16. CASE ConsumeRepeated
  <2>1. \E topics \in SUBSET StateTopics, kind \in Kinds : Answered(topics, kind)
    BY <1>16, Scopes DEF ConsumeRepeated, Kinds
  <2>2. accepted' \in SUBSET {"group", "device"}
    BY <1>16 DEF ConsumeRepeated, AdapterTypeOK
  <2>3. AdapterTypeOK'
    BY <2>1, <2>2, AnsweredType
  <2> QED
    BY <1>16, <2>3 DEF ConsumeRepeated, SourceTypeOK, sourceVars
<1>17. CASE Deliver
  <2>1. /\ queue \in Seq(Message) /\ queue # <<>>
        /\ Head(queue) \in Message /\ queue' \in Seq(Message)
    BY <1>17 DEF Deliver, AdapterTypeOK
  <2>2. retained' \in [StateTopics -> Versions \cup {Absent}]
    BY <1>17, <2>1 DEF Deliver, AdapterTypeOK, Message
  <2>3. availability' \in {"online", "offline"}
    BY <1>17 DEF Deliver, AdapterTypeOK, Online, Offline
  <2> QED
    BY <1>17, <2>1, <2>2, <2>3 DEF Deliver, SourceTypeOK, AdapterTypeOK, sourceVars
<1>18. CASE PublishWill
  BY <1>18 DEF PublishWill, SourceTypeOK, AdapterTypeOK, sourceVars, Phases, Connected
<1>19. ASSUME NEW d \in Devices, Report(d)
      PROVE  (SourceTypeOK /\ AdapterTypeOK)'
  BY <1>19, ReportMoves DEF Report, AdapterTypeOK, adapterVars
<1>20. CASE UNCHANGED vars
  BY <1>20 DEF vars, adapterVars, SourceTypeOK, AdapterTypeOK, sourceVars
<1> QED
  BY <1>1, <1>2, <1>3, <1>4, <1>5, <1>6, <1>6a, <1>7, <1>8, <1>9, <1>10,
     <1>11, <1>12, <1>13, <1>14, <1>15, <1>16, <1>17, <1>18, <1>19, <1>20
     DEF Next, Proceed

(* The variables keep their types, and the event says whether anything is  *)
(* dirty.                                                                  *)
THEOREM AdapterType == Spec => []TypeOK
BY InitType, StepType, TypeParts, PTL DEF Spec

-----------------------------------------------------------------------------
(* The queue *)

(* queue' is queue with the message (k, t, v) behind it. *)
Sends(k, t, v) ==
    \E n \in Nat :
      /\ n \notin DOMAIN queue
      /\ DOMAIN queue' = DOMAIN queue \cup {n}
      /\ \A i \in DOMAIN queue : i \in Nat /\ i < n /\ queue'[i] = queue[i]
      /\ queue'[n].task = k /\ queue'[n].topic = t /\ queue'[n].value = v

LEMMA HandedSends ==
    ASSUME queue \in Seq(Message), NEW k \in Tasks, NEW v \in Versions,
           NEW t \in StateTopics \cup {Online, Offline, Answer},
           queue' = Handed(k, t, v)
    PROVE  Sends(k, t, v)
<1> DEFINE m == [task |-> k, topic |-> t, value |-> v]
<1>1. m \in Message
  BY DEF Message
<1>2. queue' = Append(queue, m)
  BY DEF Handed
<1>3. m.task = k /\ m.topic = t /\ m.value = v
  OBVIOUS
<1> HIDE DEF m
<1>4. /\ DOMAIN queue = 1 .. Len(queue) /\ Len(queue) \in Nat
      /\ DOMAIN queue' = 1 .. Len(queue) + 1
      /\ \A i \in 1 .. Len(queue) : queue'[i] = queue[i]
      /\ queue'[Len(queue) + 1] = m
  BY <1>1, <1>2
<1> DEFINE n == Len(queue) + 1
<1>5. /\ n \in Nat /\ n \notin DOMAIN queue
      /\ DOMAIN queue' = DOMAIN queue \cup {n}
      /\ \A i \in DOMAIN queue : i \in Nat /\ i < n /\ queue'[i] = queue[i]
      /\ queue'[n] = m
  BY <1>4
<1> QED
  BY <1>3, <1>5 DEF Sends

(* The oldest message is gone. *)
LEMMA Delivered ==
    ASSUME queue \in Seq(Message), queue # <<>>, queue' = Tail(queue)
    PROVE  /\ 1 \in DOMAIN queue /\ Head(queue) = queue[1]
           /\ queue[1] \in Message
           /\ \A i \in DOMAIN queue' : /\ i \in Nat /\ i > 0
                                       /\ i + 1 \in DOMAIN queue
                                       /\ queue'[i] = queue[i + 1]
           /\ \A i \in DOMAIN queue : /\ i \in Nat
                                      /\ i = 1 \/ (i > 1 /\ i - 1 \in DOMAIN queue')
<1>1. DOMAIN queue = 1 .. Len(queue) /\ Len(queue) \in Nat /\ Len(queue) > 0
  OBVIOUS
<1>2. /\ DOMAIN queue' = 1 .. Len(queue) - 1
      /\ \A i \in 1 .. Len(queue) - 1 : queue'[i] = queue[i + 1]
  OBVIOUS
<1> QED
  BY <1>1, <1>2

(* The consumer sends an answer and will send topics. *)
LEMMA AnswerSends ==
    ASSUME AdapterTypeOK, NEW topics \in SUBSET StateTopics,
           NEW kind \in Kinds, Answered(topics, kind)
    PROVE  Sends("consumer", Answer, 0)
BY HandedSends, ZeroVersion DEF Answered, AdapterTypeOK, Tasks

LEMMA StateTopicsAreNot ==
    /\ Online \notin StateTopics /\ Offline \notin StateTopics
    /\ Answer \notin StateTopics /\ Online # Offline
    /\ Answer # Online /\ Answer # Offline
BY DEF Online, Offline, Answer, StateTopics

-----------------------------------------------------------------------------
(* Phases and tasks *)

(* Who may have what under way in which phase. *)
Shape ==
    /\ \A i \in DOMAIN queue :
         /\ phase \in Connected
         /\ queue[i].task # "main" =>
              phase \in Serving /\ queue[i].topic \notin {Online, Offline}
    /\ \A i, j \in DOMAIN queue : queue[i].task = queue[j].task => i = j
    /\ todo["main"] # {} => phase = "starting"
    /\ \A k \in Tasks : todo[k] # {} /\ k # "main" => phase \in Serving
    /\ lead["main"] = "group"
    /\ phase = "serving" => Idle("main")
    /\ phase \in Connected => willArmed
    /\ phase = "closing" =>
         /\ \A i \in DOMAIN queue : queue[i].task = "main" => queue[i].topic = Offline
         /\ Idle("main") => availability = "offline"

LEMMA InitShape == Init => Shape
BY DEF Init, Shape, Idle, Connected, Serving, Tasks

LEMMA StepShape ==
    ASSUME SourceTypeOK, AdapterTypeOK, Shape, [Next]_vars
    PROVE  Shape'
<1> USE StateTopicsAreNot DEF Idle, Connected, Serving
<1>0. queue \in Seq(Message) /\ todo \in [Tasks -> SUBSET StateTopics]
        /\ lead \in [Tasks -> Kinds]
  BY DEF AdapterTypeOK
<1>1. CASE Connect
  <2>1. Sends("main", Online, 0)
    BY <1>0, <1>1, HandedSends, ZeroVersion DEF Connect, Tasks
  <2> QED
    BY <1>1, <2>1 DEF Connect, Sends, Shape
<1>2. CASE Greeted
  BY <1>0, <1>2 DEF Greeted, Shape, Tasks
<1>3. CASE PublishSnapshot
  <2>1. PICK t \in todo["main"], v \in Versions :
          /\ queue' = Handed("main", t, v)
          /\ todo' = [todo EXCEPT !["main"] = @ \ {t}]
    BY <1>3, SnapshotSent
  <2>2. Sends("main", t, v) /\ t \in StateTopics
    BY <1>0, <2>1, HandedSends DEF Tasks
  <2> QED
    BY <1>0, <1>3, <2>1, <2>2 DEF PublishSnapshot, Sends, Shape, Tasks
<1>4. CASE StartServing
  BY <1>4 DEF StartServing, Shape
<1>5. CASE BeginClose
  <2>1. Sends("main", Offline, 0)
    BY <1>0, <1>5, HandedSends, ZeroVersion DEF BeginClose, Tasks
  <2> QED
    BY <1>5, <2>1 DEF BeginClose, Sends, Shape
<1>6. CASE Close \/ ConsumerFails
  BY <1>6 DEF Close, ConsumerFails, LoopsEnd, Shape, Tasks
<1>7. CASE Lost \/ TimedOut
  BY <1>7 DEF Lost, TimedOut, Failed, LoopsEnd, Shape, Tasks
<1>8. CASE Retry \/ Leave \/ Stop \/ PublishWill
  BY <1>8 DEF Retry, Leave, Stop, PublishWill, Shape
<1>9. CASE TakeUpdate
  <2>1. PICK t \in dirty : /\ queue' = Handed("publisher", t, version[t])
                           /\ todo' = [todo EXCEPT !["publisher"] = dirty \ {t}]
                           /\ lead'["main"] = lead["main"]
    BY <1>0, <1>9 DEF TakeUpdate, PublishOneOf, Foremost, Tasks
  <2>2. t \in StateTopics /\ version[t] \in Versions
    BY DEF SourceTypeOK
  <2>3. Sends("publisher", t, version[t])
    BY <1>0, <2>1, <2>2, HandedSends DEF Tasks
  <2> QED
    BY <1>0, <1>9, <2>1, <2>2, <2>3 DEF TakeUpdate, Sends, Shape, Tasks
<1>10. ASSUME NEW k \in Tasks, Publish(k)
       PROVE  Shape'
  <2>1. PICK t \in todo[k] : /\ queue' = Handed(k, t, version[t])
                             /\ todo' = [todo EXCEPT ![k] = @ \ {t}]
                             /\ lead'["main"] = lead["main"]
    BY <1>0, <1>10 DEF Publish, PublishOneOf, Foremost, Tasks
  <2>2. t \in StateTopics /\ version[t] \in Versions
    BY <1>0 DEF SourceTypeOK
  <2>3. Sends(k, t, version[t])
    BY <1>0, <2>1, <2>2, HandedSends
  <2> QED
    BY <1>0, <1>10, <2>1, <2>2, <2>3 DEF Publish, Sends, Shape, Tasks
<1>11. ASSUME NEW topics \in SUBSET StateTopics, NEW kind \in Kinds,
              Answered(topics, kind)
       PROVE  Shape'
  <2>1. Sends("consumer", Answer, 0)
    BY <1>11, AnswerSends
  <2> QED
    BY <1>0, <1>11, <2>1 DEF Answered, Sends, Shape, Tasks
<1>12. CASE Deliver
  <2>1. /\ queue # <<>> /\ queue' = Tail(queue)
        /\ UNCHANGED <<phase, todo, lead, willArmed>>
        /\ Head(queue).topic \notin {Online, Offline} =>
             availability' = availability
        /\ Head(queue).topic = Offline => availability' = "offline"
    BY <1>12 DEF Deliver, Offline
  <2>2. /\ 1 \in DOMAIN queue /\ Head(queue) = queue[1]
        /\ \A i \in DOMAIN queue' : /\ i \in Nat
                                    /\ i + 1 \in DOMAIN queue
                                    /\ queue'[i] = queue[i + 1]
        /\ \A i \in DOMAIN queue : /\ i \in Nat
                                   /\ i = 1 \/ (i > 1 /\ i - 1 \in DOMAIN queue')
    BY <1>0, <2>1, Delivered
  <2>3. /\ \A i \in DOMAIN queue' :
             /\ phase' \in Connected
             /\ queue'[i].task # "main" =>
                  phase' \in Serving /\ queue'[i].topic \notin {Online, Offline}
        /\ \A i, j \in DOMAIN queue' : queue'[i].task = queue'[j].task => i = j
    BY <2>1, <2>2 DEF Shape
  <2>4. phase' = "serving" => Idle("main")'
    BY <2>1, <2>2 DEF Shape
  <2>5. phase' = "closing" =>
          /\ \A i \in DOMAIN queue' :
               queue'[i].task = "main" => queue'[i].topic = Offline
          /\ Idle("main")' => availability' = "offline"
    <3>1. SUFFICES ASSUME phase = "closing", Idle("main")'
                   PROVE  availability' = "offline"
      BY <2>1, <2>2 DEF Shape
    <3>2. \A i \in DOMAIN queue : i > 1 => queue[i].task # "main"
      BY <2>2, <3>1
    <3>3. CASE queue[1].task = "main"
      BY <2>1, <2>2, <3>1, <3>3 DEF Shape
    <3>4. CASE queue[1].task # "main"
      BY <2>1, <2>2, <3>1, <3>2, <3>4 DEF Shape
    <3> QED
      BY <3>3, <3>4
  <2> QED
    BY <2>1, <2>3, <2>4, <2>5 DEF Shape
<1>13. ASSUME NEW d \in Devices, Report(d)
       PROVE  Shape'
  BY <1>13 DEF Report, adapterVars, Shape
<1>14. CASE UNCHANGED vars
  BY <1>14 DEF vars, adapterVars, Shape
<1> QED
  BY <1>1, <1>2, <1>3, <1>4, <1>5, <1>6, <1>7, <1>8, <1>9, <1>10, <1>11,
     <1>12, <1>13, <1>14, Scopes
     DEF Next, Proceed, ConsumeGroup, ConsumeDevice, ConsumeRepeated, Kinds

(* "online" stands unguarded only after the client closed in order and     *)
(* without a word: while it can be delivered the will is armed, and stop   *)
(* waits for "offline".                                                    *)
LEMMA StepGuarded ==
    ASSUME AdapterTypeOK, Shape, OnlineIsGuarded, [Next]_vars
    PROVE  OnlineIsGuarded'
<1> USE StateTopicsAreNot DEF OnlineIsGuarded
<1>1. CASE Connect
  BY <1>1 DEF Connect
<1>2. CASE Greeted \/ PublishSnapshot \/ StartServing \/ BeginClose \/ Retry
             \/ Leave \/ Stop \/ TakeUpdate
  BY <1>2 DEF Greeted, PublishSnapshot, StartServing, BeginClose, Retry, Leave,
              Stop, TakeUpdate
<1>3. CASE Close
  BY <1>3 DEF Close, Shape
<1>4. CASE Lost
  BY <1>4 DEF Lost, Failed
<1>5. CASE TimedOut \/ ConsumerFails
  BY <1>5 DEF TimedOut, ConsumerFails
<1>6. ASSUME NEW k \in Tasks, Publish(k)
      PROVE  OnlineIsGuarded'
  BY <1>6 DEF Publish
<1>7. ASSUME NEW topics, NEW kind, Answered(topics, kind)
      PROVE  OnlineIsGuarded'
  BY <1>7 DEF Answered
<1>8. CASE Deliver
  <2>1. 1 \in DOMAIN queue /\ queue \in Seq(Message)
    BY <1>8 DEF Deliver, AdapterTypeOK
  <2>2. willArmed /\ willArmed' = willArmed
    BY <1>8, <2>1 DEF Deliver, Shape
  <2> QED
    BY <2>2
<1>9. CASE PublishWill
  BY <1>9 DEF PublishWill
<1>10. ASSUME NEW d \in Devices, Report(d)
       PROVE  OnlineIsGuarded'
  BY <1>10 DEF Report, adapterVars
<1>11. CASE UNCHANGED vars
  BY <1>11 DEF vars, adapterVars
<1> QED
  BY <1>1, <1>2, <1>3, <1>4, <1>5, <1>6, <1>7, <1>8, <1>9, <1>10, <1>11
     DEF Next, Proceed, ConsumeGroup, ConsumeDevice, ConsumeRepeated

(* Clients that read "online" can rely on the will: the broker holds it    *)
(* until the adapter said goodbye, whichever way a connection ends, unless *)
(* the client closed it in order without a word, after a time-out or when  *)
(* the consumer failed.                                                    *)
THEOREM AvailabilityGuarded == Spec => []OnlineIsGuarded
<1>1. Init => OnlineIsGuarded
  BY DEF Init, OnlineIsGuarded
<1> QED
  BY <1>1, InitType, InitShape, StepType, StepShape, StepGuarded, PTL DEF Spec

-----------------------------------------------------------------------------
(* Order of the published versions *)

Ordered ==
    /\ \A t \in StateTopics : retained[t] <= version[t] /\ captured[t] <= version[t]
    /\ \A i \in DOMAIN queue : queue[i].topic \in StateTopics =>
         /\ retained[queue[i].topic] <= queue[i].value
         /\ queue[i].value <= version[queue[i].topic]
    /\ \A i, j \in DOMAIN queue :
         i < j /\ queue[i].topic = queue[j].topic /\ queue[i].topic \in StateTopics
           => queue[i].value <= queue[j].value

(* While a connection starts, the topics it has not published yet are not  *)
(* under way, and the snapshots it has taken are newer than what the       *)
(* broker keeps and outdated only by what is dirty.                        *)
Fresh ==
    phase = "starting" =>
      /\ \A t \in todo["main"] :
           /\ \A i \in DOMAIN queue : queue[i].topic # t
           /\ Kind(t) \subseteq todo["main"]
                \/ /\ retained[t] <= captured[t]
                   /\ captured[t] = version[t] \/ t \in dirty
      /\ \A t, u \in StateTopics :
           t[1] = "group" /\ u[1] = "device" /\ t \in todo["main"]
             => u \in todo["main"]

LEMMA InitOrdered == Init => Ordered /\ Fresh /\ NothingForgotten
BY SourceAssumption
   DEF Init, SourceInit, Ordered, Fresh, NothingForgotten, NoSnapshots, Absent

LEMMA Numbers ==
    ASSUME SourceTypeOK, AdapterTypeOK
    PROVE  /\ \A u \in StateTopics : version[u] \in Int /\ retained[u] \in Int
           /\ \A i \in DOMAIN queue : queue[i] \in Message /\ queue[i].value \in Int
<1>1. Versions \subseteq Int /\ Absent \in Int
  BY SourceAssumption DEF Versions, Absent
<1>2. \A u \in StateTopics : version[u] \in Versions
  BY DEF SourceTypeOK
<1>3. \A u \in StateTopics : retained[u] \in Versions \cup {Absent}
  BY DEF AdapterTypeOK
<1>4. \A i \in DOMAIN queue : queue[i] \in Message
  BY DEF AdapterTypeOK
<1>5. \A i \in DOMAIN queue : queue[i].value \in Versions
  BY <1>4 DEF Message
<1> QED
  BY <1>1, <1>2, <1>3, <1>4, <1>5

(* A message that is not older than what is under way keeps the order.     *)
LEMMA OrderedSent ==
    ASSUME SourceTypeOK, AdapterTypeOK, Ordered, SourceTypeOK', AdapterTypeOK',
           NEW k \in Tasks, NEW v \in Versions,
           NEW t \in StateTopics \cup {Online, Offline, Answer},
           Sends(k, t, v), retained' = retained,
           \A u \in StateTopics : /\ version'[u] >= version[u]
                                  /\ captured'[u] <= version'[u],
           t \in StateTopics =>
             /\ retained[t] <= v
             /\ v <= version'[t]
             /\ \A i \in DOMAIN queue : queue[i].topic = t => queue[i].value <= v
    PROVE  Ordered'
<1>1. PICK n \in Nat :
         /\ n \notin DOMAIN queue
         /\ DOMAIN queue' = DOMAIN queue \cup {n}
         /\ \A i \in DOMAIN queue : i \in Nat /\ i < n /\ queue'[i] = queue[i]
         /\ queue'[n].task = k /\ queue'[n].topic = t /\ queue'[n].value = v
  BY DEF Sends
<1>2. /\ \A u \in StateTopics : version[u] \in Int /\ version'[u] \in Int
                                /\ retained[u] \in Int
      /\ \A i \in DOMAIN queue : queue[i].value \in Int
      /\ v \in Int
  <2>1. Versions \subseteq Int
    BY SourceAssumption DEF Versions
  <2>2. \A u \in StateTopics : version'[u] \in Int
    BY <2>1 DEF SourceTypeOK
  <2> QED
    BY <2>1, <2>2, Numbers
<1>3. \A u \in StateTopics : retained'[u] <= version'[u] /\ captured'[u] <= version'[u]
  BY <1>2 DEF Ordered
<1>4. ASSUME NEW i \in DOMAIN queue', queue'[i].topic \in StateTopics
      PROVE  /\ retained'[queue'[i].topic] <= queue'[i].value
             /\ queue'[i].value <= version'[queue'[i].topic]
  BY <1>1, <1>2, <1>4 DEF Ordered
<1>5. ASSUME NEW i \in DOMAIN queue', NEW j \in DOMAIN queue', i < j,
             queue'[i].topic = queue'[j].topic, queue'[i].topic \in StateTopics
      PROVE  queue'[i].value <= queue'[j].value
  BY <1>1, <1>2, <1>5 DEF Ordered
<1> QED
  BY <1>3, <1>4, <1>5 DEF Ordered

(* Versions that grow keep it too. *)
LEMMA OrderedKept ==
    ASSUME SourceTypeOK, AdapterTypeOK, Ordered, SourceTypeOK', AdapterTypeOK',
           queue' = queue \/ queue' = <<>>, retained' = retained,
           \A u \in StateTopics : /\ version'[u] >= version[u]
                                  /\ captured'[u] <= version'[u]
    PROVE  Ordered'
<1>1. /\ \A u \in StateTopics : version[u] \in Int /\ version'[u] \in Int
                                /\ retained[u] \in Int
      /\ \A i \in DOMAIN queue : queue[i].value \in Int
  <2>1. \A u \in StateTopics : version'[u] \in Int
    BY SourceAssumption DEF SourceTypeOK, Versions
  <2> QED
    BY <2>1, Numbers
<1>2. CASE queue' = queue
  BY <1>1, <1>2 DEF Ordered
<1>3. CASE queue' = <<>>
  BY <1>1, <1>3 DEF Ordered
<1> QED
  BY <1>2, <1>3

(* What a report or a command does to versions. *)
LEMMA VersionsGrow ==
    ASSUME SourceTypeOK, AdapterTypeOK, Ordered, [Next]_vars
    PROVE  \A u \in StateTopics : version'[u] >= version[u]
<1>1. CASE version' = version
  BY <1>1, Numbers
<1>2. ASSUME NEW g \in Groups, ConsumeGroup(g)
      PROVE  \A u \in StateTopics : version'[u] >= version[u]
  BY <1>2, GroupCommandedMoves DEF ConsumeGroup
<1>3. ASSUME NEW d \in Devices, ConsumeDevice(d)
      PROVE  \A u \in StateTopics : version'[u] >= version[u]
  BY <1>3, DeviceCommandedMoves DEF ConsumeDevice
<1>4. ASSUME NEW d \in Devices, Report(d)
      PROVE  \A u \in StateTopics : version'[u] >= version[u]
  BY <1>4, ReportMoves DEF Report
<1>5. ASSUME Proceed \/ Lost \/ TimedOut \/ ConsumerFails \/ Stop
             \/ TakeUpdate \/ ConsumeRepeated \/ Deliver \/ PublishWill \/ UNCHANGED vars
      PROVE  version' = version
  BY <1>5 DEF Proceed, Connect, Greeted, PublishSnapshot, StartServing,
              BeginClose, Close, Retry, Leave, Lost, TimedOut, ConsumerFails,
              Failed, Stop, TakeUpdate, Drained, ConsumeRepeated, Deliver, PublishWill, vars,
              sourceVars
<1>6. ASSUME NEW k \in Tasks, Publish(k)
      PROVE  version' = version
  BY <1>6 DEF Publish, sourceVars
<1> QED
  BY <1>1, <1>2, <1>3, <1>4, <1>5, <1>6 DEF Next

(* A snapshot that is sent is no older than what is under way. *)
LEMMA SnapshotOrdered ==
    ASSUME SourceTypeOK, AdapterTypeOK, Shape, Ordered, Fresh, PublishSnapshot,
           SourceTypeOK', AdapterTypeOK'
    PROVE  Ordered'
<1>1. PICK t \in Foremost(todo["main"], lead["main"]) :
             /\ t \in todo["main"] /\ t \in StateTopics
             /\ Taken(t) \in [StateTopics -> Versions]
             /\ captured' = IF todo["main"] \cap Kind(t) = {t}
                            THEN NoSnapshots ELSE Taken(t)
             /\ queue' = Handed("main", t, Taken(t)[t])
  BY SnapshotSent
<1>2. /\ phase = "starting"
      /\ \A i \in DOMAIN queue : queue[i].topic # t
      /\ Kind(t) \subseteq todo["main"] \/ retained[t] <= captured[t]
  BY <1>1 DEF Shape, Fresh
<1>3. Taken(t)[t] \in Versions /\ queue \in Seq(Message)
  BY <1>1 DEF AdapterTypeOK
<1>4. Sends("main", t, Taken(t)[t])
  BY <1>1, <1>3, HandedSends DEF Tasks
<1>5. version' = version /\ retained' = retained
  BY DEF PublishSnapshot, sourceVars
<1>6. \A u \in StateTopics : Taken(t)[u] <= version[u]
  BY Numbers DEF Taken, Ordered
<1>7. \A u \in StateTopics : 0 <= version[u]
  BY SourceAssumption DEF SourceTypeOK, Versions
<1>8. \A u \in StateTopics : captured'[u] <= version'[u]
  BY <1>1, <1>5, <1>6, <1>7 DEF NoSnapshots
<1>9. retained[t] <= Taken(t)[t] /\ Taken(t)[t] <= version'[t]
  <2>1. CASE Kind(t) \subseteq todo["main"]
    <3>1. Taken(t)[t] = version[t]
      BY <1>1, <2>1 DEF Taken, Kind
    <3> QED
      BY <1>1, <1>5, <3>1, Numbers DEF Ordered
  <2>2. CASE ~(Kind(t) \subseteq todo["main"])
    BY <1>1, <1>2, <1>5, <1>6, <2>2 DEF Taken
  <2> QED
    BY <2>1, <2>2
<1>10. \A u \in StateTopics : version'[u] >= version[u]
  BY <1>5, Numbers
<1> QED
  BY <1>1, <1>2, <1>3, <1>4, <1>5, <1>8, <1>9, <1>10, OrderedSent DEF Tasks

LEMMA DeliverOrdered ==
    ASSUME SourceTypeOK, AdapterTypeOK, Ordered, Deliver
    PROVE  /\ Ordered'
           /\ \A t \in StateTopics :
                retained'[t] = IF t = queue[1].topic THEN queue[1].value
                                                     ELSE retained[t]
           /\ \A t \in StateTopics : retained[t] <= retained'[t]
<1>1. queue \in Seq(Message) /\ queue # <<>> /\ queue' = Tail(queue)
  BY DEF Deliver, AdapterTypeOK
<1>2. /\ 1 \in DOMAIN queue /\ Head(queue) = queue[1] /\ queue[1] \in Message
      /\ \A i \in DOMAIN queue' : /\ i \in Nat /\ i > 0
                                  /\ i + 1 \in DOMAIN queue
                                  /\ queue'[i] = queue[i + 1]
  BY <1>1, Delivered
<1>3. /\ retained' = IF queue[1].topic \in StateTopics
                     THEN [retained EXCEPT ![queue[1].topic] = queue[1].value]
                     ELSE retained
      /\ UNCHANGED <<version, captured>>
  BY <1>2 DEF Deliver, sourceVars
<1>4. \A t \in StateTopics :
        retained'[t] = IF t = queue[1].topic THEN queue[1].value ELSE retained[t]
  BY <1>3 DEF AdapterTypeOK
<1>5. \A t \in StateTopics : retained[t] <= retained'[t]
  BY <1>2, <1>4, Numbers DEF Ordered
<1>6. \A t \in StateTopics : retained'[t] <= version'[t] /\ captured'[t] <= version'[t]
  BY <1>2, <1>3, <1>4, Numbers DEF Ordered
<1>7. ASSUME NEW i \in DOMAIN queue', queue'[i].topic \in StateTopics
      PROVE  /\ retained'[queue'[i].topic] <= queue'[i].value
             /\ queue'[i].value <= version'[queue'[i].topic]
  <2> DEFINE m == queue[i + 1]
  <2>1. /\ i + 1 \in DOMAIN queue /\ 1 < i + 1 /\ queue'[i] = m
    BY <1>2
  <2>2. m.topic = queue[1].topic => queue[1].value <= m.value
    BY <1>2, <1>7, <2>1 DEF Ordered
  <2>3. retained[m.topic] <= m.value /\ m.value <= version[m.topic]
    BY <1>7, <2>1 DEF Ordered
  <2> QED
    BY <1>3, <1>4, <1>7, <2>1, <2>2, <2>3
<1>8. ASSUME NEW i \in DOMAIN queue', NEW j \in DOMAIN queue', i < j,
             queue'[i].topic = queue'[j].topic, queue'[i].topic \in StateTopics
      PROVE  queue'[i].value <= queue'[j].value
  <2>1. i + 1 < j + 1
    BY <1>2, <1>8
  <2> QED
    BY <1>2, <1>8, <2>1 DEF Ordered
<1> QED
  BY <1>4, <1>5, <1>6, <1>7, <1>8 DEF Ordered

LEMMA StepOrdered ==
    ASSUME SourceTypeOK, AdapterTypeOK, Shape, Ordered, Fresh, [Next]_vars
    PROVE  Ordered'
<1> USE Numbers
<1>0. /\ SourceTypeOK' /\ AdapterTypeOK'
      /\ \A u \in StateTopics : version'[u] >= version[u]
      /\ queue \in Seq(Message)
  BY StepType, VersionsGrow DEF AdapterTypeOK
<1>1. \A u \in StateTopics : 0 <= version'[u]
  BY <1>0, SourceAssumption DEF SourceTypeOK, Versions
<1>2. \A u \in StateTopics : captured[u] <= version'[u]
  <2>1. \A u \in StateTopics : captured[u] \in Int /\ version'[u] \in Int
    BY <1>0, SourceAssumption DEF AdapterTypeOK, SourceTypeOK, Versions
  <2> QED
    BY <1>0, <2>1 DEF Ordered
<1>3. ASSUME NEW k \in Tasks, NEW t \in {Online, Offline, Answer},
             queue' = Handed(k, t, 0), retained' = retained, captured' = captured
      PROVE  Ordered'
  <2>1. Sends(k, t, 0)
    BY <1>0, <1>3, HandedSends, ZeroVersion
  <2> QED
    BY <1>0, <1>2, <1>3, <2>1, OrderedSent, StateTopicsAreNot, ZeroVersion
<1>4. ASSUME NEW k \in Tasks, NEW topics \in SUBSET StateTopics,
             NEW kind \in Kinds, PublishOneOf(k, topics, kind),
             version' = version, retained' = retained, captured' = captured
      PROVE  Ordered'
  <2>1. PICK t \in topics : queue' = Handed(k, t, version[t])
    BY <1>4, PublishedOne
  <2>2. version[t] \in Versions /\ t \in StateTopics
    BY DEF SourceTypeOK
  <2>3. Sends(k, t, version[t])
    BY <1>0, <2>1, <2>2, HandedSends
  <2>4. /\ retained[t] <= version[t] /\ version[t] <= version'[t]
        /\ \A i \in DOMAIN queue :
             queue[i].topic = t => queue[i].value <= version[t]
    BY <1>0, <1>4, <2>2 DEF Ordered
  <2> QED
    BY <1>0, <1>2, <1>4, <2>2, <2>3, <2>4, OrderedSent
<1>5. ASSUME queue' = queue \/ queue' = <<>>, retained' = retained,
             captured' = captured \/ captured' = NoSnapshots
      PROVE  Ordered'
  BY <1>0, <1>1, <1>2, <1>5, OrderedKept DEF NoSnapshots
<1>6. CASE Connect \/ BeginClose
  BY <1>3, <1>6 DEF Connect, BeginClose, Tasks
<1>7. CASE PublishSnapshot
  BY <1>0, <1>7, SnapshotOrdered
<1>8. CASE Greeted \/ StartServing \/ Retry \/ Leave \/ Stop \/ PublishWill
  BY <1>5, <1>8 DEF Greeted, StartServing, Retry, Leave, Stop, PublishWill
<1>8a. CASE Close \/ Lost \/ TimedOut \/ ConsumerFails
  BY <1>5, <1>8a DEF Close, Lost, TimedOut, ConsumerFails, Failed, LoopsEnd
<1>9. CASE TakeUpdate
  BY <1>4, <1>9 DEF TakeUpdate, Drained, SourceTypeOK, Tasks, Kinds
<1>10. ASSUME NEW k \in Tasks, Publish(k)
       PROVE  Ordered'
  BY <1>4, <1>10 DEF Publish, AdapterTypeOK, sourceVars
<1>11. ASSUME NEW topics, NEW kind, Answered(topics, kind)
       PROVE  Ordered'
  BY <1>3, <1>11 DEF Answered, Tasks
<1>12. CASE Deliver
  BY <1>12, DeliverOrdered
<1>13. ASSUME NEW d \in Devices, Report(d)
       PROVE  Ordered'
  BY <1>5, <1>13 DEF Report, adapterVars
<1>14. CASE UNCHANGED vars
  BY <1>5, <1>14 DEF vars, adapterVars
<1> QED
  BY <1>6, <1>7, <1>8, <1>8a, <1>9, <1>10, <1>11, <1>12, <1>13, <1>14
     DEF Next, Proceed, ConsumeGroup, ConsumeDevice, ConsumeRepeated

-----------------------------------------------------------------------------
(* The start of a connection *)

(* Of the topics left, the snapshots of their kind are kept. *)
LEMMA SnapshotFresh ==
    ASSUME SourceTypeOK, AdapterTypeOK, Shape, Ordered, Fresh, PublishSnapshot
    PROVE  Fresh'
<1>1. PICK t \in Foremost(todo["main"], lead["main"]) :
             /\ t \in todo["main"] /\ t \in StateTopics
             /\ Taken(t) \in [StateTopics -> Versions]
             /\ captured' = IF todo["main"] \cap Kind(t) = {t}
                            THEN NoSnapshots ELSE Taken(t)
             /\ queue' = Handed("main", t, Taken(t)[t])
             /\ todo' = [todo EXCEPT !["main"] = @ \ {t}]
  BY SnapshotSent
<1>2. Sends("main", t, Taken(t)[t])
  BY <1>1, HandedSends DEF Tasks, AdapterTypeOK
<1>3. /\ phase = "starting" /\ lead["main"] = "group"
      /\ UNCHANGED <<version, dirty, retained>>
      /\ todo'["main"] = todo["main"] \ {t}
      /\ todo["main"] \in SUBSET StateTopics
  BY <1>1 DEF Shape, PublishSnapshot, sourceVars, AdapterTypeOK, Tasks
<1>4. t[1] = "group" \/ \A s \in todo["main"] : s[1] # "group"
  BY <1>1, <1>3 DEF Foremost
<1>5. \A s \in StateTopics : s[1] \in {"group", "device"}
  BY DEF StateTopics
<1>6. ASSUME NEW s \in todo'["main"]
      PROVE  /\ \A i \in DOMAIN queue' : queue'[i].topic # s
             /\ Kind(s) \subseteq todo'["main"]
                  \/ /\ retained'[s] <= captured'[s]
                     /\ captured'[s] = version'[s] \/ s \in dirty'
  <2>1. s \in todo["main"] /\ s \in StateTopics /\ s # t
    BY <1>3
  <2>2. \A i \in DOMAIN queue' : queue'[i].topic # s
    BY <1>2, <1>3, <2>1 DEF Sends, Fresh
  <2>3. CASE s[1] = t[1]
    <3>1. Kind(s) = Kind(t) /\ s \in Kind(t)
      BY <2>1, <2>3 DEF Kind
    <3>2. captured' = Taken(t)
      BY <1>1, <2>1, <3>1
    <3>3. CASE Kind(t) \subseteq todo["main"]
      <4>1. captured'[s] = version[s]
        BY <2>1, <3>1, <3>2, <3>3 DEF Taken
      <4> QED
        BY <1>3, <2>1, <2>2, <4>1 DEF Ordered
    <3>4. CASE ~(Kind(t) \subseteq todo["main"])
      <4>1. captured' = captured
        BY <3>2, <3>4 DEF Taken
      <4> QED
        BY <1>3, <2>1, <2>2, <3>1, <3>4, <4>1 DEF Fresh
    <3> QED
      BY <3>3, <3>4
  <2>4. CASE s[1] # t[1]
    <3>1. t[1] = "group" /\ s[1] = "device"
      BY <1>1, <1>4, <1>5, <2>1, <2>4
    <3>2. \A u \in Kind(s) : u \in todo["main"] /\ u # t
      BY <1>1, <1>3, <3>1 DEF Fresh, Kind
    <3> QED
      BY <1>3, <2>2, <3>2
  <2> QED
    BY <2>3, <2>4
<1>7. \A s, u \in StateTopics :
        s[1] = "group" /\ u[1] = "device" /\ s \in todo'["main"]
          => u \in todo'["main"]
  BY <1>3, <1>4 DEF Fresh
<1> QED
  BY <1>6, <1>7 DEF Fresh

LEMMA StepFresh ==
    ASSUME SourceTypeOK, AdapterTypeOK, Shape, Ordered, Fresh, [Next]_vars
    PROVE  Fresh'
<1>1. CASE phase' # "starting"
  BY <1>1 DEF Fresh
<1>2. CASE Greeted
  <2>1. todo'["main"] = StateTopics
    BY <1>2 DEF Greeted, AdapterTypeOK, Tasks
  <2>2. \A i \in DOMAIN queue' : FALSE
    BY <1>2 DEF Greeted, Idle, Shape, Serving
  <2> QED
    BY <2>1, <2>2 DEF Fresh, Kind
<1>3. CASE PublishSnapshot
  BY <1>3, SnapshotFresh
<1>4. ASSUME UNCHANGED <<phase, todo, queue, captured, retained>>,
             dirty \subseteq dirty',
             \A t \in StateTopics : t \in dirty' \/ version'[t] = version[t]
      PROVE  Fresh'
  <2> SUFFICES ASSUME phase = "starting" PROVE Fresh'
    BY <1>4 DEF Fresh
  <2>1. todo["main"] \in SUBSET StateTopics
    BY DEF AdapterTypeOK, Tasks
  <2> QED
    BY <1>4, <2>1 DEF Fresh
<1>5. ASSUME NEW d \in Devices, Report(d)
      PROVE  Fresh'
  BY <1>4, <1>5, ReportMoves DEF Report, adapterVars
<1>6. CASE Stop \/ PublishWill \/ UNCHANGED vars
  BY <1>4, <1>6 DEF Stop, PublishWill, vars, adapterVars, sourceVars
<1>7. CASE Deliver
  <2> SUFFICES ASSUME phase = "starting" PROVE Fresh'
    BY <1>7 DEF Fresh, Deliver
  <2>1. /\ queue \in Seq(Message) /\ queue # <<>> /\ queue' = Tail(queue)
        /\ UNCHANGED <<phase, todo, captured, version, dirty>>
    BY <1>7 DEF Deliver, AdapterTypeOK, sourceVars
  <2>2. 1 \in DOMAIN queue
        /\ \A i \in DOMAIN queue' : i + 1 \in DOMAIN queue /\ queue'[i] = queue[i + 1]
    BY <2>1, Delivered
  <2>3. \A t \in StateTopics :
          retained'[t] = IF t = queue[1].topic THEN queue[1].value ELSE retained[t]
    BY <1>7, DeliverOrdered
  <2>4. todo["main"] \in SUBSET StateTopics
    BY DEF AdapterTypeOK, Tasks
  <2> QED
    BY <2>1, <2>2, <2>3, <2>4 DEF Fresh
<1>8. ASSUME NEW topics, NEW kind, Answered(topics, kind)
      PROVE  phase' # "starting"
  BY <1>8 DEF Answered, Serving
<1>9. ASSUME NEW k \in Tasks, Publish(k)
      PROVE  phase' # "starting"
  BY <1>9 DEF Publish, Serving
<1>10. CASE Connect \/ StartServing \/ BeginClose \/ Close \/ Retry \/ Leave
              \/ Lost \/ TimedOut \/ ConsumerFails \/ TakeUpdate
  BY <1>1, <1>10 DEF Connect, StartServing, BeginClose, Close, Retry, Leave,
                     Lost, TimedOut, ConsumerFails, Failed, TakeUpdate, Serving
<1> QED
  BY <1>1, <1>2, <1>3, <1>5, <1>6, <1>7, <1>8, <1>9, <1>10
     DEF Next, Proceed, ConsumeGroup, ConsumeDevice, ConsumeRepeated

-----------------------------------------------------------------------------
(* Nothing is forgotten *)

Accounted(t) == retained[t] = version[t] \/ Owed(t)

LEMMA StepForgotten ==
    ASSUME SourceTypeOK, AdapterTypeOK, Shape, Ordered, Fresh, NothingForgotten,
           [Next]_vars
    PROVE  NothingForgotten'
<1> USE DEF NothingForgotten
<1>0. queue \in Seq(Message) /\ todo \in [Tasks -> SUBSET StateTopics]
  BY DEF AdapterTypeOK
<1>1. CASE phase' \notin {"starting", "serving", "closing"}
  BY <1>1
(* What was owed stays owed when queues and loops only grow. *)
<1>2. ASSUME NEW t \in StateTopics, Accounted(t), version'[t] = version[t],
             retained' = retained, t \in dirty => t \in dirty',
             \A k \in Tasks : t \in todo[k] => t \in todo'[k],
             \A i \in DOMAIN queue : i \in DOMAIN queue' /\ queue'[i] = queue[i]
      PROVE  Accounted(t)'
  BY <1>2 DEF Accounted, Owed
<1>3. ASSUME UNCHANGED <<version, dirty, phase, todo, queue, retained>>
      PROVE  NothingForgotten'
  BY <1>3 DEF Owed
<1>4. CASE Greeted
  <2>1. todo'["main"] = StateTopics
    BY <1>4 DEF Greeted, AdapterTypeOK, Tasks
  <2> QED
    BY <2>1 DEF Owed, Tasks
<1>5. CASE PublishSnapshot
  <2>1. PICK t \in Foremost(todo["main"], lead["main"]) :
             /\ t \in todo["main"] /\ t \in StateTopics
             /\ Taken(t) \in [StateTopics -> Versions]
             /\ queue' = Handed("main", t, Taken(t)[t])
             /\ todo' = [todo EXCEPT !["main"] = @ \ {t}]
    BY SnapshotSent, <1>5
  <2>2. PICK n \in Nat :
          /\ n \notin DOMAIN queue
          /\ DOMAIN queue' = DOMAIN queue \cup {n}
          /\ \A i \in DOMAIN queue : i \in Nat /\ i < n /\ queue'[i] = queue[i]
          /\ queue'[n].task = "main" /\ queue'[n].topic = t
          /\ queue'[n].value = Taken(t)[t]
    <3>1. Sends("main", t, Taken(t)[t])
      BY <1>0, <2>1, HandedSends DEF Tasks
    <3> QED
      BY <3>1 DEF Sends
  <2>3. phase = "starting" /\ UNCHANGED <<version, dirty, phase, retained>>
    BY <1>5, <2>1 DEF Shape, PublishSnapshot, sourceVars
  <2>4. Taken(t)[t] = version[t] \/ t \in dirty
    BY <2>1, <2>3 DEF Taken, Kind, Fresh
  <2>5. Accounted(t)'
    BY <2>2, <2>3, <2>4 DEF Accounted, Owed
  <2>6. ASSUME NEW u \in StateTopics, u # t
        PROVE  Accounted(u)'
    <3>1. Accounted(u)
      BY <2>3 DEF Accounted
    <3>2. \A k \in Tasks : u \in todo[k] => u \in todo'[k]
      BY <1>0, <2>1, <2>6
    <3> QED
      BY <1>2, <2>2, <2>3, <3>1, <3>2
  <2> QED
    BY <2>5, <2>6 DEF Accounted
<1>6. CASE StartServing \/ BeginClose
  <2>1. /\ phase \in {"starting", "serving"}
        /\ UNCHANGED <<version, dirty, todo, retained>>
    BY <1>6 DEF StartServing, BeginClose, sourceVars
  <2>2. \A i \in DOMAIN queue : i \in DOMAIN queue' /\ queue'[i] = queue[i]
    <3>1. CASE queue' = queue
      BY <3>1
    <3>2. CASE queue' = Handed("main", Offline, 0)
      <4>1. Sends("main", Offline, 0)
        BY <1>0, <3>2, HandedSends, ZeroVersion DEF Tasks
      <4> QED
        BY <4>1 DEF Sends
    <3> QED
      BY <1>6, <3>1, <3>2 DEF StartServing, BeginClose
  <2> QED
    BY <1>2, <2>1, <2>2 DEF Accounted
(* A round of a loop: what it sends is current. *)
<1>7. ASSUME NEW k \in Tasks, NEW topics \in SUBSET StateTopics,
             NEW kind \in Kinds, PublishOneOf(k, topics, kind),
             todo[k] \subseteq topics, dirty \subseteq dirty' \cup topics,
             phase \in Serving, UNCHANGED <<version, phase, retained>>
      PROVE  NothingForgotten'
  <2>1. PICK t \in topics : /\ queue' = Handed(k, t, version[t])
                            /\ todo' = [todo EXCEPT ![k] = topics \ {t}]
    BY <1>7, PublishedOne
  <2>2. version[t] \in Versions /\ t \in StateTopics
    BY DEF SourceTypeOK
  <2>3. PICK n \in Nat :
          /\ n \notin DOMAIN queue
          /\ DOMAIN queue' = DOMAIN queue \cup {n}
          /\ \A i \in DOMAIN queue : i \in Nat /\ i < n /\ queue'[i] = queue[i]
          /\ queue'[n].task = k /\ queue'[n].topic = t
          /\ queue'[n].value = version[t]
    <3>1. Sends(k, t, version[t])
      BY <1>0, <2>1, <2>2, HandedSends
    <3> QED
      BY <3>1 DEF Sends
  <2>4. todo'[k] = topics \ {t} /\ \A j \in Tasks : j # k => todo'[j] = todo[j]
    BY <1>0, <2>1
  <2>5. Accounted(t)'
    BY <1>7, <2>3 DEF Accounted, Owed
  <2>6. ASSUME NEW u \in StateTopics, u # t
        PROVE  Accounted(u)'
    <3>1. Accounted(u)
      BY <1>7 DEF Accounted, Serving
    <3>2. CASE u \in topics
      BY <2>4, <2>6, <3>2 DEF Accounted, Owed
    <3>3. CASE u \notin topics
      <4>1. \A j \in Tasks : u \in todo[j] => u \in todo'[j]
        BY <1>7, <2>4, <3>3
      <4> QED
        BY <1>2, <1>7, <2>3, <3>1, <3>3, <4>1
    <3> QED
      BY <3>2, <3>3
  <2> QED
    BY <2>5, <2>6 DEF Accounted
<1>8. CASE TakeUpdate
  <2>1. /\ dirty \in SUBSET StateTopics /\ todo["publisher"] = {}
        /\ PublishOneOf("publisher", dirty, "device")
        /\ phase \in Serving /\ UNCHANGED <<version, phase, retained>>
    BY <1>8 DEF TakeUpdate, Drained, SourceTypeOK
  <2> QED
    BY <1>7, <2>1 DEF Tasks, Kinds
<1>9. ASSUME NEW k \in Tasks, Publish(k)
      PROVE  NothingForgotten'
  <2>1. /\ todo[k] \in SUBSET StateTopics /\ lead[k] \in Kinds
        /\ PublishOneOf(k, todo[k], lead[k]) /\ dirty' = dirty
        /\ phase \in Serving /\ UNCHANGED <<version, phase, retained>>
    BY <1>9 DEF Publish, AdapterTypeOK, sourceVars
  <2> QED
    BY <1>7, <2>1
(* An accepted command: its scope is what changed. *)
<1>10. ASSUME NEW topics \in SUBSET StateTopics, NEW kind \in Kinds,
              Answered(topics, kind), dirty' = dirty,
              \A t \in StateTopics \ topics : version'[t] = version[t]
       PROVE  NothingForgotten'
  <2>1. /\ phase \in Serving /\ UNCHANGED <<phase, retained>>
        /\ todo["consumer"] = {} /\ todo'["consumer"] = topics
        /\ \A k \in Tasks : k # "consumer" => todo'[k] = todo[k]
    BY <1>0, <1>10 DEF Answered, Tasks
  <2>2. \A i \in DOMAIN queue : i \in DOMAIN queue' /\ queue'[i] = queue[i]
    BY <1>10, AnswerSends DEF Sends
  <2>3. ASSUME NEW t \in StateTopics
        PROVE  Accounted(t)'
    <3>1. CASE t \in topics
      BY <2>1, <3>1 DEF Accounted, Owed, Tasks
    <3>2. CASE t \notin topics
      <4>1. Accounted(t)
        BY <2>1 DEF Accounted, Serving
      <4>2. \A k \in Tasks : t \in todo[k] => t \in todo'[k]
        BY <2>1
      <4> QED
        BY <1>2, <1>10, <2>1, <2>2, <3>2, <4>1, <4>2
    <3> QED
      BY <3>1, <3>2
  <2> QED
    BY <2>3 DEF Accounted
<1>11. ASSUME NEW g \in Groups, ConsumeGroup(g)
       PROVE  NothingForgotten'
  BY <1>10, <1>11, GroupCommandedMoves, Scopes DEF ConsumeGroup, Kinds
<1>12. ASSUME NEW d \in Devices, ConsumeDevice(d)
       PROVE  NothingForgotten'
  BY <1>10, <1>12, DeviceCommandedMoves, Scopes DEF ConsumeDevice, Kinds
<1>13. CASE ConsumeRepeated
  <2>1. \E topics \in SUBSET StateTopics, kind \in Kinds :
          Answered(topics, kind)
    BY <1>13, Scopes DEF ConsumeRepeated, Kinds
  <2> QED
    BY <1>10, <1>13, <2>1 DEF ConsumeRepeated, sourceVars
<1>14. CASE Deliver
  <2>1. /\ queue # <<>> /\ queue' = Tail(queue)
        /\ UNCHANGED <<phase, todo, version, dirty>>
    BY <1>14 DEF Deliver, sourceVars
  <2>2. /\ 1 \in DOMAIN queue
        /\ \A i \in DOMAIN queue' : i + 1 \in DOMAIN queue /\ queue'[i] = queue[i + 1]
        /\ \A i \in DOMAIN queue : /\ i \in Nat
                                   /\ i = 1 \/ (i > 1 /\ i - 1 \in DOMAIN queue')
    BY <1>0, <2>1, Delivered
  <2>3. \A i \in DOMAIN queue : i = 1 \/ \E j \in DOMAIN queue' : queue'[j] = queue[i]
    <3>1. ASSUME NEW i \in DOMAIN queue, i # 1
          PROVE  i - 1 \in DOMAIN queue' /\ queue'[i - 1] = queue[i]
      <4>1. i - 1 \in DOMAIN queue' /\ (i - 1) + 1 = i
        BY <2>2, <3>1
      <4> QED
        BY <2>2, <4>1
    <3> QED
      BY <3>1
  <2>4. \A t \in StateTopics :
          /\ retained'[t] = IF t = queue[1].topic THEN queue[1].value
                                                  ELSE retained[t]
          /\ retained[t] <= retained'[t] /\ retained'[t] <= version'[t]
          /\ version[t] \in Int /\ retained[t] \in Int
    BY <1>14, DeliverOrdered, Numbers DEF Ordered
  <2>5. queue[1].value \in Int
    BY <2>2, Numbers
  <2>6. ASSUME NEW t \in StateTopics, Accounted(t)
        PROVE  Accounted(t)'
    <3>1. CASE retained[t] = version[t]
      BY <2>1, <2>4, <2>5, <3>1 DEF Accounted
    <3>2. CASE t \in dirty \/ \E k \in Tasks : t \in todo[k]
      BY <2>1, <3>2 DEF Accounted, Owed
    <3>3. ASSUME NEW i \in DOMAIN queue, queue[i].topic = t,
                 queue[i].value = version[t]
          PROVE  Accounted(t)'
      BY <2>1, <2>3, <2>4, <3>3 DEF Accounted, Owed
    <3> QED
      BY <2>6, <3>1, <3>2, <3>3 DEF Accounted, Owed
  <2> QED
    BY <2>1, <2>6 DEF Accounted
<1>15. ASSUME NEW d \in Devices, Report(d)
       PROVE  NothingForgotten'
  <2>1. /\ UNCHANGED <<phase, todo, queue, retained>> /\ dirty \subseteq dirty'
        /\ \A t \in StateTopics : t \in dirty' \/ version'[t] = version[t]
    BY <1>15, ReportMoves DEF Report, adapterVars
  <2>2. ASSUME NEW t \in StateTopics, Accounted(t)
        PROVE  Accounted(t)'
    <3>1. CASE t \in dirty'
      BY <3>1 DEF Accounted, Owed
    <3>2. CASE t \notin dirty'
      BY <1>2, <2>1, <2>2, <3>2
    <3> QED
      BY <3>1, <3>2
  <2> QED
    BY <2>1, <2>2 DEF Accounted
<1>16. CASE Stop \/ PublishWill \/ UNCHANGED vars
  BY <1>3, <1>16 DEF Stop, PublishWill, vars, adapterVars, sourceVars
<1>17. CASE Connect \/ Close \/ Retry \/ Leave \/ Lost \/ TimedOut \/ ConsumerFails
  BY <1>1, <1>17 DEF Connect, Close, Retry, Leave, Lost, TimedOut, ConsumerFails,
                     Failed
<1> QED
  BY <1>4, <1>5, <1>6, <1>8, <1>9, <1>11, <1>12, <1>13, <1>14, <1>15, <1>16,
     <1>17 DEF Next, Proceed

(* Whatever broke on the way, a topic whose retained copy is not current   *)
(* is still owed a publication by some task.                               *)
THEOREM UpdatesRemembered == Spec => []NothingForgotten
BY InitType, InitShape, InitOrdered, StepType, StepShape, StepOrdered, StepFresh,
   StepForgotten, PTL DEF Spec

-----------------------------------------------------------------------------
(* Refinement *)

LEMMA StepMirrors ==
    ASSUME SourceTypeOK, AdapterTypeOK, Shape, Ordered, Fresh, [Next]_vars
    PROVE  [Mirror!MirrorNext]_(Mirror!mirrorVars)
<1> USE DEF Mirror!mirrorVars
<1>1. CASE Deliver
  <2>1. version' = version /\ 1 \in DOMAIN queue
    BY <1>1 DEF Deliver, sourceVars, AdapterTypeOK
  <2>2. CASE queue[1].topic \notin StateTopics
    BY <1>1, <2>1, <2>2 DEF Deliver, AdapterTypeOK
  <2>3. ASSUME NEW t \in StateTopics, t = queue[1].topic
        PROVE  Mirror!Show(t) \/ retained' = retained
    <3>1. retained' = [retained EXCEPT ![t] = queue[1].value]
      <4>1. Head(queue) = queue[1]
        BY <1>1 DEF Deliver, AdapterTypeOK
      <4> QED
        BY <1>1, <2>3, <4>1 DEF Deliver
    <3>2. /\ queue[1].value \in Int /\ retained[t] \in Int /\ version[t] \in Int
          /\ retained[t] <= queue[1].value /\ queue[1].value <= version[t]
      BY <2>1, <2>3, Numbers DEF Ordered
    <3>3. CASE queue[1].value = retained[t]
      BY <3>1, <3>3 DEF AdapterTypeOK
    <3>4. CASE queue[1].value # retained[t]
      <4>1. queue[1].value \in retained[t] + 1 .. version[t]
        BY <3>2, <3>4
      <4> QED
        BY <2>1, <3>1, <4>1 DEF Mirror!Show
    <3> QED
      BY <3>3, <3>4
  <2> QED
    BY <2>1, <2>2, <2>3 DEF Mirror!MirrorNext
<1>2. CASE retained' = retained
  <2>1. version' \in [StateTopics -> Nat]
    BY StepType, SourceAssumption DEF SourceTypeOK, Versions
  <2> QED
    BY <1>2, <2>1, VersionsGrow DEF Mirror!MirrorNext, Mirror!Advance
<1>3. CASE Proceed \/ Lost \/ TimedOut \/ ConsumerFails \/ Stop \/ TakeUpdate
           \/ ConsumeRepeated \/ PublishWill \/ UNCHANGED vars
  BY <1>2, <1>3 DEF Proceed, Connect, Greeted, PublishSnapshot, StartServing,
       BeginClose, Close, Retry, Leave, Lost, TimedOut, ConsumerFails, Failed, Stop,
       TakeUpdate, ConsumeRepeated, Answered, PublishWill, vars, adapterVars
<1>4. ASSUME NEW k \in Tasks, Publish(k)
      PROVE  retained' = retained
  BY <1>4 DEF Publish
<1>5. ASSUME NEW topics, NEW kind, Answered(topics, kind)
      PROVE  retained' = retained
  BY <1>5 DEF Answered
<1>6. ASSUME NEW d \in Devices, Report(d)
      PROVE  retained' = retained
  BY <1>6 DEF Report, adapterVars
<1> QED
  BY <1>1, <1>2, <1>3, <1>4, <1>5, <1>6 DEF Next, ConsumeGroup, ConsumeDevice

(* The adapter keeps the promise of StateMirror: clients see versions the  *)
(* service had, in their order, over any number of connections.            *)
THEOREM AdapterMirrors == Spec => ImplementsMirror
<1>1. Init => Mirror!MirrorInit
  BY DEF Init, SourceInit, Mirror!MirrorInit, Absent
<1> QED
  BY <1>1, InitType, InitShape, InitOrdered, StepType, StepShape, StepOrdered,
     StepFresh, StepMirrors, PTL DEF Spec, ImplementsMirror, Mirror!MirrorSpec

=============================================================================
