---------------------------- MODULE MqttAdapter ----------------------------
(***************************************************************************)
(* MqttAdapter (src/jebao_flow/mqtt/client.py) between the service, seen   *)
(* through StateSource, and a broker that keeps the last message of every  *)
(* retained topic.                                                         *)
(*                                                                         *)
(* Three tasks publish over one connection: run itself (availability and   *)
(* the snapshots at the start of a connection), the command consumer and   *)
(* the publisher of observer updates.  Each awaits the acknowledgement of  *)
(* its publish before it goes on, and takes a snapshot and hands it to the *)
(* client without an await in between, so that is one step; between two    *)
(* publishes of a task the others run.  The exception are the two tuples   *)
(* of snapshots a connection starts with, which are taken once each.       *)
(*                                                                         *)
(* The client library and the broker are external: messages of one         *)
(* connection arrive in order, a lost connection loses the ones on their   *)
(* way and makes the broker publish the will, an orderly disconnect drops  *)
(* the will.  Payloads are versions; the constant system/config topic goes *)
(* with the availability topic; a result or a status message is an Answer. *)
(***************************************************************************)
EXTENDS StateSource, Sequences

CONSTANTS
    MaxLosses,        \* bound on connection attempts and connections that fail
    MaxTimeouts       \* bound on errors that leave the connection standing

VARIABLES
    phase,            \* where run and _run_connected are
    todo,             \* todo[task]: what is left of the task's publish loops
    lead,             \* lead[task]: the kind of topic its first loop is over
    captured,         \* the snapshots taken at the start of a start-up loop
    queue,            \* published, not yet acknowledged, oldest first
    retained,         \* the broker's copy of the state topics
    availability,     \* the broker's copy of system/availability
    willArmed,        \* the broker will publish the will for the session
    silent,           \* the client closed the last connection in order and
                      \* without a word
    stopEvent,        \* stop_event.is_set()
    accepted,         \* the kinds of command of which the service remembers
                      \* an accepted one
    losses, timeouts  \* how often MaxLosses and MaxTimeouts were used

adapterVars == <<phase, todo, lead, captured, queue, retained, availability,
                 willArmed, silent, stopEvent, accepted, losses, timeouts>>
vars == <<sourceVars, adapterVars>>

ASSUME AdapterAssumption == MaxLosses \in Nat /\ MaxTimeouts \in Nat

-----------------------------------------------------------------------------
Tasks == {"main", "consumer", "publisher"}

(* What a loop of a task is over; "unknown" is the consumer's, when it has *)
(* answered a command for a group or device there is none of.              *)
Kinds == {"group", "device", "unknown"}

Online  == <<"availability", "online">>
Offline == <<"availability", "offline">>
Answer  == <<"requests", "result">>

Absent == -1

Message ==
    [task  : Tasks,
     topic : StateTopics \cup {Online, Offline, Answer},
     value : Versions]

(* The connection is open in these phases, the tasks run in the last two.  *)
Connected == {"greeting", "starting", "serving", "closing"}
Serving   == {"serving", "closing"}
Phases    == Connected \cup {"connecting", "waiting", "done", "failed"}

NoSnapshots == [t \in StateTopics |-> 0]

Init ==
    /\ SourceInit
    /\ phase = "connecting"
    /\ todo = [k \in Tasks |-> {}]
    /\ lead = [k \in Tasks |-> "group"]
    /\ captured = NoSnapshots
    /\ queue = <<>>
    /\ retained = [t \in StateTopics |-> Absent]
    /\ availability = "offline"
    /\ willArmed = FALSE
    /\ silent = FALSE
    /\ stopEvent = FALSE
    /\ accepted = {}
    /\ losses = 0
    /\ timeouts = 0

-----------------------------------------------------------------------------
(* Publishing *)

(* The task does not await an acknowledgement. *)
Idle(k) == \A i \in DOMAIN queue : queue[i].task # k

Handed(k, t, v) == Append(queue, [task |-> k, topic |-> t, value |-> v])

(* The topics the next publish may be for: the first loop comes first.     *)
Foremost(topics, kind) ==
    IF \E t \in topics : t[1] = kind THEN {t \in topics : t[1] = kind}
                                     ELSE topics

(* One round of the task's loop over topics: current snapshot, publish.    *)
PublishOneOf(k, topics, kind) ==
    \E t \in Foremost(topics, kind) :
      /\ queue' = Handed(k, t, version[t])
      /\ todo' = [todo EXCEPT ![k] = topics \ {t}]
      /\ lead' = [lead EXCEPT ![k] = IF topics = {t} THEN "group" ELSE kind]

Publish(k) ==
    /\ k # "main"
    /\ phase \in Serving
    /\ Idle(k)
    /\ PublishOneOf(k, todo[k], lead[k])
    /\ UNCHANGED <<sourceVars, phase, captured, retained, availability,
                   willArmed, silent, stopEvent, accepted, losses, timeouts>>

-----------------------------------------------------------------------------
(* run: the connection loop *)

(* Mutant: the client is created without a will. *)
ConnectWithoutWill ==
    /\ phase = "connecting"
    /\ ~stopEvent
    /\ phase' = "greeting"
    /\ queue' = Handed("main", Online, 0)
    /\ silent' = FALSE
    /\ UNCHANGED <<sourceVars, todo, lead, captured, retained, availability,
                   willArmed, stopEvent, accepted, losses, timeouts>>

(* Entering the client's context and subscribing.  A broker that still     *)
(* holds the session of a lost connection publishes its will first.        *)
Connect ==
    /\ phase = "connecting"
    /\ ~stopEvent
    /\ phase' = "greeting"
    /\ queue' = Handed("main", Online, 0)
    /\ availability' = IF willArmed THEN "offline" ELSE availability
    /\ willArmed' = TRUE
    /\ silent' = FALSE
    /\ UNCHANGED <<sourceVars, todo, lead, captured, retained, stopEvent,
                   accepted, losses, timeouts>>

(* Mutant: a connection starts with the groups alone. *)
GreetedGroupsOnly ==
    /\ phase = "greeting"
    /\ Idle("main")
    /\ phase' = "starting"
    /\ todo' = [todo EXCEPT !["main"] = {"group"} \X Groups]
    /\ lead' = [lead EXCEPT !["main"] = "group"]
    /\ UNCHANGED <<sourceVars, captured, queue, retained, availability,
                   willArmed, silent, stopEvent, accepted, losses, timeouts>>

(* Both loops over snapshots are ahead. *)
Greeted ==
    /\ phase = "greeting"
    /\ Idle("main")
    /\ phase' = "starting"
    /\ todo' = [todo EXCEPT !["main"] = StateTopics]
    /\ lead' = [lead EXCEPT !["main"] = "group"]
    /\ UNCHANGED <<sourceVars, captured, queue, retained, availability,
                   willArmed, silent, stopEvent, accepted, losses, timeouts>>

(* snapshots() and device_snapshots() are tuples made when their loop      *)
(* begins; what the loop publishes later may be outdated by then.  A tuple *)
(* is dropped with its loop.                                               *)
PublishSnapshot ==
    /\ phase \in Connected
    /\ Idle("main")
    /\ \E t \in Foremost(todo["main"], lead["main"]) :
         LET kind  == {u \in StateTopics : u[1] = t[1]}
             taken == IF kind \subseteq todo["main"]
                      THEN [u \in StateTopics |->
                               IF u \in kind THEN version[u] ELSE captured[u]]
                      ELSE captured
         IN  /\ captured' = IF todo["main"] \cap kind = {t}
                            THEN NoSnapshots ELSE taken
             /\ queue' = Handed("main", t, taken[t])
             /\ todo' = [todo EXCEPT !["main"] = @ \ {t}]
    /\ UNCHANGED <<sourceVars, phase, lead, retained, availability, willArmed,
                   silent, stopEvent, accepted, losses, timeouts>>

(* Mutant: the tasks are started before the snapshots are published.       *)
StartServingEarly ==
    /\ phase = "starting"
    /\ Idle("main")
    /\ phase' = "serving"
    /\ UNCHANGED <<sourceVars, todo, lead, captured, queue, retained,
                   availability, willArmed, silent, stopEvent, accepted,
                   losses, timeouts>>

(* The consumer, the publisher and the stop waiter are created. *)
StartServing ==
    /\ phase = "starting"
    /\ todo["main"] = {}
    /\ Idle("main")
    /\ phase' = "serving"
    /\ UNCHANGED <<sourceVars, todo, lead, captured, queue, retained,
                   availability, willArmed, silent, stopEvent, accepted,
                   losses, timeouts>>

(* Mutant: stop closes the connection without a word. *)
BeginCloseSilently ==
    /\ phase = "serving"
    /\ stopEvent
    /\ phase' = "closing"
    /\ UNCHANGED <<sourceVars, todo, lead, captured, queue, retained,
                   availability, willArmed, silent, stopEvent, accepted,
                   losses, timeouts>>

(* The stop waiter is done first. *)
BeginClose ==
    /\ phase = "serving"
    /\ stopEvent
    /\ phase' = "closing"
    /\ queue' = Handed("main", Offline, 0)
    /\ UNCHANGED <<sourceVars, todo, lead, captured, retained, availability,
                   willArmed, silent, stopEvent, accepted, losses, timeouts>>

(* What the tasks keep and what the connection carries is gone. *)
LoopsEnd ==
    /\ todo' = [k \in Tasks |-> {}]
    /\ lead' = [k \in Tasks |-> "group"]
    /\ captured' = NoSnapshots
    /\ queue' = <<>>

(* The tasks are cancelled and the connection is closed in order. *)
Close ==
    /\ phase = "closing"
    /\ Idle("main")
    /\ phase' = "done"
    /\ willArmed' = FALSE
    /\ LoopsEnd
    /\ UNCHANGED <<sourceVars, retained, availability, silent, stopEvent,
                   accepted, losses, timeouts>>

(* MqttError ends the attempt or the connection; what is on its way is lost *)
(* and every task is cancelled.  The will stays with the broker when the    *)
(* connection broke, and goes when the client can still disconnect.         *)
Failed ==
    /\ phase' = "waiting"
    /\ LoopsEnd
    /\ UNCHANGED <<sourceVars, retained, availability, stopEvent, accepted>>

Lost ==
    /\ phase \in Connected \/ (phase = "connecting" /\ ~stopEvent)
    /\ losses < MaxLosses
    /\ losses' = losses + 1
    /\ Failed
    /\ UNCHANGED <<willArmed, silent, timeouts>>

TimedOut ==
    /\ phase \in Connected
    /\ timeouts < MaxTimeouts
    /\ timeouts' = timeouts + 1
    /\ Failed
    /\ willArmed' = FALSE
    /\ silent' = TRUE
    /\ UNCHANGED losses

(* An error of the consumer that is no MqttError ends run with its task:   *)
(* snapshot or device_snapshot raises KeyError, as there is no such group  *)
(* or device.  The client still disconnects in order.                      *)
ConsumerFails ==
    /\ phase = "serving"
    /\ lead["consumer"] = "unknown"
    /\ Idle("consumer")
    /\ phase' = "failed"
    /\ LoopsEnd
    /\ willArmed' = FALSE
    /\ silent' = TRUE
    /\ UNCHANGED <<sourceVars, retained, availability, stopEvent, accepted,
                   losses, timeouts>>

(* The back-off passes, or stop ends it. *)
Retry ==
    /\ phase = "waiting"
    /\ phase' = "connecting"
    /\ UNCHANGED <<sourceVars, todo, lead, captured, queue, retained,
                   availability, willArmed, silent, stopEvent, accepted,
                   losses, timeouts>>

Leave ==
    /\ phase = "connecting"
    /\ stopEvent
    /\ phase' = "done"
    /\ UNCHANGED <<sourceVars, todo, lead, captured, queue, retained,
                   availability, willArmed, silent, stopEvent, accepted,
                   losses, timeouts>>

Stop ==
    /\ ~stopEvent
    /\ stopEvent' = TRUE
    /\ UNCHANGED <<sourceVars, phase, todo, lead, captured, queue, retained,
                   availability, willArmed, silent, accepted, losses,
                   timeouts>>

-----------------------------------------------------------------------------
(* _publish_observer_updates *)

(* Mutant: the groups of an update are forgotten. *)
TakeUpdateDevicesOnly ==
    /\ phase \in Serving
    /\ Idle("publisher")
    /\ todo["publisher"] = {}
    /\ Drained
    /\ PublishOneOf("publisher", {t \in dirty : t[1] = "device"}, "device")
    /\ UNCHANGED <<phase, captured, retained, availability, willArmed, silent,
                   stopEvent, accepted, losses, timeouts>>

(* wait_for_updates returns and the first publish follows at once. *)
TakeUpdate ==
    /\ phase \in Serving
    /\ Idle("publisher")
    /\ todo["publisher"] = {}
    /\ Drained
    /\ PublishOneOf("publisher", dirty, "device")
    /\ UNCHANGED <<phase, captured, retained, availability, willArmed, silent,
                   stopEvent, accepted, losses, timeouts>>

-----------------------------------------------------------------------------
(* _consume and _consume_device *)

Answered(topics, kind) ==
    /\ phase \in Serving
    /\ Idle("consumer")
    /\ todo["consumer"] = {}
    /\ lead["consumer"] # "unknown"
    /\ queue' = Handed("consumer", Answer, 0)
    /\ todo' = [todo EXCEPT !["consumer"] = topics]
    /\ lead' = [lead EXCEPT !["consumer"] = kind]
    /\ UNCHANGED <<phase, captured, retained, availability, willArmed, silent,
                   stopEvent, losses, timeouts>>

(* An accepted command, then its result, then the states it touched.       *)
ConsumeGroup(g) ==
    /\ GroupCommanded(g)
    /\ Answered(GroupScope(g), "group")
    /\ accepted' = accepted \cup {"group"}

ConsumeDevice(d) ==
    /\ DeviceCommanded(d)
    /\ Answered(DeviceScope(d), "device")
    /\ accepted' = accepted \cup {"device"}

(* A remembered request is answered again.  If it had been accepted, the   *)
(* states follow of what its topic names this time; the consumer fails     *)
(* when that is unknown.  A refused or unreadable command gets an answer   *)
(* only.                                                                   *)
ConsumeRepeated ==
    /\ \/ "group" \in accepted
          /\ \E g \in Groups : Answered(GroupScope(g), "group")
       \/ "device" \in accepted
          /\ \E d \in Devices : Answered(DeviceScope(d), "device")
       \/ accepted # {} /\ Answered({}, "unknown")
       \/ Answered({}, "group")
    /\ UNCHANGED <<sourceVars, accepted>>

-----------------------------------------------------------------------------
(* The broker *)

(* The oldest message arrives and is acknowledged. *)
Deliver ==
    /\ queue # <<>>
    /\ queue' = Tail(queue)
    /\ LET m == Head(queue)
       IN  /\ retained' = IF m.topic \in StateTopics
                          THEN [retained EXCEPT ![m.topic] = m.value]
                          ELSE retained
           /\ availability' = IF m.topic \in {Online, Offline}
                              THEN m.topic[2] ELSE availability
    /\ UNCHANGED <<sourceVars, phase, todo, lead, captured, willArmed, silent,
                   stopEvent, accepted, losses, timeouts>>

(* The broker notices that the session's connection is gone. *)
PublishWill ==
    /\ willArmed
    /\ phase \notin Connected
    /\ availability' = "offline"
    /\ willArmed' = FALSE
    /\ UNCHANGED <<sourceVars, phase, todo, lead, captured, queue, retained,
                   silent, stopEvent, accepted, losses, timeouts>>

-----------------------------------------------------------------------------
(* The observer's workers report whether or not a connection stands.       *)
Report(d) == (Observed(d) \/ Refreshed(d)) /\ UNCHANGED adapterVars

Proceed ==
    \/ Connect \/ Greeted \/ PublishSnapshot \/ StartServing
    \/ BeginClose \/ Close \/ Retry \/ Leave

Next ==
    \/ Proceed
    \/ Lost \/ TimedOut \/ ConsumerFails \/ Stop
    \/ TakeUpdate
    \/ \E k \in Tasks : Publish(k)
    \/ \E g \in Groups : ConsumeGroup(g)
    \/ \E d \in Devices : ConsumeDevice(d) \/ Report(d)
    \/ ConsumeRepeated
    \/ Deliver \/ PublishWill

Spec == Init /\ [][Next]_vars

(* Each task runs when it can, the broker acknowledges what reaches it and *)
(* ends dead sessions.  Nothing makes commands, reports or stop happen.    *)
FairSpec ==
    /\ Spec
    /\ WF_vars(Proceed)
    /\ WF_vars(ConsumerFails)
    /\ WF_vars(TakeUpdate)
    /\ \A k \in Tasks : WF_vars(Publish(k))
    /\ WF_vars(Deliver)
    /\ WF_vars(PublishWill)

-----------------------------------------------------------------------------
(* Properties *)

(* Type invariant, with what each phase implies of the tasks. *)
TypeOK ==
    /\ version \in [StateTopics -> Versions]
    /\ dirty \in SUBSET StateTopics
    /\ updateEvent \in BOOLEAN
    /\ updateEvent <=> dirty # {}
    /\ phase \in Phases
    /\ todo \in [Tasks -> SUBSET StateTopics]
    /\ lead \in [Tasks -> Kinds]
    /\ captured \in [StateTopics -> Versions]
    /\ queue \in Seq(Message)
    /\ retained \in [StateTopics -> Versions \cup {Absent}]
    /\ availability \in {"online", "offline"}
    /\ willArmed \in BOOLEAN
    /\ silent \in BOOLEAN
    /\ stopEvent \in BOOLEAN
    /\ accepted \in SUBSET {"group", "device"}
    /\ losses \in 0 .. MaxLosses
    /\ timeouts \in 0 .. MaxTimeouts

(* Once a connection has begun to publish states, none is forgotten: what  *)
(* the broker keeps is current, or the current version is on its way, or   *)
(* the topic is dirty or still in a loop of one of the tasks.  Three tasks  *)
(* publish, dirty sets are emptied before anything is sent, snapshots age   *)
(* and connections break at every point.                                   *)
Owed(t) ==
    \/ t \in dirty
    \/ \E k \in Tasks : t \in todo[k]
    \/ \E i \in DOMAIN queue : queue[i].topic = t /\ queue[i].value = version[t]

NothingForgotten ==
    phase \in {"starting", "serving", "closing"} =>
      \A t \in StateTopics : retained[t] = version[t] \/ Owed(t)

(* The retained states never go back and never run ahead of the service,   *)
(* over any number of connections.                                         *)
Mirror == INSTANCE StateMirror
              WITH Topics <- StateTopics, copy <- retained
ImplementsMirror == Mirror!MirrorSpec

(* Availability "online" is never left to stand by an unguarded end: the   *)
(* broker holds the will as long as it says so, unless the client itself   *)
(* closed the last connection in order, on a time-out or when the consumer *)
(* failed over a group or device there is none of.                         *)
OnlineIsGuarded ==
    availability = "online" => willArmed \/ silent

(* If the daemon is neither stopped nor fails, the retained states become  *)
(* and stay those of the service, whatever connections were lost before.   *)
Converges ==
    \/ <>(stopEvent \/ phase = "failed")
    \/ <>[](\A t \in StateTopics : retained[t] = version[t])

(* After stop the adapter ends and clients see it offline, also when the   *)
(* connection breaks while it says goodbye. Only a client that closed its  *)
(* last connection in order and without a word leaves "online" behind.     *)
StopEndsOffline ==
    stopEvent ~> (phase \in {"done", "failed"}
                  /\ (availability = "offline" \/ silent))

=============================================================================
