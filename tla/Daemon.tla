------------------------------- MODULE Daemon -------------------------------
(***************************************************************************)
(* serve (src/jebao_flow/app.py): the MQTT adapter, the observer and a     *)
(* waiter for the stop event, of which the first to end ends the others.   *)
(* The process may be killed, and it is started again with the same or     *)
(* another configuration file.                                             *)
(*                                                                         *)
(* The adapter is MqttAdapter in coarse steps: a publish and its           *)
(* acknowledgement are one step, and the publisher and the consumer show   *)
(* the current state of a topic, as StateMirror allows.  The observer is   *)
(* Observer seen from outside; that it and the commands move states, and   *)
(* which commands are refused, is GroupControl's.                          *)
(***************************************************************************)
EXTENDS DaemonTopics, Sequences

CONSTANTS MaxBreaks, MaxRequests      \* as in Contract

VARIABLES
    config,           \* the configuration of the last process
    epoch,            \* how often a process was started
    main,             \* where serve is
    stopEvent,        \* stop_event.is_set()
    adapter,          \* where the adapter's task is
    todo,             \* the states _run_connected has yet to publish
    observer,         \* where the observer's task is
    revision,         \* the revision of each group's and device's payload
    requested, commands, answered, retained, willArmed, breaks,
    orderly           \* the last connection was closed in order, not by stop

process == <<config, epoch>>
tasks   == <<stopEvent, adapter, todo, observer>>
broker  == <<requested, commands, answered, retained, willArmed>>
disorder == <<breaks, orderly>>
vars    == <<process, main, tasks, revision, broker, disorder>>

ASSUME DaemonAssumption ==
    MaxBreaks \in Nat /\ MaxRequests \in Nat

Alive     == main \in {"waiting", "gathering"}
Connected == Alive /\ adapter \in {"hello", "config", "snapshots", "serving"}

Ended(task) == task \in {"returned", "failed"}

Retain(topic, payload) == retained' = [retained EXCEPT ![topic] = payload]

Current(t) == [epoch |-> epoch, revision |-> revision[t]]

Init ==
    /\ config = None
    /\ epoch = 0
    /\ main = "returned"
    /\ stopEvent = FALSE
    /\ adapter = "returned"
    /\ todo = {}
    /\ observer = "returned"
    /\ revision = [t \in Things |-> 0]
    /\ requested = 0
    /\ commands = <<>>
    /\ answered = {}
    /\ retained = [topic \in Topics |-> None]
    /\ willArmed = FALSE
    /\ breaks = 0
    /\ orderly = FALSE

-----------------------------------------------------------------------------
(* main and serve *)

(* serve creates the tasks; the service starts at revision 0. *)
Start(c) ==
    /\ ~Alive
    /\ epoch < MaxStarts
    /\ config' = c
    /\ epoch' = epoch + 1
    /\ main' = "waiting"
    /\ stopEvent' = FALSE
    /\ adapter' = "idle"
    /\ todo' = {}
    /\ observer' = "running"
    /\ revision' = [t \in Things |-> 0]
    /\ UNCHANGED <<broker, disorder>>

(* SIGINT or SIGTERM *)
Signal ==
    /\ Alive
    /\ ~stopEvent
    /\ stopEvent' = TRUE
    /\ UNCHANGED <<process, main, adapter, todo, observer, revision, broker,
                   disorder>>

(* Mutant: the tasks are waited for only after a signal. *)
WakenByStop ==
    /\ main = "waiting"
    /\ stopEvent
    /\ main' = "gathering"
    /\ UNCHANGED <<process, tasks, revision, broker, disorder>>

(* asyncio.wait returns when the first of the three tasks is done. *)
Waken ==
    /\ main = "waiting"
    /\ stopEvent \/ Ended(adapter) \/ Ended(observer)
    /\ main' = "gathering"
    /\ stopEvent' = TRUE
    /\ UNCHANGED <<process, adapter, todo, observer, revision, broker, disorder>>

(* serve ends; a failure of either task is raised again. *)
Leave ==
    main' = IF "failed" \in {adapter, observer} THEN "raised" ELSE "returned"

(* Mutant: serve does not wait for the adapter, whose task is cancelled    *)
(* with the loop and closes its connection.                                *)
GatherObserver ==
    /\ main = "gathering"
    /\ Ended(observer)
    /\ Leave
    /\ adapter' = "returned"
    /\ todo' = {}
    /\ commands' = <<>>
    /\ willArmed' = (willArmed /\ ~Connected)
    /\ UNCHANGED <<process, stopEvent, observer, revision, requested, answered,
                   retained, disorder>>

Gathered ==
    /\ main = "gathering"
    /\ Ended(adapter)
    /\ Ended(observer)
    /\ Leave
    /\ UNCHANGED <<process, tasks, revision, broker, disorder>>

Broken == breaks < MaxBreaks /\ breaks' = breaks + 1

(* The process is killed, and its connection with it. *)
Kill ==
    /\ Alive
    /\ main' = "killed"
    /\ IF Connected THEN Broken ELSE UNCHANGED breaks
    /\ commands' = <<>>
    /\ UNCHANGED <<process, tasks, revision, requested, answered, retained,
                   willArmed, orderly>>

-----------------------------------------------------------------------------
(* The observer's task *)

(* Only stop makes it return. *)
ObserverReturns ==
    /\ Alive
    /\ observer = "running"
    /\ stopEvent
    /\ observer' = "returned"
    /\ UNCHANGED <<process, main, stopEvent, adapter, todo, revision, broker,
                   disorder>>

ObserverFails ==
    /\ Alive
    /\ observer = "running"
    /\ observer' = "failed"
    /\ UNCHANGED <<process, main, stopEvent, adapter, todo, revision, broker,
                   disorder>>

(* An observation or an accepted command moves a state. *)
Move(t) ==
    /\ Alive
    /\ t \in Listed(config)
    /\ revision[t] < MaxRevision
    /\ revision' = [revision EXCEPT ![t] = @ + 1]
    /\ UNCHANGED <<process, main, tasks, broker, disorder>>

-----------------------------------------------------------------------------
(* The adapter's task *)

(* Mutant: the client is created without a will. *)
ConnectWithoutWill ==
    /\ Alive
    /\ adapter = "idle"
    /\ ~stopEvent
    /\ adapter' = "hello"
    /\ orderly' = FALSE
    /\ UNCHANGED <<process, main, stopEvent, todo, observer, revision,
                   broker, breaks>>

(* The session of a lost connection ends first, which publishes its will.  *)
Connect ==
    /\ Alive
    /\ adapter = "idle"
    /\ ~stopEvent
    /\ adapter' = "hello"
    /\ IF willArmed THEN Retain(Availability, "offline") ELSE UNCHANGED retained
    /\ willArmed' = TRUE
    /\ orderly' = FALSE
    /\ UNCHANGED <<process, main, stopEvent, todo, observer, revision,
                   requested, commands, answered, breaks>>

(* An error that is no MqttError: the library refuses what it is given.    *)
AdapterFails ==
    /\ Alive
    /\ adapter = "idle"
    /\ ~stopEvent
    /\ adapter' = "failed"
    /\ UNCHANGED <<process, main, stopEvent, todo, observer, revision, broker,
                   disorder>>

(* The loop of run ends, after a lost connection or before the first one.  *)
AdapterReturns ==
    /\ Alive
    /\ adapter = "idle"
    /\ stopEvent
    /\ adapter' = "returned"
    /\ UNCHANGED <<process, main, stopEvent, todo, observer, revision, broker,
                   disorder>>

SayOnline ==
    /\ Connected
    /\ adapter = "hello"
    /\ adapter' = "config"
    /\ Retain(Availability, "online")
    /\ UNCHANGED <<process, main, stopEvent, todo, observer, revision,
                   requested, commands, answered, willArmed, disorder>>

SayConfig ==
    /\ Connected
    /\ adapter = "config"
    /\ adapter' = "snapshots"
    /\ todo' = Listed(config)
    /\ Retain(SystemConfig, config)
    /\ UNCHANGED <<process, main, stopEvent, observer, revision, requested,
                   commands, answered, willArmed, disorder>>

SaySnapshot(t) ==
    /\ Connected
    /\ adapter = "snapshots"
    /\ t \in todo
    /\ todo' = todo \ {t}
    /\ Retain(State(t), Current(t))
    /\ UNCHANGED <<process, main, stopEvent, adapter, observer, revision,
                   requested, commands, answered, willArmed, disorder>>

StartServing ==
    /\ Connected
    /\ adapter = "snapshots"
    /\ todo = {}
    /\ adapter' = "serving"
    /\ UNCHANGED <<process, main, stopEvent, todo, observer, revision, broker,
                   disorder>>

(* The publisher or the consumer publishes a state that moved. *)
Show(t) ==
    /\ Connected
    /\ adapter = "serving"
    /\ t \in Listed(config)
    /\ retained[State(t)] # Current(t)
    /\ Retain(State(t), Current(t))
    /\ UNCHANGED <<process, main, tasks, revision, requested, commands,
                   answered, willArmed, disorder>>

(* _consume: a command is carried out or refused, and answered. *)
Consume ==
    /\ Connected
    /\ adapter = "serving"
    /\ commands # <<>>
    /\ commands' = Tail(commands)
    /\ answered' = answered \cup {Head(commands)}
    /\ UNCHANGED <<process, main, tasks, revision, requested, retained,
                   willArmed, disorder>>

(* The consumer fails: a command of anyone to a group or device that is    *)
(* not there repeats an accepted request_id, and is taken for accepted.    *)
(* The error leaves run through the client, which closes the connection in *)
(* order: nothing says offline.                                            *)
ConsumerFails ==
    /\ Connected
    /\ adapter = "serving"
    /\ config.mode = "control"
    /\ adapter' = "failed"
    /\ commands' = <<>>
    /\ willArmed' = FALSE
    /\ orderly' = TRUE
    /\ UNCHANGED <<process, main, stopEvent, todo, observer, revision,
                   requested, answered, retained, breaks>>

(* Stop: offline is published, the tasks are cancelled, the client leaves. *)
SayOffline ==
    /\ Connected
    /\ adapter = "serving"
    /\ stopEvent
    /\ adapter' = "returned"
    /\ commands' = <<>>
    /\ Retain(Availability, "offline")
    /\ willArmed' = FALSE
    /\ UNCHANGED <<process, main, stopEvent, todo, observer, revision,
                   requested, answered, disorder>>

(* MqttError *)
Disconnected ==
    /\ Connected
    /\ adapter' = "idle"
    /\ todo' = {}
    /\ commands' = <<>>
    /\ Broken
    /\ UNCHANGED <<process, main, stopEvent, observer, revision, requested,
                   answered, retained>>

Lost == Disconnected /\ UNCHANGED <<willArmed, orderly>>

(* A call of the client timed out, and it closes the connection in order.  *)
TimedOut == Disconnected /\ willArmed' = FALSE /\ orderly' = TRUE

-----------------------------------------------------------------------------
(* The broker (external) *)

PublishWill ==
    /\ willArmed
    /\ ~Connected
    /\ Retain(Availability, "offline")
    /\ willArmed' = FALSE
    /\ UNCHANGED <<process, main, tasks, revision, requested, commands,
                   answered, disorder>>

Ask ==
    /\ requested < MaxRequests
    /\ requested' = requested + 1
    /\ commands' = IF Connected THEN Append(commands, requested + 1)
                                ELSE commands
    /\ UNCHANGED <<process, main, tasks, revision, answered, retained,
                   willArmed, disorder>>

-----------------------------------------------------------------------------
ServeProceeds == Waken \/ Gathered

AdapterProceeds ==
    \/ Connect \/ AdapterReturns \/ SayOnline \/ SayConfig \/ StartServing
    \/ SayOffline \/ \E t \in Things : SaySnapshot(t)

Next ==
    \/ \E c \in Configs : Start(c)
    \/ Signal \/ Kill
    \/ ServeProceeds
    \/ AdapterProceeds \/ AdapterFails \/ ConsumerFails
    \/ ObserverReturns \/ ObserverFails
    \/ \E t \in Things : Move(t) \/ Show(t)
    \/ Consume
    \/ Lost \/ TimedOut \/ PublishWill \/ Ask

Spec == Init /\ [][Next]_vars

(* The event loop is fair to the tasks that can run, and the broker ends   *)
(* dead sessions.  Nothing makes the process start, fail or be stopped.    *)
FairSpec ==
    /\ Spec
    /\ WF_vars(ServeProceeds)
    /\ WF_vars(AdapterProceeds)
    /\ WF_vars(ObserverReturns)
    /\ WF_vars(Consume)
    /\ WF_vars(PublishWill)

-----------------------------------------------------------------------------
(* Properties *)

(* Type invariant. *)
TypeOK ==
    /\ config \in Configs \cup {None}
    /\ epoch \in 0 .. MaxStarts
    /\ main \in {"waiting", "gathering", "returned", "raised", "killed"}
    /\ Alive => config # None
    /\ stopEvent \in BOOLEAN
    /\ adapter \in {"idle", "hello", "config", "snapshots", "serving",
                    "returned", "failed"}
    /\ todo \in SUBSET Things
    /\ observer \in {"running", "returned", "failed"}
    /\ revision \in [Things -> 0 .. MaxRevision]
    /\ requested \in 0 .. MaxRequests
    /\ commands \in Seq(1 .. MaxRequests)
    /\ answered \in SUBSET (1 .. MaxRequests)
    /\ DOMAIN retained = Topics
    /\ \A topic \in Topics : retained[topic] \in Payloads(topic) \ {Junk}
    /\ willArmed \in BOOLEAN
    /\ breaks \in 0 .. MaxBreaks
    /\ orderly \in BOOLEAN

(* Whatever ends serve, clients can see that it ended: availability is     *)
(* offline, or the will is about to say so.  The exceptions are a last     *)
(* connection that was closed in order after a time-out, or because the    *)
(* consumer failed.                                                        *)
EndIsSeen ==
    ~Alive => \/ retained[Availability] # "online"
              \/ willArmed
              \/ orderly

(* When a task fails or a signal comes, serve ends, whatever the other     *)
(* task is doing.                                                          *)
ServeEnds == (Alive /\ (stopEvent \/ Ended(adapter) \/ Ended(observer))) ~> ~Alive

(* The daemon implements its contract, with its fairness. *)
Link ==
    CASE ~Alive \/ Ended(adapter) -> "ended"
      [] Alive /\ adapter = "idle" -> "off"
      [] Alive /\ adapter = "snapshots" -> "serving"
      [] OTHER -> adapter

Promise == INSTANCE Contract WITH link <- Link
ImplementsContract == Promise!FairContract

=============================================================================
