--------------------------- MODULE HomeAssistant ---------------------------
(***************************************************************************)
(* The Home Assistant integration (custom_components/jebao_flow) over the  *)
(* broker's topics: JebaoFlowRuntime with its copies of the retained       *)
(* topics and its log of results, and the discovery of entities by each    *)
(* platform.  A config entry is set up, unloaded and set up again while    *)
(* the daemon comes and goes.                                              *)
(*                                                                         *)
(* Home Assistant and the broker are external: messages of one topic       *)
(* arrive in order, those of different topics in any; a subscription is    *)
(* given the retained message; a client that reconnects subscribes again.  *)
(* A publish that repeats what the broker retains changes nothing at a     *)
(* client that has it, and is not forwarded.  Of the daemon the module     *)
(* knows its Contract.                                                     *)
(***************************************************************************)
EXTENDS Contract, FiniteSets

CONSTANTS
    Platforms,        \* the platforms the entry is forwarded to
    MaxResults,       \* how many results are kept
    MaxTroubles       \* bound on unloads of the entry, lost connections of
                      \* the client and messages of others, together

VARIABLES
    entry,            \* the state of the config entry
    subscribed,       \* how many of its subscriptions async_start has made
    ready,            \* the platforms that are set up
    inbox,            \* inbox[topic]: on its way to the client, oldest first
    answers,          \* results on their way to the client
    online, systemConfig, states, lastResults,     \* JebaoFlowRuntime
    known,            \* known[p]: the groups and devices p has entities of
    entities,         \* the entities, <<platform, group or device, control>>
    rejected,         \* entities added a second time
    lost,             \* requests lost with a connection, a process or an
                      \* entry, or pushed out of the log as the oldest
    troubles

cache   == <<online, systemConfig, states, lastResults>>
added   == <<known, entities, rejected>>
haVars  == <<entry, subscribed, ready, inbox, answers, cache, added, lost,
             troubles>>
vars    == <<contractVars, haVars>>

AllPlatforms ==
    {"sensor", "binary_sensor", "number", "select", "switch", "button"}

ASSUME HomeAssistantAssumption ==
    /\ Platforms \subseteq AllPlatforms
    /\ MaxResults \in Nat \ {0}
    /\ MaxTroubles \in Nat

-----------------------------------------------------------------------------
(* The subscriptions of async_start, in their order; the fifth is for      *)
(* results.                                                                *)
Filter(topic) ==
    CASE topic = Availability -> 1
      [] topic = SystemConfig -> 2
      [] topic \in {State(g) : g \in Groups} -> 3
      [] OTHER -> 4

Results == 5

ListensTo(topic) == Filter(topic) <= subscribed

Retained(topic) ==
    IF retained[topic] = None THEN <<>> ELSE <<retained[topic]>>

InSeq(s) == {s[i] : i \in DOMAIN s}

(* What the broker does for the client with a step of the daemon.          *)
Forward ==
    /\ inbox' = [topic \in Topics |->
                   IF ListensTo(topic) /\ retained'[topic] # retained[topic]
                   THEN Append(inbox[topic], retained'[topic])
                   ELSE inbox[topic]]
    /\ LET results == answered' \ answered
           heard   == IF subscribed = Results THEN results ELSE {}
       IN  /\ answers' = answers \cup heard
           /\ lost' = lost \cup (results \ heard) \cup
                          (InSeq(commands) \ (InSeq(commands') \cup answered'))

-----------------------------------------------------------------------------
(* The properties of JebaoFlowRuntime. *)
RuntimeMode(sc)  == IF sc = None THEN "observer" ELSE sc.mode
ObserverMode(sc) == RuntimeMode(sc) = "observer"

GroupsOf(sc)  == IF sc = None THEN {} ELSE sc.groups
DevicesOf(sc) == IF sc = None THEN {} ELSE sc.devices

-----------------------------------------------------------------------------
(* The factories of the platforms: which entities a descriptor gives.      *)

NumberKeys == {"power", "min_power", "max_power", "period", "transition"}
ButtonKeys == {"start_feed", "stop_feed", "emergency_stop", "clear_emergency",
               "resume_all_members"}

GroupStatus(p) ==
    CASE p = "sensor" -> {"status"}
      [] p = "binary_sensor" -> {"availability", "hardware_lock"}
      [] OTHER -> {}

GroupControls(p) ==
    CASE p = "number" -> NumberKeys
      [] p = "select" -> {"pattern"}
      [] p = "switch" -> {"enabled"}
      [] p = "button" -> ButtonKeys
      [] OTHER -> {}

ActualSensors(observables) ==
    (IF "power" \in observables THEN {"actual_power"} ELSE {}) \cup
    (IF "mode" \in observables THEN {"actual_mode"} ELSE {}) \cup
    (IF "schedule" \in observables THEN {"schedule"} ELSE {})

DeviceStatus(p, observables) ==
    CASE p = "sensor" -> {"device_status"} \cup ActualSensors(observables)
      [] p = "binary_sensor" ->
           {"device_availability", "actual_running", "device_problem"}
      [] OTHER -> {}

DeviceControls(p, controls) ==
    CASE p = "number" /\ "power" \in controls -> {"device_power"}
      [] p = "switch" /\ "enabled" \in controls -> {"device_enabled"}
      [] p = "button" /\ "resume_group" \in controls -> {"resume_group"}
      [] OTHER -> {}

Factory(p, sc, t) ==
    IF t \in Groups
    THEN GroupStatus(p) \cup IF ObserverMode(sc) THEN {} ELSE GroupControls(p)
    ELSE DeviceStatus(p, Observables(sc, t)) \cup
         IF ObserverMode(sc) THEN {} ELSE DeviceControls(p, Controls(sc, t))

(* discover of platform p: the listed groups and devices it has no entity  *)
(* of yet, for which there is one now.                                     *)
Fresh(p, sc) ==
    {t \in GroupsOf(sc) \cup DevicesOf(sc) :
        t \notin known[p] /\ Factory(p, sc, t) # {}}

New(p, sc) ==
    UNION {{<<p, t, key>> : key \in Factory(p, sc, t)} : t \in Fresh(p, sc)}

(* Mutant: a group or device is known once it was looked at. *)
DiscoverOnce(running, sc) ==
    LET new == UNION {New(p, sc) : p \in running}
    IN  /\ known' = [p \in Platforms |->
                       IF p \in running
                       THEN known[p] \cup GroupsOf(sc) \cup DevicesOf(sc)
                       ELSE known[p]]
        /\ entities' = entities \cup new
        /\ rejected' = rejected \cup (new \cap entities)

(* Mutant: nothing is remembered. *)
DiscoverAgain(running, sc) ==
    LET new == UNION {New(p, sc) : p \in running}
    IN  /\ UNCHANGED known
        /\ entities' = entities \cup new
        /\ rejected' = rejected \cup (new \cap entities)

(* The discover functions of the platforms given run, on configuration sc. *)
Discover(running, sc) ==
    LET new == UNION {New(p, sc) : p \in running}
    IN  /\ known' = [p \in Platforms |->
                       IF p \in running THEN known[p] \cup Fresh(p, sc)
                                        ELSE known[p]]
        /\ entities' = entities \cup new
        /\ rejected' = rejected \cup (new \cap entities)

-----------------------------------------------------------------------------
NoStates == [t \in Things |-> None]

NothingKnown == [p \in Platforms |-> {}]

Init ==
    /\ ContractInit
    /\ entry = "unloaded"
    /\ subscribed = 0
    /\ ready = {}
    /\ inbox = [topic \in Topics |-> <<>>]
    /\ answers = {}
    /\ online = FALSE
    /\ systemConfig = None
    /\ states = NoStates
    /\ lastResults = <<>>
    /\ known = NothingKnown
    /\ entities = {}
    /\ rejected = {}
    /\ lost = {}
    /\ troubles = 0

(* A step of the daemon or the broker, of which the client sees what is    *)
(* forwarded.                                                              *)
Seen(step) ==
    /\ step
    /\ Forward
    /\ UNCHANGED <<entry, subscribed, ready, cache, added, troubles>>

Troubled == troubles < MaxTroubles /\ troubles' = troubles + 1

(* Somebody else publishes on a retained topic. *)
Disturb(topic) ==
    /\ Troubled
    /\ retained[topic] # Junk
    /\ Retain(topic, Junk)
    /\ UNCHANGED <<config, epoch, link, requested, commands, answered,
                   willArmed, breaks, entry, subscribed, ready, cache,
                   added>>
    /\ Forward

-----------------------------------------------------------------------------
(* async_setup_entry: a new JebaoFlowRuntime *)
Setup ==
    /\ entry = "unloaded"
    /\ entry' = "starting"
    /\ online' = FALSE
    /\ systemConfig' = None
    /\ states' = NoStates
    /\ lastResults' = <<>>
    /\ lost' = lost \cup InSeq(lastResults)
    /\ UNCHANGED <<contractVars, subscribed, ready, inbox, answers, added,
                   troubles>>

(* async_start: one subscription after another, with an await between.     *)
Subscribe ==
    /\ entry = "starting"
    /\ subscribed < Results
    /\ subscribed' = subscribed + 1
    /\ inbox' = [topic \in Topics |->
                   IF Filter(topic) = subscribed + 1 THEN Retained(topic)
                                                     ELSE inbox[topic]]
    /\ UNCHANGED <<contractVars, entry, ready, answers, cache, added, lost,
                   troubles>>

(* The entry is forwarded to the platforms; each adds its listeners and    *)
(* calls discover once.                                                    *)
SetUpPlatform(p) ==
    /\ entry = "starting"
    /\ subscribed = Results
    /\ p \notin ready
    /\ ready' = ready \cup {p}
    /\ entry' = IF ready' = Platforms THEN "loaded" ELSE entry
    /\ Discover({p}, systemConfig)
    /\ UNCHANGED <<contractVars, subscribed, inbox, answers, cache, lost,
                   troubles>>

(* async_unload_entry: the platforms, then the subscriptions, are given up.*)
Unload ==
    /\ entry = "loaded"
    /\ Troubled
    /\ entry' = "unloaded"
    /\ subscribed' = 0
    /\ ready' = {}
    /\ inbox' = [topic \in Topics |-> <<>>]
    /\ answers' = {}
    /\ known' = NothingKnown
    /\ entities' = {}
    /\ lost' = lost \cup answers
    /\ UNCHANGED <<contractVars, cache, rejected>>

(* The connection of Home Assistant is lost and made again. *)
Reconnect ==
    /\ subscribed > 0
    /\ Troubled
    /\ inbox' = [topic \in Topics |->
                   IF ListensTo(topic) THEN Retained(topic) ELSE <<>>]
    /\ answers' = {}
    /\ lost' = lost \cup answers
    /\ UNCHANGED <<contractVars, entry, subscribed, ready, cache, added>>

-----------------------------------------------------------------------------
(* The handlers; each ends with _notify, which runs every discover.  One   *)
(* that drops its payload ends before: there is nothing new to discover.   *)

Taken(topic) ==
    /\ inbox[topic] # <<>>
    /\ inbox' = [inbox EXCEPT ![topic] = Tail(@)]
    /\ UNCHANGED <<contractVars, entry, subscribed, ready, answers, lost,
                   troubles>>

(* Everything but "online" means offline. *)
ReceiveAvailability ==
    /\ Taken(Availability)
    /\ online' = (Head(inbox[Availability]) = "online")
    /\ UNCHANGED <<systemConfig, states, lastResults>>
    /\ Discover(ready, systemConfig)

ReceiveSystemConfig ==
    /\ Taken(SystemConfig)
    /\ LET payload == Head(inbox[SystemConfig])
       IN  systemConfig' = IF payload = Junk THEN systemConfig ELSE payload
    /\ UNCHANGED <<online, states, lastResults>>
    /\ Discover(ready, systemConfig')

(* Mutant: a revision that is not higher than the last one is dropped.     *)
ReceiveHigherState(t) ==
    /\ Taken(State(t))
    /\ LET payload == Head(inbox[State(t)])
           stale   == payload # Junk /\ states[t] # None
                      /\ payload.revision <= states[t].revision
       IN  states' = IF payload = Junk \/ stale THEN states
                     ELSE [states EXCEPT ![t] = payload]
    /\ UNCHANGED <<online, systemConfig, lastResults>>
    /\ Discover(ready, systemConfig)

(* _receive_group_state and _receive_device_state *)
ReceiveState(t) ==
    /\ Taken(State(t))
    /\ LET payload == Head(inbox[State(t)])
       IN  states' = IF payload = Junk THEN states
                     ELSE [states EXCEPT ![t] = payload]
    /\ UNCHANGED <<online, systemConfig, lastResults>>
    /\ Discover(ready, systemConfig)

(* The log of results, a dictionary in the order of insertion: a repeated  *)
(* result stays where it is, one too many pushes out the oldest.           *)
Kept(id) == id \in InSeq(lastResults)

(* Mutant: a full log takes nothing more. *)
LogUntilFull(id) ==
    IF Kept(id) \/ Len(lastResults) = MaxResults THEN lastResults
    ELSE Append(lastResults, id)

Log(id) ==
    IF Kept(id) THEN lastResults
    ELSE IF Len(lastResults) = MaxResults THEN Append(Tail(lastResults), id)
    ELSE Append(lastResults, id)

(* The broker may deliver a result again. *)
ReceiveResult(id, again) ==
    /\ id \in answers
    /\ answers' = IF again THEN answers ELSE answers \ {id}
    /\ lastResults' = Log(id)
    /\ lost' = lost \cup (InSeq(lastResults) \ InSeq(lastResults'))
    /\ Discover(ready, systemConfig)
    /\ UNCHANGED <<contractVars, entry, subscribed, ready, inbox, online,
                   systemConfig, states, troubles>>

-----------------------------------------------------------------------------
(* Commands *)

IsControl(e) ==
    e[3] \in GroupControls(e[1]) \cup {"device_power", "device_enabled",
                                       "resume_group"}

(* Home Assistant calls no service of an entity that is not available; of  *)
(* resume_group, the device's control mode is left out.                    *)
Available(e) ==
    online /\ states[e[2]] # None /\ ~ObserverMode(systemConfig)

(* async_group_command and async_device_command: what the client believes  *)
(* decides.  A command no daemon is subscribed for is lost.                *)
Command(e) ==
    /\ IsControl(e)
    /\ Available(e)
    /\ Ask
    /\ lost' = IF Connected THEN lost ELSE lost \cup {requested'}
    /\ UNCHANGED <<entry, subscribed, ready, inbox, answers, cache, added,
                   troubles>>

-----------------------------------------------------------------------------
Receive(topic) ==
    \/ topic = Availability /\ ReceiveAvailability
    \/ topic = SystemConfig /\ ReceiveSystemConfig
    \/ \E t \in Things : topic = State(t) /\ ReceiveState(t)

SetupProceeds == Subscribe \/ \E p \in Platforms : SetUpPlatform(p)

Next ==
    \/ Seen(DaemonStep)
    \/ Setup \/ SetupProceeds \/ Unload \/ Reconnect
    \/ \E topic \in Topics : Receive(topic) \/ Disturb(topic)
    \/ \E id \in answers, again \in BOOLEAN : ReceiveResult(id, again)
    \/ \E e \in entities : Command(e)

Spec == Init /\ [][Next]_vars

-----------------------------------------------------------------------------
(* Properties *)

(* Type invariant. *)
ContractTypeOK ==
    /\ config \in Configs \cup {None}
    /\ epoch \in 0 .. MaxStarts
    /\ link \in {"ended", "off", "hello", "config", "serving"}
    /\ link # "ended" => config # None
    /\ requested \in 0 .. MaxRequests
    /\ commands \in Seq(1 .. MaxRequests)
    /\ answered \in SUBSET (1 .. MaxRequests)
    /\ DOMAIN retained = Topics
    /\ \A topic \in Topics : retained[topic] \in Payloads(topic)
    /\ willArmed \in BOOLEAN
    /\ breaks \in 0 .. MaxBreaks

TypeOK ==
    /\ ContractTypeOK
    /\ entry \in {"unloaded", "starting", "loaded"}
    /\ subscribed \in 0 .. Results
    /\ ready \in SUBSET Platforms
    /\ DOMAIN inbox = Topics
    /\ \A topic \in Topics : inbox[topic] \in Seq(Payloads(topic) \ {None})
    /\ answers \in SUBSET (1 .. MaxRequests)
    /\ online \in BOOLEAN
    /\ systemConfig \in Configs \cup {None}
    /\ states \in [Things -> Snapshots \cup {None}]
    /\ lastResults \in Seq(1 .. MaxRequests)
    /\ Len(lastResults) <= MaxResults
    /\ known \in [Platforms -> SUBSET Things]
    /\ \A e \in entities : e[1] \in Platforms /\ e[2] \in Things
    /\ lost \in SUBSET (1 .. MaxRequests)
    /\ troubles \in 0 .. MaxTroubles

(* No message the client needs is missed: what a topic it subscribed to    *)
(* retains is what it holds or is the last message on its way, through     *)
(* subscriptions one by one, lost connections on both sides, restarts of   *)
(* the daemon that begin at revision 0 and messages nobody can read.       *)
Holds(topic) ==
    CASE topic = Availability -> online = (retained[topic] = "online")
      [] topic = SystemConfig -> systemConfig = retained[topic]
      [] OTHER -> \A t \in Things :
                    topic = State(t) => states[t] = retained[topic]

NothingMissed ==
    \A topic \in Topics :
      ListensTo(topic) /\ retained[topic] # None =>
        IF inbox[topic] # <<>>
        THEN inbox[topic][Len(inbox[topic])] = retained[topic]
        ELSE Holds(topic) \/ (retained[topic] = Junk /\ topic # Availability)

(* An entity is added once, whatever configurations arrive in whatever     *)
(* order and however often.                                                *)
AddedOnce == rejected = {}

(* The platforms that are set up have an entity of everything the last     *)
(* configuration gives them one of, also when control came after observer  *)
(* mode or the configuration came before the platform.                     *)
Discovered ==
    \A p \in ready, t \in GroupsOf(systemConfig) \cup DevicesOf(systemConfig) :
      Factory(p, systemConfig, t) # {} => \E e \in entities : e[1] = p /\ e[2] = t

(* Every command that was sent is with the daemon, its result is on its    *)
(* way or in the log, unless it went with a connection, a process or the   *)
(* entry, or was the oldest in a full log; also a command sent on an       *)
(* outdated picture of the daemon, and a result that arrives again.        *)
RequestsAccounted ==
    1 .. requested \subseteq
        InSeq(commands) \cup answers \cup InSeq(lastResults) \cup lost

=============================================================================
