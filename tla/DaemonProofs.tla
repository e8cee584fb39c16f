---------------------------- MODULE DaemonProofs ----------------------------
(***************************************************************************)
(* Proofs about serve (src/jebao_flow/app.py), for every configuration     *)
(* file, set of groups and devices, and number of starts, lost connections *)
(* and commands: types, that the end of serve is seen, and that every step *)
(* is one the contract with the clients allows.                            *)
(***************************************************************************)
EXTENDS Daemon, SequenceTheorems, TLAPS

Adapters == {"idle", "hello", "config", "snapshots", "serving", "returned",
             "failed"}

-----------------------------------------------------------------------------
(* Topics *)

LEMMA TopicsDiffer ==
    /\ Availability \in Topics /\ SystemConfig \in Topics
    /\ Availability # SystemConfig
    /\ \A t \in Things : /\ State(t) \in Topics
                         /\ State(t) # Availability /\ State(t) # SystemConfig
    /\ \A t, u \in Things : State(t) = State(u) => t = u
BY DEF Topics, StateTopics, Availability, SystemConfig, State

LEMMA PayloadKinds ==
    /\ {"online", "offline"} \subseteq Payloads(Availability) \ {Junk}
    /\ Configs \subseteq Payloads(SystemConfig) \ {Junk}
    /\ \A t \in Things : /\ Payloads(State(t)) = {None, Junk} \cup Snapshots
                         /\ Snapshots \subseteq Payloads(State(t)) \ {Junk}
BY TopicsDiffer, TopicsAssumption DEF Payloads

LEMMA ListedThings ==
    ASSUME NEW c \in Configs
    PROVE  Listed(c) \subseteq Things
BY TopicsAssumption DEF Listed, Things

-----------------------------------------------------------------------------
(* Types *)

(* The type of what the broker keeps. *)
Kept == /\ DOMAIN retained = Topics
        /\ \A topic \in Topics : retained[topic] \in Payloads(topic) \ {Junk}

LEMMA RetainType ==
    ASSUME TypeOK, NEW topic \in Topics, NEW payload \in Payloads(topic) \ {Junk},
           Retain(topic, payload)
    PROVE  Kept'
BY DEF TypeOK, Retain, Kept

LEMMA CurrentType ==
    ASSUME TypeOK, NEW t \in Things
    PROVE  Current(t) \in Snapshots
BY DEF TypeOK, Current, Snapshots

LEMMA NoCommands == <<>> \in Seq(1 .. MaxRequests)
OBVIOUS

LEMMA InitType == Init => TypeOK
<1> SUFFICES ASSUME Init PROVE TypeOK
  OBVIOUS
<1>1. \A topic \in Topics : None \in Payloads(topic) \ {Junk}
  BY TopicsAssumption DEF Payloads
<1>2. Kept
  BY <1>1 DEF Init, Kept
<1>3. commands \in Seq(1 .. MaxRequests)
  BY NoCommands DEF Init
<1>4. revision \in [Things -> 0 .. MaxRevision]
  BY TopicsAssumption DEF Init
<1>5. epoch \in 0 .. MaxStarts /\ requested \in 0 .. MaxRequests
      /\ breaks \in 0 .. MaxBreaks
  BY TopicsAssumption, DaemonAssumption DEF Init
<1> QED
  BY <1>2, <1>3, <1>4, <1>5 DEF Init, TypeOK, Alive, Kept

LEMMA StepType == TypeOK /\ [Next]_vars => TypeOK'
<1> SUFFICES ASSUME TypeOK, [Next]_vars PROVE TypeOK'
  OBVIOUS
<1> USE DEF TypeOK, Alive, Ended
<1>1. CASE UNCHANGED vars
  BY <1>1 DEF vars, process, tasks, broker, disorder
<1>2. ASSUME NEW c \in Configs, Start(c) PROVE TypeOK'
  <2>1. epoch + 1 \in 0 .. MaxStarts
    BY <1>2, TopicsAssumption DEF Start
  <2>2. c # None
    BY TopicsAssumption
  <2>3. revision' \in [Things -> 0 .. MaxRevision]
    BY <1>2, TopicsAssumption DEF Start
  <2> QED
    BY <1>2, <2>1, <2>2, <2>3 DEF Start, broker, disorder
<1>3. CASE Signal \/ Waken \/ Gathered \/ ObserverReturns \/ ObserverFails
           \/ AdapterFails \/ AdapterReturns \/ StartServing
  BY <1>3 DEF Signal, Waken, Gathered, Leave, ObserverReturns, ObserverFails,
              AdapterFails, AdapterReturns, StartServing, process, tasks, broker,
              disorder
<1>4. CASE Kill
  <2>1. breaks' \in 0 .. MaxBreaks
    BY <1>4, DaemonAssumption DEF Kill, Broken
  <2> QED
    BY <1>4, <2>1 DEF Kill, process, tasks
<1>4a. CASE ConsumerFails
  <2>1. commands' \in Seq(1 .. MaxRequests)
    BY <1>4a, NoCommands DEF ConsumerFails
  <2> QED
    BY <1>4a, <2>1 DEF ConsumerFails, process
<1>5. CASE Connect
  <2>1. Kept'
    BY <1>5, RetainType, TopicsDiffer, PayloadKinds DEF Connect, Kept
  <2> QED
    BY <1>5, <2>1 DEF Connect, Kept, process, disorder
<1>6. CASE SayOnline
  <2>1. Kept'
    BY <1>6, RetainType, TopicsDiffer, PayloadKinds DEF SayOnline
  <2> QED
    BY <1>6, <2>1 DEF SayOnline, Kept, process, disorder
<1>7. CASE SayConfig
  <2>1. config \in Configs
    BY <1>7 DEF SayConfig, Connected
  <2>2. Kept' /\ Listed(config) \subseteq Things
    BY <1>7, <2>1, RetainType, TopicsDiffer, PayloadKinds, ListedThings
       DEF SayConfig
  <2> QED
    BY <1>7, <2>2 DEF SayConfig, Kept, process, disorder
<1>8. CASE SayOffline
  <2>1. Kept'
    BY <1>8, RetainType, TopicsDiffer, PayloadKinds DEF SayOffline
  <2>2. commands' \in Seq(1 .. MaxRequests)
    BY <1>8 DEF SayOffline
  <2> QED
    BY <1>8, <2>1, <2>2 DEF SayOffline, Kept, process, disorder
<1>9. ASSUME NEW t \in Things, SaySnapshot(t) PROVE TypeOK'
  <2>1. Kept'
    BY <1>9, RetainType, TopicsDiffer, PayloadKinds, CurrentType DEF SaySnapshot
  <2> QED
    BY <1>9, <2>1 DEF SaySnapshot, Kept, process, disorder
<1>10. ASSUME NEW t \in Things, Show(t) PROVE TypeOK'
  <2>1. Kept'
    BY <1>10, RetainType, TopicsDiffer, PayloadKinds, CurrentType DEF Show
  <2> QED
    BY <1>10, <2>1 DEF Show, Kept, process, tasks, disorder
<1>11. ASSUME NEW t \in Things, Move(t) PROVE TypeOK'
  <2>1. revision[t] + 1 \in 0 .. MaxRevision
    BY <1>11, TopicsAssumption DEF Move
  <2> QED
    BY <1>11, <2>1 DEF Move, process, tasks, broker, disorder
<1>12. CASE Consume
  <2>1. Tail(commands) \in Seq(1 .. MaxRequests)
        /\ Head(commands) \in 1 .. MaxRequests
    BY <1>12, HeadTailProperties DEF Consume
  <2> QED
    BY <1>12, <2>1 DEF Consume, process, tasks, disorder
<1>13. CASE Lost \/ TimedOut
  <2>1. breaks' \in 0 .. MaxBreaks
    BY <1>13, DaemonAssumption DEF Lost, TimedOut, Disconnected, Broken
  <2>2. commands' \in Seq(1 .. MaxRequests)
    BY <1>13, NoCommands DEF Lost, TimedOut, Disconnected
  <2> QED
    BY <1>13, <2>1, <2>2 DEF Lost, TimedOut, Disconnected, process
<1>14. CASE PublishWill
  <2>1. Kept'
    BY <1>14, RetainType, TopicsDiffer, PayloadKinds DEF PublishWill
  <2> QED
    BY <1>14, <2>1 DEF PublishWill, Kept, process, tasks, disorder
<1>15. CASE Ask
  <2>1. requested + 1 \in 1 .. MaxRequests
    BY <1>15, DaemonAssumption DEF Ask
  <2>2. commands' \in Seq(1 .. MaxRequests)
    BY <1>15, <2>1, AppendProperties DEF Ask
  <2> QED
    BY <1>15, <2>1, <2>2 DEF Ask, process, tasks, disorder
<1> HIDE DEF TypeOK, Alive, Ended
<1> QED
  BY <1>1, <1>2, <1>3, <1>4, <1>4a, <1>5, <1>6, <1>7, <1>8, <1>9, <1>10, <1>11,
     <1>12, <1>13, <1>14, <1>15 DEF Next, ServeProceeds, AdapterProceeds

(* The daemon's tasks, its retained topics and the commands under way are  *)
(* what they should be; a process that lives has a configuration.          *)
THEOREM DaemonType == Spec => []TypeOK
BY InitType, StepType, PTL DEF Spec

-----------------------------------------------------------------------------
(* The end of serve is seen *)

(* A connection carries a will, and an availability of "online" is the     *)
(* claim of a session whose will is armed, or of a last one that was       *)
(* closed in order with nothing said.                                      *)
WillGuards ==
    /\ Connected => willArmed
    /\ retained[Availability] = "online" => willArmed \/ orderly

(* What keeps WillGuards although nothing of it is said anew. *)
LEMMA WillGuardsKept ==
    ASSUME WillGuards, UNCHANGED <<retained, willArmed, orderly>>,
           Connected' => Connected
    PROVE  WillGuards'
BY DEF WillGuards

LEMMA InitWillGuards == Init => WillGuards
BY TopicsDiffer, TopicsAssumption DEF Init, WillGuards, Connected, Alive

LEMMA StepWillGuards == TypeOK /\ WillGuards /\ [Next]_vars => WillGuards'
<1> SUFFICES ASSUME TypeOK, WillGuards, [Next]_vars PROVE WillGuards'
  OBVIOUS
<1> USE TopicsDiffer
<1>1. CASE UNCHANGED vars
  BY <1>1, WillGuardsKept
     DEF vars, process, tasks, broker, disorder, Connected, Alive
<1>2. ASSUME NEW c \in Configs, Start(c) PROVE WillGuards'
  BY <1>2, WillGuardsKept DEF Start, broker, disorder, Connected
<1>3. CASE Signal \/ Waken \/ Gathered \/ ObserverReturns \/ ObserverFails
  BY <1>3, WillGuardsKept
     DEF Signal, Waken, Gathered, Leave, ObserverReturns, ObserverFails,
         process, tasks, broker, disorder, Connected, Alive
<1>4. CASE AdapterFails \/ AdapterReturns \/ StartServing \/ Consume
  BY <1>4, WillGuardsKept
     DEF AdapterFails, AdapterReturns, StartServing, Consume, process, tasks,
         broker, disorder, Connected, Alive
<1>5. CASE Kill
  BY <1>5, WillGuardsKept DEF Kill, Connected, Alive
<1>6. CASE Ask
  BY <1>6, WillGuardsKept
     DEF Ask, process, tasks, disorder, Connected, Alive
<1>7. ASSUME NEW t \in Things, Move(t) PROVE WillGuards'
  BY <1>7, WillGuardsKept
     DEF Move, process, tasks, broker, disorder, Connected, Alive
<1>8. CASE Connect
  BY <1>8 DEF Connect, WillGuards
<1>9. CASE SayOnline
  BY <1>9 DEF SayOnline, WillGuards
<1>10. CASE SayConfig
  <2>1. retained'[Availability] = retained[Availability]
    BY <1>10 DEF SayConfig, Retain, TypeOK
  <2> QED
    BY <1>10, <2>1 DEF SayConfig, WillGuards
<1>11. ASSUME NEW t \in Things, SaySnapshot(t) \/ Show(t) PROVE WillGuards'
  <2>1. retained'[Availability] = retained[Availability]
    BY <1>11 DEF SaySnapshot, Show, Retain, TypeOK
  <2> QED
    BY <1>11, <2>1 DEF SaySnapshot, Show, WillGuards
<1>12. CASE SayOffline
  BY <1>12 DEF SayOffline, Retain, TypeOK, WillGuards, Connected, Alive
<1>13. CASE Lost
  BY <1>13, WillGuardsKept DEF Lost, Disconnected, Connected, Alive
<1>14. CASE TimedOut \/ ConsumerFails
  BY <1>14 DEF TimedOut, ConsumerFails, Disconnected, WillGuards, Connected, Alive
<1>15. CASE PublishWill
  BY <1>15 DEF PublishWill, Retain, TypeOK, WillGuards, Connected, Alive,
               process, tasks
<1> QED
  BY <1>1, <1>2, <1>3, <1>4, <1>5, <1>6, <1>7, <1>8, <1>9, <1>10, <1>11, <1>12,
     <1>13, <1>14, <1>15 DEF Next, ServeProceeds, AdapterProceeds

(* Whatever ends serve, a signal, a failed task or a kill, clients can see *)
(* that it ended, or the broker still has the will to publish; only a last *)
(* connection that was closed in order, after a time-out or because the    *)
(* consumer failed, leaves "online" behind.                                *)
THEOREM EndSeen == Spec => []EndIsSeen
<1>1. WillGuards => EndIsSeen
  BY DEF WillGuards, EndIsSeen
<1> QED
  BY <1>1, InitWillGuards, StepWillGuards, DaemonType, PTL DEF Spec

-----------------------------------------------------------------------------
(* The contract is kept *)

(* What was published of t is of an earlier process, or not ahead of t.    *)
NotAhead(t) ==
    retained[State(t)] # None =>
        /\ retained[State(t)].epoch <= epoch
        /\ retained[State(t)].epoch = epoch =>
               retained[State(t)].revision <= revision[t]

ContractInv ==
    /\ retained = [topic \in Topics |-> retained[topic]]
    /\ ~Connected => commands = <<>>
    /\ Connected /\ adapter = "snapshots" => todo \subseteq Listed(config)
    /\ \A t \in Things : NotAhead(t)

LEMMA InitContractInv == Init => ContractInv
BY TopicsDiffer
   DEF Init, ContractInv, Connected, Alive, NotAhead

(* Publishing on another topic leaves the states alone. *)
LEMMA StatesKept ==
    ASSUME ContractInv, NEW topic \in {Availability, SystemConfig}, NEW payload,
           Retain(topic, payload), UNCHANGED <<epoch, revision>>
    PROVE  /\ retained' = [u \in Topics |-> retained'[u]]
           /\ \A t \in Things : NotAhead(t)'
<1>1. /\ DOMAIN retained = Topics
      /\ topic \in Topics
      /\ \A t \in Things : State(t) # topic /\ State(t) \in Topics
  BY TopicsDiffer DEF ContractInv
<1>2. retained' = [u \in Topics |-> retained'[u]]
  BY <1>1 DEF Retain
<1>3. ASSUME NEW t \in Things PROVE NotAhead(t)'
  <2>1. retained'[State(t)] = retained[State(t)]
    BY <1>1 DEF Retain
  <2> QED
    BY <2>1 DEF ContractInv, NotAhead
<1> QED
  BY <1>2, <1>3

LEMMA StateShown ==
    ASSUME TypeOK, ContractInv, NEW t \in Things, Retain(State(t), Current(t)),
           UNCHANGED <<epoch, revision>>
    PROVE  /\ retained' = [u \in Topics |-> retained'[u]]
           /\ \A u \in Things : NotAhead(u)'
<1>1. /\ DOMAIN retained = Topics
      /\ \A u \in Things : State(u) \in Topics /\ (State(u) = State(t) => u = t)
  BY TopicsDiffer DEF ContractInv
<1>2. retained' = [u \in Topics |-> retained'[u]]
  BY <1>1 DEF Retain
<1>3. epoch \in Nat /\ revision[t] \in Nat
  BY DEF TypeOK
<1>4. ASSUME NEW u \in Things PROVE NotAhead(u)'
  <2>1. CASE u = t
    <3>1. retained'[State(u)] = Current(t)
      BY <1>1, <2>1 DEF Retain
    <3> QED
      BY <1>3, <2>1, <3>1 DEF Current, NotAhead
  <2>2. CASE u # t
    <3>1. retained'[State(u)] = retained[State(u)]
      BY <1>1, <2>2 DEF Retain
    <3> QED
      BY <3>1 DEF ContractInv, NotAhead
  <2> QED
    BY <2>1, <2>2
<1> QED
  BY <1>2, <1>4

LEMMA StepContractInv == TypeOK /\ ContractInv /\ [Next]_vars => ContractInv'
<1> SUFFICES ASSUME TypeOK, ContractInv, [Next]_vars PROVE ContractInv'
  OBVIOUS
<1>1. ASSUME UNCHANGED <<epoch, revision, retained>>
      PROVE  /\ retained' = [u \in Topics |-> retained'[u]]
             /\ \A t \in Things : NotAhead(t)'
  BY <1>1 DEF ContractInv, NotAhead
<1>2. CASE UNCHANGED vars
  BY <1>1, <1>2 DEF ContractInv, vars, process, tasks, broker, disorder,
                    Connected, Alive
<1>3. ASSUME NEW c \in Configs, Start(c) PROVE ContractInv'
  <2>1. ASSUME NEW t \in Things PROVE NotAhead(t)'
    <3>1. retained[State(t)] \in {None} \cup Snapshots
      BY TopicsDiffer, PayloadKinds DEF TypeOK
    <3>2. NotAhead(t)
      BY DEF ContractInv
    <3>3. epoch' = epoch + 1 /\ epoch \in Nat /\ retained' = retained
      BY <1>3 DEF Start, broker, TypeOK
    <3>4. retained[State(t)] # None => retained[State(t)].epoch \in Nat
      BY <3>1 DEF Snapshots
    <3> QED
      BY <3>2, <3>3, <3>4 DEF NotAhead
  <2> QED
    BY <1>3, <2>1 DEF Start, ContractInv, Connected, Alive, broker
<1>4. CASE Signal \/ Waken \/ Gathered \/ ObserverReturns \/ ObserverFails
  BY <1>1, <1>4 DEF Signal, Waken, Gathered, Leave, ObserverReturns,
      ObserverFails, process, tasks, broker, disorder, ContractInv, Connected,
      Alive, Ended
<1>5. CASE AdapterFails \/ AdapterReturns \/ StartServing \/ Consume
  BY <1>1, <1>5 DEF AdapterFails, AdapterReturns, StartServing, Consume, process,
      tasks, broker, disorder, ContractInv, Connected, Alive
<1>6. CASE Kill \/ Ask \/ Lost \/ TimedOut \/ ConsumerFails
  BY <1>1, <1>6 DEF Kill, Ask, Lost, TimedOut, ConsumerFails, Disconnected,
      process, tasks, disorder, ContractInv, Connected, Alive
<1>7. ASSUME NEW t \in Things, Move(t) PROVE ContractInv'
  <2>1. ASSUME NEW u \in Things PROVE NotAhead(u)'
    <3>1. revision'[u] >= revision[u] /\ revision'[u] \in Nat
          /\ revision[u] \in Nat
      BY <1>7 DEF Move, TypeOK
    <3>2. retained' = retained /\ epoch' = epoch
      BY <1>7 DEF Move, broker, process
    <3>3. NotAhead(u)
      BY DEF ContractInv
    <3>4. retained[State(u)] # None => retained[State(u)].revision \in Nat
      BY TopicsDiffer, PayloadKinds DEF TypeOK, Snapshots
    <3> QED
      BY <3>1, <3>2, <3>3, <3>4 DEF NotAhead
  <2> QED
    BY <1>7, <2>1 DEF Move, process, tasks, broker, ContractInv, Connected, Alive
<1>8. CASE Connect
  <2>1. /\ retained' = [u \in Topics |-> retained'[u]]
        /\ \A t \in Things : NotAhead(t)'
    BY <1>1, <1>8, StatesKept DEF Connect, process
  <2> QED
    BY <1>8, <2>1 DEF Connect, process, ContractInv, Connected, Alive
<1>9. CASE SayOnline \/ SayConfig
  <2>1. /\ retained' = [u \in Topics |-> retained'[u]]
        /\ \A t \in Things : NotAhead(t)'
    BY <1>9, StatesKept DEF SayOnline, SayConfig, process
  <2> QED
    BY <1>9, <2>1 DEF SayOnline, SayConfig, process, ContractInv, Connected, Alive
<1>10. CASE SayOffline \/ PublishWill
  <2>1. /\ retained' = [u \in Topics |-> retained'[u]]
        /\ \A t \in Things : NotAhead(t)'
    BY <1>10, StatesKept DEF SayOffline, PublishWill, process
  <2> QED
    BY <1>10, <2>1 DEF SayOffline, PublishWill, process, tasks, ContractInv,
                       Connected, Alive
<1>11. ASSUME NEW t \in Things, SaySnapshot(t) \/ Show(t) PROVE ContractInv'
  <2>1. /\ retained' = [u \in Topics |-> retained'[u]]
        /\ \A u \in Things : NotAhead(u)'
    BY <1>11, StateShown DEF SaySnapshot, Show, process
  <2> QED
    BY <1>11, <2>1 DEF SaySnapshot, Show, process, tasks, ContractInv, Connected,
                       Alive
<1> QED
  BY <1>2, <1>3, <1>4, <1>5, <1>6, <1>7, <1>8, <1>9, <1>10, <1>11
     DEF Next, ServeProceeds, AdapterProceeds

(* The connection as the contract sees it. *)
LinkIs(link) ==
    /\ ~Alive \/ Ended(adapter) => link = "ended"
    /\ Alive /\ adapter = "idle" => link = "off"
    /\ Alive /\ adapter \in {"hello", "config", "serving"} => link = adapter
    /\ Alive /\ adapter = "snapshots" => link = "serving"

LEMMA LinkNow == TypeOK => LinkIs(Link)
BY DEF TypeOK, LinkIs, Link, Ended

LEMMA LinkNext == TypeOK' => LinkIs(Link)'
BY DEF TypeOK, LinkIs, Link, Ended

LEMMA SameConnected == TypeOK => (Promise!Connected <=> Connected)
BY LinkNow DEF LinkIs, TypeOK, Connected, Ended, Promise!Connected

LEMMA InitContract == Init => Promise!ContractInit
BY DEF Init, Promise!ContractInit, Link, Alive, Promise!Topics, Topics,
       Promise!Availability, Availability, Promise!SystemConfig, SystemConfig,
       Promise!StateTopics, StateTopics, Promise!State, State, Promise!Things,
       Things

(* What the contract's module shares with the daemon's is the same there.  *)
LEMMA SameTopics ==
    /\ Promise!Availability = Availability
    /\ Promise!SystemConfig = SystemConfig
    /\ Promise!Things = Things
    /\ \A t : Promise!State(t) = State(t)
    /\ \A c : Promise!Listed(c) = Listed(c)
    /\ \A topic, payload :
         Promise!Retain(topic, payload) <=> Retain(topic, payload)
BY DEF Promise!Availability, Availability, Promise!SystemConfig, SystemConfig,
       Promise!Things, Things, Promise!State, State, Promise!Listed, Listed,
       Promise!Retain, Retain

(* Nothing that the contract speaks of changes. *)
Unseen ==
    UNCHANGED <<config, epoch, requested, commands, answered, retained, willArmed,
                breaks>>

LEMMA UnseenStep ==
    ASSUME Unseen, Link' = Link
    PROVE  UNCHANGED Promise!contractVars
BY DEF Unseen, Promise!contractVars

(* A published state is newer than the retained one, or it is that one.    *)
LEMMA PublishIsNewer ==
    ASSUME TypeOK, ContractInv, NEW t \in Things, retained[State(t)] # Current(t)
    PROVE  revision[t] \in Promise!Newer(t)
<1> DEFINE last == retained[State(t)]
<1>1. last \in {None} \cup Snapshots /\ Current(t) \in Snapshots
  BY TopicsDiffer, PayloadKinds, CurrentType DEF TypeOK
<1>2. revision[t] \in 0 .. MaxRevision
  BY DEF TypeOK
<1>3. ASSUME last \notin {None, Junk}, last.epoch = epoch
      PROVE  revision[t] > last.revision
  <2>1. last.revision <= revision[t]
    BY <1>3 DEF ContractInv, NotAhead
  <2>2. last.revision # revision[t]
    BY <1>1, <1>3 DEF Snapshots, Current
  <2>3. last.revision \in Nat
    BY <1>1, <1>3 DEF Snapshots
  <2> QED
    BY <1>2, <2>1, <2>2, <2>3
<1> QED
  BY <1>2, <1>3, SameTopics DEF Promise!Newer

LEMMA PublishIsSayState ==
    ASSUME TypeOK, ContractInv, NEW t \in Listed(config), t \in Things, Connected,
           adapter \in {"snapshots", "serving"}, Retain(State(t), Current(t)),
           UNCHANGED <<config, epoch, requested, commands, answered, willArmed,
                       breaks>>,
           Link' = Link
    PROVE  Promise!SayState(t) \/ UNCHANGED Promise!contractVars
<1>1. Link = "serving"
  BY LinkNow DEF LinkIs, Connected
<1>2. CASE retained[State(t)] = Current(t)
  <2>1. retained' = retained
    BY <1>2, TopicsDiffer DEF Retain, ContractInv
  <2> QED
    BY <2>1, UnseenStep DEF Unseen
<1>3. CASE retained[State(t)] # Current(t)
  <2>1. revision[t] \in Promise!Newer(t)
    BY <1>3, PublishIsNewer
  <2>2. Promise!Retain(Promise!State(t), [epoch |-> epoch, revision |-> revision[t]])
    BY SameTopics DEF Current
  <2> QED
    BY <1>1, <2>1, <2>2, SameTopics DEF Promise!SayState
<1> QED
  BY <1>2, <1>3

LEMMA StepContract ==
    TypeOK /\ TypeOK' /\ ContractInv /\ [Next]_vars =>
        [Promise!DaemonStep \/ Promise!Ask]_(Promise!contractVars)
<1> SUFFICES ASSUME TypeOK, TypeOK', ContractInv, [Next]_vars
             PROVE  \/ Promise!DaemonStep \/ Promise!Ask
                    \/ UNCHANGED Promise!contractVars
  OBVIOUS
<1>0. LinkIs(Link) /\ LinkIs(Link)'
  BY LinkNow, LinkNext
<1>1. CASE UNCHANGED vars
  <2>1. Link' = Link
    BY <1>1 DEF vars, process, tasks, broker, disorder, Link, Alive, Ended
  <2> QED
    BY <1>1, <2>1, UnseenStep DEF Unseen, vars, process, tasks, broker, disorder
<1>2. ASSUME NEW c \in Configs, Start(c) PROVE Promise!Start(c)
  <2>1. Link = "ended" /\ Link' = "off"
    BY <1>0, <1>2 DEF LinkIs, Start, Alive
  <2> QED
    BY <1>2, <2>1 DEF Start, Promise!Start, broker, disorder
<1>3. CASE Signal \/ Waken \/ ObserverReturns \/ ObserverFails
           \/ \E t \in Things : Move(t)
  <2>1. Link' = Link
    BY <1>0, <1>3
       DEF LinkIs, Signal, Waken, ObserverReturns, ObserverFails, Move, tasks,
           Alive, Ended, TypeOK
  <2> QED
    BY <1>3, <2>1, UnseenStep
       DEF Unseen, Signal, Waken, ObserverReturns, ObserverFails, Move, process,
           tasks, broker, disorder
<1>4. CASE Gathered
  <2>1. Link = "ended" /\ Link' = "ended"
    BY <1>0, <1>4 DEF LinkIs, Gathered, Leave, Alive
  <2> QED
    BY <1>4, <2>1, UnseenStep DEF Unseen, Gathered, process, broker, disorder
<1>5. CASE StartServing
  <2>1. Link = "serving" /\ Link' = "serving"
    BY <1>0, <1>5 DEF LinkIs, StartServing, Connected, Alive
  <2> QED
    BY <1>5, <2>1, UnseenStep DEF Unseen, StartServing, process, broker, disorder
<1>6. CASE AdapterFails \/ AdapterReturns
  <2>1. Link = "off" /\ Link' = "ended"
    BY <1>0, <1>6 DEF LinkIs, AdapterFails, AdapterReturns, Alive, Ended
  <2>2. Promise!Quit
    BY <1>6, <2>1 DEF AdapterFails, AdapterReturns, Promise!Quit, process, broker,
                      disorder
  <2> QED
    BY <2>2 DEF Promise!DaemonStep
<1>7. CASE Kill /\ Connected
  <2>1. Link' = "ended"
    BY <1>0, <1>7 DEF LinkIs, Kill, Alive
  <2>2. Promise!Broken("ended") /\ UNCHANGED willArmed
    BY <1>7, <2>1, SameConnected DEF Kill, Broken, Promise!Broken, process
  <2> QED
    BY <2>2 DEF Promise!DaemonStep, Promise!Vanish
<1>8. CASE Kill /\ ~Connected
  <2>1. Link' = "ended" /\ Link \in {"off", "ended"} /\ Unseen
    BY <1>0, <1>8 DEF LinkIs, Kill, Alive, Connected, Ended, TypeOK, ContractInv,
                      process, Unseen
  <2>2. Promise!Quit \/ UNCHANGED Promise!contractVars
    BY <2>1, UnseenStep DEF Promise!Quit, Unseen
  <2> QED
    BY <2>2 DEF Promise!DaemonStep
<1>9. CASE Connect
  <2>1. Link = "off" /\ Link' = "hello"
    BY <1>0, <1>9 DEF LinkIs, Connect, Alive
  <2>2. Promise!Connect
    BY <1>9, <2>1, SameTopics DEF Connect, Promise!Connect, process, disorder
  <2> QED
    BY <2>2 DEF Promise!DaemonStep, Promise!Greet
<1>10. CASE SayOnline
  <2>1. Link = "hello" /\ Link' = "config"
    BY <1>0, <1>10 DEF LinkIs, SayOnline, Connected, Alive
  <2>2. Promise!SayOnline
    BY <1>10, <2>1, SameTopics DEF SayOnline, Promise!SayOnline, process, disorder
  <2> QED
    BY <2>2 DEF Promise!DaemonStep, Promise!Greet
<1>11. CASE SayConfig
  <2>1. Link = "config" /\ Link' = "serving"
    BY <1>0, <1>11 DEF LinkIs, SayConfig, Connected, Alive
  <2>2. Promise!SayConfig
    BY <1>11, <2>1, SameTopics DEF SayConfig, Promise!SayConfig, process, disorder
  <2> QED
    BY <2>2 DEF Promise!DaemonStep, Promise!Greet
<1>12. ASSUME NEW t \in Things, SaySnapshot(t) \/ Show(t)
       PROVE  Promise!SayState(t) \/ UNCHANGED Promise!contractVars
  <2>1. /\ Connected /\ adapter \in {"snapshots", "serving"}
        /\ t \in Listed(config)
        /\ Retain(State(t), Current(t))
        /\ UNCHANGED <<config, epoch, requested, commands, answered, willArmed,
                       breaks>>
    BY <1>12 DEF SaySnapshot, Show, ContractInv, process, disorder
  <2>2. Link' = Link
    BY <1>0, <1>12 DEF LinkIs, SaySnapshot, Show, Connected, Alive, tasks
  <2> QED
    BY <2>1, <2>2, PublishIsSayState
<1>13. CASE Consume
  <2>1. Link = "serving" /\ Link' = "serving"
    BY <1>0, <1>13 DEF LinkIs, Consume, Connected, Alive, tasks
  <2>2. Promise!Answer
    BY <1>13, <2>1 DEF Consume, Promise!Answer, process, disorder
  <2> QED
    BY <2>2 DEF Promise!DaemonStep
<1>14. CASE SayOffline
  <2>1. Link = "serving" /\ Link' = "ended"
    BY <1>0, <1>14 DEF LinkIs, SayOffline, Connected, Alive, Ended
  <2>2. Promise!SayOffline
    BY <1>14, <2>1, SameTopics DEF SayOffline, Promise!SayOffline, process,
                                   disorder
  <2> QED
    BY <2>2 DEF Promise!DaemonStep
<1>14a. CASE ConsumerFails
  <2>1. Link = "serving" /\ Link' = "ended"
    BY <1>0, <1>14a DEF LinkIs, ConsumerFails, Connected, Alive, Ended
  <2>2. Promise!Fail
    BY <1>14a, <2>1 DEF ConsumerFails, Promise!Fail, process
  <2> QED
    BY <2>2 DEF Promise!DaemonStep
<1>15. CASE Lost \/ TimedOut
  <2>1. Link' = "off"
    BY <1>0, <1>15 DEF LinkIs, Lost, TimedOut, Disconnected, Connected, Alive
  <2>2. /\ Promise!Broken("off")
        /\ UNCHANGED willArmed \/ willArmed' = FALSE
    BY <1>15, <2>1, SameConnected
       DEF Lost, TimedOut, Disconnected, Broken, Promise!Broken, process
  <2> QED
    BY <2>2 DEF Promise!DaemonStep, Promise!Vanish, Promise!TimeOut
<1>16. CASE PublishWill
  <2>1. Link' = Link
    BY <1>16 DEF PublishWill, Link, Alive, Ended, tasks
  <2>2. Promise!PublishWill
    BY <1>16, <2>1, SameConnected, SameTopics
       DEF PublishWill, Promise!PublishWill, process, disorder
  <2> QED
    BY <2>2 DEF Promise!DaemonStep
<1>17. CASE Ask
  <2>1. Link' = Link
    BY <1>17 DEF Ask, Link, Alive, Ended, tasks
  <2>2. Promise!Ask
    BY <1>17, <2>1, SameConnected DEF Ask, Promise!Ask, process, disorder
  <2> QED
    BY <2>2
<1> QED
  BY <1>1, <1>2, <1>3, <1>4, <1>5, <1>6, <1>7, <1>8, <1>9, <1>10, <1>11, <1>12,
     <1>13, <1>14, <1>14a, <1>15, <1>16, <1>17, SameTopics
     DEF Next, ServeProceeds, AdapterProceeds, Promise!DaemonStep

(* Every step of serve and its tasks is one that the contract with the     *)
(* clients allows, or is not seen: states only rise within a process,      *)
(* "online" comes before the configuration and that before the states, and *)
(* commands are answered in order.                                         *)
THEOREM ContractKept == Spec => Promise!ContractSpec
<1>1. Init => TypeOK /\ ContractInv /\ Promise!ContractInit
  BY InitType, InitContractInv, InitContract
<1>2. TypeOK /\ ContractInv /\ [Next]_vars =>
        /\ TypeOK' /\ ContractInv'
        /\ [Promise!DaemonStep \/ Promise!Ask]_(Promise!contractVars)
  BY StepType, StepContractInv, StepContract
<1> QED
  BY <1>1, <1>2, PTL DEF Spec, Promise!ContractSpec

=============================================================================
