------------------------ MODULE HomeAssistantProofs ------------------------
(***************************************************************************)
(* Safety of the Home Assistant integration for any groups, devices,       *)
(* configuration files and platforms, any length of the log of results and *)
(* any number of restarts, lost connections, unloads and foreign messages. *)
(***************************************************************************)
EXTENDS HomeAssistant, SequenceTheorems, TLAPS

-----------------------------------------------------------------------------
(* Topics and their payloads *)

LEMMA TopicsDiffer ==
    /\ Availability # SystemConfig
    /\ \A t \in Things : State(t) # Availability /\ State(t) # SystemConfig
    /\ \A t, u \in Things : State(t) = State(u) => t = u
    /\ \A topic \in Topics :
         \/ topic = Availability
         \/ topic = SystemConfig
         \/ \E t \in Things : topic = State(t)
    /\ Availability \in Topics /\ SystemConfig \in Topics
    /\ \A t \in Things : State(t) \in Topics
BY DEF Availability, SystemConfig, State, StateTopics, Topics

LEMMA PayloadsOf ==
    /\ Payloads(Availability) = {None, Junk, "online", "offline"}
    /\ Payloads(SystemConfig) = {None, Junk} \cup Configs
    /\ \A t \in Things : Payloads(State(t)) = {None, Junk} \cup Snapshots
    /\ \A topic \in Topics : None \in Payloads(topic) /\ Junk \in Payloads(topic)
<1>1. /\ Payloads(Availability) = {None, Junk, "online", "offline"}
      /\ Payloads(SystemConfig) = {None, Junk} \cup Configs
  BY TopicsDiffer DEF Payloads
<1>2. \A t \in Things : Payloads(State(t)) = {None, Junk} \cup Snapshots
  BY TopicsDiffer DEF Payloads
<1> QED
  BY <1>1, <1>2, TopicsDiffer

LEMMA FilterOf == \A topic \in Topics : Filter(topic) \in 1 .. 4
BY TopicsDiffer DEF Filter

-----------------------------------------------------------------------------
(* Sequences *)

LEMMA InSeqAppend ==
    ASSUME NEW S, NEW s \in Seq(S), NEW e \in S
    PROVE  /\ Append(s, e) \in Seq(S)
           /\ InSeq(Append(s, e)) = InSeq(s) \cup {e}
<1>1. /\ Append(s, e) \in Seq(S)
      /\ DOMAIN Append(s, e) = DOMAIN s \cup {Len(s) + 1}
      /\ \A i \in DOMAIN s : Append(s, e)[i] = s[i]
      /\ Append(s, e)[Len(s) + 1] = e
  OBVIOUS
<1> QED
  BY <1>1 DEF InSeq

LEMMA InSeqTail ==
    ASSUME NEW S, NEW s \in Seq(S), s # <<>>
    PROVE  /\ Head(s) \in S /\ Tail(s) \in Seq(S)
           /\ Len(Tail(s)) = Len(s) - 1
           /\ InSeq(s) = {Head(s)} \cup InSeq(Tail(s))
<1>1. /\ Head(s) \in S /\ Tail(s) \in Seq(S)
      /\ Len(Tail(s)) = Len(s) - 1 /\ Len(s) \in Nat \ {0}
      /\ Head(s) = s[1]
      /\ DOMAIN s = 1 .. Len(s) /\ DOMAIN Tail(s) = 1 .. Len(s) - 1
      /\ \A i \in 1 .. Len(s) - 1 : Tail(s)[i] = s[i + 1]
  OBVIOUS
<1>2. InSeq(s) \subseteq {Head(s)} \cup InSeq(Tail(s))
  <2> SUFFICES ASSUME NEW i \in 1 .. Len(s), i # 1
               PROVE  s[i] \in InSeq(Tail(s))
    BY <1>1 DEF InSeq
  <2>1. i - 1 \in 1 .. Len(s) - 1 /\ Tail(s)[i - 1] = s[i]
    BY <1>1
  <2> QED
    BY <1>1, <2>1 DEF InSeq
<1>3. {Head(s)} \cup InSeq(Tail(s)) \subseteq InSeq(s)
  <2> SUFFICES ASSUME NEW i \in 1 .. Len(s) - 1
               PROVE  Tail(s)[i] \in InSeq(s)
    BY <1>1 DEF InSeq
  <2>1. i + 1 \in 1 .. Len(s) /\ Tail(s)[i] = s[i + 1]
    BY <1>1
  <2> QED
    BY <1>1, <2>1 DEF InSeq
<1> QED
  BY <1>1, <1>2, <1>3

LEMMA InSeqEmpty == InSeq(<<>>) = {}
BY DEF InSeq

LEMMA InSeqTyped ==
    ASSUME NEW S, NEW s \in Seq(S)
    PROVE  InSeq(s) \subseteq S
BY DEF InSeq

-----------------------------------------------------------------------------
(* Types *)

LEMMA RetainTyped ==
    ASSUME ContractTypeOK, NEW topic \in Topics,
           NEW payload \in Payloads(topic), payload # None,
           Retain(topic, payload)
    PROVE  /\ DOMAIN retained' = Topics
           /\ \A u \in Topics : /\ retained'[u] \in Payloads(u)
                                /\ retained'[u] = retained[u] \/ retained'[u] # None
BY DEF ContractTypeOK, Retain

LEMMA RetainedKept ==
    ASSUME ContractTypeOK, UNCHANGED retained
    PROVE  /\ DOMAIN retained' = Topics
           /\ \A u \in Topics : /\ retained'[u] \in Payloads(u)
                                /\ retained'[u] = retained[u] \/ retained'[u] # None
BY DEF ContractTypeOK

(* A step of the contract keeps its types and takes no topic back. *)
LEMMA ContractTyped ==
    ASSUME ContractTypeOK, DaemonStep \/ Ask
    PROVE  /\ ContractTypeOK'
           /\ \A topic \in Topics :
                retained'[topic] = retained[topic] \/ retained'[topic] # None
<1> DEFINE Held == /\ DOMAIN retained' = Topics
                   /\ \A u \in Topics :
                        /\ retained'[u] \in Payloads(u)
                        /\ retained'[u] = retained[u] \/ retained'[u] # None
<1>0. /\ \A x \in {"online", "offline"} : x # None /\ x \in Payloads(Availability)
      /\ \A c \in Configs : c # None /\ c \in Payloads(SystemConfig)
      /\ \A t \in Things, s \in Snapshots : s # None /\ s \in Payloads(State(t))
  BY PayloadsOf, TopicsAssumption
<1>a. Retain(Availability, "online") \/ Retain(Availability, "offline") => Held
  BY <1>0, RetainTyped, TopicsDiffer
<1>b. UNCHANGED retained => Held
  BY RetainedKept
<1> HIDE DEF Held
<1>1. ASSUME NEW c \in Configs, Start(c) PROVE Held /\ ContractTypeOK'
  <2>1. Held /\ config' \in Configs /\ config' # None /\ epoch' \in 0 .. MaxStarts
    BY <1>1, <1>b, <1>0, TopicsAssumption DEF Start, ContractTypeOK
  <2> QED
    BY <1>1, <2>1 DEF Start, ContractTypeOK, Held
<1>2. CASE Connect
  <2>1. Held
    BY <1>2, <1>a, <1>b DEF Connect
  <2> QED
    BY <1>2, <2>1 DEF Connect, ContractTypeOK, Held
<1>3. CASE SayOnline
  BY <1>3, <1>a DEF SayOnline, ContractTypeOK, Held
<1>4. CASE SayConfig
  <2>1. config \in Configs
    BY <1>4 DEF SayConfig, ContractTypeOK
  <2>2. Held
    BY <1>4, <2>1, <1>0, RetainTyped, TopicsDiffer DEF SayConfig, Held
  <2> QED
    BY <1>4, <2>2 DEF SayConfig, ContractTypeOK, Held
<1>5. ASSUME NEW t \in Things, SayState(t) PROVE Held /\ ContractTypeOK'
  <2>1. PICK r \in Newer(t) : Retain(State(t), [epoch |-> epoch, revision |-> r])
    BY <1>5 DEF SayState
  <2>2. [epoch |-> epoch, revision |-> r] \in Snapshots
    BY <2>1 DEF Newer, Snapshots, ContractTypeOK
  <2>3. Held
    BY <2>1, <2>2, <1>0, RetainTyped, TopicsDiffer DEF Held
  <2> QED
    BY <1>5, <2>3 DEF SayState, ContractTypeOK, Held
<1>6. CASE Answer
  <2>1. Tail(commands) \in Seq(1 .. MaxRequests) /\ Head(commands) \in 1 .. MaxRequests
    BY <1>6, InSeqTail DEF Answer, ContractTypeOK
  <2> QED
    BY <1>6, <2>1, <1>b DEF Answer, ContractTypeOK, Held
<1>7. CASE SayOffline
  <2>1. Held
    BY <1>7, <1>a DEF SayOffline
  <2>2. commands' \in Seq(1 .. MaxRequests)
    BY <1>7 DEF SayOffline
  <2> QED
    BY <1>7, <2>1, <2>2 DEF SayOffline, ContractTypeOK, Held
<1>7a. CASE Fail
  <2>1. commands' \in Seq(1 .. MaxRequests)
    BY <1>7a DEF Fail
  <2> QED
    BY <1>7a, <2>1, <1>b DEF Fail, ContractTypeOK, Held
<1>8. CASE Quit
  BY <1>8, <1>b DEF Quit, ContractTypeOK, Held
<1>9. CASE Vanish \/ TimeOut
  <2>1. Held
    BY <1>9, <1>b DEF Vanish, TimeOut, Broken
  <2>2. PICK next \in {"off", "ended"} : Broken(next)
    BY <1>9 DEF Vanish, TimeOut
  <2>3. commands' \in Seq(1 .. MaxRequests) /\ breaks' \in 0 .. MaxBreaks
    BY <2>2, ContractAssumption DEF Broken, ContractTypeOK
  <2>4. link' \in {"off", "ended"} /\ config # None
    BY <2>2 DEF Broken, Connected, ContractTypeOK
  <2>5. willArmed' \in BOOLEAN
    BY <1>9 DEF Vanish, TimeOut, ContractTypeOK
  <2> QED
    BY <2>1, <2>2, <2>3, <2>4, <2>5 DEF Broken, ContractTypeOK, Held
<1>10. CASE PublishWill
  BY <1>10, <1>a DEF PublishWill, ContractTypeOK, Held
<1>11. CASE Ask
  <2>1. requested + 1 \in 1 .. MaxRequests
    BY <1>11, ContractAssumption DEF Ask, ContractTypeOK
  <2>2. commands' \in Seq(1 .. MaxRequests)
    BY <1>11, <2>1, InSeqAppend DEF Ask, ContractTypeOK
  <2> QED
    BY <1>11, <2>1, <2>2, <1>b DEF Ask, ContractTypeOK, Held
<1> QED
  BY <1>1, <1>2, <1>3, <1>4, <1>5, <1>6, <1>7, <1>7a, <1>8, <1>9, <1>10,
     <1>11
     DEF DaemonStep, Greet, Held

LEMMA FreshTyped ==
    ASSUME NEW p, NEW sc \in Configs \cup {None}
    PROVE  /\ GroupsOf(sc) \cup DevicesOf(sc) \subseteq Things
           /\ Fresh(p, sc) \subseteq GroupsOf(sc) \cup DevicesOf(sc)
           /\ Fresh(p, sc) \cap known[p] = {}
BY TopicsAssumption DEF GroupsOf, DevicesOf, Fresh, Things

Added(running, sc) == UNION {New(p, sc) : p \in running}

(* What Discover adds: entities of things that were not known, which are   *)
(* known then, and every platform given knows what it has an entity for.   *)
LEMMA DiscoverAdds ==
    ASSUME TypeOK, NEW running \in SUBSET Platforms,
           NEW sc \in Configs \cup {None}, Discover(running, sc)
    PROVE  /\ known' \in [Platforms -> SUBSET Things]
           /\ \A p \in Platforms : known[p] \subseteq known'[p]
           /\ \A p \in running : known'[p] = known[p] \cup Fresh(p, sc)
           /\ \A p \in Platforms \ running : known'[p] = known[p]
           /\ \A e \in entities' \ entities :
                /\ e[1] \in Platforms /\ e[2] \in Things
                /\ e[1] \in running
                /\ e[2] \in Fresh(e[1], sc)
           /\ entities \subseteq entities'
           /\ \A p \in running : \A t \in Fresh(p, sc) :
                \E e \in entities' : e[1] = p /\ e[2] = t
           /\ rejected' = rejected \cup
                (Added(running, sc) \cap entities)
<1> DEFINE new == Added(running, sc)
<1>1. /\ known' = [p \in Platforms |-> IF p \in running
                                       THEN known[p] \cup Fresh(p, sc)
                                       ELSE known[p]]
      /\ entities' = entities \cup new
      /\ rejected' = rejected \cup (new \cap entities)
  BY DEF Discover, Added
<1>2. \A p \in Platforms : Fresh(p, sc) \subseteq Things
  BY FreshTyped
<1>3. known \in [Platforms -> SUBSET Things]
  BY DEF TypeOK
<1>4. ASSUME NEW e \in new
      PROVE  /\ e[1] \in Platforms /\ e[2] \in Things
             /\ e[1] \in running /\ e[2] \in Fresh(e[1], sc)
  <2>1. PICK p \in running : e \in New(p, sc)
    BY DEF Added
  <2>2. PICK t \in Fresh(p, sc) : \E key \in Factory(p, sc, t) : e = <<p, t, key>>
    BY <2>1 DEF New
  <2>3. PICK key \in Factory(p, sc, t) : e = <<p, t, key>>
    BY <2>2
  <2> QED
    BY <2>3, <1>2
<1>5. ASSUME NEW p \in running, NEW t \in Fresh(p, sc)
      PROVE  \E e \in new : e[1] = p /\ e[2] = t
  <2>1. PICK key : key \in Factory(p, sc, t)
    BY DEF Fresh
  <2>2. <<p, t, key>> \in New(p, sc)
    BY <2>1 DEF New
  <2> QED
    BY <2>2 DEF Added
<1> HIDE DEF new
<1> QED
  BY <1>1, <1>2, <1>3, <1>4, <1>5 DEF new

-----------------------------------------------------------------------------
(* The steps of the client *)

(* Who publishes, and what is then forwarded. *)
LEMMA ForwardTyped ==
    ASSUME TypeOK, ContractTypeOK', Forward,
           \A topic \in Topics :
             retained'[topic] = retained[topic] \/ retained'[topic] # None
    PROVE  /\ DOMAIN inbox' = Topics
           /\ \A topic \in Topics : inbox'[topic] \in Seq(Payloads(topic) \ {None})
           /\ answers' \in SUBSET (1 .. MaxRequests)
           /\ lost' \in SUBSET (1 .. MaxRequests)
<1>1. ASSUME NEW topic \in Topics
      PROVE  inbox'[topic] \in Seq(Payloads(topic) \ {None})
  <2>1. inbox[topic] \in Seq(Payloads(topic) \ {None})
    BY DEF TypeOK
  <2>2. CASE ListensTo(topic) /\ retained'[topic] # retained[topic]
    <3>1. retained'[topic] \in Payloads(topic) \ {None}
      BY <2>2 DEF ContractTypeOK
    <3>2. inbox'[topic] = Append(inbox[topic], retained'[topic])
      BY <2>2 DEF Forward
    <3> QED
      BY <2>1, <3>1, <3>2, InSeqAppend
  <2>3. CASE ~(ListensTo(topic) /\ retained'[topic] # retained[topic])
    BY <2>1, <2>3 DEF Forward
  <2> QED
    BY <2>2, <2>3
<1>2. InSeq(commands) \subseteq 1 .. MaxRequests
  BY InSeqTyped DEF TypeOK, ContractTypeOK
<1>3. answers' \in SUBSET (1 .. MaxRequests) /\ lost' \in SUBSET (1 .. MaxRequests)
  BY <1>2 DEF TypeOK, ContractTypeOK, Forward
<1> QED
  BY <1>1, <1>3 DEF Forward

(* Every step is one of these. *)
LEMMA Steps ==
    ASSUME Next
    PROVE  \/ Seen(DaemonStep)
           \/ \E topic \in Topics : Disturb(topic)
           \/ Setup \/ Subscribe \/ Unload \/ Reconnect
           \/ \E p \in Platforms : SetUpPlatform(p)
           \/ ReceiveAvailability \/ ReceiveSystemConfig
           \/ \E t \in Things : ReceiveState(t)
           \/ \E id \in answers, again \in BOOLEAN : ReceiveResult(id, again)
           \/ \E e \in entities : Command(e)
BY DEF Next, SetupProceeds, Receive

(* What is retained for a topic, as a list of at most one message. *)
LEMMA RetainedTyped ==
    ASSUME ContractTypeOK, NEW topic \in Topics
    PROVE  /\ Retained(topic) \in Seq(Payloads(topic) \ {None})
           /\ retained[topic] # None => Retained(topic) = <<retained[topic]>>
<1>1. CASE retained[topic] = None
  BY <1>1 DEF Retained
<1>2. CASE retained[topic] # None
  <2>1. retained[topic] \in Payloads(topic) \ {None}
    BY <1>2 DEF ContractTypeOK
  <2> QED
    BY <1>2, <2>1 DEF Retained
<1> QED
  BY <1>1, <1>2

(* The numbers of requests. *)
Ids == 1 .. MaxRequests

(* The log takes a result, and is never longer than it may be. *)
LEMMA LogTyped ==
    ASSUME NEW id \in Ids,
           lastResults \in Seq(Ids), Len(lastResults) <= MaxResults
    PROVE  /\ Log(id) \in Seq(Ids)
           /\ Len(Log(id)) <= MaxResults
           /\ id \in InSeq(Log(id))
<1>1. CASE Kept(id)
  BY <1>1 DEF Log, Kept
<1>2. CASE ~Kept(id) /\ Len(lastResults) = MaxResults
  <2>1. lastResults # <<>> /\ Tail(lastResults) \in Seq(Ids)
    BY <1>2, HomeAssistantAssumption
  <2>2. /\ Append(Tail(lastResults), id) \in Seq(Ids)
        /\ InSeq(Append(Tail(lastResults), id)) = InSeq(Tail(lastResults)) \cup {id}
    <3>1. PICK s \in Seq(Ids) : s = Tail(lastResults)
      BY <2>1
    <3>2. /\ Append(s, id) \in Seq(Ids)
          /\ InSeq(Append(s, id)) = InSeq(s) \cup {id}
      BY InSeqAppend
    <3> QED
      BY <3>1, <3>2
  <2>3. Len(Append(Tail(lastResults), id)) = Len(Tail(lastResults)) + 1
    BY <2>1
  <2>4. Len(Tail(lastResults)) = MaxResults - 1
    BY <1>2, <2>1, InSeqTail
  <2>5. Log(id) = Append(Tail(lastResults), id)
    BY <1>2 DEF Log
  <2> QED
    BY <2>2, <2>3, <2>4, <2>5, HomeAssistantAssumption
<1>3. CASE ~Kept(id) /\ Len(lastResults) # MaxResults
  <2>1. /\ Append(lastResults, id) \in Seq(Ids)
        /\ InSeq(Append(lastResults, id)) = InSeq(lastResults) \cup {id}
    BY InSeqAppend
  <2>2. Len(Append(lastResults, id)) = Len(lastResults) + 1 /\ Len(lastResults) \in Nat
    OBVIOUS
  <2>3. Log(id) = Append(lastResults, id)
    BY <1>3 DEF Log
  <2> QED
    BY <1>3, <2>1, <2>2, <2>3, HomeAssistantAssumption
<1> QED
  BY <1>1, <1>2, <1>3

-----------------------------------------------------------------------------
(* The type invariant. *)

LEMMA InitTyped == Init => TypeOK
<1> SUFFICES ASSUME Init PROVE TypeOK
  OBVIOUS
<1>2. /\ \A topic \in Topics : <<>> \in Seq(Payloads(topic) \ {None})
      /\ <<>> \in Seq(1 .. MaxRequests) /\ Len(<<>>) = 0
  OBVIOUS
<1>1. ContractTypeOK
  <2>1. /\ DOMAIN retained = Topics
        /\ \A topic \in Topics : retained[topic] = None
    BY DEF Init, ContractInit
  <2>2. /\ config = None /\ epoch = 0 /\ link = "ended" /\ requested = 0
        /\ commands = <<>> /\ answered = {} /\ willArmed = FALSE /\ breaks = 0
    BY DEF Init, ContractInit
  <2>3. \A topic \in Topics : retained[topic] \in Payloads(topic)
    BY <2>1, PayloadsOf
  <2>4. /\ epoch \in 0 .. MaxStarts /\ requested \in 0 .. MaxRequests
        /\ breaks \in 0 .. MaxBreaks /\ answered \in SUBSET (1 .. MaxRequests)
        /\ commands \in Seq(1 .. MaxRequests)
    BY <2>2, ContractAssumption, TopicsAssumption
  <2> QED
    BY <2>1, <2>2, <2>3, <2>4 DEF ContractTypeOK
<1>3. /\ NoStates \in [Things -> Snapshots \cup {None}]
      /\ NothingKnown \in [Platforms -> SUBSET Things]
  BY DEF NoStates, NothingKnown
<1>4. /\ DOMAIN inbox = Topics
      /\ \A topic \in Topics : inbox[topic] = <<>>
  BY DEF Init
<1>5. \A topic \in Topics : inbox[topic] \in Seq(Payloads(topic) \ {None})
  BY <1>2, <1>4
<1>6. /\ entry = "unloaded" /\ subscribed = 0 /\ ready = {} /\ answers = {}
      /\ online = FALSE /\ systemConfig = None /\ states = NoStates
      /\ lastResults = <<>> /\ known = NothingKnown /\ entities = {}
      /\ lost = {} /\ troubles = 0
  BY DEF Init
<1>7. /\ lastResults \in Seq(1 .. MaxRequests) /\ Len(lastResults) <= MaxResults
      /\ subscribed \in 0 .. Results /\ troubles \in 0 .. MaxTroubles
  BY <1>6, HomeAssistantAssumption DEF Results
<1> QED
  BY <1>1, <1>3, <1>4, <1>5, <1>6, <1>7 DEF TypeOK

(* A step of another party. *)
LEMMA PublishTyped ==
    ASSUME TypeOK, Seen(DaemonStep) \/ \E topic \in Topics : Disturb(topic)
    PROVE  /\ TypeOK' /\ ContractTypeOK' /\ Forward
           /\ UNCHANGED <<requested, entry, subscribed, ready, cache, added>>
<1>1. /\ ContractTypeOK' /\ troubles' \in 0 .. MaxTroubles
      /\ \A topic \in Topics :
           retained'[topic] = retained[topic] \/ retained'[topic] # None
      /\ requested' = requested
  <2>1. CASE Seen(DaemonStep)
    <3>1. DaemonStep /\ troubles' = troubles
      BY <2>1 DEF Seen
    <3>2. requested' = requested
      BY <3>1 DEF DaemonStep, Greet, Start, Connect, SayOnline, SayConfig,
         SayState, Answer, SayOffline, Fail, Quit, Vanish, TimeOut, Broken,
         PublishWill
    <3> QED
      BY <3>1, <3>2, ContractTyped DEF TypeOK
  <2>2. ASSUME NEW topic \in Topics, Disturb(topic)
        PROVE  /\ ContractTypeOK' /\ troubles' \in 0 .. MaxTroubles
               /\ \A u \in Topics :
                    retained'[u] = retained[u] \/ retained'[u] # None
               /\ requested' = requested
    <3>1. /\ Retain(topic, Junk) /\ troubles < MaxTroubles
          /\ troubles' = troubles + 1
          /\ UNCHANGED <<config, epoch, link, requested, commands, answered,
                         willArmed, breaks>>
      BY <2>2 DEF Disturb, Troubled
    <3>2. Junk \in Payloads(topic) /\ Junk # None
      BY PayloadsOf, TopicsAssumption
    <3>3. /\ DOMAIN retained' = Topics
          /\ \A u \in Topics : /\ retained'[u] \in Payloads(u)
                               /\ retained'[u] = retained[u] \/ retained'[u] # None
      BY <3>1, <3>2, RetainTyped DEF TypeOK
    <3> QED
      BY <3>1, <3>3, HomeAssistantAssumption DEF TypeOK, ContractTypeOK
  <2> QED
    BY <2>1, <2>2
<1>2. Forward /\ UNCHANGED <<entry, subscribed, ready, cache, added>>
  BY DEF Seen, Disturb
<1>3. /\ DOMAIN inbox' = Topics
      /\ \A topic \in Topics : inbox'[topic] \in Seq(Payloads(topic) \ {None})
      /\ answers' \in SUBSET (1 .. MaxRequests)
      /\ lost' \in SUBSET (1 .. MaxRequests)
  BY <1>1, <1>2, ForwardTyped
<1> QED
  BY <1>1, <1>2, <1>3 DEF TypeOK, cache, added

(* A handler takes the oldest message of its topic. *)
LEMMA TakenTyped ==
    ASSUME TypeOK, NEW topic \in Topics, Taken(topic)
    PROVE  /\ Head(inbox[topic]) \in Payloads(topic) \ {None}
           /\ inbox[topic] \in Seq(Payloads(topic) \ {None}) /\ inbox[topic] # <<>>
           /\ inbox'[topic] = Tail(inbox[topic])
           /\ \A u \in Topics : u # topic => inbox'[u] = inbox[u]
           /\ DOMAIN inbox' = Topics
           /\ \A u \in Topics : inbox'[u] \in Seq(Payloads(u) \ {None})
<1>1. /\ inbox[topic] \in Seq(Payloads(topic) \ {None}) /\ inbox[topic] # <<>>
      /\ inbox' = [inbox EXCEPT ![topic] = Tail(@)] /\ DOMAIN inbox = Topics
  BY DEF Taken, TypeOK
<1>2. PICK s \in Seq(Payloads(topic) \ {None}) : s = inbox[topic]
  BY <1>1
<1>3. Head(s) \in Payloads(topic) \ {None} /\ Tail(s) \in Seq(Payloads(topic) \ {None})
  BY <1>1, <1>2, InSeqTail
<1> QED
  BY <1>1, <1>2, <1>3 DEF TypeOK

LEMMA ContractKept ==
    ASSUME ContractTypeOK, UNCHANGED contractVars
    PROVE  ContractTypeOK'
BY DEF ContractTypeOK, contractVars

(* The handlers, and what they leave alone. *)
LEMMA ReceiveTyped ==
    ASSUME TypeOK,
           \/ ReceiveAvailability \/ ReceiveSystemConfig
           \/ \E t \in Things : ReceiveState(t)
    PROVE  TypeOK' /\ Discover(ready, systemConfig')
<1>1. /\ UNCHANGED <<contractVars, entry, subscribed, ready, answers, lost,
                     troubles, lastResults>>
      /\ Discover(ready, systemConfig')
  BY DEF ReceiveAvailability, ReceiveSystemConfig, ReceiveState, Taken
<1>2. /\ DOMAIN inbox' = Topics
      /\ \A u \in Topics : inbox'[u] \in Seq(Payloads(u) \ {None})
      /\ online' \in BOOLEAN
      /\ systemConfig' \in Configs \cup {None}
      /\ states' \in [Things -> Snapshots \cup {None}]
  <2>1. CASE ReceiveAvailability
    BY <2>1, TakenTyped, TopicsDiffer DEF ReceiveAvailability, TypeOK
  <2>2. CASE ReceiveSystemConfig
    <3>1. Taken(SystemConfig) /\ UNCHANGED <<online, states>>
      BY <2>2 DEF ReceiveSystemConfig
    <3>2. Head(inbox[SystemConfig]) \in {Junk} \cup Configs
      BY <3>1, TakenTyped, TopicsDiffer, PayloadsOf
    <3>3. systemConfig' \in Configs \cup {None}
      BY <2>2, <3>2 DEF ReceiveSystemConfig, TypeOK
    <3> QED
      BY <3>1, <3>3, TakenTyped, TopicsDiffer DEF TypeOK
  <2>3. ASSUME NEW t \in Things, ReceiveState(t)
        PROVE  <1>2!1 /\ <1>2!2 /\ <1>2!3 /\ <1>2!4 /\ <1>2!5
    <3>1. Taken(State(t)) /\ UNCHANGED <<online, systemConfig>>
      BY <2>3 DEF ReceiveState
    <3>2. Head(inbox[State(t)]) \in {Junk} \cup Snapshots
      BY <3>1, TakenTyped, TopicsDiffer, PayloadsOf
    <3>3. states' \in [Things -> Snapshots \cup {None}]
      BY <2>3, <3>2 DEF ReceiveState, TypeOK
    <3> QED
      BY <3>1, <3>3, TakenTyped, TopicsDiffer DEF TypeOK
  <2> QED
    BY <2>1, <2>2, <2>3
<1>3. systemConfig' \in Configs \cup {None} /\ ready \in SUBSET Platforms
  BY <1>2 DEF TypeOK
<1>4. /\ known' \in [Platforms -> SUBSET Things]
      /\ \A e \in entities' : e[1] \in Platforms /\ e[2] \in Things
  BY <1>1, <1>3, DiscoverAdds DEF TypeOK
<1> QED
  BY <1>1, <1>2, <1>4, ContractKept DEF TypeOK

LEMMA SetUpTyped ==
    ASSUME TypeOK, NEW p \in Platforms, SetUpPlatform(p)
    PROVE  TypeOK'
<1>1. /\ UNCHANGED <<contractVars, subscribed, inbox, answers, cache, lost, troubles>>
      /\ Discover({p}, systemConfig) /\ entry = "starting"
      /\ ready' = ready \cup {p} /\ entry' \in {entry, "loaded"}
  BY DEF SetUpPlatform
<1>2. systemConfig \in Configs \cup {None} /\ {p} \in SUBSET Platforms
  BY DEF TypeOK
<1>3. /\ known' \in [Platforms -> SUBSET Things]
      /\ \A e \in entities' : e[1] \in Platforms /\ e[2] \in Things
  BY <1>1, <1>2, DiscoverAdds DEF TypeOK
<1> QED
  BY <1>1, <1>3, ContractKept DEF TypeOK, cache

LEMMA ResultTyped ==
    ASSUME TypeOK, NEW id \in answers, NEW again \in BOOLEAN,
           ReceiveResult(id, again)
    PROVE  TypeOK' /\ id \in InSeq(lastResults')
<1>1. /\ UNCHANGED <<contractVars, entry, subscribed, ready, inbox, online,
                     systemConfig, states, troubles>>
      /\ Discover(ready, systemConfig)
      /\ answers' \in SUBSET answers
      /\ lastResults' = Log(id)
      /\ lost' \subseteq lost \cup InSeq(lastResults)
  BY DEF ReceiveResult
<1>2. /\ lastResults' \in Seq(1 .. MaxRequests) /\ Len(lastResults') <= MaxResults
      /\ id \in InSeq(lastResults')
  BY <1>1, LogTyped DEF TypeOK, Ids
<1>3. InSeq(lastResults) \subseteq 1 .. MaxRequests
  BY InSeqTyped DEF TypeOK
<1>4. /\ known' \in [Platforms -> SUBSET Things]
      /\ \A e \in entities' : e[1] \in Platforms /\ e[2] \in Things
  BY <1>1, DiscoverAdds DEF TypeOK
<1> QED
  BY <1>1, <1>2, <1>3, <1>4, ContractKept DEF TypeOK

(* Entries, subscriptions and connections. *)
LEMMA EntryTyped ==
    ASSUME TypeOK, Setup \/ Subscribe \/ Unload \/ Reconnect
    PROVE  TypeOK'
<1>0. InSeq(lastResults) \subseteq 1 .. MaxRequests
  BY InSeqTyped DEF TypeOK
<1>a. \A topic \in Topics : <<>> \in Seq(Payloads(topic) \ {None})
  OBVIOUS
<1>b. \A topic \in Topics : Retained(topic) \in Seq(Payloads(topic) \ {None})
  <2>1. ContractTypeOK
    BY DEF TypeOK
  <2> QED
    BY <2>1, RetainedTyped
<1>1. CASE Setup
  <2>1. /\ <<>> \in Seq(1 .. MaxRequests) /\ Len(<<>>) = 0
        /\ NoStates \in [Things -> Snapshots \cup {None}]
    BY DEF NoStates
  <2>2. lost' \in SUBSET (1 .. MaxRequests)
    BY <1>1, <1>0 DEF Setup, TypeOK
  <2>3. /\ entry' = "starting" /\ online' = FALSE /\ systemConfig' = None
        /\ states' = NoStates /\ lastResults' = <<>>
        /\ UNCHANGED <<contractVars, subscribed, ready, inbox, answers, added,
                       troubles>>
    BY <1>1 DEF Setup
  <2>4. Len(lastResults') <= MaxResults
    BY <2>1, <2>3, HomeAssistantAssumption
  <2> QED
    BY <2>1, <2>2, <2>3, <2>4, ContractKept DEF TypeOK, added
<1>2. CASE Subscribe
  <2>1. /\ DOMAIN inbox' = Topics
        /\ \A u \in Topics : inbox'[u] \in Seq(Payloads(u) \ {None})
        /\ subscribed' \in 0 .. Results
    BY <1>2, <1>b DEF Subscribe, TypeOK, Results
  <2> QED
    BY <1>2, <2>1, ContractKept DEF Subscribe, TypeOK, cache, added
<1>3. CASE Unload
  <2>1. /\ DOMAIN inbox' = Topics
        /\ \A u \in Topics : inbox'[u] \in Seq(Payloads(u) \ {None})
        /\ known' \in [Platforms -> SUBSET Things]
        /\ troubles' \in 0 .. MaxTroubles
        /\ lost' \in SUBSET (1 .. MaxRequests)
        /\ subscribed' \in 0 .. Results
    BY <1>3, <1>a, HomeAssistantAssumption
       DEF Unload, TypeOK, NothingKnown, Troubled, Results
  <2> QED
    BY <1>3, <2>1, ContractKept DEF Unload, TypeOK, cache
<1>4. CASE Reconnect
  <2>1. /\ DOMAIN inbox' = Topics
        /\ \A u \in Topics : inbox'[u] \in Seq(Payloads(u) \ {None})
        /\ troubles' \in 0 .. MaxTroubles
        /\ lost' \in SUBSET (1 .. MaxRequests)
    BY <1>4, <1>a, <1>b, HomeAssistantAssumption DEF Reconnect, TypeOK, Troubled
  <2> QED
    BY <1>4, <2>1, ContractKept DEF Reconnect, TypeOK, cache, added
<1> QED
  BY <1>1, <1>2, <1>3, <1>4

LEMMA CommandTyped ==
    ASSUME TypeOK, NEW e \in entities, Command(e)
    PROVE  TypeOK'
<1>1. /\ Ask
      /\ lost' = IF Connected THEN lost ELSE lost \cup {requested'}
      /\ UNCHANGED <<entry, subscribed, ready, inbox, answers, cache, added,
                     troubles>>
  BY DEF Command
<1>2. ContractTypeOK'
  BY <1>1, ContractTyped DEF TypeOK
<1>3. requested' \in 1 .. MaxRequests
  BY <1>1, ContractAssumption DEF Ask, TypeOK, ContractTypeOK
<1>4. lost' \in SUBSET (1 .. MaxRequests)
  BY <1>1, <1>3 DEF TypeOK
<1> QED
  BY <1>1, <1>2, <1>4 DEF TypeOK, cache, added

LEMMA NextTyped == ASSUME TypeOK, Next PROVE TypeOK'
BY Steps, PublishTyped, ReceiveTyped, SetUpTyped, ResultTyped, EntryTyped,
   CommandTyped

LEMMA StutterTyped == ASSUME TypeOK, UNCHANGED vars PROVE TypeOK'
BY DEF TypeOK, ContractTypeOK, vars, contractVars, haVars, cache, added

(* The variables keep their types, whatever the broker delivers: foreign   *)
(* payloads never reach the copies the client decides from, and the log of *)
(* results never grows beyond its limit (JebaoFlowRuntime).                *)
THEOREM ClientType == Spec => []TypeOK
BY InitTyped, NextTyped, StutterTyped, PTL DEF Spec

-----------------------------------------------------------------------------
(* Entities *)

(* How the entities move, with the platforms and the configuration. *)
LEMMA EntityMoves ==
    ASSUME TypeOK, Next
    PROVE  \/ UNCHANGED <<added, ready>> /\ systemConfig' \in {systemConfig, None}
           \/ /\ ready' = {} /\ entities' = {} /\ known' = NothingKnown
              /\ rejected' = rejected
           \/ \E running \in SUBSET Platforms :
                /\ Discover(running, systemConfig')
                /\ ready' = ready \cup running
                /\ running = ready \/ systemConfig' = systemConfig
<1>1. CASE Seen(DaemonStep) \/ \E topic \in Topics : Disturb(topic)
  BY <1>1, PublishTyped DEF cache
<1>2. CASE Setup \/ Subscribe \/ Reconnect \/ \E e \in entities : Command(e)
  BY <1>2 DEF Setup, Subscribe, Reconnect, Command, cache
<1>3. CASE Unload
  BY <1>3 DEF Unload
<1>4. ASSUME NEW p \in Platforms, SetUpPlatform(p)
      PROVE  \E running \in SUBSET Platforms :
               /\ Discover(running, systemConfig')
               /\ ready' = ready \cup running
               /\ running = ready \/ systemConfig' = systemConfig
  <2>1. /\ Discover({p}, systemConfig) /\ ready' = ready \cup {p}
        /\ systemConfig' = systemConfig
    BY <1>4 DEF SetUpPlatform, cache
  <2>2. Discover({p}, systemConfig') /\ {p} \in SUBSET Platforms
    BY <2>1
  <2> QED
    BY <2>1, <2>2
<1>5. CASE \/ ReceiveAvailability \/ ReceiveSystemConfig
           \/ \E t \in Things : ReceiveState(t)
           \/ \E id \in answers, again \in BOOLEAN : ReceiveResult(id, again)
  <2>1. ready' = ready /\ ready \in SUBSET Platforms
    BY <1>5 DEF ReceiveAvailability, ReceiveSystemConfig, ReceiveState, Taken,
                ReceiveResult, TypeOK
  <2>2. Discover(ready, systemConfig')
    <3>1. CASE \E id \in answers, again \in BOOLEAN : ReceiveResult(id, again)
      BY <3>1 DEF ReceiveResult
    <3> QED
      BY <1>5, <3>1, ReceiveTyped
  <2> QED
    BY <2>1, <2>2
<1> QED
  BY <1>1, <1>2, <1>3, <1>4, <1>5, Steps

(* Whatever has an entity of a platform is known to it. *)
Owned == AddedOnce /\ \A e \in entities : e[2] \in known[e[1]]

LEMMA OwnedKept ==
    ASSUME TypeOK, TypeOK', Owned, [Next]_vars
    PROVE  Owned'
<1>1. CASE UNCHANGED <<added, ready>>
  BY <1>1 DEF Owned, AddedOnce, added
<1>2. CASE entities' = {} /\ rejected' = rejected
  BY <1>2 DEF Owned, AddedOnce
<1>3. ASSUME NEW running \in SUBSET Platforms, Discover(running, systemConfig')
      PROVE  Owned'
  <2>1. systemConfig' \in Configs \cup {None}
    BY DEF TypeOK
  <2>2. /\ \A p \in Platforms : known[p] \subseteq known'[p]
        /\ \A p \in running : known'[p] = known[p] \cup Fresh(p, systemConfig')
        /\ \A e \in entities' \ entities :
             e[1] \in running /\ e[2] \in Fresh(e[1], systemConfig')
        /\ rejected' = rejected \cup (Added(running, systemConfig') \cap entities)
    BY <1>3, <2>1, DiscoverAdds
  <2>3. Added(running, systemConfig') \cap entities = {}
    <3> SUFFICES ASSUME NEW e \in entities, NEW p \in running,
                        e \in New(p, systemConfig')
                 PROVE  FALSE
      BY DEF Added
    <3>1. e[1] = p /\ e[2] \in Fresh(p, systemConfig')
      BY DEF New
    <3>2. e[2] \notin known[p]
      BY <2>1, <3>1, FreshTyped
    <3> QED
      BY <3>1, <3>2 DEF Owned
  <2>4. \A e \in entities : e[1] \in Platforms
    BY DEF TypeOK
  <2> QED
    BY <2>2, <2>3, <2>4 DEF Owned, AddedOnce
<1>4. CASE UNCHANGED vars
  BY <1>4, <1>1 DEF vars, haVars
<1> QED
  BY <1>1, <1>2, <1>3, <1>4, EntityMoves

(* No entity is ever added a second time, in whatever order and however    *)
(* often configurations arrive (the known sets of entity.py).              *)
THEOREM EntitiesOnce == Spec => []AddedOnce
<1>1. Init => Owned
  BY DEF Init, Owned, AddedOnce
<1>2. Owned => AddedOnce
  BY DEF Owned
<1> QED
  BY <1>1, <1>2, ClientType, OwnedKept, PTL DEF Spec

(* Set-up platforms know everything the configuration gives them an entity *)
(* of, and what is known has one.                                          *)
Covered ==
    /\ \A p \in ready, t \in GroupsOf(systemConfig) \cup DevicesOf(systemConfig) :
         Factory(p, systemConfig, t) # {} => t \in known[p]
    /\ \A p \in Platforms : \A t \in known[p] :
         \E e \in entities : e[1] = p /\ e[2] = t

LEMMA CoveredKept ==
    ASSUME TypeOK, TypeOK', Covered, [Next]_vars
    PROVE  Covered'
<1>0. GroupsOf(None) = {} /\ DevicesOf(None) = {}
  BY DEF GroupsOf, DevicesOf
<1>1. CASE UNCHANGED <<added, ready>> /\ systemConfig' \in {systemConfig, None}
  BY <1>0, <1>1 DEF Covered, added
<1>2. CASE ready' = {} /\ entities' = {} /\ known' = NothingKnown
  BY <1>2 DEF Covered, NothingKnown
<1>3. ASSUME NEW running \in SUBSET Platforms, Discover(running, systemConfig'),
             ready' = ready \cup running,
             running = ready \/ systemConfig' = systemConfig
      PROVE  Covered'
  <2>1. systemConfig' \in Configs \cup {None} /\ ready \in SUBSET Platforms
    BY DEF TypeOK
  <2>2. /\ \A p \in Platforms : known[p] \subseteq known'[p]
        /\ \A p \in running : known'[p] = known[p] \cup Fresh(p, systemConfig')
        /\ \A p \in Platforms \ running : known'[p] = known[p]
        /\ entities \subseteq entities'
        /\ \A p \in running : \A t \in Fresh(p, systemConfig') :
             \E e \in entities' : e[1] = p /\ e[2] = t
    BY <1>3, <2>1, DiscoverAdds
  <2>3. ASSUME NEW p \in ready',
               NEW t \in GroupsOf(systemConfig') \cup DevicesOf(systemConfig'),
               Factory(p, systemConfig', t) # {}
        PROVE  t \in known'[p]
    <3>1. CASE p \in running
      <4>1. t \in known[p] \/ t \in Fresh(p, systemConfig')
        BY <2>3 DEF Fresh
      <4> QED
        BY <3>1, <4>1, <2>2
    <3>2. CASE p \notin running
      <4>1. p \in ready /\ systemConfig' = systemConfig
        BY <1>3, <3>2
      <4> QED
        BY <2>1, <2>2, <2>3, <4>1 DEF Covered
    <3> QED
      BY <3>1, <3>2
  <2>4. ASSUME NEW p \in Platforms, NEW t \in known'[p]
        PROVE  \E e \in entities' : e[1] = p /\ e[2] = t
    BY <2>2 DEF Covered
  <2> QED
    BY <2>3, <2>4 DEF Covered
<1>4. CASE UNCHANGED vars
  BY <1>4, <1>1 DEF vars, haVars, cache
<1> QED
  BY <1>1, <1>2, <1>3, <1>4, EntityMoves

(* The platforms that are set up have an entity of everything the last     *)
(* configuration gives them one of, for any platforms and configurations.  *)
THEOREM EverythingDiscovered == Spec => []Discovered
<1>1. Init => Covered
  BY DEF Init, Covered, NothingKnown
<1>2. TypeOK /\ Covered => Discovered
  BY DEF TypeOK, Covered, Discovered
<1> QED
  BY <1>1, <1>2, ClientType, CoveredKept, PTL DEF Spec

-----------------------------------------------------------------------------
(* Retained topics *)

(* What NothingMissed says of one topic. *)
UpToDate(topic) ==
    IF inbox[topic] # <<>>
    THEN inbox[topic][Len(inbox[topic])] = retained[topic]
    ELSE Holds(topic) \/ (retained[topic] = Junk /\ topic # Availability)

HeardOf(topic) == ListensTo(topic) /\ retained[topic] # None

(* An unloaded entry has no subscriptions. *)
Idle == entry = "unloaded" => subscribed = 0

LEMMA HoldsOf ==
    /\ Holds(Availability) <=> online = (retained[Availability] = "online")
    /\ Holds(SystemConfig) <=> systemConfig = retained[SystemConfig]
    /\ \A t \in Things : Holds(State(t)) <=> states[t] = retained[State(t)]
<1>1. /\ Holds(Availability) <=> online = (retained[Availability] = "online")
      /\ Holds(SystemConfig) <=> systemConfig = retained[SystemConfig]
  BY TopicsDiffer DEF Holds
<1>2. \A t \in Things : Holds(State(t)) <=> states[t] = retained[State(t)]
  BY TopicsDiffer DEF Holds
<1> QED
  BY <1>1, <1>2

LEMMA HoldsNext ==
    /\ Holds(Availability)' <=> online' = (retained'[Availability] = "online")
    /\ Holds(SystemConfig)' <=> systemConfig' = retained'[SystemConfig]
    /\ \A t \in Things : Holds(State(t))' <=> states'[t] = retained'[State(t)]
<1>1. /\ Holds(Availability)' <=> online' = (retained'[Availability] = "online")
      /\ Holds(SystemConfig)' <=> systemConfig' = retained'[SystemConfig]
  BY TopicsDiffer DEF Holds
<1>2. \A t \in Things : Holds(State(t))' <=> states'[t] = retained'[State(t)]
  BY TopicsDiffer DEF Holds
<1> QED
  BY <1>1, <1>2

LEMMA LastOfAppend ==
    ASSUME NEW S, NEW s \in Seq(S), NEW e \in S
    PROVE  Append(s, e) # <<>> /\ Append(s, e)[Len(Append(s, e))] = e
OBVIOUS

(* The rest of the messages ends as all of them did. *)
LEMMA LastOfTail ==
    ASSUME NEW S, NEW s \in Seq(S), s # <<>>
    PROVE  IF Tail(s) # <<>> THEN Tail(s)[Len(Tail(s))] = s[Len(s)]
                             ELSE Head(s) = s[Len(s)]
<1>1. /\ Tail(s) \in Seq(S) /\ Len(Tail(s)) = Len(s) - 1 /\ Len(s) \in Nat \ {0}
      /\ Head(s) = s[1]
      /\ \A i \in 1 .. Len(s) - 1 : Tail(s)[i] = s[i + 1]
  OBVIOUS
<1>2. CASE Tail(s) # <<>>
  <2>1. Len(s) - 1 \in 1 .. Len(s) - 1
    BY <1>1, <1>2
  <2> QED
    BY <1>1, <1>2, <2>1
<1>3. CASE Tail(s) = <<>>
  <2>1. Len(Tail(s)) = 0
    BY <1>3, EmptySeq
  <2>2. PICK n \in Nat : n = Len(s)
    BY <1>1
  <2>3. Len(Tail(s)) = n - 1
    BY <1>1, <2>2
  <2>4. n - 1 = 0
    BY <2>1, <2>3
  <2>5. n = 1
    BY <2>4
  <2> QED
    BY <1>1, <1>3, <2>2, <2>5
<1> QED
  BY <1>2, <1>3

(* A topic that nothing is published on and that is not received stays.    *)
LEMMA UpToDateKept ==
    ASSUME NEW topic \in Topics, UpToDate(topic),
           inbox'[topic] = inbox[topic], retained'[topic] = retained[topic],
           Holds(topic) => Holds(topic)'
    PROVE  UpToDate(topic)'
BY DEF UpToDate

LEMMA PublishUpToDate ==
    ASSUME TypeOK, NothingMissed,
           Seen(DaemonStep) \/ \E topic \in Topics : Disturb(topic)
    PROVE  NothingMissed'
<1>1. /\ ContractTypeOK' /\ Forward
      /\ UNCHANGED <<entry, subscribed, online, systemConfig, states>>
  BY PublishTyped DEF cache
<1> SUFFICES ASSUME NEW topic \in Topics, HeardOf(topic)'
             PROVE  UpToDate(topic)'
  BY DEF NothingMissed, UpToDate, HeardOf
<1>2. ListensTo(topic) /\ retained'[topic] \in Payloads(topic) \ {None}
  BY <1>1 DEF HeardOf, ListensTo, ContractTypeOK
<1>3. CASE retained'[topic] # retained[topic]
  <2>1. inbox'[topic] = Append(inbox[topic], retained'[topic])
    BY <1>1, <1>2, <1>3 DEF Forward
  <2>2. inbox[topic] \in Seq(Payloads(topic) \ {None})
    BY DEF TypeOK
  <2> QED
    BY <1>2, <2>1, <2>2, LastOfAppend DEF UpToDate
<1>4. CASE retained'[topic] = retained[topic]
  <2>1. inbox'[topic] = inbox[topic] /\ UpToDate(topic)
    BY <1>1, <1>2, <1>4 DEF Forward, NothingMissed, UpToDate, HeardOf
  <2>2. Holds(topic) => Holds(topic)'
    BY <1>1, <1>4, HoldsOf, TopicsDiffer DEF Holds
  <2> QED
    BY <1>4, <2>1, <2>2, UpToDateKept
<1> QED
  BY <1>3, <1>4

(* What a handler does for its topic, and for the others. *)
LEMMA ReceiveUpToDate ==
    ASSUME TypeOK, NothingMissed, NEW topic \in Topics, Taken(topic),
           HeardOf(topic) =>
             (Head(inbox[topic]) = retained[topic] =>
                Holds(topic)' \/ (retained[topic] = Junk /\ topic # Availability)),
           \A u \in Topics : u # topic /\ Holds(u) => Holds(u)'
    PROVE  NothingMissed'
<1>1. UNCHANGED <<retained, subscribed>>
  BY DEF Taken, contractVars
<1> SUFFICES ASSUME NEW u \in Topics, HeardOf(u)
             PROVE  UpToDate(u)'
  BY <1>1 DEF NothingMissed, UpToDate, HeardOf, ListensTo
<1>2. UpToDate(u)
  BY DEF NothingMissed, UpToDate, HeardOf
<1>3. CASE u # topic
  BY <1>1, <1>2, <1>3, TakenTyped, UpToDateKept
<1>4. CASE u = topic
  <2>1. /\ inbox[topic] \in Seq(Payloads(topic) \ {None}) /\ inbox[topic] # <<>>
        /\ inbox'[topic] = Tail(inbox[topic])
    BY TakenTyped
  <2>2. PICK s \in Seq(Payloads(topic) \ {None}) : s = inbox[topic]
    BY <2>1
  <2>3. IF Tail(s) # <<>> THEN Tail(s)[Len(Tail(s))] = s[Len(s)]
                          ELSE Head(s) = s[Len(s)]
    BY <2>1, <2>2, LastOfTail
  <2>4. s[Len(s)] = retained[topic]
    BY <1>2, <1>4, <2>1, <2>2 DEF UpToDate
  <2> QED
    BY <1>1, <1>4, <2>1, <2>2, <2>3, <2>4 DEF UpToDate
<1> QED
  BY <1>3, <1>4

LEMMA IdleKept ==
    ASSUME TypeOK, Idle, [Next]_vars
    PROVE  Idle'
<1>1. CASE Seen(DaemonStep) \/ \E topic \in Topics : Disturb(topic)
  BY <1>1, PublishTyped DEF Idle
<1>2. CASE Setup \/ Subscribe \/ Unload \/ Reconnect \/ \E e \in entities : Command(e)
  BY <1>2 DEF Setup, Subscribe, Unload, Reconnect, Command, Idle
<1>3. ASSUME NEW p \in Platforms, SetUpPlatform(p) PROVE Idle'
  BY <1>3 DEF SetUpPlatform, Idle
<1>4. CASE \/ ReceiveAvailability \/ ReceiveSystemConfig
           \/ \E t \in Things : ReceiveState(t)
           \/ \E id \in answers, again \in BOOLEAN : ReceiveResult(id, again)
  BY <1>4 DEF ReceiveAvailability, ReceiveSystemConfig, ReceiveState, Taken,
              ReceiveResult, Idle
<1>5. CASE UNCHANGED vars
  BY <1>5 DEF vars, haVars, Idle
<1> QED
  BY <1>1, <1>2, <1>3, <1>4, <1>5, Steps

LEMMA MissedNothingKept ==
    ASSUME TypeOK, Idle, NothingMissed, [Next]_vars
    PROVE  NothingMissed'
<1>1. CASE Seen(DaemonStep) \/ \E topic \in Topics : Disturb(topic)
  BY <1>1, PublishUpToDate
<1>2. CASE Setup
  <2>1. \A topic \in Topics : ~ListensTo(topic)'
    BY <1>2, FilterOf DEF Setup, Idle, ListensTo
  <2> QED
    BY <2>1 DEF NothingMissed
<1>3. CASE Unload
  <2>1. \A topic \in Topics : ~ListensTo(topic)'
    BY <1>3, FilterOf DEF Unload, ListensTo
  <2> QED
    BY <2>1 DEF NothingMissed
<1>4. CASE Subscribe \/ Reconnect
  <2> SUFFICES ASSUME NEW topic \in Topics, HeardOf(topic)'
               PROVE  UpToDate(topic)'
    BY DEF NothingMissed, UpToDate, HeardOf
  <2>1. UNCHANGED <<retained, online, systemConfig, states>>
    BY <1>4 DEF Subscribe, Reconnect, contractVars, cache
  <2>2. CASE inbox'[topic] = Retained(topic)
    <3>1. inbox'[topic] = <<retained[topic]>>
      BY <2>1, <2>2 DEF HeardOf, Retained
    <3> QED
      BY <2>1, <3>1 DEF UpToDate
  <2>3. CASE inbox'[topic] # Retained(topic)
    <3>1. ListensTo(topic) /\ inbox'[topic] = inbox[topic]
      BY <1>4, <2>3, FilterOf DEF Subscribe, Reconnect, ListensTo, HeardOf, TypeOK,
         Results
    <3>2. UpToDate(topic)
      BY <2>1, <3>1 DEF NothingMissed, UpToDate, HeardOf
    <3>3. Holds(topic) => Holds(topic)'
      BY <2>1, HoldsOf, TopicsDiffer DEF Holds
    <3> QED
      BY <2>1, <3>1, <3>2, <3>3, UpToDateKept
  <2> QED
    BY <2>2, <2>3
<1>5. ASSUME UNCHANGED <<retained, online, systemConfig, states, inbox, subscribed>>
      PROVE  NothingMissed'
  <2> SUFFICES ASSUME NEW topic \in Topics, HeardOf(topic)'
               PROVE  UpToDate(topic)'
    BY DEF NothingMissed, UpToDate, HeardOf
  <2>1. UpToDate(topic)
    BY <1>5 DEF NothingMissed, UpToDate, HeardOf, ListensTo
  <2>2. Holds(topic) => Holds(topic)'
    BY <1>5, HoldsOf, TopicsDiffer DEF Holds
  <2> QED
    BY <1>5, <2>1, <2>2, UpToDateKept
<1>6. CASE \/ \E p \in Platforms : SetUpPlatform(p)
           \/ \E id \in answers, again \in BOOLEAN : ReceiveResult(id, again)
           \/ \E e \in entities : Command(e)
           \/ UNCHANGED vars
  BY <1>5, <1>6 DEF SetUpPlatform, ReceiveResult, Command, Ask, vars, haVars,
                    contractVars, cache
<1>7. CASE ReceiveAvailability
  <2>1. Taken(Availability) /\ UNCHANGED <<retained, systemConfig, states>>
    BY <1>7 DEF ReceiveAvailability, Taken, contractVars
  <2>2. Head(inbox[Availability]) = retained[Availability] => Holds(Availability)'
    BY <1>7, <2>1, HoldsOf, HoldsNext DEF ReceiveAvailability
  <2>3. \A u \in Topics : u # Availability /\ Holds(u) => Holds(u)'
    BY <2>1, HoldsOf, HoldsNext, TopicsDiffer
  <2> QED
    BY <2>1, <2>2, <2>3, ReceiveUpToDate, TopicsDiffer
<1>8. CASE ReceiveSystemConfig
  <2>1. Taken(SystemConfig) /\ UNCHANGED <<retained, online, states>>
    BY <1>8 DEF ReceiveSystemConfig, Taken, contractVars
  <2>2. Head(inbox[SystemConfig]) = retained[SystemConfig] =>
          Holds(SystemConfig)' \/ retained[SystemConfig] = Junk
    BY <1>8, <2>1, HoldsOf, HoldsNext DEF ReceiveSystemConfig
  <2>3. \A u \in Topics : u # SystemConfig /\ Holds(u) => Holds(u)'
    BY <2>1, HoldsOf, HoldsNext, TopicsDiffer
  <2> QED
    BY <2>1, <2>2, <2>3, ReceiveUpToDate, TopicsDiffer
<1>9. ASSUME NEW t \in Things, ReceiveState(t) PROVE NothingMissed'
  <2>1. Taken(State(t)) /\ UNCHANGED <<retained, online, systemConfig>>
    BY <1>9 DEF ReceiveState, Taken, contractVars
  <2>2. /\ Head(inbox[State(t)]) # Junk => states'[t] = Head(inbox[State(t)])
        /\ \A u \in Things : u # t => states'[u] = states[u]
    BY <1>9 DEF ReceiveState, TypeOK
  <2>3. Head(inbox[State(t)]) = retained[State(t)] =>
          Holds(State(t))' \/ retained[State(t)] = Junk
    BY <2>1, <2>2, HoldsOf, HoldsNext
  <2>4. \A u \in Topics : u # State(t) /\ Holds(u) => Holds(u)'
    BY <2>1, <2>2, HoldsOf, HoldsNext, TopicsDiffer
  <2> QED
    BY <2>1, <2>3, <2>4, ReceiveUpToDate, TopicsDiffer
<1> QED
  BY <1>1, <1>2, <1>3, <1>4, <1>6, <1>7, <1>8, <1>9, Steps

(* What a topic the client subscribed to retains is what it holds, or the  *)
(* last message on its way: for any configurations, restarts, connections  *)
(* lost on either side and foreign payloads (async_start and the handlers).*)
THEOREM TopicsFollowed == Spec => []NothingMissed
<1>1. Init => Idle /\ NothingMissed
  <2> SUFFICES ASSUME Init PROVE Idle /\ NothingMissed
    OBVIOUS
  <2>1. subscribed = 0
    BY DEF Init
  <2> QED
    BY <2>1, FilterOf DEF Idle, NothingMissed, ListensTo
<1> QED
  BY <1>1, ClientType, IdleKept, MissedNothingKept, PTL DEF Spec

-----------------------------------------------------------------------------
(* Requests *)

Distinct(s) == \A i, j \in DOMAIN s : s[i] = s[j] => i = j

LEMMA TailDistinct ==
    ASSUME NEW S, NEW s \in Seq(S), s # <<>>, Distinct(s)
    PROVE  Distinct(Tail(s)) /\ Head(s) \notin InSeq(Tail(s))
<1>1. /\ DOMAIN s = 1 .. Len(s) /\ DOMAIN Tail(s) = 1 .. Len(s) - 1
      /\ Head(s) = s[1] /\ Len(s) \in Nat \ {0}
      /\ \A i \in 1 .. Len(s) - 1 : Tail(s)[i] = s[i + 1]
  OBVIOUS
<1>2. \A i \in 1 .. Len(s) - 1 : i + 1 \in 1 .. Len(s) /\ i + 1 # 1
  BY <1>1
<1>3. ASSUME NEW i \in 1 .. Len(s) - 1, NEW j \in 1 .. Len(s) - 1,
             s[i + 1] = s[j + 1]
      PROVE  i = j
  <2>1. i + 1 = j + 1
    BY <1>1, <1>2, <1>3 DEF Distinct
  <2> QED
    BY <2>1, <1>1
<1>4. \A i \in 1 .. Len(s) - 1 : s[i + 1] # s[1]
  BY <1>1, <1>2 DEF Distinct
<1> QED
  BY <1>1, <1>3, <1>4 DEF Distinct, InSeq

LEMMA AppendDistinct ==
    ASSUME NEW S, NEW s \in Seq(S), NEW e \in S, e \notin InSeq(s), Distinct(s)
    PROVE  Distinct(Append(s, e))
<1>1. /\ DOMAIN Append(s, e) = DOMAIN s \cup {Len(s) + 1}
      /\ \A i \in DOMAIN s : Append(s, e)[i] = s[i]
      /\ Append(s, e)[Len(s) + 1] = e
  OBVIOUS
<1>2. \A i \in DOMAIN s : s[i] # e
  BY DEF InSeq
<1> QED
  BY <1>1, <1>2 DEF Distinct

(* The commands at the broker are different ones, sent and not answered.   *)
QueueInv ==
    /\ InSeq(commands) \cup answered \subseteq 1 .. requested
    /\ InSeq(commands) \cap answered = {}
    /\ Distinct(commands)

(* What a step of the daemon does to the commands. *)
LEMMA DaemonConsumes ==
    ASSUME DaemonStep
    PROVE  /\ requested' = requested
           /\ \/ answered' = answered /\ (commands' = commands \/ commands' = <<>>)
              \/ /\ commands # <<>> /\ commands' = Tail(commands)
                 /\ answered' = answered \cup {Head(commands)}
BY DEF DaemonStep, Greet, Start, Connect, SayOnline, SayConfig, SayState,
       Answer, SayOffline, Fail, Quit, Vanish, TimeOut, Broken, PublishWill

LEMMA QueueKept ==
    ASSUME TypeOK, QueueInv, [Next]_vars
    PROVE  QueueInv'
<1>0. commands \in Seq(1 .. MaxRequests)
  BY DEF TypeOK, ContractTypeOK
<1>1. CASE DaemonStep
  <2>1. CASE answered' = answered /\ commands' = <<>>
    BY <1>1, <2>1, DaemonConsumes, InSeqEmpty DEF QueueInv, Distinct
  <2>2. CASE answered' = answered /\ commands' = commands
    BY <1>1, <2>2, DaemonConsumes DEF QueueInv, Distinct, InSeq
  <2>3. CASE /\ commands # <<>> /\ commands' = Tail(commands)
             /\ answered' = answered \cup {Head(commands)}
    <3>1. /\ InSeq(commands) = {Head(commands)} \cup InSeq(commands')
          /\ Head(commands) \notin InSeq(commands') /\ Distinct(commands')
      BY <1>0, <2>3, InSeqTail, TailDistinct DEF QueueInv
    <3>2. requested' = requested
      BY <1>1, DaemonConsumes
    <3>3. /\ InSeq(commands') \cup answered' \subseteq 1 .. requested'
          /\ InSeq(commands') \cap answered' = {}
      BY <2>3, <3>1, <3>2 DEF QueueInv
    <3> QED
      BY <3>1, <3>3 DEF QueueInv, Distinct, InSeq
  <2> QED
    BY <1>1, <2>1, <2>2, <2>3, DaemonConsumes
<1>2. CASE UNCHANGED <<requested, commands, answered>>
  BY <1>2 DEF QueueInv, Distinct, InSeq
<1>3. CASE Ask
  <2>1. /\ requested' = requested + 1 /\ answered' = answered
        /\ requested \in Nat /\ requested + 1 \in 1 .. MaxRequests
        /\ commands' = commands \/ commands' = Append(commands, requested + 1)
    BY <1>3, ContractAssumption DEF Ask, TypeOK, ContractTypeOK
  <2>2. /\ 1 .. requested' = (1 .. requested) \cup {requested + 1}
        /\ requested + 1 \notin 1 .. requested
    BY <2>1
  <2>3. CASE commands' = commands
    BY <2>1, <2>2, <2>3 DEF QueueInv, Distinct, InSeq
  <2>4. CASE commands' = Append(commands, requested + 1)
    <3>0. InSeq(Append(commands, requested + 1)) = InSeq(commands) \cup {requested + 1}
      <4>1. PICK e \in Ids : e = requested + 1
        BY <2>1 DEF Ids
      <4>a. commands \in Seq(Ids)
        BY <1>0 DEF Ids
      <4>2. InSeq(Append(commands, e)) = InSeq(commands) \cup {e}
        BY <4>a, InSeqAppend
      <4> QED
        BY <4>1, <4>2
    <3>1. InSeq(commands') = InSeq(commands) \cup {requested + 1}
      BY <2>4, <3>0 DEF InSeq
    <3>2. Distinct(commands')
      BY <1>0, <2>1, <2>2, <2>4, AppendDistinct DEF QueueInv
    <3>3. /\ InSeq(commands') \cup answered' \subseteq 1 .. requested'
          /\ InSeq(commands') \cap answered' = {}
      BY <2>1, <2>2, <3>1 DEF QueueInv
    <3> QED
      BY <3>2, <3>3 DEF QueueInv, Distinct, InSeq
  <2> QED
    BY <2>1, <2>3, <2>4
<1>4. CASE \/ Setup \/ Subscribe \/ Unload \/ Reconnect
           \/ \E p \in Platforms : SetUpPlatform(p)
           \/ \E topic \in Topics : Disturb(topic)
  BY <1>2, <1>4 DEF Setup, Subscribe, Unload, Reconnect, SetUpPlatform, Disturb,
                    contractVars
<1>5. CASE \/ ReceiveAvailability \/ ReceiveSystemConfig
           \/ \E t \in Things : ReceiveState(t)
           \/ \E id \in answers, again \in BOOLEAN : ReceiveResult(id, again)
           \/ UNCHANGED vars
  BY <1>2, <1>5 DEF ReceiveAvailability, ReceiveSystemConfig, ReceiveState, Taken,
                    ReceiveResult, vars, contractVars
<1> QED
  BY <1>1, <1>3, <1>4, <1>5, Steps DEF Seen, Command

LEMMA AccountedKept ==
    ASSUME TypeOK, QueueInv, RequestsAccounted, [Next]_vars
    PROVE  RequestsAccounted'
<1> DEFINE Place == InSeq(commands) \cup answers \cup InSeq(lastResults) \cup lost
<1> DEFINE After == InSeq(commands') \cup answers' \cup InSeq(lastResults') \cup lost'
<1>0. RequestsAccounted = (1 .. requested \subseteq Place)
      /\ RequestsAccounted' = (1 .. requested' \subseteq After)
  BY DEF RequestsAccounted, InSeq
<1>a. ASSUME requested' = requested, Place \subseteq After
      PROVE  RequestsAccounted'
  BY <1>0, <1>a
<1>b. commands \in Seq(1 .. MaxRequests)
  BY DEF TypeOK, ContractTypeOK
<1>1. CASE Seen(DaemonStep) \/ \E topic \in Topics : Disturb(topic)
  <2>1. /\ requested' = requested /\ lastResults' = lastResults /\ Forward
    BY <1>1, PublishTyped DEF cache
  <2>2. InSeq(commands) \ InSeq(commands') \subseteq lost' \cup (answered' \ answered)
    <3>1. InSeq(commands) \ InSeq(commands') \subseteq lost' \cup answered'
      BY <2>1 DEF Forward
    <3> QED
      BY <3>1 DEF QueueInv
  <2>3. /\ answered' \ answered \subseteq answers' \cup lost'
        /\ answers \subseteq answers' /\ lost \subseteq lost'
    BY <2>1 DEF Forward
  <2> QED
    BY <1>a, <2>1, <2>2, <2>3
<1>2. CASE Setup \/ Unload \/ Reconnect
  <2>1. /\ requested' = requested /\ commands' = commands
        /\ answers \cup InSeq(lastResults) \cup lost \subseteq
             answers' \cup InSeq(lastResults') \cup lost'
    BY <1>2 DEF Setup, Unload, Reconnect, contractVars, cache
  <2> QED
    BY <1>a, <2>1
<1>3. CASE UNCHANGED <<requested, commands, answers, lastResults, lost>>
  BY <1>a, <1>3
<1>4. CASE \/ Subscribe
           \/ \E p \in Platforms : SetUpPlatform(p)
           \/ ReceiveAvailability \/ ReceiveSystemConfig
           \/ \E t \in Things : ReceiveState(t)
           \/ UNCHANGED vars
  BY <1>3, <1>4 DEF Subscribe, SetUpPlatform, ReceiveAvailability,
     ReceiveSystemConfig, ReceiveState, Taken, cache, vars, haVars, contractVars
<1>5. ASSUME NEW id \in answers, NEW again \in BOOLEAN, ReceiveResult(id, again)
      PROVE  RequestsAccounted'
  <2>1. /\ requested' = requested /\ commands' = commands
        /\ answers \ {id} \subseteq answers'
        /\ InSeq(lastResults) \subseteq lost' \cup InSeq(lastResults')
        /\ lost \subseteq lost'
    BY <1>5 DEF ReceiveResult, contractVars
  <2>2. id \in InSeq(lastResults')
    BY <1>5, ResultTyped
  <2> QED
    BY <1>a, <2>1, <2>2
<1>6. ASSUME NEW e \in entities, Command(e)
      PROVE  RequestsAccounted'
  <2>1. /\ Ask /\ UNCHANGED <<answers, lastResults>>
        /\ lost' = IF Connected THEN lost ELSE lost \cup {requested'}
    BY <1>6 DEF Command, cache
  <2>2. /\ requested' = requested + 1 /\ requested \in Nat
        /\ requested + 1 \in 1 .. MaxRequests
        /\ commands' = IF Connected THEN Append(commands, requested + 1) ELSE commands
    BY <2>1, ContractAssumption DEF Ask, TypeOK, ContractTypeOK
  <2>3. 1 .. requested' = (1 .. requested) \cup {requested + 1}
    BY <2>2
  <2>4. Connected => InSeq(commands') = InSeq(commands) \cup {requested + 1}
    BY <1>b, <2>2, InSeqAppend
  <2>5. Place \cup {requested + 1} \subseteq After
    BY <2>1, <2>2, <2>4
  <2> QED
    BY <1>0, <2>3, <2>5
<1> QED
  BY <1>1, <1>2, <1>4, <1>5, <1>6, Steps

(* Every command sent is with the daemon, its result on its way or in the  *)
(* log, or it is known where it was lost: for any number of requests and   *)
(* any length of the log (async_group_command, async_device_command and    *)
(* _receive_result).                                                       *)
THEOREM CommandsAccounted == Spec => []RequestsAccounted
<1>1. Init => QueueInv /\ RequestsAccounted
  <2> SUFFICES ASSUME Init PROVE QueueInv /\ RequestsAccounted
    OBVIOUS
  <2>1. requested = 0 /\ commands = <<>> /\ answered = {}
    BY DEF Init, ContractInit
  <2>2. 1 .. requested = {}
    BY <2>1
  <2> QED
    BY <2>1, <2>2, InSeqEmpty DEF QueueInv, RequestsAccounted, Distinct
<1> QED
  BY <1>1, ClientType, QueueKept, AccountedKept, PTL DEF Spec

=============================================================================
