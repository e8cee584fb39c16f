------------------------------ MODULE Contract ------------------------------
(***************************************************************************)
(* What the daemon's MQTT contract shows of the daemon to a client, as a   *)
(* broker retains it: the availability with the will behind it, the        *)
(* configuration and the states of groups and devices, over connections    *)
(* and processes that come and go, and the answers to commands.            *)
(*                                                                         *)
(* The module says what can be seen and leaves open what makes it happen:  *)
(* Daemon implements it, HomeAssistant relies on nothing else.             *)
(***************************************************************************)
EXTENDS DaemonTopics, Sequences

CONSTANTS
    MaxBreaks,        \* bound on connections that end out of order
    MaxRequests       \* bound on commands sent

VARIABLES
    config,           \* the configuration of the last process
    epoch,            \* how often a process was started
    link,             \* how far the connection to the broker is
    requested,        \* how many commands were sent
    commands,         \* those at the broker for the daemon, oldest first
    answered,         \* those whose result was published
    retained,         \* the broker's copy of the retained topics
    willArmed,        \* the broker will publish the will for the session
    breaks            \* how many connections ended out of order

contractVars == <<config, epoch, link, requested, commands, answered, retained,
                  willArmed, breaks>>

ASSUME ContractAssumption ==
    MaxBreaks \in Nat /\ MaxRequests \in Nat

Connected == link \in {"hello", "config", "serving"}

Retain(topic, payload) == retained' = [retained EXCEPT ![topic] = payload]

ContractInit ==
    /\ config = None
    /\ epoch = 0
    /\ link = "ended"
    /\ requested = 0
    /\ commands = <<>>
    /\ answered = {}
    /\ retained = [topic \in Topics |-> None]
    /\ willArmed = FALSE
    /\ breaks = 0

-----------------------------------------------------------------------------
Start(c) ==
    /\ link = "ended"
    /\ epoch < MaxStarts
    /\ config' = c
    /\ epoch' = epoch + 1
    /\ link' = "off"
    /\ UNCHANGED <<requested, commands, answered, retained, willArmed, breaks>>

(* The daemon subscribes for commands.  The session of a lost connection   *)
(* ends first, which publishes its will.                                   *)
Connect ==
    /\ link = "off"
    /\ link' = "hello"
    /\ IF willArmed THEN Retain(Availability, "offline") ELSE UNCHANGED retained
    /\ willArmed' = TRUE
    /\ UNCHANGED <<config, epoch, requested, commands, answered, breaks>>

SayOnline ==
    /\ link = "hello"
    /\ link' = "config"
    /\ Retain(Availability, "online")
    /\ UNCHANGED <<config, epoch, requested, commands, answered, willArmed,
                   breaks>>

SayConfig ==
    /\ link = "config"
    /\ link' = "serving"
    /\ Retain(SystemConfig, config)
    /\ UNCHANGED <<config, epoch, requested, commands, answered, willArmed,
                   breaks>>

(* Revisions rise while a process lives and begin at 0 with the next.      *)
Newer(t) ==
    LET last == retained[State(t)]
        own  == last \notin {None, Junk} /\ last.epoch = epoch
    IN  {r \in 0 .. MaxRevision : own => r > last.revision}

SayState(t) ==
    /\ link = "serving"
    /\ t \in Listed(config)
    /\ \E r \in Newer(t) : Retain(State(t), [epoch |-> epoch, revision |-> r])
    /\ UNCHANGED <<config, epoch, link, requested, commands, answered,
                   willArmed, breaks>>

(* A command reaches the daemon when it is subscribed. *)
Ask ==
    /\ requested < MaxRequests
    /\ requested' = requested + 1
    /\ commands' = IF Connected THEN Append(commands, requested + 1)
                                ELSE commands
    /\ UNCHANGED <<config, epoch, link, answered, retained, willArmed, breaks>>

Answer ==
    /\ link = "serving"
    /\ commands # <<>>
    /\ commands' = Tail(commands)
    /\ answered' = answered \cup {Head(commands)}
    /\ UNCHANGED <<config, epoch, link, requested, retained, willArmed, breaks>>

(* An orderly end; what was not consumed is gone with the session. *)
SayOffline ==
    /\ link = "serving"
    /\ link' = "ended"
    /\ commands' = <<>>
    /\ Retain(Availability, "offline")
    /\ willArmed' = FALSE
    /\ UNCHANGED <<config, epoch, requested, answered, breaks>>

(* The daemon fails and closes the connection in order: online stays. *)
Fail ==
    /\ link = "serving"
    /\ config.mode = "control"
    /\ link' = "ended"
    /\ commands' = <<>>
    /\ willArmed' = FALSE
    /\ UNCHANGED <<config, epoch, requested, answered, retained, breaks>>

(* The process ends without a connection. *)
Quit ==
    /\ link = "off"
    /\ link' = "ended"
    /\ UNCHANGED <<config, epoch, requested, commands, answered, retained,
                   willArmed, breaks>>

Broken(next) ==
    /\ Connected
    /\ breaks < MaxBreaks
    /\ breaks' = breaks + 1
    /\ link' = next
    /\ commands' = <<>>
    /\ UNCHANGED <<config, epoch, requested, answered, retained>>

(* The connection is lost, with its process or not. *)
Vanish == (Broken("off") \/ Broken("ended")) /\ UNCHANGED willArmed

(* The daemon closes the connection itself after a time-out. *)
TimeOut == Broken("off") /\ willArmed' = FALSE

PublishWill ==
    /\ willArmed
    /\ ~Connected
    /\ Retain(Availability, "offline")
    /\ willArmed' = FALSE
    /\ UNCHANGED <<config, epoch, link, requested, commands, answered, breaks>>

Greet == Connect \/ SayOnline \/ SayConfig

(* All that the daemon and its side of the broker do. *)
DaemonStep ==
    \/ \E c \in Configs : Start(c)
    \/ Greet
    \/ \E t \in Things : SayState(t)
    \/ Answer \/ SayOffline \/ Fail \/ Quit
    \/ Vanish \/ TimeOut \/ PublishWill

ContractSpec == ContractInit /\ [][DaemonStep \/ Ask]_contractVars

(* A process that lives connects and answers; dead sessions are ended.     *)
FairContract ==
    /\ ContractSpec
    /\ WF_contractVars(Greet)
    /\ WF_contractVars(Answer)
    /\ WF_contractVars(PublishWill)

=============================================================================
