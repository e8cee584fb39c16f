----------------------------- MODULE LanDevice -----------------------------
(***************************************************************************)
(* LanJebaoDevice (src/jebao_flow/devices/lan.py) with hardware writes     *)
(* allowed: connect, disconnect, get_state and _apply_changes over a       *)
(* GizwitsSession.  A lock makes one call after another, so there is one   *)
(* call under way, and pc is the await it is in.  A call that fails at     *)
(* once, or a write the cache finds redundant, changes nothing.            *)
(***************************************************************************)
EXTENDS GizwitsSession

CONSTANTS
    Attempts,         \* readback_attempts
    MaxCommands       \* bound on controls; the code counts modulo 2^32

VARIABLES
    pc,               \* where the call is
    changes,          \* what a write changes
    attempt,          \* the read-back it is in
    sent,             \* _last_sent_values
    recent,           \* the minimum interval since _last_command_at is not over
    unsure            \* history: a write failed after it was sent, and the
                      \* cache has not been cleared since

callVars   == <<pc, changes, attempt>>
deviceVars == <<sent, recent, unsure>>
vars == <<sessionVars, callVars, deviceVars>>

Writing    == {"acking", "delaying", "verifying"}
Exchanging == {"passcode", "login", "getting", "acking", "verifying"}
Points     == Exchanging \cup {"idle", "opening", "closing", "pausing", "delaying"}

(* The kind of frame the exchange at each point waits for. *)
Awaited == [passcode |-> "passcode", login |-> "login", getting |-> "state",
            acking |-> "control", verifying |-> "state"]

ASSUME DeviceAssumption == Attempts \in Nat \ {0} /\ MaxCommands \in Nat

TypeOK ==
    /\ SessionTypeOK
    /\ pc \in Points
    /\ changes \in Changes \cup {None}
    /\ pc \in Writing \cup {"pausing"} => changes # None
    /\ attempt \in 0 .. Attempts
    /\ sent \in [Attributes -> Values \cup {None}]
    /\ recent \in BOOLEAN
    /\ unsure \in BOOLEAN

Init ==
    /\ SessionInit
    /\ pc = "idle"
    /\ changes = None
    /\ attempt = 0
    /\ sent = Nothing
    /\ recent = FALSE
    /\ unsure = FALSE

-----------------------------------------------------------------------------
(* The beginning of a call. Room is a bound on what is under way. *)

Room == Len(requests) + Len(replies) < MaxFlight

Connect ==
    /\ pc = "idle"
    /\ Room
    /\ IF Connected
       THEN /\ pc' = "passcode"
            /\ Send("passcode", None)
            /\ UNCHANGED <<link, torn, replies, authenticated, sequence, skipped, pumpVars>>
       ELSE pc' = "opening" /\ UNCHANGED sessionVars
    /\ UNCHANGED <<changes, attempt, deviceVars>>

Disconnect ==
    /\ pc = "idle"
    /\ pc' = "closing"
    /\ Drop
    /\ UNCHANGED <<changes, attempt, deviceVars>>

GetState ==
    /\ pc = "idle"
    /\ Room
    /\ Authenticated
    /\ pc' = "getting"
    /\ Send("read", None)
    /\ UNCHANGED <<link, torn, replies, authenticated, sequence, skipped, pumpVars>>
    /\ UNCHANGED <<changes, attempt, deviceVars>>

(* The cache has every value of a write: it returns without sending.        *)
Redundant(c) == \A a \in DOMAIN c : sent[a] = c[a]

SendControl(c) ==
    /\ Authenticated
    /\ pc' = "acking"
    /\ changes' = c
    /\ sequence' = sequence + 1
    /\ Send("control", c)
    /\ UNCHANGED <<link, torn, replies, authenticated, skipped, pumpVars>>
    /\ UNCHANGED <<attempt, deviceVars>>

Write(c) ==
    /\ pc = "idle"
    /\ Room
    /\ sequence < MaxCommands
    /\ ~Redundant(c)
    /\ \/ ~recent /\ SendControl(c)
       \/ /\ recent
          /\ pc' = "pausing"
          /\ changes' = c
          /\ UNCHANGED <<sessionVars, attempt, deviceVars>>

-----------------------------------------------------------------------------
(* What follows *)

Return == pc' = "idle" /\ changes' = None /\ attempt' = 0

(* A call ends with an error. *)
Fails == Return /\ unsure' = (unsure \/ pc \in Writing) /\ UNCHANGED <<sent, recent>>

(* The end of connect and disconnect. Mutant: the cache survives it. *)
ForgetClockOnly ==
    /\ recent' = FALSE
    /\ unsure' = FALSE
    /\ UNCHANGED sent

Forget ==
    /\ recent' = FALSE
    /\ unsure' = FALSE
    /\ sent' = Nothing

Opened ==
    /\ pc = "opening"
    /\ pc' = "passcode"
    /\ Open
    /\ UNCHANGED <<changes, attempt, deviceVars>>

(* The passcode may have an invalid length. *)
GotPasscode ==
    /\ pc = "passcode"
    /\ Take("passcode")
    /\ \/ /\ pc' = "login"
          /\ Send("login", None)
          /\ UNCHANGED <<changes, attempt, deviceVars>>
       \/ Fails /\ UNCHANGED requests
    /\ UNCHANGED <<link, torn, authenticated, sequence, pumpVars>>

GotLogin ==
    /\ pc = "login"
    /\ Take("login")
    /\ IF Head(replies).accepts
       THEN authenticated' = TRUE /\ Return /\ Forget
       ELSE UNCHANGED authenticated /\ Fails
    /\ UNCHANGED <<link, torn, sequence, requests, pumpVars>>

Closed ==
    /\ pc = "closing"
    /\ Return
    /\ Forget
    /\ UNCHANGED sessionVars

(* Whatever the frame says, no state of the adapter depends on it.          *)
GotState ==
    /\ pc = "getting"
    /\ Take("state")
    /\ Return
    /\ UNCHANGED <<link, torn, authenticated, sequence, requests, pumpVars>>
    /\ UNCHANGED deviceVars

Paused ==
    /\ pc = "pausing"
    /\ ~recent
    /\ IF Authenticated THEN SendControl(changes) ELSE Fails /\ UNCHANGED sessionVars

(* Mutant: any acknowledgement will do. *)
OwnAny(reply) == TRUE
Own(reply) == reply.sequence = sequence

(* The answer may have another number, or none. *)
Acked ==
    /\ pc = "acking"
    /\ Take("control")
    /\ \/ /\ Own(Head(replies))
          /\ pc' = "delaying"
          /\ attempt' = 1
          /\ recent' = TRUE
          /\ UNCHANGED <<changes, sent, unsure>>
       \/ Fails
    /\ UNCHANGED <<link, torn, authenticated, sequence, requests, pumpVars>>

Delayed ==
    /\ pc = "delaying"
    /\ IF Authenticated
       THEN /\ pc' = "verifying"
            /\ Send("read", None)
            /\ UNCHANGED <<link, torn, replies, authenticated, sequence, skipped, pumpVars>>
            /\ UNCHANGED <<changes, attempt, deviceVars>>
       ELSE Fails /\ UNCHANGED sessionVars

Shows(reply) == \A a \in DOMAIN changes : reply.values[a] = changes[a]

(* Mutant: it reads back until the values appear. *)
MayRetryAlways == attempt' = attempt
MayRetry == attempt < Attempts /\ attempt' = attempt + 1

(* The last attempt failed, or the state cannot be decoded: Fails.          *)
Verified ==
    /\ pc = "verifying"
    /\ Take("state")
    /\ \/ /\ Shows(Head(replies))
          /\ sent' = Override(sent, changes)
          /\ Return
          /\ UNCHANGED <<recent, unsure>>
       \/ /\ ~Shows(Head(replies))
          /\ MayRetry
          /\ pc' = "delaying"
          /\ UNCHANGED <<changes, deviceVars>>
       \/ Fails
    /\ UNCHANGED <<link, torn, authenticated, sequence, requests, pumpVars>>

(* An exchange passes over a frame, or fails. *)
Skipping ==
    /\ pc \in Exchanging
    /\ Skip(Awaited[pc])
    /\ UNCHANGED <<callVars, deviceVars>>

ExchangeFails ==
    /\ pc \in Exchanging
    /\ GiveUp(Awaited[pc])
    /\ Fails

(* A connection that cannot be opened, or a cancelled wait. *)
WaitFails ==
    /\ pc \in {"opening", "closing", "pausing", "delaying"}
    /\ Fails
    /\ UNCHANGED sessionVars

Elapse ==
    /\ recent
    /\ recent' = FALSE
    /\ UNCHANGED <<sessionVars, callVars, sent, unsure>>

-----------------------------------------------------------------------------
Calls == Connect \/ Disconnect \/ GetState \/ \E c \in Changes : Write(c)

Progress ==
    \/ Opened \/ GotPasscode \/ GotLogin \/ Closed \/ GotState
    \/ Paused \/ Acked \/ Delayed \/ Verified
    \/ Skipping \/ ExchangeFails \/ WaitFails

Next == Calls \/ Progress \/ Elapse \/ (Pump /\ UNCHANGED <<callVars, deviceVars>>)

Spec == Init /\ [][Next]_vars

(* Time-outs and sleeps end whatever a call waits for. *)
FairSpec == Spec /\ WF_vars(Progress) /\ WF_vars(Elapse)

-----------------------------------------------------------------------------
(* Properties *)

(* A read-back cannot be fooled by frames from before the command: once a   *)
(* control was acknowledged with its own number, the pump has taken it, and *)
(* every frame still under way was made after that, late answers and        *)
(* unsolicited reports included.                                            *)
ReadBackIsNew ==
    pc \in {"delaying", "verifying"} =>
      /\ handled = sequence
      /\ \A i \in 1 .. Len(replies) : replies[i].handled = sequence

(* Unless a write failed since the cache was cleared, it holds what the     *)
(* pump was told last: a redundant write may be left out.                   *)
CacheCurrent ==
    pc = "idle" /\ ~unsure =>
      \A a \in Attributes : sent[a] # None => told[a] = sent[a]

(* A session that counts as authenticated was admitted by the pump on the   *)
(* connection it has, whatever connections and logins went before.          *)
AdmittedByPump == Authenticated => admitted

(* Every call ends, whatever the pump does or fails to do. *)
CallsEnd == pc # "idle" ~> pc = "idle"

(* The claim that writes are verified (docstring of the class, lan.py:58):  *)
(* where a write returns without sending, the pump was last told its values.*)
(* False: a later write that failed after it was sent told it others.       *)
WriteInForce ==
    pc = "idle" =>
      \A c \in Changes : Redundant(c) => \A a \in DOMAIN c : told[a] = c[a]

=============================================================================
