--------------------------- MODULE GizwitsSession ---------------------------
(***************************************************************************)
(* GizwitsSession (src/jebao_flow/protocol/session.py): exchanges over one *)
(* TCP stream with a pump.  Frames arrive in the order they were sent, but *)
(* an answer may come after the client gave up on it, and the pump reports *)
(* on its own whenever it likes.  Only the answer to a control carries a   *)
(* sequence number.                                                        *)
(*                                                                         *)
(* The operators of the session are the steps of one exchange; LanDevice   *)
(* makes its calls of them.  The pump and the transport are external.  A   *)
(* pump takes what a connection brings before the connection is closed, so *)
(* that no frame of an earlier connection comes between those of a later   *)
(* one.  heartbeat() is left out: nothing in the program calls it.         *)
(***************************************************************************)
EXTENDS Integers, Sequences

CONSTANTS
    None,
    Attributes,       \* writable datapoints
    Values,
    Changes,          \* the dictionaries of changes that callers write
    MaxSkipped,       \* max_skipped_frames
    MaxFlight         \* bound on frames under way when a call begins

VARIABLES
    link,             \* the transport: up, ended by the pump, or lost or closed
    torn,             \* a time-out left half a frame in the stream
    authenticated,    \* _authenticated
    sequence,         \* _sequence
    skipped,          \* frames passed over in the exchange under way
    requests,         \* frames on their way to the pump, oldest first
    replies,          \* frames on their way back, oldest first
    pump,             \* the actual values of the pump
    told,             \* the last value each datapoint was given by a control
    handled,          \* sequence number of the last control the pump took
    admitted          \* the pump accepted a login on this connection

streamVars  == <<link, torn, requests, replies>>
pumpVars    == <<pump, told, handled, admitted>>
sessionVars == <<streamVars, authenticated, sequence, skipped, pumpVars>>

-----------------------------------------------------------------------------
ReplyKinds == {"passcode", "login", "state", "control", "other"}

Request ==
    [kind : {"control"}, sequence : Nat, changes : Changes]
      \cup [kind : {"passcode", "login", "read"}, sequence : {0}, changes : {None}]

(* accepts: a login answer with status 0.  values: what a state shows.      *)
(* handled: history, the last control the pump had taken when it made it.   *)
Reply ==
    [kind : ReplyKinds, accepts : BOOLEAN, sequence : Nat,
     values : [Attributes -> Values \cup {None}], handled : Nat]

ASSUME SessionAssumption ==
    /\ None \notin Values /\ None \notin Changes
    /\ Changes \subseteq UNION {[S -> Values] : S \in (SUBSET Attributes) \ {{}}}
    /\ MaxSkipped \in Nat /\ MaxFlight \in Nat

Nothing == [a \in Attributes |-> None]

Override(f, changes) ==
    [a \in Attributes |-> IF a \in DOMAIN changes THEN changes[a] ELSE f[a]]

SessionTypeOK ==
    /\ link \in {"up", "ended", "lost"}
    /\ torn \in BOOLEAN
    /\ authenticated \in BOOLEAN
    /\ sequence \in Nat
    /\ skipped \in 0 .. MaxSkipped
    /\ requests \in Seq(Request)
    /\ replies \in Seq(Reply)
    /\ pump \in [Attributes -> Values]
    /\ told \in [Attributes -> Values \cup {None}]
    /\ handled \in Nat
    /\ admitted \in BOOLEAN

SessionInit ==
    /\ link = "lost"
    /\ torn = FALSE
    /\ authenticated = FALSE
    /\ sequence = 0
    /\ skipped = 0
    /\ requests = <<>>
    /\ replies = <<>>
    /\ pump \in [Attributes -> Values]
    /\ told = Nothing
    /\ handled = 0
    /\ admitted = FALSE

-----------------------------------------------------------------------------
(* The session *)

Connected     == link # "lost"
Authenticated == Connected /\ authenticated

Frame(kind, changes) ==
    [kind |-> kind, changes |-> changes,
     sequence |-> IF kind = "control" THEN sequence + 1 ELSE 0]

(* _exchange writes its request. *)
Send(kind, changes) == requests' = Append(requests, Frame(kind, changes))

(* connect() over an unusable transport: a new stream, not authenticated.   *)
(* Mutant: a login of the last connection stays in force.                   *)
OpenStillAuthenticated ==
    /\ link' = "up"
    /\ torn' = FALSE
    /\ requests' = <<Frame("passcode", None)>>
    /\ replies' = <<>>
    /\ admitted' = FALSE
    /\ UNCHANGED <<authenticated, sequence, skipped, pump, told, handled>>

Open ==
    /\ link' = "up"
    /\ torn' = FALSE
    /\ authenticated' = FALSE
    /\ requests' = <<Frame("passcode", None)>>
    /\ replies' = <<>>
    /\ admitted' = FALSE
    /\ UNCHANGED <<sequence, skipped, pump, told, handled>>

(* disconnect() drops the stream with all that was under way. *)
Drop ==
    /\ link' = "lost"
    /\ torn' = FALSE
    /\ authenticated' = FALSE
    /\ requests' = <<>>
    /\ replies' = <<>>
    /\ admitted' = FALSE
    /\ UNCHANGED <<sequence, skipped, pump, told, handled>>

Readable == Connected /\ ~torn /\ replies # <<>>

(* The exchange reads the frame it waits for. *)
Take(kind) ==
    /\ Readable
    /\ Head(replies).kind = kind
    /\ replies' = Tail(replies)
    /\ skipped' = 0

(* It passes over a frame of another kind. *)
Skip(kind) ==
    /\ Readable
    /\ Head(replies).kind # kind
    /\ skipped < MaxSkipped
    /\ skipped' = skipped + 1
    /\ replies' = Tail(replies)
    /\ UNCHANGED <<link, torn, authenticated, sequence, requests, pumpVars>>

(* It gives up: after a time-out or a cancellation, which may come in the   *)
(* middle of a frame; after too many other frames; because the stream is    *)
(* exhausted; or because what it reads is no frame, after which it may find *)
(* the beginning of a later one.                                            *)
GiveUp(kind) ==
    /\ \/ UNCHANGED <<torn, replies>>
       \/ Readable /\ torn' = TRUE /\ UNCHANGED replies
       \/ /\ Readable /\ Head(replies).kind # kind /\ skipped = MaxSkipped
          /\ replies' = Tail(replies)
          /\ UNCHANGED torn
       \/ /\ Connected /\ torn
          /\ torn' = FALSE
          /\ \E n \in 1 .. Len(replies) :
                replies' = SubSeq(replies, n + 1, Len(replies))
    /\ skipped' = 0
    /\ UNCHANGED <<link, authenticated, sequence, requests, pumpVars>>

-----------------------------------------------------------------------------
(* The pump and the transport *)

Answer(kind, accepts) ==
    [kind |-> kind, accepts |-> accepts, handled |-> handled',
     values |-> IF kind = "state" THEN pump' ELSE Nothing,
     sequence |-> IF kind = "control" THEN handled' ELSE 0]

Tell(reply) == replies' = Append(replies, reply)

(* The pump answers the oldest request. *)
HandlePasscode ==
    /\ Head(requests).kind = "passcode"
    /\ UNCHANGED pumpVars
    /\ Tell(Answer("passcode", FALSE))

HandleLogin ==
    /\ Head(requests).kind = "login"
    /\ UNCHANGED <<pump, told, handled>>
    /\ \E accepts \in BOOLEAN :
          /\ admitted' = (admitted \/ accepts)
          /\ Tell(Answer("login", accepts))

HandleRead ==
    /\ Head(requests).kind = "read"
    /\ UNCHANGED pumpVars
    /\ Tell(Answer("state", FALSE))

(* A control is acknowledged whether or not the pump does what it says.     *)
HandleControl ==
    /\ Head(requests).kind = "control"
    /\ handled' = Head(requests).sequence
    /\ told' = Override(told, Head(requests).changes)
    /\ pump' \in {pump, Override(pump, Head(requests).changes)}
    /\ UNCHANGED admitted
    /\ Tell(Answer("control", FALSE))

Handle ==
    /\ link = "up"
    /\ requests # <<>>
    /\ requests' = Tail(requests)
    /\ \/ HandlePasscode
       \/ HandleLogin
       \/ HandleRead
       \/ HandleControl
       \/ UNCHANGED <<replies, pumpVars>>       \* it ignores the request
    /\ UNCHANGED <<link, torn, authenticated, sequence, skipped>>

(* A report that nobody asked for, which looks like an answer to a read, or *)
(* a frame of a kind that no exchange waits for.                            *)
Report ==
    /\ link = "up"
    /\ Len(replies) < MaxFlight
    /\ UNCHANGED <<link, torn, authenticated, sequence, skipped, requests, pumpVars>>
    /\ \E kind \in {"state", "other"} : Tell(Answer(kind, FALSE))

(* The vendor's application or the pump's own timer. *)
ChangedByOthers ==
    /\ pump' \in [Attributes -> Values]
    /\ UNCHANGED <<streamVars, authenticated, sequence, skipped, told, handled, admitted>>

(* The pump ends the stream, or the transport fails. *)
Break ==
    /\ \/ link = "up" /\ link' = "ended" /\ UNCHANGED <<torn, replies, admitted>>
       \/ /\ Connected /\ link' = "lost" /\ torn' = FALSE
          /\ replies' = <<>> /\ admitted' = FALSE
    /\ requests' = <<>>
    /\ UNCHANGED <<authenticated, sequence, skipped, pump, told, handled>>

Pump == Handle \/ Report \/ ChangedByOthers \/ Break

=============================================================================
