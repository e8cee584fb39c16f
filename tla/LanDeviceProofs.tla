-------------------------- MODULE LanDeviceProofs --------------------------
(***************************************************************************)
(* Proofs about LanDevice, for any number of attributes, values, frames    *)
(* under way and commands: its type, the read-back, the cache of sent      *)
(* values and the login.  The last part is about Codec, the frames that    *)
(* carry what the session says.                                            *)
(***************************************************************************)
EXTENDS LanDevice, Codec, SequenceTheorems, TLAPS

-----------------------------------------------------------------------------
(* Queues *)

LEMMA Appended ==
    ASSUME NEW S, NEW q \in Seq(S), NEW e \in S
    PROVE  /\ Append(q, e) \in Seq(S)
           /\ Len(Append(q, e)) = Len(q) + 1
           /\ Len(q) \in Nat
           /\ \A i \in 1 .. Len(q) : Append(q, e)[i] = q[i]
           /\ Append(q, e)[Len(q) + 1] = e
BY AppendProperties, LenProperties

LEMMA Tailed ==
    ASSUME NEW S, NEW q \in Seq(S), q # <<>>
    PROVE  /\ Head(q) \in S
           /\ Head(q) = q[1]
           /\ Tail(q) \in Seq(S)
           /\ Len(q) \in Nat \ {0}
           /\ Len(Tail(q)) = Len(q) - 1
           /\ \A i \in 1 .. Len(Tail(q)) : Tail(q)[i] = q[i + 1]
<1>1. Len(q) \in Nat /\ Len(q) # 0
  BY EmptySeq, LenProperties
<1>2. Head(q) \in S /\ Tail(q) \in Seq(S)
  BY HeadTailProperties
<1>3. Len(Tail(q)) = Len(q) - 1 /\ \A i \in 1 .. Len(Tail(q)) : Tail(q)[i] = q[i + 1]
  BY HeadTailProperties
<1>4. Head(q) = q[1]
  OBVIOUS
<1> QED  BY <1>1, <1>2, <1>3, <1>4

LEMMA Suffixed ==
    ASSUME NEW S, NEW q \in Seq(S), NEW n \in 1 .. Len(q)
    PROVE  /\ SubSeq(q, n + 1, Len(q)) \in Seq(S)
           /\ Len(SubSeq(q, n + 1, Len(q))) = Len(q) - n
           /\ Len(q) \in Nat
           /\ \A i \in 1 .. Len(q) - n : SubSeq(q, n + 1, Len(q))[i] = q[i + n]
<1>1. Len(q) \in Nat /\ n \in Nat
  BY LenProperties
<1>2. \A i \in n + 1 .. Len(q) : q[i] \in S
  BY <1>1, ElementOfSeq
<1>3. SubSeq(q, n + 1, Len(q)) \in Seq(S)
  BY <1>1, <1>2, SubSeqProperties
<1>4. Len(SubSeq(q, n + 1, Len(q))) = Len(q) - n
  BY <1>1, <1>2, SubSeqProperties
<1>5. \A i \in 1 .. Len(q) - n : SubSeq(q, n + 1, Len(q))[i] = q[i + n]
  BY <1>1, <1>2, <1>4, SubSeqProperties
<1> QED  BY <1>1, <1>3, <1>4, <1>5

LEMMA EmptyQueue == ASSUME NEW S PROVE <<>> \in Seq(S) /\ Len(<<>>) = 0
BY EmptySeq

-----------------------------------------------------------------------------
(* Types *)

LEMMA ChangeType ==
    ASSUME NEW c \in Changes
    PROVE  DOMAIN c \subseteq Attributes /\ c \in [DOMAIN c -> Values] /\ c # None
BY SessionAssumption

LEMMA OverrideType ==
    ASSUME NEW c \in Changes, NEW V, NEW f \in [Attributes -> V], Values \subseteq V
    PROVE  Override(f, c) \in [Attributes -> V]
BY ChangeType DEF Override

LEMMA FrameType ==
    ASSUME sequence \in Nat
    PROVE  /\ \A c \in Changes : Frame("control", c) \in Request
           /\ \A kind \in {"passcode", "login", "read"} : Frame(kind, None) \in Request
BY DEF Frame, Request

LEMMA AnswerType ==
    ASSUME NEW kind \in ReplyKinds, NEW accepts \in BOOLEAN,
           handled' \in Nat, pump' \in [Attributes -> Values]
    PROVE  Answer(kind, accepts) \in Reply
<1>1. Nothing \in [Attributes -> Values \cup {None}]
  BY DEF Nothing
<1>2. pump' \in [Attributes -> Values \cup {None}]
  OBVIOUS
<1> QED  BY <1>1, <1>2 DEF Answer, Reply, ReplyKinds

LEMMA SentType ==
    ASSUME SessionTypeOK,
           \/ \E c \in Changes : Send("control", c)
           \/ \E kind \in {"passcode", "login", "read"} : Send(kind, None)
    PROVE  requests' \in Seq(Request)
<1>1. PICK frame \in Request : requests' = Append(requests, frame)
  BY FrameType DEF SessionTypeOK, Send
<1> QED  BY <1>1, Appended DEF SessionTypeOK

LEMMA TakenType ==
    ASSUME SessionTypeOK, NEW kind \in ReplyKinds, Take(kind)
    PROVE  /\ replies' \in Seq(Reply)
           /\ skipped' \in 0 .. MaxSkipped
           /\ Head(replies) \in Reply
BY Tailed, SessionAssumption DEF SessionTypeOK, Take, Readable

LEMMA GiveUpType ==
    ASSUME SessionTypeOK, NEW kind, GiveUp(kind)
    PROVE  SessionTypeOK'
<1>1. replies' \in Seq(Reply)
  <2>1. CASE UNCHANGED replies
    BY <2>1 DEF SessionTypeOK
  <2>2. CASE replies # <<>> /\ replies' = Tail(replies)
    BY <2>2, Tailed DEF SessionTypeOK
  <2>3. CASE \E n \in 1 .. Len(replies) : replies' = SubSeq(replies, n + 1, Len(replies))
    BY <2>3, Suffixed DEF SessionTypeOK
  <2> QED  BY <2>1, <2>2, <2>3 DEF GiveUp, Readable
<1>2. torn' \in BOOLEAN
  <2>1. torn' = torn \/ torn' = TRUE \/ torn' = FALSE
    BY DEF GiveUp
  <2> QED  BY <2>1 DEF SessionTypeOK
<1>4. skipped' \in 0 .. MaxSkipped
  BY SessionAssumption DEF GiveUp
<1>3. UNCHANGED <<link, authenticated, sequence, requests, pumpVars>>
  BY DEF GiveUp
<1> QED  BY <1>1, <1>2, <1>3, <1>4 DEF SessionTypeOK, pumpVars

LEMMA SkipType ==
    ASSUME SessionTypeOK, NEW kind, Skip(kind)
    PROVE  SessionTypeOK'
BY Tailed, SessionAssumption DEF SessionTypeOK, Skip, Readable, pumpVars

LEMMA OpenType ==
    ASSUME SessionTypeOK, Open \/ Drop
    PROVE  SessionTypeOK'
<1>1. Frame("passcode", None) \in Request
  BY FrameType DEF SessionTypeOK
<1>2. <<Frame("passcode", None)>> \in Seq(Request)
  BY <1>1
<1>3. requests' \in Seq(Request) /\ replies' \in Seq(Reply)
  BY <1>2, EmptyQueue DEF Open, Drop
<1>4. UNCHANGED <<sequence, skipped, pump, told, handled>>
  BY DEF Open, Drop
<1>5. link' \in {"up", "lost"} /\ torn' = FALSE /\ authenticated' = FALSE /\ admitted' = FALSE
  BY DEF Open, Drop
<1> QED  BY <1>3, <1>4, <1>5 DEF SessionTypeOK

LEMMA HandleType ==
    ASSUME SessionTypeOK, Handle
    PROVE  SessionTypeOK'
<1>1. /\ requests \in Seq(Request) /\ requests # <<>> /\ requests' = Tail(requests)
      /\ UNCHANGED <<link, torn, authenticated, sequence, skipped>>
  BY DEF SessionTypeOK, Handle
<1>2. requests' \in Seq(Request) /\ Head(requests) \in Request
  BY <1>1, Tailed
<1>3. /\ handled' \in Nat /\ admitted' \in BOOLEAN
      /\ told' \in [Attributes -> Values \cup {None}] /\ pump' \in [Attributes -> Values]
      /\ replies' \in Seq(Reply)
  <2>1. CASE HandlePasscode \/ HandleRead
    <3>1. UNCHANGED pumpVars /\ \E kind \in {"passcode", "state"} : Tell(Answer(kind, FALSE))
      BY <2>1 DEF HandlePasscode, HandleRead
    <3>2. handled' \in Nat /\ pump' \in [Attributes -> Values]
      BY <3>1 DEF SessionTypeOK, pumpVars
    <3>3. \A kind \in {"passcode", "state"} : Answer(kind, FALSE) \in Reply
      BY <3>2, AnswerType DEF ReplyKinds
    <3>4. PICK reply \in Reply : replies' = Append(replies, reply)
      BY <3>1, <3>3 DEF Tell
    <3>5. replies \in Seq(Reply)
      BY DEF SessionTypeOK
    <3>6. replies' \in Seq(Reply)
      BY <3>4, <3>5, Appended
    <3> QED  BY <3>1, <3>6 DEF SessionTypeOK, pumpVars
  <2>2. CASE HandleLogin
    <3>1. handled' \in Nat /\ pump' \in [Attributes -> Values]
      BY <2>2 DEF SessionTypeOK, HandleLogin
    <3>2. \A accepts \in BOOLEAN : Answer("login", accepts) \in Reply
      BY <3>1, AnswerType DEF ReplyKinds
    <3> QED  BY <2>2, <3>2, Appended DEF SessionTypeOK, HandleLogin, Tell
  <2>3. CASE HandleControl
    <3> DEFINE r == Head(requests)
    <3>1. r.changes \in Changes /\ r.sequence \in Nat
      BY <1>2, <2>3 DEF Request, HandleControl
    <3>2. handled' \in Nat /\ admitted' \in BOOLEAN
      BY <2>3, <3>1 DEF HandleControl, SessionTypeOK
    <3>3. told' \in [Attributes -> Values \cup {None}] /\ pump' \in [Attributes -> Values]
      <4>1. Override(told, r.changes) \in [Attributes -> Values \cup {None}]
        BY <3>1, OverrideType DEF SessionTypeOK
      <4>2. Override(pump, r.changes) \in [Attributes -> Values]
        BY <3>1, OverrideType DEF SessionTypeOK
      <4> QED  BY <2>3, <4>1, <4>2 DEF HandleControl, SessionTypeOK
    <3>4. Answer("control", FALSE) \in Reply
      BY <3>2, <3>3, AnswerType DEF ReplyKinds
    <3> QED  BY <2>3, <3>2, <3>3, <3>4, Appended DEF HandleControl, Tell, SessionTypeOK
  <2>4. CASE UNCHANGED <<replies, pumpVars>>
    BY <2>4 DEF SessionTypeOK, pumpVars
  <2> QED  BY <2>1, <2>2, <2>3, <2>4 DEF Handle
<1> QED  BY <1>1, <1>2, <1>3 DEF SessionTypeOK

LEMMA PumpType ==
    ASSUME SessionTypeOK, Pump
    PROVE  SessionTypeOK'
<1>1. CASE Handle
  BY <1>1, HandleType
<1>2. CASE Report
  <2>1. UNCHANGED <<link, torn, authenticated, sequence, skipped, requests, pumpVars>>
    BY <1>2 DEF Report
  <2>2. handled' \in Nat /\ pump' \in [Attributes -> Values]
    BY <2>1 DEF SessionTypeOK, pumpVars
  <2>3. \A kind \in {"state", "other"} : Answer(kind, FALSE) \in Reply
    BY <2>2, AnswerType DEF ReplyKinds
  <2>4. PICK reply \in Reply : replies' = Append(replies, reply)
    BY <1>2, <2>3 DEF Report, Tell
  <2>5. replies \in Seq(Reply)
    BY DEF SessionTypeOK
  <2>6. replies' \in Seq(Reply)
    BY <2>4, <2>5, Appended
  <2> QED  BY <2>1, <2>6 DEF SessionTypeOK, pumpVars
<1>3. CASE ChangedByOthers
  <2>1. UNCHANGED <<streamVars, authenticated, sequence, skipped, told, handled, admitted>>
    BY <1>3 DEF ChangedByOthers
  <2>2. pump' \in [Attributes -> Values]
    BY <1>3 DEF ChangedByOthers
  <2> QED  BY <2>1, <2>2 DEF SessionTypeOK, streamVars
<1>4. CASE Break
  <2>1. UNCHANGED <<authenticated, sequence, skipped, pump, told, handled>>
    BY <1>4 DEF Break
  <2>2. requests' \in Seq(Request) /\ replies' \in Seq(Reply)
    BY <1>4, EmptyQueue DEF Break, SessionTypeOK
  <2>3. /\ link' \in {"ended", "lost"}
        /\ torn' = torn \/ torn' = FALSE
        /\ admitted' = admitted \/ admitted' = FALSE
    BY <1>4 DEF Break
  <2> QED  BY <2>1, <2>2, <2>3 DEF SessionTypeOK
<1> QED  BY <1>1, <1>2, <1>3, <1>4 DEF Pump

(* The variables of the calls and of the adapter. *)
DeviceTypeOK ==
    /\ pc \in Points
    /\ changes \in Changes \cup {None}
    /\ pc \in Writing \cup {"pausing"} => changes # None
    /\ attempt \in 0 .. Attempts
    /\ sent \in [Attributes -> Values \cup {None}]
    /\ recent \in BOOLEAN
    /\ unsure \in BOOLEAN

LEMMA FailsType == ASSUME DeviceTypeOK, Fails PROVE DeviceTypeOK'
BY DeviceAssumption DEF DeviceTypeOK, Fails, Return, Points, Writing

LEMMA NothingType == Nothing \in [Attributes -> Values \cup {None}]
BY DEF Nothing

LEMMA ForgottenType == ASSUME Return, Forget PROVE DeviceTypeOK'
<1>1. attempt' \in 0 .. Attempts
  BY DeviceAssumption DEF Return
<1>2. sent' \in [Attributes -> Values \cup {None}]
  BY NothingType DEF Forget
<1> QED  BY <1>1, <1>2 DEF DeviceTypeOK, Return, Forget, Points, Writing

LEMMA CallType ==
    ASSUME TypeOK, Calls
    PROVE  TypeOK'
<1> USE DEF Points, Exchanging, Writing
<1>0. SessionTypeOK /\ DeviceTypeOK
  BY DEF TypeOK, DeviceTypeOK
<1>1. CASE Connect
  <2>1. DeviceTypeOK'
    BY <1>0, <1>1 DEF DeviceTypeOK, Connect, deviceVars
  <2>2. SessionTypeOK'
    <3>1. CASE UNCHANGED sessionVars
      BY <1>0, <3>1 DEF SessionTypeOK, sessionVars, streamVars, pumpVars
    <3>2. CASE /\ Send("passcode", None)
               /\ UNCHANGED <<link, torn, replies, authenticated, sequence, skipped, pumpVars>>
      BY <1>0, <3>2, SentType DEF SessionTypeOK, pumpVars
    <3> QED  BY <1>1, <3>1, <3>2 DEF Connect
  <2> QED  BY <2>1, <2>2 DEF TypeOK, DeviceTypeOK
<1>2. CASE Disconnect
  <2>1. DeviceTypeOK'
    BY <1>0, <1>2 DEF DeviceTypeOK, Disconnect, deviceVars
  <2>2. SessionTypeOK'
    BY <1>0, <1>2, OpenType DEF Disconnect
  <2> QED  BY <2>1, <2>2 DEF TypeOK, DeviceTypeOK
<1>3. CASE GetState
  <2>1. DeviceTypeOK'
    BY <1>0, <1>3 DEF DeviceTypeOK, GetState, deviceVars
  <2>2. SessionTypeOK'
    BY <1>0, <1>3, SentType DEF GetState, SessionTypeOK, pumpVars
  <2> QED  BY <2>1, <2>2 DEF TypeOK, DeviceTypeOK
<1>4. ASSUME NEW c \in Changes, Write(c) PROVE TypeOK'
  <2>1. DeviceTypeOK'
    BY <1>0, <1>4, ChangeType DEF DeviceTypeOK, Write, SendControl, deviceVars
  <2>2. SessionTypeOK'
    <3>1. CASE UNCHANGED sessionVars
      BY <1>0, <3>1 DEF SessionTypeOK, sessionVars, streamVars, pumpVars
    <3>2. CASE SendControl(c)
      <4>1. requests' \in Seq(Request)
        BY <1>0, <3>2, SentType DEF SendControl
      <4> QED  BY <1>0, <3>2, <4>1 DEF SendControl, SessionTypeOK, pumpVars
    <3> QED  BY <1>4, <3>1, <3>2 DEF Write
  <2> QED  BY <2>1, <2>2 DEF TypeOK, DeviceTypeOK
<1> QED  BY <1>1, <1>2, <1>3, <1>4 DEF Calls

LEMMA ProgressType ==
    ASSUME TypeOK, Progress
    PROVE  TypeOK'
<1> USE DEF Points, Exchanging, Writing
<1>0. SessionTypeOK /\ DeviceTypeOK
  BY DEF TypeOK, DeviceTypeOK
<1>a. SUFFICES SessionTypeOK' /\ DeviceTypeOK'
  BY DEF TypeOK, DeviceTypeOK
<1>b. UNCHANGED sessionVars => SessionTypeOK'
  BY <1>0 DEF SessionTypeOK, sessionVars, streamVars, pumpVars
<1>1. CASE Opened
  BY <1>0, <1>1, OpenType DEF Opened, DeviceTypeOK, deviceVars
<1>2. CASE GotPasscode
  <2>1. DeviceTypeOK'
    BY <1>0, <1>2, FailsType DEF GotPasscode, DeviceTypeOK, deviceVars
  <2>2. requests' \in Seq(Request)
    BY <1>0, <1>2, SentType DEF GotPasscode, SessionTypeOK
  <2> QED  BY <1>0, <1>2, <2>1, <2>2, TakenType
           DEF GotPasscode, SessionTypeOK, pumpVars, ReplyKinds
<1>3. CASE GotLogin
  <2>1. DeviceTypeOK'
    <3>1. CASE Fails
      BY <1>0, <3>1, FailsType
    <3>2. CASE Return /\ Forget
      BY <3>2, ForgottenType
    <3> QED  BY <1>3, <3>1, <3>2 DEF GotLogin
  <2>2. authenticated' \in BOOLEAN
    BY <1>0, <1>3 DEF GotLogin, SessionTypeOK
  <2> QED  BY <1>0, <1>3, <2>1, <2>2, TakenType
           DEF GotLogin, SessionTypeOK, pumpVars, ReplyKinds
<1>4. CASE Closed
  BY <1>4, <1>b, ForgottenType DEF Closed
<1>5. CASE GotState
  <2>1. DeviceTypeOK'
    BY <1>0, <1>5, DeviceAssumption DEF GotState, Return, DeviceTypeOK, deviceVars
  <2> QED  BY <1>0, <1>5, <2>1, TakenType
           DEF GotState, SessionTypeOK, pumpVars, ReplyKinds
<1>6. CASE Paused
  <2>1. CASE Fails /\ UNCHANGED sessionVars
    BY <1>0, <2>1, <1>b, FailsType
  <2>2. CASE SendControl(changes)
    <3>1. changes \in Changes
      BY <1>0, <1>6 DEF Paused, DeviceTypeOK
    <3>2. requests' \in Seq(Request)
      BY <1>0, <2>2, <3>1, SentType DEF SendControl
    <3>3. DeviceTypeOK'
      BY <1>0, <2>2, <3>1, ChangeType DEF SendControl, DeviceTypeOK, deviceVars
    <3> QED  BY <1>0, <2>2, <3>2, <3>3 DEF SendControl, SessionTypeOK, pumpVars
  <2> QED  BY <1>6, <2>1, <2>2 DEF Paused
<1>7. CASE Acked
  <2>1. DeviceTypeOK'
    <3>1. CASE Fails
      BY <1>0, <3>1, FailsType
    <3>2. CASE /\ pc' = "delaying" /\ attempt' = 1 /\ recent' = TRUE
               /\ UNCHANGED <<changes, sent, unsure>>
      <4>1. attempt' \in 0 .. Attempts
        BY <3>2, DeviceAssumption
      <4>2. changes' \in Changes
        BY <1>0, <1>7, <3>2 DEF Acked, DeviceTypeOK
      <4> QED  BY <1>0, <3>2, <4>1, <4>2, SessionAssumption DEF DeviceTypeOK
    <3> QED  BY <1>7, <3>1, <3>2 DEF Acked
  <2> QED  BY <1>0, <1>7, <2>1, TakenType
           DEF Acked, SessionTypeOK, pumpVars, ReplyKinds
<1>8. CASE Delayed
  <2>1. CASE Fails /\ UNCHANGED sessionVars
    BY <1>0, <2>1, <1>b, FailsType
  <2>2. CASE Send("read", None)
    <3>1. requests' \in Seq(Request)
      BY <1>0, <2>2, SentType
    <3> QED  BY <1>0, <1>8, <1>b, <3>1, FailsType
             DEF Delayed, DeviceTypeOK, deviceVars, SessionTypeOK, pumpVars
  <2> QED  BY <1>8, <2>1, <2>2 DEF Delayed
<1>9. CASE Verified
  <2>1. changes \in Changes
    BY <1>0, <1>9 DEF Verified, DeviceTypeOK
  <2>2. Override(sent, changes) \in [Attributes -> Values \cup {None}]
    BY <1>0, <2>1, OverrideType DEF DeviceTypeOK
  <2>3. CASE /\ sent' = Override(sent, changes)
             /\ Return
             /\ UNCHANGED <<recent, unsure>>
    <3>1. DeviceTypeOK'
      BY <1>0, <2>2, <2>3, DeviceAssumption DEF Return, DeviceTypeOK
    <3> QED  BY <1>0, <1>9, <3>1, TakenType
             DEF Verified, SessionTypeOK, pumpVars, ReplyKinds
  <2>4. CASE MayRetry /\ pc' = "delaying" /\ UNCHANGED <<changes, deviceVars>>
    <3>1. attempt' \in 0 .. Attempts
      BY <1>0, <2>4, DeviceAssumption DEF MayRetry, DeviceTypeOK
    <3>2. DeviceTypeOK'
      BY <1>0, <1>9, <2>4, <3>1 DEF Verified, DeviceTypeOK, deviceVars
    <3> QED  BY <1>0, <1>9, <3>2, TakenType
             DEF Verified, SessionTypeOK, pumpVars, ReplyKinds
  <2>5. CASE Fails
    <3>1. DeviceTypeOK'
      BY <1>0, <2>5, FailsType
    <3> QED  BY <1>0, <1>9, <3>1, TakenType
             DEF Verified, SessionTypeOK, pumpVars, ReplyKinds
  <2> QED  BY <1>9, <2>3, <2>4, <2>5 DEF Verified
<1>10. CASE Skipping
  BY <1>0, <1>10, SkipType DEF Skipping, DeviceTypeOK, callVars, deviceVars
<1>11. CASE ExchangeFails
  BY <1>0, <1>11, GiveUpType, FailsType DEF ExchangeFails
<1>12. CASE WaitFails
  BY <1>0, <1>12, <1>b, FailsType DEF WaitFails
<1> QED
  BY <1>1, <1>2, <1>3, <1>4, <1>5, <1>6, <1>7, <1>8, <1>9, <1>10, <1>11, <1>12 DEF Progress

LEMMA TypeInit == Init => TypeOK
<1> SUFFICES ASSUME Init PROVE TypeOK
  OBVIOUS
<1>1. requests \in Seq(Request) /\ replies \in Seq(Reply)
  BY EmptyQueue DEF Init, SessionInit
<1>2. told \in [Attributes -> Values \cup {None}] /\ sent \in [Attributes -> Values \cup {None}]
  BY NothingType DEF Init, SessionInit
<1>3. skipped \in 0 .. MaxSkipped /\ attempt \in 0 .. Attempts /\ sequence \in Nat /\ handled \in Nat
  BY SessionAssumption, DeviceAssumption DEF Init, SessionInit
<1>4. /\ link = "lost" /\ torn = FALSE /\ authenticated = FALSE /\ admitted = FALSE
      /\ pump \in [Attributes -> Values]
  BY DEF Init, SessionInit
<1>5. pc = "idle" /\ changes = None /\ recent = FALSE /\ unsure = FALSE
  BY DEF Init
<1> QED  BY <1>1, <1>2, <1>3, <1>4, <1>5 DEF TypeOK, SessionTypeOK, Points, Writing

LEMMA TypeNext == TypeOK /\ [Next]_vars => TypeOK'
<1> SUFFICES ASSUME TypeOK, [Next]_vars PROVE TypeOK'
  OBVIOUS
<1>1. CASE Calls
  BY <1>1, CallType
<1>2. CASE Progress
  BY <1>2, ProgressType
<1>3. CASE Elapse
  BY <1>3 DEF Elapse, TypeOK, SessionTypeOK, sessionVars, streamVars, pumpVars, callVars
<1>4. CASE Pump /\ UNCHANGED <<callVars, deviceVars>>
  BY <1>4, PumpType DEF TypeOK, callVars, deviceVars
<1>5. CASE UNCHANGED vars
  BY <1>5 DEF vars, TypeOK, SessionTypeOK, sessionVars, streamVars, pumpVars, callVars, deviceVars
<1> QED  BY <1>1, <1>2, <1>3, <1>4, <1>5 DEF Next

(* The variables of LanDevice keep their types; in particular an exchange   *)
(* passes over no more than max_skipped_frames and a write reads back no    *)
(* more than readback_attempts times.                                       *)
THEOREM LanType == Spec => []TypeOK
BY TypeInit, TypeNext, PTL DEF Spec

-----------------------------------------------------------------------------
(* The invariants *)

(* Controls reach the pump in the order of their numbers, and what it sends *)
(* comes back in the order in which it was made.                            *)
ControlsOrdered ==
    /\ handled <= sequence
    /\ \A i \in 1 .. Len(requests) :
          requests[i].kind = "control" =>
            handled < requests[i].sequence /\ requests[i].sequence <= sequence
    /\ \A i, j \in 1 .. Len(requests) :
          i < j /\ requests[i].kind = "control" /\ requests[j].kind = "control"
            => requests[i].sequence < requests[j].sequence

RepliesOrdered ==
    /\ \A i \in 1 .. Len(replies) :
          /\ replies[i].handled <= handled
          /\ replies[i].kind = "control" => replies[i].sequence = replies[i].handled
    /\ \A i, j \in 1 .. Len(replies) : i < j => replies[i].handled <= replies[j].handled

(* Only a pump that admitted a login has accepted one. *)
LoginTold == \A i \in 1 .. Len(replies) : replies[i].accepts => admitted

(* The control of the write under way, where it is still on its way, says   *)
(* what the write changes; once the pump took it, it was told so.           *)
OwnControl(r) == r.kind = "control" /\ r.sequence = sequence

WriteTold ==
    /\ pc = "acking" =>
         /\ \A i \in 1 .. Len(requests) :
               OwnControl(requests[i]) => requests[i].changes = changes
         /\ handled = sequence => \A a \in DOMAIN changes : told[a] = changes[a]
    /\ pc \in {"delaying", "verifying"} => \A a \in DOMAIN changes : told[a] = changes[a]

(* While the cache is sure, it differs from what the pump was told only in  *)
(* what the write under way changes, and no other control is on its way.    *)
SureCache ==
    ~unsure =>
      /\ \A a \in Attributes :
            sent[a] # None => \/ told[a] = sent[a]
                              \/ pc \in Writing /\ a \in DOMAIN changes
      /\ sent # Nothing =>
           \A i \in 1 .. Len(requests) :
              requests[i].kind = "control" =>
                pc \in Writing /\ requests[i].changes = changes

-----------------------------------------------------------------------------
(* What a step does to the frames under way *)

NoNewControl ==
    \E n \in Nat : \A i \in 1 .. Len(requests') :
       requests'[i].kind = "control" =>
         i + n \in 1 .. Len(requests) /\ requests'[i] = requests[i + n]

OnlyOlder ==
    \E n \in Nat : \A i \in 1 .. Len(replies') :
       i + n \in 1 .. Len(replies) /\ replies'[i] = replies[i + n]

NewReply ==
    \E e \in Reply :
       /\ replies' = Append(replies, e)
       /\ e.handled = handled'
       /\ e.kind = "control" => e.sequence = handled'
       /\ e.accepts => admitted'

(* The session passes over, drops or loses frames, or sends one that        *)
(* controls nothing; the pump answers or reports; a control is sent; the    *)
(* pump takes one.                                                          *)
Quiet ==
    /\ NoNewControl /\ OnlyOlder
    /\ UNCHANGED <<sequence, told, handled>>
    /\ admitted' = admitted \/ replies' = <<>>

Tells ==
    /\ NoNewControl
    /\ NewReply
    /\ UNCHANGED <<sequence, told, handled>>
    /\ admitted => admitted'

Sends(c) ==
    /\ requests' = Append(requests, Frame("control", c))
    /\ sequence' = sequence + 1
    /\ UNCHANGED <<replies, told, handled, admitted>>

Takes ==
    /\ requests # <<>>
    /\ Head(requests).kind = "control"
    /\ requests' = Tail(requests)
    /\ handled' = Head(requests).sequence
    /\ told' = Override(told, Head(requests).changes)
    /\ NewReply
    /\ UNCHANGED <<sequence, admitted>>

LEMMA RequestsKept ==
    ASSUME TypeOK,
           \/ UNCHANGED requests
           \/ requests' = <<>>
           \/ requests # <<>> /\ requests' = Tail(requests)
           \/ requests' = <<Frame("passcode", None)>>
           \/ \E kind \in {"passcode", "login", "read"} : Send(kind, None)
    PROVE  NoNewControl
<1>0. requests \in Seq(Request) /\ Len(requests) \in Nat
  BY LenProperties DEF TypeOK, SessionTypeOK
<1>1. CASE UNCHANGED requests
  <2>1. \A i \in 1 .. Len(requests') : i + 0 \in 1 .. Len(requests) /\ requests'[i] = requests[i + 0]
    BY <1>0, <1>1
  <2> QED  BY <2>1 DEF NoNewControl
<1>2. CASE requests' = <<>>
  <2>1. Len(requests') = 0
    BY <1>2, EmptyQueue
  <2> QED  BY <2>1 DEF NoNewControl
<1>3. CASE requests # <<>> /\ requests' = Tail(requests)
  <2>1. \A i \in 1 .. Len(requests') : i + 1 \in 1 .. Len(requests) /\ requests'[i] = requests[i + 1]
    BY <1>0, <1>3, Tailed
  <2> QED  BY <2>1 DEF NoNewControl
<1>4. CASE requests' = <<Frame("passcode", None)>>
  <2>1. \A i \in 1 .. Len(requests') : requests'[i].kind # "control"
    BY <1>4 DEF Frame
  <2> QED  BY <2>1 DEF NoNewControl
<1>5. ASSUME NEW kind \in {"passcode", "login", "read"}, Send(kind, None)
      PROVE  NoNewControl
  <2>1. Frame(kind, None) \in Request /\ Frame(kind, None).kind # "control"
    BY FrameType DEF Frame, TypeOK, SessionTypeOK
  <2>2. \A i \in 1 .. Len(requests') :
           requests'[i].kind = "control" =>
             i + 0 \in 1 .. Len(requests) /\ requests'[i] = requests[i + 0]
    BY <1>0, <1>5, <2>1, Appended DEF Send
  <2> QED  BY <2>2 DEF NoNewControl
<1> QED  BY <1>1, <1>2, <1>3, <1>4, <1>5

LEMMA RepliesKept ==
    ASSUME TypeOK,
           \/ UNCHANGED replies
           \/ replies' = <<>>
           \/ replies # <<>> /\ replies' = Tail(replies)
           \/ \E n \in 1 .. Len(replies) : replies' = SubSeq(replies, n + 1, Len(replies))
    PROVE  OnlyOlder
<1>0. replies \in Seq(Reply) /\ Len(replies) \in Nat
  BY LenProperties DEF TypeOK, SessionTypeOK
<1>1. CASE UNCHANGED replies
  <2>1. \A i \in 1 .. Len(replies') : i + 0 \in 1 .. Len(replies) /\ replies'[i] = replies[i + 0]
    BY <1>0, <1>1
  <2> QED  BY <2>1 DEF OnlyOlder
<1>2. CASE replies' = <<>>
  <2>1. Len(replies') = 0
    BY <1>2, EmptyQueue
  <2> QED  BY <2>1 DEF OnlyOlder
<1>3. CASE replies # <<>> /\ replies' = Tail(replies)
  <2>1. \A i \in 1 .. Len(replies') : i + 1 \in 1 .. Len(replies) /\ replies'[i] = replies[i + 1]
    BY <1>0, <1>3, Tailed
  <2> QED  BY <2>1 DEF OnlyOlder
<1>4. ASSUME NEW n \in 1 .. Len(replies), replies' = SubSeq(replies, n + 1, Len(replies))
      PROVE  OnlyOlder
  <2>1. \A i \in 1 .. Len(replies') : i + n \in 1 .. Len(replies) /\ replies'[i] = replies[i + n]
    BY <1>0, <1>4, Suffixed
  <2>2. n \in Nat
    OBVIOUS
  <2> QED  BY <2>1, <2>2 DEF OnlyOlder
<1> QED  BY <1>1, <1>2, <1>3, <1>4

LEMMA ControlSends == ASSUME NEW c, SendControl(c) PROVE Sends(c)
BY DEF SendControl, Send, Sends, pumpVars

LEMMA CallKind ==
    ASSUME TypeOK, Calls
    PROVE  Quiet \/ \E c \in Changes : Sends(c)
<1>1. CASE UNCHANGED sessionVars
  BY <1>1, RequestsKept, RepliesKept DEF Quiet, sessionVars, streamVars, pumpVars
<1>2. ASSUME NEW kind \in {"passcode", "login", "read"}, Send(kind, None),
             UNCHANGED <<replies, sequence, pumpVars>>
      PROVE  Quiet
  BY <1>2, RequestsKept, RepliesKept DEF Quiet, pumpVars
<1>3. CASE Connect
  BY <1>1, <1>2, <1>3 DEF Connect, pumpVars
<1>4. CASE Disconnect
  BY <1>4, RequestsKept, RepliesKept DEF Disconnect, Drop, Quiet
<1>5. CASE GetState
  BY <1>2, <1>5 DEF GetState, pumpVars
<1>6. ASSUME NEW c \in Changes, Write(c)
      PROVE  Quiet \/ \E d \in Changes : Sends(d)
  BY <1>1, <1>6, ControlSends DEF Write
<1> QED  BY <1>3, <1>4, <1>5, <1>6 DEF Calls

LEMMA ProgressKind ==
    ASSUME TypeOK, Progress
    PROVE  Quiet \/ \E c \in Changes : Sends(c)
<1>a. UNCHANGED sessionVars => Quiet
  BY RequestsKept, RepliesKept DEF Quiet, sessionVars, streamVars, pumpVars
<1>b. ASSUME NEW kind, Take(kind), UNCHANGED requests, UNCHANGED <<sequence, pumpVars>>
      PROVE  Quiet
  BY <1>b, RequestsKept, RepliesKept DEF Quiet, Take, Readable, pumpVars
<1>1. CASE Opened
  BY <1>1, RequestsKept, RepliesKept DEF Opened, Open, Quiet
<1>2. CASE GotPasscode
  <2>1. NoNewControl
    BY <1>2, RequestsKept DEF GotPasscode
  <2> QED  BY <1>2, <2>1, RepliesKept DEF GotPasscode, Take, Readable, Quiet, pumpVars
<1>3. CASE GotLogin \/ GotState \/ Acked \/ Verified
  BY <1>3, <1>b DEF GotLogin, GotState, Acked, Verified, pumpVars
<1>4. CASE Closed \/ WaitFails
  BY <1>4, <1>a DEF Closed, WaitFails
<1>5. CASE Paused
  <2>1. CASE SendControl(changes)
    <3>1. changes \in Changes
      BY <1>5 DEF Paused, TypeOK
    <3> QED  BY <2>1, <3>1, ControlSends
  <2> QED  BY <1>5, <1>a, <2>1 DEF Paused
<1>6. CASE Delayed
  <2>1. CASE Send("read", None) /\ UNCHANGED <<replies, sequence, pumpVars>>
    BY <2>1, RequestsKept, RepliesKept DEF Quiet, pumpVars
  <2> QED  BY <1>6, <1>a, <2>1 DEF Delayed, pumpVars
<1>7. CASE Skipping
  BY <1>7, RequestsKept, RepliesKept DEF Skipping, Skip, Readable, Quiet, pumpVars
<1>8. CASE ExchangeFails
  <2>1. OnlyOlder
    BY <1>8, RepliesKept DEF ExchangeFails, GiveUp, Readable
  <2> QED  BY <1>8, <2>1, RequestsKept DEF ExchangeFails, GiveUp, Quiet, pumpVars
<1> QED  BY <1>1, <1>2, <1>3, <1>4, <1>5, <1>6, <1>7, <1>8 DEF Progress

LEMMA AnswerGiven ==
    ASSUME NEW kind \in ReplyKinds, NEW accepts \in BOOLEAN, accepts => admitted',
           handled' \in Nat, pump' \in [Attributes -> Values], Tell(Answer(kind, accepts))
    PROVE  NewReply
<1> DEFINE e == Answer(kind, accepts)
<1>1. e \in Reply
  BY AnswerType
<1>2. /\ replies' = Append(replies, e)
      /\ e.handled = handled'
      /\ e.kind = "control" => e.sequence = handled'
      /\ e.accepts => admitted'
  BY DEF Tell, Answer
<1> QED  BY <1>1, <1>2 DEF NewReply

LEMMA PumpKind ==
    ASSUME TypeOK, Pump
    PROVE  Quiet \/ Tells \/ Takes
<1>0. SessionTypeOK' /\ handled' \in Nat /\ pump' \in [Attributes -> Values]
  BY PumpType DEF TypeOK, SessionTypeOK
<1>1. CASE Handle
  <2>1. NoNewControl
    BY <1>1, RequestsKept DEF Handle
  <2>2. UNCHANGED sequence
    BY <1>1 DEF Handle
  <2>3. CASE HandlePasscode \/ HandleRead
    <3>1. NewReply
      BY <1>0, <2>3, AnswerGiven DEF HandlePasscode, HandleRead, ReplyKinds
    <3> QED  BY <2>1, <2>2, <2>3, <3>1 DEF HandlePasscode, HandleRead, Tells, pumpVars
  <2>4. CASE HandleLogin
    <3>1. PICK accepts \in BOOLEAN :
             admitted' = (admitted \/ accepts) /\ Tell(Answer("login", accepts))
      BY <2>4 DEF HandleLogin
    <3>2. (accepts => admitted') /\ (admitted => admitted')
      BY <3>1
    <3>3. NewReply
      BY <1>0, <3>1, <3>2, AnswerGiven DEF ReplyKinds
    <3> QED  BY <2>1, <2>2, <2>4, <3>2, <3>3 DEF HandleLogin, Tells
  <2>5. CASE HandleControl
    <3>1. NewReply
      BY <1>0, <2>5, AnswerGiven DEF HandleControl, ReplyKinds
    <3> QED  BY <1>1, <2>2, <2>5, <3>1 DEF Handle, HandleControl, Takes
  <2>6. CASE UNCHANGED <<replies, pumpVars>>
    BY <2>1, <2>2, <2>6, RepliesKept DEF Quiet, pumpVars
  <2> QED  BY <1>1, <2>3, <2>4, <2>5, <2>6 DEF Handle
<1>2. CASE Report
  <2>1. NewReply
    BY <1>0, <1>2, AnswerGiven DEF Report, ReplyKinds
  <2>2. NoNewControl
    BY <1>2, RequestsKept DEF Report
  <2> QED  BY <1>2, <2>1, <2>2 DEF Report, Tells, pumpVars
<1>3. CASE ChangedByOthers
  BY <1>3, RequestsKept, RepliesKept DEF ChangedByOthers, Quiet, streamVars
<1>4. CASE Break
  <2>1. NoNewControl
    BY <1>4, RequestsKept DEF Break
  <2>2. OnlyOlder
    BY <1>4, RepliesKept DEF Break
  <2>3. UNCHANGED <<sequence, told, handled>>
    BY <1>4 DEF Break
  <2> QED  BY <1>4, <2>1, <2>2, <2>3 DEF Break, Quiet
<1> QED  BY <1>1, <1>2, <1>3, <1>4 DEF Pump

LEMMA StepKinds ==
    ASSUME TypeOK, [Next]_vars
    PROVE  Quiet \/ Tells \/ Takes \/ \E c \in Changes : Sends(c)
<1>1. CASE Elapse \/ UNCHANGED vars
  BY <1>1, RequestsKept, RepliesKept
     DEF Elapse, vars, Quiet, sessionVars, streamVars, pumpVars
<1> QED  BY <1>1, CallKind, ProgressKind, PumpKind DEF Next

-----------------------------------------------------------------------------
(* Numbers *)

LEMMA ControlsStep ==
    ASSUME TypeOK, TypeOK', ControlsOrdered,
           Quiet \/ Tells \/ Takes \/ \E c \in Changes : Sends(c)
    PROVE  ControlsOrdered'
<1>0. /\ requests \in Seq(Request) /\ Len(requests) \in Nat /\ sequence \in Nat /\ handled \in Nat
      /\ \A i \in 1 .. Len(requests) : requests[i] \in Request
  BY LenProperties, ElementOfSeq DEF TypeOK, SessionTypeOK
<1>a. \A i \in 1 .. Len(requests) : requests[i].kind = "control" => requests[i].sequence \in Nat
  BY <1>0 DEF Request
<1>1. CASE Quiet \/ Tells
  <2>1. UNCHANGED <<sequence, handled>>
    BY <1>1 DEF Quiet, Tells
  <2>2. PICK n \in Nat : \A i \in 1 .. Len(requests') :
           requests'[i].kind = "control" =>
             i + n \in 1 .. Len(requests) /\ requests'[i] = requests[i + n]
    BY <1>1 DEF Quiet, Tells, NoNewControl
  <2>3. \A i, j \in 1 .. Len(requests') : i < j => i + n < j + n
    OBVIOUS
  <2> QED  BY <2>1, <2>2, <2>3 DEF ControlsOrdered
<1>2. CASE Takes
  <2> DEFINE r == Head(requests)
  <2>1. /\ r = requests[1] /\ r.kind = "control" /\ 1 \in 1 .. Len(requests)
        /\ Len(requests') = Len(requests) - 1
        /\ \A i \in 1 .. Len(requests') : requests'[i] = requests[i + 1]
    BY <1>0, <1>2, Tailed DEF Takes
  <2>2. UNCHANGED sequence /\ handled' = r.sequence
    BY <1>2 DEF Takes
  <2>3. handled' <= sequence'
    BY <2>1, <2>2 DEF ControlsOrdered
  <2>4. \A i \in 1 .. Len(requests') : i + 1 \in 1 .. Len(requests) /\ 1 < i + 1
    BY <1>0, <2>1
  <2>5. ASSUME NEW i \in 1 .. Len(requests'), requests'[i].kind = "control"
        PROVE  handled' < requests'[i].sequence /\ requests'[i].sequence <= sequence'
    BY <2>1, <2>2, <2>4, <2>5 DEF ControlsOrdered
  <2>6. ASSUME NEW i \in 1 .. Len(requests'), NEW j \in 1 .. Len(requests'), i < j,
               requests'[i].kind = "control", requests'[j].kind = "control"
        PROVE  requests'[i].sequence < requests'[j].sequence
    <3>1. i + 1 < j + 1
      BY <2>6
    <3> QED  BY <2>1, <2>4, <2>6, <3>1 DEF ControlsOrdered
  <2> QED  BY <2>3, <2>5, <2>6 DEF ControlsOrdered
<1>3. ASSUME NEW c \in Changes, Sends(c) PROVE ControlsOrdered'
  <2>1. Frame("control", c) \in Request
    BY <1>0, FrameType
  <2>2. /\ Len(requests') = Len(requests) + 1
        /\ \A i \in 1 .. Len(requests) : requests'[i] = requests[i]
        /\ requests'[Len(requests) + 1] = Frame("control", c)
    BY <1>0, <1>3, <2>1, Appended DEF Sends
  <2>3. sequence' = sequence + 1 /\ handled' = handled /\ Frame("control", c).sequence = sequence + 1
    BY <1>3 DEF Sends, Frame
  <2>4. ASSUME NEW i \in 1 .. Len(requests'), requests'[i].kind = "control"
        PROVE  handled' < requests'[i].sequence /\ requests'[i].sequence <= sequence'
    BY <1>0, <1>a, <2>2, <2>3, <2>4 DEF ControlsOrdered
  <2>5. ASSUME NEW i \in 1 .. Len(requests'), NEW j \in 1 .. Len(requests'), i < j,
               requests'[i].kind = "control", requests'[j].kind = "control"
        PROVE  requests'[i].sequence < requests'[j].sequence
    <3>1. i \in 1 .. Len(requests)
      BY <1>0, <2>2, <2>5
    <3>2. CASE j \in 1 .. Len(requests)
      BY <2>2, <2>5, <3>1, <3>2 DEF ControlsOrdered
    <3>3. CASE j = Len(requests) + 1
      BY <1>0, <1>a, <2>2, <2>3, <2>5, <3>1, <3>3 DEF ControlsOrdered
    <3> QED  BY <1>0, <2>2, <3>2, <3>3
  <2>6. handled' <= sequence'
    BY <1>0, <2>3 DEF ControlsOrdered
  <2> QED  BY <2>4, <2>5, <2>6 DEF ControlsOrdered
<1> QED  BY <1>1, <1>2, <1>3

LEMMA HandledGrows ==
    ASSUME TypeOK, ControlsOrdered,
           Quiet \/ Tells \/ Takes \/ \E c \in Changes : Sends(c)
    PROVE  handled' \in Nat /\ handled <= handled'
<1>1. CASE Takes
  <2>1. /\ Head(requests) = requests[1] /\ 1 \in 1 .. Len(requests)
        /\ Head(requests) \in Request
    BY <1>1, Tailed DEF Takes, TypeOK, SessionTypeOK
  <2> QED  BY <1>1, <2>1 DEF Takes, ControlsOrdered, TypeOK, SessionTypeOK, Request
<1> QED  BY <1>1 DEF Quiet, Tells, Sends, TypeOK, SessionTypeOK

LEMMA RepliesStep ==
    ASSUME TypeOK, TypeOK', ControlsOrdered, RepliesOrdered,
           Quiet \/ Tells \/ Takes \/ \E c \in Changes : Sends(c)
    PROVE  RepliesOrdered'
<1>0. /\ replies \in Seq(Reply) /\ Len(replies) \in Nat /\ handled \in Nat
      /\ \A i \in 1 .. Len(replies) : replies[i] \in Reply
  BY LenProperties, ElementOfSeq DEF TypeOK, SessionTypeOK
<1>a. \A i \in 1 .. Len(replies) : replies[i].handled \in Nat
  BY <1>0 DEF Reply
<1>b. handled' \in Nat /\ handled <= handled'
  BY HandledGrows
<1>1. CASE Quiet
  <2>1. PICK n \in Nat : \A i \in 1 .. Len(replies') :
           i + n \in 1 .. Len(replies) /\ replies'[i] = replies[i + n]
    BY <1>1 DEF Quiet, OnlyOlder
  <2>2. \A i, j \in 1 .. Len(replies') : i < j => i + n < j + n
    OBVIOUS
  <2> QED  BY <1>1, <2>1, <2>2 DEF Quiet, RepliesOrdered
<1>2. CASE NewReply
  <2>1. PICK e \in Reply :
           /\ replies' = Append(replies, e)
           /\ e.handled = handled'
           /\ e.kind = "control" => e.sequence = handled'
    BY <1>2 DEF NewReply
  <2>2. /\ Len(replies') = Len(replies) + 1
        /\ \A i \in 1 .. Len(replies) : replies'[i] = replies[i]
        /\ replies'[Len(replies) + 1] = e
    BY <1>0, <2>1, Appended
  <2>3. \A i \in 1 .. Len(replies') : i \in 1 .. Len(replies) \/ i = Len(replies) + 1
    BY <1>0, <2>2
  <2>4. ASSUME NEW i \in 1 .. Len(replies')
        PROVE  /\ replies'[i].handled <= handled'
               /\ replies'[i].kind = "control" => replies'[i].sequence = replies'[i].handled
    BY <1>0, <1>a, <1>b, <2>1, <2>2, <2>3 DEF RepliesOrdered
  <2>5. ASSUME NEW i \in 1 .. Len(replies'), NEW j \in 1 .. Len(replies'), i < j
        PROVE  replies'[i].handled <= replies'[j].handled
    <3>1. i \in 1 .. Len(replies)
      BY <1>0, <2>2, <2>5
    <3>2. CASE j \in 1 .. Len(replies)
      BY <2>2, <2>5, <3>1, <3>2 DEF RepliesOrdered
    <3>3. CASE j = Len(replies) + 1
      BY <2>1, <2>2, <2>4, <3>3
    <3> QED  BY <2>3, <3>2, <3>3
  <2> QED  BY <2>4, <2>5 DEF RepliesOrdered
<1>3. CASE UNCHANGED <<replies, handled>>
  BY <1>3 DEF RepliesOrdered
<1> QED  BY <1>1, <1>2, <1>3 DEF Tells, Takes, Sends

-----------------------------------------------------------------------------
(* The read-back *)

LEMMA NewestOnly ==
    ASSUME TypeOK, ControlsOrdered, handled = sequence
    PROVE  ~\E i \in 1 .. Len(requests) : requests[i].kind = "control"
<1> SUFFICES ASSUME NEW i \in 1 .. Len(requests), requests[i].kind = "control" PROVE FALSE
  OBVIOUS
<1>1. requests[i] \in Request
  BY ElementOfSeq DEF TypeOK, SessionTypeOK
<1> QED  BY <1>1 DEF ControlsOrdered, TypeOK, SessionTypeOK, Request

LEMMA OwnAcknowledged ==
    ASSUME TypeOK, ControlsOrdered, RepliesOrdered, Take("control"), Own(Head(replies))
    PROVE  handled = sequence /\ \A i \in 1 .. Len(replies) : replies[i].handled = sequence
<1>1. /\ Head(replies) = replies[1] /\ 1 \in 1 .. Len(replies) /\ Head(replies) \in Reply
  BY Tailed DEF Take, Readable, TypeOK, SessionTypeOK
<1>2. replies[1].handled = sequence
  BY <1>1 DEF Take, Own, RepliesOrdered
<1>3. handled = sequence
  BY <1>1, <1>2 DEF RepliesOrdered, ControlsOrdered, TypeOK, SessionTypeOK, Reply
<1>4. ASSUME NEW i \in 1 .. Len(replies) PROVE replies[i].handled = sequence
  <2>1. replies[i] \in Reply
    BY ElementOfSeq DEF TypeOK, SessionTypeOK
  <2>2. i = 1 \/ 1 < i
    OBVIOUS
  <2> QED  BY <1>1, <1>2, <1>3, <2>1, <2>2 DEF RepliesOrdered, TypeOK, SessionTypeOK, Reply
<1> QED  BY <1>3, <1>4

(* The steps into, within and out of a write. *)
Reading == {"delaying", "verifying"}

LEMMA WriteSteps ==
    ASSUME TypeOK, [Next]_vars, pc' \in Writing
    PROVE  \/ /\ pc' = "acking" /\ pc \notin Writing
              /\ changes' \in Changes /\ SendControl(changes')
           \/ /\ Acked /\ Own(Head(replies)) /\ pc = "acking" /\ pc' = "delaying"
              /\ UNCHANGED <<changes, sent, unsure, sequence>>
           \/ /\ pc \in Reading /\ pc' \in Reading
              /\ UNCHANGED <<changes, sent, unsure, sequence>>
           \/ UNCHANGED <<pc, changes, sent, unsure, sequence>>
<1> USE DEF Writing, Reading
<1>1. CASE Calls
  <2>1. ASSUME NEW c \in Changes, Write(c) PROVE SendControl(c) /\ changes' = c /\ pc' = "acking" /\ pc = "idle"
    BY <2>1 DEF Write, SendControl
  <2> QED  BY <1>1, <2>1 DEF Calls, Connect, Disconnect, GetState
<1>2. CASE Paused
  <2>1. SendControl(changes) /\ changes' = changes /\ pc' = "acking"
    BY <1>2 DEF Paused, Fails, Return, SendControl
  <2> QED  BY <1>2, <2>1 DEF Paused, TypeOK
<1>3. CASE Acked
  BY <1>3 DEF Acked, Fails, Return
<1>4. CASE Delayed \/ Verified
  BY <1>4 DEF Delayed, Verified, Fails, Return, deviceVars, sessionVars
<1>5. CASE Skipping \/ Elapse \/ (Pump /\ UNCHANGED <<callVars, deviceVars>>) \/ UNCHANGED vars
  BY <1>5 DEF Skipping, Skip, Elapse, vars, callVars, deviceVars, sessionVars,
              Pump, Handle, Report, ChangedByOthers, Break
<1>6. CASE \/ Opened \/ GotPasscode \/ GotLogin \/ Closed \/ GotState \/ ExchangeFails \/ WaitFails
  BY <1>6 DEF Opened, GotPasscode, GotLogin, Closed, GotState, ExchangeFails, WaitFails, Fails, Return
<1> QED  BY <1>1, <1>2, <1>3, <1>4, <1>5, <1>6 DEF Next, Progress

LEMMA ReadBackStep ==
    ASSUME TypeOK, TypeOK', ControlsOrdered, RepliesOrdered, ReadBackIsNew, [Next]_vars
    PROVE  ReadBackIsNew'
<1> SUFFICES ASSUME pc' \in Reading
             PROVE  /\ handled' = sequence'
                    /\ \A i \in 1 .. Len(replies') : replies'[i].handled = sequence'
  BY DEF ReadBackIsNew, Reading
<1>0. replies \in Seq(Reply) /\ Len(replies) \in Nat
  BY LenProperties DEF TypeOK, SessionTypeOK
<1>1. CASE Acked /\ Own(Head(replies))
  <2>1. handled = sequence /\ \A i \in 1 .. Len(replies) : replies[i].handled = sequence
    BY <1>1, OwnAcknowledged DEF Acked
  <2>2. UNCHANGED <<sequence, handled>> /\ replies # <<>> /\ replies' = Tail(replies)
    BY <1>1 DEF Acked, Take, Readable, pumpVars
  <2> QED  BY <1>0, <2>1, <2>2, Tailed
<1>2. CASE pc \in Reading
  <2>1. handled = sequence /\ \A i \in 1 .. Len(replies) : replies[i].handled = sequence
    BY <1>2 DEF ReadBackIsNew, Reading
  <2>2. ~Takes
    <3> SUFFICES ASSUME Takes PROVE FALSE
      OBVIOUS
    <3>1. Head(requests) = requests[1] /\ 1 \in 1 .. Len(requests)
      BY Tailed DEF Takes, TypeOK, SessionTypeOK
    <3> QED  BY <2>1, <3>1, NewestOnly DEF Takes
  <2>3. UNCHANGED sequence
    BY <1>2, WriteSteps DEF Reading, Writing
  <2>4. CASE Quiet
    BY <2>1, <2>3, <2>4 DEF Quiet, OnlyOlder
  <2>5. CASE Tells
    <3>1. PICK e \in Reply : replies' = Append(replies, e) /\ e.handled = handled'
      BY <2>5 DEF Tells, NewReply
    <3>2. handled' = handled
      BY <2>5 DEF Tells
    <3> QED  BY <1>0, <2>1, <2>3, <3>1, <3>2, Appended
  <2>6. ~\E c \in Changes : Sends(c)
    BY <2>3 DEF Sends, TypeOK, SessionTypeOK
  <2> QED  BY <2>2, <2>4, <2>5, <2>6, StepKinds
<1> QED  BY <1>1, <1>2, WriteSteps DEF Reading, Writing

LEMMA OrderInit == Init => ControlsOrdered /\ RepliesOrdered /\ ReadBackIsNew
BY EmptyQueue DEF Init, SessionInit, ControlsOrdered, RepliesOrdered, ReadBackIsNew

(* After a control was acknowledged with its own number, everything that is *)
(* read back was made by the pump after it took the control.                *)
THEOREM ReadBackNew == Spec => []ReadBackIsNew
<1> DEFINE Inv == ControlsOrdered /\ RepliesOrdered /\ ReadBackIsNew
<1>1. Init => Inv
  BY OrderInit
<1>2. TypeOK /\ TypeOK' /\ Inv /\ [Next]_vars => Inv'
  BY StepKinds, ControlsStep, RepliesStep, ReadBackStep
<1> QED  BY <1>1, <1>2, LanType, PTL DEF Spec

-----------------------------------------------------------------------------
(* The login *)

LEMMA LoginStep ==
    ASSUME TypeOK, TypeOK', LoginTold, [Next]_vars
    PROVE  LoginTold'
<1>0. /\ replies \in Seq(Reply) /\ Len(replies) \in Nat
      /\ \A i \in 1 .. Len(replies) : replies[i] \in Reply
  BY LenProperties, ElementOfSeq DEF TypeOK, SessionTypeOK
<1>1. CASE Quiet
  <2>1. CASE replies' = <<>>
    BY <2>1, EmptyQueue DEF LoginTold
  <2>2. CASE admitted' = admitted
    BY <1>1, <2>2 DEF Quiet, OnlyOlder, LoginTold
  <2> QED  BY <1>1, <2>1, <2>2 DEF Quiet
<1>2. CASE NewReply /\ (admitted => admitted')
  <2>1. PICK e \in Reply : replies' = Append(replies, e) /\ (e.accepts => admitted')
    BY <1>2 DEF NewReply
  <2> QED  BY <1>0, <1>2, <2>1, Appended DEF LoginTold
<1>3. CASE UNCHANGED <<replies, admitted>>
  BY <1>3 DEF LoginTold
<1> QED  BY <1>1, <1>2, <1>3, StepKinds DEF Tells, Takes, Sends

LEMMA AdmittedStep ==
    ASSUME TypeOK, LoginTold, AdmittedByPump, [Next]_vars
    PROVE  AdmittedByPump'
<1> SUFFICES ASSUME Authenticated' PROVE admitted'
  BY DEF AdmittedByPump
<1>0. link' # "lost" /\ authenticated'
  BY DEF Authenticated, Connected
<1>1. CASE GotLogin
  <2>1. CASE Head(replies).accepts
    <3>1. Head(replies) = replies[1] /\ 1 \in 1 .. Len(replies)
      BY <1>1, Tailed DEF GotLogin, Take, Readable, TypeOK, SessionTypeOK
    <3> QED  BY <1>1, <2>1, <3>1 DEF GotLogin, LoginTold, pumpVars
  <2>2. CASE ~Head(replies).accepts
    BY <1>0, <1>1, <2>2
       DEF GotLogin, AdmittedByPump, Authenticated, Connected, pumpVars
  <2> QED  BY <2>1, <2>2
<1>2. CASE UNCHANGED <<link, authenticated, admitted>>
  BY <1>0, <1>2 DEF AdmittedByPump, Authenticated, Connected
<1>3. CASE Calls \/ Elapse \/ UNCHANGED vars
  BY <1>0, <1>2, <1>3
     DEF Calls, Connect, Disconnect, Drop, GetState, Write, SendControl, Elapse,
         vars, sessionVars, streamVars, pumpVars
<1>4. CASE Progress /\ ~GotLogin
  BY <1>0, <1>2, <1>4
     DEF Progress, Opened, Open, GotPasscode, Closed, GotState, Paused, SendControl, Acked,
         Delayed, Verified, Skipping, Skip, ExchangeFails, GiveUp, WaitFails,
         sessionVars, streamVars, pumpVars
<1>5. CASE Pump
  BY <1>0, <1>2, <1>5
     DEF Pump, Handle, HandlePasscode, HandleLogin, HandleRead, HandleControl, Report,
         ChangedByOthers, Break, AdmittedByPump, Authenticated, Connected,
         streamVars, pumpVars
<1> QED  BY <1>1, <1>3, <1>4, <1>5 DEF Next

(* The adapter talks to a pump that admitted it on the present connection.  *)
THEOREM LoginAdmitted == Spec => []AdmittedByPump
<1> DEFINE Inv == LoginTold /\ AdmittedByPump
<1>1. Init => Inv
  BY EmptyQueue DEF Init, SessionInit, LoginTold, AdmittedByPump, Authenticated
<1>2. TypeOK /\ TypeOK' /\ Inv /\ [Next]_vars => Inv'
  BY LoginStep, AdmittedStep
<1> QED  BY <1>1, <1>2, LanType, PTL DEF Spec

-----------------------------------------------------------------------------
(* The cache of sent values *)

(* What the pump takes is the oldest of the controls on their way.          *)
LEMMA TakenControl ==
    ASSUME TypeOK, ControlsOrdered, Takes
    PROVE  /\ Head(requests) = requests[1] /\ 1 \in 1 .. Len(requests)
           /\ Head(requests).kind = "control"
           /\ Head(requests).changes \in Changes
           /\ handled' = Head(requests).sequence
           /\ told' = Override(told, Head(requests).changes)
           /\ \A i \in 1 .. Len(requests') : i + 1 \in 1 .. Len(requests) /\ requests'[i] = requests[i + 1]
<1>1. /\ requests \in Seq(Request) /\ requests # <<>> /\ requests' = Tail(requests)
      /\ Head(requests).kind = "control"
  BY DEF Takes, TypeOK, SessionTypeOK
<1>2. /\ Head(requests) \in Request /\ Head(requests) = requests[1]
      /\ Len(requests) \in Nat \ {0} /\ Len(requests') = Len(requests) - 1
      /\ \A i \in 1 .. Len(requests') : requests'[i] = requests[i + 1]
  BY <1>1, Tailed
<1>3. Head(requests).changes \in Changes
  BY <1>1, <1>2 DEF Request
<1> QED  BY <1>1, <1>2, <1>3 DEF Takes

LEMMA ToldOverridden ==
    ASSUME TypeOK, NEW c \in Changes, told' = Override(told, c)
    PROVE  /\ \A a \in DOMAIN c : told'[a] = c[a]
           /\ \A a \in Attributes : a \notin DOMAIN c => told'[a] = told[a]
BY ChangeType DEF Override

LEMMA WriteToldStep ==
    ASSUME TypeOK, TypeOK', ControlsOrdered, RepliesOrdered, ReadBackIsNew, WriteTold, [Next]_vars
    PROVE  WriteTold'
<1> USE DEF Writing, Reading
<1>a. SUFFICES ASSUME pc' \in Writing PROVE WriteTold'
  BY DEF WriteTold
<1>0. /\ requests \in Seq(Request) /\ Len(requests) \in Nat
      /\ sequence \in Nat /\ handled \in Nat
  BY LenProperties DEF TypeOK, SessionTypeOK
<1>1. CASE pc' = "acking" /\ changes' \in Changes /\ SendControl(changes')
  <2> DEFINE c == changes'
  <2>1. Frame("control", c) \in Request /\ Frame("control", c).changes = c
    BY <1>0, <1>1, FrameType DEF Frame
  <2>2. requests' = Append(requests, Frame("control", c)) /\ sequence' = sequence + 1 /\ handled' = handled
    BY <1>1, ControlSends DEF Sends
  <2>3. handled' # sequence'
    BY <1>0, <2>2 DEF ControlsOrdered
  <2>4. ASSUME NEW i \in 1 .. Len(requests'),
               requests'[i].kind = "control", requests'[i].sequence = sequence'
        PROVE  requests'[i].changes = c
    <3>1. CASE i \in 1 .. Len(requests)
      <4>1. requests'[i] = requests[i]
        BY <1>0, <2>1, <2>2, <3>1, Appended
      <4>2. requests[i].kind = "control" /\ requests[i].sequence = sequence + 1
        BY <2>2, <2>4, <4>1
      <4> QED  BY <1>0, <3>1, <4>2 DEF ControlsOrdered
    <3>2. CASE i = Len(requests) + 1
      BY <1>0, <2>1, <2>2, <3>2, Appended
    <3> QED  BY <1>0, <2>1, <2>2, <3>1, <3>2, Appended
  <2> QED  BY <1>1, <2>3, <2>4 DEF WriteTold, OwnControl
<1>2. CASE Acked /\ Own(Head(replies)) /\ pc = "acking" /\ pc' = "delaying" /\ UNCHANGED changes
  <2>1. handled = sequence
    BY <1>2, OwnAcknowledged DEF Acked
  <2>2. UNCHANGED told
    BY <1>2 DEF Acked, pumpVars
  <2> QED  BY <1>2, <2>1, <2>2 DEF WriteTold
<1>3. CASE pc \in Reading /\ pc' \in Reading /\ UNCHANGED <<changes, sequence>>
  <2>1. ~Takes
    BY <1>3, NewestOnly, TakenControl DEF ReadBackIsNew
  <2>2. UNCHANGED told
    BY <1>0, <1>3, <2>1, StepKinds DEF Quiet, Tells, Sends
  <2> QED  BY <1>3, <2>2 DEF WriteTold
<1>4. CASE UNCHANGED <<pc, changes, sequence>>
  <2>1. CASE pc \in Reading
    BY <1>3, <1>4, <2>1
  <2>2. CASE pc = "acking"
    <3>1. CASE Quiet \/ Tells
      <4>1. UNCHANGED <<told, handled>>
        BY <3>1 DEF Quiet, Tells
      <4>2. PICK n \in Nat : \A i \in 1 .. Len(requests') :
               requests'[i].kind = "control" =>
                 i + n \in 1 .. Len(requests) /\ requests'[i] = requests[i + n]
        BY <3>1 DEF Quiet, Tells, NoNewControl
      <4> QED  BY <1>4, <2>2, <4>1, <4>2 DEF WriteTold, OwnControl
    <3>2. CASE Takes
      <4> DEFINE r == Head(requests)
      <4>1. ASSUME handled' = sequence' PROVE \A a \in DOMAIN changes : told'[a] = changes[a]
        <5>1. OwnControl(r) /\ r = requests[1] /\ 1 \in 1 .. Len(requests)
          BY <1>4, <3>2, <4>1, TakenControl DEF OwnControl
        <5>2. r.changes = changes
          BY <2>2, <5>1 DEF WriteTold
        <5> QED  BY <3>2, <5>2, TakenControl, ToldOverridden
      <4>2. \A i \in 1 .. Len(requests') :
               requests'[i].kind = "control" /\ requests'[i].sequence = sequence'
                 => requests'[i].changes = changes
        BY <1>4, <2>2, <3>2, TakenControl DEF WriteTold, OwnControl
      <4> QED  BY <1>4, <2>2, <4>1, <4>2 DEF WriteTold, OwnControl
    <3> QED  BY <1>0, <1>4, <3>1, <3>2, StepKinds DEF Sends
  <2> QED  BY <1>a, <1>4, <2>1, <2>2
<1> QED  BY <1>a, <1>1, <1>2, <1>3, <1>4, WriteSteps

(* What a step does to the cache: nothing, unless a write is verified or    *)
(* the cache is cleared; a write that fails leaves it unsure.               *)
LEMMA CacheSteps ==
    ASSUME TypeOK, [Next]_vars, ~unsure'
    PROVE  \/ sent' = Nothing
           \/ /\ Verified /\ pc = "verifying" /\ pc' = "idle" /\ ~unsure
              /\ sent' = Override(sent, changes) /\ changes \in Changes
           \/ /\ ~unsure /\ UNCHANGED sent
              /\ pc \in Writing => pc' \in Writing /\ UNCHANGED changes
<1> USE DEF Writing
<1>1. CASE Calls
  BY <1>1 DEF Calls, Connect, Disconnect, GetState, Write, SendControl, deviceVars
<1>2. CASE GotLogin \/ Closed
  BY <1>2 DEF GotLogin, Closed, Forget, Fails
<1>3. CASE Verified
  <2>1. changes \in Changes
    BY <1>3 DEF Verified, TypeOK
  <2> QED  BY <1>3, <2>1 DEF Verified, Return, Fails, deviceVars
<1>4. CASE Acked \/ Delayed
  BY <1>4 DEF Acked, Delayed, Fails, deviceVars
<1>5. CASE \/ Opened \/ GotPasscode \/ GotState \/ Paused
  BY <1>5 DEF Opened, GotPasscode, GotState, Paused, SendControl, Fails, Return, deviceVars
<1>6. CASE ExchangeFails \/ WaitFails
  BY <1>6 DEF ExchangeFails, WaitFails, Fails
<1>7. CASE Skipping \/ Elapse \/ (Pump /\ UNCHANGED <<callVars, deviceVars>>) \/ UNCHANGED vars
  BY <1>7 DEF Skipping, Elapse, vars, callVars, deviceVars
<1> QED  BY <1>1, <1>2, <1>3, <1>4, <1>5, <1>6, <1>7 DEF Next, Progress

LEMMA ControlBegins ==
    ASSUME TypeOK, [Next]_vars, sequence' # sequence
    PROVE  pc' = "acking"
<1>1. CASE Calls
  BY <1>1 DEF Calls, Connect, Disconnect, Drop, GetState, Write, SendControl, sessionVars
<1>2. CASE \/ Opened \/ GotPasscode \/ GotLogin \/ Closed \/ GotState
           \/ Paused \/ Acked \/ Delayed \/ Verified
  BY <1>2 DEF Opened, Open, GotPasscode, GotLogin, Closed, GotState, Paused, SendControl,
              Acked, Delayed, Verified, sessionVars
<1>3. CASE Skipping \/ ExchangeFails \/ WaitFails \/ Elapse \/ Pump \/ UNCHANGED vars
  BY <1>3 DEF Skipping, Skip, ExchangeFails, GiveUp, WaitFails, Elapse, vars, sessionVars,
              Pump, Handle, Report, ChangedByOthers, Break
<1> QED  BY <1>1, <1>2, <1>3 DEF Next, Progress

LEMMA SureCacheStep ==
    ASSUME TypeOK, TypeOK', ControlsOrdered, RepliesOrdered, ReadBackIsNew, WriteTold,
           SureCache, [Next]_vars
    PROVE  SureCache'
<1> USE DEF Writing, Reading
<1>a. SUFFICES ASSUME ~unsure' PROVE SureCache'
  BY DEF SureCache
<1>0. /\ requests \in Seq(Request) /\ Len(requests) \in Nat
      /\ sequence \in Nat /\ handled \in Nat
      /\ requests' \in Seq(Request) /\ Len(requests') \in Nat
  BY LenProperties DEF TypeOK, SessionTypeOK
<1>1. CASE sent' = Nothing
  BY <1>1 DEF SureCache, Nothing
<1>2. CASE /\ Verified /\ pc = "verifying" /\ pc' = "idle" /\ ~unsure
           /\ sent' = Override(sent, changes) /\ changes \in Changes
  <2>1. UNCHANGED <<requests, told>>
    BY <1>2 DEF Verified, pumpVars
  <2>2. ~\E i \in 1 .. Len(requests) : requests[i].kind = "control"
    BY <1>2, NewestOnly DEF ReadBackIsNew
  <2>3. ASSUME NEW a \in Attributes, sent'[a] # None PROVE told'[a] = sent'[a]
    <3>1. CASE a \in DOMAIN changes
      BY <1>2, <2>1, <3>1 DEF Override, WriteTold
    <3>2. CASE a \notin DOMAIN changes
      BY <1>2, <2>1, <2>3, <3>2 DEF Override, SureCache
    <3> QED  BY <3>1, <3>2
  <2> QED  BY <2>1, <2>2, <2>3 DEF SureCache
<1>3. CASE /\ ~unsure /\ UNCHANGED sent
           /\ pc \in Writing => pc' \in Writing /\ UNCHANGED changes
  <2>1. ASSUME sent # Nothing
        PROVE  \A i \in 1 .. Len(requests) :
                  requests[i].kind = "control" =>
                    pc \in Writing /\ requests[i].changes = changes
    BY <1>3, <2>1 DEF SureCache
  <2>2. ASSUME NEW a \in Attributes, sent[a] # None PROVE sent # Nothing
    BY <2>2 DEF Nothing
  <2>3. ASSUME NEW a \in Attributes, sent[a] # None
        PROVE  told[a] = sent[a] \/ (pc \in Writing /\ a \in DOMAIN changes)
    BY <1>3, <2>3 DEF SureCache
  <2>4. CASE Quiet \/ Tells
    <3>1. UNCHANGED told
      BY <2>4 DEF Quiet, Tells
    <3>2. PICK n \in Nat : \A i \in 1 .. Len(requests') :
             requests'[i].kind = "control" =>
               i + n \in 1 .. Len(requests) /\ requests'[i] = requests[i + n]
      BY <2>4 DEF Quiet, Tells, NoNewControl
    <3>3. sent # Nothing =>
             \A i \in 1 .. Len(requests') :
                requests'[i].kind = "control" =>
                  pc' \in Writing /\ requests'[i].changes = changes'
      BY <1>3, <2>1, <3>2
    <3>4. \A a \in Attributes :
             sent[a] # None => told'[a] = sent[a] \/ (pc' \in Writing /\ a \in DOMAIN changes')
      BY <1>3, <2>3, <3>1
    <3> QED  BY <1>3, <3>3, <3>4 DEF SureCache
  <2>5. CASE Takes
    <3>1. sent # Nothing =>
             /\ pc \in Writing /\ Head(requests).changes = changes
             /\ \A i \in 1 .. Len(requests') :
                   requests'[i].kind = "control" =>
                     pc \in Writing /\ requests'[i].changes = changes
      BY <2>1, <2>5, TakenControl
    <3>2. \A a \in Attributes :
             sent[a] # None => told'[a] = sent[a] \/ (pc \in Writing /\ a \in DOMAIN changes)
      <4> SUFFICES ASSUME NEW a \in Attributes, sent[a] # None, a \notin DOMAIN changes \/ pc \notin Writing
                   PROVE  told'[a] = sent[a]
        OBVIOUS
      <4>1. pc \in Writing /\ Head(requests).changes = changes
        BY <2>2, <3>1
      <4> QED  BY <2>3, <2>5, <4>1, TakenControl, ToldOverridden
    <3> QED  BY <1>3, <3>1, <3>2 DEF SureCache
  <2>6. ASSUME NEW c \in Changes, Sends(c) PROVE SureCache'
    <3> DEFINE frame == Frame("control", changes')
    <3>1. sequence' # sequence
      BY <1>0, <2>6 DEF Sends
    <3>2. pc \notin Writing /\ pc' = "acking" /\ SendControl(changes') /\ changes' \in Changes
      BY <3>1, ControlBegins, WriteSteps
    <3>3. frame \in Request /\ frame.changes = changes'
      BY <1>0, <3>2, FrameType DEF Frame
    <3>4. requests' = Append(requests, frame) /\ UNCHANGED told
      BY <3>2, ControlSends DEF Sends
    <3>5. /\ Len(requests') = Len(requests) + 1
          /\ \A i \in 1 .. Len(requests) : requests'[i] = requests[i]
          /\ requests'[Len(requests) + 1] = frame
      BY <1>0, <3>3, <3>4, Appended
    <3>6. ASSUME NEW i \in 1 .. Len(requests'), requests'[i].kind = "control", sent # Nothing
          PROVE  requests'[i].changes = changes'
      <4>1. i \notin 1 .. Len(requests)
        BY <2>1, <3>2, <3>5, <3>6
      <4>2. i = Len(requests) + 1
        BY <1>0, <3>5, <4>1
      <4> QED  BY <3>3, <3>5, <4>2
    <3> QED  BY <1>3, <2>3, <3>2, <3>4, <3>6 DEF SureCache
  <2> QED  BY <2>4, <2>5, <2>6, StepKinds
<1> QED  BY <1>a, <1>1, <1>2, <1>3, CacheSteps

(* Unless a write failed since it was cleared, the cache holds what the     *)
(* pump was told last, so that nothing is lost by leaving out a redundant   *)
(* write.                                                                   *)
THEOREM CacheIsCurrent == Spec => []CacheCurrent
<1> DEFINE Inv ==
       ControlsOrdered /\ RepliesOrdered /\ ReadBackIsNew /\ WriteTold /\ SureCache
<1>1. Init => Inv
  <2>1. Init => WriteTold /\ SureCache
    BY DEF Init, SessionInit, WriteTold, SureCache, Nothing
  <2> QED  BY <2>1, OrderInit
<1>2. TypeOK /\ TypeOK' /\ Inv /\ [Next]_vars => Inv'
  BY StepKinds, ControlsStep, RepliesStep, ReadBackStep, WriteToldStep, SureCacheStep
<1>3. Inv => CacheCurrent
  BY DEF SureCache, CacheCurrent, Writing
<1> QED  BY <1>1, <1>2, <1>3, LanType, PTL DEF Spec

-----------------------------------------------------------------------------
(* Frames on the wire (Codec) *)

(* u is s, of m elements, followed by t, of n. *)
IsJoin(u, s, t, m, n) ==
    /\ Len(u) = m + n
    /\ \A i \in 1 .. m : u[i] = s[i]
    /\ \A i \in 1 .. n : u[m + i] = t[i]

LEMMA Joined ==
    ASSUME NEW S, NEW s \in Seq(S), NEW t \in Seq(S),
           NEW m \in Nat, NEW n \in Nat, Len(s) = m, Len(t) = n
    PROVE  s \o t \in Seq(S) /\ IsJoin(s \o t, s, t, m, n)
<1>1. /\ s \o t \in Seq(S)
      /\ Len(s \o t) = Len(s) + Len(t)
      /\ \A i \in 1 .. Len(s) + Len(t) :
            (s \o t)[i] = IF i <= Len(s) THEN s[i] ELSE t[i - Len(s)]
  BY ConcatProperties
<1>2. \A i \in 1 .. m + n : (s \o t)[i] = IF i <= m THEN s[i] ELSE t[i - m]
  BY <1>1
<1>3. \A i \in 1 .. m : i \in 1 .. m + n /\ i <= m
  OBVIOUS
<1>4. \A i \in 1 .. n : m + i \in 1 .. m + n /\ ~ (m + i <= m) /\ m + i - m = i
  OBVIOUS
<1>5. Len(s \o t) = m + n
  BY <1>1
<1>6. \A i \in 1 .. m : (s \o t)[i] = s[i]
  BY <1>2, <1>3
<1>7. \A i \in 1 .. n : (s \o t)[m + i] = t[i]
  BY <1>2, <1>4
<1> QED  BY <1>1, <1>5, <1>6, <1>7 DEF IsJoin

(* The first elements of a sequence. *)
LEMMA Shortened ==
    ASSUME NEW S, NEW s \in Seq(S), NEW n \in Nat, Len(s) \in Nat, n <= Len(s)
    PROVE  /\ SubSeq(s, 1, n) \in Seq(S)
           /\ Len(SubSeq(s, 1, n)) = n
           /\ \A i \in 1 .. n : SubSeq(s, 1, n)[i] = s[i]
<1>1. \A i \in 1 .. n : s[i] \in S
  <2>1. \A i \in 1 .. n : i \in 1 .. Len(s)
    OBVIOUS
  <2> QED  BY <2>1, ElementOfSeq
<1>2. /\ SubSeq(s, 1, n) \in Seq(S)
      /\ Len(SubSeq(s, 1, n)) = IF 1 <= n THEN n - 1 + 1 ELSE 0
      /\ \A i \in 1 .. n - 1 + 1 : SubSeq(s, 1, n)[i] = s[1 + i - 1]
  BY <1>1, SubSeqProperties
<1>3. n - 1 + 1 = n /\ (IF 1 <= n THEN n ELSE 0) = n
  OBVIOUS
<1>4. \A i \in 1 .. n : 1 + i - 1 = i
  OBVIOUS
<1> QED  BY <1>2, <1>3, <1>4

LEMMA PrefixOfJoin ==
    ASSUME NEW S, NEW u \in Seq(S), NEW s \in Seq(S), NEW t, NEW n \in Nat,
           Len(s) \in Nat, IsJoin(u, s, t, Len(s), n)
    PROVE  SubSeq(u, 1, Len(s)) = s
<1>1. Len(u) = Len(s) + n /\ \A i \in 1 .. Len(s) : u[i] = s[i]
  BY DEF IsJoin
<1>2. Len(s) <= Len(u) /\ Len(u) \in Nat
  BY <1>1
<1>3. /\ SubSeq(u, 1, Len(s)) \in Seq(S)
      /\ Len(SubSeq(u, 1, Len(s))) = Len(s)
      /\ \A i \in 1 .. Len(s) : SubSeq(u, 1, Len(s))[i] = u[i]
  BY <1>2, Shortened
<1> QED  BY <1>1, <1>3, SeqEqual

LEMMA SuffixOfJoin ==
    ASSUME NEW S, NEW u \in Seq(S), NEW s, NEW t \in Seq(S), NEW m \in Nat,
           Len(t) \in Nat, IsJoin(u, s, t, m, Len(t))
    PROVE  SubSeq(u, m + 1, Len(u)) = t
<1>1. Len(u) = m + Len(t) /\ \A i \in 1 .. Len(t) : u[m + i] = t[i]
  BY DEF IsJoin
<1>2. \A i \in m + 1 .. Len(u) : u[i] \in S
  <2>1. \A i \in m + 1 .. Len(u) : i \in 1 .. Len(u)
    BY <1>1
  <2> QED  BY <2>1, ElementOfSeq
<1>3. m + 1 \in Int /\ Len(u) \in Int
  BY <1>1
<1>4. /\ SubSeq(u, m + 1, Len(u)) \in Seq(S)
      /\ Len(SubSeq(u, m + 1, Len(u))) =
            IF m + 1 <= Len(u) THEN Len(u) - (m + 1) + 1 ELSE 0
      /\ \A i \in 1 .. Len(u) - (m + 1) + 1 :
            SubSeq(u, m + 1, Len(u))[i] = u[m + 1 + i - 1]
  BY <1>2, <1>3, SubSeqProperties
<1>5. Len(SubSeq(u, m + 1, Len(u))) = Len(t)
  BY <1>1, <1>4
<1>6. ASSUME NEW i \in 1 .. Len(t)
      PROVE  SubSeq(u, m + 1, Len(u))[i] = t[i]
  <2>1. i \in 1 .. Len(u) - (m + 1) + 1 /\ m + 1 + i - 1 = m + i
    BY <1>1
  <2> QED  BY <1>1, <1>4, <2>1
<1> QED  BY <1>4, <1>5, <1>6, SeqEqual

LEMMA Weights ==
    Weight[0] = 1 /\ Weight[1] = 128 /\ Weight[2] = (128 * 128) /\ Weight[3] = (128 * 128 * 128)
      /\ Weight[4] = (128 * 128 * 128 * 128)
<1>1. /\ 128 ^ 0 = 1 /\ 128 ^ 1 = 128 /\ 128 ^ 2 = (128 * 128) /\ 128 ^ 3 = (128 * 128 * 128)
      /\ 128 ^ 4 = (128 * 128 * 128 * 128)
  OBVIOUS
<1>2. /\ 0 \in 0 .. MaxVarintBytes /\ 1 \in 0 .. MaxVarintBytes /\ 2 \in 0 .. MaxVarintBytes
      /\ 3 \in 0 .. MaxVarintBytes /\ 4 \in 0 .. MaxVarintBytes
  BY DEF MaxVarintBytes
<1> QED  BY <1>1, <1>2 DEF Weight

(* A length takes one to four octets, and no more than it needs. *)
LEMMA SizeOfLength ==
    ASSUME NEW value \in Nat, value < (128 * 128 * 128 * 128)
    PROVE  /\ VarintSize(value) \in 1 .. 4
           /\ value < Weight[VarintSize(value)]
           /\ VarintSize(value) = 1 \/ value >= Weight[VarintSize(value) - 1]
<1> DEFINE Fits(size) == value < Weight[size] /\ (size = 1 \/ value >= Weight[size - 1])
<1>1. \E size \in 1 .. MaxVarintBytes : Fits(size)
  <2>1. CASE value < 128
    <3>1. Fits(1) /\ 1 \in 1 .. MaxVarintBytes
      BY <2>1, Weights DEF MaxVarintBytes
    <3> QED  BY <3>1
  <2>2. CASE value >= 128 /\ value < (128 * 128)
    <3>1. Fits(2) /\ 2 \in 1 .. MaxVarintBytes
      BY <2>2, Weights DEF MaxVarintBytes
    <3> QED  BY <3>1
  <2>3. CASE value >= (128 * 128) /\ value < (128 * 128 * 128)
    <3>1. Fits(3) /\ 3 \in 1 .. MaxVarintBytes
      BY <2>3, Weights DEF MaxVarintBytes
    <3> QED  BY <3>1
  <2>4. CASE value >= (128 * 128 * 128)
    <3>1. Fits(4) /\ 4 \in 1 .. MaxVarintBytes
      BY <2>4, Weights DEF MaxVarintBytes
    <3> QED  BY <3>1
  <2> QED  BY <2>1, <2>2, <2>3, <2>4
<1>2. VarintSize(value) \in 1 .. MaxVarintBytes /\ Fits(VarintSize(value))
  <2> HIDE DEF Fits
  <2>1. VarintSize(value) = CHOOSE size \in 1 .. MaxVarintBytes : Fits(size)
    BY DEF VarintSize, Fits
  <2> QED  BY <1>1, <2>1
<1> QED  BY <1>2 DEF MaxVarintBytes

(* The digits of a number in base 128. *)
LEMMA Septet ==
    ASSUME NEW value \in Nat, NEW weight \in Nat \ {0}
    PROVE  /\ (value \div weight) % 128 \in 0 .. 127
           /\ ((value \div weight) % 128) + 128 \in 128 .. 255
           /\ (((value \div weight) % 128) + 128) % 128 = (value \div weight) % 128
           /\ ((value \div weight) % 128) % 128 = (value \div weight) % 128
<1>1. value \div weight \in Nat
  OBVIOUS
<1>2. PICK part \in Nat : part = value \div weight
  BY <1>1
<1> QED  BY <1>2

(* A number of one to four digits in base 128 is the sum of its digits. *)
LEMMA Septets ==
    ASSUME NEW value \in Nat
    PROVE  /\ value < 128 => value = value % 128
           /\ value < (128 * 128) => value = (value % 128) + 128 * ((value \div 128) % 128)
           /\ value < (128 * 128 * 128) =>
                value = (value % 128) + 128 * ((value \div 128) % 128)
                          + (128 * 128) * ((value \div (128 * 128)) % 128)
           /\ value < (128 * 128 * 128 * 128) =>
                value = (value % 128) + 128 * ((value \div 128) % 128)
                          + (128 * 128) * ((value \div (128 * 128)) % 128)
                          + (128 * 128 * 128) * ((value \div (128 * 128 * 128)) % 128)
OBVIOUS

(* A length that data holds after the first offset octets. *)
Holds(data, offset, value) ==
    /\ Len(data) >= offset + VarintSize(value)
    /\ \A i \in 1 .. VarintSize(value) : data[offset + i] = EncodeVarint(value)[i]

(* All octets of a length but the last are 128 or more. *)
LEMMA EncodedLength ==
    ASSUME NEW value \in Nat, value < (128 * 128 * 128 * 128)
    PROVE  /\ EncodeVarint(value) \in Seq(Octet)
           /\ Len(EncodeVarint(value)) = VarintSize(value)
           /\ \A i \in 1 .. VarintSize(value) :
                /\ EncodeVarint(value)[i] =
                     ((value \div Weight[i - 1]) % 128)
                       + (IF i < VarintSize(value) THEN 128 ELSE 0)
                /\ EncodeVarint(value)[i] % 128 = (value \div Weight[i - 1]) % 128
                /\ i < VarintSize(value) <=> EncodeVarint(value)[i] >= 128
                /\ EncodeVarint(value)[i] \in Octet
<1> DEFINE e == EncodeVarint(value)
           s == VarintSize(value)
<1>1. s \in 1 .. 4
  BY SizeOfLength
<1>2. e = [i \in 1 .. s |-> ((value \div Weight[i - 1]) % 128) + (IF i < s THEN 128 ELSE 0)]
  BY DEF EncodeVarint
<1>3. ASSUME NEW i \in 1 .. s
      PROVE  /\ e[i] = ((value \div Weight[i - 1]) % 128) + (IF i < s THEN 128 ELSE 0)
             /\ e[i] % 128 = (value \div Weight[i - 1]) % 128
             /\ i < s <=> e[i] >= 128
             /\ e[i] \in Octet
  <2>1. i - 1 \in 0 .. 3 /\ Weight[i - 1] \in Nat \ {0}
    BY <1>1, Weights
  <2>2. e[i] = ((value \div Weight[i - 1]) % 128) + (IF i < s THEN 128 ELSE 0)
    BY <1>2
  <2> HIDE DEF e, s
  <2>3. CASE i < s
    <3>1. e[i] = ((value \div Weight[i - 1]) % 128) + 128
      BY <2>2, <2>3
    <3> QED  BY <3>1, <2>1, <2>2, <2>3, Septet DEF Octet
  <2>4. CASE ~ (i < s)
    <3>1. (value \div Weight[i - 1]) % 128 \in 0 .. 127
      BY <2>1, Septet
    <3>2. e[i] = ((value \div Weight[i - 1]) % 128)
      BY <2>2, <2>4, <3>1
    <3>3. PICK digit \in 0 .. 127 : digit = (value \div Weight[i - 1]) % 128
      BY <3>1
    <3>4. e[i] = digit /\ e[i] % 128 = digit
      BY <3>2, <3>3
    <3>5. ~ (e[i] >= 128) /\ e[i] \in Octet
      BY <3>4 DEF Octet
    <3> QED  BY <3>3, <3>4, <3>5, <2>2, <2>4
  <2> QED  BY <2>3, <2>4
<1>4. e \in Seq(Octet) /\ Len(e) = s
  <2>1. e \in [1 .. s -> Octet]
    <3>1. e = [i \in 1 .. s |-> e[i]]
      BY <1>2
    <3> HIDE DEF e, s
    <3> QED  BY <3>1, <1>3
  <2>2. s \in Nat
    BY <1>1
  <2> HIDE DEF e, s
  <2>3. e \in Seq(Octet)
    BY <2>1, <2>2
  <2> QED  BY <2>1, <2>2, <2>3, LenProperties
<1> HIDE DEF e, s
<1>5. \A i \in 1 .. s :
             /\ e[i] = ((value \div Weight[i - 1]) % 128) + (IF i < s THEN 128 ELSE 0)
             /\ e[i] % 128 = (value \div Weight[i - 1]) % 128
             /\ i < s <=> e[i] >= 128
             /\ e[i] \in Octet
  BY <1>3
<1> QED  BY <1>4, <1>5 DEF e, s

(* decode_varint gives back what encode_varint wrote, wherever it stands   *)
(* and whatever follows.                                                   *)
LEMMA DecodedLength ==
    ASSUME NEW data, Len(data) \in Nat, NEW offset \in Nat,
           NEW value \in Nat, value < (128 * 128 * 128 * 128),
           Holds(data, offset, value)
    PROVE  DecodeVarint(data, offset) = [value |-> value, consumed |-> VarintSize(value)]
<1> DEFINE EndsAt(index) ==
             /\ offset + index < Len(data)
             /\ data[offset + index + 1] < 128
             /\ \A i \in 0 .. index - 1 : data[offset + i + 1] >= 128
           Index == CHOOSE index \in 0 .. MaxVarintBytes - 1 : EndsAt(index)
           Part(i) ==
             IF i <= Index THEN (data[offset + i + 1] % 128) * Weight[i] ELSE 0
           s == VarintSize(value)
           Digit(i) == (value \div Weight[i]) % 128
<1>1. s \in 1 .. 4 /\ value < Weight[s] /\ Len(data) >= offset + s
  BY SizeOfLength DEF Holds
<1>2. \A i \in 0 .. s - 1 :
        /\ data[offset + i + 1] = EncodeVarint(value)[i + 1]
        /\ data[offset + i + 1] \in Octet
        /\ data[offset + i + 1] % 128 = Digit(i)
        /\ i < s - 1 <=> data[offset + i + 1] >= 128
  <2> HIDE DEF s
  <2>1. TAKE i \in 0 .. s - 1
  <2>2. i + 1 \in 1 .. s /\ i + 1 - 1 = i /\ offset + (i + 1) = offset + i + 1
        /\ (i < s - 1 <=> i + 1 < s)
    BY <1>1
  <2>3. data[offset + i + 1] = EncodeVarint(value)[i + 1]
    BY <2>2 DEF Holds, s
  <2>4. /\ EncodeVarint(value)[i + 1] % 128 = Digit(i)
        /\ i + 1 < s <=> EncodeVarint(value)[i + 1] >= 128
        /\ EncodeVarint(value)[i + 1] \in Octet
    BY <2>2, EncodedLength DEF s
  <2> QED  BY <2>2, <2>3, <2>4
<1> HIDE DEF s, Digit
<1>3. EndsAt(s - 1) /\ s - 1 \in 0 .. MaxVarintBytes - 1
  <2>1. s - 1 \in 0 .. MaxVarintBytes - 1
    BY <1>1 DEF MaxVarintBytes
  <2>2. offset + (s - 1) < Len(data)
    BY <1>1
  <2>3. data[offset + (s - 1) + 1] < 128
    <3>1. s - 1 \in 0 .. s - 1 /\ ~ (s - 1 < s - 1)
      BY <1>1
    <3>2. data[offset + (s - 1) + 1] \in Octet /\ ~ (data[offset + (s - 1) + 1] >= 128)
      BY <1>2, <3>1
    <3> QED  BY <3>2 DEF Octet
  <2>4. \A i \in 0 .. s - 1 - 1 : data[offset + i + 1] >= 128
    <3>1. \A i \in 0 .. s - 1 - 1 : i \in 0 .. s - 1 /\ i < s - 1
      BY <1>1
    <3> QED  BY <1>2, <3>1
  <2> QED  BY <2>1, <2>2, <2>3, <2>4
<1>4. \A index \in 0 .. MaxVarintBytes - 1 : EndsAt(index) => index = s - 1
  <2> SUFFICES ASSUME NEW index \in 0 .. MaxVarintBytes - 1, EndsAt(index)
               PROVE  index = s - 1
    OBVIOUS
  <2>1. index \in Int /\ index >= 0
    BY DEF MaxVarintBytes
  <2>2. CASE index < s - 1
    <3>1. index \in 0 .. s - 1
      BY <2>1, <2>2, <1>1
    <3>2. data[offset + index + 1] >= 128 /\ data[offset + index + 1] \in Octet
      BY <3>1, <2>2, <1>2
    <3> QED  BY <3>2 DEF Octet
  <2>3. CASE index > s - 1
    <3>1. s - 1 \in 0 .. index - 1
      BY <2>1, <2>3, <1>1
    <3>2. data[offset + (s - 1) + 1] >= 128 /\ data[offset + (s - 1) + 1] < 128
      BY <3>1, <1>3
    <3>3. s - 1 \in 0 .. s - 1
      BY <1>1
    <3>4. data[offset + (s - 1) + 1] \in Octet
      BY <3>3, <1>2
    <3> QED  BY <3>2, <3>4 DEF Octet
  <2> QED  BY <2>1, <2>2, <2>3, <1>1
<1>5. Index = s - 1
  <2> HIDE DEF EndsAt
  <2> QED  BY <1>3, <1>4
<1>6. DecodeVarint(data, offset) =
        [value |-> Part(0) + Part(1) + Part(2) + Part(3), consumed |-> Index + 1]
  <2>1. DecodeVarint(data, offset) =
          IF \E index \in 0 .. MaxVarintBytes - 1 : EndsAt(index)
          THEN [value |-> Part(0) + Part(1) + Part(2) + Part(3), consumed |-> Index + 1]
          ELSE IF Len(data) < offset + MaxVarintBytes THEN Failure("incomplete")
          ELSE Failure("invalid")
    BY DEF DecodeVarint
  <2> HIDE DEF EndsAt, Part, Index
  <2> QED  BY <2>1, <1>3
<1> HIDE DEF EndsAt, Index
<1>7. ASSUME NEW i \in 0 .. 3
      PROVE  Part(i) = IF i < s THEN Digit(i) * Weight[i] ELSE 0
  <2>1. i <= Index <=> i < s
    BY <1>1, <1>5
  <2>2. CASE i < s
    <3>1. i \in 0 .. s - 1
      BY <1>1, <2>2
    <3>2. Part(i) = (data[offset + i + 1] % 128) * Weight[i]
      BY <2>1, <2>2
    <3>3. data[offset + i + 1] % 128 = Digit(i)
      BY <3>1, <1>2
    <3> HIDE DEF Part
    <3> QED  BY <3>2, <3>3, <2>2
  <2>3. CASE ~ (i < s)
    <3>1. Part(i) = 0
      BY <2>1, <2>3
    <3> HIDE DEF Part
    <3> QED  BY <3>1, <2>3
  <2> QED  BY <2>2, <2>3
<1>8. Part(0) + Part(1) + Part(2) + Part(3) = value
  <2> HIDE DEF Part
  <2>1. /\ Digit(0) = value % 128
        /\ Digit(1) = (value \div 128) % 128
        /\ Digit(2) = (value \div (128 * 128)) % 128
        /\ Digit(3) = (value \div (128 * 128 * 128)) % 128
    BY Weights DEF Digit
  <2>2. /\ Digit(0) \in Nat /\ Digit(1) \in Nat /\ Digit(2) \in Nat /\ Digit(3) \in Nat
    BY <2>1
  <2>3. /\ Part(0) = Digit(0)
        /\ Part(1) = IF s > 1 THEN 128 * Digit(1) ELSE 0
        /\ Part(2) = IF s > 2 THEN (128 * 128) * Digit(2) ELSE 0
        /\ Part(3) = IF s > 3 THEN (128 * 128 * 128) * Digit(3) ELSE 0
    <3>1. Part(0) = Digit(0)
      BY <1>1, <1>7, <2>2, Weights
    <3>2. Part(1) = IF s > 1 THEN 128 * Digit(1) ELSE 0
      BY <1>1, <1>7, <2>2, Weights
    <3>3. Part(2) = IF s > 2 THEN (128 * 128) * Digit(2) ELSE 0
      BY <1>1, <1>7, <2>2, Weights
    <3>4. Part(3) = IF s > 3 THEN (128 * 128 * 128) * Digit(3) ELSE 0
      BY <1>1, <1>7, <2>2, Weights
    <3> QED  BY <3>1, <3>2, <3>3, <3>4
  <2>4. CASE s = 1
    <3>1. value = Digit(0)
      BY <2>1, <2>4, <1>1, Weights, Septets
    <3> QED  BY <2>2, <2>3, <2>4, <3>1
  <2>5. CASE s = 2
    <3>1. value = Digit(0) + 128 * Digit(1)
      <4>1. value < 128 * 128
        BY <1>1, <2>5, Weights
      <4> QED  BY <4>1, <2>1, Septets
    <3> QED  BY <2>2, <2>3, <2>5, <3>1
  <2>6. CASE s = 3
    <3>1. value = Digit(0) + 128 * Digit(1) + (128 * 128) * Digit(2)
      <4>1. value < 128 * 128 * 128
        BY <1>1, <2>6, Weights
      <4> QED  BY <4>1, <2>1, Septets
    <3> QED  BY <2>2, <2>3, <2>6, <3>1
  <2>7. CASE s = 4
    <3>1. value = Digit(0) + 128 * Digit(1) + (128 * 128) * Digit(2)
                    + (128 * 128 * 128) * Digit(3)
      BY <2>1, <2>7, Septets
    <3> QED  BY <2>2, <2>3, <2>7, <3>1
  <2> QED  BY <1>1, <2>4, <2>5, <2>6, <2>7
<1>9. Index + 1 = s
  BY <1>1, <1>5
<1> HIDE DEF Part
<1> QED  BY <1>6, <1>8, <1>9 DEF s


(* A length that is cut off does not decode. *)
LEMMA TornLength ==
    ASSUME NEW data, Len(data) \in Nat, NEW offset \in Nat,
           NEW value \in Nat, value < (128 * 128 * 128 * 128),
           Len(data) < offset + VarintSize(value),
           \A i \in 1 .. VarintSize(value) :
             offset + i <= Len(data) => data[offset + i] = EncodeVarint(value)[i]
    PROVE  DecodeVarint(data, offset) = Failure("incomplete")
<1> DEFINE EndsAt(index) ==
             /\ offset + index < Len(data)
             /\ data[offset + index + 1] < 128
             /\ \A i \in 0 .. index - 1 : data[offset + i + 1] >= 128
           Index == CHOOSE index \in 0 .. MaxVarintBytes - 1 : EndsAt(index)
           Part(i) ==
             IF i <= Index THEN (data[offset + i + 1] % 128) * Weight[i] ELSE 0
           s == VarintSize(value)
<1>1. s \in 1 .. 4
  BY SizeOfLength
<1>2. ASSUME NEW index \in 0 .. MaxVarintBytes - 1, EndsAt(index)
      PROVE  FALSE
  <2>1. index \in Nat /\ offset + index < Len(data) /\ data[offset + index + 1] < 128
    BY <1>2
  <2> HIDE DEF EndsAt
  <2>2. index + 1 \in 1 .. s /\ index + 1 < s
    BY <2>1, <1>1 DEF s
  <2>3. offset + (index + 1) = offset + index + 1 /\ offset + (index + 1) <= Len(data)
    BY <2>1
  <2>4. data[offset + index + 1] = EncodeVarint(value)[index + 1]
    BY <2>2, <2>3
  <2>5. EncodeVarint(value)[index + 1] >= 128 /\ EncodeVarint(value)[index + 1] \in Octet
    BY <2>2, EncodedLength
  <2> QED  BY <2>1, <2>4, <2>5 DEF Octet
<1>3. DecodeVarint(data, offset) =
        IF \E index \in 0 .. MaxVarintBytes - 1 : EndsAt(index)
        THEN [value |-> Part(0) + Part(1) + Part(2) + Part(3), consumed |-> Index + 1]
        ELSE IF Len(data) < offset + MaxVarintBytes THEN Failure("incomplete")
        ELSE Failure("invalid")
  BY DEF DecodeVarint
<1>4. Len(data) < offset + MaxVarintBytes
  BY <1>1 DEF MaxVarintBytes, s
<1> HIDE DEF EndsAt, Part, Index
<1> QED  BY <1>2, <1>3, <1>4

-----------------------------------------------------------------------------
(* Frames *)

BodyOf(frame) ==
    <<frame.flag, frame.command \div 256, frame.command % 256>> \o frame.payload

LEMMA BodyOctets ==
    ASSUME NEW frame \in GizwitsFrame
    PROVE  /\ BodyOf(frame) \in Seq(Octet)
           /\ Len(frame.payload) \in Nat
           /\ Len(BodyOf(frame)) = Len(frame.payload) + 3
           /\ BodyOf(frame)[1] = frame.flag
           /\ BodyOf(frame)[2] = frame.command \div 256
           /\ BodyOf(frame)[3] = frame.command % 256
           /\ \A i \in 1 .. Len(frame.payload) : BodyOf(frame)[3 + i] = frame.payload[i]
<1> DEFINE header == <<frame.flag, frame.command \div 256, frame.command % 256>>
<1>1. frame.flag \in Octet /\ frame.command \in 0 .. 2 ^ 16 - 1 /\ frame.payload \in Seq(Octet)
  BY DEF GizwitsFrame
<1>2. frame.command \div 256 \in Octet /\ frame.command % 256 \in Octet
  <2>1. PICK command \in Nat : command = frame.command /\ command < 256 * 256
    BY <1>1
  <2>2. command \div 256 \in 0 .. 255 /\ command % 256 \in 0 .. 255
    BY <2>1
  <2> QED  BY <2>1, <2>2 DEF Octet
<1>3. header \in Seq(Octet) /\ Len(header) = 3
  BY <1>1, <1>2
<1>4. header[1] = frame.flag /\ header[2] = frame.command \div 256
        /\ header[3] = frame.command % 256
  OBVIOUS
<1>5. BodyOf(frame) = header \o frame.payload
  BY DEF BodyOf
<1> HIDE DEF header
<1>6. Len(frame.payload) \in Nat
  BY <1>1, LenProperties
<1>7. /\ header \o frame.payload \in Seq(Octet)
      /\ Len(header \o frame.payload) = 3 + Len(frame.payload)
      /\ \A i \in 1 .. 3 : (header \o frame.payload)[i] = header[i]
      /\ \A i \in 1 .. Len(frame.payload) :
            (header \o frame.payload)[3 + i] = frame.payload[i]
  <2>1. header \o frame.payload \in Seq(Octet)
        /\ IsJoin(header \o frame.payload, header, frame.payload, 3, Len(frame.payload))
    BY <1>1, <1>3, <1>6, Joined
  <2> QED  BY <2>1 DEF IsJoin
<1>8. BodyOf(frame)[1] = frame.flag /\ BodyOf(frame)[2] = frame.command \div 256
        /\ BodyOf(frame)[3] = frame.command % 256
  BY <1>4, <1>5, <1>7
<1> QED  BY <1>5, <1>6, <1>7, <1>8

BodySize(frame) == Len(frame.payload) + 3

SizeOctets(frame) == VarintSize(BodySize(frame))

(* A frame on the wire: magic, length and body. *)
LEMMA EncodedFrame ==
    ASSUME NEW frame \in GizwitsFrame, Sendable(frame)
    PROVE  /\ EncodeFrame(frame) \in Seq(Octet)
           /\ BodySize(frame) \in 3 .. MaxBodySize
           /\ SizeOctets(frame) \in 1 .. 4
           /\ BodySize(frame) \in Nat /\ BodySize(frame) < (128 * 128 * 128 * 128)
           /\ Len(EncodeFrame(frame)) = 4 + SizeOctets(frame) + BodySize(frame)
           /\ \A i \in 1 .. 4 : EncodeFrame(frame)[i] = Magic[i]
           /\ \A i \in 1 .. SizeOctets(frame) :
                 EncodeFrame(frame)[4 + i] = EncodeVarint(BodySize(frame))[i]
           /\ \A i \in 1 .. BodySize(frame) :
                 EncodeFrame(frame)[4 + SizeOctets(frame) + i] = BodyOf(frame)[i]
<1> DEFINE size == BodySize(frame)
           octets == SizeOctets(frame)
           length == EncodeVarint(size)
           body == BodyOf(frame)
<1>1. /\ body \in Seq(Octet) /\ Len(body) = size /\ size \in Nat /\ size >= 3
  BY BodyOctets DEF BodySize
<1>2. size <= MaxBodySize
  BY BodyOctets DEF Sendable, MinBodySize, BodySize
<1>3. size < (128 * 128 * 128 * 128) /\ size \in 3 .. MaxBodySize
  <2>1. MaxBodySize \in Nat /\ MaxBodySize < 128 * 128 * 128 * 128
    BY DEF MaxBodySize
  <2> HIDE DEF size
  <2> QED  BY <1>1, <1>2, <2>1
<1>4. length \in Seq(Octet) /\ Len(length) = octets /\ octets \in 1 .. 4
  BY <1>1, <1>3, EncodedLength, SizeOfLength DEF SizeOctets
<1>5. Magic \in Seq(Octet) /\ Len(Magic) = 4
  BY DEF Magic, Octet
<1>6. EncodeFrame(frame) = (Magic \o length) \o body
  <2>1. EncodeFrame(frame) =
          IF Len(body) > MaxBodySize THEN Failure("too large")
          ELSE (Magic \o EncodeVarint(Len(body))) \o body
    BY DEF EncodeFrame, BodyOf
  <2>2. ~ (Len(body) > MaxBodySize)
    <3>1. MaxBodySize \in Nat
      BY DEF MaxBodySize
    <3> HIDE DEF size, body
    <3> QED  BY <1>1, <1>2, <3>1
  <2> HIDE DEF size, body
  <2> QED  BY <1>1, <2>1, <2>2
<1> HIDE DEF size, octets, length, body
<1>7. /\ Magic \o length \in Seq(Octet)
      /\ Len(Magic \o length) = 4 + octets
      /\ \A i \in 1 .. 4 : (Magic \o length)[i] = Magic[i]
      /\ \A i \in 1 .. octets : (Magic \o length)[4 + i] = length[i]
  <2>1. octets \in Nat /\ 4 \in Nat
    BY <1>4
  <2>2. Magic \o length \in Seq(Octet) /\ IsJoin(Magic \o length, Magic, length, 4, octets)
    BY <2>1, <1>4, <1>5, Joined
  <2> QED  BY <2>2 DEF IsJoin
<1>8. /\ EncodeFrame(frame) \in Seq(Octet)
      /\ Len(EncodeFrame(frame)) = 4 + octets + size
      /\ \A i \in 1 .. 4 + octets : EncodeFrame(frame)[i] = (Magic \o length)[i]
      /\ \A i \in 1 .. size : EncodeFrame(frame)[4 + octets + i] = body[i]
  <2>1. 4 + octets \in Nat
    BY <1>4
  <2>2. PICK head \in Nat : head = 4 + octets
    BY <2>1
  <2>3. /\ EncodeFrame(frame) \in Seq(Octet)
        /\ Len(EncodeFrame(frame)) = head + size
        /\ \A i \in 1 .. head : EncodeFrame(frame)[i] = (Magic \o length)[i]
        /\ \A i \in 1 .. size : EncodeFrame(frame)[head + i] = body[i]
    <3>1. (Magic \o length) \o body \in Seq(Octet)
          /\ IsJoin((Magic \o length) \o body, Magic \o length, body, head, size)
      BY <2>2, <1>1, <1>7, Joined
    <3> QED  BY <3>1, <1>6 DEF IsJoin
  <2> QED  BY <2>2, <2>3
<1>9. \A i \in 1 .. 4 : EncodeFrame(frame)[i] = Magic[i]
  <2>1. \A i \in 1 .. 4 : i \in 1 .. 4 + octets
    BY <1>4
  <2> QED  BY <1>7, <1>8, <2>1
<1>10. \A i \in 1 .. octets : EncodeFrame(frame)[4 + i] = length[i]
  <2>1. \A i \in 1 .. octets : 4 + i \in 1 .. 4 + octets
    BY <1>4
  <2> QED  BY <1>7, <1>8, <2>1
<1> QED  BY <1>1, <1>3, <1>4, <1>8, <1>9, <1>10 DEF size, octets, length, body


(* Data that begins as a frame on the wire does, as far as it goes. *)
Begins(data, frame) ==
    /\ data \in Seq(Octet)
    /\ \A i \in 1 .. Len(EncodeFrame(frame)) :
         i <= Len(data) => data[i] = EncodeFrame(frame)[i]

LEMMA MagicAhead ==
    ASSUME NEW frame \in GizwitsFrame, Sendable(frame),
           NEW data, Begins(data, frame), Len(data) >= 4
    PROVE  StartsWithMagic(data)
<1>1. data \in Seq(Octet) /\ Len(data) \in Nat
  BY LenProperties DEF Begins
<1>2. Magic \in Seq(Octet) /\ Len(Magic) = 4
  BY DEF Magic, Octet
<1>3. \A i \in 1 .. 4 : data[i] = Magic[i] /\ data[i] \in Octet
  <2>1. TAKE i \in 1 .. 4
  <2>2. i \in 1 .. Len(EncodeFrame(frame)) /\ i <= Len(data) /\ i \in 1 .. Len(data)
    BY <1>1, EncodedFrame
  <2>3. data[i] = EncodeFrame(frame)[i]
    BY <2>2 DEF Begins
  <2> QED  BY <1>1, <2>2, <2>3, EncodedFrame, ElementOfSeq
<1>4. /\ SubSeq(data, 1, 4) \in Seq(Octet)
      /\ Len(SubSeq(data, 1, 4)) = 4
      /\ \A i \in 1 .. 4 : SubSeq(data, 1, 4)[i] = data[i]
  <2>1. /\ SubSeq(data, 1, 4) \in Seq(Octet)
        /\ Len(SubSeq(data, 1, 4)) = IF 1 <= 4 THEN 4 - 1 + 1 ELSE 0
        /\ \A i \in 1 .. 4 - 1 + 1 : SubSeq(data, 1, 4)[i] = data[1 + i - 1]
    BY <1>3, SubSeqProperties
  <2>2. \A i \in 1 .. 4 : 1 + i - 1 = i
    OBVIOUS
  <2> QED  BY <2>1, <2>2
<1>5. SubSeq(data, 1, 4) = Magic
  BY <1>2, <1>3, <1>4, SeqEqual
<1> QED  BY <1>1, <1>2, <1>5 DEF StartsWithMagic

(* Once the length is there, so is the place where the frame ends. *)
LEMMA EndOfFrame ==
    ASSUME NEW frame \in GizwitsFrame, Sendable(frame),
           NEW data, Begins(data, frame), Len(data) >= 4 + SizeOctets(frame)
    PROVE  FrameEnd(data) = [start |-> 4 + SizeOctets(frame),
                             end   |-> Len(EncodeFrame(frame))]
<1>1. data \in Seq(Octet) /\ Len(data) \in Nat
  BY LenProperties DEF Begins
<1>2. Len(Magic) = 4
  BY DEF Magic
<1>3. Holds(data, 4, BodySize(frame))
  <2>1. Len(data) >= 4 + VarintSize(BodySize(frame))
    BY DEF SizeOctets
  <2>2. ASSUME NEW i \in 1 .. SizeOctets(frame)
        PROVE  data[4 + i] = EncodeVarint(BodySize(frame))[i]
    <3>1. /\ SizeOctets(frame) \in Nat /\ BodySize(frame) \in Nat
          /\ Len(EncodeFrame(frame)) = 4 + SizeOctets(frame) + BodySize(frame)
      BY EncodedFrame
    <3>2. 4 + i \in 1 .. Len(EncodeFrame(frame)) /\ 4 + i <= Len(data)
      BY <1>1, <3>1
    <3>3. data[4 + i] = EncodeFrame(frame)[4 + i]
      BY <3>2 DEF Begins
    <3> QED  BY <3>3, EncodedFrame
  <2> QED  BY <2>1, <2>2 DEF Holds, SizeOctets
<1>4. DecodeVarint(data, 4) = [value |-> BodySize(frame), consumed |-> SizeOctets(frame)]
  BY <1>1, <1>3, EncodedFrame, DecodedLength DEF SizeOctets
<1>5. /\ ~ Failed([value |-> BodySize(frame), consumed |-> SizeOctets(frame)])
      /\ ~ (BodySize(frame) < MinBodySize) /\ ~ (BodySize(frame) > MaxBodySize)
  <2>1. ~ Failed([value |-> BodySize(frame), consumed |-> SizeOctets(frame)])
    BY DEF Failed
  <2>2. MaxBodySize \in Nat
    BY DEF MaxBodySize
  <2>3. BodySize(frame) >= 3 /\ BodySize(frame) <= MaxBodySize /\ BodySize(frame) \in Nat
    BY <2>2, EncodedFrame
  <2> QED  BY <2>1, <2>2, <2>3 DEF MinBodySize
<1>6. FrameEnd(data) =
        [start |-> Len(Magic) + SizeOctets(frame),
         end   |-> Len(Magic) + SizeOctets(frame) + BodySize(frame)]
  <2> DEFINE length == DecodeVarint(data, Len(Magic))
  <2>1. FrameEnd(data) =
          IF Failed(length) THEN length
          ELSE IF length.value < MinBodySize THEN Failure("invalid")
          ELSE IF length.value > MaxBodySize THEN Failure("too large")
          ELSE [start |-> Len(Magic) + length.consumed,
                end   |-> Len(Magic) + length.consumed + length.value]
    BY DEF FrameEnd
  <2>2. length = [value |-> BodySize(frame), consumed |-> SizeOctets(frame)]
    BY <1>2, <1>4
  <2> HIDE DEF length
  <2>3. /\ ~ Failed(length) /\ length.value = BodySize(frame)
        /\ length.consumed = SizeOctets(frame)
    BY <1>5, <2>2
  <2> QED  BY <1>5, <2>1, <2>3
<1> QED  BY <1>2, <1>6, EncodedFrame

(* Before that, no length is made of what is there. *)
LEMMA NoEndYet ==
    ASSUME NEW frame \in GizwitsFrame, Sendable(frame),
           NEW data, Begins(data, frame), Len(data) < 4 + SizeOctets(frame)
    PROVE  FrameEnd(data) = Failure("incomplete")
<1>1. data \in Seq(Octet) /\ Len(data) \in Nat
  BY LenProperties DEF Begins
<1>2. Len(Magic) = 4
  BY DEF Magic
<1>3. ASSUME NEW i \in 1 .. SizeOctets(frame), 4 + i <= Len(data)
      PROVE  data[4 + i] = EncodeVarint(BodySize(frame))[i]
  <2>1. /\ SizeOctets(frame) \in Nat /\ BodySize(frame) \in Nat
        /\ Len(EncodeFrame(frame)) = 4 + SizeOctets(frame) + BodySize(frame)
    BY EncodedFrame
  <2>2. 4 + i \in 1 .. Len(EncodeFrame(frame))
    BY <2>1
  <2>3. data[4 + i] = EncodeFrame(frame)[4 + i]
    BY <2>2, <1>3 DEF Begins
  <2> QED  BY <2>3, EncodedFrame
<1>4. DecodeVarint(data, 4) = Failure("incomplete")
  <2>1. BodySize(frame) \in Nat /\ BodySize(frame) < (128 * 128 * 128 * 128)
    BY EncodedFrame
  <2>2. Len(data) < 4 + VarintSize(BodySize(frame))
    BY DEF SizeOctets
  <2>3. \A i \in 1 .. VarintSize(BodySize(frame)) :
          4 + i <= Len(data) => data[4 + i] = EncodeVarint(BodySize(frame))[i]
    BY <1>3 DEF SizeOctets
  <2> QED  BY <1>1, <2>1, <2>2, <2>3, TornLength
<1>5. Failed(Failure("incomplete"))
  BY DEF Failed, Failure
<1> QED  BY <1>2, <1>4, <1>5 DEF FrameEnd

LEMMA OwnBytes ==
    ASSUME NEW frame \in GizwitsFrame, Sendable(frame)
    PROVE  Begins(EncodeFrame(frame), frame)
BY EncodedFrame DEF Begins

LEMMA FrameReadBack ==
    ASSUME NEW frame \in GizwitsFrame, Sendable(frame)
    PROVE  DecodeFrame(EncodeFrame(frame)) = frame /\ ~ Failed(frame)
<1> DEFINE data == EncodeFrame(frame)
           start == 4 + SizeOctets(frame)
           end == Len(data)
<1>1. /\ data \in Seq(Octet) /\ start \in Nat /\ end \in Nat
      /\ end = start + BodySize(frame) /\ BodySize(frame) = Len(frame.payload) + 3
      /\ Len(frame.payload) \in Nat
  <2>1. BodySize(frame) = Len(frame.payload) + 3 /\ Len(frame.payload) \in Nat
    BY BodyOctets DEF BodySize
  <2>2. /\ data \in Seq(Octet) /\ SizeOctets(frame) \in Nat /\ BodySize(frame) \in Nat
        /\ end = 4 + SizeOctets(frame) + BodySize(frame)
    BY EncodedFrame
  <2> HIDE DEF data, end
  <2> QED  BY <2>1, <2>2
<1>2. frame.flag \in Octet /\ frame.command \in 0 .. 2 ^ 16 - 1 /\ frame.payload \in Seq(Octet)
  BY DEF GizwitsFrame
<1>3. FrameEnd(data) = [start |-> start, end |-> end] /\ StartsWithMagic(data)
  <2>1. Begins(data, frame)
    BY OwnBytes
  <2>2. start \in Nat /\ SizeOctets(frame) \in Nat /\ BodySize(frame) \in Nat
    BY EncodedFrame
  <2>3. end >= start /\ end >= 4
    <3> HIDE DEF data, end
    <3> QED  BY <1>1, <2>2
  <2>4. StartsWithMagic(data)
    BY <2>1, <2>3, MagicAhead
  <2>5. FrameEnd(data) = [start |-> start, end |-> end]
    BY <2>1, <2>3, EndOfFrame
  <2> QED  BY <2>4, <2>5
<1>4. ASSUME NEW i \in 1 .. BodySize(frame) PROVE data[start + i] = BodyOf(frame)[i]
  BY EncodedFrame
<1> HIDE DEF data, start, end
<1>5. /\ data[start + 1] = frame.flag
      /\ data[start + 2] = frame.command \div 256
      /\ data[start + 3] = frame.command % 256
  <2>1. 1 \in 1 .. BodySize(frame) /\ 2 \in 1 .. BodySize(frame) /\ 3 \in 1 .. BodySize(frame)
    BY <1>1
  <2> QED  BY <1>4, <2>1, BodyOctets
<1>6. 256 * data[start + 2] + data[start + 3] = frame.command
  <2>1. PICK command \in Nat : command = frame.command
    BY <1>2
  <2>2. 256 * (command \div 256) + (command % 256) = command
    BY <2>1
  <2> QED  BY <1>5, <2>1, <2>2
<1>7. SubSeq(data, start + 4, end) = frame.payload
  <2>1. PICK n \in Nat : n = Len(frame.payload)
    BY <1>1
  <2>2. BodySize(frame) = n + 3 /\ end = start + 3 + n
    <3>1. BodySize(frame) = n + 3
      BY <1>1, <2>1
    <3>2. end = start + (n + 3)
      BY <1>1, <3>1
    <3>3. start + (n + 3) = start + 3 + n
      BY <1>1
    <3> QED  BY <3>1, <3>2, <3>3
  <2>3. ASSUME NEW i \in 1 .. n
        PROVE  data[start + 3 + i] = frame.payload[i]
    <3>1. 3 + i \in 1 .. BodySize(frame) /\ start + (3 + i) = start + 3 + i
      BY <1>1, <2>2
    <3> QED  BY <3>1, <1>4, <2>1, BodyOctets
  <2>4. \A i \in start + 4 .. end : data[i] \in Octet
    <3>1. \A i \in start + 4 .. end : i \in 1 .. Len(data)
      BY <1>1 DEF end
    <3> QED  BY <1>1, <3>1, ElementOfSeq
  <2>5. start + 4 \in Int /\ end \in Int
    BY <1>1
  <2>6. /\ SubSeq(data, start + 4, end) \in Seq(Octet)
        /\ Len(SubSeq(data, start + 4, end)) =
              IF start + 4 <= end THEN end - (start + 4) + 1 ELSE 0
        /\ \A i \in 1 .. end - (start + 4) + 1 :
              SubSeq(data, start + 4, end)[i] = data[start + 4 + i - 1]
    BY <2>4, <2>5, SubSeqProperties
  <2>7. Len(SubSeq(data, start + 4, end)) = n
    BY <1>1, <2>2, <2>6
  <2>8. ASSUME NEW i \in 1 .. n
        PROVE  SubSeq(data, start + 4, end)[i] = frame.payload[i]
    <3>1. i \in 1 .. end - (start + 4) + 1 /\ start + 4 + i - 1 = start + 3 + i
      BY <1>1, <2>2
    <3> QED  BY <2>3, <2>6, <3>1
  <2> QED  BY <1>2, <2>1, <2>6, <2>7, <2>8, SeqEqual
<1>8. frame = [flag |-> frame.flag, command |-> frame.command, payload |-> frame.payload]
  BY DEF GizwitsFrame
<1>9. ~ Failed(frame)
  BY <1>8 DEF Failed
<1>10. ~ Failed([start |-> start, end |-> end])
  BY DEF Failed
<1>11. DecodeFrame(data) =
         [flag    |-> data[start + 1],
          command |-> 256 * data[start + 2] + data[start + 3],
          payload |-> SubSeq(data, start + 4, end)]
  <2>1. ~ (Len(data) < end) /\ ~ (Len(data) > end)
    BY <1>1 DEF end
  <2> QED  BY <1>3, <1>10, <2>1 DEF DecodeFrame
<1> QED  BY <1>5, <1>6, <1>7, <1>8, <1>9, <1>11 DEF data

-----------------------------------------------------------------------------
(* FRAMES STAY APART.  What encode_frame writes, decode_frame and read_frame *)
(* give back as it was, for every flag, command and payload that fits, and   *)
(* read_frame leaves whatever follows in the stream for the next read: a     *)
(* stream is the sequence of frames that GizwitsSession takes it to be.      *)
THEOREM FramesStayApart ==
    ASSUME NEW frame \in GizwitsFrame, Sendable(frame), NEW rest \in Seq(Octet)
    PROVE  FramesKeepApart(frame, rest)
<1> DEFINE written == EncodeFrame(frame)
           data == written \o rest
<1>1. /\ written \in Seq(Octet) /\ Len(written) \in Nat /\ Len(rest) \in Nat
      /\ Len(written) >= 4 + SizeOctets(frame) /\ SizeOctets(frame) \in Nat
  <2>1. Len(rest) \in Nat
    BY LenProperties
  <2>2. SizeOctets(frame) \in Nat /\ BodySize(frame) \in Nat
    BY EncodedFrame
  <2> QED  BY <2>1, <2>2, EncodedFrame
<1>2. data \in Seq(Octet) /\ IsJoin(data, written, rest, Len(written), Len(rest))
  BY <1>1, Joined
<1>3. DecodeFrame(written) = frame /\ ~ Failed(frame)
  BY FrameReadBack
<1>4. Begins(data, frame)
  BY <1>2 DEF Begins, IsJoin
<1> HIDE DEF written, data
<1>5. Len(data) >= 4 /\ Len(data) >= 4 + SizeOctets(frame) /\ Len(data) \in Nat
        /\ Len(data) = Len(written) + Len(rest)
  BY <1>1, <1>2 DEF IsJoin
<1>6. StartsWithMagic(data)
  BY <1>4, <1>5, MagicAhead
<1>7. FrameEnd(data) = [start |-> 4 + SizeOctets(frame), end |-> Len(written)]
  BY <1>4, <1>5, EndOfFrame DEF written
<1>8. SubSeq(data, 1, Len(written)) = written
  BY <1>1, <1>2, PrefixOfJoin
<1>9. SubSeq(data, Len(written) + 1, Len(data)) = rest
  BY <1>1, <1>2, <1>5, SuffixOfJoin
<1>10. ~ Failed([start |-> 4 + SizeOctets(frame), end |-> Len(written)])
  BY DEF Failed
<1>11. ReadFrame(data) = [frame |-> frame, rest |-> rest]
  <2>1. ~ (Len(data) < Len(Magic))
    BY <1>5 DEF Magic
  <2>2. ~ (Len(data) < Len(written))
    BY <1>1, <1>5
  <2> DEFINE body == FrameEnd(data)
             read == DecodeFrame(SubSeq(data, 1, body.end))
  <2>3. ReadFrame(data) =
          IF Len(data) < Len(Magic) THEN Failure("closed")
          ELSE IF ~ StartsWithMagic(data) THEN Failure("invalid")
          ELSE IF Failed(body)
               THEN IF body = Failure("incomplete") THEN Failure("closed") ELSE body
          ELSE IF Len(data) < body.end THEN Failure("closed")
          ELSE IF Failed(read) THEN read
          ELSE [frame |-> read, rest |-> SubSeq(data, body.end + 1, Len(data))]
    BY DEF ReadFrame
  <2>4. ~ Failed(body) /\ body.end = Len(written)
    BY <1>7, <1>10
  <2> HIDE DEF body
  <2>5. read = frame
    BY <1>3, <1>8, <2>4
  <2> HIDE DEF read
  <2> QED  BY <1>3, <1>6, <1>9, <2>1, <2>2, <2>3, <2>4, <2>5
<1> QED  BY <1>3, <1>11 DEF FramesKeepApart, written, data

(* TORN FRAMES ARE LOST.  A stream that ends anywhere within a frame makes   *)
(* read_frame raise ProtocolConnectionError; the part is never taken for a   *)
(* frame, nor for a malformed one.                                           *)
THEOREM TornFramesAreLost ==
    ASSUME NEW frame \in GizwitsFrame, Sendable(frame),
           NEW size \in 0 .. Len(EncodeFrame(frame)) - 1
    PROVE  TornIsLost(frame, size)
<1> DEFINE written == EncodeFrame(frame)
           data == SubSeq(written, 1, size)
<1>1. written \in Seq(Octet) /\ Len(written) \in Nat /\ size \in Nat /\ size < Len(written)
  BY EncodedFrame, LenProperties
<1>2. /\ data \in Seq(Octet)
      /\ Len(data) = size
      /\ \A i \in 1 .. size : data[i] = written[i]
  BY <1>1, Shortened
<1>3. Begins(data, frame)
  BY <1>1, <1>2 DEF Begins
<1> HIDE DEF written, data
<1>4. Len(Magic) = 4
  BY DEF Magic
<1>5. CASE size < 4
  BY <1>1, <1>2, <1>4, <1>5 DEF ReadFrame, TornIsLost, written, data
<1>6. CASE size >= 4 /\ size < 4 + SizeOctets(frame)
  <2>1. StartsWithMagic(data) /\ FrameEnd(data) = Failure("incomplete")
    BY <1>2, <1>3, <1>6, MagicAhead, NoEndYet
  <2>2. Failed(Failure("incomplete"))
    BY DEF Failed, Failure
  <2>3. ReadFrame(data) = Failure("closed")
    BY <1>1, <1>2, <1>4, <1>6, <2>1, <2>2 DEF ReadFrame
  <2> QED  BY <2>3 DEF TornIsLost, written, data
<1>7. CASE size >= 4 + SizeOctets(frame)
  <2>1. SizeOctets(frame) \in Nat
    BY EncodedFrame
  <2>2. size >= 4
    BY <1>1, <1>7, <2>1
  <2>3. /\ StartsWithMagic(data)
        /\ FrameEnd(data) = [start |-> 4 + SizeOctets(frame), end |-> Len(written)]
    BY <1>2, <1>3, <1>7, <2>2, MagicAhead, EndOfFrame DEF written
  <2>4. ~ Failed([start |-> 4 + SizeOctets(frame), end |-> Len(written)])
    BY DEF Failed
  <2>5. Len(data) < Len(written) /\ ~ (Len(data) < Len(Magic))
    BY <1>1, <1>2, <1>4, <2>2
  <2>6. ReadFrame(data) = Failure("closed")
    BY <2>3, <2>4, <2>5 DEF ReadFrame
  <2> QED  BY <2>6 DEF TornIsLost, written, data
<1> QED  BY <1>1, <1>5, <1>6, <1>7, EncodedFrame

=============================================================================
