------------------------------ MODULE Observer ------------------------------
(***************************************************************************)
(* ReadOnlyObserver (src/jebao_flow/devices/observer.py): the reconcile    *)
(* loop and one worker task per bound device, with their cancellation, the *)
(* reports they make to the service and the journal lines they append.     *)
(*                                                                         *)
(* A worker's step runs from one await to the next, and so does a step of  *)
(* reconcile for one device.  A task that was cancelled gets no further    *)
(* step of its own: the cancellation is raised at the await it is in.      *)
(*                                                                         *)
(* The sink is record_observer_event, which cannot raise (GroupControl is  *)
(* total over observer events).  What a discovery binds is a member of     *)
(* Bindings, which module Bindings justifies.  Delays and the doubling     *)
(* back-off are left out: a wait ends some time, or when stop is set.      *)
(***************************************************************************)
EXTENDS Integers

CONSTANTS
    None,
    Devices,          \* configured and enabled devices
    Endpoints,
    Bindings,         \* results of resolve_device_bindings
    MaxScans,         \* bound on discoveries with a result other than the last
    MaxFailures,      \* bound on failing connections, reads and discoveries
    MaxLate           \* bound on lines of a device that are late

VARIABLES
    phase,            \* where run and _reconcile are
    binding,          \* resolved, of the last discovery
    left,             \* devices the loop of _reconcile has still to visit
    joining,          \* the device whose cancelled worker it awaits, or None
    endpoint,         \* the endpoint in _workers, None without an entry
    pc,               \* where the task of the entry is
    cancelled,        \* tasks that were cancelled and have not noticed
    session,          \* endpoints with an open connection of a device's worker
    seen,             \* the devices in _last_states
    offline,          \* _offline
    note,             \* the journal line a worker is appending
    journal,          \* what the last line of each device tells, or "gap"
    late,             \* how many lines threads may yet write out of place
    reported,         \* what the sink was told last
    stopEvent,
    scans, failures   \* how often the bounds were used

reconcileVars == <<phase, binding, left, joining, scans>>
workerVars    == <<endpoint, pc, cancelled, session>>
reportVars    == <<seen, offline, note, reported>>
journalVars   == <<journal, late>>
vars == <<reconcileVars, workerVars, reportVars, journalVars, stopEvent, failures>>

-----------------------------------------------------------------------------
(* The await a worker is in: before its first step, in connect(), in       *)
(* get_state(), in the append of a line about a readout, waiting for the   *)
(* next poll, in the append of an offline line, in disconnect(), in its    *)
(* back-off.                                                               *)
Points == {"none", "created", "connecting", "reading", "noting", "polling",
           "excusing", "closing", "pausing", "finished"}

Lines == {"first_seen", "recovered", "state_changed", "offline"}

ASSUME ObserverAssumption ==
    /\ MaxScans \in Nat /\ MaxFailures \in Nat /\ MaxLate \in Nat
    /\ None \notin Endpoints \cup Devices \cup Lines \cup {"readout", "gap"}
    /\ Bindings \subseteq [Devices -> Endpoints \cup {None}]
    /\ \A b \in Bindings : \A d, e \in Devices :
          b[d] = b[e] /\ b[d] # None => d = e

Init ==
    /\ phase = "discovering"
    /\ binding = [d \in Devices |-> None]
    /\ left = {}
    /\ joining = None
    /\ endpoint = [d \in Devices |-> None]
    /\ pc = [d \in Devices |-> "none"]
    /\ cancelled = {}
    /\ session = [d \in Devices |-> {}]
    /\ seen = {}
    /\ offline = {}
    /\ note = [d \in Devices |-> None]
    /\ journal = [d \in Devices |-> None]
    /\ late = [d \in Devices |-> 0]
    /\ reported = [d \in Devices |-> "nothing"]
    /\ stopEvent = FALSE
    /\ scans = 0
    /\ failures = 0

-----------------------------------------------------------------------------
(* _observe_device *)

Runs(d, point) == pc[d] = point /\ d \notin cancelled

Goto(d, point) == pc' = [pc EXCEPT ![d] = point]

Tell(d, status) == reported' = [reported EXCEPT ![d] = status]

(* Mutant: a worker makes one attempt. *)
BeginOnce(d) ==
    /\ Runs(d, "created")
    /\ IF stopEvent
       THEN Goto(d, "finished") /\ UNCHANGED reported
       ELSE Goto(d, "connecting") /\ Tell(d, "connecting")
    /\ UNCHANGED <<reconcileVars, endpoint, cancelled, session, seen,
                   offline, note, journalVars, stopEvent, failures>>

(* The loop head, first or after the back-off: a connection attempt starts, *)
(* or stop ends the worker.                                                *)
Begin(d) ==
    /\ Runs(d, "created") \/ Runs(d, "pausing")
    /\ IF stopEvent
       THEN Goto(d, "finished") /\ UNCHANGED reported
       ELSE Goto(d, "connecting") /\ Tell(d, "connecting")
    /\ UNCHANGED <<reconcileVars, endpoint, cancelled, session, seen,
                   offline, note, journalVars, stopEvent, failures>>

Connected(d) ==
    /\ Runs(d, "connecting")
    /\ session' = [session EXCEPT ![d] = @ \cup {endpoint[d]}]
    /\ Goto(d, IF stopEvent THEN "closing" ELSE "reading")
    /\ UNCHANGED <<reconcileVars, endpoint, cancelled, reportVars,
                   journalVars, stopEvent, failures>>

(* The journal line _report_state chooses, None for none; changed is that  *)
(* the signature of the readout is not the one of the last readout.        *)
LineFor(d, changed) ==
    IF d \notin seen           THEN "first_seen"
    ELSE IF d \in offline      THEN "recovered"
    ELSE IF changed            THEN "state_changed"
    ELSE None

(* Mutant: a readout does not end an outage. *)
ReadStillOffline(d) ==
    /\ Runs(d, "reading")
    /\ \E changed \in BOOLEAN :
         LET line == LineFor(d, changed)
         IN  /\ note' = [note EXCEPT ![d] = line]
             /\ Goto(d, IF line = None THEN "polling" ELSE "noting")
    /\ seen' = seen \cup {d}
    /\ Tell(d, "online")
    /\ UNCHANGED <<reconcileVars, endpoint, cancelled, session, offline,
                   journalVars, stopEvent, failures>>

(* get_state() returns: _report_state up to the append. *)
Read(d) ==
    /\ Runs(d, "reading")
    /\ \E changed \in BOOLEAN :
         LET line == LineFor(d, changed)
         IN  /\ note' = [note EXCEPT ![d] = line]
             /\ Goto(d, IF line = None THEN "polling" ELSE "noting")
    /\ seen' = seen \cup {d}
    /\ offline' = offline \ {d}
    /\ Tell(d, "online")
    /\ UNCHANGED <<reconcileVars, endpoint, cancelled, session, journalVars,
                   stopEvent, failures>>

(* connect() or get_state() raises: _report_offline up to the append. *)
Fail(d) ==
    /\ Runs(d, "connecting") \/ Runs(d, "reading")
    /\ failures < MaxFailures
    /\ failures' = failures + 1
    /\ offline' = offline \cup {d}
    /\ Tell(d, "offline")
    /\ IF d \in offline
       THEN Goto(d, "closing") /\ UNCHANGED note
       ELSE Goto(d, "excusing") /\ note' = [note EXCEPT ![d] = "offline"]
    /\ UNCHANGED <<reconcileVars, endpoint, cancelled, session, seen,
                   journalVars, stopEvent>>

Forget(d) == note' = [note EXCEPT ![d] = None]

Tells(line) == IF line = "offline" THEN "offline" ELSE "readout"

(* A gap is closed by the next line, unless an earlier one is still late.  *)
Written(d) ==
    /\ journal' = [journal EXCEPT ![d] =
                      IF late[d] > 0 THEN "gap" ELSE Tells(note[d])]
    /\ UNCHANGED late

(* The line is gone: OSError, or cancelled before its thread began. *)
Dropped(d) ==
    /\ journal' = [journal EXCEPT ![d] = "gap"]
    /\ UNCHANGED late

(* The append was cancelled; its thread runs on and the lock is free. *)
Postponed(d) ==
    /\ late[d] < MaxLate
    /\ journal' = [journal EXCEPT ![d] = "gap"]
    /\ late' = [late EXCEPT ![d] = @ + 1]

(* The append returns; that the line was not written is only logged. *)
Noted(d) ==
    /\ Runs(d, "noting") \/ Runs(d, "excusing")
    /\ Written(d) \/ Dropped(d)
    /\ Forget(d)
    /\ Goto(d, IF pc[d] = "noting" THEN "polling" ELSE "closing")
    /\ UNCHANGED <<reconcileVars, endpoint, cancelled, session, seen,
                   offline, reported, stopEvent, failures>>

(* The thread of a cancelled append writes its line, or fails. *)
Straggles(d) ==
    /\ late[d] > 0
    /\ late' = [late EXCEPT ![d] = @ - 1]
    /\ journal' = [journal EXCEPT ![d] = "gap"]
    /\ UNCHANGED <<reconcileVars, workerVars, reportVars, stopEvent, failures>>

(* The wait for the next poll ends; with stop set the worker leaves. *)
Polled(d) ==
    /\ Runs(d, "polling")
    /\ Goto(d, IF stopEvent THEN "closing" ELSE "reading")
    /\ UNCHANGED <<reconcileVars, endpoint, cancelled, session, reportVars,
                   journalVars, stopEvent, failures>>

(* disconnect() in the finally clause; after it the task waits, or ends if *)
(* it was cancelled or stop is set.                                        *)
Closed(d) ==
    /\ pc[d] = "closing"
    /\ session' = [session EXCEPT ![d] = {}]
    /\ Goto(d, IF stopEvent \/ d \in cancelled THEN "finished" ELSE "pausing")
    /\ cancelled' = cancelled \ {d}
    /\ UNCHANGED <<reconcileVars, endpoint, reportVars, journalVars,
                   stopEvent, failures>>

(* The cancellation is raised.  An append that was waiting for the lock or *)
(* for a thread is dropped; one whose thread is running is not waited for. *)
Interrupted(d) ==
    /\ d \in cancelled
    /\ pc[d] \notin {"none", "closing", "finished"}
    /\ IF pc[d] \in {"created", "pausing"}
       THEN Goto(d, "finished") /\ cancelled' = cancelled \ {d}
       ELSE Goto(d, "closing") /\ UNCHANGED cancelled
    /\ IF pc[d] \in {"noting", "excusing"}
       THEN Forget(d) /\ (Written(d) \/ Dropped(d) \/ Postponed(d))
       ELSE UNCHANGED <<journalVars, note>>
    /\ UNCHANGED <<reconcileVars, endpoint, session, seen, offline,
                   reported, stopEvent, failures>>

-----------------------------------------------------------------------------
(* _reconcile *)

(* A discovery answers; the bound counts the ones that change something.   *)
Discover ==
    /\ phase = "discovering"
    /\ \E found \in Bindings :
         /\ found # binding => scans < MaxScans
         /\ scans' = IF found = binding THEN scans ELSE scans + 1
         /\ binding' = found
    /\ phase' = "reconciling"
    /\ left' = Devices
    /\ UNCHANGED <<joining, workerVars, reportVars, journalVars, stopEvent,
                   failures>>

(* OSError or RuntimeError: nothing is reconciled this time. *)
DiscoveryFailed ==
    /\ phase = "discovering"
    /\ failures < MaxFailures
    /\ failures' = failures + 1
    /\ phase' = "waiting"
    /\ UNCHANGED <<binding, left, joining, scans, workerVars, reportVars,
                   journalVars, stopEvent>>

Visiting(d) == phase = "reconciling" /\ joining = None /\ d \in left

Visited(d) == left' = left \ {d} /\ joining' = None

Unmapped(d) ==
    /\ endpoint' = [endpoint EXCEPT ![d] = None]
    /\ pc' = [pc EXCEPT ![d] = "none"]
    /\ Tell(d, "unmapped")

Started(d) ==
    /\ endpoint' = [endpoint EXCEPT ![d] = binding[d]]
    /\ pc' = [pc EXCEPT ![d] = "created"]
    /\ UNCHANGED reported

(* Mutant: a worker is kept although its device moved. *)
CurrentAnywhere(d) ==
    binding[d] # None /\ pc[d] \notin {"none", "finished"}

(* The worker polls the right endpoint and is not done. *)
Current(d) ==
    binding[d] # None /\ endpoint[d] = binding[d] /\ pc[d] # "finished"

(* Without a worker, or with the right one. *)
Settle(d) ==
    /\ Visiting(d)
    /\ IF Current(d)
       THEN UNCHANGED <<endpoint, pc, reported>>
       ELSE /\ pc[d] = "none"
            /\ IF binding[d] = None THEN Unmapped(d) ELSE Started(d)
    /\ Visited(d)
    /\ UNCHANGED <<phase, binding, scans, cancelled, session, seen,
                   offline, note, journalVars, stopEvent, failures>>

(* A worker that is to go is cancelled and awaited. *)
Dismiss(d) ==
    /\ Visiting(d)
    /\ ~Current(d)
    /\ pc[d] # "none"
    /\ joining' = d
    /\ cancelled' = IF pc[d] = "finished" THEN cancelled ELSE cancelled \cup {d}
    /\ UNCHANGED <<phase, binding, left, scans, endpoint, pc, session,
                   reportVars, journalVars, stopEvent, failures>>

(* It has ended: report the device unmapped, or start the next worker.     *)
Joined(d) ==
    /\ joining = d
    /\ pc[d] = "finished"
    /\ IF binding[d] = None THEN Unmapped(d) ELSE Started(d)
    /\ Visited(d)
    /\ UNCHANGED <<phase, binding, scans, cancelled, session, seen,
                   offline, note, journalVars, stopEvent, failures>>

Reconciled ==
    /\ phase = "reconciling"
    /\ left = {}
    /\ phase' = "waiting"
    /\ UNCHANGED <<binding, left, joining, scans, workerVars, reportVars,
                   journalVars, stopEvent, failures>>

-----------------------------------------------------------------------------
(* run *)

(* Mutant: the loop does not look at stop. *)
RescanAlways ==
    /\ phase = "waiting"
    /\ phase' = "discovering"
    /\ UNCHANGED <<binding, left, joining, scans, workerVars, reportVars,
                   journalVars, stopEvent, failures>>

Rescan ==
    /\ phase = "waiting"
    /\ ~stopEvent
    /\ phase' = "discovering"
    /\ UNCHANGED <<binding, left, joining, scans, workerVars, reportVars,
                   journalVars, stopEvent, failures>>

(* The finally clause cancels every worker. *)
End ==
    /\ phase = "waiting"
    /\ stopEvent
    /\ phase' = "ending"
    /\ cancelled' = {d \in Devices : pc[d] \notin {"none", "finished"}}
    /\ UNCHANGED <<binding, left, joining, scans, endpoint, pc, session,
                   reportVars, journalVars, stopEvent, failures>>

(* Mutant: run returns without awaiting its workers. *)
EndedAtOnce ==
    /\ phase = "ending"
    /\ phase' = "ended"
    /\ endpoint' = [d \in Devices |-> None]
    /\ UNCHANGED <<binding, left, joining, scans, pc, cancelled, session,
                   reportVars, journalVars, stopEvent, failures>>

Ended ==
    /\ phase = "ending"
    /\ \A d \in Devices : pc[d] \in {"none", "finished"}
    /\ phase' = "ended"
    /\ endpoint' = [d \in Devices |-> None]
    /\ pc' = [d \in Devices |-> "none"]
    /\ UNCHANGED <<binding, left, joining, scans, cancelled, session,
                   reportVars, journalVars, stopEvent, failures>>

Stop ==
    /\ ~stopEvent
    /\ stopEvent' = TRUE
    /\ UNCHANGED <<reconcileVars, workerVars, reportVars, journalVars, failures>>

-----------------------------------------------------------------------------
Worker(d) ==
    \/ Begin(d) \/ Connected(d) \/ Read(d) \/ Noted(d) \/ Polled(d)
    \/ Closed(d) \/ Interrupted(d)

Reconcile ==
    \/ Discover \/ Reconciled \/ Rescan \/ End \/ Ended
    \/ \E d \in Devices : Settle(d) \/ Dismiss(d) \/ Joined(d)

Next ==
    \/ Reconcile
    \/ DiscoveryFailed
    \/ \E d \in Devices : Worker(d) \/ Fail(d) \/ Straggles(d)
    \/ Stop

Spec == Init /\ [][Next]_vars

(* Tasks that can run do; every connect, read, append and wait ends (the   *)
(* session has time-outs).  Nothing makes a read fail or stop happen.      *)
FairSpec ==
    /\ Spec
    /\ WF_vars(Reconcile)
    /\ \A d \in Devices : WF_vars(Worker(d))

-----------------------------------------------------------------------------
(* Properties *)

(* Type invariant; a device has a task exactly when it has an endpoint, and *)
(* a cancelled task is one that has still to end.                           *)
TypeOK ==
    /\ phase \in {"discovering", "reconciling", "waiting", "ending", "ended"}
    /\ binding \in [Devices -> Endpoints \cup {None}]
    /\ left \in SUBSET Devices
    /\ joining \in left \cup {None}
    /\ endpoint \in [Devices -> Endpoints \cup {None}]
    /\ pc \in [Devices -> Points]
    /\ \A d \in Devices : pc[d] = "none" <=> endpoint[d] = None
    /\ cancelled \in SUBSET {d \in Devices : pc[d] \notin {"none", "finished"}}
    /\ session \in [Devices -> SUBSET Endpoints]
    /\ seen \in SUBSET Devices
    /\ offline \in SUBSET Devices
    /\ note \in [Devices -> Lines \cup {None}]
    /\ journal \in [Devices -> {None, "offline", "readout", "gap"}]
    /\ late \in [Devices -> 0 .. MaxLate]
    /\ reported \in [Devices -> {"nothing", "unmapped", "connecting", "online",
                                 "offline"}]
    /\ stopEvent \in BOOLEAN
    /\ scans \in 0 .. MaxScans
    /\ failures \in 0 .. MaxFailures

(* A device has at most one session, its present worker's, and none before *)
(* that worker runs or after it ended: whatever is replaced, unmapped or   *)
(* cancelled at whatever await, its connection is closed first, so nothing *)
(* is reported of a device after it was reported unmapped, and nothing is  *)
(* left open when run returns.                                             *)
OneSession ==
    \A d \in Devices :
      /\ session[d] \subseteq {endpoint[d]}
      /\ pc[d] \in {"none", "created", "finished", "pausing"} => session[d] = {}
      /\ reported[d] = "unmapped" => pc[d] \in {"none", "created", "finished"}

(* Two logical devices never poll one pump, except while reconcile moves    *)
(* the workers: a pump that took another one's address is found there by    *)
(* its new worker before the old one was dismissed.                        *)
OneDevicePerEndpoint ==
    phase # "reconciling" =>
      \A d, e \in Devices : d # e => session[d] \cap session[e] = {}

(* The journal of a device makes sense: offline and recovered alternate, a  *)
(* change is recorded only between two readouts with no outage in between, *)
(* first_seen comes once.  A line that fails to be written, or is written  *)
(* late by the thread of a cancelled append, makes one gap: with the next  *)
(* line that is written the journal makes sense again.                     *)
JournalAlternates ==
    \A d \in Devices : journal[d] # "gap" =>
      /\ note[d] = "offline"       => journal[d] # "offline"
      /\ note[d] = "recovered"     => journal[d] = "offline"
      /\ note[d] = "state_changed" => journal[d] = "readout"
      /\ note[d] = "first_seen"    => journal[d] # "readout"

(* A device that stays bound is read again and again: neither a failure,    *)
(* nor a moved address, nor another device's trouble ends its polling.     *)
BoundIsPolled ==
    \A d \in Devices :
      \/ <>stopEvent
      \/ []<>(binding[d] = None)
      \/ []<><<Read(d)>>_vars

(* Stop ends the loop and every worker, whatever they are waiting for.     *)
StopEnds == stopEvent ~> phase = "ended"

=============================================================================
