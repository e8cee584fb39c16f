--------------------------- MODULE ObserverProofs ---------------------------
(***************************************************************************)
(* Safety of the observer's reconcile loop and workers, for any number of  *)
(* devices, endpoints and discovery results and for every bound.           *)
(***************************************************************************)
EXTENDS Observer, TLAPS

-----------------------------------------------------------------------------
(* Types *)

LEMMA InitType == Init => TypeOK
<1> SUFFICES ASSUME Init PROVE TypeOK
  OBVIOUS
<1>1. scans \in 0 .. MaxScans /\ failures \in 0 .. MaxFailures
      /\ 0 \in 0 .. MaxLate
  BY ObserverAssumption DEF Init
<1>2. session \in [Devices -> SUBSET Endpoints]
  BY DEF Init
<1> QED
  BY <1>1, <1>2 DEF Init, TypeOK, Points

LEMMA StepType ==
    ASSUME TypeOK, [Next]_vars
    PROVE  TypeOK'
<1> USE ObserverAssumption
<1> USE DEF TypeOK, Points, Lines, reconcileVars, workerVars, reportVars,
            journalVars
<1>1. CASE Discover
  BY <1>1 DEF Discover
<1>2. CASE DiscoveryFailed
  BY <1>2 DEF DiscoveryFailed
<1>3. CASE Reconciled
  BY <1>3 DEF Reconciled
<1>4. CASE Rescan
  BY <1>4 DEF Rescan
<1>5. CASE End
  BY <1>5 DEF End
<1>6. CASE Ended
  BY <1>6 DEF Ended
<1>7. CASE Stop
  BY <1>7 DEF Stop
<1>8. ASSUME NEW d \in Devices, Settle(d)
      PROVE  TypeOK'
  BY <1>8 DEF Settle, Visiting, Current, Unmapped, Started, Visited, Tell
<1>9. ASSUME NEW d \in Devices, Dismiss(d)
      PROVE  TypeOK'
  BY <1>9 DEF Dismiss, Visiting, Current
<1>10. ASSUME NEW d \in Devices, Joined(d)
      PROVE  TypeOK'
  BY <1>10 DEF Joined, Unmapped, Started, Visited, Tell
<1>11. ASSUME NEW d \in Devices, Begin(d)
      PROVE  TypeOK'
  BY <1>11 DEF Begin, Runs, Goto, Tell
<1>12. ASSUME NEW d \in Devices, Connected(d)
      PROVE  TypeOK'
  BY <1>12 DEF Connected, Runs, Goto
<1>13. ASSUME NEW d \in Devices, Read(d)
      PROVE  TypeOK'
  BY <1>13 DEF Read, Runs, Goto, Tell, LineFor
<1>14. ASSUME NEW d \in Devices, Fail(d)
      PROVE  TypeOK'
  BY <1>14 DEF Fail, Runs, Goto, Tell
<1>15. ASSUME NEW d \in Devices, Noted(d)
      PROVE  TypeOK'
  BY <1>15 DEF Noted, Runs, Goto, Written, Dropped, Forget, Tells
<1>16. ASSUME NEW d \in Devices, Polled(d)
      PROVE  TypeOK'
  BY <1>16 DEF Polled, Runs, Goto
<1>17. ASSUME NEW d \in Devices, Closed(d)
      PROVE  TypeOK'
  BY <1>17 DEF Closed, Goto
<1>18. ASSUME NEW d \in Devices, Interrupted(d)
      PROVE  TypeOK'
  BY <1>18 DEF Interrupted, Goto, Written, Dropped, Postponed, Forget, Tells
<1>18a. ASSUME NEW d \in Devices, Straggles(d)
      PROVE  TypeOK'
  BY <1>18a DEF Straggles
<1>19. CASE UNCHANGED vars
  BY <1>19 DEF vars
<1> QED
  BY <1>1, <1>2, <1>3, <1>4, <1>5, <1>6, <1>7, <1>8, <1>9, <1>10, <1>11,
     <1>12, <1>13, <1>14, <1>15, <1>16, <1>17, <1>18, <1>18a, <1>19
     DEF Next, Worker, Reconcile

(* The variables keep their types, and only a task that has still to end is *)
(* marked as cancelled.                                                     *)
THEOREM ObserverType == Spec => []TypeOK
BY InitType, StepType, PTL DEF Spec

-----------------------------------------------------------------------------
(* Sessions *)

LEMMA StepSession ==
    ASSUME TypeOK, OneSession, [Next]_vars
    PROVE  OneSession'
<1> USE DEF TypeOK, OneSession, reconcileVars, workerVars, reportVars,
            journalVars
<1>1. CASE Discover
  BY <1>1 DEF Discover
<1>2. CASE DiscoveryFailed
  BY <1>2 DEF DiscoveryFailed
<1>3. CASE Reconciled
  BY <1>3 DEF Reconciled
<1>4. CASE Rescan
  BY <1>4 DEF Rescan
<1>5. CASE End
  BY <1>5 DEF End
<1>6. CASE Ended
  BY <1>6 DEF Ended
<1>7. CASE Stop
  BY <1>7 DEF Stop
<1>8. ASSUME NEW d \in Devices, Settle(d)
      PROVE  OneSession'
  BY <1>8 DEF Settle, Visiting, Current, Unmapped, Started, Visited, Tell
<1>9. ASSUME NEW d \in Devices, Dismiss(d)
      PROVE  OneSession'
  BY <1>9 DEF Dismiss, Visiting, Current
<1>10. ASSUME NEW d \in Devices, Joined(d)
      PROVE  OneSession'
  BY <1>10 DEF Joined, Unmapped, Started, Visited, Tell
<1>11. ASSUME NEW d \in Devices, Begin(d)
      PROVE  OneSession'
  BY <1>11 DEF Begin, Runs, Goto, Tell
<1>12. ASSUME NEW d \in Devices, Connected(d)
      PROVE  OneSession'
  BY <1>12 DEF Connected, Runs, Goto
<1>13. ASSUME NEW d \in Devices, Read(d)
      PROVE  OneSession'
  BY <1>13 DEF Read, Runs, Goto, Tell, LineFor
<1>14. ASSUME NEW d \in Devices, Fail(d)
      PROVE  OneSession'
  BY <1>14 DEF Fail, Runs, Goto, Tell
<1>15. ASSUME NEW d \in Devices, Noted(d)
      PROVE  OneSession'
  BY <1>15 DEF Noted, Runs, Goto, Written, Dropped, Forget, Tells
<1>16. ASSUME NEW d \in Devices, Polled(d)
      PROVE  OneSession'
  BY <1>16 DEF Polled, Runs, Goto
<1>17. ASSUME NEW d \in Devices, Closed(d)
      PROVE  OneSession'
  BY <1>17 DEF Closed, Goto
<1>18. ASSUME NEW d \in Devices, Interrupted(d)
      PROVE  OneSession'
  BY <1>18 DEF Interrupted, Goto, Written, Dropped, Postponed, Forget, Tells
<1>18a. ASSUME NEW d \in Devices, Straggles(d)
      PROVE  OneSession'
  BY <1>18a DEF Straggles
<1>19. CASE UNCHANGED vars
  BY <1>19 DEF vars
<1> QED
  BY <1>1, <1>2, <1>3, <1>4, <1>5, <1>6, <1>7, <1>8, <1>9, <1>10, <1>11,
     <1>12, <1>13, <1>14, <1>15, <1>16, <1>17, <1>18, <1>18a, <1>19
     DEF Next, Worker, Reconcile

(* A device never has a session but its present worker's, none is open      *)
(* before a worker starts or after it ended, and none of a device that was  *)
(* reported unmapped.                                                       *)
THEOREM SessionsExclusive == Spec => []OneSession
<1>1. Init => OneSession
  BY DEF Init, OneSession
<1> QED
  BY <1>1, StepSession, ObserverType, PTL DEF Spec

-----------------------------------------------------------------------------
(* Endpoints *)

(* A device that reconcile is not going to visit has the endpoint the last  *)
(* discovery bound it to, until run drops its workers.                      *)
Assigned ==
    /\ binding \in Bindings \/ binding = [d \in Devices |-> None]
    /\ \A d \in Devices :
          \/ endpoint[d] = binding[d]
          \/ phase = "reconciling" /\ d \in left
          \/ phase = "ended" /\ endpoint[d] = None

LEMMA StepAssigned ==
    ASSUME TypeOK, Assigned, [Next]_vars
    PROVE  Assigned'
<1> USE DEF TypeOK, Assigned, reconcileVars, workerVars, reportVars,
            journalVars
<1>1. CASE Discover
  BY <1>1 DEF Discover
<1>2. CASE DiscoveryFailed
  BY <1>2 DEF DiscoveryFailed
<1>3. CASE Reconciled
  BY <1>3 DEF Reconciled
<1>4. CASE Rescan
  BY <1>4 DEF Rescan
<1>5. CASE End
  BY <1>5 DEF End
<1>6. CASE Ended
  BY <1>6 DEF Ended
<1>7. CASE Stop
  BY <1>7 DEF Stop
<1>8. ASSUME NEW d \in Devices, Settle(d)
      PROVE  Assigned'
  BY <1>8 DEF Settle, Visiting, Current, Unmapped, Started, Visited, Tell
<1>9. ASSUME NEW d \in Devices, Dismiss(d)
      PROVE  Assigned'
  BY <1>9 DEF Dismiss, Visiting, Current
<1>10. ASSUME NEW d \in Devices, Joined(d)
      PROVE  Assigned'
  BY <1>10 DEF Joined, Unmapped, Started, Visited, Tell
<1>11. ASSUME NEW d \in Devices, Begin(d)
      PROVE  Assigned'
  BY <1>11 DEF Begin, Runs, Goto, Tell
<1>12. ASSUME NEW d \in Devices, Connected(d)
      PROVE  Assigned'
  BY <1>12 DEF Connected, Runs, Goto
<1>13. ASSUME NEW d \in Devices, Read(d)
      PROVE  Assigned'
  BY <1>13 DEF Read, Runs, Goto, Tell, LineFor
<1>14. ASSUME NEW d \in Devices, Fail(d)
      PROVE  Assigned'
  BY <1>14 DEF Fail, Runs, Goto, Tell
<1>15. ASSUME NEW d \in Devices, Noted(d)
      PROVE  Assigned'
  BY <1>15 DEF Noted, Runs, Goto, Written, Dropped, Forget, Tells
<1>16. ASSUME NEW d \in Devices, Polled(d)
      PROVE  Assigned'
  BY <1>16 DEF Polled, Runs, Goto
<1>17. ASSUME NEW d \in Devices, Closed(d)
      PROVE  Assigned'
  BY <1>17 DEF Closed, Goto
<1>18. ASSUME NEW d \in Devices, Interrupted(d)
      PROVE  Assigned'
  BY <1>18 DEF Interrupted, Goto, Written, Dropped, Postponed, Forget, Tells
<1>18a. ASSUME NEW d \in Devices, Straggles(d)
      PROVE  Assigned'
  BY <1>18a DEF Straggles
<1>19. CASE UNCHANGED vars
  BY <1>19 DEF vars
<1> QED
  BY <1>1, <1>2, <1>3, <1>4, <1>5, <1>6, <1>7, <1>8, <1>9, <1>10, <1>11,
     <1>12, <1>13, <1>14, <1>15, <1>16, <1>17, <1>18, <1>18a, <1>19
     DEF Next, Worker, Reconcile

LEMMA AssignedSeparates ==
    ASSUME TypeOK, OneSession, Assigned
    PROVE  OneDevicePerEndpoint
<1> SUFFICES ASSUME phase # "reconciling", NEW d \in Devices, NEW e \in Devices,
                    d # e, NEW x \in session[d] \cap session[e]
             PROVE  FALSE
  BY DEF OneDevicePerEndpoint
<1>1. endpoint[d] = x /\ endpoint[e] = x
  BY DEF OneSession
<1>2. x # None
  BY ObserverAssumption DEF TypeOK
<1>3. binding[d] = x /\ binding[e] = x
  BY <1>1, <1>2 DEF Assigned
<1> QED
  BY <1>2, <1>3, ObserverAssumption DEF Assigned

(* Between reconciliations no two devices have a session to one endpoint.   *)
THEOREM EndpointsExclusive == Spec => []OneDevicePerEndpoint
<1>1. Init => Assigned
  BY DEF Init, Assigned
<1> QED
  BY <1>1, StepAssigned, AssignedSeparates, SessionsExclusive, ObserverType, PTL
     DEF Spec

-----------------------------------------------------------------------------
(* The journal *)

(* What the last line of a device tells once the append it waits for has    *)
(* ended with its line in place.                                            *)
LastLine(d) == IF note[d] = None THEN journal[d] ELSE Tells(note[d])

(* A line is pending exactly in an append.  Unless there is a gap, the last *)
(* line tells whether the device is offline and whether it was ever read,   *)
(* and a pending line does so in any case.  While a line is late there is a *)
(* gap.                                                                     *)
JournalTells ==
    \A d \in Devices :
      /\ note[d] # None <=> pc[d] \in {"noting", "excusing"}
      /\ LastLine(d) # "gap" =>
           /\ LastLine(d) = "offline" <=> d \in offline
           /\ LastLine(d) = None => d \notin seen
           /\ d \notin seen => LastLine(d) # "readout"
      /\ late[d] > 0 => journal[d] = "gap"

LEMMA StepJournal ==
    ASSUME TypeOK, JournalTells, JournalAlternates, [Next]_vars
    PROVE  (JournalTells /\ JournalAlternates)'
<1> USE ObserverAssumption
<1> USE DEF TypeOK, JournalTells, JournalAlternates, LastLine, Lines, Tells,
            reconcileVars, workerVars, reportVars, journalVars
<1>1. CASE Discover
  BY <1>1 DEF Discover
<1>2. CASE DiscoveryFailed
  BY <1>2 DEF DiscoveryFailed
<1>3. CASE Reconciled
  BY <1>3 DEF Reconciled
<1>4. CASE Rescan
  BY <1>4 DEF Rescan
<1>5. CASE End
  BY <1>5 DEF End
<1>6. CASE Ended
  BY <1>6 DEF Ended
<1>7. CASE Stop
  BY <1>7 DEF Stop
<1>8. ASSUME NEW d \in Devices, Settle(d)
      PROVE  (JournalTells /\ JournalAlternates)'
  BY <1>8 DEF Settle, Visiting, Current, Unmapped, Started, Visited, Tell
<1>9. ASSUME NEW d \in Devices, Dismiss(d)
      PROVE  (JournalTells /\ JournalAlternates)'
  BY <1>9 DEF Dismiss, Visiting, Current
<1>10. ASSUME NEW d \in Devices, Joined(d)
      PROVE  (JournalTells /\ JournalAlternates)'
  BY <1>10 DEF Joined, Unmapped, Started, Visited, Tell
<1>11. ASSUME NEW d \in Devices, Begin(d)
      PROVE  (JournalTells /\ JournalAlternates)'
  BY <1>11 DEF Begin, Runs, Goto, Tell
<1>12. ASSUME NEW d \in Devices, Connected(d)
      PROVE  (JournalTells /\ JournalAlternates)'
  BY <1>12 DEF Connected, Runs, Goto
<1>13. ASSUME NEW d \in Devices, Read(d)
      PROVE  (JournalTells /\ JournalAlternates)'
  BY <1>13 DEF Read, Runs, Goto, Tell, LineFor
<1>14. ASSUME NEW d \in Devices, Fail(d)
      PROVE  (JournalTells /\ JournalAlternates)'
  BY <1>14 DEF Fail, Runs, Goto, Tell
<1>15. ASSUME NEW d \in Devices, Noted(d)
      PROVE  (JournalTells /\ JournalAlternates)'
  BY <1>15 DEF Noted, Runs, Goto, Written, Dropped, Forget, Tells
<1>16. ASSUME NEW d \in Devices, Polled(d)
      PROVE  (JournalTells /\ JournalAlternates)'
  BY <1>16 DEF Polled, Runs, Goto
<1>17. ASSUME NEW d \in Devices, Closed(d)
      PROVE  (JournalTells /\ JournalAlternates)'
  BY <1>17 DEF Closed, Goto
<1>18. ASSUME NEW d \in Devices, Interrupted(d)
      PROVE  (JournalTells /\ JournalAlternates)'
  BY <1>18 DEF Interrupted, Goto, Written, Dropped, Postponed, Forget, Tells
<1>18a. ASSUME NEW d \in Devices, Straggles(d)
      PROVE  (JournalTells /\ JournalAlternates)'
  BY <1>18a DEF Straggles
<1>19. CASE UNCHANGED vars
  BY <1>19 DEF vars
<1> QED
  BY <1>1, <1>2, <1>3, <1>4, <1>5, <1>6, <1>7, <1>8, <1>9, <1>10, <1>11,
     <1>12, <1>13, <1>14, <1>15, <1>16, <1>17, <1>18, <1>18a, <1>19
     DEF Next, Worker, Reconcile

(* Outages and recoveries alternate in the journal of a device and no       *)
(* change is taken over an outage, except next to a line that failed to be  *)
(* written or was written late: after the next line that is written it      *)
(* makes sense again.                                                       *)
THEOREM JournalConsistent == Spec => []JournalAlternates
<1>1. Init => JournalTells /\ JournalAlternates
  BY ObserverAssumption DEF Init, JournalTells, JournalAlternates, LastLine, Lines
<1> QED
  BY <1>1, StepJournal, ObserverType, PTL DEF Spec

=============================================================================
