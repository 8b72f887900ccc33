----------------------------- MODULE Sightings ------------------------------
(***************************************************************************)
(* From a read number plate to an alert: jobs that officers and cameras    *)
(* enqueue, workers that claim them and process them outside the claiming  *)
(* transaction, the scans and anpr.alert events that they write, and the   *)
(* consumer in the audit service that turns the events into alerts, which  *)
(* an administrator resolves.  Events reach the consumer at least once, in *)
(* any order (see Outbox), and an event it fails on is passed over.        *)
(***************************************************************************)
EXTENDS Integers, FiniteSets

CONSTANTS
  Job,
  Raw,          \* plates as they are read
  Plate,
  Corrected,    \* Normalize with the regular expression of the tenant
  Stripped,     \* Normalize with none
  Vehicle,      \* the plates that are in the registry
  CaptureTime,
  DedupWindow,  \* 60 s
  MaxAttempts,  \* 5
  MaxUnheard,   \* bound: lost answers
  MaxFaults,    \* bound: jobs whose worker stops, events the consumer fails on
  MaxAlerts,    \* bound
  LastDay       \* bound

ASSUME SightingsAssumption ==
  /\ Corrected \in [Raw -> Plate] /\ Stripped \in [Raw -> Plate]
  /\ Vehicle \subseteq Plate
  /\ Raw # {} /\ CaptureTime # {}
  /\ CaptureTime \subseteq Int /\ DedupWindow \in Nat
  /\ MaxAttempts \in Nat \ {0}
  /\ {MaxUnheard, MaxFaults, MaxAlerts, LastDay} \subseteq Nat

VARIABLES
  status,     \* anpr_jobs.status
  attempts,
  raw, captured,
  step,       \* how far the worker that claimed the job is
  view,       \* what it has read
  scans,      \* anpr_scans, with the anpr.alert event written along
  flagged,    \* vehicles that are stolen, seized or wanted
  handled,    \* events the consumer has been given, and may be given again
  missed,     \* history: events it has only failed on and passed over
  alerts,     \* audit_alerts of this kind
  day,
  unheard,    \* history: how often the answer to a commit was lost
  stranded,   \* history: jobs whose worker stopped, or could not say it failed
  unsure      \* history: jobs that need not have met a flagged vehicle

jobVars == <<status, attempts, raw, captured>>
history == <<unheard, stranded, unsure>>
alertVars == <<handled, missed, alerts, day>>
sightingsVars == <<jobVars, step, view, scans, flagged, alertVars, history>>

Attempt == Job \X (1..MaxAttempts)  \* a scan is named by what wrote it
Faults == Cardinality(stranded) + Cardinality(missed)
View == [plate : Plate, dup : BOOLEAN, alert : BOOLEAN]

SightingsTypeOK ==
  /\ status \in [Job -> {"none", "queued", "processing", "done", "duplicate", "failed"}]
  /\ attempts \in [Job -> 0..MaxAttempts]
  /\ raw \in [Job -> Raw] /\ captured \in [Job -> CaptureTime]
  /\ step \in [Job -> {"idle", "claimed", "read", "failing"}]
  /\ view \in [Job -> View]
  /\ scans \subseteq [by : Attempt, plate : Plate, dup : BOOLEAN, alert : BOOLEAN]
  /\ flagged \subseteq Vehicle
  /\ missed \subseteq handled /\ handled \subseteq Attempt
  /\ alerts \subseteq [id : Nat, plate : Vehicle, day : 0..LastDay, open : BOOLEAN,
                       sightings : SUBSET Attempt]
  /\ day \in 0..LastDay
  /\ unheard \in [Job -> 0..MaxUnheard]
  /\ stranded \subseteq Job /\ unsure \subseteq Job
  \* A worker holds a job until it has said how it ended.
  /\ \A j \in Job : step[j] \in {"claimed", "read"} => status[j] = "processing"
  \* The partial unique index.
  /\ \A a, b \in alerts :
       a.open /\ b.open /\ a.plate = b.plate /\ a.day = b.day => a = b

\* The fields of a view that is not there do not matter.
NoView == [plate |-> CHOOSE p \in Plate : TRUE, dup |-> FALSE, alert |-> FALSE]

SightingsInit ==
  /\ status = [j \in Job |-> "none"]
  /\ attempts = [j \in Job |-> 0]
  /\ raw = [j \in Job |-> CHOOSE r \in Raw : TRUE]
  /\ captured = [j \in Job |-> CHOOSE t \in CaptureTime : TRUE]
  /\ step = [j \in Job |-> "idle"]
  /\ view = [j \in Job |-> NoView]
  /\ scans = {}
  /\ flagged = {}
  /\ handled = {}
  /\ missed = {}
  /\ alerts = {}
  /\ day = 0
  /\ unheard = [j \in Job |-> 0]
  /\ stranded = {}
  /\ unsure = {}

----------------------------------------------------------------------------
(***************************************************************************)
(* The gateway.                                                            *)
(***************************************************************************)
\* One plate, or one item of a batch.
Enqueue(j, r, t) ==
  /\ status[j] = "none"
  /\ status' = [status EXCEPT ![j] = "queued"]
  /\ raw' = [raw EXCEPT ![j] = r]
  /\ captured' = [captured EXCEPT ![j] = t]
  /\ unsure' = IF Corrected[r] \in flagged THEN unsure ELSE unsure \cup {j}
  /\ UNCHANGED <<attempts, step, view, scans, flagged, alertVars,
                 unheard, stranded>>

(***************************************************************************)
(* A worker.                                                               *)
(***************************************************************************)
\* Any queued job: the oldest may be locked by a claim that is rolled back.
Claim(j) ==
  /\ status[j] = "queued"
  /\ status' = [status EXCEPT ![j] = "processing"]
  /\ attempts' = [attempts EXCEPT ![j] = @ + 1]
  /\ step' = [step EXCEPT ![j] = "claimed"]
  /\ UNCHANGED <<raw, captured, view, scans, flagged, alertVars, history>>

\* An error of the query for the regular expression is ignored.
Normalize(r, withRegex) == IF withRegex THEN Corrected[r] ELSE Stripped[r]

Near(s, j, plate) ==
  /\ s.plate = plate
  /\ captured[s.by[1]] - captured[j] \in -DedupWindow..DedupWindow

\* The last scan of the plate, and the flags of the vehicle.
Read(j) ==
  /\ step[j] = "claimed"
  /\ \E withRegex \in BOOLEAN :
       LET plate == Normalize(raw[j], withRegex)
       IN  /\ view' = [view EXCEPT ![j] =
                [plate |-> plate,
                 dup |-> \E s \in scans : Near(s, j, plate),
                 alert |-> plate \in flagged]]
           /\ unsure' = IF plate = Corrected[raw[j]] THEN unsure ELSE unsure \cup {j}
  /\ step' = [step EXCEPT ![j] = "read"]
  /\ UNCHANGED <<jobVars, scans, flagged, alertVars, unheard, stranded>>

Scan(j) == [by |-> <<j, attempts[j]>>, plate |-> view[j].plate,
            dup |-> view[j].dup, alert |-> view[j].alert]

Write(j) ==
  /\ step[j] = "read"
  /\ scans' = scans \cup {Scan(j)}
  /\ status' = [status EXCEPT ![j] = IF view[j].dup THEN "duplicate" ELSE "done"]
  /\ view' = [view EXCEPT ![j] = NoView]
  /\ UNCHANGED <<attempts, raw, captured, flagged, alertVars, stranded, unsure>>

\* The commit, heard of,
Finish(j) ==
  /\ Write(j)
  /\ step' = [step EXCEPT ![j] = "idle"]
  /\ UNCHANGED unheard

\* or not: the worker takes it for a failure.
FinishUnheard(j) ==
  /\ \A i \in Job : unheard[i] < MaxUnheard
  /\ Write(j)
  /\ step' = [step EXCEPT ![j] = "failing"]
  /\ unheard' = [unheard EXCEPT ![j] = @ + 1]

\* Mutant: the scan has been written, and stays.
ProcessFailsLate(j) ==
  /\ step[j] = "read"
  /\ step' = [step EXCEPT ![j] = "failing"]
  /\ scans' = scans \cup {Scan(j)}
  /\ view' = [view EXCEPT ![j] = NoView]
  /\ UNCHANGED <<jobVars, flagged, alertVars, history>>

\* A statement fails, and the transaction is rolled back.
ProcessFails(j) ==
  /\ step[j] \in {"claimed", "read"}
  /\ step' = [step EXCEPT ![j] = "failing"]
  /\ view' = [view EXCEPT ![j] = NoView]
  /\ UNCHANGED <<jobVars, scans, flagged, alertVars, history>>

\* Mutant: a job that is not to be tried again stays as it is.
FailAgain(j) ==
  /\ step[j] = "failing"
  /\ status' = [status EXCEPT ![j] = IF attempts[j] >= MaxAttempts THEN @ ELSE "queued"]
  /\ step' = [step EXCEPT ![j] = "idle"]
  /\ UNCHANGED <<attempts, raw, captured, view, scans, flagged, alertVars, history>>

\* The update asks nothing of the job's status.
Fail(j) ==
  /\ step[j] = "failing"
  /\ status' = [status EXCEPT ![j] = IF attempts[j] >= MaxAttempts THEN "failed" ELSE "queued"]
  /\ step' = [step EXCEPT ![j] = "idle"]
  /\ UNCHANGED <<attempts, raw, captured, view, scans, flagged, alertVars, history>>

\* A crash, a shutdown, or an error of the update, which is ignored: nobody
\* takes the job up again.
Stop(j) ==
  /\ step[j] # "idle" /\ Faults < MaxFaults
  /\ step' = [step EXCEPT ![j] = "idle"]
  /\ view' = [view EXCEPT ![j] = NoView]
  /\ stranded' = stranded \cup {j}
  /\ UNCHANGED <<jobVars, scans, flagged, alertVars, unheard, unsure>>

(***************************************************************************)
(* The registry.                                                           *)
(***************************************************************************)
SetFlag(v) ==
  /\ flagged' = flagged \cup {v}
  /\ UNCHANGED <<jobVars, step, view, scans, alertVars, history>>

ClearFlag(v) ==
  /\ v \in flagged
  /\ flagged' = flagged \ {v}
  /\ unsure' = unsure \cup {j \in Job : status[j] # "none" /\ Corrected[raw[j]] = v}
  /\ UNCHANGED <<jobVars, step, view, scans, alertVars, unheard, stranded>>

(***************************************************************************)
(* The audit service.                                                      *)
(***************************************************************************)
\* Mutant: a second alert of the day is not raised, resolved or not.
ConflictsOnce(v) == {a \in alerts : a.plate = v /\ a.day = day}

\* The open alert that ON CONFLICT DO NOTHING leaves alone.
Conflicts(v) == {a \in alerts : a.plate = v /\ a.day = day /\ a.open}

Raised(v, t) == [id |-> Cardinality(alerts) + 1, plate |-> v, day |-> day,
                 open |-> TRUE, sightings |-> {t}]

\* Mutant: no index, and so no conflict.
HandleAll(s) ==
  /\ s.alert /\ Cardinality(alerts) < MaxAlerts
  /\ handled' = handled \cup {s.by}
  /\ missed' = missed \ {s.by}
  /\ alerts' = alerts \cup {Raised(s.plate, s.by)}
  /\ UNCHANGED <<jobVars, step, view, scans, flagged, day, history>>

\* An event is handled again after a crash of the consumer.
Handle(s) ==
  /\ s.alert
  /\ Conflicts(s.plate) = {} => Cardinality(alerts) < MaxAlerts
  /\ handled' = handled \cup {s.by}
  /\ missed' = missed \ {s.by}
  /\ alerts' =
       IF Conflicts(s.plate) = {} THEN alerts \cup {Raised(s.plate, s.by)}
       ELSE {IF a \in Conflicts(s.plate) /\ a.open
             THEN [a EXCEPT !.sightings = @ \cup {s.by}] ELSE a : a \in alerts}
  /\ UNCHANGED <<jobVars, step, view, scans, flagged, day, history>>

\* An error of the upsert: the consumer logs it and goes on to the next event.
HandleFails(s) ==
  /\ s.alert /\ s.by \notin handled /\ Faults < MaxFaults
  /\ handled' = handled \cup {s.by}
  /\ missed' = missed \cup {s.by}
  /\ UNCHANGED <<jobVars, step, view, scans, flagged, alerts, day, history>>

ResolveAlert(a) ==
  /\ a.open
  /\ alerts' = (alerts \ {a}) \cup {[a EXCEPT !.open = FALSE]}
  /\ UNCHANGED <<jobVars, step, view, scans, flagged, handled, missed, day,
                 history>>

Midnight ==
  /\ day < LastDay
  /\ day' = day + 1
  /\ UNCHANGED <<jobVars, step, view, scans, flagged, handled, missed, alerts,
                 history>>

----------------------------------------------------------------------------
WorkerStep(j) == Claim(j) \/ Read(j) \/ Finish(j) \/ FinishUnheard(j)
                 \/ ProcessFails(j) \/ Fail(j)

SightingsNext ==
  \/ \E j \in Job :
       \/ \E r \in Raw, t \in CaptureTime : Enqueue(j, r, t)
       \/ WorkerStep(j)
       \/ Stop(j)
  \/ \E v \in Vehicle : SetFlag(v) \/ ClearFlag(v)
  \/ \E s \in scans : Handle(s) \/ HandleFails(s)
  \/ \E a \in alerts : ResolveAlert(a)
  \/ Midnight

SightingsSpec == SightingsInit /\ [][SightingsNext]_sightingsVars

\* A worker polls every 500 ms and gives what it has claimed one end or other.
SightingsFairSpec == SightingsSpec /\ \A j \in Job : WF_sightingsVars(WorkerStep(j))

----------------------------------------------------------------------------
(***************************************************************************)
(* Properties.                                                             *)
(***************************************************************************)
\* A job writes one scan, and one more for each commit whose answer was lost:
\* neither failed attempts nor workers that stop repeat a sighting, and what
\* ended as done or duplicate has been written.
ScannedOnce == \A j \in Job :
  LET written == Cardinality({s \in scans : s.by[1] = j})
  IN  /\ written <= 1 + unheard[j]
      /\ status[j] \in {"queued", "processing", "failed"} => written <= unheard[j]
      /\ status[j] \in {"done", "duplicate"} => written > 0

\* A flagged vehicle that was seen is known: once a job has ended as done or
\* duplicate, its vehicle flagged all along and its plate corrected, an alert
\* was raised or still open after the scan, the event has not reached the
\* consumer, or the consumer has only failed on it: it is not tried again.
SightingsAreAlerted == \A j \in Job :
  status[j] \in {"done", "duplicate"} /\ j \notin unsure =>
    \E s \in scans :
      /\ s.by[1] = j /\ s.alert
      /\ s.by \in handled \ missed => \E a \in alerts : s.by \in a.sightings

\* Every job that is enqueued ends, unless its worker stopped before it said so.
Ended(j) == status[j] \in {"done", "duplicate", "failed"}
JobsEnd == \A j \in Job :
  status[j] = "queued" ~> (Ended(j) /\ step[j] = "idle") \/ j \in stranded
=============================================================================
