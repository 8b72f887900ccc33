----------------------------- MODULE RetryQueue -----------------------------
(***************************************************************************)
(* The retry queue (retry_jobs) and those who use it: reconcile requests   *)
(* that enqueue a verification per vehicle, workers that claim a job, ask  *)
(* the provider and store its answer, and verify requests that ask and     *)
(* store beside them.  Insurance and inspection are the same code over     *)
(* different columns; one of them is modelled.  The registry's staff write *)
(* the same column of the vehicle by hand.                                 *)
(***************************************************************************)
EXTENDS Naturals, FiniteSets

CONSTANTS
  Job,          \* rows of retry_jobs
  Vehicle,
  Worker,       \* workers, one per service replica
  Request,      \* verify requests
  NoJob, NoVehicle,
  MaxAttempts,  \* retry_jobs.max_attempts
  MaxVersion,   \* bound: policies the provider issues for a vehicle
  MaxCrashes    \* bound: jobs whose worker stops before Done is stored

ASSUME QueueAssumption ==
  /\ MaxAttempts \in Nat \ {0}
  /\ MaxVersion \in Nat
  /\ MaxCrashes \in Nat
  /\ NoJob \notin Job
  /\ NoVehicle \notin Vehicle

VARIABLES
  job,      \* retry_jobs.status, "none" before the insert
  vehicle,  \* retry_jobs.payload: the vehicle to verify
  attempts, \* retry_jobs.attempts
  due,      \* next_run_at <= now()
  since,    \* history: the policy the provider had when the job was queued
  runs,     \* history: times the handler was run for a job
  holds,    \* the job a worker has claimed
  step,     \* how far the worker is with it
  answer,   \* the policy the provider gave the worker, 0 for none
  asked,    \* how far a verify request is
  about,    \* the vehicle it asks about
  reply,    \* the policy the provider gave it, 0 for none
  bureau,   \* the latest policy the provider has on file, 0 for none
  records,  \* policies in insurance_records
  stored,   \* the policy whose expiry is in vehicles, 0 for NULL, or ByHand
  crashes

queueVars   == <<job, vehicle, attempts, due, since>>
workerVars  == <<runs, holds, step, answer>>
requestVars == <<asked, about, reply>>
policyVars  == <<records, stored>>
vars == <<queueVars, workerVars, requestVars, policyVars, bureau, crashes>>

Policy == 0..MaxVersion

\* An expiry that staff entered, whatever policy it is of.
ByHand == MaxVersion + 1

\* What the registry's create leaves in the column, without a record.
Unverified == {0, ByHand}

TypeOK ==
  /\ job \in [Job -> {"none", "queued", "running", "done", "dead_letter"}]
  /\ vehicle \in [Job -> Vehicle \cup {NoVehicle}]
  /\ attempts \in [Job -> 0..MaxAttempts]
  /\ due \in [Job -> BOOLEAN]
  /\ since \in [Job -> Policy]
  /\ runs \in [Job -> 0..MaxAttempts]
  /\ holds \in [Worker -> Job \cup {NoJob}]
  /\ step \in [Worker -> {"idle", "claimed", "answered", "ok", "failed"}]
  /\ answer \in [Worker -> Policy]
  /\ asked \in [Request -> {"none", "answered", "inserted", "done"}]
  /\ about \in [Request -> Vehicle \cup {NoVehicle}]
  /\ reply \in [Request -> Policy]
  /\ bureau \in [Vehicle -> Policy]
  /\ records \in [Vehicle -> SUBSET Policy]
  /\ stored \in [Vehicle -> Policy \cup Unverified]
  /\ crashes \in 0..MaxCrashes

Init ==
  /\ job = [j \in Job |-> "none"]
  /\ vehicle = [j \in Job |-> NoVehicle]
  /\ attempts = [j \in Job |-> 0]
  /\ due = [j \in Job |-> TRUE]
  /\ since = [j \in Job |-> 0]
  /\ runs = [j \in Job |-> 0]
  /\ holds = [w \in Worker |-> NoJob]
  /\ step = [w \in Worker |-> "idle"]
  /\ answer = [w \in Worker |-> 0]
  /\ asked = [q \in Request |-> "none"]
  /\ about = [q \in Request |-> NoVehicle]
  /\ reply = [q \in Request |-> 0]
  /\ bureau = [v \in Vehicle |-> 0]
  /\ records = [v \in Vehicle |-> {}]
  /\ stored \in [Vehicle -> Unverified]
  /\ crashes = 0

----------------------------------------------------------------------------
(***************************************************************************)
(* The queue.                                                              *)
(***************************************************************************)
\* reconcile: a job for a vehicle whose policy is unknown or has expired,
\* which any stored policy does in time, whether or not one is queued.
Enqueue(j, v) ==
  /\ job[j] = "none"
  /\ job' = [job EXCEPT ![j] = "queued"]
  /\ vehicle' = [vehicle EXCEPT ![j] = v]
  /\ since' = [since EXCEPT ![j] = bureau[v]]
  /\ UNCHANGED <<attempts, due, workerVars, requestVars, policyVars, bureau,
                 crashes>>

BackoffElapses(j) ==
  /\ ~due[j]
  /\ due' = [due EXCEPT ![j] = TRUE]
  /\ UNCHANGED <<job, vehicle, attempts, since, workerVars, requestVars,
                 policyVars, bureau, crashes>>

\* Mutant: a running job can be claimed as well.
ClaimAny(w, j) ==
  /\ holds[w] = NoJob
  /\ job[j] \in {"queued", "running"} /\ due[j]
  /\ job' = [job EXCEPT ![j] = "running"]
  /\ holds' = [holds EXCEPT ![w] = j]
  /\ step' = [step EXCEPT ![w] = "claimed"]
  /\ UNCHANGED <<vehicle, attempts, due, since, runs, answer, requestVars,
                 policyVars, bureau, crashes>>

\* One transaction: FOR UPDATE SKIP LOCKED and the update to 'running'.
Claim(w, j) ==
  /\ holds[w] = NoJob
  /\ job[j] = "queued" /\ due[j]
  /\ job' = [job EXCEPT ![j] = "running"]
  /\ holds' = [holds EXCEPT ![w] = j]
  /\ step' = [step EXCEPT ![w] = "claimed"]
  /\ UNCHANGED <<vehicle, attempts, due, since, runs, answer, requestVars,
                 policyVars, bureau, crashes>>

\* The worker lets go of its job.
Release(w) ==
  /\ holds' = [holds EXCEPT ![w] = NoJob]
  /\ step' = [step EXCEPT ![w] = "idle"]
  /\ answer' = [answer EXCEPT ![w] = 0]

Done(w) ==
  /\ step[w] = "ok"
  /\ job' = [job EXCEPT ![holds[w]] = "done"]
  /\ Release(w)
  /\ UNCHANGED <<vehicle, attempts, due, since, runs, requestVars, policyVars,
                 bureau, crashes>>

\* Mutants: the attempts are compared before they are counted, the enum's
\* unused 'failed' is stored.
NextStatusLate(n) == IF n > MaxAttempts THEN "dead_letter" ELSE "queued"
NextStatusFailed(n) == IF n >= MaxAttempts THEN "dead_letter" ELSE "failed"

NextStatus(n) == IF n >= MaxAttempts THEN "dead_letter" ELSE "queued"

DoneFailed(w) ==
  /\ step[w] = "failed"
  /\ attempts' = [attempts EXCEPT ![holds[w]] = @ + 1]
  /\ job' = [job EXCEPT ![holds[w]] = NextStatus(attempts[holds[w]] + 1)]
  /\ due' = [due EXCEPT ![holds[w]] = FALSE]
  /\ Release(w)
  /\ UNCHANGED <<vehicle, since, runs, requestVars, policyVars, bureau,
                 crashes>>

\* The worker stops, or Done's own statement fails: nothing takes the job
\* out of 'running' again.
Abandon(w) ==
  /\ holds[w] # NoJob /\ crashes < MaxCrashes
  /\ crashes' = crashes + 1
  /\ Release(w)
  /\ UNCHANGED <<queueVars, runs, requestVars, policyVars, bureau>>

(***************************************************************************)
(* The worker's handler.                                                   *)
(***************************************************************************)
Subject(w) == vehicle[holds[w]]

Count(w) == runs' = [runs EXCEPT ![holds[w]] = @ + 1]

VerifyAnswers(w) ==
  /\ step[w] = "claimed"
  /\ answer' = [answer EXCEPT ![w] = bureau[Subject(w)]]
  /\ step' = [step EXCEPT ![w] = "answered"]
  /\ Count(w)
  /\ UNCHANGED <<queueVars, holds, requestVars, policyVars, bureau, crashes>>

\* No provider for the tenant, or the provider fails.
VerifyFails(w) ==
  /\ step[w] = "claimed"
  /\ step' = [step EXCEPT ![w] = "failed"]
  /\ Count(w)
  /\ UNCHANGED <<queueVars, holds, answer, requestVars, policyVars, bureau,
                 crashes>>

\* No policy on file: the vehicle is left alone.
NothingOnFile(w) ==
  /\ step[w] = "answered" /\ answer[w] = 0
  /\ step' = [step EXCEPT ![w] = "ok"]
  /\ UNCHANGED <<queueVars, runs, holds, answer, requestVars, policyVars,
                 bureau, crashes>>

PersistPolicy(w) ==
  /\ step[w] = "answered" /\ answer[w] # 0
  /\ records' = [records EXCEPT ![Subject(w)] = @ \cup {answer[w]}]
  /\ stored' = [stored EXCEPT ![Subject(w)] = answer[w]]
  /\ step' = [step EXCEPT ![w] = "ok"]
  /\ UNCHANGED <<queueVars, runs, holds, answer, requestVars, bureau, crashes>>

\* Mutant: the error is logged and the job reported as done.
PersistIgnored(w) ==
  /\ step[w] = "answered" /\ answer[w] # 0
  /\ step' = [step EXCEPT ![w] = "ok"]
  /\ UNCHANGED <<queueVars, runs, holds, answer, requestVars, policyVars,
                 bureau, crashes>>

PersistFails(w) ==
  /\ step[w] = "answered" /\ answer[w] # 0
  /\ step' = [step EXCEPT ![w] = "failed"]
  /\ UNCHANGED <<queueVars, runs, holds, answer, requestVars, policyVars,
                 bureau, crashes>>

(***************************************************************************)
(* Verify requests: cachePolicy is two statements without a transaction,   *)
(* and the request answers whether or not they succeed.                    *)
(***************************************************************************)
RequestAnswers(q, v) ==
  /\ asked[q] = "none"
  /\ asked' = [asked EXCEPT ![q] = IF bureau[v] = 0 THEN "done" ELSE "answered"]
  /\ about' = [about EXCEPT ![q] = v]
  /\ reply' = [reply EXCEPT ![q] = bureau[v]]
  /\ UNCHANGED <<queueVars, workerVars, policyVars, bureau, crashes>>

CacheRecord(q) ==
  /\ asked[q] = "answered"
  /\ asked' = [asked EXCEPT ![q] = "inserted"]
  /\ records' = [records EXCEPT ![about[q]] = @ \cup {reply[q]}]
  /\ UNCHANGED <<queueVars, workerVars, about, reply, stored, bureau, crashes>>

\* Mutant: the vehicle is updated without waiting for the record.
CacheExpiryFirst(q) ==
  /\ asked[q] \in {"answered", "inserted"}
  /\ asked' = [asked EXCEPT ![q] = "done"]
  /\ stored' = [stored EXCEPT ![about[q]] = reply[q]]
  /\ UNCHANGED <<queueVars, workerVars, about, reply, records, bureau, crashes>>

CacheExpiry(q) ==
  /\ asked[q] = "inserted"
  /\ asked' = [asked EXCEPT ![q] = "done"]
  /\ stored' = [stored EXCEPT ![about[q]] = reply[q]]
  /\ UNCHANGED <<queueVars, workerVars, about, reply, records, bureau, crashes>>

CacheFails(q) ==
  /\ asked[q] \in {"answered", "inserted"}
  /\ asked' = [asked EXCEPT ![q] = "done"]
  /\ UNCHANGED <<queueVars, workerVars, about, reply, policyVars, bureau,
                 crashes>>

\* The registry's update: staff enter an expiry, over whatever was verified.
EnterExpiry(v) ==
  /\ stored' = [stored EXCEPT ![v] = ByHand]
  /\ UNCHANGED <<queueVars, workerVars, requestVars, records, bureau, crashes>>

\* The insurer issues a policy, a later one than before.
Renew(v) ==
  /\ bureau[v] < MaxVersion
  /\ bureau' = [bureau EXCEPT ![v] = @ + 1]
  /\ UNCHANGED <<queueVars, workerVars, requestVars, policyVars, crashes>>

----------------------------------------------------------------------------

Working(w) ==
  \/ \E j \in Job : Claim(w, j)
  \/ VerifyAnswers(w) \/ VerifyFails(w)
  \/ NothingOnFile(w) \/ PersistPolicy(w) \/ PersistFails(w)
  \/ Done(w) \/ DoneFailed(w)

Requesting(q) ==
  \/ \E v \in Vehicle : RequestAnswers(q, v)
  \/ CacheRecord(q) \/ CacheExpiry(q) \/ CacheFails(q)

Next ==
  \/ \E j \in Job : BackoffElapses(j) \/ \E v \in Vehicle : Enqueue(j, v)
  \/ \E w \in Worker : Working(w) \/ Abandon(w)
  \/ \E q \in Request : Requesting(q)
  \/ \E v \in Vehicle : EnterExpiry(v) \/ Renew(v)

Spec == Init /\ [][Next]_vars

\* Workers poll every two seconds and time passes.  Nothing is assumed of the
\* provider: it may fail every call.
Fairness ==
  /\ \A w \in Worker : WF_vars(Working(w))
  /\ \A j \in Job : WF_vars(BackoffElapses(j))

FairSpec == Spec /\ Fairness

----------------------------------------------------------------------------
(***************************************************************************)
(* Properties the code has.                                                *)
(***************************************************************************)
\* A job is worked on by the one worker that claimed it, and only while the
\* row says 'running' ("multiple workers can claim safely").
ClaimIsExclusive == \A w \in Worker : holds[w] # NoJob =>
  /\ job[holds[w]] = "running"
  /\ \A x \in Worker : holds[x] = holds[w] => x = w

\* Done counts every failed run of the handler: a job fails at most
\* max_attempts times, and is dead-lettered after exactly that many.
AttemptsCountRuns == \A j \in Job :
  /\ job[j] \in {"queued", "dead_letter"} => runs[j] = attempts[j]
  /\ job[j] \in {"running", "done"} => runs[j] \in {attempts[j], attempts[j] + 1}
  /\ job[j] = "dead_letter" <=> attempts[j] = MaxAttempts

\* What is shown as verified is on record: an expiry in the vehicle's row is
\* that of a recorded policy or was entered by staff, though requests store record
\* and expiry without a transaction and compete with workers and staff; and a
\* job that is done left on record the policy the provider had when it was
\* queued, or a later one, however often it was tried (persistPolicy).
VerifiedIsOnRecord ==
  /\ \A v \in Vehicle : stored[v] \in records[v] \cup Unverified
  /\ \A j \in Job : job[j] = "done" /\ since[j] # 0 =>
       \E p \in records[vehicle[j]] : p >= since[j]

\* A done or dead-lettered job stays so.
EndedIsFinal == [][\A j \in Job :
  job[j] \in {"done", "dead_letter"} => job'[j] = job[j]]_vars

Abandoned(j) == job[j] = "running" /\ \A w \in Worker : holds[w] # j

\* However often the provider and the database fail, a queued job is done or
\* dead-lettered in the end, unless its worker stopped in the middle of it.
JobsEnd == \A j \in Job :
  job[j] = "queued" ~> job[j] \in {"done", "dead_letter"} \/ Abandoned(j)

=============================================================================
