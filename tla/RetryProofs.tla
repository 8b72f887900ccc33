---------------------------- MODULE RetryProofs ----------------------------
(***************************************************************************)
(* Theorems about RetryQueue, for every number of jobs, workers, requests  *)
(* and attempts.                                                           *)
(***************************************************************************)
EXTENDS RetryQueue, TLAPS

\* A worker that holds a job is the one that claimed it, and knows how often
\* the job was run.
Holding == \A w \in Worker :
  /\ holds[w] = NoJob <=> step[w] = "idle"
  /\ holds[w] # NoJob =>
       runs[holds[w]] = attempts[holds[w]] + (IF step[w] = "claimed" THEN 0 ELSE 1)

\* A job is dead-lettered with its last attempt, and not before.
Counting == \A j \in Job :
  /\ job[j] = "dead_letter" <=> attempts[j] = MaxAttempts
  /\ job[j] = "done" => runs[j] = attempts[j] + 1
  /\ job[j] = "running" => runs[j] \in {attempts[j], attempts[j] + 1}
  /\ job[j] \in {"none", "queued", "dead_letter"} => runs[j] = attempts[j]
  /\ job[j] # "none" => vehicle[j] \in Vehicle

\* A verify request that has inserted its record goes on to store its expiry.
Requested == \A q \in Request :
  /\ asked[q] \in {"answered", "inserted"} => about[q] \in Vehicle
  /\ asked[q] = "inserted" => reply[q] \in records[about[q]]

\* The expiry in a vehicle's row is a recorded policy's, or staff entered it.
OnRecord == \A v \in Vehicle : stored[v] \in records[v] \cup Unverified

IInv == /\ TypeOK /\ ClaimIsExclusive /\ Holding /\ Counting /\ Requested
        /\ OnRecord

\* What a worker does with its job.
LEMMA WorkerStep ==
  ASSUME IInv, NEW w \in Worker, Working(w) \/ Abandon(w)
  PROVE  IInv'
<1> USE QueueAssumption DEF IInv, TypeOK, ClaimIsExclusive, Holding, Counting,
        Requested, OnRecord, Unverified, queueVars, workerVars, requestVars, policyVars
<1>1. ASSUME NEW j \in Job, Claim(w, j)
      PROVE  IInv'
  <2>1. \A x \in Worker : holds[x] # j
    BY <1>1 DEF Claim
  <2> QED
    BY <1>1, <2>1 DEF Claim
<1>2. ASSUME holds[w] # NoJob, step[w] = "claimed", Count(w),
             step'[w] \in {"answered", "failed"}, answer'[w] \in Policy,
             \A x \in Worker \ {w} : step'[x] = step[x],
             step' \in [Worker -> {"idle", "claimed", "answered", "ok", "failed"}],
             answer' \in [Worker -> Policy],
             UNCHANGED <<queueVars, holds, requestVars, policyVars, bureau, crashes>>
      PROVE  IInv'
  <2>1. /\ holds[w] \in Job /\ job[holds[w]] = "running"
        /\ runs[holds[w]] = attempts[holds[w]] /\ attempts[holds[w]] < MaxAttempts
    BY <1>2
  <2>2. \A x \in Worker \ {w} : holds[x] # holds[w]
    BY <1>2
  <2>3. runs' = [runs EXCEPT ![holds[w]] = @ + 1]
    BY <1>2 DEF Count
  <2> QED
    BY <1>2, <2>1, <2>2, <2>3
<1>3. CASE VerifyAnswers(w) \/ VerifyFails(w)
  <2>1. holds[w] # NoJob /\ vehicle[holds[w]] \in Vehicle /\ step[w] = "claimed"
    BY <1>3 DEF VerifyAnswers, VerifyFails
  <2>2. Subject(w) \in Vehicle /\ bureau[Subject(w)] \in Policy
    BY <2>1 DEF Subject, Policy
  <2>3. /\ Count(w)
        /\ UNCHANGED <<queueVars, holds, requestVars, policyVars, bureau, crashes>>
    BY <1>3 DEF VerifyAnswers, VerifyFails
  <2>4. PICK s \in {"answered", "failed"} : step' = [step EXCEPT ![w] = s]
    BY <1>3 DEF VerifyAnswers, VerifyFails
  <2>5. answer' \in [Worker -> Policy]
    BY <1>3, <2>2 DEF VerifyAnswers, VerifyFails
  <2>6. /\ step'[w] \in {"answered", "failed"}
        /\ \A x \in Worker \ {w} : step'[x] = step[x]
        /\ step' \in [Worker -> {"idle", "claimed", "answered", "ok", "failed"}]
    BY <2>4
  <2>7. answer'[w] \in Policy
    BY <2>5
  <2> HIDE DEF queueVars, requestVars, policyVars, IInv
  <2> QED
    BY ONLY <1>2, <2>1, <2>3, <2>5, <2>6, <2>7
<1>4. CASE NothingOnFile(w) \/ PersistFails(w)
  BY <1>4 DEF NothingOnFile, PersistFails
<1>5. CASE PersistPolicy(w)
  <2>1. Subject(w) \in Vehicle
    BY <1>5 DEF PersistPolicy, Subject
  <2>2. /\ records' = [records EXCEPT ![Subject(w)] = @ \cup {answer[w]}]
        /\ stored' = [stored EXCEPT ![Subject(w)] = answer[w]]
    BY <1>5 DEF PersistPolicy
  <2>3. Requested' /\ OnRecord'
    BY <1>5, <2>1, <2>2 DEF PersistPolicy
  <2> QED
    BY <1>5, <2>1, <2>3 DEF PersistPolicy
<1>6. CASE Done(w)
  <2>1. \A x \in Worker \ {w} : holds[x] # holds[w]
    BY <1>6 DEF Done
  <2> QED
    BY <1>6, <2>1 DEF Done, Release, Policy
<1>7. CASE DoneFailed(w)
  <2> DEFINE j == holds[w]
  <2>1. /\ j \in Job /\ job[j] = "running" /\ runs[j] = attempts[j] + 1
        /\ attempts[j] < MaxAttempts
    BY <1>7 DEF DoneFailed
  <2>2. \A x \in Worker \ {w} : holds[x] # j
    BY <1>7 DEF DoneFailed
  <2>3. /\ attempts' = [attempts EXCEPT ![j] = @ + 1]
        /\ job' = [job EXCEPT ![j] = NextStatus(attempts[j] + 1)]
        /\ due' \in [Job -> BOOLEAN]
        /\ Release(w)
        /\ UNCHANGED <<vehicle, since, runs, requestVars, policyVars, bureau, crashes>>
    BY <1>7 DEF DoneFailed
  <2>4. NextStatus(attempts[j] + 1) =
          IF attempts[j] + 1 = MaxAttempts THEN "dead_letter" ELSE "queued"
    BY <2>1 DEF NextStatus
  <2> QED
    BY <2>1, <2>2, <2>3, <2>4 DEF Release, Policy
<1>8. CASE Abandon(w)
  BY <1>8 DEF Abandon, Release, Policy
<1> QED
  BY <1>1, <1>3, <1>4, <1>5, <1>6, <1>7, <1>8 DEF Working
\* What a verify request does, beside the workers.
LEMMA RequestStep ==
  ASSUME IInv, NEW q \in Request, Requesting(q)
  PROVE  IInv'
<1> USE QueueAssumption DEF IInv, TypeOK, ClaimIsExclusive, Holding, Counting,
        Requested, OnRecord, Unverified, queueVars, workerVars, requestVars, policyVars
<1>1. ASSUME NEW v \in Vehicle, RequestAnswers(q, v)
      PROVE  IInv'
  <2>1. bureau[v] \in Policy
    OBVIOUS
  <2> QED
    BY <1>1, <2>1 DEF RequestAnswers
<1>2. CASE CacheRecord(q)
  <2>1. about[q] \in Vehicle /\ reply[q] \in Policy
    BY <1>2 DEF CacheRecord
  <2> QED
    BY <1>2, <2>1 DEF CacheRecord
<1>3. CASE CacheExpiry(q)
  <2>1. about[q] \in Vehicle /\ reply[q] \in records[about[q]]
    BY <1>3 DEF CacheExpiry
  <2> QED
    BY <1>3, <2>1 DEF CacheExpiry
<1>4. CASE CacheFails(q)
  BY <1>4 DEF CacheFails
<1> QED
  BY <1>1, <1>2, <1>3, <1>4 DEF Requesting

\* No step of the queue's users breaks the invariant.
LEMMA Step == IInv /\ [Next]_vars => IInv'
<1> SUFFICES ASSUME IInv, [Next]_vars
             PROVE  IInv'
  OBVIOUS
<1> USE QueueAssumption
<1>1. ASSUME NEW j \in Job, BackoffElapses(j)
      PROVE  IInv'
  BY <1>1 DEF BackoffElapses, IInv, TypeOK, ClaimIsExclusive, Holding, Counting,
     Requested, OnRecord, Unverified, workerVars, requestVars, policyVars
<1>2. ASSUME NEW j \in Job, NEW v \in Vehicle, Enqueue(j, v)
      PROVE  IInv'
  BY <1>2 DEF Enqueue, IInv, TypeOK, ClaimIsExclusive, Holding, Counting,
     Requested, OnRecord, Unverified, workerVars, requestVars, policyVars
<1>3. ASSUME NEW v \in Vehicle, Renew(v)
      PROVE  IInv'
  BY <1>3 DEF Renew, IInv, TypeOK, ClaimIsExclusive, Holding, Counting, Policy,
     Requested, OnRecord, Unverified, queueVars, workerVars, requestVars, policyVars
<1>4. ASSUME NEW v \in Vehicle, EnterExpiry(v)
      PROVE  IInv'
  BY <1>4 DEF EnterExpiry, IInv, TypeOK, ClaimIsExclusive, Holding, Counting,
     Requested, OnRecord, Unverified, queueVars, workerVars, requestVars
<1>5. CASE UNCHANGED vars
  BY <1>5 DEF vars, IInv, TypeOK, ClaimIsExclusive, Holding, Counting,
     Requested, OnRecord, Unverified, queueVars, workerVars, requestVars, policyVars
<1> QED
  BY <1>1, <1>2, <1>3, <1>4, <1>5, WorkerStep, RequestStep DEF Next

\* The invariant holds in every reachable state.
LEMMA Invariant == Spec => []IInv
<1>1. Init => IInv
  BY QueueAssumption DEF Init, IInv, TypeOK, ClaimIsExclusive, Holding, Counting,
     Requested, OnRecord, Unverified, Policy
<1> QED
  BY <1>1, Step, PTL DEF Spec

\* The rows and what workers and requests know of them are typed, the attempts
\* and the runs of a job bounded by max_attempts.
THEOREM TypeCorrect == Spec => []TypeOK
  BY Invariant, PTL DEF IInv

\* retry.go's "multiple workers can claim safely": a job has one worker, and
\* has it only while its row says 'running'.
THEOREM ClaimIsExclusiveHolds == Spec => []ClaimIsExclusive
  BY Invariant, PTL DEF IInv

\* Done counts every failure: a job fails at most max_attempts times and is
\* dead-lettered with the last.
THEOREM AttemptsCountRunsHolds == Spec => []AttemptsCountRuns
<1>1. IInv => AttemptsCountRuns
  BY DEF IInv, Counting, AttemptsCountRuns, TypeOK
<1> QED
  BY <1>1, Invariant, PTL

\* The policy the provider had when j was queued, or a later one, is on record.
Kept(j) == since[j] # 0 => \E p \in records[vehicle[j]] : p >= since[j]

\* What a job's worker has heard is no older than what the provider had when
\* the job was queued, and what it reports as done it has stored.
Known ==
  /\ \A j \in Job : job[j] # "none" => since[j] <= bureau[vehicle[j]]
  /\ \A w \in Worker : step[w] = "answered" => answer[w] >= since[holds[w]]
  /\ \A w \in Worker, j \in Job : step[w] = "ok" /\ holds[w] = j => Kept(j)
  /\ \A j \in Job : job[j] = "done" => Kept(j)

\* Records are never removed: what has been kept stays so while the job's
\* vehicle and history do.
LEMMA KeptStays ==
  ASSUME NEW j \in Job, Kept(j), since'[j] = since[j], vehicle'[j] = vehicle[j],
         records[vehicle[j]] \subseteq records'[vehicle[j]]
  PROVE  Kept(j)'
BY DEF Kept

\* What a worker does with its job keeps Known.
LEMMA WorkerKnows ==
  ASSUME IInv, Known, NEW w \in Worker, Working(w) \/ Abandon(w)
  PROVE  Known'
<1>0. /\ \A x \in Worker : step[x] # "idle" =>
            /\ holds[x] \in Job /\ job[holds[x]] = "running"
            /\ vehicle[holds[x]] \in Vehicle
            /\ since[holds[x]] <= bureau[vehicle[holds[x]]]
      /\ \A j \in Job : since[j] \in Nat
      /\ \A v \in Vehicle : records[v] \subseteq Nat
  BY DEF IInv, TypeOK, Policy, Holding, ClaimIsExclusive, Counting, Known
<1>1. /\ UNCHANGED <<vehicle, since, bureau>>
      /\ \A v \in Vehicle : records[v] \subseteq records'[v]
      /\ \A j \in Job : job'[j] # "none" => job[j] # "none"
      /\ \A x \in Worker \ {w} : /\ holds'[x] = holds[x] /\ step'[x] = step[x]
                                /\ answer'[x] = answer[x]
  <2> USE DEF IInv, TypeOK, queueVars, workerVars, policyVars
  <2>1. CASE \E j \in Job : Claim(w, j)
    BY <2>1 DEF Claim
  <2>2. CASE VerifyAnswers(w) \/ VerifyFails(w) \/ NothingOnFile(w) \/ PersistFails(w)
    BY <2>2 DEF VerifyAnswers, VerifyFails, NothingOnFile, PersistFails
  <2>3. CASE PersistPolicy(w)
    BY <2>3 DEF PersistPolicy
  <2>4. CASE Done(w) \/ DoneFailed(w) \/ Abandon(w)
    BY <1>0, <2>4 DEF Done, DoneFailed, Abandon, Release, Holding
  <2> QED
    BY <2>1, <2>2, <2>3, <2>4 DEF Working
<1>2. \A j \in Job : Kept(j) /\ job[j] # "none" => Kept(j)'
  BY <1>1, KeptStays DEF IInv, Counting
<1>3. \A j \in Job : job'[j] # "none" => since'[j] <= bureau'[vehicle'[j]]
  BY <1>1 DEF Known
<1>4. step'[w] = "answered" => answer'[w] >= since'[holds'[w]]
  <2>1. CASE VerifyAnswers(w)
    <3>1. /\ holds' = holds /\ answer'[w] = bureau[vehicle[holds[w]]]
          /\ step[w] = "claimed"
      BY <2>1 DEF VerifyAnswers, Subject, IInv, TypeOK
    <3>2. /\ since[holds[w]] <= bureau[vehicle[holds[w]]] /\ holds[w] \in Job
          /\ bureau[vehicle[holds[w]]] \in Nat /\ since[holds[w]] \in Nat
      BY <1>0, <3>1 DEF IInv, TypeOK, Policy
    <3> QED
      BY <1>1, <3>1, <3>2
  <2>2. CASE ~VerifyAnswers(w)
    BY <2>2 DEF Working, Claim, VerifyFails, NothingOnFile, PersistPolicy, PersistFails,
       Done, DoneFailed, Abandon, Release, IInv, TypeOK
  <2> QED
    BY <2>1, <2>2
<1>5. ASSUME NEW j \in Job, step'[w] = "ok", holds'[w] = j
      PROVE  Kept(j)'
  <2>1. CASE NothingOnFile(w)
    <3>1. holds[w] = j /\ since[j] \in Nat /\ since[j] <= 0
      BY <1>0, <1>5, <2>1 DEF NothingOnFile, Known
    <3>2. since'[j] = 0
      BY <1>1, <3>1
    <3> QED
      BY <3>2 DEF Kept
  <2>2. CASE PersistPolicy(w)
    <3>1. /\ holds[w] = j /\ answer[w] >= since[j] /\ vehicle[j] \in Vehicle
          /\ records' = [records EXCEPT ![vehicle[j]] = @ \cup {answer[w]}]
      BY <1>0, <1>5, <2>2 DEF PersistPolicy, Subject, Known
    <3>2. answer[w] \in records'[vehicle[j]] /\ since'[j] = since[j] /\ vehicle'[j] = vehicle[j]
      BY <1>1, <3>1 DEF IInv, TypeOK
    <3> QED
      BY <3>1, <3>2 DEF Kept
  <2>3. CASE ~NothingOnFile(w) /\ ~PersistPolicy(w)
    BY <1>5, <2>3 DEF Working, Claim, VerifyAnswers, VerifyFails, PersistFails,
       Done, DoneFailed, Abandon, Release, IInv, TypeOK
  <2> QED
    BY <2>1, <2>2, <2>3
<1>6. ASSUME NEW j \in Job, job'[j] = "done"
      PROVE  Kept(j)'
  <2>1. CASE job[j] = "done"
    BY <1>2, <2>1 DEF Known
  <2>2. CASE job[j] # "done"
    <3>1. Done(w) /\ j = holds[w]
      BY <1>6, <2>2 DEF Working, Claim, VerifyAnswers, VerifyFails, NothingOnFile,
         PersistPolicy, PersistFails, Done, DoneFailed, NextStatus, Abandon, IInv,
         TypeOK, queueVars
    <3>2. step[w] = "ok" /\ job[j] = "running"
      BY <1>0, <3>1 DEF Done
    <3> QED
      BY <1>2, <3>1, <3>2 DEF Known
  <2> QED
    BY <2>1, <2>2
<1>7. ASSUME NEW x \in Worker \ {w}
      PROVE  /\ step'[x] = "answered" => answer'[x] >= since'[holds'[x]]
             /\ \A j \in Job : step'[x] = "ok" /\ holds'[x] = j => Kept(j)'
  <2>1. /\ holds'[x] = holds[x] /\ step'[x] = step[x] /\ answer'[x] = answer[x]
        /\ since' = since
    BY <1>1, <1>7
  <2>2. ASSUME NEW j \in Job, step[x] = "ok", holds[x] = j
        PROVE  Kept(j)'
    <3>1. job[j] # "none" /\ Kept(j)
      BY <1>0, <2>2 DEF Known
    <3> QED
      BY <1>2, <3>1
  <2> QED
    BY <2>1, <2>2 DEF Known
<1>8. /\ \A x \in Worker : step'[x] = "answered" => answer'[x] >= since'[holds'[x]]
      /\ \A x \in Worker, j \in Job : step'[x] = "ok" /\ holds'[x] = j => Kept(j)'
  BY <1>4, <1>5, <1>7
<1> QED
  BY <1>3, <1>6, <1>8 DEF Known

\* So does everything else: a job is queued with what the provider has then,
\* the provider moves on to later policies, records are only added.
LEMMA KnownStep == IInv /\ Known /\ [Next]_vars => Known'
<1> SUFFICES ASSUME IInv, Known, [Next]_vars
             PROVE  Known'
  OBVIOUS
<1>1. ASSUME NEW j \in Job, NEW v \in Vehicle, Enqueue(j, v)
      PROVE  Known'
  <2>1. /\ since'[j] = bureau[v] /\ vehicle'[j] = v /\ job'[j] = "queued"
        /\ \A i \in Job \ {j} : /\ since'[i] = since[i] /\ vehicle'[i] = vehicle[i]
                               /\ job'[i] = job[i]
        /\ UNCHANGED <<bureau, holds, step, answer, records>>
    BY <1>1 DEF Enqueue, IInv, TypeOK, workerVars, policyVars
  <2>2. bureau[v] \in Nat
    BY DEF IInv, TypeOK, Policy
  <2>3. \A w \in Worker : step[w] # "idle" => holds[w] \in Job \ {j}
    BY <1>1 DEF Enqueue, IInv, Holding, ClaimIsExclusive, TypeOK
  <2>4. \A i \in Job \ {j} : Kept(i) => Kept(i)'
    BY <2>1 DEF Kept
  <2>5. \A w \in Worker, i \in Job : step[w] = "ok" /\ holds[w] = i => Kept(i)'
    BY <2>3, <2>4 DEF Known
  <2>6. \A w \in Worker, i \in Job : step'[w] = "ok" /\ holds'[w] = i => Kept(i)'
    BY <2>1, <2>5
  <2>7. \A i \in Job : job'[i] = "done" => Kept(i)'
    BY <2>1, <2>4 DEF Known
  <2>8. \A w \in Worker : step'[w] = "answered" => answer'[w] >= since'[holds'[w]]
    BY <2>1, <2>3 DEF Known
  <2>9. \A i \in Job : job'[i] # "none" => since'[i] <= bureau'[vehicle'[i]]
    BY <2>1, <2>2 DEF Known
  <2> QED
    BY <2>6, <2>7, <2>8, <2>9 DEF Known
<1>2. ASSUME NEW v \in Vehicle, Renew(v)
      PROVE  Known'
  <2>1. /\ UNCHANGED <<job, vehicle, since, holds, step, answer, records>>
        /\ bureau' = [bureau EXCEPT ![v] = @ + 1]
    BY <1>2 DEF Renew, queueVars, workerVars, policyVars
  <2>2. \A j \in Job : job[j] # "none" =>
          /\ vehicle[j] \in Vehicle /\ since[j] \in Nat
          /\ bureau[vehicle[j]] \in Nat
          /\ bureau'[vehicle[j]] \in {bureau[vehicle[j]], bureau[vehicle[j]] + 1}
    BY <2>1 DEF IInv, TypeOK, Policy, Counting
  <2> QED
    BY <2>1, <2>2 DEF Known, Kept
<1>3. ASSUME UNCHANGED <<job, vehicle, since, holds, step, answer, bureau>>,
             \A v \in Vehicle : records[v] \subseteq records'[v]
      PROVE  Known'
  <2>1. \A j \in Job : job[j] # "none" /\ Kept(j) => Kept(j)'
    BY <1>3, KeptStays DEF IInv, Counting
  <2>2. \A w \in Worker, j \in Job : step[w] = "ok" /\ holds[w] = j => job[j] # "none"
    BY DEF IInv, Holding, ClaimIsExclusive, TypeOK
  <2>3. \A w \in Worker, j \in Job : step[w] = "ok" /\ holds[w] = j => Kept(j)'
    BY <2>1, <2>2 DEF Known
  <2>4. \A w \in Worker, j \in Job : step'[w] = "ok" /\ holds'[w] = j => Kept(j)'
    BY <1>3, <2>3
  <2> QED
    BY <1>3, <2>1, <2>4 DEF Known
<1>4. CASE \E j \in Job : BackoffElapses(j)
  BY <1>3, <1>4 DEF BackoffElapses, workerVars, policyVars
<1>5. CASE \E v \in Vehicle : EnterExpiry(v)
  BY <1>3, <1>5 DEF EnterExpiry, queueVars, workerVars
<1>6. ASSUME NEW q \in Request, Requesting(q)
      PROVE  Known'
  <2>1. UNCHANGED <<job, vehicle, since, holds, step, answer, bureau>>
    BY <1>6 DEF Requesting, RequestAnswers, CacheRecord, CacheExpiry, CacheFails,
       queueVars, workerVars
  <2>2. \A v \in Vehicle : records[v] \subseteq records'[v]
    BY <1>6 DEF Requesting, RequestAnswers, CacheRecord, CacheExpiry, CacheFails,
       policyVars, IInv, TypeOK
  <2> QED
    BY <1>3, <2>1, <2>2
<1>7. CASE UNCHANGED vars
  BY <1>3, <1>7 DEF vars, queueVars, workerVars, policyVars
<1> QED
  BY <1>1, <1>2, <1>4, <1>5, <1>6, <1>7, WorkerKnows DEF Next

\* An expiry in a vehicle's row is a recorded policy's or was entered by staff,
\* and a job that is done left on record what the provider had when it was
\* queued, or a later policy, in whatever order workers, verify requests and
\* staff store what they have and however often they fail.
THEOREM VerifiedIsOnRecordHolds == Spec => []VerifiedIsOnRecord
<1>1. Init => Known
  BY DEF Init, Known
<1>2. IInv /\ Known => VerifiedIsOnRecord
  BY DEF IInv, Known, Kept, OnRecord, VerifiedIsOnRecord
<1> QED
  BY <1>1, <1>2, KnownStep, Invariant, PTL DEF Spec

\* Nothing takes a job out of 'done' or 'dead_letter'.
THEOREM EndedIsFinalHolds == Spec => EndedIsFinal
<1>1. IInv /\ [Next]_vars =>
        [\A j \in Job :
           job[j] \in {"done", "dead_letter"} => job'[j] = job[j]]_vars
  <2> SUFFICES ASSUME IInv, Next, NEW j \in Job,
                      job[j] \in {"done", "dead_letter"}
               PROVE  job'[j] = job[j]
    BY DEF vars
  <2> USE DEF IInv, TypeOK, ClaimIsExclusive, Holding, queueVars
  <2>1. ASSUME NEW w \in Worker, Working(w) \/ Abandon(w)
        PROVE  job'[j] = job[j]
    BY <2>1 DEF Working, Abandon, Claim, VerifyAnswers, VerifyFails, NothingOnFile,
       PersistPolicy, PersistFails, Done, DoneFailed
  <2>2. ASSUME NEW q \in Request, Requesting(q)
        PROVE  job'[j] = job[j]
    BY <2>2 DEF Requesting, RequestAnswers, CacheRecord, CacheExpiry, CacheFails
  <2> QED
    BY <2>1, <2>2 DEF Next, BackoffElapses, Enqueue, EnterExpiry, Renew
<1> QED
  BY <1>1, Invariant, PTL DEF Spec, EndedIsFinal
=============================================================================
