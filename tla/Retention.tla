----------------------------- MODULE Retention -----------------------------
(***************************************************************************)
(* The evidence of fines and the reaper of the fines service.  A sweep     *)
(* lists what is past its retention with one query and then, item by item, *)
(* deletes the object from the bucket and seals the row in a transaction   *)
(* of its own.  Replicas sweep on their tickers, admins on request; fines  *)
(* are decided, and the tenant's legal hold is set, while they do.         *)
(***************************************************************************)
EXTENDS Naturals, FiniteSets

CONSTANTS
  Fine,
  Evidence,
  FineOf,        \* the fine of every piece of evidence
  Sweeper,       \* replicas' tickers and admin requests
  Ticker,        \* the tickers among them
  Stuck,        \* objects the bucket keeps refusing to delete
  DefaultDays, PaidDays, CancelledDays,  \* evidence_retention_policy
  CourtDays,     \* court_case_days; Never when it is NULL
  Never,
  MaxDays,       \* bound: days are not counted any further
  MaxStops,      \* bound: sweeps abandoned half-way
  NoEvidence

ASSUME RetentionAssumption ==
  /\ FineOf \in [Evidence -> Fine]
  /\ Ticker \subseteq Sweeper
  /\ {DefaultDays, PaidDays, CancelledDays, MaxDays, MaxStops} \subseteq Nat
  /\ CourtDays \in Nat \cup {Never} /\ Never \notin Nat
  /\ NoEvidence \notin Evidence

VARIABLES
  fine,     \* status, and days since issued_at and paid_at
  hold,     \* legal_hold_active
  row,      \* fine_evidence: not there, kept or sealed
  custody,  \* evidence_custody: rows per piece of evidence and action
  object,   \* the objects in the bucket
  sweep,    \* each sweep's batch, and the item between delete and seal
  cut,      \* history: evidence whose seal failed after the delete
  stops     \* sweeps abandoned so far

retentionVars == <<fine, hold, row, custody, object, sweep, cut, stops>>

\* "open" stands for every status without a retention of its own.
Status == {"none", "open", "paid", "cancelled", "court"}
Fines  == [status : Status, age : 0..MaxDays, paid : 0..MaxDays]
Sweeps == [batch : SUBSET Evidence, at : Evidence \cup {NoEvidence},
           step : {"pick", "delete", "seal"}]
Resting == [batch |-> {}, at |-> NoEvidence, step |-> "pick"]
NextItem(w) == [batch |-> w.batch, at |-> NoEvidence, step |-> "pick"]

RetentionTypeOK ==
  /\ fine \in [Fine -> Fines]
  /\ hold \in BOOLEAN
  /\ row \in [Evidence -> {"none", "kept", "sealed"}]
  /\ custody \in [Evidence -> [captured : Nat, sealed : Nat]]
  /\ object \subseteq Evidence
  /\ sweep \in [Sweeper -> Sweeps]
  /\ cut \subseteq Evidence
  /\ stops \in 0..MaxStops

\* The officers' app has uploaded what it is about to report.
RetentionInit ==
  /\ fine = [f \in Fine |-> [status |-> "none", age |-> 0, paid |-> 0]]
  /\ hold = FALSE
  /\ row = [e \in Evidence |-> "none"]
  /\ custody = [e \in Evidence |-> [captured |-> 0, sealed |-> 0]]
  /\ object = Evidence
  /\ sweep = [s \in Sweeper |-> Resting]
  /\ cut = {}
  /\ stops = 0

----------------------------------------------------------------------------
(***************************************************************************)
(* The fine: issued with its evidence, decided, growing old.               *)
(***************************************************************************)
Issue(f) ==
  LET E == {e \in Evidence : FineOf[e] = f}
  IN  /\ fine[f].status = "none"
      /\ fine' = [fine EXCEPT ![f].status = "open"]
      /\ row' = [e \in Evidence |-> IF e \in E THEN "kept" ELSE row[e]]
      /\ custody' = [e \in Evidence |->
           IF e \in E THEN [custody[e] EXCEPT !.captured = @ + 1] ELSE custody[e]]
      /\ UNCHANGED <<hold, object, sweep, cut, stops>>

\* What Fines does to the status: pay, cancel, escalate, dispute, resolve.
Decide(f, status) ==
  /\ fine[f].status \notin {"none", status}
  /\ fine' = [fine EXCEPT ![f].status = status,
                          ![f].paid = IF status = "paid" THEN 0 ELSE @]
  /\ UNCHANGED <<hold, row, custody, object, sweep, cut, stops>>

SetHold(active) ==
  /\ hold # active
  /\ hold' = active
  /\ UNCHANGED <<fine, row, custody, object, sweep, cut, stops>>

More(n) == IF n < MaxDays THEN n + 1 ELSE n

Day ==
  /\ fine' = [f \in Fine |-> IF fine[f].status = "none" THEN fine[f] ELSE
       [status |-> fine[f].status, age |-> More(fine[f].age), paid |-> More(fine[f].paid)]]
  /\ UNCHANGED <<hold, row, custody, object, sweep, cut, stops>>

----------------------------------------------------------------------------
(***************************************************************************)
(* The sweep.                                                              *)
(***************************************************************************)
PastRetention(f) ==
  IF f.status = "paid" THEN f.paid > PaidDays
  ELSE IF f.status = "cancelled" THEN f.age > CancelledDays
  ELSE IF f.status = "court" THEN CourtDays # Never /\ f.age > CourtDays
  ELSE f.age > DefaultDays

\* Mutant: the legal hold is not looked at.
DueDespiteHold == {e \in Evidence :
  row[e] = "kept" /\ PastRetention(fine[FineOf[e]])}

Due == {e \in Evidence :
  /\ row[e] = "kept"
  /\ ~hold
  /\ PastRetention(fine[FineOf[e]])}

\* The query of RunOnce: one statement, no lock.
Query(s) ==
  /\ sweep[s] = Resting
  /\ Due # {}
  /\ sweep' = [sweep EXCEPT ![s].batch = Due]
  /\ UNCHANGED <<fine, hold, row, custody, object, cut, stops>>

\* The next item of the batch, in the order the database listed them.
Pick(s, e) ==
  /\ sweep[s].at = NoEvidence /\ e \in sweep[s].batch
  /\ sweep' = [sweep EXCEPT ![s] = [batch |-> @.batch \ {e}, at |-> e, step |-> "delete"]]
  /\ UNCHANGED <<fine, hold, row, custody, object, cut, stops>>

Deleting(s, e) == sweep[s].at = e /\ sweep[s].step = "delete"

\* The bucket's Delete: an object that is gone already is as good as deleted.
Delete(s, e) ==
  /\ Deleting(s, e)
  /\ e \notin Stuck
  /\ object' = object \ {e}
  /\ sweep' = [sweep EXCEPT ![s].step = "seal"]
  /\ UNCHANGED <<fine, hold, row, custody, cut, stops>>

\* Mutant: the sweep ends at the first refusal.
DeleteAborts(s, e) ==
  /\ Deleting(s, e)
  /\ sweep' = [sweep EXCEPT ![s] = Resting]
  /\ UNCHANGED <<fine, hold, row, custody, object, cut, stops>>

\* Any other error leaves the row to the next sweep and goes on.
DeleteFails(s, e) ==
  /\ Deleting(s, e)
  /\ sweep' = [sweep EXCEPT ![s] = NextItem(@)]
  /\ UNCHANGED <<fine, hold, row, custody, object, cut, stops>>

\* Mutant: sealed_at is not read again under the lock.
SealBlindly(s) ==
  LET e == sweep[s].at
  IN  /\ sweep[s].step = "seal"
      /\ row' = [row EXCEPT ![e] = "sealed"]
      /\ custody' = [custody EXCEPT ![e].sealed = @ + 1]
      /\ sweep' = [sweep EXCEPT ![s] = NextItem(@)]
      /\ UNCHANGED <<fine, hold, object, cut, stops>>

\* The transaction: another sweep may have sealed the row by now.
Seal(s) ==
  LET e == sweep[s].at
  IN  /\ sweep[s].step = "seal"
      /\ row' = [row EXCEPT ![e] = "sealed"]
      /\ custody' = IF row[e] = "sealed" THEN custody
                    ELSE [custody EXCEPT ![e].sealed = @ + 1]
      /\ sweep' = [sweep EXCEPT ![s] = NextItem(@)]
      /\ UNCHANGED <<fine, hold, object, cut, stops>>

\* A statement of the transaction fails, and all of it is rolled back.
SealFails(s) ==
  LET e == sweep[s].at
  IN  /\ sweep[s].step = "seal"
      /\ cut' = cut \cup {e}
      /\ sweep' = [sweep EXCEPT ![s] = NextItem(@)]
      /\ UNCHANGED <<fine, hold, row, custody, object, stops>>

\* The replica stops, or the admin's request is cancelled.
StopSweep(s) ==
  /\ sweep[s] # Resting
  /\ stops < MaxStops
  /\ stops' = stops + 1
  /\ cut' = IF sweep[s].step = "seal" THEN cut \cup {sweep[s].at} ELSE cut
  /\ sweep' = [sweep EXCEPT ![s] = Resting]
  /\ UNCHANGED <<fine, hold, row, custody, object>>

SweepStep(s) ==
  \/ Query(s)
  \/ \E e \in Evidence : Pick(s, e) \/ Delete(s, e) \/ DeleteFails(s, e)
  \/ Seal(s)
  \/ SealFails(s)
  \/ StopSweep(s)

RetentionNext ==
  \/ \E f \in Fine :
       \/ Issue(f)
       \/ \E status \in Status \ {"none"} : Decide(f, status)
  \/ \E active \in BOOLEAN : SetHold(active)
  \/ Day
  \/ \E s \in Sweeper : SweepStep(s)

RetentionSpec == RetentionInit /\ [][RetentionNext]_retentionVars

\* A ticker fires again and again, a sweep goes on to its next item, a call
\* to the bucket returns, and a call or a transaction that keeps being tried
\* works in the end; replicas stop only so often, admins owe nothing.
RetentionFairness ==
  \A s \in Ticker :
    /\ WF_retentionVars(Query(s))
    /\ WF_retentionVars(\E e \in Evidence : Pick(s, e))
    /\ \A e \in Evidence :
         /\ WF_retentionVars(DeleteFails(s, e))
         /\ SF_retentionVars(Delete(s, e))
         /\ SF_retentionVars(sweep[s].at = e /\ Seal(s))

RetentionFairSpec == RetentionSpec /\ RetentionFairness

----------------------------------------------------------------------------
(***************************************************************************)
(* Properties.                                                             *)
(***************************************************************************)
\* The row, the bucket and the chain of custody tell the same story however
\* sweeps overlap and stop: evidence is captured once, a sealed row has one
\* 'sealed' entry and no object, and an object that is gone from under a row
\* that is not sealed has its seal under way or cut short.
CustodyAgrees == \A e \in Evidence :
  /\ custody[e].captured = IF row[e] = "none" THEN 0 ELSE 1
  /\ custody[e].sealed = IF row[e] = "sealed" THEN 1 ELSE 0
  /\ row[e] = "sealed" => e \notin object
  /\ e \notin object => \/ row[e] = "sealed"
                        \/ e \in cut
                        \/ \E s \in Sweeper : sweep[s].at = e

\* A sweep has the evidence on its list or is about to delete it.
Listed(e) == \E s \in Sweeper : e \in sweep[s].batch \/ Deleting(s, e)

\* The tenant is under legal hold, or the fine went to court.
Protected(e) == hold \/ (CourtDays = Never /\ fine[FineOf[e]].status = "court")

\* Protected evidence that no sweep had listed before keeps its object as
\* long as it is protected: only a sweep that overlaps the decision can still
\* destroy it (the query of RunOnce; seal does not ask again).
ProtectedIsKept == [][\A e \in Evidence :
  e \in object /\ ~Listed(e) /\ Protected(e) /\ Protected(e)'
    => e \in object' /\ ~Listed(e)']_retentionVars

\* Evidence that stays due is sealed in the end, next to objects the bucket
\* never lets go of and in spite of failed or abandoned sweeps: one poisoned
\* row does not halt the batch.
DueIsSealed == \A e \in Evidence \ Stuck :
  <>[](e \in Due) => <>(row[e] = "sealed")

=============================================================================
