-------------------------- MODULE RetentionProofs --------------------------
(***************************************************************************)
(* Theorems about Retention: for any number of fines, pieces of evidence   *)
(* and overlapping sweeps, rows, objects and the chain of custody agree,   *)
(* and protected evidence no sweep has listed is kept.                     *)
(***************************************************************************)
EXTENDS Retention, TLAPS

(***************************************************************************)
(* The inductive invariant.                                                *)
(***************************************************************************)
\* A fine and its evidence are reported together.
ReportedTogether == \A e \in Evidence :
  row[e] = "none" <=> fine[FineOf[e]].status = "none"

\* What a sweep holds has been reported, and what it is about to seal is gone
\* from the bucket.
SweepsTrace == \A s \in Sweeper :
  /\ sweep[s].at = NoEvidence <=> sweep[s].step = "pick"
  /\ \A e \in sweep[s].batch : row[e] # "none"
  /\ sweep[s].at \in Evidence => row[sweep[s].at] # "none"
  /\ sweep[s].step = "seal" => sweep[s].at \notin object

\* Who deleted the object of a row that is not sealed: a sweep whose seal
\* failed, or one that is about to try.
Missing == \A e \in Evidence :
  e \notin object => \/ row[e] = "sealed"
                     \/ e \in cut
                     \/ \E s \in Sweeper : sweep[s].at = e /\ sweep[s].step = "seal"

\* The chain of custody is the row's own history.
ChainOfCustody == \A e \in Evidence :
  /\ custody[e].captured = IF row[e] = "none" THEN 0 ELSE 1
  /\ custody[e].sealed = IF row[e] = "sealed" THEN 1 ELSE 0
  /\ row[e] = "sealed" => e \notin object

Traced == ReportedTogether /\ SweepsTrace /\ Missing /\ ChainOfCustody

IInv == RetentionTypeOK /\ Traced

----------------------------------------------------------------------------
USE RetentionAssumption

LEMMA Initially == RetentionInit => IInv
<1> SUFFICES ASSUME RetentionInit PROVE IInv
  OBVIOUS
<1>1. Resting \in Sweeps /\ 0 \in 0..MaxDays /\ 0 \in 0..MaxStops
  BY DEF Resting, Sweeps
<1>2. RetentionTypeOK
  BY <1>1 DEF RetentionInit, RetentionTypeOK, Fines, Status
<1>3. ReportedTogether /\ ChainOfCustody
  BY DEF RetentionInit, ReportedTogether, ChainOfCustody
<1>4. SweepsTrace /\ Missing
  BY DEF RetentionInit, SweepsTrace, Missing, Resting
<1> QED
  BY <1>2, <1>3, <1>4 DEF IInv, Traced

(***************************************************************************)
(* The steps of the fine and of the clock.                                 *)
(***************************************************************************)
LEMMA IssueKeeps ==
  ASSUME IInv, NEW f \in Fine, Issue(f)
  PROVE  IInv'
<1>1. RetentionTypeOK'
  BY DEF IInv, RetentionTypeOK, Issue, Fines, Status
<1>2. \A e \in Evidence :
        /\ FineOf[e] = f => /\ row[e] = "none" /\ row'[e] = "kept"
                            /\ custody'[e].captured = custody[e].captured + 1
                            /\ custody'[e].sealed = custody[e].sealed
        /\ FineOf[e] # f => row'[e] = row[e] /\ custody'[e] = custody[e]
  BY DEF IInv, RetentionTypeOK, Traced, ReportedTogether, Issue
<1>3. \A e \in Evidence :
        FineOf[e] # f => fine'[FineOf[e]].status = fine[FineOf[e]].status
  BY DEF IInv, RetentionTypeOK, Issue
<1>4. fine'[f].status = "open"
  BY DEF IInv, RetentionTypeOK, Issue, Fines
<1>5. ReportedTogether'
  BY <1>2, <1>3, <1>4 DEF IInv, Traced, ReportedTogether
<1>6. SweepsTrace' /\ Missing'
  BY <1>2 DEF IInv, RetentionTypeOK, Sweeps, Traced, SweepsTrace, Missing, Issue
<1>7. ChainOfCustody'
  BY <1>2 DEF IInv, RetentionTypeOK, Traced, ChainOfCustody, Issue
<1> QED
  BY <1>1, <1>5, <1>6, <1>7 DEF IInv, Traced

\* Steps that neither report a fine nor touch its evidence.
LEMMA WorldKeeps ==
  ASSUME IInv,
         \/ \E f \in Fine, status \in Status \ {"none"} : Decide(f, status)
         \/ \E active \in BOOLEAN : SetHold(active)
         \/ Day
         \/ UNCHANGED retentionVars
  PROVE  IInv'
<1>1. UNCHANGED <<row, custody, object, sweep, cut, stops>>
  BY DEF Decide, SetHold, Day, retentionVars
<1>2. /\ fine' \in [Fine -> Fines] /\ hold' \in BOOLEAN
      /\ \A f \in Fine : fine'[f].status = "none" <=> fine[f].status = "none"
  <2> USE DEF IInv, RetentionTypeOK
  <2>1. CASE \E f \in Fine, status \in Status \ {"none"} : Decide(f, status)
    <3>1. PICK f \in Fine, status \in Status \ {"none"} : Decide(f, status)
      BY <2>1
    <3>2. fine[f] \in Fines /\ 0 \in 0..MaxDays
      BY DEF Fines
    <3>3. \A n \in 0..MaxDays : [fine[f] EXCEPT !.status = status, !.paid = n] \in Fines
      BY <3>2 DEF Fines
    <3>4. fine' \in [Fine -> Fines]
      BY <3>1, <3>2, <3>3 DEF Decide, Fines
    <3>5. \A g \in Fine : fine'[g].status = IF g = f THEN status ELSE fine[g].status
      BY <3>1, <3>2 DEF Decide, Fines
    <3> QED
      BY <3>1, <3>4, <3>5 DEF Decide, Status
  <2>2. CASE \E active \in BOOLEAN : SetHold(active)
    BY <2>2 DEF SetHold
  <2>3. CASE Day
    <3>1. \A n \in 0..MaxDays : More(n) \in 0..MaxDays
      BY DEF More
    <3>2. ASSUME NEW f \in Fine
          PROVE  /\ fine'[f] \in Fines
                 /\ fine'[f].status = "none" <=> fine[f].status = "none"
      <4>1. fine[f] \in Fines
        OBVIOUS
      <4>2. fine'[f] = IF fine[f].status = "none" THEN fine[f]
                       ELSE [status |-> fine[f].status, age |-> More(fine[f].age),
                             paid |-> More(fine[f].paid)]
        BY <2>3 DEF Day
      <4> QED
        BY <3>1, <4>1, <4>2 DEF Fines
    <3>3. fine' = [f \in Fine |-> fine'[f]]
      BY <2>3 DEF Day
    <3> QED
      BY <2>3, <3>2, <3>3 DEF Day
  <2>4. CASE UNCHANGED retentionVars
    BY <2>4 DEF retentionVars
  <2> QED
    BY <2>1, <2>2, <2>3, <2>4
<1> QED
  BY <1>1, <1>2 DEF IInv, RetentionTypeOK, Traced, ReportedTogether, SweepsTrace, Missing,
                    ChainOfCustody

(***************************************************************************)
(* The steps of a sweep.                                                   *)
(***************************************************************************)
LEMMA QueryKeeps ==
  ASSUME IInv, NEW s \in Sweeper, Query(s)
  PROVE  IInv'
<1>1. sweep[s] = Resting /\ sweep[s] \in Sweeps
  BY DEF IInv, RetentionTypeOK, Query
<1>2. sweep'[s] = [batch |-> Due, at |-> NoEvidence, step |-> "pick"]
  BY <1>1 DEF IInv, RetentionTypeOK, Query, Resting, Sweeps
<1>3. Due \subseteq Evidence /\ \A e \in Due : row[e] = "kept"
  BY DEF Due
<1>4. /\ sweep' \in [Sweeper -> Sweeps]
      /\ \A t \in Sweeper : t # s => sweep'[t] = sweep[t]
  BY <1>2, <1>3 DEF IInv, RetentionTypeOK, Query, Sweeps
<1>5. UNCHANGED <<fine, hold, row, custody, object, cut, stops>>
  BY DEF Query
<1>6. SweepsTrace'
  BY <1>2, <1>3, <1>4, <1>5 DEF IInv, Traced, SweepsTrace
<1>7. Missing'
  BY <1>1, <1>2, <1>4, <1>5 DEF IInv, Traced, Missing, Resting
<1> QED
  BY <1>4, <1>5, <1>6, <1>7 DEF IInv, RetentionTypeOK, Traced, ReportedTogether, ChainOfCustody

LEMMA PickKeeps ==
  ASSUME IInv, NEW s \in Sweeper, NEW e \in Evidence, Pick(s, e)
  PROVE  IInv'
<1>1. sweep[s] \in Sweeps /\ sweep[s].at = NoEvidence /\ sweep[s].step = "pick"
  BY DEF IInv, RetentionTypeOK, Traced, SweepsTrace, Pick
<1>2. sweep'[s] = [batch |-> sweep[s].batch \ {e}, at |-> e, step |-> "delete"]
  BY DEF IInv, RetentionTypeOK, Pick
<1>3. /\ sweep' \in [Sweeper -> Sweeps]
      /\ \A t \in Sweeper : t # s => sweep'[t] = sweep[t]
  BY <1>1, <1>2 DEF IInv, RetentionTypeOK, Pick, Sweeps
<1>4. UNCHANGED <<fine, hold, row, custody, object, cut, stops>> /\ row[e] # "none"
  BY DEF Pick, IInv, Traced, SweepsTrace
<1>5. SweepsTrace'
  BY <1>1, <1>2, <1>3, <1>4 DEF IInv, Traced, SweepsTrace
<1>6. Missing'
  BY <1>1, <1>2, <1>3, <1>4 DEF IInv, Traced, Missing
<1> QED
  BY <1>3, <1>4, <1>5, <1>6 DEF IInv, RetentionTypeOK, Traced, ReportedTogether, ChainOfCustody

LEMMA DeleteKeeps ==
  ASSUME IInv, NEW s \in Sweeper, NEW e \in Evidence, Delete(s, e)
  PROVE  IInv'
<1>1. sweep[s] \in Sweeps /\ sweep[s].at = e /\ sweep[s].step = "delete"
  BY DEF IInv, RetentionTypeOK, Delete, Deleting
<1>2. /\ sweep'[s].batch = sweep[s].batch
      /\ sweep'[s].at = e /\ sweep'[s].step = "seal"
      /\ sweep'[s] \in Sweeps
  BY <1>1 DEF IInv, RetentionTypeOK, Delete, Sweeps
<1>3. /\ sweep' \in [Sweeper -> Sweeps]
      /\ \A t \in Sweeper : t # s => sweep'[t] = sweep[t]
  BY <1>2 DEF IInv, RetentionTypeOK, Delete
<1>4. UNCHANGED <<fine, hold, row, custody, cut, stops>> /\ object' = object \ {e}
  BY DEF Delete
<1>5. SweepsTrace'
  BY <1>1, <1>2, <1>3, <1>4 DEF IInv, Traced, SweepsTrace
<1>6. Missing'
  BY <1>1, <1>2, <1>3, <1>4 DEF IInv, Traced, Missing
<1> QED
  BY <1>3, <1>4, <1>5, <1>6 DEF IInv, RetentionTypeOK, Traced, ReportedTogether, ChainOfCustody

\* The next item, or rest: what the sweep was about to seal is written down.
LEMMA LeaveKeeps ==
  ASSUME IInv, NEW s \in Sweeper,
         \/ \E e \in Evidence : DeleteFails(s, e)
         \/ SealFails(s)
         \/ StopSweep(s)
  PROVE  IInv'
<1>1. sweep[s] \in Sweeps
  BY DEF IInv, RetentionTypeOK
<1>2. /\ sweep'[s] \in Sweeps
      /\ sweep'[s].batch \subseteq sweep[s].batch
      /\ sweep'[s].at = NoEvidence /\ sweep'[s].step = "pick"
  <2>1. sweep'[s] = NextItem(sweep[s]) \/ sweep'[s] = Resting
    BY DEF IInv, RetentionTypeOK, DeleteFails, SealFails, StopSweep
  <2> QED
    BY <1>1, <2>1 DEF NextItem, Resting, Sweeps
<1>3. /\ sweep' \in [Sweeper -> Sweeps]
      /\ \A t \in Sweeper : t # s => sweep'[t] = sweep[t]
  BY <1>2 DEF IInv, RetentionTypeOK, DeleteFails, SealFails, StopSweep
<1>4. UNCHANGED <<fine, hold, row, custody, object>> /\ stops' \in 0..MaxStops
  BY DEF IInv, RetentionTypeOK, DeleteFails, SealFails, StopSweep
<1>5. sweep[s].step = "seal" => sweep[s].at \in Evidence
  BY <1>1 DEF IInv, Traced, SweepsTrace, Sweeps
<1>6. /\ cut \subseteq cut' /\ cut' \subseteq Evidence
      /\ sweep[s].step = "seal" => sweep[s].at \in cut'
  BY <1>1, <1>5 DEF IInv, RetentionTypeOK, DeleteFails, Deleting, SealFails, StopSweep
<1>7. SweepsTrace'
  BY <1>2, <1>3, <1>4 DEF IInv, Traced, SweepsTrace
<1>8. Missing'
  BY <1>2, <1>3, <1>4, <1>6 DEF IInv, Traced, Missing
<1> QED
  BY <1>3, <1>4, <1>6, <1>7, <1>8
  DEF IInv, RetentionTypeOK, Traced, ReportedTogether, ChainOfCustody

LEMMA SealKeeps ==
  ASSUME IInv, NEW s \in Sweeper, Seal(s)
  PROVE  IInv'
<1> DEFINE e == sweep[s].at
<1>1. /\ sweep[s] \in Sweeps /\ sweep[s].step = "seal"
      /\ e \in Evidence /\ e \notin object /\ row[e] # "none"
  BY DEF IInv, RetentionTypeOK, Traced, SweepsTrace, Seal, Sweeps
<1>2. /\ sweep'[s] \in Sweeps
      /\ sweep'[s].batch = sweep[s].batch
      /\ sweep'[s].at = NoEvidence /\ sweep'[s].step = "pick"
  BY <1>1 DEF IInv, RetentionTypeOK, Seal, NextItem, Sweeps
<1>3. /\ sweep' \in [Sweeper -> Sweeps]
      /\ \A t \in Sweeper : t # s => sweep'[t] = sweep[t]
  BY <1>2 DEF IInv, RetentionTypeOK, Seal
<1>4. UNCHANGED <<fine, hold, object, cut, stops>>
  BY DEF Seal
<1>5. /\ row' \in [Evidence -> {"none", "kept", "sealed"}]
      /\ \A d \in Evidence : row'[d] = IF d = e THEN "sealed" ELSE row[d]
  BY <1>1 DEF IInv, RetentionTypeOK, Seal
<1>6. /\ custody' \in [Evidence -> [captured : Nat, sealed : Nat]]
      /\ \A d \in Evidence :
           /\ custody'[d].captured = custody[d].captured
           /\ custody'[d].sealed = IF d = e /\ row[d] # "sealed"
                                   THEN custody[d].sealed + 1 ELSE custody[d].sealed
  BY <1>1 DEF IInv, RetentionTypeOK, Seal
<1> HIDE DEF e
<1>7. ReportedTogether'
  BY <1>1, <1>4, <1>5 DEF IInv, Traced, ReportedTogether
<1>8. SweepsTrace'
  BY <1>1, <1>2, <1>3, <1>4, <1>5 DEF IInv, RetentionTypeOK, Sweeps, Traced, SweepsTrace
<1>9. Missing'
  <2> SUFFICES ASSUME NEW d \in Evidence, d \notin object, d # e
               PROVE  \/ row'[d] = "sealed" \/ d \in cut
                      \/ \E t \in Sweeper : sweep'[t].at = d /\ sweep'[t].step = "seal"
    BY <1>4, <1>5 DEF Missing
  <2>1. \A t \in Sweeper : sweep[t].at = d => t # s
    BY DEF e
  <2> QED
    BY <1>3, <1>5, <2>1 DEF IInv, Traced, Missing
<1>10. ChainOfCustody'
  BY <1>1, <1>4, <1>5, <1>6 DEF IInv, Traced, ChainOfCustody
<1> QED
  BY <1>3, <1>4, <1>5, <1>6, <1>7, <1>8, <1>9, <1>10 DEF IInv, RetentionTypeOK, Traced

----------------------------------------------------------------------------
\* Every variable keeps its type, and rows, objects, sweeps and the chain of
\* custody trace each other, whatever the handlers, the clock and the reaper do.
THEOREM Inductive == RetentionSpec => []IInv
<1>1. IInv /\ [RetentionNext]_retentionVars => IInv'
  <2> SUFFICES ASSUME IInv, [RetentionNext]_retentionVars
               PROVE  IInv'
    OBVIOUS
  <2>1. ASSUME NEW s \in Sweeper, SweepStep(s)
        PROVE  IInv'
    BY <2>1, QueryKeeps, PickKeeps, DeleteKeeps, LeaveKeeps, SealKeeps DEF SweepStep
  <2> QED
    BY <2>1, IssueKeeps, WorldKeeps DEF RetentionNext
<1> QED
  BY <1>1, Initially, PTL DEF RetentionSpec

\* The row of fine_evidence, the bucket and evidence_custody tell the same
\* story, however many sweeps (RunOnce and seal) overlap or are cut short.
THEOREM CustodyAgreesHolds == RetentionSpec => []CustodyAgrees
<1>1. IInv => CustodyAgrees
  BY DEF IInv, Traced, Missing, ChainOfCustody, CustodyAgrees
<1> QED
  BY <1>1, Inductive, PTL

\* RunOnce never lists evidence that is protected when its query runs, so what
\* no earlier sweep had listed keeps its object while it stays protected.
THEOREM ProtectedIsKeptHolds == RetentionSpec => ProtectedIsKept
<1> DEFINE Kept(e) == e \in object' /\ ~Listed(e)'
<1>1. ASSUME IInv, [RetentionNext]_retentionVars, NEW e \in Evidence,
             e \in object, ~Listed(e), Protected(e), Protected(e)'
      PROVE  Kept(e)
  <2>0. sweep \in [Sweeper -> Sweeps]
    BY <1>1 DEF IInv, RetentionTypeOK
  <2>1. CASE UNCHANGED <<object, sweep>>
    BY <1>1, <2>1 DEF Listed, Deleting
  <2>2. ASSUME NEW s \in Sweeper, SweepStep(s)
        PROVE  Kept(e)
    <3>1. \A t \in Sweeper : /\ e \notin sweep[t].batch
                             /\ sweep[t].at = e => sweep[t].step # "delete"
      BY <1>1 DEF Listed, Deleting
    <3>2. e \notin Due
      BY <1>1 DEF Due, Protected, PastRetention
    <3>3. \A t \in Sweeper : t # s => sweep'[t] = sweep[t]
      BY <2>0, <2>2 DEF SweepStep, Query, Pick, Delete, DeleteFails, Seal, SealFails, StopSweep
    <3>4. e \in object'
      BY <1>1, <2>2, <3>1
      DEF SweepStep, Query, Pick, Delete, Deleting, DeleteFails, Seal, SealFails, StopSweep
    <3>5. /\ e \notin sweep'[s].batch
          /\ sweep'[s].at = e => sweep'[s].step # "delete"
      <4>1. sweep[s] \in Sweeps
        BY <2>0
      <4>2. CASE Query(s)
        <5>1. sweep'[s].batch = Due /\ sweep'[s].at = NoEvidence
          BY <2>0, <4>1, <4>2 DEF Query, Sweeps, Resting
        <5> QED
          BY <3>2, <5>1
      <4>3. ASSUME NEW d \in Evidence, Pick(s, d)
            PROVE  d # e /\ sweep'[s].batch = sweep[s].batch \ {d} /\ sweep'[s].at = d
        BY <2>0, <3>1, <4>3 DEF Pick
      <4>4. CASE \/ \E d \in Evidence : DeleteFails(s, d)
                 \/ Seal(s)
                 \/ SealFails(s)
                 \/ StopSweep(s)
        <5>1. sweep'[s] = NextItem(sweep[s]) \/ sweep'[s] = Resting
          BY <2>0, <4>4 DEF DeleteFails, Seal, SealFails, StopSweep
        <5> QED
          BY <3>1, <4>1, <5>1 DEF NextItem, Resting, Sweeps
      <4>5. ASSUME NEW d \in Evidence, Delete(s, d)
            PROVE  sweep'[s].batch = sweep[s].batch /\ sweep'[s].step = "seal"
        BY <2>0, <4>1, <4>5 DEF Delete, Sweeps
      <4> QED
        BY <2>2, <3>1, <4>2, <4>3, <4>4, <4>5 DEF SweepStep
    <3> QED
      BY <3>1, <3>3, <3>4, <3>5 DEF Listed, Deleting
  <2> QED
    BY <1>1, <2>1, <2>2 DEF RetentionNext, Issue, Decide, SetHold, Day, retentionVars
<1>2. IInv /\ [RetentionNext]_retentionVars =>
        \A e \in Evidence :
          e \in object /\ ~Listed(e) /\ Protected(e) /\ Protected(e)' => Kept(e)
  BY <1>1
<1> QED
  BY <1>2, Inductive, PTL DEF RetentionSpec, ProtectedIsKept

=============================================================================
