---------------------------- MODULE FinesProofs ----------------------------
(***************************************************************************)
(* Theorems about Fines, for every number of fines, payments, disputes,    *)
(* replicas and stages.                                                    *)
(***************************************************************************)
EXTENDS Fines, TLAPS

OutboxType == [issued : [Fine -> Nat], paid : [Intent -> Nat],
               disputed : [Dispute -> Nat],
               cancelled : [Fine \cup {NoFine} -> Nat],
               escalated : [Fine \X Stage -> Nat]]

(***************************************************************************)
(* One more row of a kind in the outbox, the other rows left alone.        *)
(***************************************************************************)
\* WriteOutbox of a fine.issued event.
LEMMA AnnounceIssued ==
  ASSUME outbox \in OutboxType, NEW f \in Fine, Announce("issued", f)
  PROVE  /\ outbox' \in OutboxType
         /\ outbox'.paid = outbox.paid
         /\ outbox'.escalated = outbox.escalated
         /\ outbox'.cancelled = outbox.cancelled
  BY DEF Announce, OutboxType

\* WriteOutbox of a fine.paid event.
LEMMA AnnouncePaid ==
  ASSUME outbox \in OutboxType, NEW i \in Intent, Announce("paid", i)
  PROVE  /\ outbox' \in OutboxType
         /\ outbox'.paid = [outbox.paid EXCEPT ![i] = @ + 1]
         /\ outbox'.escalated = outbox.escalated
         /\ outbox'.cancelled = outbox.cancelled
  BY DEF Announce, OutboxType

\* WriteOutbox of a fine.disputed event.
LEMMA AnnounceDisputed ==
  ASSUME outbox \in OutboxType, NEW d \in Dispute, Announce("disputed", d)
  PROVE  /\ outbox' \in OutboxType
         /\ outbox'.paid = outbox.paid
         /\ outbox'.escalated = outbox.escalated
         /\ outbox'.cancelled = outbox.cancelled
  BY DEF Announce, OutboxType

\* WriteOutbox of a fine.cancelled event.
LEMMA AnnounceCancelled ==
  ASSUME outbox \in OutboxType, NEW f \in Fine \cup {NoFine},
         Announce("cancelled", f)
  PROVE  /\ outbox' \in OutboxType
         /\ outbox'.paid = outbox.paid
         /\ outbox'.escalated = outbox.escalated
         /\ outbox'.cancelled = [outbox.cancelled EXCEPT ![f] = @ + 1]
  BY DEF Announce, OutboxType

\* WriteOutbox of a fine.escalated event.
LEMMA AnnounceEscalated ==
  ASSUME outbox \in OutboxType, NEW fs \in Fine \X Stage,
         Announce("escalated", fs)
  PROVE  /\ outbox' \in OutboxType
         /\ outbox'.paid = outbox.paid
         /\ outbox'.escalated = [outbox.escalated EXCEPT ![fs] = @ + 1]
         /\ outbox'.cancelled = outbox.cancelled
<1>1. DEFINE E == [outbox.escalated EXCEPT ![fs] = @ + 1]
<1>2. outbox.escalated \in [Fine \X Stage -> Nat]
  BY DEF OutboxType
<1>3. E \in [Fine \X Stage -> Nat]
  BY <1>2
<1>4. outbox' = [outbox EXCEPT !.escalated = E]
  BY DEF Announce
<1> HIDE DEF E
<1>5. /\ outbox' \in OutboxType /\ outbox'.paid = outbox.paid
      /\ outbox'.escalated = E /\ outbox'.cancelled = outbox.cancelled
  BY <1>3, <1>4 DEF OutboxType
<1> QED BY <1>5 DEF E

(***************************************************************************)
(* References: what a request names once it has passed its checks.         *)
(***************************************************************************)
\* A pay request names an intent for a fine that exists, and a row that
\* reads 'succeeded' one whose money was taken.
Recorded(p) ==
  IF pay[p] = "none"
  THEN payRef[p] = NoIntent
  ELSE /\ payRef[p] \in Intent
       /\ intentFine[payRef[p]] \in Fine
       /\ Exists(intentFine[payRef[p]])
       /\ pay[p] \in {"replied_succeeded", "succeeded"} => captured[payRef[p]]

Filed(d) == dispute[d] # "none" => disputed[d] \in Fine /\ Exists(disputed[d])

References ==
  /\ \A p \in Payment : Recorded(p)
  /\ \A d \in Dispute : Filed(d)
  /\ \A r \in Replica : \A c \in batch[r] : Exists(c.fine)

\* An escalation action leads to a status a fine may have, never to 'disputed'
\* or 'paid' unless that is the old status.
LEMMA StatusForRange ==
  ASSUME NEW action, NEW old
  PROVE  StatusFor(action, old) \in {"warned", "overdue", "seized", "court", old}
  BY DEF StatusFor, ActionStatus

\* A committed fine row stays committed.
LEMMA ExistsIsStable ==
  ASSUME TypeOK, References, [Next]_vars, NEW f \in Fine, Exists(f)
  PROVE  Exists(f)'
<1> USE DEF Exists, Status
<1>1. CASE Issuing
  BY <1>1 DEF Issuing, IssueCheck, IssueCommit, IssueRollback, TypeOK
<1>2. CASE Tick
  BY <1>2 DEF Tick
<1>3. CASE Paying
  BY <1>3 DEF Paying, PayCall, PayCommitPending, PayCommitSucceeded, PayLost,
              Capture, WebhookUnknown, WebhookRepeated, WebhookSettles,
              fineVars, TypeOK
<1>4. CASE Disputing
  BY <1>4 DEF Disputing, DisputeRead, DisputeCommit, DisputeRollback,
              ResolveDispute, Verdict, Outcome, fineVars, TypeOK
<1>5. CASE Cancelling
  BY <1>5 DEF Cancelling, Cancel, TypeOK
<1>6. CASE Escalating
  <2>1. ASSUME NEW r \in Replica, NEW c \in batch[r], Advance(r, c)
        PROVE  Exists(f)'
    BY <2>1, StatusForRange DEF Advance, TypeOK
  <2>2. ASSUME status' = status
        PROVE  Exists(f)'
    BY <2>2
  <2> QED
    BY <1>6, <2>1, <2>2 DEF Escalating, Sweep, AdvanceSkips, SweepCrash, fineVars
<1>7. CASE UNCHANGED vars
  BY <1>7 DEF vars, fineVars
<1> QED
  BY <1>1, <1>2, <1>3, <1>4, <1>5, <1>6, <1>7 DEF Next

(***************************************************************************)
(* Type correctness.                                                       *)
(***************************************************************************)
\* A check, commit or rollback of issue() keeps the types.
LEMMA IssuingTyped == TypeOK /\ Issuing => TypeOK'
<1> SUFFICES ASSUME TypeOK, Issuing PROVE TypeOK'
  OBVIOUS
<1> USE DEF TypeOK, Status, paymentVars, disputeVars
<1>1. ASSUME NEW f \in Fine, NEW v \in Subject \cup {NoVehicle}, IssueCheck(f, v)
      PROVE  TypeOK'
  BY <1>1 DEF IssueCheck
<1>2. ASSUME NEW f \in Fine, IssueCommit(f)
      PROVE  TypeOK'
  <2>1. outbox' \in OutboxType
    BY <1>2, AnnounceIssued DEF IssueCommit, OutboxType
  <2> QED
    BY <1>2, <2>1 DEF IssueCommit, OutboxType
<1>3. ASSUME NEW f \in Fine, IssueRollback(f)
      PROVE  TypeOK'
  BY <1>3 DEF IssueRollback
<1> HIDE DEF TypeOK, Status
<1> QED
  BY <1>1, <1>2, <1>3 DEF Issuing

\* So does a pay request or a webhook: the fine whose status it writes is the
\* one its intent charges, which References says exists.
LEMMA PayingTyped == TypeOK /\ References /\ Paying => TypeOK'
<1> SUFFICES ASSUME TypeOK, References, Paying PROVE TypeOK'
  OBVIOUS
<1> USE DEF TypeOK, Status, fineVars, disputeVars
<1>1. ASSUME NEW p \in Payment, NEW f \in Fine, NEW i \in Intent,
             NEW reply \in {"replied_pending", "replied_succeeded"},
             PayCall(p, f, i, reply)
      PROVE  TypeOK'
  BY <1>1 DEF PayCall
<1>2. ASSUME NEW p \in Payment, PayCommitPending(p) \/ PayLost(p)
      PROVE  TypeOK'
  BY <1>2 DEF PayCommitPending, PayLost
<1>3. ASSUME NEW p \in Payment, PayCommitSucceeded(p)
      PROVE  TypeOK'
  <2>1. payRef[p] \in Intent
    BY <1>3 DEF PayCommitSucceeded, References, Recorded
  <2>2. outbox' \in OutboxType
    BY <1>3, <2>1, AnnouncePaid DEF PayCommitSucceeded, OutboxType
  <2> QED
    BY <1>3, <2>2 DEF PayCommitSucceeded, OutboxType
<1>4. ASSUME NEW i \in Intent, Capture(i)
      PROVE  TypeOK'
  BY <1>4 DEF Capture
<1>5. ASSUME NEW i \in Intent, NEW ack \in BOOLEAN,
             WebhookUnknown(i, ack) \/ WebhookRepeated(i, ack)
      PROVE  TypeOK'
  BY <1>5 DEF WebhookUnknown, WebhookRepeated, Ack
<1>6. ASSUME NEW i \in Intent, NEW ack \in BOOLEAN, WebhookSettles(i, ack)
      PROVE  TypeOK'
  <2>1. outbox' \in OutboxType
    BY <1>6, AnnouncePaid DEF WebhookSettles, OutboxType
  <2> QED
    BY <1>6, <2>1 DEF WebhookSettles, Ack, OutboxType
<1> HIDE DEF TypeOK, Status
<1> QED
  BY <1>1, <1>2, <1>3, <1>4, <1>5, <1>6 DEF Paying

\* So does a dispute or a verdict: it writes the fine the dispute names.
LEMMA DisputingTyped == TypeOK /\ References /\ Disputing => TypeOK'
<1> SUFFICES ASSUME TypeOK, References, Disputing PROVE TypeOK'
  OBVIOUS
<1> USE DEF TypeOK, Status, Outcome, fineVars, paymentVars
<1>1. ASSUME NEW d \in Dispute, NEW f \in Fine, DisputeRead(d, f)
      PROVE  TypeOK'
  BY <1>1 DEF DisputeRead
<1>2. ASSUME NEW d \in Dispute, DisputeCommit(d)
      PROVE  TypeOK'
  <2>1. outbox' \in OutboxType
    BY <1>2, AnnounceDisputed DEF DisputeCommit, OutboxType
  <2> QED
    BY <1>2, <2>1 DEF DisputeCommit, OutboxType
<1>3. ASSUME NEW d \in Dispute, DisputeRollback(d)
      PROVE  TypeOK'
  BY <1>3 DEF DisputeRollback
<1>4. ASSUME NEW d \in Dispute, NEW o \in Outcome, ResolveDispute(d, o)
      PROVE  TypeOK'
  <2>1. disputed[d] \in Fine
    BY <1>4 DEF ResolveDispute, References, Filed
  <2>2. outbox' \in OutboxType
    <3>1. outbox \in OutboxType
      BY DEF OutboxType
    <3>2. Announce("cancelled", disputed[d]) \/ outbox' = outbox
      BY <1>4 DEF ResolveDispute
    <3> QED
      BY <2>1, <3>1, <3>2, AnnounceCancelled
  <2>3. Verdict[o] \in Status
    BY DEF Verdict
  <2>4. status' \in [Fine -> Status \cup {"none", "checked"}]
    BY <1>4, <2>1, <2>3 DEF ResolveDispute
  <2>5. dispute' \in [Dispute -> Outcome \cup {"none", "read", "pending"}]
    BY <1>4 DEF ResolveDispute
  <2> QED
    BY <1>4, <2>2, <2>4, <2>5 DEF ResolveDispute, OutboxType
<1> HIDE DEF TypeOK, Status, Outcome
<1> QED
  BY <1>1, <1>2, <1>3, <1>4 DEF Disputing

\* So does cancel(), whether or not it finds the fine.
LEMMA CancellingTyped == TypeOK /\ Cancelling => TypeOK'
<1> SUFFICES ASSUME TypeOK, NEW f \in Fine \cup {NoFine}, Cancel(f)
             PROVE  TypeOK'
  BY DEF Cancelling
<1>1. outbox' \in OutboxType
  BY AnnounceCancelled DEF Cancel, OutboxType, TypeOK
<1> QED
  BY <1>1 DEF Cancel, OutboxType, TypeOK, Status, paymentVars, disputeVars

\* So does a sweep: StatusFor maps every action to a status or keeps the old.
LEMMA EscalatingTyped == TypeOK /\ Escalating => TypeOK'
<1> SUFFICES ASSUME TypeOK, NEW r \in Replica,
                    \/ Sweep(r)
                    \/ \E c \in batch[r] : Advance(r, c) \/ AdvanceSkips(r, c)
                    \/ SweepCrash(r)
             PROVE  TypeOK'
  BY DEF Escalating
<1>1. ASSUME NEW c \in batch[r], Advance(r, c)
      PROVE  TypeOK'
  <2>1. c \in [fine : Fine, to : Stage] /\ <<c.fine, c.to>> \in Fine \X Stage
    BY DEF TypeOK
  <2>2. outbox' \in OutboxType
    BY <1>1, <2>1, AnnounceEscalated DEF Advance, OutboxType, TypeOK
  <2>3. status' \in [Fine -> Status \cup {"none", "checked"}]
    BY <1>1, <2>1, StatusForRange DEF Advance, TypeOK, Status
  <2>4. batch' \in [Replica -> SUBSET [fine : Fine, to : Stage]]
    BY <1>1 DEF Advance, Done, TypeOK
  <2>5. stage' \in [Fine -> Stage \cup {0}]
    BY <1>1, <2>1 DEF Advance, TypeOK
  <2> QED
    BY <1>1, <2>2, <2>3, <2>4, <2>5
    DEF Advance, TypeOK, OutboxType, paymentVars, disputeVars
<1>2. ASSUME NEW c \in batch[r], AdvanceSkips(r, c)
      PROVE  TypeOK'
  BY <1>2 DEF AdvanceSkips, Done, TypeOK, fineVars, paymentVars, disputeVars
<1>3. CASE Sweep(r)
  BY <1>3 DEF Sweep, Candidates, TypeOK, fineVars, paymentVars, disputeVars
<1>4. CASE SweepCrash(r)
  BY <1>4 DEF SweepCrash, TypeOK, fineVars, paymentVars, disputeVars
<1> QED
  BY <1>1, <1>2, <1>3, <1>4

(***************************************************************************)
(* Which parts of the state a step of each component leaves alone.         *)
(***************************************************************************)
\* fine_payments rows and intents are written by handlePay, the webhook and
\* the provider only.
LEMMA OnlyPaymentsChangePayments ==
  ASSUME [Next]_vars, ~Paying
  PROVE  UNCHANGED paymentVars
<1>1. Issuing => UNCHANGED paymentVars
  BY DEF Issuing, IssueCheck, IssueCommit, IssueRollback
<1>2. Tick => UNCHANGED paymentVars
  BY DEF Tick
<1>3. Disputing => UNCHANGED paymentVars
  BY DEF Disputing, DisputeRead, DisputeCommit, DisputeRollback, ResolveDispute
<1>4. Cancelling => UNCHANGED paymentVars
  BY DEF Cancelling, Cancel
<1>5. Escalating => UNCHANGED paymentVars
  BY DEF Escalating, Sweep, Advance, AdvanceSkips, SweepCrash
<1>6. UNCHANGED vars => UNCHANGED paymentVars
  BY DEF vars
<1> QED
  BY <1>1, <1>2, <1>3, <1>4, <1>5, <1>6 DEF Next

\* fine_disputes rows are written by dispute() and resolveDispute() only.
LEMMA OnlyDisputesChangeDisputes ==
  ASSUME [Next]_vars, ~Disputing
  PROVE  UNCHANGED disputeVars
<1>1. Issuing => UNCHANGED disputeVars
  BY DEF Issuing, IssueCheck, IssueCommit, IssueRollback
<1>2. Tick => UNCHANGED disputeVars
  BY DEF Tick
<1>3. Paying => UNCHANGED disputeVars
  BY DEF Paying, PayCall, PayCommitPending, PayCommitSucceeded, PayLost, Capture,
         WebhookUnknown, WebhookRepeated, WebhookSettles
<1>4. Cancelling => UNCHANGED disputeVars
  BY DEF Cancelling, Cancel
<1>5. Escalating => UNCHANGED disputeVars
  BY DEF Escalating, Sweep, Advance, AdvanceSkips, SweepCrash
<1>6. UNCHANGED vars => UNCHANGED disputeVars
  BY DEF vars
<1> QED
  BY <1>1, <1>2, <1>3, <1>4, <1>5, <1>6 DEF Next

\* A sweep holds what it held, or the candidates of the state it queried.
LEMMA OnlySweepsAddCandidates ==
  ASSUME TypeOK, [Next]_vars
  PROVE  \A r \in Replica : batch'[r] \subseteq batch[r] \cup Candidates
<1>1. CASE Escalating
  <2> SUFFICES ASSUME NEW q \in Replica,
                      \/ Sweep(q)
                      \/ \E c \in batch[q] : Advance(q, c) \/ AdvanceSkips(q, c)
                      \/ SweepCrash(q)
               PROVE  \A r \in Replica : batch'[r] \subseteq batch[r] \cup Candidates
    BY <1>1 DEF Escalating
  <2>1. \E S \in SUBSET (batch[q] \cup Candidates) : batch' = [batch EXCEPT ![q] = S]
    <3>1. CASE Sweep(q)
      BY <3>1 DEF Sweep
    <3>2. CASE \E c \in batch[q] : Advance(q, c) \/ AdvanceSkips(q, c)
      <4>1. PICK c \in batch[q] : batch' = [batch EXCEPT ![q] = @ \ {c}]
        BY <3>2 DEF Advance, AdvanceSkips, Done
      <4>2. batch[q] \ {c} \in SUBSET (batch[q] \cup Candidates)
        OBVIOUS
      <4> QED
        BY <4>1, <4>2
    <3>3. CASE SweepCrash(q)
      BY <3>3 DEF SweepCrash
    <3> QED
      BY <3>1, <3>2, <3>3
  <2> QED
    BY <2>1 DEF TypeOK
<1>2. CASE ~Escalating
  <2>1. Issuing => batch' = batch
    BY DEF Issuing, IssueCheck, IssueCommit, IssueRollback
  <2>2. Tick => batch' = batch
    BY DEF Tick
  <2>3. Paying => batch' = batch
    BY DEF Paying, PayCall, PayCommitPending, PayCommitSucceeded, PayLost, Capture,
           WebhookUnknown, WebhookRepeated, WebhookSettles
  <2>4. Disputing => batch' = batch
    BY DEF Disputing, DisputeRead, DisputeCommit, DisputeRollback, ResolveDispute
  <2>5. Cancelling => batch' = batch
    BY DEF Cancelling, Cancel
  <2>6. UNCHANGED vars => batch' = batch
    BY DEF vars
  <2> QED
    BY <1>2, <2>1, <2>2, <2>3, <2>4, <2>5, <2>6 DEF Next
<1> QED
  BY <1>1, <1>2

(***************************************************************************)
(* References is inductive.  A fresh intent is not the one of any earlier  *)
(* request, since those name a fine.                                       *)
(***************************************************************************)
\* Every step keeps the references: no row is deleted, no reference rewritten.
LEMMA ReferencesStep ==
  ASSUME TypeOK, References, [Next]_vars
  PROVE  References'
<1>0. \A f \in Fine : Exists(f) => Exists(f)'
  BY ExistsIsStable
<1>1. \A p \in Payment : Recorded(p)'
  <2>1. ASSUME NEW q \in Payment, NEW f \in Fine, NEW i \in Intent,
               NEW reply \in {"replied_pending", "replied_succeeded"},
               PayCall(q, f, i, reply), NEW p \in Payment
        PROVE  Recorded(p)'
    <3>1. CASE p = q
      <4>1. /\ pay'[p] = reply /\ payRef'[p] = i
            /\ intentFine'[i] = f /\ Exists(f)
            /\ reply = "replied_succeeded" => captured'[i]
        BY <2>1, <3>1 DEF PayCall, TypeOK
      <4> QED
        BY <1>0, <4>1 DEF Recorded
    <3>2. CASE p # q
      <4>1. pay'[p] = pay[p] /\ payRef'[p] = payRef[p]
        BY <2>1, <3>2 DEF PayCall, TypeOK
      <4>2. ASSUME pay[p] # "none"
            PROVE  /\ intentFine'[payRef[p]] = intentFine[payRef[p]]
                   /\ captured[payRef[p]] => captured'[payRef[p]]
        BY <2>1, <4>2, NullAssumption DEF PayCall, IntentFor, References, Recorded, TypeOK
      <4> QED
        BY <1>0, <4>1, <4>2 DEF References, Recorded
    <3> QED
      BY <3>1, <3>2
  <2>2. ASSUME payRef' = payRef, intentFine' = intentFine,
               \A i \in Intent : captured[i] => captured'[i],
               \A p \in Payment : /\ pay'[p] = "none" <=> pay[p] = "none"
                                  /\ pay'[p] \in {"replied_succeeded", "succeeded"}
                                       => \/ pay[p] \in {"replied_succeeded", "succeeded"}
                                          \/ captured'[payRef[p]]
        PROVE  \A p \in Payment : Recorded(p)'
    BY <1>0, <2>2 DEF References, Recorded
  <2>3. ASSUME NEW q \in Payment,
               PayCommitPending(q) \/ PayCommitSucceeded(q) \/ PayLost(q)
        PROVE  \A p \in Payment : Recorded(p)'
    BY <2>2, <2>3 DEF PayCommitPending, PayCommitSucceeded, PayLost, TypeOK
  <2>4. ASSUME NEW i \in Intent, Capture(i)
        PROVE  \A p \in Payment : Recorded(p)'
    BY <2>2, <2>4 DEF Capture, TypeOK
  <2>5. ASSUME NEW i \in Intent, NEW ack \in BOOLEAN, WebhookSettles(i, ack)
        PROVE  \A p \in Payment : Recorded(p)'
    BY <2>2, <2>5 DEF WebhookSettles, WebhookDue, Rows, TypeOK
  <2>6. ASSUME UNCHANGED <<pay, payRef, intentFine, captured>>
        PROVE  \A p \in Payment : Recorded(p)'
    BY <2>2, <2>6
  <2>7. CASE Paying
    <3>1. ASSUME NEW i \in Intent, NEW ack \in BOOLEAN,
                 WebhookUnknown(i, ack) \/ WebhookRepeated(i, ack)
          PROVE  UNCHANGED <<pay, payRef, intentFine, captured>>
      BY <3>1 DEF WebhookUnknown, WebhookRepeated
    <3> QED
      BY <2>1, <2>3, <2>4, <2>5, <2>6, <2>7, <3>1 DEF Paying
  <2>8. CASE ~Paying
    <3>1. UNCHANGED paymentVars
      BY <2>8, OnlyPaymentsChangePayments
    <3> QED
      BY <2>6, <3>1 DEF paymentVars
  <2> QED
    BY <2>7, <2>8
<1>2. \A d \in Dispute : Filed(d)'
  <2>1. ASSUME NEW e \in Dispute, NEW f \in Fine, DisputeRead(e, f)
        PROVE  \A d \in Dispute : Filed(d)'
    BY <1>0, <2>1 DEF DisputeRead, References, Filed, TypeOK
  <2>2. ASSUME NEW e \in Dispute,
               \/ DisputeCommit(e)
               \/ DisputeRollback(e)
               \/ \E outcome \in Outcome : ResolveDispute(e, outcome)
        PROVE  \A d \in Dispute : Filed(d)'
    BY <1>0, <2>2 DEF DisputeCommit, DisputeRollback, ResolveDispute, References,
                      Filed, TypeOK
  <2>3. CASE Disputing
    BY <2>1, <2>2, <2>3 DEF Disputing
  <2>4. CASE UNCHANGED disputeVars
    BY <1>0, <2>4 DEF References, Filed, disputeVars
  <2>5. CASE ~Disputing
    <3>1. UNCHANGED disputeVars
      BY <2>5, OnlyDisputesChangeDisputes
    <3> QED
      BY <2>4, <3>1
  <2> QED
    BY <2>3, <2>5
<1>3. \A r \in Replica : \A c \in batch'[r] : Exists(c.fine)'
  <2>1. \A r \in Replica : batch'[r] \subseteq batch[r] \cup Candidates
    BY OnlySweepsAddCandidates
  <2>2. \A c \in Candidates : c.fine \in Fine /\ Exists(c.fine)
    BY DEF Candidates
  <2>3. \A r \in Replica : \A c \in batch[r] : c.fine \in Fine /\ Exists(c.fine)
    BY DEF References, TypeOK
  <2> QED
    BY <1>0, <2>1, <2>2, <2>3
<1> QED
  BY <1>1, <1>2, <1>3 DEF References

\* The empty tables have the types and dangle nothing.
LEMMA InitTyped == Init => TypeOK /\ References
  BY DEF Init, TypeOK, References, Recorded, Filed

\* The step of the type invariant: one case per component.
LEMMA NextTyped == TypeOK /\ References /\ [Next]_vars => TypeOK'
<1> SUFFICES ASSUME TypeOK, References, [Next]_vars PROVE TypeOK'
  OBVIOUS
<1>1. CASE Tick
  BY <1>1 DEF Tick, TypeOK, paymentVars, disputeVars
<1>2. CASE UNCHANGED vars
  BY <1>2 DEF vars, TypeOK, fineVars, paymentVars, disputeVars
<1> QED
  BY <1>1, <1>2, IssuingTyped, PayingTyped, DisputingTyped, CancellingTyped,
     EscalatingTyped DEF Next

\* TypeOK, with the references that make it inductive: an outbox row is
\* counted under an intent or a fine that exists.
THEOREM TypeCorrect == Spec => [](TypeOK /\ References)
  BY InitTyped, NextTyped, ReferencesStep, PTL DEF Spec

(***************************************************************************)
(* Payments: the fine, its payment rows and the outbox agree.              *)
(***************************************************************************)
\* The state the payment invariants speak of is left alone by the other
\* components, except for the status, which they never set to 'paid'.
LEMMA PaidOnlyByPaying ==
  ASSUME TypeOK, References, [Next]_vars, ~Paying
  PROVE  /\ UNCHANGED paymentVars
         /\ outbox'.paid = outbox.paid
         /\ \A f \in Fine : status'[f] = "paid" => status[f] = "paid"
<1>0. UNCHANGED paymentVars
  BY OnlyPaymentsChangePayments
<1>1. outbox \in OutboxType
  BY DEF TypeOK, OutboxType
<1>2. CASE Issuing
  BY <1>0, <1>1, <1>2, AnnounceIssued
  DEF Issuing, IssueCheck, IssueCommit, IssueRollback, TypeOK
<1>3. CASE Tick
  BY <1>0, <1>3 DEF Tick
<1>4. CASE Disputing
  <2>1. ASSUME NEW d \in Dispute, DisputeCommit(d)
        PROVE  outbox'.paid = outbox.paid
               /\ \A f \in Fine : status'[f] = "paid" => status[f] = "paid"
    BY <1>1, <2>1, AnnounceDisputed DEF DisputeCommit, TypeOK
  <2>2. ASSUME NEW d \in Dispute, NEW o \in Outcome, ResolveDispute(d, o)
        PROVE  outbox'.paid = outbox.paid
               /\ \A f \in Fine : status'[f] = "paid" => status[f] = "paid"
    <3>1. disputed[d] \in Fine
      BY <2>2 DEF ResolveDispute, References, Filed
    <3>2. outbox'.paid = outbox.paid
      BY <1>1, <2>2, <3>1, AnnounceCancelled DEF ResolveDispute
    <3>3. Verdict[o] # "paid"
      BY DEF Outcome, Verdict
    <3> QED
      BY <2>2, <3>2, <3>3 DEF ResolveDispute, TypeOK
  <2> QED
    BY <1>0, <1>4, <2>1, <2>2
    DEF Disputing, DisputeRead, DisputeRollback, fineVars
<1>5. CASE Cancelling
  <2>1. PICK g \in Fine \cup {NoFine} : Cancel(g)
    BY <1>5 DEF Cancelling
  <2>2. outbox'.paid = outbox.paid
    BY <1>1, <2>1, AnnounceCancelled DEF Cancel
  <2> QED
    BY <1>0, <2>1, <2>2 DEF Cancel
<1>6. CASE Escalating
  <2>1. ASSUME NEW r \in Replica, NEW c \in batch[r], Advance(r, c)
        PROVE  outbox'.paid = outbox.paid
               /\ \A f \in Fine : status'[f] = "paid" => status[f] = "paid"
    <3>1. <<c.fine, c.to>> \in Fine \X Stage
      BY DEF TypeOK
    <3> QED
      BY <1>1, <2>1, <3>1, AnnounceEscalated, StatusForRange DEF Advance, TypeOK
  <2> QED
    BY <1>0, <1>6, <2>1 DEF Escalating, Sweep, AdvanceSkips, SweepCrash, fineVars
<1>7. CASE UNCHANGED vars
  BY <1>0, <1>7 DEF vars, fineVars
<1> QED
  BY <1>2, <1>3, <1>4, <1>5, <1>6, <1>7 DEF Next

\* One intent per pay request, when the provider makes a fresh one each time.
Distinct == ~HonoursKey => \A p, q \in Payment :
  payRef[p] = payRef[q] /\ payRef[p] # NoIntent => p = q

PaymentInv == PaidIsBacked /\ PaidIsAnnounced /\ Distinct /\ PaidOnce

\* The step of the payment invariant: handlePay and the webhook establish it,
\* the other components keep the status they find or set one that is not 'paid'.
LEMMA PaymentInvStep ==
  ASSUME TypeOK, References, [Next]_vars, PaymentInv
  PROVE  PaymentInv'
<1>1. CASE ~Paying
  <2>1. /\ UNCHANGED paymentVars
        /\ outbox'.paid = outbox.paid
        /\ \A f \in Fine : status'[f] = "paid" => status[f] = "paid"
    BY <1>1, PaidOnlyByPaying
  <2> QED
    BY <2>1 DEF PaymentInv, PaidIsBacked, PaidIsAnnounced, Distinct, PaidOnce,
                paymentVars
<1>2. CASE Paying
  <2>1. ASSUME NEW p \in Payment, NEW f \in Fine, NEW i \in Intent,
               NEW reply \in {"replied_pending", "replied_succeeded"},
               PayCall(p, f, i, reply)
        PROVE  PaymentInv'
    <3>1. /\ pay[p] = "none" /\ pay'[p] = reply /\ payRef'[p] = i
          /\ \A q \in Payment \ {p} : pay'[q] = pay[q] /\ payRef'[q] = payRef[q]
          /\ status' = status /\ outbox' = outbox
      BY <2>1 DEF PayCall, TypeOK, fineVars
    <3>2. ASSUME NEW q \in Payment, pay[q] # "none"
          PROVE  /\ intentFine'[payRef[q]] = intentFine[payRef[q]]
                 /\ captured[payRef[q]] => captured'[payRef[q]]
                 /\ ~HonoursKey => payRef[q] # i
      BY <2>1, <3>2, NullAssumption
      DEF PayCall, IntentFor, References, Recorded, TypeOK
    <3>3. PaidIsBacked'
      BY <3>1, <3>2 DEF PaymentInv, PaidIsBacked
    <3>4. PaidIsAnnounced' /\ PaidOnce'
      BY <3>1 DEF PaymentInv, PaidIsAnnounced, PaidOnce
    <3>5. \A q \in Payment : pay[q] = "none" => payRef[q] = NoIntent
      BY DEF References, Recorded
    <3>6. Distinct'
      BY <3>1, <3>2, <3>5, NullAssumption DEF PaymentInv, Distinct
    <3> QED
      BY <3>3, <3>4, <3>6 DEF PaymentInv
  <2>2. ASSUME NEW p \in Payment, PayCommitPending(p) \/ PayLost(p)
        PROVE  PaymentInv'
    <3>1. /\ \A q \in Payment : pay'[q] = "succeeded" <=> pay[q] = "succeeded"
          /\ UNCHANGED <<payRef, intentFine, captured, status, outbox>>
      BY <2>2 DEF PayCommitPending, PayLost, TypeOK, fineVars
    <3> QED
      BY <3>1 DEF PaymentInv, PaidIsBacked, PaidIsAnnounced, Distinct, PaidOnce
  <2>3. ASSUME NEW p \in Payment, PayCommitSucceeded(p)
        PROVE  PaymentInv'
    <3> DEFINE i == payRef[p]
    <3>1. /\ pay[p] = "replied_succeeded" /\ i \in Intent
          /\ intentFine[i] \in Fine /\ captured[i]
      BY <2>3 DEF PayCommitSucceeded, References, Recorded
    <3>2. /\ pay' = [pay EXCEPT ![p] = "succeeded"]
          /\ status' = [status EXCEPT ![intentFine[i]] = "paid"]
          /\ UNCHANGED <<payRef, intentFine, captured>>
      BY <2>3 DEF PayCommitSucceeded
    <3>3. outbox'.paid = [outbox.paid EXCEPT ![i] = @ + 1]
      BY <2>3, <3>1, AnnouncePaid DEF PayCommitSucceeded, TypeOK, OutboxType
    <3>4. outbox.paid \in [Intent -> Nat]
      BY DEF TypeOK
    <3> HIDE DEF i
    <3>5. PaidIsBacked'
      BY <3>1, <3>2 DEF i, PaymentInv, PaidIsBacked, TypeOK
    <3>6. PaidIsAnnounced'
      BY <3>1, <3>2, <3>3, <3>4 DEF i, PaymentInv, PaidIsAnnounced, TypeOK
    <3>7. Distinct'
      BY <3>2 DEF PaymentInv, Distinct
    <3>8. PaidOnce'
      <4>1. ~HonoursKey => outbox.paid[i] = 0
        BY <3>1, <3>4, NullAssumption DEF i, PaymentInv, PaidIsAnnounced, Distinct
      <4> QED
        BY <3>1, <3>3, <3>4, <4>1 DEF PaymentInv, PaidOnce
    <3> QED
      BY <3>5, <3>6, <3>7, <3>8 DEF PaymentInv
  <2>4. ASSUME NEW i \in Intent, Capture(i)
        PROVE  PaymentInv'
    BY <2>4
    DEF Capture, PaymentInv, PaidIsBacked, PaidIsAnnounced, Distinct, PaidOnce,
        TypeOK, fineVars
  <2>5. ASSUME NEW i \in Intent, NEW ack \in BOOLEAN,
               WebhookUnknown(i, ack) \/ WebhookRepeated(i, ack)
        PROVE  PaymentInv'
    BY <2>5
    DEF WebhookUnknown, WebhookRepeated, PaymentInv, PaidIsBacked, PaidIsAnnounced,
        Distinct, PaidOnce, fineVars
  <2>6. ASSUME NEW i \in Intent, NEW ack \in BOOLEAN, WebhookSettles(i, ack)
        PROVE  PaymentInv'
    <3>1. PICK p \in Rows(i) : ~AlreadyPaid(p, i)
      BY <2>6 DEF WebhookSettles
    <3>2. /\ p \in Payment /\ payRef[p] = i /\ pay[p] = "pending"
          /\ intentFine[i] \in Fine /\ captured[i]
      BY <2>6, <3>1
      DEF Rows, AlreadyPaid, WebhookSettles, WebhookDue, References, Recorded
    <3>3. /\ pay' = [q \in Payment |-> IF q \in Rows(i) THEN "succeeded" ELSE pay[q]]
          /\ status' = [status EXCEPT ![intentFine[i]] = "paid"]
          /\ UNCHANGED <<payRef, intentFine, captured>>
      BY <2>6 DEF WebhookSettles
    <3>4. outbox'.paid = [outbox.paid EXCEPT ![i] = @ + 1]
      BY <2>6, AnnouncePaid DEF WebhookSettles, TypeOK, OutboxType
    <3>5. outbox.paid \in [Intent -> Nat]
      BY DEF TypeOK
    <3>6. /\ pay'[p] = "succeeded"
          /\ \A q \in Payment : pay'[q] = "succeeded" =>
                                  pay[q] = "succeeded" \/ payRef[q] = i
          /\ \A q \in Payment : pay[q] = "succeeded" => pay'[q] = "succeeded"
      BY <3>1, <3>2, <3>3 DEF Rows
    <3>7. PaidIsBacked'
      BY <3>2, <3>3, <3>6 DEF PaymentInv, PaidIsBacked, TypeOK
    <3>8. PaidIsAnnounced'
      BY <3>2, <3>3, <3>4, <3>5, <3>6 DEF PaymentInv, PaidIsAnnounced
    <3>9. Distinct'
      BY <3>3 DEF PaymentInv, Distinct
    <3>10. PaidOnce'
      <4>1. ~HonoursKey => outbox.paid[i] = 0
        BY <3>2, <3>5, NullAssumption DEF PaymentInv, PaidIsAnnounced, Distinct
      <4> QED
        BY <3>4, <3>5, <4>1 DEF PaymentInv, PaidOnce
    <3> QED
      BY <3>7, <3>8, <3>9, <3>10 DEF PaymentInv
  <2> QED
    BY <1>2, <2>1, <2>2, <2>3, <2>4, <2>5, <2>6 DEF Paying
<1> QED
  BY <1>1, <1>2

\* What a step may do to the state AcksAreSettled speaks of: an intent keeps
\* the fine it charges, an announcement stays, and handleWebhook answers
\* 'settled' only about an intent of a fine that is announced after the step.
LEMMA AckStep ==
  ASSUME TypeOK, References, [Next]_vars, PaymentInv
  PROVE  \A i \in Intent :
           /\ outbox.paid[i] > 0 => outbox'.paid[i] > 0
           /\ intentFine[i] \in Fine => intentFine'[i] = intentFine[i]
           /\ acked'[i] = "settled" /\ acked[i] # "settled" =>
                \E j \in Intent :
                  intentFine'[j] = intentFine'[i] /\ outbox'.paid[j] > 0
<1> SUFFICES ASSUME NEW k \in Intent
             PROVE  /\ outbox.paid[k] > 0 => outbox'.paid[k] > 0
                    /\ intentFine[k] \in Fine => intentFine'[k] = intentFine[k]
                    /\ acked'[k] = "settled" /\ acked[k] # "settled" =>
                         \E j \in Intent :
                           intentFine'[j] = intentFine'[k] /\ outbox'.paid[j] > 0
  OBVIOUS
<1> DEFINE Goal == /\ outbox.paid[k] > 0 => outbox'.paid[k] > 0
                   /\ intentFine[k] \in Fine => intentFine'[k] = intentFine[k]
                   /\ acked'[k] = "settled" /\ acked[k] # "settled" =>
                        \E j \in Intent :
                          intentFine'[j] = intentFine'[k] /\ outbox'.paid[j] > 0
<1>0. outbox.paid \in [Intent -> Nat]
  BY DEF TypeOK
<1>1. CASE ~Paying
  BY <1>1, PaidOnlyByPaying DEF paymentVars
<1>2. ASSUME NEW p \in Payment, NEW f \in Fine, NEW i \in Intent,
             NEW reply \in {"replied_pending", "replied_succeeded"},
             PayCall(p, f, i, reply)
      PROVE  Goal
  <2>1. intentFine[i] = f \/ intentFine[i] = NoFine
    BY <1>2 DEF PayCall, IntentFor
  <2> QED
    BY <1>2, <2>1, NullAssumption DEF PayCall, TypeOK
<1>3. ASSUME NEW p \in Payment, PayCommitPending(p) \/ PayLost(p)
      PROVE  Goal
  BY <1>3 DEF PayCommitPending, PayLost
<1>4. ASSUME NEW p \in Payment, PayCommitSucceeded(p)
      PROVE  Goal
  <2>1. payRef[p] \in Intent
    BY <1>4 DEF PayCommitSucceeded, References, Recorded
  <2>2. outbox'.paid = [outbox.paid EXCEPT ![payRef[p]] = @ + 1]
    BY <1>4, <2>1, AnnouncePaid DEF PayCommitSucceeded, TypeOK, OutboxType
  <2>3. UNCHANGED <<intentFine, acked>>
    BY <1>4 DEF PayCommitSucceeded
  <2> QED
    BY <1>0, <2>1, <2>2, <2>3
<1>5. ASSUME NEW i \in Intent, Capture(i)
      PROVE  Goal
  BY <1>5 DEF Capture
<1>6. ASSUME NEW i \in Intent, NEW ack \in BOOLEAN, WebhookUnknown(i, ack)
      PROVE  Goal
  <2>1. acked' = [acked EXCEPT ![i] = IF ack THEN "unknown" ELSE "no"]
    BY <1>6 DEF WebhookUnknown, Ack
  <2>2. UNCHANGED <<outbox, intentFine>>
    BY <1>6 DEF WebhookUnknown
  <2> QED
    BY <2>1, <2>2 DEF TypeOK
<1>7. ASSUME NEW i \in Intent, NEW ack \in BOOLEAN, WebhookRepeated(i, ack)
      PROVE  Goal
  <2>1. UNCHANGED <<outbox, intentFine>> /\ (k # i => acked'[k] = acked[k])
    BY <1>7 DEF WebhookRepeated, Ack, TypeOK
  <2>2. PICK p \in Rows(i) : AlreadyPaid(p, i)
    BY <1>7 DEF WebhookRepeated
  <2>3. p \in Payment /\ payRef[p] = i /\ intentFine[i] \in Fine
    BY <2>2 DEF Rows, References, Recorded
  <2>4. \E q \in Payment : /\ pay[q] = "succeeded" /\ payRef[q] \in Intent
                           /\ intentFine[payRef[q]] = intentFine[i]
    <3>1. CASE pay[p] = "succeeded"
      BY <2>3, <3>1
    <3>2. CASE status[intentFine[i]] = "paid"
      <4>1. PICK q \in Payment : /\ pay[q] = "succeeded"
                                 /\ intentFine[payRef[q]] = intentFine[i]
        BY <2>3, <3>2 DEF PaymentInv, PaidIsBacked
      <4>2. payRef[q] \in Intent
        BY <4>1 DEF References, Recorded
      <4> QED
        BY <4>1, <4>2
    <3> QED
      BY <2>2, <3>1, <3>2 DEF AlreadyPaid
  <2>5. \E j \in Intent : intentFine[j] = intentFine[i] /\ outbox.paid[j] > 0
    BY <2>4 DEF PaymentInv, PaidIsAnnounced
  <2> QED
    BY <2>1, <2>5
<1>8. ASSUME NEW i \in Intent, NEW ack \in BOOLEAN, WebhookSettles(i, ack)
      PROVE  Goal
  <2>1. outbox'.paid = [outbox.paid EXCEPT ![i] = @ + 1]
    BY <1>8, AnnouncePaid DEF WebhookSettles, TypeOK, OutboxType
  <2>2. UNCHANGED intentFine /\ (k # i => acked'[k] = acked[k])
    BY <1>8 DEF WebhookSettles, Ack, TypeOK
  <2> QED
    BY <1>0, <2>1, <2>2
<1> QED
  BY <1>1, <1>2, <1>3, <1>4, <1>5, <1>6, <1>7, <1>8 DEF Paying

\* So a webhook that was answered 'settled' has its fine announced for good.
LEMMA AcksStep ==
  ASSUME TypeOK, References, [Next]_vars, PaymentInv, AcksAreSettled
  PROVE  AcksAreSettled'
<1> SUFFICES ASSUME NEW i \in Intent, acked'[i] = "settled"
             PROVE  \E j \in Intent :
                      intentFine'[j] = intentFine'[i] /\ outbox'.paid[j] > 0
  BY DEF AcksAreSettled
<1>1. CASE acked[i] = "settled"
  <2>1. PICK j \in Intent : intentFine[j] = intentFine[i] /\ outbox.paid[j] > 0
    BY <1>1 DEF AcksAreSettled
  <2>2. intentFine[j] \in Fine
    BY <2>1 DEF PaymentInv, PaidIsAnnounced, References, Recorded
  <2> QED
    BY <2>1, <2>2, AckStep
<1>2. CASE acked[i] # "settled"
  BY <1>2, AckStep
<1> QED
  BY <1>1, <1>2

\* A fine reads 'paid' only with a succeeded payment behind it, the outbox
\* announces exactly the settled intents, each of them once, and what the
\* provider was told is settled is.
THEOREM PaymentsCorrect == Spec => []PaymentsAgree
<1>1. Init => PaymentInv /\ AcksAreSettled
  BY DEF Init, PaymentInv, PaidIsBacked, PaidIsAnnounced, Distinct, PaidOnce,
         AcksAreSettled
<1>2. PaymentInv /\ AcksAreSettled => PaymentsAgree
  BY DEF PaymentInv, PaymentsAgree
<1>3. TypeOK /\ References /\ [Next]_vars /\ PaymentInv => PaymentInv'
  BY PaymentInvStep
<1>4. TypeOK /\ References /\ [Next]_vars /\ PaymentInv /\ AcksAreSettled
        => AcksAreSettled'
  BY AcksStep
<1> QED
  BY <1>1, <1>2, <1>3, <1>4, TypeCorrect, PTL DEF Spec

(***************************************************************************)
(* Disputes: a disputed fine can be decided.                               *)
(***************************************************************************)
\* Only a dispute's commit makes a fine read 'disputed'.
LEMMA DisputedOnlyByDisputing ==
  ASSUME TypeOK, References, [Next]_vars, ~Disputing, NEW f \in Fine,
         status'[f] = "disputed"
  PROVE  status[f] = "disputed"
<1>1. CASE Issuing
  BY <1>1 DEF Issuing, IssueCheck, IssueCommit, IssueRollback, TypeOK
<1>2. CASE Paying
  BY <1>2 DEF Paying, PayCall, PayCommitPending, PayCommitSucceeded, PayLost,
              Capture, WebhookUnknown, WebhookRepeated, WebhookSettles,
              fineVars, TypeOK
<1>3. CASE Cancelling
  BY <1>3 DEF Cancelling, Cancel, TypeOK
<1>4. CASE Escalating
  <2>1. ASSUME NEW r \in Replica, NEW c \in batch[r], Advance(r, c)
        PROVE  status[f] = "disputed"
    BY <2>1, StatusForRange DEF Advance, TypeOK
  <2> QED
    BY <1>4, <2>1 DEF Escalating, Sweep, AdvanceSkips, SweepCrash, fineVars
<1>5. CASE Tick \/ UNCHANGED vars
  BY <1>5 DEF Tick, vars, fineVars
<1> QED
  BY <1>1, <1>2, <1>3, <1>4, <1>5 DEF Next

\* However many disputes, verdicts and sweeps are in flight, a fine that
\* reads 'disputed' has a dispute that resolveDispute accepts a verdict for.
THEOREM DisputesDecidable == Spec => []DisputedIsPending
<1>1. Init => DisputedIsPending
  BY DEF Init, DisputedIsPending
<1>2. ASSUME TypeOK, References, [Next]_vars, DisputedIsPending
      PROVE  DisputedIsPending'
  <2>1. CASE ~Disputing
    <3>1. UNCHANGED disputeVars
      BY <1>2, <2>1, OnlyDisputesChangeDisputes
    <3>2. \A f \in Fine : status'[f] = "disputed" => status[f] = "disputed"
      BY <1>2, <2>1, DisputedOnlyByDisputing
    <3> QED
      BY <1>2, <3>1, <3>2 DEF DisputedIsPending, disputeVars
  <2>2. ASSUME NEW d \in Dispute, NEW f \in Fine, DisputeRead(d, f)
        PROVE  DisputedIsPending'
    BY <1>2, <2>2 DEF DisputeRead, DisputedIsPending, TypeOK, fineVars
  <2>3. ASSUME NEW d \in Dispute, DisputeCommit(d)
        PROVE  DisputedIsPending'
    BY <1>2, <2>3 DEF DisputeCommit, DisputedIsPending, TypeOK
  <2>4. ASSUME NEW d \in Dispute, DisputeRollback(d)
        PROVE  DisputedIsPending'
    BY <1>2, <2>4 DEF DisputeRollback, DisputedIsPending, TypeOK, fineVars
  <2>5. ASSUME NEW d \in Dispute, NEW o \in Outcome, ResolveDispute(d, o)
        PROVE  DisputedIsPending'
    <3>1. disputed[d] \in Fine /\ Verdict[o] # "disputed"
      BY <1>2, <2>5 DEF ResolveDispute, References, Filed, Outcome, Verdict
    <3>2. \A f \in Fine : status'[f] = "disputed" =>
            f # disputed[d] /\ status[f] = "disputed"
      BY <1>2, <2>5, <3>1 DEF ResolveDispute, TypeOK
    <3>3. \A e \in Dispute : disputed'[e] = disputed[e]
                             /\ (e # d => dispute'[e] = dispute[e])
      BY <1>2, <2>5 DEF ResolveDispute, TypeOK
    <3> QED
      BY <1>2, <3>2, <3>3 DEF DisputedIsPending
  <2> QED
    BY <2>1, <2>2, <2>3, <2>4, <2>5 DEF Disputing
<1> QED
  BY <1>1, <1>2, TypeCorrect, PTL DEF Spec

\* The first verdict an admin commits stands: nothing but resolveDispute moves
\* a dispute that is past its filing, and it refuses one already resolved.
THEOREM VerdictsAreFinal == Spec => VerdictIsFinal
<1>1. TypeOK /\ [Next]_vars =>
        \A d \in Dispute : dispute[d] \in Outcome => dispute'[d] = dispute[d]
  <2> SUFFICES ASSUME TypeOK, [Next]_vars, NEW d \in Dispute,
                      dispute[d] \in Outcome
               PROVE  dispute'[d] = dispute[d]
    OBVIOUS
  <2>1. CASE UNCHANGED disputeVars
    BY <2>1 DEF disputeVars
  <2>2. ASSUME NEW e \in Dispute, NEW f \in Fine, DisputeRead(e, f)
        PROVE  dispute'[d] = dispute[d]
    BY <2>2 DEF DisputeRead, TypeOK, Outcome
  <2>3. ASSUME NEW e \in Dispute, DisputeCommit(e)
        PROVE  dispute'[d] = dispute[d]
    BY <2>3 DEF DisputeCommit, TypeOK, Outcome
  <2>4. ASSUME NEW e \in Dispute, DisputeRollback(e)
        PROVE  dispute'[d] = dispute[d]
    BY <2>4 DEF DisputeRollback, TypeOK, Outcome
  <2>5. ASSUME NEW e \in Dispute, NEW outcome \in Outcome,
               ResolveDispute(e, outcome)
        PROVE  dispute'[d] = dispute[d]
    BY <2>5 DEF ResolveDispute, TypeOK, Outcome
  <2> QED
    BY <2>1, <2>2, <2>3, <2>4, <2>5, OnlyDisputesChangeDisputes DEF Disputing
<1> QED
  BY <1>1, TypeCorrect, PTL DEF Spec, VerdictIsFinal

(***************************************************************************)
(* Escalation: replicas climb a fine's stages once between them.           *)
(***************************************************************************)
\* Only engine.advance moves a stage or announces a climb, and it does both.
LEMMA ClimbOnlyByAdvance ==
  ASSUME TypeOK, References, [Next]_vars,
         ~ \E r \in Replica : \E c \in batch[r] : Advance(r, c)
  PROVE  stage' = stage /\ outbox'.escalated = outbox.escalated
<1>0. outbox \in OutboxType
  BY DEF TypeOK, OutboxType
<1>1. CASE Issuing
  BY <1>0, <1>1, AnnounceIssued DEF Issuing, IssueCheck, IssueCommit, IssueRollback
<1>2. CASE Paying
  <2>1. ASSUME NEW p \in Payment, PayCommitSucceeded(p)
        PROVE  stage' = stage /\ outbox'.escalated = outbox.escalated
    <3>1. payRef[p] \in Intent
      BY <2>1 DEF PayCommitSucceeded, References, Recorded
    <3> QED
      BY <1>0, <2>1, <3>1, AnnouncePaid DEF PayCommitSucceeded
  <2>2. ASSUME NEW i \in Intent, NEW ack \in BOOLEAN, WebhookSettles(i, ack)
        PROVE  stage' = stage /\ outbox'.escalated = outbox.escalated
    BY <1>0, <2>2, AnnouncePaid DEF WebhookSettles
  <2> QED
    BY <1>2, <2>1, <2>2 DEF Paying, PayCall, PayCommitPending, PayLost, Capture,
                            WebhookUnknown, WebhookRepeated, fineVars
<1>3. CASE Disputing
  <2>1. ASSUME NEW d \in Dispute, DisputeCommit(d)
        PROVE  stage' = stage /\ outbox'.escalated = outbox.escalated
    BY <1>0, <2>1, AnnounceDisputed DEF DisputeCommit
  <2>2. ASSUME NEW d \in Dispute, NEW o \in Outcome, ResolveDispute(d, o)
        PROVE  stage' = stage /\ outbox'.escalated = outbox.escalated
    <3>1. disputed[d] \in Fine
      BY <2>2 DEF ResolveDispute, References, Filed
    <3> QED
      BY <1>0, <2>2, <3>1, AnnounceCancelled DEF ResolveDispute
  <2> QED
    BY <1>3, <2>1, <2>2 DEF Disputing, DisputeRead, DisputeRollback, fineVars
<1>4. CASE Cancelling
  BY <1>0, <1>4, AnnounceCancelled DEF Cancelling, Cancel
<1>5. CASE Escalating
  BY <1>5 DEF Escalating, Sweep, AdvanceSkips, SweepCrash, fineVars
<1>6. CASE Tick \/ UNCHANGED vars
  BY <1>6 DEF Tick, vars, fineVars
<1> QED
  BY <1>1, <1>2, <1>3, <1>4, <1>5, <1>6 DEF Next

\* The climb engine.advance commits has not been announced before.
LEMMA ClimbIsNew ==
  ASSUME TypeOK, EscalatedOnce, NEW r \in Replica, NEW c \in batch[r],
         Advance(r, c)
  PROVE  /\ c.fine \in Fine /\ c.to \in Stage
         /\ outbox'.escalated =
              [outbox.escalated EXCEPT ![<<c.fine, c.to>>] = @ + 1]
         /\ outbox.escalated[<<c.fine, c.to>>] = 0
<1> DEFINE fs == <<c.fine, c.to>>
<1>1. c.fine \in Fine /\ c.to \in Stage /\ fs \in Fine \X Stage
  BY DEF TypeOK
<1>2. outbox'.escalated = [outbox.escalated EXCEPT ![fs] = @ + 1]
  BY <1>1, AnnounceEscalated DEF Advance, TypeOK, OutboxType
<1>3. outbox.escalated[fs] \in Nat
  <2> HIDE DEF fs
  <2> QED BY <1>1 DEF TypeOK
<1>4. outbox.escalated[fs] <= 1 /\ (outbox.escalated[fs] = 1 => c.to <= stage[c.fine])
  BY <1>1 DEF EscalatedOnce
<1>5. stage[c.fine] < c.to /\ c.to \in Nat /\ stage[c.fine] \in Nat
  <2>1. \A s \in Stage : s \in Nat
    BY StageAssumption
  <2>2. stage[c.fine] \in Stage \/ stage[c.fine] = 0
    BY <1>1 DEF TypeOK
  <2> QED
    BY <1>1, <2>1, <2>2 DEF Advance
<1> QED
  BY <1>1, <1>2, <1>3, <1>4, <1>5

\* A stage of a fine is announced at most once, whatever stale candidates
\* the replicas hold, and the fine stands on the last stage announced.
THEOREM EscalationCorrect == Spec => []EscalatedOnce
<1>1. Init => EscalatedOnce
  BY StageAssumption DEF Init, EscalatedOnce
<1>2. ASSUME TypeOK, References, [Next]_vars, EscalatedOnce
      PROVE  EscalatedOnce'
  <2>1. ASSUME NEW r \in Replica, NEW c \in batch[r], Advance(r, c)
        PROVE  EscalatedOnce'
    <3> DEFINE E == outbox.escalated
    <3>1. c.fine \in Fine /\ c.to \in Stage /\ <<c.fine, c.to>> \in Fine \X Stage
      BY <1>2 DEF TypeOK
    <3>2. outbox'.escalated = [E EXCEPT ![<<c.fine, c.to>>] = @ + 1]
      BY <1>2, <2>1, <3>1, AnnounceEscalated DEF Advance, TypeOK, OutboxType
    <3>3. stage' = [stage EXCEPT ![c.fine] = c.to] /\ stage[c.fine] < c.to
      BY <2>1 DEF Advance
    <3>4. E \in [Fine \X Stage -> Nat] /\ stage \in [Fine -> Stage \cup {0}]
      BY <1>2 DEF TypeOK
    <3>5. Stage \subseteq Nat /\ \A f \in Fine : stage[f] \in Nat
      <4>1. \A s \in Stage : s \in Nat
        BY StageAssumption
      <4>2. ASSUME NEW f \in Fine
            PROVE  stage[f] \in Nat
        <5>1. stage[f] \in Stage \/ stage[f] = 0
          BY <3>4
        <5> QED
          BY <4>1, <5>1
      <4> QED
        BY <4>1, <4>2
    <3>6. ASSUME NEW f \in Fine, NEW s \in Stage
          PROVE  /\ E[<<f, s>>] \in {0, 1}
                 /\ E[<<f, s>>] = 1 => s <= stage[f]
      <4>1. E[<<f, s>>] \in Nat
        <5>1. <<f, s>> \in Fine \X Stage
          OBVIOUS
        <5> HIDE DEF E
        <5> QED
          BY <3>4, <5>1
      <4>2. E[<<f, s>>] <= 1 /\ (E[<<f, s>>] = 1 => s <= stage[f])
        BY <1>2 DEF EscalatedOnce
      <4> QED
        BY <4>1, <4>2
    <3> HIDE DEF E
    <3>8. E[<<c.fine, c.to>>] = 0
      BY <1>2, <2>1, ClimbIsNew DEF E
    <3>7. ASSUME NEW f \in Fine, NEW s \in Stage
          PROVE  /\ outbox'.escalated[<<f, s>>] <= 1
                 /\ outbox'.escalated[<<f, s>>] = 1 => s <= stage'[f]
                 /\ s = stage'[f] => outbox'.escalated[<<f, s>>] = 1
      <4>1. CASE f = c.fine /\ s = c.to
        BY <3>1, <3>2, <3>3, <3>4, <3>5, <3>8, <4>1
      <4>2. CASE f = c.fine /\ s # c.to
        <5>1. outbox'.escalated[<<f, s>>] = E[<<f, s>>] /\ stage'[f] = c.to
          BY <3>1, <3>2, <3>3, <3>4, <4>2
        <5> QED
          <6>1. E[<<f, s>>] = 1 => s <= stage[f] /\ stage[f] < c.to
            BY <3>3, <3>6, <4>2
          <6>2. s \in Nat /\ c.to \in Nat /\ stage[f] \in Nat
            BY <3>1, <3>5
          <6> QED
            BY <3>6, <4>2, <5>1, <6>1, <6>2
      <4>3. CASE f # c.fine
        <5>1. outbox'.escalated[<<f, s>>] = E[<<f, s>>] /\ stage'[f] = stage[f]
          BY <3>1, <3>2, <3>3, <3>4, <4>3
        <5> QED
          BY <1>2, <5>1 DEF EscalatedOnce, E
      <4> QED
        BY <4>1, <4>2, <4>3
    <3> QED
      BY <3>7 DEF EscalatedOnce
  <2>2. CASE ~ \E r \in Replica : \E c \in batch[r] : Advance(r, c)
    BY <1>2, <2>2, ClimbOnlyByAdvance DEF EscalatedOnce
  <2> QED
    BY <2>1, <2>2
<1> QED
  BY <1>1, <1>2, TypeCorrect, PTL DEF Spec
\* However many replicas sweep, a closed fine climbs no further unless one of
\* them listed it while it was open (engine.RunOnce, engine.advance).
THEOREM ClosedIsLeftAloneHolds == Spec => ClosedIsLeftAlone
<1>1. TypeOK /\ References /\ [Next]_vars =>
        \A f \in Fine : status[f] \in Closed /\ ~Listed(f) =>
          /\ stage'[f] = stage[f]
          /\ status'[f] \in Closed => ~Listed(f)'
  <2> SUFFICES ASSUME TypeOK, References, [Next]_vars, NEW f \in Fine,
                      status[f] \in Closed, ~Listed(f)
               PROVE  /\ stage'[f] = stage[f]
                      /\ ~Listed(f)'
    OBVIOUS
  <2>1. stage'[f] = stage[f]
    <3>1. ASSUME NEW r \in Replica, NEW c \in batch[r], Advance(r, c)
          PROVE  stage'[f] = stage[f]
      <4>1. c.fine # f
        BY DEF Listed
      <4> QED
        BY <3>1, <4>1 DEF Advance, TypeOK
    <3> QED
      BY <3>1, ClimbOnlyByAdvance
  <2>2. \A r \in Replica : batch'[r] \subseteq batch[r] \cup Candidates
    BY OnlySweepsAddCandidates
  <2>3. \A c \in Candidates : c.fine # f
    BY DEF Candidates, Closed
  <2>4. ~Listed(f)'
    BY <2>2, <2>3 DEF Listed
  <2> QED
    BY <2>1, <2>4
<1> QED
  BY <1>1, TypeCorrect, PTL DEF Spec, ClosedIsLeftAlone

(***************************************************************************)
(* Duplicates: the check of issue() on a vehicle and an offence.           *)
(***************************************************************************)
\* Only issue() makes, drops or commits a row; the other handlers keep a row
\* in the table, leave its vehicle and offence alone and never turn now() back.
LEMMA OnlyIssuingMakesRows ==
  ASSUME TypeOK, References, [Next]_vars, ~Issuing
  PROVE  /\ subject' = subject
         /\ \A f \in Fine : /\ age'[f] >= age[f]
                            /\ status'[f] = "none" <=> status[f] = "none"
                            /\ status'[f] = "checked" <=> status[f] = "checked"
<1> DEFINE Kept == /\ subject' = subject
                   /\ \A f \in Fine : /\ age'[f] >= age[f]
                                      /\ status'[f] = "none" <=> status[f] = "none"
                                      /\ status'[f] = "checked" <=> status[f] = "checked"
<1>a. \A f \in Fine : age[f] \in Nat /\ age[f] >= age[f]
  BY DEF TypeOK
<1>b. ASSUME UNCHANGED fineVars
      PROVE  Kept
  BY <1>a, <1>b DEF fineVars
<1>c. ASSUME NEW h \in Fine, NEW st \in Status, Exists(h),
             status' = [status EXCEPT ![h] = st], subject' = subject, age' = age
      PROVE  Kept
  <2>1. \A f \in Fine : status'[f] = IF f = h THEN st ELSE status[f]
    BY <1>c DEF TypeOK
  <2>2. st \notin {"none", "checked"} /\ status[h] \notin {"none", "checked"}
    BY <1>c DEF Exists, Status
  <2> QED
    BY <1>a, <1>c, <2>1, <2>2
<1>1. CASE Tick
  BY <1>1, <1>a DEF Tick, TypeOK
<1>2. CASE Paying
  <2>1. ASSUME NEW p \in Payment, PayCommitSucceeded(p)
        PROVE  Kept
    <3>1. intentFine[payRef[p]] \in Fine /\ Exists(intentFine[payRef[p]])
      BY <2>1 DEF PayCommitSucceeded, References, Recorded
    <3> QED
      BY <1>c, <2>1, <3>1 DEF PayCommitSucceeded, Status
  <2>2. ASSUME NEW i \in Intent, NEW ack \in BOOLEAN, WebhookSettles(i, ack)
        PROVE  Kept
    <3>1. intentFine[i] \in Fine /\ Exists(intentFine[i])
      BY <2>2 DEF WebhookSettles, Rows, References, Recorded
    <3> QED
      BY <1>c, <2>2, <3>1 DEF WebhookSettles, Status
  <2> QED
    BY <1>b, <1>2, <2>1, <2>2
    DEF Paying, PayCall, PayCommitPending, PayLost, Capture, WebhookUnknown,
        WebhookRepeated
<1>3. CASE Disputing
  <2>1. ASSUME NEW d \in Dispute, DisputeCommit(d)
        PROVE  Kept
    <3>1. disputed[d] \in Fine /\ Exists(disputed[d])
      BY <2>1 DEF DisputeCommit, References, Filed
    <3> QED
      BY <1>c, <2>1, <3>1 DEF DisputeCommit, Status
  <2>2. ASSUME NEW d \in Dispute, NEW o \in Outcome, ResolveDispute(d, o)
        PROVE  Kept
    <3>1. disputed[d] \in Fine /\ Exists(disputed[d]) /\ Verdict[o] \in Status
      BY <2>2 DEF ResolveDispute, References, Filed, Outcome, Verdict, Status
    <3> QED
      BY <1>c, <2>2, <3>1 DEF ResolveDispute
  <2> QED
    BY <1>b, <1>3, <2>1, <2>2 DEF Disputing, DisputeRead, DisputeRollback
<1>4. CASE Cancelling
  <2>1. PICK g \in Fine \cup {NoFine} : Cancel(g)
    BY <1>4 DEF Cancelling
  <2>2. /\ subject' = subject /\ age' = age
        /\ \A f \in Fine : status'[f] = IF f = g THEN "cancelled" ELSE status[f]
    BY <2>1 DEF Cancel
  <2>3. \A f \in Fine : f = g => Exists(f)
    BY <2>1, NullAssumption DEF Cancel
  <2>4. \A f \in Fine : f = g => status[f] \notin {"none", "checked"}
    BY <2>3 DEF Exists, Status
  <2> QED
    BY <1>a, <2>2, <2>4
<1>5. CASE Escalating
  <2>1. ASSUME NEW r \in Replica, NEW c \in batch[r], Advance(r, c)
        PROVE  Kept
    <3>1. c.fine \in Fine /\ Exists(c.fine)
      BY DEF References, TypeOK
    <3>2. StatusFor(StageAction[c.to], status[c.fine]) \in Status
      BY <3>1, StatusForRange DEF Exists, Status
    <3>3. status' = [status EXCEPT ![c.fine] =
                       StatusFor(StageAction[c.to], status[c.fine])]
      BY <2>1 DEF Advance
    <3> QED
      BY <1>c, <2>1, <3>1, <3>2, <3>3 DEF Advance
  <2> QED
    BY <1>b, <1>5, <2>1 DEF Escalating, Sweep, AdvanceSkips, SweepCrash
<1>6. CASE UNCHANGED vars
  BY <1>b, <1>6 DEF vars
<1> QED
  BY <1>1, <1>2, <1>3, <1>4, <1>5, <1>6 DEF Next

\* Only the check of issue() looks at the other fines.
LEMMA OnlyIssuingLooks ==
  ASSUME [Next]_vars, ~Issuing
  PROVE  unseen' = unseen
<1> USE DEF fineVars
<1>1. CASE Tick
  BY <1>1 DEF Tick
<1>2. CASE Paying
  BY <1>2 DEF Paying, PayCall, PayCommitPending, PayCommitSucceeded, PayLost, Capture,
              WebhookUnknown, WebhookRepeated, WebhookSettles
<1>3. CASE Disputing
  BY <1>3 DEF Disputing, DisputeRead, DisputeCommit, DisputeRollback, ResolveDispute
<1>4. CASE Cancelling
  BY <1>4 DEF Cancelling, Cancel
<1>5. CASE Escalating
  BY <1>5 DEF Escalating, Sweep, Advance, AdvanceSkips, SweepCrash
<1>6. CASE UNCHANGED vars
  BY <1>6 DEF vars
<1> QED
  BY <1>1, <1>2, <1>3, <1>4, <1>5, <1>6 DEF Next

\* Two requests or rows about one vehicle and offence, neither rolled back: the
\* later check counted the earlier row, which is too old to be counted then,
\* or could not see it.
Explained(f, g) ==
  /\ f # g /\ subject[f] = subject[g] /\ subject[f] # NoVehicle
  /\ status[f] # "none" /\ status[g] # "none"
  => \/ age[f] >= DuplicateWindow \/ age[g] >= DuplicateWindow
     \/ f \in unseen[g] \/ g \in unseen[f]

DuplicateInv == \A f, g \in Fine : Explained(f, g)

\* The step of the duplicate invariant: a check explains its row against all
\* that are there, committed or not, and nothing else makes a row or changes
\* what the two are about.
LEMMA DuplicateInvStep ==
  ASSUME TypeOK, References, [Next]_vars, DuplicateInv
  PROVE  DuplicateInv'
<1>0. TypeOK' /\ DuplicateWindow \in Nat
  BY NextTyped, BoundAssumption
<1>1. ASSUME NEW h \in Fine, NEW v \in Subject \cup {NoVehicle}, IssueCheck(h, v)
      PROVE  DuplicateInv'
  <2>1. /\ status[h] = "none" /\ status' = [status EXCEPT ![h] = "checked"]
        /\ subject' = [subject EXCEPT ![h] = v] /\ age' = age
        /\ unseen' = [unseen EXCEPT ![h] =
                        {g \in Fine : status[g] \in {"checked", "cancelled"}}]
        /\ v # NoVehicle => LiveDuplicates(v) = {}
    BY <1>1 DEF IssueCheck
  <2>2. ASSUME NEW g \in Fine, g # h, subject[g] = v, v # NoVehicle,
               status[g] # "none"
        PROVE  age'[g] >= DuplicateWindow \/ g \in unseen'[h]
    <3>1. g \notin LiveDuplicates(v) /\ age[g] \in Nat
      BY <2>1, <2>2 DEF TypeOK
    <3>2. unseen'[h] = {k \in Fine : status[k] \in {"checked", "cancelled"}}
      BY <2>1 DEF TypeOK
    <3>3. Exists(g) \/ status[g] = "checked"
      BY <2>2 DEF Exists, TypeOK
    <3> QED
      BY <1>0, <2>1, <2>2, <3>1, <3>2, <3>3 DEF LiveDuplicates
  <2>3. \A g \in Fine \ {h} : /\ subject'[g] = subject[g] /\ status'[g] = status[g]
                             /\ unseen'[g] = unseen[g]
    BY <2>1 DEF TypeOK
  <2>4. subject'[h] = v
    BY <2>1 DEF TypeOK
  <2>5. ASSUME NEW f \in Fine, NEW g \in Fine
        PROVE  Explained(f, g)'
    <3>1. CASE f # h /\ g # h
      BY <2>1, <2>3, <3>1 DEF DuplicateInv, Explained
    <3>2. CASE f = h /\ g # h
      BY <2>2, <2>3, <2>4, <3>2 DEF Explained
    <3>3. CASE f # h /\ g = h
      BY <2>2, <2>3, <2>4, <3>3 DEF Explained
    <3> QED
      BY <3>1, <3>2, <3>3 DEF Explained
  <2> QED
    BY <2>5 DEF DuplicateInv
<1>2. ASSUME NEW h \in Fine, IssueCommit(h)
      PROVE  DuplicateInv'
  <2>1. /\ UNCHANGED <<subject, age, unseen>>
        /\ \A f \in Fine : status'[f] = "none" <=> status[f] = "none"
    BY <1>2 DEF IssueCommit, TypeOK
  <2> QED
    BY <2>1 DEF DuplicateInv, Explained
<1>3. ASSUME NEW h \in Fine, IssueRollback(h)
      PROVE  DuplicateInv'
  <2>1. /\ status'[h] = "none"
        /\ \A g \in Fine \ {h} : /\ subject'[g] = subject[g] /\ age'[g] = age[g]
                                /\ status'[g] = status[g]
                                /\ unseen'[g] = unseen[g] \ {h}
    BY <1>3 DEF IssueRollback, TypeOK
  <2> QED
    BY <2>1 DEF DuplicateInv, Explained
<1>4. CASE ~Issuing
  <2>1. /\ subject' = subject /\ unseen' = unseen
        /\ \A f \in Fine : /\ age'[f] >= age[f]
                           /\ status'[f] = "none" <=> status[f] = "none"
    BY <1>4, OnlyIssuingMakesRows, OnlyIssuingLooks
  <2>2. \A f \in Fine : age[f] >= DuplicateWindow => age'[f] >= DuplicateWindow
    <3>1. \A f \in Fine : age[f] \in Nat /\ age'[f] \in Nat
      BY <1>0 DEF TypeOK
    <3> QED
      BY <1>0, <2>1, <3>1
  <2> QED
    BY <2>1, <2>2 DEF DuplicateInv, Explained
<1> QED
  BY <1>1, <1>2, <1>3, <1>4 DEF Issuing

\* NoDuplicateFines, however many issue requests run at once: two fines on one
\* vehicle for one offence are both in force in the window only when the check
\* of issue() could not see one of them, because it was being issued then or
\* was cancelled then and was brought back since.
THEOREM NoDuplicatesHolds == Spec => []NoDuplicateFines
<1>1. Init => DuplicateInv
  BY DEF Init, DuplicateInv, Explained
<1>2. TypeOK /\ References /\ [Next]_vars /\ DuplicateInv => DuplicateInv'
  BY DuplicateInvStep
<1>3. TypeOK /\ DuplicateInv => NoDuplicateFines
  <2> SUFFICES ASSUME TypeOK, DuplicateInv, NEW f \in Fine, NEW g \in Fine,
                      Duplicates(f, g)
               PROVE  f \in unseen[g] \/ g \in unseen[f]
    BY DEF NoDuplicateFines
  <2>1. /\ age[f] \in Nat /\ age[g] \in Nat /\ DuplicateWindow \in Nat
        /\ status[f] # "none" /\ status[g] # "none"
    BY BoundAssumption DEF TypeOK, Duplicates, Status
  <2>2. Explained(f, g)
    BY DEF DuplicateInv
  <2> QED
    BY <2>1, <2>2 DEF Duplicates, Explained
<1> QED
  BY <1>1, <1>2, <1>3, TypeCorrect, PTL DEF Spec

(***************************************************************************)
(* The ledger: every step of the service is a step of it, or none.         *)
(***************************************************************************)
\* handlePay and handleWebhook settle an intent no row had settled before;
\* nothing else settles one.
LEMMA PayingIsLedgerStep ==
  ASSUME ~HonoursKey, TypeOK, References, PaymentInv, Paying
  PROVE  \/ \E i \in Intent : Ledger!Settle(i)
         \/ UNCHANGED <<Settled, stage, Filing, outbox.paid, outbox.escalated>>
<1>0. outbox \in OutboxType /\ outbox.paid \in [Intent -> Nat]
  BY DEF TypeOK, OutboxType
<1>1. ASSUME NEW i \in Intent,
             i \notin Settled, Settled' = Settled \cup {i},
             Announce("paid", i), UNCHANGED <<stage, dispute>>
      PROVE  Ledger!Settle(i)
  <2>1. /\ outbox'.paid = [outbox.paid EXCEPT ![i] = @ + 1]
        /\ outbox'.escalated = outbox.escalated
    BY <1>0, <1>1, AnnouncePaid
  <2>2. outbox.paid[i] = 0
    <3>1. ~ (outbox.paid[i] > 0)
      BY <1>1 DEF PaymentInv, PaidIsAnnounced, Settled
    <3> QED
      BY <1>0, <3>1
  <2>3. outbox'.paid = [outbox.paid EXCEPT ![i] = 1]
    BY <1>0, <2>1, <2>2
  <2>4. Filing' = Filing
    BY <1>1 DEF Filing
  <2> QED
    BY <1>1, <2>1, <2>3, <2>4 DEF Ledger!Settle
<1>2. ASSUME UNCHANGED <<Settled, stage, dispute, outbox>>
      PROVE  UNCHANGED <<Settled, stage, Filing, outbox.paid, outbox.escalated>>
  BY <1>2 DEF Filing
<1>3. ASSUME NEW p \in Payment, NEW f \in Fine, NEW i \in Intent,
             NEW reply \in {"replied_pending", "replied_succeeded"},
             PayCall(p, f, i, reply)
      PROVE  UNCHANGED <<Settled, stage, dispute, outbox>>
  <2>1. \A q \in Payment : /\ pay'[q] = "succeeded" <=> pay[q] = "succeeded"
                           /\ pay[q] = "succeeded" => payRef'[q] = payRef[q]
    BY <1>3 DEF PayCall, TypeOK
  <2> QED
    BY <1>3, <2>1 DEF PayCall, Settled, fineVars, disputeVars
<1>4. ASSUME NEW p \in Payment, PayCommitPending(p) \/ PayLost(p)
      PROVE  UNCHANGED <<Settled, stage, dispute, outbox>>
  <2>1. \A q \in Payment : pay'[q] = "succeeded" <=> pay[q] = "succeeded"
    BY <1>4 DEF PayCommitPending, PayLost, TypeOK
  <2> QED
    BY <1>4, <2>1 DEF PayCommitPending, PayLost, Settled, fineVars, disputeVars
<1>5. ASSUME NEW p \in Payment, PayCommitSucceeded(p)
      PROVE  \E i \in Intent : Ledger!Settle(i)
  <2>1. payRef[p] \in Intent /\ pay[p] = "replied_succeeded"
    BY <1>5 DEF PayCommitSucceeded, References, Recorded
  <2>2. payRef[p] \notin Settled
    BY <2>1, NullAssumption DEF Settled, PaymentInv, Distinct
  <2>3. Settled' = Settled \cup {payRef[p]}
    BY <1>5 DEF PayCommitSucceeded, Settled, TypeOK
  <2> QED
    BY <1>1, <1>5, <2>1, <2>2, <2>3 DEF PayCommitSucceeded, disputeVars
<1>6. ASSUME NEW i \in Intent, Capture(i)
      PROVE  UNCHANGED <<Settled, stage, dispute, outbox>>
  BY <1>6 DEF Capture, Settled, fineVars, disputeVars
<1>7. ASSUME NEW i \in Intent, NEW ack \in BOOLEAN,
             WebhookUnknown(i, ack) \/ WebhookRepeated(i, ack)
      PROVE  UNCHANGED <<Settled, stage, dispute, outbox>>
  BY <1>7 DEF WebhookUnknown, WebhookRepeated, Settled, fineVars, disputeVars
<1>8. ASSUME NEW i \in Intent, NEW ack \in BOOLEAN, WebhookSettles(i, ack)
      PROVE  Ledger!Settle(i)
  <2>1. PICK p \in Payment : payRef[p] = i /\ pay[p] = "pending"
    BY <1>8 DEF WebhookSettles, AlreadyPaid, Rows
  <2>2. i \notin Settled
    BY <2>1, NullAssumption DEF Settled, PaymentInv, Distinct
  <2>3. Settled' = Settled \cup {i}
    BY <1>8, <2>1 DEF WebhookSettles, Settled, Rows
  <2> QED
    BY <1>1, <1>8, <2>2, <2>3 DEF WebhookSettles, disputeVars
<1> QED
  BY <1>2, <1>3, <1>4, <1>5, <1>6, <1>7, <1>8 DEF Paying

\* dispute() files a dispute when it commits, not when it reads the fine, and
\* resolveDispute decides it.
LEMMA DisputingIsLedgerStep ==
  ASSUME TypeOK, References, Disputing
  PROVE  \/ \E d \in Dispute : \/ Ledger!File(d)
                               \/ \E o \in Outcome : Ledger!Decide(d, o)
         \/ UNCHANGED <<Settled, stage, Filing, outbox.paid, outbox.escalated>>
<1>0. outbox \in OutboxType
  BY DEF TypeOK, OutboxType
<1>1. ASSUME NEW d \in Dispute,
             DisputeRollback(d) \/ \E f \in Fine : DisputeRead(d, f)
      PROVE  UNCHANGED <<Settled, stage, Filing, outbox.paid, outbox.escalated>>
  BY <1>1 DEF DisputeRead, DisputeRollback, Settled, Filing, TypeOK, fineVars,
              paymentVars
<1>2. ASSUME NEW d \in Dispute, DisputeCommit(d)
      PROVE  Ledger!File(d)
  <2>1. Filing[d] = "none" /\ Filing' = [Filing EXCEPT ![d] = "pending"]
    BY <1>2 DEF DisputeCommit, Filing, TypeOK
  <2>2. outbox'.paid = outbox.paid /\ outbox'.escalated = outbox.escalated
    BY <1>0, <1>2, AnnounceDisputed DEF DisputeCommit
  <2>3. UNCHANGED <<Settled, stage>>
    BY <1>2 DEF DisputeCommit, Settled, paymentVars
  <2> QED
    BY <2>1, <2>2, <2>3 DEF Ledger!File
<1>3. ASSUME NEW d \in Dispute, NEW o \in Outcome, ResolveDispute(d, o)
      PROVE  Ledger!Decide(d, o)
  <2>1. disputed[d] \in Fine
    BY <1>3 DEF ResolveDispute, References, Filed
  <2>2. outbox'.paid = outbox.paid /\ outbox'.escalated = outbox.escalated
    BY <1>0, <1>3, <2>1, AnnounceCancelled DEF ResolveDispute
  <2>3. Filing[d] = "pending" /\ Filing' = [Filing EXCEPT ![d] = o]
    BY <1>3 DEF ResolveDispute, Filing, Outcome, TypeOK
  <2>4. UNCHANGED <<Settled, stage>>
    BY <1>3 DEF ResolveDispute, Settled, paymentVars
  <2> QED
    BY <2>2, <2>3, <2>4 DEF Ledger!Decide
<1> QED
  BY <1>1, <1>2, <1>3 DEF Disputing

\* engine.advance climbs, and every other step leaves the climbs alone.
LEMMA OtherIsLedgerStep ==
  ASSUME TypeOK, References, EscalatedOnce, [Next]_vars, ~Paying, ~Disputing
  PROVE  \/ \E f \in Fine, s \in Stage : Ledger!Climb(f, s)
         \/ UNCHANGED <<Settled, stage, Filing, outbox.paid, outbox.escalated>>
<1>1. UNCHANGED <<Settled, Filing, outbox.paid>>
  <2>1. UNCHANGED paymentVars /\ UNCHANGED disputeVars /\ outbox'.paid = outbox.paid
    BY PaidOnlyByPaying, OnlyDisputesChangeDisputes
  <2> QED
    BY <2>1 DEF Settled, Filing, paymentVars, disputeVars
<1>2. ASSUME NEW r \in Replica, NEW c \in batch[r], Advance(r, c)
      PROVE  Ledger!Climb(c.fine, c.to)
  <2> DEFINE fs == <<c.fine, c.to>>
             E == outbox.escalated
  <2>0. /\ fs \in Fine \X Stage /\ E \in [Fine \X Stage -> Nat]
        /\ outbox'.escalated = [E EXCEPT ![fs] = @ + 1] /\ E[fs] = 0
    BY <1>2, ClimbIsNew DEF TypeOK
  <2>1. outbox'.escalated = [E EXCEPT ![fs] = 1]
    <3> HIDE DEF fs, E
    <3> QED
      BY <2>0
  <2>2. stage[c.fine] < c.to /\ stage' = [stage EXCEPT ![c.fine] = c.to]
    BY <1>2 DEF Advance
  <2> QED
    BY <1>1, <2>1, <2>2 DEF Ledger!Climb
<1>3. CASE ~ \E r \in Replica : \E c \in batch[r] : Advance(r, c)
  BY <1>1, <1>3, ClimbOnlyByAdvance
<1>4. CASE \E r \in Replica : \E c \in batch[r] : Advance(r, c)
  <2>1. PICK r \in Replica : \E c \in batch[r] : Advance(r, c)
    BY <1>4
  <2>2. PICK c \in batch[r] : Advance(r, c)
    BY <2>1
  <2>3. c.fine \in Fine /\ c.to \in Stage
    BY <2>2, ClimbIsNew
  <2> QED
    BY <1>2, <2>2, <2>3
<1> QED
  BY <1>3, <1>4

\* When every pay request gets an intent of its own (the provider does not
\* honour idempotency keys), the service implements the ledger: no
\* interleaving of handlers, repeated webhooks and sweeping replicas settles
\* an intent twice, climbs a fine backwards or decides a dispute twice.
THEOREM ServiceImplementsLedger == ~HonoursKey => (Spec => ImplementsLedger)
<1> SUFFICES ASSUME ~HonoursKey PROVE Spec => ImplementsLedger
  OBVIOUS
<1>1. Init => Ledger!LedgerInit
  BY DEF Init, Ledger!LedgerInit, Settled, Filing
<1>2. TypeOK /\ References /\ PaymentInv /\ EscalatedOnce /\ [Next]_vars
        => [Ledger!LedgerNext]_(Ledger!ledger)
  BY PayingIsLedgerStep, DisputingIsLedgerStep, OtherIsLedgerStep
  DEF Ledger!LedgerNext, Ledger!ledger
<1>3. Init => PaymentInv
  BY DEF Init, PaymentInv, PaidIsBacked, PaidIsAnnounced, Distinct, PaidOnce
<1>4. TypeOK /\ References /\ [Next]_vars /\ PaymentInv => PaymentInv'
  BY PaymentInvStep
<1> QED
  BY <1>1, <1>2, <1>3, <1>4, TypeCorrect, EscalationCorrect, PTL
  DEF Spec, ImplementsLedger, Ledger!LedgerSpec
=============================================================================
