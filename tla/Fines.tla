------------------------------- MODULE Fines -------------------------------
(***************************************************************************)
(* The fines service: the life of a traffic fine in the fines,             *)
(* fine_payments and fine_disputes tables, as seen by concurrent           *)
(* READ COMMITTED transactions.                                            *)
(*                                                                         *)
(* A handler that reads a row without locking it and writes later is two   *)
(* actions: the read, which decides, and the commit, which publishes every *)
(* write of the transaction at once.  A handler that takes the row lock    *)
(* before it reads (FOR UPDATE), or that writes without reading, is one.   *)
(*                                                                         *)
(* Requests are one-shot: f \in Fine is at once an issue request and the   *)
(* row it inserts, p \in Payment a pay request and its row, d \in Dispute  *)
(* a dispute request and its row.                                          *)
(***************************************************************************)
EXTENDS Naturals, FiniteSets

CONSTANTS
  Fine, Payment, Dispute,  \* requests, and the rows they insert
  Intent,                  \* payment intents at the provider (provider_ref)
  Subject,                 \* (vehicle, offence) pairs a fine can be about
  Replica,                 \* replicas running the escalation sweep
  NoVehicle, NoFine, NoIntent,
  StageAction,             \* regulation_escalation.action, by stage
  StageAge,                \* the age at which a stage applies, by stage
  DuplicateWindow,         \* regulation_offences.duplicate_window_min
  HonoursKey,              \* does the provider honour idempotency keys?
  MaxAge, MaxCancels       \* bounds: clock ticks, cancel events per fine

Stage == DOMAIN StageAction

ASSUME StageAssumption ==
  /\ Stage \subseteq Nat \ {0}
  /\ StageAge \in [Stage -> Nat]
ASSUME BoundAssumption ==
  /\ DuplicateWindow \in Nat
  /\ MaxAge \in Nat
  /\ MaxCancels \in Nat
  /\ HonoursKey \in BOOLEAN
ASSUME NullAssumption ==
  /\ NoFine \notin Fine
  /\ NoIntent \notin Intent
  /\ NoVehicle \notin Subject

VARIABLES
  status,     \* fines.status; "none" and "checked" before the row commits
  subject,    \* fines.(vehicle_id, offence_code)
  age,        \* now() - fines.issued_at, in ticks
  stage,      \* fines.escalation_stage
  pay,        \* fine_payments.status; "none", "replied_*" before the commit
  payRef,     \* fine_payments.provider_ref
  intentFine, \* provider: the fine an intent charges
  captured,   \* provider: the money of an intent has been taken
  acked,      \* provider: the answer to an intent's webhook it has seen
  dispute,    \* fine_disputes.status; "none" and "read" before the commit
  disputed,   \* fine_disputes.fine_id
  batch,      \* candidates a replica's sweep still has to advance
  outbox,     \* committed outbox rows, counted by type and subject
  unseen      \* history: fines that were being issued, or were cancelled, when
              \* a fine's duplicate check ran

fineVars     == <<status, subject, age, stage, unseen>>
paymentVars  == <<pay, payRef, intentFine, captured, acked>>
disputeVars  == <<dispute, disputed>>
vars == <<fineVars, paymentVars, disputeVars, batch, outbox>>

Status == {"issued", "warned", "overdue", "paid", "disputed", "seized",
           "court", "cancelled"}
Outcome == {"accepted", "rejected", "court"}

\* The row of fine f has been committed.
Exists(f) == status[f] \in Status

\* WriteOutbox in the committing transaction: one more row of this kind.
Announce(kind, key) == outbox' = [outbox EXCEPT ![kind][key] = @ + 1]

TypeOK ==
  /\ status \in [Fine -> Status \cup {"none", "checked"}]
  /\ subject \in [Fine -> Subject \cup {NoVehicle}]
  /\ age \in [Fine -> Nat]
  /\ stage \in [Fine -> Stage \cup {0}]
  /\ pay \in [Payment -> {"none", "replied_pending", "replied_succeeded",
                          "lost", "pending", "succeeded"}]
  /\ payRef \in [Payment -> Intent \cup {NoIntent}]
  /\ intentFine \in [Intent -> Fine \cup {NoFine}]
  /\ captured \in [Intent -> BOOLEAN]
  /\ acked \in [Intent -> {"no", "unknown", "settled"}]
  /\ dispute \in [Dispute -> Outcome \cup {"none", "read", "pending"}]
  /\ disputed \in [Dispute -> Fine \cup {NoFine}]
  /\ batch \in [Replica -> SUBSET [fine : Fine, to : Stage]]
  /\ outbox \in [issued : [Fine -> Nat], paid : [Intent -> Nat],
                 disputed : [Dispute -> Nat],
                 cancelled : [Fine \cup {NoFine} -> Nat],
                 escalated : [Fine \X Stage -> Nat]]
  /\ unseen \in [Fine -> SUBSET Fine]

Init ==
  /\ status = [f \in Fine |-> "none"]
  /\ subject = [f \in Fine |-> NoVehicle]
  /\ age = [f \in Fine |-> 0]
  /\ stage = [f \in Fine |-> 0]
  /\ pay = [p \in Payment |-> "none"]
  /\ payRef = [p \in Payment |-> NoIntent]
  /\ intentFine = [i \in Intent |-> NoFine]
  /\ captured = [i \in Intent |-> FALSE]
  /\ acked = [i \in Intent |-> "no"]
  /\ dispute = [d \in Dispute |-> "none"]
  /\ disputed = [d \in Dispute |-> NoFine]
  /\ batch = [r \in Replica |-> {}]
  /\ outbox = [issued |-> [f \in Fine |-> 0], paid |-> [i \in Intent |-> 0],
               disputed |-> [d \in Dispute |-> 0],
               cancelled |-> [f \in Fine \cup {NoFine} |-> 0],
               escalated |-> [fs \in Fine \X Stage |-> 0]]
  /\ unseen = [f \in Fine |-> {}]

(***************************************************************************)
(* Issuing.  The duplicate check is a count in the same transaction as the *)
(* insert, but READ COMMITTED counts committed rows only.                  *)
(***************************************************************************)
\* Mutant: the window's edge is off by one.
LiveDuplicatesShortWindow(v) ==
  {g \in Fine : /\ Exists(g) /\ subject[g] = v
                /\ age[g] + 1 < DuplicateWindow /\ status[g] # "cancelled"}

\* What the count(*) of the duplicate check sees.
LiveDuplicates(v) ==
  {g \in Fine : /\ Exists(g) /\ subject[g] = v
                /\ age[g] < DuplicateWindow /\ status[g] # "cancelled"}

\* An unknown plate (NoVehicle) skips the check.  Nothing keeps issue requests
\* apart: any number of them may be between check and commit.
IssueCheck(f, v) ==
  /\ status[f] = "none"
  /\ v # NoVehicle => LiveDuplicates(v) = {}
  /\ status' = [status EXCEPT ![f] = "checked"]
  /\ subject' = [subject EXCEPT ![f] = v]
  /\ unseen' = [unseen EXCEPT ![f] =
                 {g \in Fine : status[g] \in {"checked", "cancelled"}}]
  /\ UNCHANGED <<age, stage, paymentVars, disputeVars, batch, outbox>>

IssueCommit(f) ==
  /\ status[f] = "checked"
  /\ status' = [status EXCEPT ![f] = "issued"]
  /\ Announce("issued", f)
  /\ UNCHANGED <<subject, age, stage, unseen, paymentVars, disputeVars, batch>>

IssueRollback(f) ==
  /\ status[f] = "checked"
  /\ status' = [status EXCEPT ![f] = "none"]
  /\ subject' = [subject EXCEPT ![f] = NoVehicle]
  /\ age' = [age EXCEPT ![f] = 0]
  /\ unseen' = [g \in Fine |-> IF g = f THEN {} ELSE unseen[g] \ {f}]
  /\ UNCHANGED <<stage, paymentVars, disputeVars, batch, outbox>>

\* now() moves for every fine at once (MaxAge bounds the clock).
Tick ==
  /\ \E f \in Fine : status[f] # "none" /\ age[f] < MaxAge
  /\ age' = [f \in Fine |-> IF status[f] # "none" /\ age[f] < MaxAge
                            THEN age[f] + 1 ELSE age[f]]
  /\ UNCHANGED <<status, subject, stage, unseen, paymentVars, disputeVars, batch,
                 outbox>>

(***************************************************************************)
(* Paying.  handlePay reads the fine, calls the provider, and then commits *)
(* the payment row; it never looks at fines.status.                        *)
(***************************************************************************)
\* CreateIntent: a fresh intent, or the one already made under this key.
IntentFor(f, i) ==
  IF HonoursKey /\ \E j \in Intent : intentFine[j] = f
  THEN intentFine[i] = f
  ELSE intentFine[i] = NoFine

\* A provider that reports success has taken the money.
PayCall(p, f, i, reply) ==
  /\ pay[p] = "none" /\ Exists(f)
  /\ IntentFor(f, i)
  /\ pay' = [pay EXCEPT ![p] = reply]
  /\ payRef' = [payRef EXCEPT ![p] = i]
  /\ intentFine' = [intentFine EXCEPT ![i] = f]
  /\ captured' = [captured EXCEPT ![i] = @ \/ reply = "replied_succeeded"]
  /\ UNCHANGED <<fineVars, acked, disputeVars, batch, outbox>>

PayCommitPending(p) ==
  /\ pay[p] = "replied_pending"
  /\ pay' = [pay EXCEPT ![p] = "pending"]
  /\ UNCHANGED <<fineVars, payRef, intentFine, captured, acked, disputeVars,
                 batch, outbox>>

PayCommitSucceeded(p) ==
  /\ pay[p] = "replied_succeeded"
  /\ pay' = [pay EXCEPT ![p] = "succeeded"]
  /\ status' = [status EXCEPT ![intentFine[payRef[p]]] = "paid"]
  /\ Announce("paid", payRef[p])
  /\ UNCHANGED <<subject, age, stage, unseen, payRef, intentFine, captured, acked,
                 disputeVars, batch>>

\* The transaction is lost after the provider was called.
PayLost(p) ==
  /\ pay[p] \in {"replied_pending", "replied_succeeded"}
  /\ pay' = [pay EXCEPT ![p] = "lost"]
  /\ UNCHANGED <<fineVars, payRef, intentFine, captured, acked, disputeVars,
                 batch, outbox>>

\* The provider takes the money of an intent the payer completed.
Capture(i) ==
  /\ intentFine[i] # NoFine /\ ~captured[i]
  /\ captured' = [captured EXCEPT ![i] = TRUE]
  /\ UNCHANGED <<fineVars, pay, payRef, intentFine, acked, disputeVars, batch,
                 outbox>>

\* The committed fine_payments rows of intent i.
Rows(i) == {p \in Payment : pay[p] \in {"pending", "succeeded"} /\ payRef[p] = i}

(***************************************************************************)
(* The webhook "intent i succeeded".  The provider repeats it until it has *)
(* seen a 2xx answer: ack says whether this one arrived.                   *)
(***************************************************************************)
WebhookDue(i) == captured[i] /\ acked[i] = "no"

Ack(i, ack, answer) ==
  acked' = [acked EXCEPT ![i] = IF ack THEN answer ELSE "no"]

\* No row under this provider_ref (yet): 202, nothing recorded.
WebhookUnknown(i, ack) ==
  /\ WebhookDue(i) /\ Rows(i) = {}
  /\ Ack(i, ack, "unknown")
  /\ UNCHANGED <<fineVars, pay, payRef, intentFine, captured, disputeVars,
                 batch, outbox>>

\* Mutant: only the fine's status tells a repeated webhook from a new one.
AlreadyPaidByFine(p, i) == status[intentFine[i]] = "paid"

\* Mutant: a cancelled fine counts as settled.
AlreadyClosed(p, i) ==
  pay[p] = "succeeded" \/ status[intentFine[i]] \in {"paid", "cancelled"}

\* p is the one row the handler scans of those it locked.
AlreadyPaid(p, i) == pay[p] = "succeeded" \/ status[intentFine[i]] = "paid"

WebhookRepeated(i, ack) ==
  /\ WebhookDue(i)
  /\ \E p \in Rows(i) : AlreadyPaid(p, i)
  /\ Ack(i, ack, "settled")
  /\ UNCHANGED <<fineVars, pay, payRef, intentFine, captured, disputeVars,
                 batch, outbox>>

WebhookSettles(i, ack) ==
  /\ WebhookDue(i)
  /\ \E p \in Rows(i) : ~AlreadyPaid(p, i)
  /\ pay' = [p \in Payment |-> IF p \in Rows(i) THEN "succeeded" ELSE pay[p]]
  /\ status' = [status EXCEPT ![intentFine[i]] = "paid"]
  /\ Announce("paid", i)
  /\ Ack(i, ack, "settled")
  /\ UNCHANGED <<subject, age, stage, unseen, payRef, intentFine, captured,
                 disputeVars, batch>>

(***************************************************************************)
(* Disputing and cancelling.                                               *)
(***************************************************************************)
\* dispute() refuses a closed fine, on a status it read without a lock.
DisputeRead(d, f) ==
  /\ dispute[d] = "none" /\ Exists(f)
  /\ status[f] \notin {"paid", "cancelled", "disputed"}
  /\ dispute' = [dispute EXCEPT ![d] = "read"]
  /\ disputed' = [disputed EXCEPT ![d] = f]
  /\ UNCHANGED <<fineVars, paymentVars, batch, outbox>>

DisputeCommit(d) ==
  /\ dispute[d] = "read"
  /\ dispute' = [dispute EXCEPT ![d] = "pending"]
  /\ status' = [status EXCEPT ![disputed[d]] = "disputed"]
  /\ Announce("disputed", d)
  /\ UNCHANGED <<subject, age, stage, unseen, paymentVars, disputed, batch>>

DisputeRollback(d) ==
  /\ dispute[d] = "read"
  /\ dispute' = [dispute EXCEPT ![d] = "none"]
  /\ disputed' = [disputed EXCEPT ![d] = NoFine]
  /\ UNCHANGED <<fineVars, paymentVars, batch, outbox>>

\* The fine status a verdict maps to.
Verdict == [accepted |-> "cancelled", rejected |-> "issued", court |-> "court"]

\* Mutant: the fine keeps its status.
ResolveDisputeOnly(d, outcome) ==
  /\ dispute[d] = "pending"
  /\ dispute' = [dispute EXCEPT ![d] = outcome]
  /\ UNCHANGED <<fineVars, paymentVars, disputed, batch, outbox>>

\* The dispute row is locked; the fine is written without being read, and
\* only an accepted dispute is announced.
ResolveDispute(d, outcome) ==
  /\ dispute[d] = "pending"
  /\ dispute' = [dispute EXCEPT ![d] = outcome]
  /\ status' = [status EXCEPT ![disputed[d]] = Verdict[outcome]]
  /\ IF outcome = "accepted" THEN Announce("cancelled", disputed[d])
                             ELSE UNCHANGED outbox
  /\ UNCHANGED <<subject, age, stage, unseen, paymentVars, disputed, batch>>

\* cancel() announces whatever it was asked to cancel, found (any status) or
\* not (NoFine).  MaxCancels bounds the requests.
Cancel(f) ==
  /\ f # NoFine => Exists(f)
  /\ outbox.cancelled[f] < MaxCancels
  /\ status' = [g \in Fine |-> IF g = f THEN "cancelled" ELSE status[g]]
  /\ Announce("cancelled", f)
  /\ UNCHANGED <<subject, age, stage, unseen, paymentVars, disputeVars, batch>>

(***************************************************************************)
(* Escalation.  A sweep selects its candidates with a plain query and then *)
(* advances them one transaction at a time.                                *)
(***************************************************************************)
ActionStatus == [warning |-> "warned", penalty |-> "warned", flag |-> "overdue",
                 seize |-> "seized", court |-> "court"]

\* An action the engine does not know keeps the status.
StatusFor(action, old) ==
  IF action \in DOMAIN ActionStatus THEN ActionStatus[action] ELSE old

\* s is the highest stage whose after_days have elapsed for f.
IsTarget(f, s) ==
  /\ StageAge[s] <= age[f]
  /\ \A t \in Stage : StageAge[t] <= age[f] => t <= s

\* Mutant: the age of a stage must have passed, not only been reached.
LateCandidates ==
  {c \in [fine : Fine, to : Stage] :
     /\ Exists(c.fine)
     /\ status[c.fine] \notin {"paid", "cancelled", "disputed"}
     /\ IsTarget(c.fine, c.to) /\ StageAge[c.to] < age[c.fine]
     /\ stage[c.fine] < c.to}

\* Mutant: a paid fine is still escalated.
CandidatesPaidToo ==
  {c \in [fine : Fine, to : Stage] :
     /\ Exists(c.fine)
     /\ status[c.fine] \notin {"cancelled", "disputed"}
     /\ IsTarget(c.fine, c.to)
     /\ stage[c.fine] < c.to}

Candidates ==
  {c \in [fine : Fine, to : Stage] :
     /\ Exists(c.fine)
     /\ status[c.fine] \notin {"paid", "cancelled", "disputed"}
     /\ IsTarget(c.fine, c.to)
     /\ stage[c.fine] < c.to}

Sweep(r) ==
  /\ batch[r] = {} /\ Candidates # {}
  /\ batch' = [batch EXCEPT ![r] = Candidates]
  /\ UNCHANGED <<fineVars, paymentVars, disputeVars, outbox>>

Done(r, c) == batch' = [batch EXCEPT ![r] = @ \ {c}]

\* Mutant: the locked re-read is left out, or only excludes the same stage.
AdvanceBlindly(r, c) ==
  /\ c \in batch[r]
  /\ stage' = [stage EXCEPT ![c.fine] = c.to]
  /\ status' = [status EXCEPT ![c.fine] = StatusFor(StageAction[c.to], @)]
  /\ Announce("escalated", <<c.fine, c.to>>)
  /\ Done(r, c)
  /\ UNCHANGED <<subject, age, unseen, paymentVars, disputeVars>>

AdvanceUnlessSame(r, c) == stage[c.fine] # c.to /\ AdvanceBlindly(r, c)

\* The locked re-read looks at the stage only.
Advance(r, c) ==
  /\ c \in batch[r]
  /\ stage[c.fine] < c.to
  /\ stage' = [stage EXCEPT ![c.fine] = c.to]
  /\ status' = [status EXCEPT ![c.fine] = StatusFor(StageAction[c.to], @)]
  /\ Announce("escalated", <<c.fine, c.to>>)
  /\ Done(r, c)
  /\ UNCHANGED <<subject, age, unseen, paymentVars, disputeVars>>

\* Someone else got there first, or the transaction failed: next candidate.
AdvanceSkips(r, c) ==
  /\ c \in batch[r]
  /\ Done(r, c)
  /\ UNCHANGED <<fineVars, paymentVars, disputeVars, outbox>>

SweepCrash(r) ==
  /\ batch[r] # {}
  /\ batch' = [batch EXCEPT ![r] = {}]
  /\ UNCHANGED <<fineVars, paymentVars, disputeVars, outbox>>

----------------------------------------------------------------------------

Issuing == \E f \in Fine :
  \/ \E v \in Subject \cup {NoVehicle} : IssueCheck(f, v)
  \/ IssueCommit(f)
  \/ IssueRollback(f)

Paying ==
  \/ \E p \in Payment :
       \/ \E f \in Fine, i \in Intent,
             reply \in {"replied_pending", "replied_succeeded"} :
            PayCall(p, f, i, reply)
       \/ PayCommitPending(p)
       \/ PayCommitSucceeded(p)
       \/ PayLost(p)
  \/ \E i \in Intent :
       \/ Capture(i)
       \/ \E ack \in BOOLEAN : \/ WebhookUnknown(i, ack)
                               \/ WebhookRepeated(i, ack)
                               \/ WebhookSettles(i, ack)

Disputing == \E d \in Dispute :
  \/ \E f \in Fine : DisputeRead(d, f)
  \/ DisputeCommit(d)
  \/ DisputeRollback(d)
  \/ \E outcome \in Outcome : ResolveDispute(d, outcome)

Cancelling == \E f \in Fine \cup {NoFine} : Cancel(f)

Escalating == \E r \in Replica :
  \/ Sweep(r)
  \/ \E c \in batch[r] : Advance(r, c) \/ AdvanceSkips(r, c)
  \/ SweepCrash(r)

Next == Issuing \/ Tick \/ Paying \/ Disputing \/ Cancelling \/ Escalating

Spec == Init /\ [][Next]_vars

(***************************************************************************)
(* Fairness: the provider repeats a webhook until it is acknowledged, and  *)
(* the sweep runs on a ticker, so a transaction that keeps being tried     *)
(* goes through in the end.                                                *)
(***************************************************************************)
Webhook(i) == \E ack \in BOOLEAN :
  WebhookUnknown(i, ack) \/ WebhookRepeated(i, ack) \/ WebhookSettles(i, ack)

Fairness ==
  /\ \A i \in Intent : WF_vars(Webhook(i))
  /\ \A r \in Replica :
       /\ WF_vars(Sweep(r))
       /\ \A c \in [fine : Fine, to : Stage] : SF_vars(Advance(r, c))

FairSpec == Spec /\ Fairness

----------------------------------------------------------------------------
(***************************************************************************)
(* Properties the code has.                                                *)
(***************************************************************************)
Closed == {"paid", "cancelled", "disputed"}

\* A fine only ever reads 'paid' (handlePay, handleWebhook) when one of its
\* payment rows succeeded and the provider really took the money for it.
PaidIsBacked == \A f \in Fine : status[f] = "paid" =>
  \E p \in Payment : /\ pay[p] = "succeeded"
                     /\ intentFine[payRef[p]] = f
                     /\ captured[payRef[p]]

\* A fine.paid event is in the outbox for exactly the intents some payment
\* row records as succeeded, whichever of handlePay and handleWebhook wrote it.
PaidIsAnnounced == \A i \in Intent :
  outbox.paid[i] > 0 <=> \E p \in Payment : pay[p] = "succeeded" /\ payRef[p] = i

\* With one intent per pay request (the dev stub), redelivered webhooks and
\* the handler never announce the same intent twice, whatever happened to
\* the fine (cancelled, disputed, escalated) between two deliveries.
PaidOnce == ~HonoursKey => \A i \in Intent : outbox.paid[i] <= 1

\* A capture whose webhook found its payment's row is paid for good: a
\* fine.paid event names it or another payment of its fine.  Only a webhook
\* that was answered before handlePay committed the row leaves it pending.
AcksAreSettled == \A i \in Intent : acked[i] = "settled" =>
  \E j \in Intent : intentFine[j] = intentFine[i] /\ outbox.paid[j] > 0

\* Fine, payment rows, provider and outbox tell one story about the money:
\* none of handlePay, a repeated or overtaking webhook and a retried request
\* can make one of them say more than the others.
PaymentsAgree == PaidIsBacked /\ PaidIsAnnounced /\ PaidOnce /\ AcksAreSettled

\* A fine that reads 'disputed' has a pending dispute an admin can resolve,
\* however disputes, verdicts and sweeps interleave: it is never stuck.
DisputedIsPending == \A f \in Fine : status[f] = "disputed" =>
  \E d \in Dispute : dispute[d] = "pending" /\ disputed[d] = f

\* Replicas sweeping the same candidates announce a stage of a fine at most
\* once, and never a stage the fine has not climbed to (engine.advance).
EscalatedOnce == \A f \in Fine, s \in Stage :
  /\ outbox.escalated[<<f, s>>] <= 1
  /\ outbox.escalated[<<f, s>>] = 1 => s <= stage[f]
  /\ s = stage[f] => outbox.escalated[<<f, s>>] = 1

\* A replica has listed the fine and not got to it yet.
Listed(f) == \E r \in Replica : \E c \in batch[r] : c.fine = f

\* A closed fine that no sweep had listed before stays as far as it climbed,
\* and unlisted, as long as it is closed: only a sweep whose query saw the
\* fine open can still reopen it (advance re-reads the stage, not the status).
ClosedIsLeftAlone == [][\A f \in Fine :
  status[f] \in Closed /\ ~Listed(f) =>
    /\ stage'[f] = stage[f]
    /\ status'[f] \in Closed => ~Listed(f)']_vars

\* Once resolved, a dispute keeps its verdict: of two admins resolving it at
\* the same time the second gets already_resolved.
VerdictIsFinal == [][\A d \in Dispute :
  dispute[d] \in Outcome => dispute'[d] = dispute[d]]_vars

\* A recorded payment whose money was taken and whose webhook the provider
\* still owes an answer for ends with a fine.paid event for the fine, even
\* when the fine was cancelled, disputed or escalated in between.
CaptureIsSettled == \A i \in Intent :
  captured[i] /\ acked[i] = "no" /\ Rows(i) # {} ~>
    \E j \in Intent : intentFine[j] = intentFine[i] /\ outbox.paid[j] > 0

\* An open fine that is past the age of a stage climbs to it or is closed,
\* in spite of failed transactions and crashed sweeps (engine.RunOnce).
OverdueEscalates == \A f \in Fine, s \in Stage :
  Exists(f) /\ IsTarget(f, s) ~> stage[f] >= s \/ status[f] \in Closed

\* Two fines on one vehicle for one offence, both in force within the window.
Duplicates(f, g) ==
  /\ f # g /\ subject[f] = subject[g] /\ subject[f] # NoVehicle
  /\ {status[f], status[g]} \subseteq Status \ {"cancelled"}
  /\ age[f] < DuplicateWindow /\ age[g] < DuplicateWindow

\* A duplicate in force has one of two origins, whatever webhooks, verdicts and
\* sweeps did since: the two issue transactions were open together, or the
\* second fine was checked (control 3 of issue()) while the first one was
\* cancelled, and the first was brought back.
NoDuplicateFines == \A f, g \in Fine :
  Duplicates(f, g) => f \in unseen[g] \/ g \in unseen[f]

----------------------------------------------------------------------------
(***************************************************************************)
(* A claim of the comments that the code does not keep.                    *)
(***************************************************************************)
\* api.go: "Duplicate fines for same (vehicle, offence) within
\* offence.duplicate_window_min are rejected."
DuplicatesAreRejected == \A f, g \in Fine : ~Duplicates(f, g)

----------------------------------------------------------------------------
(***************************************************************************)
(* The ledger the service implements.                                      *)
(***************************************************************************)
\* The intents some payment row records as paid.
Settled == {payRef[p] : p \in {q \in Payment : pay[q] = "succeeded"}}

\* A dispute that is only read is not filed yet.
Filing == [d \in Dispute |-> IF dispute[d] = "read" THEN "none" ELSE dispute[d]]

Ledger == INSTANCE FineLedger WITH
  settled <- Settled, rung <- stage, verdict <- Filing,
  paid <- outbox.paid, escalated <- outbox.escalated

\* The fines service keeps the ledger's promises, with one intent per pay
\* request: every commit of a handler, webhook or sweep is one step of the
\* ledger or none.
ImplementsLedger == Ledger!LedgerSpec

=============================================================================
