----------------------------- MODULE FineLedger -----------------------------
(***************************************************************************)
(* What the fines service promises the readers of its events, with no      *)
(* transactions, replicas or webhooks: an intent is settled once, a fine   *)
(* climbs its escalation stages strictly, a dispute gets one verdict, and  *)
(* the settlements and climbs announced are exactly those that happened.   *)
(***************************************************************************)
EXTENDS Naturals

CONSTANTS Fine, Intent, Dispute, Stage, Outcome

VARIABLES
  settled,   \* intents that have been settled
  rung,      \* the stage each fine has climbed to, 0 at first
  verdict,   \* "none", "pending" or the outcome of each dispute
  paid,      \* announcements of each intent
  escalated  \* announcements of each <<fine, stage>>

ledger == <<settled, rung, verdict, paid, escalated>>

LedgerInit ==
  /\ settled = {}
  /\ rung = [f \in Fine |-> 0]
  /\ verdict = [d \in Dispute |-> "none"]
  /\ paid = [i \in Intent |-> 0]
  /\ escalated = [fs \in Fine \X Stage |-> 0]

Settle(i) ==
  /\ i \notin settled
  /\ settled' = settled \cup {i}
  /\ paid' = [paid EXCEPT ![i] = 1]
  /\ UNCHANGED <<rung, verdict, escalated>>

Climb(f, s) ==
  /\ rung[f] < s
  /\ rung' = [rung EXCEPT ![f] = s]
  /\ escalated' = [escalated EXCEPT ![<<f, s>>] = 1]
  /\ UNCHANGED <<settled, verdict, paid>>

File(d) ==
  /\ verdict[d] = "none"
  /\ verdict' = [verdict EXCEPT ![d] = "pending"]
  /\ UNCHANGED <<settled, rung, paid, escalated>>

Decide(d, outcome) ==
  /\ verdict[d] = "pending"
  /\ verdict' = [verdict EXCEPT ![d] = outcome]
  /\ UNCHANGED <<settled, rung, paid, escalated>>

LedgerNext ==
  \/ \E i \in Intent : Settle(i)
  \/ \E f \in Fine, s \in Stage : Climb(f, s)
  \/ \E d \in Dispute : File(d) \/ \E outcome \in Outcome : Decide(d, outcome)

LedgerSpec == LedgerInit /\ [][LedgerNext]_ledger
=============================================================================
