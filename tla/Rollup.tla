------------------------------- MODULE Rollup -------------------------------
(***************************************************************************)
(* The officer statistics of the audit service, seen from one officer: a   *)
(* sweep recounts the days of its window, scores them against the days     *)
(* before, and raises alerts on what sticks out.  Every step is one        *)
(* statement without a transaction around them.  Replicas sweep on their   *)
(* tickers and admins on request; fines are issued and decided meanwhile.  *)
(***************************************************************************)
EXTENDS Naturals, FiniteSets, FiniteSetsExt

CONSTANTS
  Sweeper,          \* tickers of the replicas, and admin requests
  Ticker,           \* the tickers among them
  MaxDay,           \* bound: days that pass
  MaxFines,         \* bound: fines of one day
  MaxChanges,       \* bound: fines issued and cancelled in all
  MaxFaults,        \* bound: sweeps that fail half-way
  RecountDays,      \* Job.window, in days
  BaselineDays,     \* days a score looks back
  MinPrior,         \* active days a score needs
  HighAnomalyZ,
  HighCancelPercent,
  MinActivity

ASSUME RollupAssumption ==
  /\ Ticker \subseteq Sweeper
  /\ {MaxDay, MaxFines, MaxChanges, MaxFaults} \subseteq Nat
  /\ {RecountDays, BaselineDays, MinPrior} \subseteq Nat
  /\ {HighAnomalyZ, HighCancelPercent, MinActivity} \subseteq Nat

VARIABLES
  today,
  fines,   \* the officer's fines by day, and those of them that are cancelled
  stats,   \* officer_daily_stats: no row where no fine was counted
  alerts,  \* the open rows of audit_alerts
  sweep,
  faults   \* sweeps that have failed so far

rollupVars == <<today, fines, stats, alerts, sweep, faults>>

Day    == 0..MaxDay
Counts == {c \in [issued : 0..MaxFines, cancelled : 0..MaxFines] :
             c.cancelled <= c.issued}
Score  == {"null", "usual", "outlier"}
Alert  == {"officer_high_anomaly_z", "officer_high_cancel_rate"} \X Day
SweepState ==
  [step    : {"rest", "aggregate", "score", "update", "anomalies", "rates"},
   from    : Day,
   counted : [Day -> Counts],   \* the snapshot of the statement in progress
   scored  : [Day -> Score \cup {"unread"}]]

RollupTypeOK ==
  /\ today \in Day
  /\ fines \in [Day -> Counts]
  /\ stats \in [Day -> [count : Counts, score : Score]]
  /\ alerts \subseteq Alert
  /\ sweep \in [Sweeper -> SweepState]
  /\ faults \in 0..MaxFaults

NoFines == [issued |-> 0, cancelled |-> 0]
Waiting == [step |-> "rest", from |-> 0, counted |-> [d \in Day |-> NoFines],
            scored |-> [d \in Day |-> "unread"]]

RollupInit ==
  /\ today = 0
  /\ fines = [d \in Day |-> NoFines]
  /\ stats = [d \in Day |-> [count |-> NoFines, score |-> "null"]]
  /\ alerts = {}
  /\ sweep = [s \in Sweeper |-> Waiting]
  /\ faults = 0

----------------------------------------------------------------------------
(***************************************************************************)
(* What the Fines module does, as far as a sweep can tell.                 *)
(***************************************************************************)
Recorded(d, issued, cancelled) ==
  fines' = [fines EXCEPT ![d] = [issued |-> issued, cancelled |-> cancelled]]

Changes == MapThenSumSet(LAMBDA d : fines[d].issued + fines[d].cancelled, Day)

IssueToday ==
  /\ Changes < MaxChanges
  /\ fines[today].issued < MaxFines
  /\ Recorded(today, fines[today].issued + 1, fines[today].cancelled)
  /\ UNCHANGED <<today, stats, alerts, sweep, faults>>

CancelFine(d) ==
  /\ Changes < MaxChanges
  /\ fines[d].cancelled < fines[d].issued
  /\ Recorded(d, fines[d].issued, fines[d].cancelled + 1)
  /\ UNCHANGED <<today, stats, alerts, sweep, faults>>

NextDay ==
  /\ today < MaxDay
  /\ today' = today + 1
  /\ UNCHANGED <<fines, stats, alerts, sweep, faults>>

----------------------------------------------------------------------------
(***************************************************************************)
(* A sweep.                                                                *)
(***************************************************************************)
\* The first day a sweep that begins now recounts.
From == IF today > RecountDays THEN today - RecountDays ELSE 0

\* aggregate has its snapshot of the fines.
SweepBegin(s) ==
  /\ sweep[s].step = "rest"
  /\ sweep' = [sweep EXCEPT ![s] =
       [step |-> "aggregate", from |-> From, counted |-> fines,
        scored |-> Waiting.scored]]
  /\ UNCHANGED <<today, fines, stats, alerts, faults>>

To(s, step) == [sweep EXCEPT ![s] =
  [step |-> step, from |-> sweep[s].from, counted |-> Waiting.counted,
   scored |-> Waiting.scored]]

\* Mutant: a row that is there is left as it is.
AggregateOnce(s) ==
  /\ sweep[s].step = "aggregate"
  /\ stats' = [d \in Day |->
       IF d >= sweep[s].from /\ stats[d].count.issued = 0
       THEN [count |-> sweep[s].counted[d], score |-> stats[d].score] ELSE stats[d]]
  /\ sweep' = To(s, "score")
  /\ UNCHANGED <<today, fines, alerts, faults>>

\* The upsert has its locks and commits, over whatever another sweep with a
\* later snapshot has written meanwhile.
Aggregate(s) ==
  /\ sweep[s].step = "aggregate"
  /\ stats' = [d \in Day |->
       IF d >= sweep[s].from /\ sweep[s].counted[d].issued > 0
       THEN [count |-> sweep[s].counted[d], score |-> stats[d].score] ELSE stats[d]]
  /\ sweep' = To(s, "score")
  /\ UNCHANGED <<today, fines, alerts, faults>>

ActiveDays == {d \in Day : stats[d].count.issued > 0}

\* The rows of the window frame before d.
Prior(d, from) == {p \in ActiveDays :
  /\ p < d /\ p + BaselineDays >= from
  /\ Cardinality({q \in ActiveDays : p <= q /\ q < d}) <= BaselineDays}

\* The z-score of d, without the division: its distance from the mean, and
\* the deviation, both times the number of days.
Scored(d, from) ==
  LET P   == Prior(d, from)
      n   == Cardinality(P)
      sum == MapThenSumSet(LAMBDA p : stats[p].count.issued, P)
      squares == MapThenSumSet(LAMBDA p : stats[p].count.issued * stats[p].count.issued, P)
      deviation == n * squares - sum * sum   \* squared
      x == n * stats[d].count.issued
  IN  IF n < MinPrior \/ deviation = 0 THEN "null"
      ELSE IF x > sum /\ (x - sum) * (x - sum) > HighAnomalyZ * HighAnomalyZ * deviation
           THEN "outlier" ELSE "usual"

\* score's snapshot of the statistics.
ScoreRead(s) ==
  /\ sweep[s].step = "score"
  /\ sweep' = [sweep EXCEPT ![s] =
       [step |-> "update", from |-> sweep[s].from, counted |-> Waiting.counted,
        scored |-> [d \in Day |-> IF d >= sweep[s].from /\ d \in ActiveDays
                                  THEN Scored(d, sweep[s].from) ELSE "unread"]]]
  /\ UNCHANGED <<today, fines, stats, alerts, faults>>

\* Rows that were not in its snapshot keep the score they have.
ScoreUpdate(s) ==
  /\ sweep[s].step = "update"
  /\ stats' = [d \in Day |->
       IF sweep[s].scored[d] # "unread"
       THEN [count |-> stats[d].count, score |-> sweep[s].scored[d]] ELSE stats[d]]
  /\ sweep' = To(s, "anomalies")
  /\ UNCHANGED <<today, fines, alerts, faults>>

\* ON CONFLICT DO NOTHING: an alert that is open already stays as it is.
DetectAnomalies(s) ==
  /\ sweep[s].step = "anomalies"
  /\ alerts' = alerts \cup {"officer_high_anomaly_z"} \X
       {d \in Day : d >= sweep[s].from /\ stats[d].score = "outlier"}
  /\ sweep' = To(s, "rates")
  /\ UNCHANGED <<today, fines, stats, faults>>

HighRate(c) == /\ c.issued >= MinActivity
               /\ 100 * c.cancelled > HighCancelPercent * c.issued

DetectCancelRates(s) ==
  /\ sweep[s].step = "rates"
  /\ alerts' = alerts \cup {"officer_high_cancel_rate"} \X
       {d \in Day : d >= sweep[s].from /\ HighRate(stats[d].count)}
  /\ sweep' = [sweep EXCEPT ![s] = Waiting]
  /\ UNCHANGED <<today, fines, stats, faults>>

\* A statement fails, a deadlock of two upserts included, or the process
\* stops: what the statements before it wrote stays.
SweepFails(s) ==
  /\ sweep[s].step # "rest"
  /\ faults < MaxFaults
  /\ faults' = faults + 1
  /\ sweep' = [sweep EXCEPT ![s] = Waiting]
  /\ UNCHANGED <<today, fines, stats, alerts>>

\* An admin resolves an alert.
ResolveAlert(a) ==
  /\ a \in alerts
  /\ alerts' = alerts \ {a}
  /\ UNCHANGED <<today, fines, stats, sweep, faults>>

SweepStatement(s) ==
  \/ SweepBegin(s)
  \/ Aggregate(s)
  \/ ScoreRead(s)
  \/ ScoreUpdate(s)
  \/ DetectAnomalies(s)
  \/ DetectCancelRates(s)

RollupNext ==
  \/ IssueToday
  \/ \E d \in Day : CancelFine(d)
  \/ NextDay
  \/ \E s \in Sweeper : SweepStatement(s) \/ SweepFails(s)
  \/ \E a \in Alert : ResolveAlert(a)

RollupSpec == RollupInit /\ [][RollupNext]_rollupVars

\* A ticker fires and a statement returns; an admin's sweep may hang with its
\* snapshot for ever.
RollupFairness == \A s \in Ticker : WF_rollupVars(SweepStatement(s))

----------------------------------------------------------------------------
(***************************************************************************)
(* Properties.                                                             *)
(***************************************************************************)
\* Once the fines of a day that stays in the window are left alone, its
\* statistics come to agree with them and stay so, although a sweep may write
\* an older snapshot over a newer one; and a cancellation rate that is too
\* high is alerted however often an admin resolves the alert.
StatsCatchUp == \A d \in Day : <>[](d >= From) =>
  /\ <>[](stats[d].count = fines[d])
  /\ []<>(HighRate(fines[d]) => <<"officer_high_cancel_rate", d>> \in alerts)

=============================================================================
