---------------------------- MODULE AuditProofs -----------------------------
(***************************************************************************)
(* Proofs about AuditChain, for any number of writes: the state is typed,  *)
(* and verify finds breaks only between writes that were open together.    *)
(* Then the same of the state of Rollup, which counts no more cancelled    *)
(* fines of a day than were issued.                                        *)
(***************************************************************************)
EXTENDS AuditChain, Rollup, TLAPS

(***************************************************************************)
(* The inductive invariant.                                                *)
(***************************************************************************)
Begun(w) == phase[w] \in {"read", "inserted", "committed"}

\* No two rows have one id.
Numbered == \A v, w \in Write : id[v] > 0 /\ id[v] = id[w] => v = w

\* A row hashes the row its write has read, which was committed and keeps an
\* id below its own.
HashesLast == \A w \in Write :
  /\ Begun(w) => prev[w] = HashOf(last[w])
  /\ phase[w] \in {"inserted", "committed"} => hash[w] = Hash(prev[w], content[w])
  /\ last[w] # NoRow => phase[last[w]] = "committed"
  /\ phase[w] \in {"inserted", "committed"} /\ last[w] # NoRow => id[last[w]] < id[w]

\* What was open at the same time is so for both, and for nobody before it
\* begins.
Overlaps ==
  /\ \A v, w \in Write : v \in alongside[w] <=> w \in alongside[v]
  /\ \A v, w \in OpenWrites : v # w => v \in alongside[w]
  /\ \A v, w \in Write : phase[v] = "none" => v \notin alongside[w]

\* Of two writes that were not open together, the later read a row that is not
\* before the earlier one.
Ordered == \A p, r \in Write :
  p # r /\ phase[p] = "committed" /\ Begun(r) /\ p \notin alongside[r] =>
    \/ last[r] # NoRow /\ id[p] <= id[last[r]]
    \/ phase[r] = "committed" /\ id[r] < id[p]

Chain == TypeOK /\ Numbered /\ HashesLast /\ Overlaps /\ Ordered

\* No row is inserted yet.
LEMMA InitChain == Init => Chain
  BY DEF Init, Chain, TypeOK, Numbered, HashesLast, Overlaps, Ordered, Begun, OpenWrites

\* Every statement keeps what is known of the log.
LEMMA NextChain == Chain /\ [Next]_vars => Chain'
<1> SUFFICES ASSUME Chain, [Next]_vars PROVE Chain'
  OBVIOUS
<1> USE AuditAssumption DEF Chain
<1>1. ASSUME NEW w \in Write, WriteRead(w) PROVE Chain'
  <2> USE <1>1 DEF WriteRead
  <2>1. PICK p \in Write \cup {NoRow} :
          IsLast(p) /\ last' = [last EXCEPT ![w] = p]
                    /\ prev' = [prev EXCEPT ![w] = HashOf(p)]
    OBVIOUS
  <2>2. p # NoRow => p # w /\ p \in Write /\ phase[p] = "committed"
    BY <2>1 DEF IsLast, Rows
  <2>3. TypeOK'
    <3>1. HashOf(p) \in Seq(Content)
      BY <2>2 DEF HashOf, TypeOK
    <3>2. Met(w) \in [Write -> SUBSET Write]
      BY DEF Met, OpenWrites, TypeOK
    <3>3. alongside' = Met(w)
      OBVIOUS
    <3>4. prev' \in [Write -> Seq(Content)] /\ last' \in [Write -> Write \cup {NoRow}]
      BY <2>1, <3>1 DEF TypeOK
    <3>5. /\ phase' \in [Write -> {"none", "read", "inserted", "committed", "failed"}]
          /\ \A o \in Write : id[o] > 0 <=> phase'[o] \in {"inserted", "committed"}
      BY DEF TypeOK
    <3> QED BY <3>2, <3>3, <3>4, <3>5 DEF TypeOK
  <2>4. Numbered'
    BY DEF Numbered
  <2>5. HashesLast'
    BY <2>1, <2>2 DEF HashesLast, TypeOK, HashOf, Begun
  <2>6. Overlaps'
    <3>1. OpenWrites \subseteq Write \ {w}
      BY DEF OpenWrites
    <3>2. alongside' = Met(w)
      OBVIOUS
    <3>3. \A o \in Write : phase'[o] = IF o = w THEN "read" ELSE phase[o]
      BY DEF TypeOK
    <3>4. \A u, v \in Write : u \in alongside'[v] <=>
            \/ u = w /\ v \in OpenWrites
            \/ v = w /\ u \in OpenWrites
            \/ u # w /\ v # w /\ u \in alongside[v]
      <4>1. \A u \in Write : w \notin alongside[u] /\ u \notin alongside[w]
        BY DEF Overlaps
      <4> QED BY ONLY <3>1, <3>2, <4>1 DEF Met
    <3>5. OpenWrites' = OpenWrites \cup {w}
      BY <3>3 DEF OpenWrites
    <3>6. \A u, v \in Write : u \in alongside'[v] <=> v \in alongside'[u]
      <4>1. \A u, v \in Write : u \in alongside[v] <=> v \in alongside[u]
        BY DEF Overlaps
      <4> QED BY ONLY <3>4, <4>1
    <3>7. \A u, v \in OpenWrites' : u # v => u \in alongside'[v]
      <4>1. \A u, v \in OpenWrites : u # v => u \in alongside[v]
        BY DEF Overlaps
      <4> QED BY ONLY <3>1, <3>4, <3>5, <4>1, w \in Write
    <3>8. \A u, v \in Write : phase'[u] = "none" => u \notin alongside'[v]
      <4>1. \A u, v \in Write : phase[u] = "none" => u \notin alongside[v]
        BY DEF Overlaps
      <4>2. \A u \in OpenWrites : phase[u] # "none"
        BY DEF OpenWrites
      <4> QED BY ONLY <3>3, <3>4, <4>1, <4>2
    <3> QED BY <3>6, <3>7, <3>8 DEF Overlaps
  <2>7. Ordered'
    <3> SUFFICES ASSUME NEW q \in Write, NEW r \in Write, q # r, phase'[q] = "committed",
                        Begun(r)', q \notin alongside'[r]
                 PROVE \/ last'[r] # NoRow /\ id'[q] <= id'[last'[r]]
                       \/ phase'[r] = "committed" /\ id'[r] < id'[q]
      BY DEF Ordered
    <3>1. phase[q] = "committed"
      BY DEF TypeOK
    <3>2. CASE r = w
      BY <2>1, <3>1, <3>2 DEF IsLast, Rows, TypeOK
    <3>3. CASE r # w
      <4>1. q \notin alongside[r]
        BY <3>3 DEF Met
      <4>2. Begun(r) /\ phase'[r] = phase[r] /\ last'[r] = last[r]
        BY <2>1, <3>3 DEF Begun, TypeOK
      <4> QED BY <3>1, <4>1, <4>2 DEF Ordered
    <3> QED BY <3>2, <3>3
  <2> QED BY <2>3, <2>4, <2>5, <2>6, <2>7
<1>2. ASSUME NEW w \in Write, WriteInsert(w) PROVE Chain'
  <2> USE <1>2 DEF WriteInsert
  <2>1. \A o \in Write : last[o] # w
    BY DEF HashesLast, TypeOK
  <2>2. TypeOK'
    BY DEF TypeOK, Hash
  <2>3. Numbered'
    BY DEF Numbered, TypeOK
  <2>4. HashesLast'
    <3> SUFFICES ASSUME NEW o \in Write
                 PROVE /\ Begun(o)' => prev'[o] = HashOf(last[o])'
                       /\ phase'[o] \in {"inserted", "committed"} =>
                            hash'[o] = Hash(prev'[o], content'[o])
                       /\ last'[o] # NoRow => phase'[last'[o]] = "committed"
                       /\ phase'[o] \in {"inserted", "committed"} /\ last'[o] # NoRow =>
                            id'[last'[o]] < id'[o]
      BY DEF HashesLast
    <3>1. last[o] # NoRow =>
            last[o] \in Write \ {w} /\ phase[last[o]] = "committed" /\ id[last[o]] \in 0..lastId
      BY <2>1 DEF HashesLast, TypeOK
    <3>2. Begun(o)' => prev'[o] = HashOf(last[o])'
      BY <3>1 DEF HashesLast, HashOf, Begun, TypeOK
    <3>3. phase'[o] \in {"inserted", "committed"} => hash'[o] = Hash(prev'[o], content'[o])
      BY DEF HashesLast, TypeOK
    <3>4. phase'[o] \in {"inserted", "committed"} /\ last'[o] # NoRow => id'[last'[o]] < id'[o]
      BY <3>1 DEF HashesLast, TypeOK
    <3> QED BY <3>1, <3>2, <3>3, <3>4 DEF TypeOK
  <2>5. Overlaps'
    BY DEF Overlaps, OpenWrites, TypeOK
  <2>6. Ordered'
    BY <2>1 DEF Ordered, Begun, TypeOK
  <2> QED BY <2>2, <2>3, <2>4, <2>5, <2>6
<1>3. ASSUME NEW w \in Write, WriteCommit(w) PROVE Chain'
  <2> USE <1>3 DEF WriteCommit
  <2>1. TypeOK'
    BY DEF TypeOK
  <2>2. Numbered'
    BY DEF Numbered
  <2>3. HashesLast'
    BY DEF HashesLast, TypeOK, HashOf, Begun
  <2>4. Overlaps'
    BY DEF Overlaps, OpenWrites, TypeOK
  <2>5. Ordered'
    <3> SUFFICES ASSUME NEW q \in Write, NEW r \in Write, q # r, phase'[q] = "committed",
                        Begun(r)', q \notin alongside[r]
                 PROVE \/ last[r] # NoRow /\ id[q] <= id[last[r]]
                       \/ phase'[r] = "committed" /\ id[r] < id[q]
      BY DEF Ordered
    <3>1. Begun(r)
      BY DEF Begun, TypeOK
    <3>2. CASE q # w
      BY <3>1, <3>2 DEF Ordered, TypeOK
    <3>3. CASE q = w
      <4>1. phase[r] = "committed"
        BY <3>1, <3>3 DEF Overlaps, OpenWrites, Begun
      <4>2. r \notin alongside[w]
        BY <3>3 DEF Overlaps
      <4>3. last[w] # NoRow /\ id[r] <= id[last[w]]
        BY <3>3, <4>1, <4>2 DEF Ordered, Begun
      <4>4. id[last[w]] < id[w]
        BY <4>3 DEF HashesLast
      <4>5. last[w] \in Write
        BY <4>3 DEF TypeOK
      <4>6. id[r] \in Int /\ id[w] \in Int /\ id[last[w]] \in Int
        BY <4>5 DEF TypeOK
      <4> QED BY <3>3, <4>1, <4>3, <4>4, <4>6 DEF TypeOK
    <3> QED BY <3>2, <3>3
  <2> QED BY <2>1, <2>2, <2>3, <2>4, <2>5
<1>4. ASSUME NEW w \in Write, WriteFails(w) PROVE Chain'
  <2> USE <1>4 DEF WriteFails
  <2>1. \A o \in Write : last[o] # w
    BY DEF HashesLast, TypeOK
  <2>2. TypeOK'
    BY DEF TypeOK
  <2>3. Numbered'
    BY DEF Numbered, TypeOK
  <2>4. HashesLast'
    BY <2>1 DEF HashesLast, TypeOK, HashOf, Begun
  <2>5. Overlaps'
    BY DEF Overlaps, OpenWrites, TypeOK
  <2>6. Ordered'
    BY <2>1 DEF Ordered, Begun, TypeOK
  <2> QED BY <2>2, <2>3, <2>4, <2>5, <2>6
<1>5. ASSUME UNCHANGED vars PROVE Chain'
  BY <1>5 DEF vars, TypeOK, Numbered, HashesLast, Overlaps, Ordered, HashOf, Begun, OpenWrites
<1> QED BY <1>1, <1>2, <1>3, <1>4, <1>5 DEF Next

\* What is known of the log makes every break an overlap.
LEMMA ChainIsVerified == Chain => BreaksAreOverlaps
<1> SUFFICES ASSUME Chain, NEW r \in Rows
             PROVE /\ IsFirst(r) => Links(NoRow, r)
                   /\ \A p \in Rows : IsBefore(p, r) /\ p \notin alongside[r] => Links(p, r)
  BY DEF BreaksAreOverlaps
<1> USE AuditAssumption DEF Chain, Rows
<1>1. prev[r] = HashOf(last[r]) /\ hash[r] = Hash(HashOf(last[r]), content[r])
  BY DEF HashesLast, Begun
<1>2. ASSUME last[r] # NoRow
      PROVE last[r] \in Rows /\ id[last[r]] < id[r] /\ id[last[r]] \in Int
  BY <1>2 DEF HashesLast, TypeOK
<1>3. IsFirst(r) => last[r] = NoRow
  BY <1>2 DEF IsFirst, TypeOK
<1>4. ASSUME NEW p \in Rows, IsBefore(p, r), p \notin alongside[r] PROVE p = last[r]
  <2>1. p # r /\ id[p] < id[r] /\ id[p] \in Int /\ id[r] \in Int
    BY <1>4 DEF IsBefore, TypeOK
  <2>2. last[r] # NoRow /\ id[p] <= id[last[r]]
    BY <1>4, <2>1 DEF Ordered, Begun
  <2>3. id[last[r]] = id[p]
    BY <1>2, <1>4, <2>1, <2>2 DEF IsBefore
  <2> QED BY <1>2, <2>2, <2>3 DEF Numbered, TypeOK
<1> QED BY <1>1, <1>3, <1>4 DEF Links

LEMMA Invariant == Spec => []Chain
<1> QED BY InitChain, NextChain, PTL DEF Spec

----------------------------------------------------------------------------
\* The log's rows and its open writes are typed (write, audit_events).
THEOREM TypeCorrect == Spec => []TypeOK
<1>1. Chain => TypeOK
  BY DEF Chain
<1> QED BY <1>1, Invariant, PTL

\* verify finds a break only between rows whose writes were open together,
\* for any number of writes and any order of their statements.
THEOREM BreaksAreOverlapsHolds == Spec => []BreaksAreOverlaps
<1> QED BY ChainIsVerified, Invariant, PTL

----------------------------------------------------------------------------
(***************************************************************************)
(* The statistics.                                                         *)
(***************************************************************************)
\* A day without a fine is counted as such.
LEMMA NoFinesCounted == NoFines \in Counts
  BY RollupAssumption DEF NoFines, Counts

\* What a sweep knows while it is at rest.
LEMMA WaitingTyped == Waiting \in SweepState
<1>1. 0 \in Day
  BY RollupAssumption DEF Day
<1> QED BY <1>1, NoFinesCounted DEF Waiting, SweepState

\* The first day of the window is a day.
LEMMA FromTyped == today \in Day => From \in Day
  BY RollupAssumption DEF From, Day

\* Moving on to the next statement keeps the window.
LEMMA ToTyped ==
  ASSUME sweep \in [Sweeper -> SweepState], NEW s \in Sweeper,
         NEW step \in {"rest", "aggregate", "score", "update", "anomalies", "rates"}
  PROVE  To(s, step) \in [Sweeper -> SweepState]
<1>1. sweep[s].from \in Day
  BY DEF SweepState
<1>2. /\ Waiting.counted \in [Day -> Counts]
      /\ Waiting.scored \in [Day -> Score \cup {"unread"}]
  BY WaitingTyped DEF SweepState
<1>3. [step |-> step, from |-> sweep[s].from, counted |-> Waiting.counted,
       scored |-> Waiting.scored] \in SweepState
  BY <1>1, <1>2 DEF SweepState
<1> QED BY <1>3 DEF To

\* Nothing is counted yet.
LEMMA InitStatistics == RollupInit => RollupTypeOK
<1> SUFFICES ASSUME RollupInit PROVE RollupTypeOK
  OBVIOUS
<1>1. today \in Day /\ faults \in 0..MaxFaults
  BY RollupAssumption DEF RollupInit, Day
<1>2. fines \in [Day -> Counts]
  BY NoFinesCounted DEF RollupInit
<1>3. stats \in [Day -> [count : Counts, score : Score]]
  BY NoFinesCounted DEF RollupInit, Score
<1>4. alerts \subseteq Alert
  BY DEF RollupInit
<1>5. sweep \in [Sweeper -> SweepState]
  BY WaitingTyped DEF RollupInit
<1> QED BY <1>1, <1>2, <1>3, <1>4, <1>5 DEF RollupTypeOK

\* Every statement, and every change of the fines, keeps the state typed.
LEMMA NextStatistics == RollupTypeOK /\ [RollupNext]_rollupVars => RollupTypeOK'
<1> SUFFICES ASSUME RollupTypeOK, [RollupNext]_rollupVars PROVE RollupTypeOK'
  OBVIOUS
<1> USE DEF RollupTypeOK
<1>1. CASE IssueToday
  <2>1. /\ fines[today].issued + 1 \in 0..MaxFines
        /\ fines[today].cancelled \in 0..MaxFines
        /\ fines[today].cancelled <= fines[today].issued + 1
    BY <1>1, RollupAssumption DEF IssueToday, Counts
  <2>2. [issued |-> fines[today].issued + 1, cancelled |-> fines[today].cancelled]
          \in Counts
    BY <2>1 DEF Counts
  <2>3. fines' \in [Day -> Counts]
    BY <1>1, <2>2 DEF IssueToday, Recorded
  <2> QED BY <1>1, <2>3 DEF IssueToday
<1>2. ASSUME NEW d \in Day, CancelFine(d) PROVE RollupTypeOK'
  <2>1. /\ fines[d].issued \in 0..MaxFines
        /\ fines[d].cancelled + 1 \in 0..MaxFines
        /\ fines[d].cancelled + 1 <= fines[d].issued
    BY <1>2, RollupAssumption DEF CancelFine, Counts
  <2>2. [issued |-> fines[d].issued, cancelled |-> fines[d].cancelled + 1] \in Counts
    BY <2>1 DEF Counts
  <2>3. fines' \in [Day -> Counts]
    BY <1>2, <2>2 DEF CancelFine, Recorded
  <2> QED BY <1>2, <2>3 DEF CancelFine
<1>3. CASE NextDay
  BY <1>3, RollupAssumption DEF NextDay, Day
<1>4. ASSUME NEW s \in Sweeper, SweepBegin(s) PROVE RollupTypeOK'
  <2>1. [step |-> "aggregate", from |-> From, counted |-> fines,
         scored |-> Waiting.scored] \in SweepState
    BY FromTyped, WaitingTyped DEF SweepState
  <2>2. sweep' \in [Sweeper -> SweepState]
    BY <1>4, <2>1 DEF SweepBegin
  <2> QED BY <1>4, <2>2 DEF SweepBegin
<1>5. ASSUME NEW s \in Sweeper, Aggregate(s) PROVE RollupTypeOK'
  <2>1. sweep' \in [Sweeper -> SweepState]
    BY <1>5, ToTyped DEF Aggregate
  <2>2. \A d \in Day :
          [count |-> sweep[s].counted[d], score |-> stats[d].score]
            \in [count : Counts, score : Score]
    BY DEF SweepState
  <2>3. stats' \in [Day -> [count : Counts, score : Score]]
    BY <1>5, <2>2 DEF Aggregate
  <2> QED BY <1>5, <2>1, <2>3 DEF Aggregate
<1>6. ASSUME NEW s \in Sweeper, ScoreRead(s) PROVE RollupTypeOK'
  <2> DEFINE scored == [d \in Day |-> IF d >= sweep[s].from /\ d \in ActiveDays
                          THEN Scored(d, sweep[s].from) ELSE "unread"]
  <2>1. \A d \in Day : Scored(d, sweep[s].from) \in Score
    BY DEF Scored, Score
  <2>2. scored \in [Day -> Score \cup {"unread"}]
    BY <2>1
  <2>3. sweep[s].from \in Day /\ Waiting.counted \in [Day -> Counts]
    BY WaitingTyped DEF SweepState
  <2> HIDE DEF scored
  <2>4. [step |-> "update", from |-> sweep[s].from, counted |-> Waiting.counted,
         scored |-> scored] \in SweepState
    BY <2>2, <2>3 DEF SweepState
  <2>5. sweep' \in [Sweeper -> SweepState]
    BY <1>6, <2>4 DEF ScoreRead, scored
  <2> QED BY <1>6, <2>5 DEF ScoreRead
<1>7. ASSUME NEW s \in Sweeper, ScoreUpdate(s) PROVE RollupTypeOK'
  <2>1. sweep' \in [Sweeper -> SweepState]
    BY <1>7, ToTyped DEF ScoreUpdate
  <2>2. \A d \in Day : sweep[s].scored[d] # "unread" =>
          [count |-> stats[d].count, score |-> sweep[s].scored[d]]
            \in [count : Counts, score : Score]
    BY DEF SweepState
  <2>3. stats' \in [Day -> [count : Counts, score : Score]]
    BY <1>7, <2>2 DEF ScoreUpdate
  <2> QED BY <1>7, <2>1, <2>3 DEF ScoreUpdate
<1>8. ASSUME NEW s \in Sweeper, DetectAnomalies(s) PROVE RollupTypeOK'
  <2>1. sweep' \in [Sweeper -> SweepState]
    BY <1>8, ToTyped DEF DetectAnomalies
  <2>2. alerts' \subseteq Alert
    BY <1>8 DEF DetectAnomalies, Alert
  <2> QED BY <1>8, <2>1, <2>2 DEF DetectAnomalies
<1>9. ASSUME NEW s \in Sweeper, DetectCancelRates(s) PROVE RollupTypeOK'
  <2>1. sweep' \in [Sweeper -> SweepState]
    BY <1>9, WaitingTyped DEF DetectCancelRates
  <2>2. alerts' \subseteq Alert
    BY <1>9 DEF DetectCancelRates, Alert
  <2> QED BY <1>9, <2>1, <2>2 DEF DetectCancelRates
<1>10. ASSUME NEW s \in Sweeper, SweepFails(s) PROVE RollupTypeOK'
  BY <1>10, WaitingTyped, RollupAssumption DEF SweepFails
<1>11. ASSUME NEW a \in Alert, ResolveAlert(a) PROVE RollupTypeOK'
  BY <1>11 DEF ResolveAlert
<1>12. CASE UNCHANGED rollupVars
  BY <1>12 DEF rollupVars
<1> QED BY <1>1, <1>2, <1>3, <1>4, <1>5, <1>6, <1>7, <1>8, <1>9, <1>10, <1>11, <1>12
     DEF RollupNext, SweepStatement

\* The statistics are typed for any number of replicas and days: whichever
\* sweep writes last (aggregate, score), a day never has more cancelled fines
\* than issued ones, so that a rate of detectAnomalies is at most one.
THEOREM StatisticsTyped == RollupSpec => []RollupTypeOK
<1> QED BY InitStatistics, NextStatistics, PTL DEF RollupSpec
=============================================================================
