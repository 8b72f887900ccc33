------------------------------- MODULE Outbox -------------------------------
(***************************************************************************)
(* The transactional outbox: handlers write events in their own            *)
(* transactions, relays forward committed rows to a bus, and the replicas  *)
(* of a consumer read the same rows behind a shared offset.                *)
(*                                                                         *)
(* A row gets its id (BIGSERIAL) when it is inserted and its created_at    *)
(* when its transaction began; it is visible once that commits.  The three *)
(* orders differ, and the consumer follows ids while the relay follows     *)
(* created_at.  Consumers of different names share nothing but the rows,   *)
(* so one name is modelled.                                                *)
(***************************************************************************)
EXTENDS Naturals, FiniteSets

CONSTANTS
  Event,         \* outbox rows, one per writing transaction
  Poison,        \* rows the bus never accepts
  Wanted,        \* rows of the types the consumer dispatches (OnlyTypes)
  Relay,         \* relays, one per service replica
  Replica,       \* replicas of the consumer
  RelayBatch, ConsumerBatch,
  MaxCrashes     \* bound: ticks of relays and replicas that are cut short

ASSUME OutboxAssumption ==
  /\ Poison \subseteq Event
  /\ Wanted \subseteq Event
  /\ RelayBatch \in Nat \ {0}
  /\ ConsumerBatch \in Nat \ {0}
  /\ MaxCrashes \in Nat

VARIABLES
  tx,        \* the transaction of each row
  born,      \* created_at, as the rank of the transaction's begin
  id,        \* event_outbox.id, 0 before the insert
  overtaken, \* history: rows that committed after a row with a higher id
  locked, todo, marked, \* a relay's tick: rows it locked, still has to
                        \* publish, and has set delivered_at of
  delivered, \* rows whose delivered_at is committed
  published, \* times the bus has accepted each row
  phase, from, work, upto, \* a replica's tick: the offset it read, the rows
                           \* still to dispatch, the offset it will write
  offset,    \* event_consumer_offsets.last_event_id
  seen,      \* times each row was handed to the dispatcher
  crashes

writing    == <<tx, born, id, overtaken>>
relaying   == <<locked, todo, marked, delivered, published>>
consuming  == <<phase, from, work, upto, offset, seen>>
vars == <<writing, relaying, consuming, crashes>>

Committed == {e \in Event : tx[e] = "committed"}

TypeOK ==
  /\ tx \in [Event -> {"none", "open", "written", "committed", "aborted"}]
  /\ born \in [Event -> Nat]
  /\ id \in [Event -> Nat]
  /\ overtaken \subseteq Event
  /\ locked \in [Relay -> SUBSET Event]
  /\ todo \in [Relay -> SUBSET Event]
  /\ marked \in [Relay -> SUBSET Event]
  /\ \A r \in Relay : todo[r] \cup marked[r] \subseteq locked[r]
  /\ delivered \subseteq Event
  /\ published \in [Event -> Nat]
  /\ phase \in [Replica -> {"idle", "reading", "dispatching"}]
  /\ from \in [Replica -> Nat]
  /\ work \in [Replica -> SUBSET Event]
  /\ upto \in [Replica -> Nat]
  /\ offset \in Nat
  /\ seen \in [Event -> Nat]
  /\ crashes \in Nat

Init ==
  /\ tx = [e \in Event |-> "none"]
  /\ born = [e \in Event |-> 0]
  /\ id = [e \in Event |-> 0]
  /\ overtaken = {}
  /\ locked = [r \in Relay |-> {}]
  /\ todo = [r \in Relay |-> {}]
  /\ marked = [r \in Relay |-> {}]
  /\ delivered = {}
  /\ published = [e \in Event |-> 0]
  /\ phase = [c \in Replica |-> "idle"]
  /\ from = [c \in Replica |-> 0]
  /\ work = [c \in Replica |-> {}]
  /\ upto = [c \in Replica |-> 0]
  /\ offset = 0
  /\ seen = [e \in Event |-> 0]
  /\ crashes = 0

----------------------------------------------------------------------------
(***************************************************************************)
(* Producers.                                                              *)
(***************************************************************************)
Begun == {e \in Event : tx[e] # "none"}
Inserted == {e \in Event : id[e] # 0}

Begin(e) ==
  /\ tx[e] = "none"
  /\ tx' = [tx EXCEPT ![e] = "open"]
  /\ born' = [born EXCEPT ![e] = Cardinality(Begun) + 1]
  /\ UNCHANGED <<id, overtaken, relaying, consuming, crashes>>

\* The sequence hands out ids outside the transaction: they never come back.
WriteOutbox(e) ==
  /\ tx[e] = "open"
  /\ tx' = [tx EXCEPT ![e] = "written"]
  /\ id' = [id EXCEPT ![e] = Cardinality(Inserted) + 1]
  /\ UNCHANGED <<born, overtaken, relaying, consuming, crashes>>

Commit(e) ==
  /\ tx[e] = "written"
  /\ tx' = [tx EXCEPT ![e] = "committed"]
  /\ overtaken' = IF \E f \in Committed : id[f] > id[e]
                  THEN overtaken \cup {e} ELSE overtaken
  /\ UNCHANGED <<born, id, relaying, consuming, crashes>>

Rollback(e) ==
  /\ tx[e] \in {"open", "written"}
  /\ tx' = [tx EXCEPT ![e] = "aborted"]
  /\ UNCHANGED <<born, id, overtaken, relaying, consuming, crashes>>

(***************************************************************************)
(* Relays.  A tick is one transaction: the rows it locks stay locked until *)
(* delivered_at commits for all it published, or for none.                 *)
(***************************************************************************)
\* The n least members of S by rank.
First(n, S, rank) == {e \in S : Cardinality({f \in S : rank[f] < rank[e]}) < n}

\* Mutant: rows another relay holds are taken too.
Undelivered == Committed \ delivered

\* FOR UPDATE SKIP LOCKED.
Claimable == Committed \ (delivered \cup UNION {locked[r] : r \in Relay})

Claim(r) ==
  /\ locked[r] = {} /\ Claimable # {}
  /\ locked' = [locked EXCEPT ![r] = First(RelayBatch, Claimable, born)]
  /\ todo' = [todo EXCEPT ![r] = First(RelayBatch, Claimable, born)]
  /\ UNCHANGED <<writing, marked, delivered, published, consuming, crashes>>

IsNext(e, S, rank) == e \in S /\ \A f \in S : rank[e] <= rank[f]

Publish(r, e) ==
  /\ IsNext(e, todo[r], born) /\ e \notin Poison
  /\ todo' = [todo EXCEPT ![r] = @ \ {e}]
  /\ marked' = [marked EXCEPT ![r] = @ \cup {e}]
  /\ published' = [published EXCEPT ![e] = @ + 1]
  /\ UNCHANGED <<writing, locked, delivered, consuming, crashes>>

\* The row keeps delivered_at NULL, with attempts + 1.
PublishFails(r, e) ==
  /\ IsNext(e, todo[r], born)
  /\ todo' = [todo EXCEPT ![r] = @ \ {e}]
  /\ UNCHANGED <<writing, locked, marked, delivered, published, consuming,
                 crashes>>

EndTick(r) ==
  /\ locked' = [locked EXCEPT ![r] = {}]
  /\ todo' = [todo EXCEPT ![r] = {}]
  /\ marked' = [marked EXCEPT ![r] = {}]
  /\ UNCHANGED <<writing, published, consuming>>

\* Mutant: the whole batch is marked, not what the bus took.
CommitBatch(r) ==
  /\ locked[r] # {} /\ todo[r] = {}
  /\ delivered' = delivered \cup locked[r]
  /\ EndTick(r)
  /\ UNCHANGED crashes

CommitTick(r) ==
  /\ locked[r] # {} /\ todo[r] = {}
  /\ delivered' = delivered \cup marked[r]
  /\ EndTick(r)
  /\ UNCHANGED crashes

\* The transaction is lost: what the bus took, it took.
RelayCrash(r) ==
  /\ locked[r] # {} /\ crashes < MaxCrashes
  /\ crashes' = crashes + 1
  /\ EndTick(r)
  /\ UNCHANGED delivered

(***************************************************************************)
(* Consumers.  Each statement of a tick is a transaction of its own.       *)
(***************************************************************************)
ReadOffset(c) ==
  /\ phase[c] = "idle"
  /\ phase' = [phase EXCEPT ![c] = "reading"]
  /\ from' = [from EXCEPT ![c] = offset]
  /\ UNCHANGED <<writing, relaying, work, upto, offset, seen, crashes>>

\* The rows after the offset a replica has read.
Unread(c) == {e \in Committed : id[e] > from[c]}

\* The tick is over: what the replica held is forgotten.
Forget(c) ==
  /\ phase' = [phase EXCEPT ![c] = "idle"]
  /\ from' = [from EXCEPT ![c] = 0]
  /\ work' = [work EXCEPT ![c] = {}]
  /\ upto' = [upto EXCEPT ![c] = 0]

ReadNothing(c) ==
  /\ phase[c] = "reading" /\ Unread(c) = {}
  /\ Forget(c)
  /\ UNCHANGED <<writing, relaying, offset, seen, crashes>>

ReadBatch(c) ==
  /\ phase[c] = "reading"
  /\ phase' = [phase EXCEPT ![c] = "dispatching"]
  /\ work' = [work EXCEPT ![c] = First(ConsumerBatch, Unread(c), id)]
  /\ \E last \in work'[c] : /\ \A e \in work'[c] : id[e] <= id[last]
                            /\ upto' = [upto EXCEPT ![c] = id[last]]
  /\ UNCHANGED <<writing, relaying, from, offset, seen, crashes>>

\* Whether the dispatcher succeeds or fails, the row is not tried again; a
\* row of another type is passed over.
Dispatch(c, e) ==
  /\ phase[c] = "dispatching"
  /\ IsNext(e, work[c], id)
  /\ work' = [work EXCEPT ![c] = @ \ {e}]
  /\ seen' = [seen EXCEPT ![e] = IF e \in Wanted THEN @ + 1 ELSE @]
  /\ UNCHANGED <<writing, relaying, phase, from, upto, offset, crashes>>

\* Mutant: the offset is saved before the batch is dispatched.
SaveOffsetEarly(c) ==
  /\ phase[c] = "dispatching" /\ (work[c] = {} \/ offset # upto[c])
  /\ offset' = upto[c]
  /\ IF work[c] = {} THEN Forget(c) ELSE UNCHANGED <<phase, from, work, upto>>
  /\ UNCHANGED <<writing, relaying, seen, crashes>>

SaveOffset(c) ==
  /\ phase[c] = "dispatching" /\ work[c] = {}
  /\ offset' = upto[c]
  /\ Forget(c)
  /\ UNCHANGED <<writing, relaying, seen, crashes>>

\* A replica stops, or its connection fails, in the middle of a tick.
ReplicaCrash(c) ==
  /\ phase[c] # "idle" /\ crashes < MaxCrashes
  /\ crashes' = crashes + 1
  /\ Forget(c)
  /\ UNCHANGED <<writing, relaying, offset, seen>>

----------------------------------------------------------------------------

Producing == \E e \in Event : Begin(e) \/ WriteOutbox(e) \/ Commit(e) \/ Rollback(e)

Relaying == \E r \in Relay :
  \/ Claim(r)
  \/ \E e \in todo[r] : Publish(r, e) \/ PublishFails(r, e)
  \/ CommitTick(r)
  \/ RelayCrash(r)

Consuming == \E c \in Replica :
  \/ ReadOffset(c) \/ ReadNothing(c) \/ ReadBatch(c)
  \/ \E e \in work[c] : Dispatch(c, e)
  \/ SaveOffset(c)
  \/ ReplicaCrash(c)

Next == Producing \/ Relaying \/ Consuming

Spec == Init /\ [][Next]_vars

\* Relays and consumers run on a ticker (500 ms); a publish that keeps being
\* tried is accepted in the end, unless the row is poisoned.
Tick(c) ==
  \/ ReadOffset(c) \/ ReadNothing(c) \/ ReadBatch(c) \/ SaveOffset(c)
  \/ \E e \in work[c] : Dispatch(c, e)

Fairness ==
  /\ \A r \in Relay :
       /\ WF_vars(Claim(r)) /\ WF_vars(CommitTick(r))
       /\ WF_vars(\E e \in todo[r] : Publish(r, e) \/ PublishFails(r, e))
       /\ \A e \in Event : SF_vars(Publish(r, e))
  /\ \A c \in Replica : WF_vars(Tick(c))

FairSpec == Spec /\ Fairness

----------------------------------------------------------------------------
(***************************************************************************)
(* Properties the code has.                                                *)
(***************************************************************************)
\* A row behind the offset was handed to the dispatcher, unless it committed
\* after a row with a higher id: whatever the replicas and their crashes do,
\* the order of commits is the only way for consumer.tick to miss a row.
LostOnlyIfOvertaken == \A e \in Committed \cap Wanted :
  id[e] <= offset /\ seen[e] = 0 => e \in overtaken

\* The events of a transaction that did not commit reach nobody, and a row's
\* delivered_at is set only after the bus took it (relay.tick).
OnlyCommittedIsDelivered ==
  /\ \A e \in Event : published[e] + seen[e] > 0 => tx[e] = "committed"
  /\ \A e \in delivered : published[e] > 0

\* outbox.go: "SKIP LOCKED keeps replicas from double-publishing the same
\* row"; only a tick that was cut short after its publishes makes a repeat.
PublishedOnce == \A e \in Event : published[e] <= 1 + crashes

\* What comes out of the outbox went into it: nothing of a transaction that
\* did not commit, and no row twice but for ticks that were cut short.
DeliveriesAreSound == OnlyCommittedIsDelivered /\ PublishedOnce

\* The relay promises at-least-once delivery of what committed, however often
\* a publish fails or a tick is cut short, as long as fewer rows are poisoned
\* than a batch holds.
Forwarding == INSTANCE AtLeastOnce WITH
  Item <- Event, accepted <- Committed \ Poison, times <- published
RelayDelivers == Forwarding!LiveSpec

\* The consumer promises it of the rows that commit in the order of their ids.
Reading == INSTANCE AtLeastOnce WITH
  Item <- Event, accepted <- (Committed \cap Wanted) \ overtaken,
  times <- [e \in Event |-> IF e \in overtaken THEN 0 ELSE seen[e]]
ConsumerDelivers == Reading!LiveSpec

=============================================================================
