---------------------------- MODULE OutboxProofs ----------------------------
(***************************************************************************)
(* Theorems about Outbox, for every number of rows, relays and replicas,   *)
(* every batch size and every number of ticks cut short.                   *)
(***************************************************************************)
EXTENDS Outbox, FiniteSetTheorems, TLAPS

(***************************************************************************)
(* The two counters of the database: ranks of transactions and ids.        *)
(***************************************************************************)
\* Only finitely many transactions have begun; ids count the inserts, so no
\* two rows share one, and every row that was inserted has one.
Numbered ==
  /\ IsFiniteSet(Begun) /\ IsFiniteSet(Inserted)
  /\ \A e \in Event : id[e] <= Cardinality(Inserted)
  /\ \A e, f \in Inserted : id[e] = id[f] => e = f
  /\ \A e \in Event : tx[e] \in {"written", "committed"} => e \in Inserted
  /\ \A e \in Event : tx[e] \in {"none", "open"} => e \notin Inserted

Typed == TypeOK /\ Numbered

\* What a producer changes.
LEMMA ProducersKeepTypes ==
  ASSUME Typed, NEW e \in Event, Begin(e) \/ WriteOutbox(e) \/ Commit(e) \/ Rollback(e)
  PROVE  Typed'
<1> USE DEF Typed, TypeOK
<1>1. CASE Begin(e)
  <2>1. Begun' = Begun \cup {e} /\ Inserted' = Inserted
    BY <1>1 DEF Begin, Begun, Inserted
  <2>2. IsFiniteSet(Begun') /\ Cardinality(Begun) \in Nat
    BY <2>1, FS_AddElement, FS_CardinalityType DEF Numbered
  <2>3. Numbered'
    BY <1>1, <2>1, <2>2 DEF Begin, Numbered
  <2> QED
    BY <1>1, <2>2, <2>3 DEF Begin, relaying, consuming
<1>2. CASE WriteOutbox(e)
  <2>1. e \notin Inserted /\ IsFiniteSet(Inserted) /\ Cardinality(Inserted) \in Nat
    BY <1>2, FS_CardinalityType DEF WriteOutbox, Numbered
  <2>2. Inserted' = Inserted \cup {e} /\ Begun' = Begun
    <3>1. Cardinality(Inserted) + 1 # 0
      BY <2>1
    <3>2. \A f \in Event : /\ id'[f] # 0 <=> id[f] # 0 \/ f = e
                           /\ tx'[f] # "none" <=> tx[f] # "none"
      BY <1>2, <3>1 DEF WriteOutbox
    <3> QED
      BY <3>2 DEF Begun, Inserted
  <2>3. IsFiniteSet(Inserted') /\ Cardinality(Inserted') = Cardinality(Inserted) + 1
    BY <2>1, <2>2, FS_AddElement
  <2>4. /\ id'[e] = Cardinality(Inserted) + 1
        /\ \A f \in Event \ {e} : id'[f] = id[f]
    BY <1>2 DEF WriteOutbox
  <2>5. Numbered'
    <3>1. \A f \in Event : id'[f] <= Cardinality(Inserted')
      BY <2>1, <2>3, <2>4 DEF Numbered
    <3>2. ASSUME NEW f \in Inserted', NEW g \in Inserted', id'[f] = id'[g]
          PROVE  f = g
      <4>1. \A h \in Inserted : h \in Event /\ id[h] <= Cardinality(Inserted)
        BY DEF Numbered, Inserted
      <4> QED
        BY <2>1, <2>2, <2>4, <3>2, <4>1 DEF Numbered
    <3>3. \A f \in Event : tx'[f] \in {"written", "committed"} => f \in Inserted'
      BY <1>2, <2>2 DEF WriteOutbox, Numbered
    <3>4. \A f \in Event : tx'[f] \in {"none", "open"} => f \notin Inserted'
      BY <1>2, <2>2 DEF WriteOutbox, Numbered
    <3> QED
      BY <2>2, <2>3, <3>1, <3>2, <3>3, <3>4 DEF Numbered
  <2> QED
    BY <1>2, <2>1, <2>5 DEF WriteOutbox, relaying, consuming
<1>3. CASE Commit(e) \/ Rollback(e)
  <2>1. Begun' = Begun /\ Inserted' = Inserted /\ id' = id
    BY <1>3 DEF Commit, Rollback, Begun, Inserted
  <2>2. Numbered'
    BY <1>3, <2>1 DEF Commit, Rollback, Numbered
  <2> QED
    BY <1>3, <2>2 DEF Commit, Rollback, relaying, consuming
<1> QED
  BY <1>1, <1>2, <1>3

\* What a relay changes.
LEMMA RelaysKeepTypes ==
  ASSUME Typed, Relaying
  PROVE  Typed'
<1> USE DEF Typed, TypeOK
<1>1. PICK r \in Relay : \/ Claim(r)
                         \/ \E e \in todo[r] : Publish(r, e) \/ PublishFails(r, e)
                         \/ CommitTick(r)
                         \/ RelayCrash(r)
  BY DEF Relaying
<1>2. UNCHANGED <<writing, consuming>> /\ TypeOK'
  <2>1. CASE Claim(r)
    <3>1. First(RelayBatch, Claimable, born) \subseteq Event
      BY DEF First, Claimable, Committed
    <3> QED
      BY <2>1, <3>1 DEF Claim, writing, consuming
  <2>2. ASSUME NEW e \in todo[r], Publish(r, e) \/ PublishFails(r, e)
        PROVE  UNCHANGED <<writing, consuming>> /\ TypeOK'
    BY <2>2 DEF Publish, PublishFails, writing, consuming
  <2>3. CASE CommitTick(r)
    BY <2>3 DEF CommitTick, EndTick, writing, consuming
  <2>4. CASE RelayCrash(r)
    BY <2>4 DEF RelayCrash, EndTick, writing, consuming
  <2> QED
    BY <1>1, <2>1, <2>2, <2>3, <2>4
<1> QED
  BY <1>2 DEF writing, Numbered, Begun, Inserted

\* What a replica of the consumer changes.
LEMMA ConsumersKeepTypes ==
  ASSUME Typed, Consuming
  PROVE  Typed'
<1> USE DEF Typed, TypeOK
<1>1. PICK c \in Replica : \/ ReadOffset(c) \/ ReadNothing(c) \/ ReadBatch(c)
                           \/ \E e \in work[c] : Dispatch(c, e)
                           \/ SaveOffset(c)
                           \/ ReplicaCrash(c)
  BY DEF Consuming
<1>2. UNCHANGED <<writing, relaying>> /\ TypeOK'
  <2>1. CASE ReadOffset(c)
    BY <2>1 DEF ReadOffset, writing, relaying
  <2>2. CASE ReadNothing(c)
    BY <2>2 DEF ReadNothing, Forget, writing, relaying
  <2>3. CASE ReadBatch(c)
    <3>1. First(ConsumerBatch, Unread(c), id) \subseteq Event
      BY DEF First, Unread, Committed
    <3>2. work' \in [Replica -> SUBSET Event] /\ work'[c] \subseteq Event
      BY <2>3, <3>1 DEF ReadBatch
    <3>3. upto' \in [Replica -> Nat]
      BY <2>3, <3>2 DEF ReadBatch
    <3> QED
      BY <2>3, <3>2, <3>3 DEF ReadBatch, writing, relaying
  <2>4. ASSUME NEW e \in work[c], Dispatch(c, e)
        PROVE  UNCHANGED <<writing, relaying>> /\ TypeOK'
    BY <2>4 DEF Dispatch, writing, relaying
  <2>5. CASE SaveOffset(c)
    BY <2>5 DEF SaveOffset, Forget, writing, relaying
  <2>6. CASE ReplicaCrash(c)
    BY <2>6 DEF ReplicaCrash, Forget, writing, relaying
  <2> QED
    BY <1>1, <2>1, <2>2, <2>3, <2>4, <2>5, <2>6
<1> QED
  BY <1>2 DEF writing, Numbered, Begun, Inserted

\* The types and numbers hold throughout.
LEMMA TypedHolds == Spec => []Typed
<1>1. Init => Typed
  <2> SUFFICES ASSUME Init PROVE Typed
    OBVIOUS
  <2>1. Begun = {} /\ Inserted = {}
    BY DEF Init, Begun, Inserted
  <2> QED
    BY <2>1, FS_EmptySet, OutboxAssumption DEF Init, Typed, TypeOK, Numbered
<1>2. ASSUME Typed, [Next]_vars
      PROVE  Typed'
  <2>1. CASE UNCHANGED vars
    BY <1>2, <2>1 DEF vars, writing, relaying, consuming, Typed, TypeOK, Numbered,
                      Begun, Inserted
  <2> QED
    BY <1>2, <2>1, ProducersKeepTypes, RelaysKeepTypes, ConsumersKeepTypes
       DEF Next, Producing
<1> QED
  BY <1>1, <1>2, PTL DEF Spec

\* Rows, ticks and offsets keep their types.
THEOREM TypeCorrect == Spec => []TypeOK
  BY TypedHolds, PTL DEF Typed

----------------------------------------------------------------------------
(***************************************************************************)
(* The relay.                                                              *)
(***************************************************************************)
Counted(e) == e \in delivered \/ \E r \in Relay : e \in marked[r]

\* No two ticks hold a row, what a tick has yet to publish is not marked, and
\* the bus has taken a row once if it is marked, and once for every crash.
RelayInv ==
  /\ \A r, q \in Relay : r # q => locked[r] \cap locked[q] = {}
  /\ \A r \in Relay :
       /\ locked[r] \subseteq Committed \ delivered
       /\ todo[r] \cap marked[r] = {}
       /\ \A e \in marked[r] : published[e] > 0
  /\ delivered \subseteq Committed
  /\ \A e \in delivered : published[e] > 0
  /\ \A e \in Event :
       /\ published[e] <= (IF Counted(e) THEN 1 ELSE 0) + crashes
       /\ published[e] > 0 => tx[e] = "committed"

\* One step of a relay.
LEMMA RelayStep ==
  ASSUME Typed, RelayInv, Relaying
  PROVE  RelayInv'
<1> USE DEF Typed, TypeOK
<1>1. PICK r \in Relay : \/ Claim(r)
                         \/ \E e \in todo[r] : Publish(r, e) \/ PublishFails(r, e)
                         \/ CommitTick(r)
                         \/ RelayCrash(r)
  BY DEF Relaying
<1>2. tx' = tx /\ Committed' = Committed
  BY <1>1 DEF Claim, Publish, PublishFails, CommitTick, RelayCrash, EndTick,
              writing, Committed
<1>3. CASE Claim(r)
  <2>1. /\ locked' = [locked EXCEPT ![r] = First(RelayBatch, Claimable, born)]
        /\ First(RelayBatch, Claimable, born) \subseteq Claimable
        /\ todo'[r] = locked'[r] /\ marked[r] = {}
        /\ \A q \in Relay \ {r} : todo'[q] = todo[q]
        /\ UNCHANGED <<marked, delivered, published, crashes>>
    BY <1>3 DEF Claim, First
  <2>2. \A q \in Relay : First(RelayBatch, Claimable, born) \cap locked[q] = {}
    BY <2>1 DEF Claimable
  <2>3. First(RelayBatch, Claimable, born) \subseteq Committed \ delivered
    BY <2>1 DEF Claimable
  <2> HIDE DEF First
  <2>4. \A q, p \in Relay : q # p => locked'[q] \cap locked'[p] = {}
    BY <2>1, <2>2 DEF RelayInv
  <2>5. \A q \in Relay : /\ locked'[q] \subseteq Committed \ delivered
                         /\ todo'[q] \cap marked[q] = {}
    BY <2>1, <2>3 DEF RelayInv
  <2> QED
    BY <1>2, <2>1, <2>4, <2>5 DEF RelayInv, Counted
<1>4. ASSUME NEW e \in todo[r], Publish(r, e)
      PROVE  RelayInv'
  <2>1. /\ e \in Event /\ e \in locked[r] /\ e \notin marked[r]
        /\ todo' = [todo EXCEPT ![r] = @ \ {e}]
        /\ marked' = [marked EXCEPT ![r] = @ \cup {e}]
        /\ published' = [published EXCEPT ![e] = @ + 1]
        /\ UNCHANGED <<locked, delivered, crashes>>
    BY <1>4 DEF Publish, RelayInv
  <2>2. ~Counted(e) /\ tx[e] = "committed"
    <3>1. e \notin delivered /\ tx[e] = "committed"
      BY <2>1 DEF RelayInv, Committed
    <3>2. ASSUME NEW q \in Relay, e \in marked[q]
          PROVE  FALSE
      BY <2>1, <3>2 DEF RelayInv
    <3> QED
      BY <3>1, <3>2 DEF Counted
  <2>3. Counted(e)' /\ \A f \in Event \ {e} : Counted(f)' <=> Counted(f)
    BY <2>1 DEF Counted
  <2>4. \A f \in Event :
          /\ published'[f] <= (IF Counted(f)' THEN 1 ELSE 0) + crashes
          /\ published'[f] > 0 => tx[f] = "committed"
    BY <2>1, <2>2, <2>3 DEF RelayInv
  <2>5. \A q \in Relay : /\ todo'[q] \cap marked'[q] = {}
                         /\ \A f \in marked'[q] : published'[f] > 0
    BY <2>1 DEF RelayInv
  <2>6. \A f \in delivered : published'[f] > 0
    BY <2>1 DEF RelayInv
  <2> QED
    BY <1>2, <2>1, <2>4, <2>5, <2>6 DEF RelayInv
<1>5. ASSUME NEW e \in todo[r], PublishFails(r, e)
      PROVE  RelayInv'
  BY <1>2, <1>5 DEF PublishFails, RelayInv, Counted
<1>6. CASE CommitTick(r)
  <2>1. /\ delivered' = delivered \cup marked[r]
        /\ locked' = [locked EXCEPT ![r] = {}]
        /\ todo' = [todo EXCEPT ![r] = {}]
        /\ marked' = [marked EXCEPT ![r] = {}]
        /\ UNCHANGED <<published, crashes>>
    BY <1>6 DEF CommitTick, EndTick
  <2>2. \A f \in Event : Counted(f)' <=> Counted(f)
    BY <2>1 DEF Counted
  <2>3. \A q \in Relay \ {r} : locked[q] \cap marked[r] = {}
    BY DEF RelayInv
  <2> QED
    BY <1>2, <2>1, <2>2, <2>3 DEF RelayInv
<1>7. CASE RelayCrash(r)
  <2>1. /\ locked' = [locked EXCEPT ![r] = {}]
        /\ todo' = [todo EXCEPT ![r] = {}]
        /\ marked' = [marked EXCEPT ![r] = {}]
        /\ crashes' = crashes + 1
        /\ UNCHANGED <<delivered, published>>
    BY <1>7 DEF RelayCrash, EndTick
  <2>2. \A f \in Event : published[f] <= (IF Counted(f)' THEN 1 ELSE 0) + crashes'
    BY <2>1 DEF RelayInv
  <2> QED
    BY <1>2, <2>1, <2>2 DEF RelayInv
<1> QED
  BY <1>1, <1>3, <1>4, <1>5, <1>6, <1>7

\* The relays' invariant holds throughout.
LEMMA RelayInvHolds == Spec => []RelayInv
<1>1. Init => RelayInv
  BY DEF Init, RelayInv, Counted, Committed
<1>2. ASSUME Typed, RelayInv, [Next]_vars
      PROVE  RelayInv'
  <2>1. CASE Relaying
    BY <1>2, <2>1, RelayStep
  <2>2. CASE Producing
    <3>1. /\ UNCHANGED <<relaying, crashes>>
          /\ \A e \in Event : tx[e] = "committed" => tx'[e] = "committed"
      BY <1>2, <2>2 DEF Producing, Begin, WriteOutbox, Commit, Rollback, Typed, TypeOK
    <3> QED
      BY <1>2, <3>1 DEF RelayInv, Counted, Committed, relaying
  <2>3. CASE Consuming
    <3>1. UNCHANGED <<writing, relaying>> /\ crashes' \in {crashes, crashes + 1}
      BY <1>2, <2>3 DEF Consuming, ReadOffset, ReadNothing, ReadBatch, Dispatch,
                        SaveOffset, ReplicaCrash, Forget
    <3>2. \A e \in Event :
            published[e] <= (IF Counted(e) THEN 1 ELSE 0) + crashes'
      BY <1>2, <3>1 DEF RelayInv, Typed, TypeOK
    <3> QED
      BY <1>2, <3>1, <3>2 DEF RelayInv, Counted, Committed, writing, relaying
  <2>4. CASE UNCHANGED vars
    BY <1>2, <2>4 DEF RelayInv, Counted, Committed, vars, writing, relaying
  <2> QED
    BY <1>2, <2>1, <2>2, <2>3, <2>4 DEF Next
<1> QED
  BY <1>1, <1>2, TypedHolds, PTL DEF Spec

\* A row is published twice only after a tick was cut short, whatever the
\* number of relays: SKIP LOCKED keeps their batches apart.
THEOREM PublishedOnceHolds == Spec => []PublishedOnce
<1>1. Typed /\ RelayInv => PublishedOnce
  BY DEF Typed, TypeOK, RelayInv, PublishedOnce
<1> QED
  BY <1>1, TypedHolds, RelayInvHolds, PTL

----------------------------------------------------------------------------
(***************************************************************************)
(* The consumer.                                                           *)
(***************************************************************************)
\* ORDER BY ... LIMIT n: with a row come all the rows before it.
LEMMA FirstIsPrefix ==
  ASSUME NEW S, IsFiniteSet(S), NEW rank, \A s \in S : rank[s] \in Nat,
         NEW n \in Nat, NEW b \in First(n, S, rank),
         NEW a \in S, rank[a] <= rank[b]
  PROVE  a \in First(n, S, rank)
<1> DEFINE Before(x) == {f \in S : rank[f] < rank[x]}
<1>1. Before(a) \subseteq Before(b) /\ IsFiniteSet(Before(b))
  BY FS_Subset DEF First
<1>2. /\ Cardinality(Before(a)) <= Cardinality(Before(b))
      /\ Cardinality(Before(a)) \in Nat /\ Cardinality(Before(b)) \in Nat
  <2> HIDE DEF Before
  <2> QED
    BY <1>1, FS_Subset, FS_CardinalityType
<1>3. Cardinality(Before(b)) < n
  BY DEF First
<1>4. Cardinality(Before(a)) < n
  <2> HIDE DEF Before
  <2> QED
    BY <1>2, <1>3
<1> QED
  BY <1>4 DEF First

\* An offset is the id of a committed row, or the start.
Mark(x) == x = 0 \/ \E f \in Committed : id[f] = x

\* Up to x, the rows that were not overtaken are dispatched, or are in W.
Covered(x, W) == \A e \in (Committed \cap Wanted) \ overtaken :
  id[e] <= x => seen[e] > 0 \/ e \in W

\* This is so of the stored offset, and of those that replicas have read or
\* will write: stale as they are, none of them passes a row that is to come.
ConsumerInv ==
  /\ Mark(offset) /\ Covered(offset, {})
  /\ \A c \in Replica :
       /\ Mark(from[c]) /\ Covered(from[c], {})
       /\ Mark(upto[c]) /\ Covered(upto[c], work[c])
       /\ work[c] \subseteq Committed
  /\ \A e \in Event : seen[e] > 0 => tx[e] = "committed"

\* A row that commits below a mark is overtaken.
LEMMA ProducerStep ==
  ASSUME Typed, Typed', ConsumerInv, Producing
  PROVE  ConsumerInv'
<1> USE DEF Typed, TypeOK
<1>1. PICK e \in Event : Begin(e) \/ WriteOutbox(e) \/ Commit(e) \/ Rollback(e)
  BY DEF Producing
<1>2. UNCHANGED <<consuming>> /\ overtaken \subseteq overtaken'
  BY <1>1 DEF Begin, WriteOutbox, Commit, Rollback
<1>3. \A f \in Committed : f \in Committed' /\ id'[f] = id[f]
  BY <1>1 DEF Begin, WriteOutbox, Commit, Rollback, Committed, Numbered
<1>4. \A x : Mark(x) => Mark(x)'
  BY <1>3 DEF Mark
<1>5. ASSUME NEW x \in Nat, Mark(x), NEW W, Covered(x, W)
      PROVE  Covered(x, W)'
  <2> SUFFICES ASSUME NEW f \in (Committed' \cap Wanted) \ overtaken', id'[f] <= x
               PROVE  seen'[f] > 0 \/ f \in W
    BY DEF Covered
  <2>1. CASE f \in Committed
    BY <1>2, <1>3, <1>5, <2>1 DEF Covered, consuming
  <2>2. CASE f \notin Committed
    <3>1. f = e /\ Commit(e) /\ f \in Inserted /\ id' = id
      BY <1>1, <2>2 DEF Begin, WriteOutbox, Commit, Rollback, Committed, Numbered
    <3>2. PICK g \in Committed : id[g] = x
      BY <1>5, <3>1 DEF Mark, Inserted
    <3>3. g \in Inserted /\ g # f
      BY <2>2, <3>2 DEF Numbered, Committed
    <3>4. id[g] > id[f]
      BY <3>1, <3>2, <3>3 DEF Numbered, Inserted
    <3>5. f \in overtaken'
      BY <3>1, <3>4 DEF Commit
    <3> QED
      BY <3>5
  <2> QED
    BY <2>1, <2>2
<1>6. \A f \in Event : seen[f] > 0 => tx'[f] = "committed"
  BY <1>3 DEF ConsumerInv, Committed
<1>7. /\ Mark(offset)' /\ Covered(offset, {})'
      /\ \A c \in Replica : /\ Mark(from[c])' /\ Covered(from[c], {})'
                            /\ Mark(upto[c])' /\ Covered(upto[c], work[c])'
                            /\ work'[c] \subseteq Committed'
  <2>1. UNCHANGED <<offset, from, upto, work>>
    BY <1>2 DEF consuming
  <2>2. Mark(offset)' /\ Covered(offset, {})'
    BY <1>4, <1>5, <2>1 DEF ConsumerInv, Mark, Covered
  <2>3. ASSUME NEW c \in Replica
        PROVE  /\ Mark(from[c])' /\ Covered(from[c], {})'
               /\ Mark(upto[c])' /\ Covered(upto[c], work[c])'
               /\ work'[c] \subseteq Committed'
    BY <1>3, <1>4, <1>5, <2>1 DEF ConsumerInv, Mark, Covered
  <2> QED
    BY <2>2, <2>3
<1> QED
  BY <1>2, <1>6, <1>7 DEF ConsumerInv, consuming

\* A tick of a replica moves marks around, and dispatches what it covers.
LEMMA ConsumerStep ==
  ASSUME Typed, ConsumerInv, Consuming
  PROVE  ConsumerInv'
<1> USE OutboxAssumption DEF Typed, TypeOK
<1>1. PICK c \in Replica : \/ ReadOffset(c) \/ ReadNothing(c) \/ ReadBatch(c)
                           \/ \E e \in work[c] : Dispatch(c, e)
                           \/ SaveOffset(c)
                           \/ ReplicaCrash(c)
  BY DEF Consuming
<1>2. UNCHANGED <<tx, id, overtaken>>
  BY <1>1 DEF ReadOffset, ReadNothing, ReadBatch, Dispatch, SaveOffset,
              ReplicaCrash, writing
<1>3. Mark(0) /\ Covered(0, {})
  BY DEF Mark, Covered, Numbered, Committed, Inserted
<1>4. CASE ReadOffset(c)
  BY <1>2, <1>4 DEF ReadOffset, ConsumerInv, Mark, Covered, Committed
<1>5. CASE ReadNothing(c) \/ ReplicaCrash(c)
  BY <1>2, <1>3, <1>5 DEF ReadNothing, ReplicaCrash, Forget, ConsumerInv, Mark,
                          Covered, Committed
<1>6. CASE SaveOffset(c)
  BY <1>2, <1>3, <1>6 DEF SaveOffset, Forget, ConsumerInv, Mark, Covered, Committed
<1>7. CASE ReadBatch(c)
  <2> DEFINE B == First(ConsumerBatch, Unread(c), id)
  <2>1. /\ work' = [work EXCEPT ![c] = B]
        /\ UNCHANGED <<from, offset, seen>>
    BY <1>7 DEF ReadBatch
  <2>2. PICK last \in B : upto' = [upto EXCEPT ![c] = id[last]]
    BY <1>7, <2>1 DEF ReadBatch
  <2>3. B \subseteq Unread(c) /\ Unread(c) \subseteq Committed /\ Committed \subseteq Event
    BY DEF First, Unread, Committed
  <2>4. IsFiniteSet(Unread(c))
    <3>1. Unread(c) \subseteq Inserted /\ IsFiniteSet(Inserted)
      BY DEF Unread, Committed, Numbered
    <3> QED
      BY <3>1, FS_Subset
  <2> HIDE DEF B
  <2>5. Covered(id[last], B)
    <3> SUFFICES ASSUME NEW e \in (Committed \cap Wanted) \ overtaken,
                        id[e] <= id[last]
                 PROVE  seen[e] > 0 \/ e \in B
      BY DEF Covered
    <3>1. CASE e \in Unread(c)
      BY <2>2, <2>3, <2>4, <3>1, FirstIsPrefix DEF B
    <3>2. CASE e \notin Unread(c)
      BY <2>3, <3>2 DEF Unread, ConsumerInv, Covered
    <3> QED
      BY <3>1, <3>2
  <2>6. Mark(id[last])
    BY <2>2, <2>3 DEF Mark
  <2> QED
    BY <1>2, <2>1, <2>2, <2>3, <2>5, <2>6 DEF ConsumerInv, Mark, Covered, Committed
<1>8. ASSUME NEW e \in work[c], Dispatch(c, e)
      PROVE  ConsumerInv'
  <2>1. /\ work' = [work EXCEPT ![c] = @ \ {e}]
        /\ UNCHANGED <<from, upto, offset>>
        /\ \A f \in Event : seen'[f] >= seen[f] /\ (f # e => seen'[f] = seen[f])
        /\ e \in Wanted => seen'[e] > 0
        /\ tx[e] = "committed"
    BY <1>8 DEF Dispatch, ConsumerInv, Committed
  <2>2. \A x, W : Covered(x, W) => Covered(x, W)' /\ Covered(x, W \ {e})'
    BY <1>2, <2>1 DEF Covered, Committed
  <2> QED
    BY <1>2, <2>1, <2>2 DEF ConsumerInv, Mark, Covered, Committed
<1> QED
  BY <1>1, <1>4, <1>5, <1>6, <1>7, <1>8

\* The consumers' invariant holds throughout.
LEMMA ConsumerInvHolds == Spec => []ConsumerInv
<1>1. Init => ConsumerInv
  BY DEF Init, ConsumerInv, Mark, Covered, Committed
<1>2. ASSUME Typed, Typed', ConsumerInv, [Next]_vars
      PROVE  ConsumerInv'
  <2>1. CASE Relaying
    BY <1>2, <2>1 DEF Relaying, Claim, Publish, PublishFails, CommitTick,
       RelayCrash, EndTick, writing, consuming, ConsumerInv, Mark, Covered, Committed
  <2>2. CASE UNCHANGED vars
    BY <1>2, <2>2 DEF vars, writing, consuming, ConsumerInv, Mark, Covered, Committed
  <2> QED
    BY <1>2, <2>1, <2>2, ProducerStep, ConsumerStep DEF Next
<1> QED
  BY <1>1, <1>2, TypedHolds, PTL DEF Spec

\* Whatever the replicas, their batches and their crashes do, a row behind the
\* offset that was never dispatched committed after a row with a higher id.
THEOREM LostOnlyIfOvertakenHolds == Spec => []LostOnlyIfOvertaken
<1>1. ConsumerInv /\ Typed => LostOnlyIfOvertaken
  BY DEF ConsumerInv, Covered, LostOnlyIfOvertaken, Typed, TypeOK, Committed
<1> QED
  BY <1>1, TypedHolds, ConsumerInvHolds, PTL

\* Nothing of a transaction that did not commit reaches the bus or the
\* dispatcher, and what counts as delivered was taken by the bus.
THEOREM OnlyCommittedHolds == Spec => []OnlyCommittedIsDelivered
<1>1. Typed /\ RelayInv /\ ConsumerInv => OnlyCommittedIsDelivered
  BY DEF Typed, TypeOK, RelayInv, ConsumerInv, OnlyCommittedIsDelivered
<1> QED
  BY <1>1, TypedHolds, RelayInvHolds, ConsumerInvHolds, PTL

\* Both about what is delivered, for any number of relays and replicas.
THEOREM DeliveriesAreSoundHolds == Spec => []DeliveriesAreSound
  BY OnlyCommittedHolds, PublishedOnceHolds, PTL DEF DeliveriesAreSound

----------------------------------------------------------------------------
(***************************************************************************)
(* The promises: relay and consumer implement at-least-once delivery, up   *)
(* to its fairness.                                                        *)
(***************************************************************************)
\* relay.tick publishes only rows whose transaction committed, and a row that
\* the bus never accepts is not promised: each step of the system is an
\* acceptance or a delivery of the rows the relay forwards, or neither.
THEOREM RelayForwards == Spec => Forwarding!DeliverySpec
<1>1. Init => Forwarding!DeliveryInit
  BY DEF Init, Committed, Forwarding!DeliveryInit
<1>2. ASSUME Typed, RelayInv, [Next]_vars
      PROVE  [Forwarding!DeliveryNext]_(Forwarding!delivery)
  <2> USE <1>2 DEF Typed, TypeOK
  <2>1. ASSUME NEW e \in Event, Commit(e), e \notin Poison
        PROVE  Forwarding!Accept(e)
    <3>1. e \notin Committed /\ Committed' = Committed \cup {e}
      BY <2>1 DEF Commit, Committed
    <3>2. published' = published
      BY <2>1 DEF Commit, relaying
    <3> QED
      BY <2>1, <3>1, <3>2 DEF Forwarding!Accept
  <2>2. ASSUME NEW r \in Relay, NEW e \in todo[r], Publish(r, e)
        PROVE  e \in Event /\ Forwarding!Deliver(e)
    <3>1. e \in Committed /\ e \notin Poison
      BY <2>2 DEF Publish, RelayInv
    <3>2. published' = [published EXCEPT ![e] = @ + 1] /\ Committed' = Committed
      BY <2>2 DEF Publish, writing, Committed
    <3> QED
      BY <3>1, <3>2 DEF Forwarding!Deliver, Committed
  <2>3. ASSUME UNCHANGED published,
               \A e \in Event \ Poison :
                 tx'[e] = "committed" <=> tx[e] = "committed"
        PROVE  UNCHANGED Forwarding!delivery
    BY <2>3, OutboxAssumption DEF Forwarding!delivery, Committed
  <2>4. CASE Producing
    <3>1. PICK e \in Event : Begin(e) \/ WriteOutbox(e) \/ Commit(e) \/ Rollback(e)
      BY <2>4 DEF Producing
    <3>2. published' = published
      BY <3>1 DEF Begin, WriteOutbox, Commit, Rollback, relaying
    <3>3. CASE Commit(e) /\ e \notin Poison
      BY <2>1, <3>3 DEF Forwarding!DeliveryNext
    <3>4. CASE ~(Commit(e) /\ e \notin Poison)
      <4>1. \A f \in Event \ Poison :
              tx'[f] = "committed" <=> tx[f] = "committed"
        BY <3>1, <3>4 DEF Begin, WriteOutbox, Commit, Rollback
      <4> QED
        BY <2>3, <3>2, <4>1
    <3> QED
      BY <3>3, <3>4
  <2>5. CASE Relaying
    <3>1. PICK r \in Relay : \/ Claim(r)
                             \/ \E e \in todo[r] : Publish(r, e) \/ PublishFails(r, e)
                             \/ CommitTick(r)
                             \/ RelayCrash(r)
      BY <2>5 DEF Relaying
    <3>2. CASE \E e \in todo[r] : Publish(r, e)
      <4>1. PICK e \in todo[r] : Publish(r, e)
        BY <3>2
      <4> QED
        BY <2>2, <4>1 DEF Forwarding!DeliveryNext
    <3>3. CASE ~ \E e \in todo[r] : Publish(r, e)
      <4>1. published' = published /\ tx' = tx
        BY <3>1, <3>3 DEF Claim, PublishFails, CommitTick, RelayCrash, EndTick, writing
      <4> QED
        BY <2>3, <4>1
    <3> QED
      BY <3>2, <3>3
  <2>6. CASE Consuming
    <3>1. published' = published /\ tx' = tx
      BY <2>6 DEF Consuming, ReadOffset, ReadNothing, ReadBatch, Dispatch,
                  SaveOffset, ReplicaCrash, relaying, writing
    <3> QED
      BY <2>3, <3>1
  <2>7. CASE UNCHANGED vars
    BY <2>3, <2>7 DEF vars, relaying, writing
  <2> QED
    BY <1>2, <2>4, <2>5, <2>6, <2>7 DEF Next
<1> QED
  BY <1>1, <1>2, TypedHolds, RelayInvHolds, PTL DEF Spec, Forwarding!DeliverySpec

\* consumer.tick dispatches only rows that committed: each step is an
\* acceptance or a delivery of the rows that committed in the order of their
\* ids, or neither, however the replicas share the offset.
THEOREM ConsumerReads == Spec => Reading!DeliverySpec
<1> DEFINE Accepted == (Committed \cap Wanted) \ overtaken
           Times == [e \in Event |-> IF e \in overtaken THEN 0 ELSE seen[e]]
<1>1. Init => Reading!DeliveryInit
  BY DEF Init, Committed, Reading!DeliveryInit
<1>2. ASSUME Typed, ConsumerInv, [Next]_vars
      PROVE  [Reading!DeliveryNext]_(Reading!delivery)
  <2> USE <1>2 DEF Typed, TypeOK
  <2>1. ASSUME NEW e \in Event, Commit(e), e \in Wanted \ overtaken'
        PROVE  Reading!Accept(e)
    <3>1. e \notin Committed /\ Committed' = Committed \cup {e} /\ seen' = seen
      BY <2>1 DEF Commit, Committed, consuming
    <3>2. overtaken' = overtaken
      BY <2>1 DEF Commit
    <3> QED
      BY <2>1, <3>1, <3>2 DEF Reading!Accept
  <2>2. ASSUME NEW e \in Event, Commit(e), e \notin Wanted \ overtaken'
        PROVE  Accepted' = Accepted /\ Times' = Times
    <3>1. /\ e \notin Committed /\ Committed' = Committed \cup {e}
          /\ overtaken' \in {overtaken, overtaken \cup {e}} /\ seen' = seen
      BY <2>2 DEF Commit, Committed, consuming
    <3>2. seen[e] = 0
      BY <3>1 DEF ConsumerInv, Committed
    <3>3. Accepted' = Accepted
      BY <2>2, <3>1
    <3>4. Times' = Times
      BY <3>1, <3>2
    <3> QED
      BY <3>3, <3>4
  <2>3. ASSUME NEW c \in Replica, NEW e \in work[c], Dispatch(c, e)
        PROVE  /\ e \in Event
               /\ \/ Reading!Deliver(e)
                  \/ Accepted' = Accepted /\ Times' = Times
    <3>1. e \in Event /\ e \in Committed
      BY DEF ConsumerInv, Committed
    <3>2. /\ UNCHANGED <<tx, overtaken>> /\ Committed' = Committed
          /\ seen' = [seen EXCEPT ![e] = IF e \in Wanted THEN @ + 1 ELSE @]
      BY <2>3 DEF Dispatch, writing, Committed
    <3>3. CASE e \in Wanted \ overtaken
      <4>1. Times' = [Times EXCEPT ![e] = @ + 1]
        BY <3>1, <3>2, <3>3
      <4> QED
        BY <3>1, <3>2, <3>3, <4>1 DEF Reading!Deliver
    <3>4. CASE e \notin Wanted \ overtaken
      <4>1. Times' = Times
        BY <3>1, <3>2, <3>4
      <4> QED
        BY <3>1, <3>2, <4>1
    <3> QED
      BY <3>1, <3>3, <3>4
  <2>4. ASSUME Committed' = Committed, UNCHANGED <<overtaken, seen>>
        PROVE  Accepted' = Accepted /\ Times' = Times
    BY <2>4
  <2>5. ASSUME Accepted' = Accepted, Times' = Times
        PROVE  UNCHANGED Reading!delivery
    BY <2>5 DEF Reading!delivery
  <2> HIDE DEF Accepted, Times
  <2>6. CASE Producing
    <3>1. PICK e \in Event : Begin(e) \/ WriteOutbox(e) \/ Commit(e) \/ Rollback(e)
      BY <2>6 DEF Producing
    <3>2. CASE Commit(e)
      BY <2>1, <2>2, <2>5, <3>2 DEF Reading!DeliveryNext
    <3>3. CASE ~Commit(e)
      <4>1. Committed' = Committed /\ UNCHANGED <<overtaken, seen>>
        BY <3>1, <3>3 DEF Begin, WriteOutbox, Rollback, Committed, consuming
      <4> QED
        BY <2>4, <2>5, <4>1
    <3> QED
      BY <3>2, <3>3
  <2>7. CASE Consuming
    <3>1. PICK c \in Replica : \/ ReadOffset(c) \/ ReadNothing(c) \/ ReadBatch(c)
                               \/ \E e \in work[c] : Dispatch(c, e)
                               \/ SaveOffset(c)
                               \/ ReplicaCrash(c)
      BY <2>7 DEF Consuming
    <3>2. CASE \E e \in work[c] : Dispatch(c, e)
      <4>1. PICK e \in work[c] : Dispatch(c, e)
        BY <3>2
      <4> QED
        BY <2>3, <2>5, <4>1 DEF Reading!DeliveryNext
    <3>3. CASE ~ \E e \in work[c] : Dispatch(c, e)
      <4>1. Committed' = Committed /\ UNCHANGED <<overtaken, seen>>
        BY <3>1, <3>3 DEF ReadOffset, ReadNothing, ReadBatch, SaveOffset,
                          ReplicaCrash, writing, Committed
      <4> QED
        BY <2>4, <2>5, <4>1
    <3> QED
      BY <3>2, <3>3
  <2>8. CASE Relaying \/ UNCHANGED vars
    <3>1. Committed' = Committed /\ UNCHANGED <<overtaken, seen>>
      BY <2>8 DEF Relaying, Claim, Publish, PublishFails, CommitTick, RelayCrash,
                  EndTick, vars, writing, consuming, Committed
    <3> QED
      BY <2>4, <2>5, <3>1
  <2> QED
    BY <1>2, <2>6, <2>7, <2>8 DEF Next
<1> QED
  BY <1>1, <1>2, TypedHolds, ConsumerInvHolds, PTL DEF Spec, Reading!DeliverySpec
=============================================================================
