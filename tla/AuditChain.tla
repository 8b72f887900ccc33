----------------------------- MODULE AuditChain -----------------------------
(***************************************************************************)
(* The hash-chained audit log of a tenant: writes that read the last row   *)
(* under FOR UPDATE and insert a row that hashes it, and verify, which     *)
(* walks the rows in the order of their ids.  Triggers forbid changes to   *)
(* the rows, and nobody makes any here.                                    *)
(***************************************************************************)
EXTENDS Integers, Sequences

CONSTANTS
  Write,    \* write requests, and the rows of audit_events they insert
  Content,  \* what a row is about, in its canonical form
  NoRow

ASSUME AuditAssumption == NoRow \notin Write

VARIABLES
  phase,    \* how far the request is
  content,
  last,     \* the row it read as the last one and holds a lock on
  prev,     \* prev_hash, empty for NULL
  hash,
  id,       \* its id, 0 before the insert
  lastId,   \* the sequence of ids
  alongside \* history: the requests that were open at the same time

vars == <<phase, content, last, prev, hash, id, lastId, alongside>>

TypeOK ==
  /\ phase \in [Write -> {"none", "read", "inserted", "committed", "failed"}]
  /\ content \in [Write -> Content]
  /\ last \in [Write -> Write \cup {NoRow}]
  /\ prev \in [Write -> Seq(Content)]
  /\ hash \in [Write -> Seq(Content)]
  /\ lastId \in Nat
  /\ id \in [Write -> 0..lastId]
  /\ alongside \in [Write -> SUBSET Write]
  /\ \A w \in Write : id[w] > 0 <=> phase[w] \in {"inserted", "committed"}

Init ==
  /\ phase = [w \in Write |-> "none"]
  /\ content \in [Write -> Content]
  /\ last = [w \in Write |-> NoRow]
  /\ prev = [w \in Write |-> <<>>]
  /\ hash = [w \in Write |-> <<>>]
  /\ id = [w \in Write |-> 0]
  /\ lastId = 0
  /\ alongside = [w \in Write |-> {}]

----------------------------------------------------------------------------
Rows == {w \in Write : phase[w] = "committed"}
OpenWrites == {w \in Write : phase[w] \in {"read", "inserted"}}

\* The row ORDER BY id DESC LIMIT 1 selects among those with a smaller id.
IsBefore(p, r) ==
  /\ id[p] < id[r]
  /\ \A o \in Rows : id[o] < id[r] => id[o] <= id[p]

\* The last committed row, if there is one.
IsLast(p) ==
  IF Rows = {} THEN p = NoRow
  ELSE p \in Rows /\ \A o \in Rows : id[o] <= id[p]

\* SHA-256 does not collide: a hash stands for what was hashed, the previous
\* hash and the row's content.
Hash(h, c) == Append(h, c)

HashOf(p) == IF p = NoRow THEN <<>> ELSE hash[p]

\* w opens: it and the open requests are alongside each other.
Met(w) == [o \in Write |->
  IF o = w THEN OpenWrites
  ELSE IF o \in OpenWrites THEN alongside[o] \cup {w} ELSE alongside[o]]

\* Mutant: the last row is taken from those that are inserted.
WriteReadDirty(w) ==
  /\ phase[w] = "none"
  /\ \E p \in Write \cup {NoRow} :
       /\ p # NoRow => id[p] > 0
       /\ \A o \in Write : id[o] > 0 => p # NoRow /\ id[o] <= id[p]
       /\ last' = [last EXCEPT ![w] = p]
       /\ prev' = [prev EXCEPT ![w] = HashOf(p)]
  /\ phase' = [phase EXCEPT ![w] = "read"]
  /\ alongside' = Met(w)
  /\ UNCHANGED <<content, hash, id, lastId>>

\* The statement's snapshot: the row it locks is chosen, and is not chosen
\* again if the lock has to be waited for.
WriteRead(w) ==
  /\ phase[w] = "none"
  /\ \E p \in Write \cup {NoRow} :
       /\ IsLast(p)
       /\ last' = [last EXCEPT ![w] = p]
       /\ prev' = [prev EXCEPT ![w] = HashOf(p)]
  /\ phase' = [phase EXCEPT ![w] = "read"]
  /\ alongside' = Met(w)
  /\ UNCHANGED <<content, hash, id, lastId>>

\* The row lock, once it is free, and the insert.
WriteInsert(w) ==
  /\ phase[w] = "read"
  /\ last[w] # NoRow =>
       \A o \in Write : last[o] = last[w] => phase[o] # "inserted"
  /\ hash' = [hash EXCEPT ![w] = Hash(prev[w], content[w])]
  /\ id' = [id EXCEPT ![w] = lastId + 1]
  /\ lastId' = lastId + 1
  /\ phase' = [phase EXCEPT ![w] = "inserted"]
  /\ UNCHANGED <<content, last, prev, alongside>>

WriteCommit(w) ==
  /\ phase[w] = "inserted"
  /\ phase' = [phase EXCEPT ![w] = "committed"]
  /\ UNCHANGED <<content, last, prev, hash, id, lastId, alongside>>

\* Rolled back, the id lost; the service that emitted the event does not try
\* again.
WriteFails(w) ==
  /\ phase[w] \in {"read", "inserted"}
  /\ phase' = [phase EXCEPT ![w] = "failed"]
  /\ hash' = [hash EXCEPT ![w] = <<>>]
  /\ id' = [id EXCEPT ![w] = 0]
  /\ UNCHANGED <<content, last, prev, lastId, alongside>>

Next == \E w \in Write :
  WriteRead(w) \/ WriteInsert(w) \/ WriteCommit(w) \/ WriteFails(w)

Spec == Init /\ [][Next]_vars

----------------------------------------------------------------------------
\* What verify checks of a row behind p.
Links(p, r) ==
  /\ prev[r] = HashOf(p)
  /\ hash[r] = Hash(HashOf(p), content[r])

IsFirst(r) == \A o \in Rows : id[r] <= id[o]

\* verify's answer is ok.
Verifies == \A r \in Rows :
  /\ IsFirst(r) => Links(NoRow, r)
  /\ \A p \in Rows : IsBefore(p, r) => Links(p, r)

(***************************************************************************)
(* Properties.                                                             *)
(***************************************************************************)
\* verify finds a break only between rows whose writes were open together:
\* whatever order requests lock, insert, fail and commit in, a row that was
\* there when the next one began is hashed by it.
BreaksAreOverlaps == \A r \in Rows :
  /\ IsFirst(r) => Links(NoRow, r)
  /\ \A p \in Rows : IsBefore(p, r) /\ p \notin alongside[r] => Links(p, r)

----------------------------------------------------------------------------
(***************************************************************************)
(* A claim of the comments that the code does not keep.                    *)
(***************************************************************************)
\* api.go: "The previous row is selected for UPDATE per tenant to serialize
\* writes": verify accepts a log that nobody has tampered with.
ChainVerifies == Verifies
=============================================================================
