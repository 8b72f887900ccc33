--------------------------- MODULE Notifications ---------------------------
(***************************************************************************)
(* The notifications service.  Its replicas drain event_outbox behind an   *)
(* offset of their own: a tick reads the offset, then a batch above it,    *)
(* handles every event in a transaction of its own (resolve, insert, send, *)
(* mark) and saves the offset last.  Admins send messages besides.         *)
(*                                                                         *)
(* An event's number is its event_outbox.id; rows appear when their        *)
(* transactions commit, in any order.                                      *)
(***************************************************************************)
EXTENDS Naturals, FiniteSets

CONSTANTS
  MaxEvent,   \* the events are 1..MaxEvent
  KindOf,     \* what an event's renderer resolves its recipient by
  PartyOf,    \* the license's holder or the buyer, where the kind has one
  Party,      \* owners of the vehicle and holders of licenses
  Reachable,  \* those with an e-mail address or a phone on file
  Nobody,
  Replica,
  BatchLimit,
  Message,    \* POST /v1/notify requests
  MaxFaults   \* bound: ticks that stop half-way or cannot save the offset

Event == 1..MaxEvent
Kind  == {"vehicle", "license", "transfer",
          "other",      \* no renderer for the type
          "malformed"}  \* an envelope or payload that does not decode

ASSUME NotificationsAssumption ==
  /\ MaxEvent \in Nat /\ MaxFaults \in Nat
  /\ BatchLimit \in Nat \ {0}
  /\ KindOf \in [Event -> Kind]
  /\ PartyOf \in [Event -> Party]
  /\ Reachable \subseteq Party
  /\ Nobody \notin Party

VARIABLES
  committed, overtaken, \* the rows there are; history: those that appeared
                        \* below a row that was there before
  owner,                \* who owns the vehicle
  offset,               \* event_consumer_offsets.last_event_id
  tick,                 \* what every replica is doing
  sent, failed,         \* notification_records, per event and recipient
  suppressed,           \* the events with a 'suppressed' record
  accepted,             \* messages the provider took
  torn,                 \* history: events whose message was taken and not recorded
  dropped,              \* history: events whose transaction was rolled back
  message,              \* ad-hoc messages
  faults

world   == <<committed, overtaken, owner>>
records == <<sent, failed, suppressed, accepted, torn, dropped>>
notificationsVars == <<world, offset, tick, records, message, faults>>

Counts == [Event -> [Party -> Nat]]
Ticks ==
  [step : {"rest", "read", "next", "send", "commit"},
   last : 0..MaxEvent, batch : SUBSET Event, highest : 0..MaxEvent,
   at : 0..MaxEvent, to : Party \cup {Nobody},
   status : {"pending", "suppressed", "sent", "failed"}, taken : BOOLEAN]
Messages ==
  [row : {"none", "pending", "sent", "failed"},
   step : {"new", "send", "update", "over"},
   outcome : {"pending", "sent", "failed"}, taken : BOOLEAN]

NotificationsTypeOK ==
  /\ committed \subseteq Event /\ overtaken \subseteq committed
  /\ owner \in Party
  /\ offset \in 0..MaxEvent
  /\ tick \in [Replica -> Ticks]
  /\ sent \in Counts /\ failed \in Counts /\ accepted \in Counts
  /\ suppressed \subseteq Event /\ torn \subseteq Event /\ dropped \subseteq Event
  /\ message \in [Message -> Messages]
  /\ faults \in 0..MaxFaults

Rest == [step |-> "rest", last |-> 0, batch |-> {}, highest |-> 0, at |-> 0,
         to |-> Nobody, status |-> "pending", taken |-> FALSE]
None == [e \in Event |-> [p \in Party |-> 0]]

NotificationsInit ==
  /\ committed = {} /\ overtaken = {}
  /\ owner \in Party
  /\ offset = 0
  /\ tick = [r \in Replica |-> Rest]
  /\ sent = None /\ failed = None /\ accepted = None
  /\ suppressed = {} /\ torn = {} /\ dropped = {}
  /\ message = [m \in Message |->
       [row |-> "none", step |-> "new", outcome |-> "pending", taken |-> FALSE]]
  /\ faults = 0

----------------------------------------------------------------------------
(***************************************************************************)
(* The world around: events appear, the vehicle changes hands.             *)
(***************************************************************************)
Appear(e) ==
  /\ e \notin committed
  /\ committed' = committed \cup {e}
  /\ overtaken' = IF \E f \in committed : f > e THEN overtaken \cup {e} ELSE overtaken
  /\ UNCHANGED <<owner, offset, tick, records, message, faults>>

Transfer(p) ==
  /\ owner # p
  /\ owner' = p
  /\ UNCHANGED <<committed, overtaken, offset, tick, records, message, faults>>

----------------------------------------------------------------------------
(***************************************************************************)
(* The tick.                                                               *)
(***************************************************************************)
ReadOffset(r) ==
  /\ tick[r].step = "rest"
  /\ tick' = [tick EXCEPT ![r].step = "read", ![r].last = offset]
  /\ UNCHANGED <<world, offset, records, message, faults>>

\* The BatchLimit lowest of a set of ids.
Lowest(E) == {e \in E : Cardinality({f \in E : f < e}) < BatchLimit}
Highest(E) == CHOOSE e \in E : \A f \in E : f <= e

\* Mutant: the row at the offset is read again.
ReadBatchAgain(r) ==
  /\ tick[r].step = "read"
  /\ LET B == Lowest({e \in committed : e >= tick[r].last})
     IN  tick' = [tick EXCEPT ![r] =
           IF B = {} THEN Rest
           ELSE [@ EXCEPT !.step = "next", !.batch = B, !.highest = Highest(B)]]
  /\ UNCHANGED <<world, offset, records, message, faults>>

\* No row above the offset: the tick is over.
ReadBatch(r) ==
  /\ tick[r].step = "read"
  /\ LET B == Lowest({e \in committed : e > tick[r].last})
     IN  tick' = [tick EXCEPT ![r] =
           IF B = {} THEN Rest
           ELSE [@ EXCEPT !.step = "next", !.batch = B, !.highest = Highest(B)]]
  /\ UNCHANGED <<world, offset, records, message, faults>>

IsNext(r, e) ==
  /\ tick[r].step = "next" /\ e \in tick[r].batch
  /\ \A f \in tick[r].batch : e <= f

NextEvent(t) == [t EXCEPT !.step = "next", !.at = 0, !.to = Nobody,
                          !.status = "pending", !.taken = FALSE]

\* No renderer, or nothing to render: the event leaves no trace.
Ignore(r, e) ==
  /\ IsNext(r, e)
  /\ KindOf[e] \in {"other", "malformed"}
  /\ tick' = [tick EXCEPT ![r].batch = @ \ {e}]
  /\ UNCHANGED <<world, offset, records, message, faults>>

Contact(p) == IF p \in Reachable THEN p ELSE Nobody

\* Today's owner, whoever it was when the event was written.
ResolveByVehicle == Contact(owner)

\* The holder the license row names.
ResolveByLicense(e) == Contact(PartyOf[e])

\* The buyer the event's payload names.
ResolveBuyer(e) == Contact(PartyOf[e])

Recipient(e) ==
  IF KindOf[e] = "vehicle" THEN ResolveByVehicle
  ELSE IF KindOf[e] = "license" THEN ResolveByLicense(e)
  ELSE ResolveBuyer(e)

\* The tick as it goes on with the record for p.
Resolved(t, e, p) == [t EXCEPT
  !.batch = @ \ {e}, !.at = e, !.to = p,
  !.step = IF p = Nobody THEN "commit" ELSE "send",
  !.status = IF p = Nobody THEN "suppressed" ELSE "pending"]

\* Opens the event's transaction, resolves, and inserts the record, 'pending'
\* or 'suppressed', which nobody sees before the commit.
Resolve(r, e) ==
  /\ IsNext(r, e)
  /\ KindOf[e] \notin {"other", "malformed"}
  /\ tick' = [tick EXCEPT ![r] = Resolved(@, e, Recipient(e))]
  /\ UNCHANGED <<world, offset, records, message, faults>>

More(count, e, p) == [count EXCEPT ![e][p] = @ + 1]

\* Mutant: a refused message is recorded as sent.
SendOptimistic(r, taken, told) ==
  /\ tick[r].step = "send"
  /\ told => taken
  /\ tick' = [tick EXCEPT ![r].step = "commit", ![r].taken = taken,
                          ![r].status = "sent"]
  /\ accepted' = IF taken THEN More(accepted, tick[r].at, tick[r].to) ELSE accepted
  /\ torn' = IF taken /\ ~told THEN torn \cup {tick[r].at} ELSE torn
  /\ UNCHANGED <<world, offset, sent, failed, suppressed, dropped, message, faults>>

\* The provider takes the message or not; its yes may get lost on the way.
\* Either way the record is marked, still inside the transaction.
Send(r, taken, told) ==
  /\ tick[r].step = "send"
  /\ told => taken
  /\ tick' = [tick EXCEPT ![r].step = "commit", ![r].taken = taken,
                          ![r].status = IF told THEN "sent" ELSE "failed"]
  /\ accepted' = IF taken THEN More(accepted, tick[r].at, tick[r].to) ELSE accepted
  /\ torn' = IF taken /\ ~told THEN torn \cup {tick[r].at} ELSE torn
  /\ UNCHANGED <<world, offset, sent, failed, suppressed, dropped, message, faults>>

Commit(r) ==
  LET t == tick[r]
  IN  /\ t.step = "commit"
      /\ sent' = IF t.status = "sent" THEN More(sent, t.at, t.to) ELSE sent
      /\ failed' = IF t.status = "failed" THEN More(failed, t.at, t.to) ELSE failed
      /\ suppressed' = IF t.status = "suppressed" THEN suppressed \cup {t.at}
                                                  ELSE suppressed
      /\ tick' = [tick EXCEPT ![r] = NextEvent(@)]
      /\ UNCHANGED <<world, offset, accepted, torn, dropped, message, faults>>

Torn(t) == IF t.taken THEN torn \cup {t.at} ELSE torn

\* Mutant: the first event that fails ends the tick.
RollbackAborts(r) ==
  LET t == tick[r]
  IN  /\ t.step \in {"send", "commit"}
      /\ dropped' = dropped \cup {t.at}
      /\ torn' = Torn(t)
      /\ tick' = [tick EXCEPT ![r] = Rest]
      /\ UNCHANGED <<world, offset, sent, failed, suppressed, accepted, message, faults>>

\* A statement of the event's transaction fails: it is rolled back and the
\* tick goes on with the next event.
Rollback(r) ==
  LET t == tick[r]
  IN  /\ t.step \in {"send", "commit"}
      /\ dropped' = dropped \cup {t.at}
      /\ torn' = Torn(t)
      /\ tick' = [tick EXCEPT ![r] = NextEvent(@)]
      /\ UNCHANGED <<world, offset, sent, failed, suppressed, accepted, message, faults>>

\* Mutant: the offset is saved before the batch is handled.
AdvanceEarly(r) ==
  /\ tick[r].step = "next"
  /\ offset' = tick[r].highest
  /\ tick' = IF tick[r].batch = {} THEN [tick EXCEPT ![r] = Rest] ELSE tick
  /\ UNCHANGED <<world, records, message, faults>>

\* Mutant: the offset is the next id expected.
AdvanceTooFar(r) ==
  /\ tick[r].step = "next" /\ tick[r].batch = {}
  /\ offset' = tick[r].highest + 1
  /\ tick' = [tick EXCEPT ![r] = Rest]
  /\ UNCHANGED <<world, records, message, faults>>

\* The batch is done: its highest id becomes the offset, whatever it is now.
Advance(r) ==
  /\ tick[r].step = "next" /\ tick[r].batch = {}
  /\ offset' = tick[r].highest
  /\ tick' = [tick EXCEPT ![r] = Rest]
  /\ UNCHANGED <<world, records, message, faults>>

\* The process stops, or the statement that saves the offset fails.
TickEnds(r) ==
  /\ tick[r].step # "rest"
  /\ faults < MaxFaults
  /\ faults' = faults + 1
  /\ torn' = Torn(tick[r])
  /\ tick' = [tick EXCEPT ![r] = Rest]
  /\ UNCHANGED <<world, offset, sent, failed, suppressed, accepted, dropped, message>>

----------------------------------------------------------------------------
(***************************************************************************)
(* POST /v1/notify: three statements, the last one's error ignored.        *)
(***************************************************************************)
NotifyInsert(m) ==
  /\ message[m].step = "new"
  /\ message' = [message EXCEPT ![m].step = "send", ![m].row = "pending"]
  /\ UNCHANGED <<world, offset, tick, records, faults>>

NotifySend(m, taken, told) ==
  /\ message[m].step = "send"
  /\ told => taken
  /\ message' = [message EXCEPT ![m].step = "update", ![m].taken = taken,
                                ![m].outcome = IF told THEN "sent" ELSE "failed"]
  /\ UNCHANGED <<world, offset, tick, records, faults>>

NotifyUpdate(m) ==
  /\ message[m].step = "update"
  /\ message' = [message EXCEPT ![m].step = "over", ![m].row = message[m].outcome,
                                ![m].outcome = "pending"]
  /\ UNCHANGED <<world, offset, tick, records, faults>>

\* The update fails, or the request is over before it.
NotifyLost(m) ==
  /\ message[m].step \in {"send", "update"}
  /\ message' = [message EXCEPT ![m].step = "over", ![m].outcome = "pending"]
  /\ UNCHANGED <<world, offset, tick, records, faults>>

----------------------------------------------------------------------------
TickStep(r) ==
  \/ ReadOffset(r)
  \/ ReadBatch(r)
  \/ \E e \in Event : Ignore(r, e) \/ Resolve(r, e)
  \/ \E taken, told \in BOOLEAN : Send(r, taken, told)
  \/ Commit(r)
  \/ Rollback(r)
  \/ Advance(r)

Notify(m) ==
  \/ NotifyInsert(m)
  \/ \E taken, told \in BOOLEAN : NotifySend(m, taken, told)
  \/ NotifyUpdate(m)
  \/ NotifyLost(m)

NotificationsNext ==
  \/ \E e \in Event : Appear(e)
  \/ \E p \in Party : Transfer(p)
  \/ \E r \in Replica : TickStep(r) \/ TickEnds(r)
  \/ \E m \in Message : Notify(m)

NotificationsSpec == NotificationsInit /\ [][NotificationsNext]_notificationsVars

\* The ticker fires, and what a tick waits for returns or fails.
NotificationsFairSpec == NotificationsSpec /\ \A r \in Replica : WF_notificationsVars(TickStep(r))

----------------------------------------------------------------------------
(***************************************************************************)
(* Properties.                                                             *)
(***************************************************************************)
\* What /v1/citizens/me/notifications shows to p: 'sent' records only.
Inbox(p) == {e \in Event : sent[e][p] > 0}

\* Marked 'sent' in a transaction that is still open.
Marked(e, p) == {r \in Replica :
  tick[r].step = "commit" /\ tick[r].status = "sent" /\ tick[r].at = e /\ tick[r].to = p}

\* The records tell what the provider did: nobody is shown a message it never
\* took, and a message it took has its 'sent' record or is about to, unless
\* its answer, its transaction or its process was lost (handleEvent sends
\* inside the transaction that makes the record; notify around it).
RecordsAgree ==
  /\ \A e \in Event, p \in Party :
       LET written == sent[e][p] + Cardinality(Marked(e, p))
       IN  /\ written <= accepted[e][p]
           /\ e \notin torn => written = accepted[e][p]
           /\ e \in Inbox(p) => accepted[e][p] > 0
  /\ \A m \in Message : message[m].row = "sent" => message[m].taken

Recorded(e) == e \in suppressed \/ \E p \in Party : sent[e][p] + failed[e][p] > 0

\* An event somebody should hear of that the offset has passed has a record,
\* or its transaction was rolled back (and nothing tries again), or its row
\* appeared below one that was there before: whichever replica moved the
\* offset had finished with it, whatever the others are still doing.
PassedIsAccounted == \A e \in committed :
  e <= offset /\ KindOf[e] \notin {"other", "malformed"}
    => Recorded(e) \/ e \in dropped \/ e \in overtaken

\* Behind the offset and behind the start of every tick in progress.
Past(e) == /\ e <= offset
           /\ \A r \in Replica : tick[r].step # "rest" => e <= tick[r].last

\* The offset of two replicas may move back, but never below what both of
\* them started from: an event that is past is never told of again.
PastIsPast == [][\A e \in Event : Past(e) =>
  Past(e)' /\ accepted'[e] = accepted[e] /\ sent'[e] = sent[e]]_notificationsVars

\* Every event is passed in the end, in spite of events before it that fail
\* each time and of ticks that are cut short.
EventIsPassed == \A e \in Event : e \in committed ~> e <= offset

=============================================================================
