------------------------------ MODULE License ------------------------------
(***************************************************************************)
(* The license service: the demerit engine, which turns issued fines into  *)
(* points and points into suspensions, beside the staff who suspend and    *)
(* reinstate by hand.  Each transaction is cut where READ COMMITTED lets   *)
(* others in: after the statement whose snapshot it goes on to use.        *)
(***************************************************************************)
EXTENDS Naturals, FiniteSetsExt

CONSTANTS
  License,
  Fine,            \* fines with a driver attached and points to give
  Engine,          \* demerit engines, one per service replica
  Staff,           \* concurrent lift requests
  Suspension,      \* rows of driver_suspensions
  NoLicense, NoFine, NoSuspension,
  NoEnd,           \* ends_at is NULL
  PointValues,     \* points an offence is worth
  Threshold,       \* driver_demerit_policy.threshold_points
  Window,          \* driver_demerit_policy.window_months
  Term,            \* driver_demerit_policy.suspension_months
  MaxTime,         \* bound: months that pass
  MaxDeliveries    \* bound: times a fine is counted

ASSUME LicenseAssumption ==
  /\ PointValues \subseteq Nat \ {0}
  /\ Threshold \in Nat \ {0} /\ Window \in Nat \ {0} /\ Term \in Nat
  /\ MaxTime \in Nat /\ MaxDeliveries \in Nat
  /\ NoLicense \notin License
  /\ NoFine \notin Fine
  /\ NoSuspension \notin Suspension
  /\ NoEnd \notin Nat

VARIABLES
  now,
  driver,      \* fines.driver_license_id, NoLicense before the fine is issued
  worth,       \* the points of the fine's offence in the country pack
  ledger,      \* driver_demerit_events: rows of a fine by occurred_at
  points,      \* driver_licenses.points
  flag,        \* driver_licenses.is_suspended
  task,        \* the fine an engine's open transaction is about
  began,       \* when that transaction began, its now()
  total,       \* the sum it has read, its own row included
  holder, ends, lifted,  \* driver_suspensions
  auto,        \* the suspensions an engine opened
  asked,       \* the license a lift request names
  lifting,     \* the suspension it names, NoSuspension for an id of no row
  clear,       \* it has seen no other active suspension
  announced,   \* committed rows of event_outbox
  last,        \* history: now() of the last transaction that wrote points
  raced,       \* history: two engines overlapped on the license
  crossed      \* history: a lift overlapped with an opening or another lift

fineVars    == <<driver, worth>>
pointVars   == <<ledger, points, last, raced>>
engineVars  == <<task, began, total>>
suspendVars == <<holder, ends, lifted, auto, flag, crossed>>
liftVars    == <<asked, lifting, clear>>
vars == <<now, fineVars, pointVars, engineVars, suspendVars, liftVars, announced>>

Time == 0..MaxTime

\* The payloads: a reinstatement names a license and a suspension.
Announcement ==
  {"demerit"} \X Fine \cup {"suspended"} \X Suspension
    \cup {"reinstated"} \X (Suspension \cup {NoSuspension}) \X License

TypeOK ==
  /\ now \in Time
  /\ driver \in [Fine -> License \cup {NoLicense}]
  /\ worth \in [Fine -> PointValues \cup {0}]
  /\ ledger \in [Fine -> [Time -> 0..MaxDeliveries]]
  /\ points \in [License -> Nat]
  /\ flag \in [License -> BOOLEAN]
  /\ task \in [Engine -> Fine \cup {NoFine}]
  /\ began \in [Engine -> Time]
  /\ total \in [Engine -> Nat]
  /\ holder \in [Suspension -> License \cup {NoLicense}]
  /\ ends \in [Suspension -> 0..MaxTime + Term + 1 \cup {NoEnd}]
  /\ lifted \in [Suspension -> BOOLEAN]
  /\ auto \subseteq Suspension
  /\ asked \in [Staff -> License \cup {NoLicense}]
  /\ lifting \in [Staff -> Suspension \cup {NoSuspension}]
  /\ clear \in [Staff -> BOOLEAN]
  /\ announced \subseteq Announcement
  /\ last \in [License -> Time]
  /\ raced \in [License -> BOOLEAN] /\ crossed \in [License -> BOOLEAN]

Init ==
  /\ now = 0
  /\ driver = [f \in Fine |-> NoLicense]
  /\ worth = [f \in Fine |-> 0]
  /\ ledger = [f \in Fine |-> [t \in Time |-> 0]]
  /\ points = [l \in License |-> 0]
  /\ flag = [l \in License |-> FALSE]
  /\ task = [e \in Engine |-> NoFine]
  /\ began = [e \in Engine |-> 0]
  /\ total = [e \in Engine |-> 0]
  /\ holder = [s \in Suspension |-> NoLicense]
  /\ ends = [s \in Suspension |-> NoEnd]
  /\ lifted = [s \in Suspension |-> FALSE]
  /\ auto = {}
  /\ asked = [a \in Staff |-> NoLicense]
  /\ lifting = [a \in Staff |-> NoSuspension]
  /\ clear = [a \in Staff |-> FALSE]
  /\ announced = {}
  /\ last = [l \in License |-> 0]
  /\ raced = [l \in License |-> FALSE]
  /\ crossed = [l \in License |-> FALSE]

----------------------------------------------------------------------------
Of(l) == {s \in Suspension : holder[s] = l}

\* Active for the engine and for GET suspensions/active: one without an end
\* is not.
Active(s, t) == ~lifted[s] /\ ends[s] # NoEnd /\ ends[s] > t

\* Active for lift: one without an end is.
InForce(s, t) == ~lifted[s] /\ (ends[s] # NoEnd => ends[s] > t)

LiftsOf(l) == {a \in Staff : asked[a] = l}

(***************************************************************************)
(* The demerit engine, on fine.issued.  A fine without a driver or points  *)
(* changes nothing, and only the others are modelled.                      *)
(***************************************************************************)
\* The fines service issues a fine.
IssueFine(f, l, n) ==
  /\ driver[f] = NoLicense
  /\ driver' = [driver EXCEPT ![f] = l]
  /\ worth' = [worth EXCEPT ![f] = n]
  /\ UNCHANGED <<now, pointVars, engineVars, suspendVars, liftVars, announced>>

Month ==
  /\ now < MaxTime
  /\ now' = now + 1
  /\ UNCHANGED <<fineVars, pointVars, engineVars, suspendVars, liftVars,
                 announced>>

InWindow(x, t) == x + Window > t

\* The committed points of a license in the window before t.
Recent(f, t) == SumFunctionOnSet(ledger[f], {x \in Time : InWindow(x, t)})
Points(l, t) == SumFunctionOnSet([f \in Fine |-> worth[f] * Recent(f, t)],
                                 {f \in Fine : driver[f] = l})

\* The times a fine was counted, or is about to be.
Handled(f) == SumFunctionOnSet(ledger[f], Time)
                + Cardinality({e \in Engine : task[e] = f})

\* Mutant: the sum is read before the row is inserted.
SumFirst(e, f) ==
  /\ task[e] = NoFine
  /\ driver[f] # NoLicense /\ Handled(f) < MaxDeliveries
  /\ task' = [task EXCEPT ![e] = f]
  /\ began' = [began EXCEPT ![e] = now]
  /\ total' = [total EXCEPT ![e] = Points(driver[f], now)]
  /\ UNCHANGED <<now, fineVars, pointVars, suspendVars, liftVars, announced>>

\* The transaction begins, inserts its row and reads the sum: the rows others
\* have committed, and its own.
ApplyFine(e, f) ==
  /\ task[e] = NoFine
  /\ driver[f] # NoLicense /\ Handled(f) < MaxDeliveries
  /\ task' = [task EXCEPT ![e] = f]
  /\ began' = [began EXCEPT ![e] = now]
  /\ total' = [total EXCEPT ![e] = Points(driver[f], now) + worth[f]]
  /\ UNCHANGED <<now, fineVars, pointVars, suspendVars, liftVars, announced>>

EndTask(e) ==
  /\ task' = [task EXCEPT ![e] = NoFine]
  /\ began' = [began EXCEPT ![e] = 0]
  /\ total' = [total EXCEPT ![e] = 0]

\* Mutants: the threshold must be passed; open suspensions are not counted.
SuspendsAbove(e, l) ==
  /\ total[e] > Threshold
  /\ \A s \in Of(l) : ~Active(s, began[e])
SuspendsAgain(e, l) == total[e] >= Threshold

Suspends(e, l) ==
  /\ total[e] >= Threshold
  /\ \A s \in Of(l) : ~Active(s, began[e])

\* Insert a suspension and flag the license.
Open(s, l, end) ==
  /\ holder[s] = NoLicense
  /\ holder' = [holder EXCEPT ![s] = l]
  /\ ends' = [ends EXCEPT ![s] = end]
  /\ flag' = [flag EXCEPT ![l] = TRUE]
  /\ crossed' = [crossed EXCEPT ![l] = @ \/ LiftsOf(l) # {}]
  /\ UNCHANGED lifted

\* Mutant: months counted as days of thirty.
SuspEndDays == now + 30 * Term

SuspEnd == now + Term

\* The events of a fine that suspends.
Crossing(f, s) == {<<"demerit", f>>, <<"suspended", s>>}

\* From the update of the points, which takes the license's row lock, to the
\* commit: the suspensions are counted under the lock, the sum was read before.
ApplyCommit(e) ==
  LET f == task[e]
      l == driver[f]
  IN  /\ f # NoFine
      /\ ledger' = [ledger EXCEPT ![f][began[e]] = @ + 1]
      /\ points' = [points EXCEPT ![l] = total[e]]
      /\ last' = [last EXCEPT ![l] = began[e]]
      /\ raced' = [raced EXCEPT ![l] = @ \/ \E d \in Engine \ {e} :
                                 task[d] # NoFine /\ driver[task[d]] = l]
      /\ \/ /\ ~Suspends(e, l)
            /\ announced' = announced \cup {<<"demerit", f>>}
            /\ UNCHANGED suspendVars
         \/ \E s \in Suspension :
              /\ Suspends(e, l)
              /\ Open(s, l, SuspEnd)
              /\ auto' = auto \cup {s}
              /\ announced' = announced \cup Crossing(f, s)
      /\ EndTask(e)
      /\ UNCHANGED <<now, fineVars, liftVars>>

\* A statement fails or the engine stops: the bus logs an error and goes on.
ApplyFails(e) ==
  /\ task[e] # NoFine
  /\ EndTask(e)
  /\ UNCHANGED <<now, fineVars, pointVars, suspendVars, liftVars, announced>>

(***************************************************************************)
(* Suspensions by hand.                                                    *)
(***************************************************************************)
\* addSuspension, with whatever end is asked for, a past one included.
AddSuspension(s, l, end) ==
  /\ Open(s, l, end)
  /\ announced' = announced \cup {<<"suspended", s>>}
  /\ UNCHANGED <<now, fineVars, pointVars, engineVars, liftVars, auto>>

\* The row that a lift of suspension s of license l marks: none if the id is
\* of no row, or of another license's.
Marks(s, l) == {o \in Of(l) : o = s}

\* liftSuspension marks its row, if there is one, which locks it unless it was
\* lifted before, and the second statement's snapshot is taken.
LiftRead(a, s, l) ==
  /\ asked[a] = NoLicense
  /\ s # NoSuspension => holder[s] # NoLicense
  /\ \A o \in Marks(s, l) :
       ~lifted[o] => \A b \in Staff : o \notin Marks(lifting[b], asked[b])
  /\ asked' = [asked EXCEPT ![a] = l]
  /\ lifting' = [lifting EXCEPT ![a] = s]
  /\ clear' = [clear EXCEPT ![a] = \A o \in Of(l) \ {s} : ~InForce(o, now)]
  /\ UNCHANGED <<now, fineVars, pointVars, engineVars, suspendVars, announced>>

EndLift(a) ==
  /\ asked' = [asked EXCEPT ![a] = NoLicense]
  /\ lifting' = [lifting EXCEPT ![a] = NoSuspension]
  /\ clear' = [clear EXCEPT ![a] = FALSE]

\* The license's row is updated once its lock is free, and is still selected
\* then by the old snapshot of driver_suspensions.
Clear(a, l) == flag' = [flag EXCEPT ![l] = @ /\ ~clear[a]]

\* How many rows were marked is not asked: the flag is computed anew and the
\* event is written for any id.
LiftCommit(a) ==
  LET s == lifting[a]
      l == asked[a]
  IN  /\ l # NoLicense
      /\ lifted' = [o \in Suspension |-> lifted[o] \/ o \in Marks(s, l)]
      /\ Clear(a, l)
      /\ crossed' = [crossed EXCEPT ![l] = @ \/ LiftsOf(l) # {a}]
      /\ announced' = announced \cup {<<"reinstated", s, l>>}
      /\ EndLift(a)
      /\ UNCHANGED <<now, fineVars, pointVars, engineVars, holder, ends, auto>>

LiftRollback(a) ==
  /\ asked[a] # NoLicense
  /\ EndLift(a)
  /\ UNCHANGED <<now, fineVars, pointVars, engineVars, suspendVars, announced>>

----------------------------------------------------------------------------

Next ==
  \/ Month
  \/ \E f \in Fine, l \in License, n \in PointValues : IssueFine(f, l, n)
  \/ \E e \in Engine :
       ApplyCommit(e) \/ ApplyFails(e) \/ \E f \in Fine : ApplyFine(e, f)
  \/ \E s \in Suspension, l \in License, end \in {now, now + 1, NoEnd} :
       AddSuspension(s, l, end)
  \/ \E a \in Staff :
       \/ LiftCommit(a) \/ LiftRollback(a)
       \/ \E s \in Suspension \cup {NoSuspension}, l \in License : LiftRead(a, s, l)

Spec == Init /\ [][Next]_vars

----------------------------------------------------------------------------
(***************************************************************************)
(* Properties.                                                             *)
(***************************************************************************)
\* The points a license shows are the sum of its ledger over the window of
\* the last fine, if no two engines worked on it at once: a redelivered fine
\* counts again, and a failed transaction not at all, in both of them.
PointsAreTheLedger == \A l \in License :
  ~raced[l] => points[l] = Points(l, last[l])

\* Whatever raced, a license that shows the threshold has been suspended.
OverThresholdIsSuspended == \A l \in License :
  points[l] >= Threshold => \E s \in Of(l) : ends[s] # NoEnd

\* The suspension "remains singleton": engines that work on one license at
\* once, and clocks that move while they do, never open a second one beside an
\* active one.
OneDemeritSuspension == \A s, o \in auto :
  s # o /\ holder[s] = holder[o] => ~Active(s, now) \/ ~Active(o, now)

\* The cached flag follows the suspensions unless a lift overlapped with an
\* opening or another lift: an active suspension shows, and a license shows
\* suspended only while one of its suspensions has not been lifted.
FlagFollowsSuspensions == \A l \in License : ~crossed[l] =>
  /\ (\E s \in Of(l) : InForce(s, now)) => flag[l]
  /\ flag[l] => \E s \in Of(l) : ~lifted[s]

\* The outbox says of every suspension that it was opened, and of no other,
\* engines that fail in between included.  An event that pairs a suspension
\* with its license says that it was lifted: none is missing and none comes
\* before its row.  An event of any other pair is one of a lift that marked no
\* row, and says nothing.
SuspensionsAreAnnounced == \A s \in Suspension :
  /\ <<"suspended", s>> \in announced <=> holder[s] # NoLicense
  /\ lifted[s] <=> <<"reinstated", s, holder[s]>> \in announced

\* Suspensions, the license's flag and the outbox agree: whatever engines,
\* hand-made suspensions and lifts overlap, the automatic one is alone, the
\* flag is up for what is in force, and each is announced with its row; lifts
\* that mark no row disturb none of it.
SuspensionsAgree ==
  OneDemeritSuspension /\ FlagFollowsSuspensions /\ SuspensionsAreAnnounced
=============================================================================
