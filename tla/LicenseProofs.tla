--------------------------- MODULE LicenseProofs ---------------------------
(***************************************************************************)
(* Theorems about License, for every number of licenses, fines, engines,   *)
(* lift requests and suspensions, and about Notifications, for every       *)
(* number of events, replicas and messages and every batch size.           *)
(***************************************************************************)
EXTENDS License, Notifications, FiniteSetTheorems, WellFoundedInduction, TLAPS

\* The types of what the proofs are about: the sums stay opaque.
TypeInv ==
  /\ now \in Nat
  /\ driver \in [Fine -> License \cup {NoLicense}]
  /\ DOMAIN points = License
  /\ flag \in [License -> BOOLEAN]
  /\ task \in [Engine -> Fine \cup {NoFine}]
  /\ began \in [Engine -> Nat]
  /\ holder \in [Suspension -> License \cup {NoLicense}]
  /\ ends \in [Suspension -> Nat \cup {NoEnd}]
  /\ lifted \in [Suspension -> BOOLEAN]
  /\ auto \subseteq Suspension
  /\ asked \in [Staff -> License \cup {NoLicense}]
  /\ lifting \in [Staff -> Suspension \cup {NoSuspension}]
  /\ clear \in [Staff -> BOOLEAN]
  /\ crossed \in [License -> BOOLEAN]

\* A transaction is about a fine with a driver, and its now() is not ahead.
TasksBegan == \A e \in Engine : task[e] # NoFine =>
  driver[task[e]] \in License /\ began[e] <= now

\* What the engine opened has an end; what is lifted, or is being, was opened.
RowsOpened ==
  /\ \A s \in auto : holder[s] # NoLicense /\ ends[s] # NoEnd
  /\ \A s \in Suspension : lifted[s] => holder[s] # NoLicense
  /\ \A a \in Staff : lifting[a] # NoSuspension => holder[lifting[a]] # NoLicense

\* A lift that nothing overlapped with knows the other suspensions, if it marks
\* one of the license's, and all of them if it marks none.
LiftKnows == \A a \in Staff, l \in License :
  asked[a] = l /\ ~crossed[l] =>
    IF clear[a]
    THEN \A o \in Suspension \ {lifting[a]} : holder[o] = l => ~InForce(o, now)
    ELSE \E o \in Suspension \ {lifting[a]} : holder[o] = l /\ ~lifted[o]

Basics == TypeInv /\ TasksBegan /\ RowsOpened

----------------------------------------------------------------------------
\* A step of Next is one of these; the rest of the proofs go through them.
LEMMA Steps ==
  ASSUME Next
  PROVE  \/ Month
         \/ \E f \in Fine, l \in License, n \in PointValues : IssueFine(f, l, n)
         \/ \E e \in Engine : ApplyCommit(e)
         \/ \E e \in Engine : ApplyFails(e)
         \/ \E e \in Engine, f \in Fine : ApplyFine(e, f)
         \/ \E s \in Suspension, l \in License, end \in {now, now + 1, NoEnd} :
              AddSuspension(s, l, end)
         \/ \E a \in Staff : LiftCommit(a)
         \/ \E a \in Staff : LiftRollback(a)
         \/ \E a \in Staff, s \in Suspension \cup {NoSuspension}, l \in License :
              LiftRead(a, s, l)
  BY DEF Next

\* The tables and requests keep their types, and rows their references.
LEMMA BasicsHold == Spec => []Basics
<1> USE LicenseAssumption DEF Basics
<1>1. Init => Basics
  BY DEF Init, TypeInv, TasksBegan, RowsOpened
<1>2. ASSUME Basics, [Next]_vars
      PROVE  Basics'
  <2> USE <1>2 DEF TypeInv, TasksBegan, RowsOpened
  <2>1. CASE Month
    BY <2>1 DEF Month, fineVars, pointVars, engineVars, suspendVars, liftVars, Time
  <2>2. ASSUME NEW f \in Fine, NEW l \in License, NEW n \in PointValues,
               IssueFine(f, l, n)
        PROVE  Basics'
    BY <2>2 DEF IssueFine, pointVars, engineVars, suspendVars, liftVars
  <2>3. ASSUME NEW e \in Engine, ApplyCommit(e)
        PROVE  Basics'
    <3>1. /\ task[e] \in Fine /\ driver[task[e]] \in License
          /\ began[e] \in Nat /\ now + Term \in Nat
      BY <2>3 DEF ApplyCommit
    <3>2. /\ now' = now /\ driver' = driver
          /\ asked' = asked /\ lifting' = lifting /\ clear' = clear
          /\ DOMAIN points' = License
      BY <2>3 DEF ApplyCommit, fineVars, liftVars
    <3>3. /\ task' \in [Engine -> Fine \cup {NoFine}]
          /\ began' \in [Engine -> Nat]
          /\ TasksBegan'
      BY <2>3, <3>2 DEF ApplyCommit, EndTask
    <3>4. CASE UNCHANGED suspendVars
      BY <3>2, <3>3, <3>4 DEF suspendVars
    <3>5. ASSUME NEW s \in Suspension, Open(s, driver[task[e]], SuspEnd),
                 auto' = auto \cup {s}
          PROVE  Basics'
      BY <3>1, <3>2, <3>3, <3>5 DEF Open, SuspEnd
    <3> QED
      BY <2>3, <3>4, <3>5 DEF ApplyCommit
  <2>4. ASSUME NEW e \in Engine, ApplyFails(e)
        PROVE  Basics'
    BY <2>4 DEF ApplyFails, EndTask, fineVars, pointVars, suspendVars, liftVars
  <2>5. ASSUME NEW e \in Engine, NEW f \in Fine, ApplyFine(e, f)
        PROVE  Basics'
    BY <2>5 DEF ApplyFine, fineVars, pointVars, suspendVars, liftVars
  <2>6. ASSUME NEW s \in Suspension, NEW l \in License,
               NEW end \in {now, now + 1, NoEnd}, AddSuspension(s, l, end)
        PROVE  Basics'
    BY <2>6 DEF AddSuspension, Open, fineVars, pointVars, engineVars, liftVars
  <2>7. ASSUME NEW a \in Staff, LiftCommit(a)
        PROVE  Basics'
    BY <2>7 DEF LiftCommit, Marks, Of, Clear, EndLift, fineVars, pointVars, engineVars
  <2>8. ASSUME NEW a \in Staff, LiftRollback(a)
        PROVE  Basics'
    BY <2>8 DEF LiftRollback, EndLift, fineVars, pointVars, engineVars, suspendVars
  <2>9. ASSUME NEW a \in Staff, NEW s \in Suspension \cup {NoSuspension},
               NEW l \in License, LiftRead(a, s, l)
        PROVE  Basics'
    BY <2>9 DEF LiftRead, fineVars, pointVars, engineVars, suspendVars
  <2>10. CASE UNCHANGED vars
    BY <2>10 DEF vars, fineVars, pointVars, engineVars, suspendVars, liftVars
  <2> QED
    BY <2>1, <2>2, <2>3, <2>4, <2>5, <2>6, <2>7, <2>8, <2>9, <2>10, Steps
<1> QED
  BY <1>1, <1>2, PTL DEF Spec

----------------------------------------------------------------------------
\* A row of driver_suspensions keeps its license and its end, in every step.
LEMMA RowsAreKept ==
  ASSUME TypeInv, [Next]_vars, NEW s \in Suspension, holder[s] # NoLicense
  PROVE  holder'[s] = holder[s] /\ ends'[s] = ends[s]
<1>1. ASSUME NEW o \in Suspension, NEW l, NEW end, Open(o, l, end)
      PROVE  holder'[s] = holder[s] /\ ends'[s] = ends[s]
  BY <1>1 DEF Open, TypeInv
<1>2. CASE holder' = holder /\ ends' = ends
  BY <1>2
<1>3. CASE \E e \in Engine : ApplyCommit(e)
  BY <1>1, <1>2, <1>3 DEF ApplyCommit, suspendVars
<1>4. CASE \E o \in Suspension, l \in License, end \in {now, now + 1, NoEnd} :
             AddSuspension(o, l, end)
  BY <1>1, <1>4 DEF AddSuspension
<1>5. CASE \E a \in Staff : LiftCommit(a)
  BY <1>2, <1>5 DEF LiftCommit
<1> QED
  BY <1>2, <1>3, <1>4, <1>5, Steps DEF Month, IssueFine, ApplyFails, ApplyFine,
     LiftRollback, LiftRead, suspendVars, vars

(***************************************************************************)
(* The engine.                                                             *)
(***************************************************************************)
\* At most one suspension opened by the engine is active on a license, however
\* many engines work on it: the open ones are counted under the row lock, and
\* one that had ended when the transaction began has ended now.
THEOREM OneDemeritSuspensionHolds == Spec => []OneDemeritSuspension
<1> USE LicenseAssumption
<1>1. Init => OneDemeritSuspension
  BY DEF Init, OneDemeritSuspension
<1>2. ASSUME Basics, Basics', OneDemeritSuspension, [Next]_vars
      PROVE  OneDemeritSuspension'
  <2> USE <1>2 DEF Basics, TypeInv, TasksBegan, RowsOpened, OneDemeritSuspension, Active
  <2>1. CASE Month
    BY <2>1 DEF Month, suspendVars
  <2>2. ASSUME NEW e \in Engine, ApplyCommit(e)
        PROVE  OneDemeritSuspension'
    <3>1. now' = now /\ task[e] \in Fine
      BY <2>2 DEF ApplyCommit
    <3>2. CASE UNCHANGED suspendVars
      BY <3>1, <3>2 DEF suspendVars
    <3>3. ASSUME NEW s \in Suspension, Suspends(e, driver[task[e]]),
                 Open(s, driver[task[e]], SuspEnd), auto' = auto \cup {s}
          PROVE  OneDemeritSuspension'
      <4>1. ASSUME NEW o \in auto, holder[o] = driver[task[e]]
            PROVE  ~Active(o, now)
        BY <2>2, <3>1, <3>3, <4>1 DEF Suspends, Of
      <4>2. ASSUME NEW o \in auto
            PROVE  /\ o # s /\ holder'[o] = holder[o]
                   /\ ends'[o] = ends[o] /\ lifted'[o] = lifted[o]
        BY <3>3, <4>2 DEF Open
      <4>3. holder'[s] = driver[task[e]]
        BY <3>3 DEF Open
      <4> QED
        BY <3>1, <3>3, <4>1, <4>2, <4>3
    <3> QED
      BY <2>2, <3>2, <3>3 DEF ApplyCommit
  <2>3. ASSUME NEW s \in Suspension, NEW l \in License,
               NEW end \in {now, now + 1, NoEnd}, AddSuspension(s, l, end)
        PROVE  OneDemeritSuspension'
    BY <2>3 DEF AddSuspension, Open
  <2>4. ASSUME NEW a \in Staff, LiftCommit(a)
        PROVE  OneDemeritSuspension'
    BY <2>4 DEF LiftCommit, Marks, Of
  <2>5. CASE UNCHANGED <<now, holder, ends, lifted, auto>>
    BY <2>5
  <2> QED
    BY <2>1, <2>2, <2>3, <2>4, <2>5, Steps
       DEF IssueFine, ApplyFails, ApplyFine, LiftRollback, LiftRead, suspendVars, vars
<1> QED
  BY <1>1, <1>2, BasicsHold, PTL DEF Spec

\* A license that shows the threshold has been suspended: no write of points,
\* however stale, gets past the count of suspensions.
THEOREM OverThresholdCorrect == Spec => []OverThresholdIsSuspended
<1> USE LicenseAssumption
<1>1. Init => OverThresholdIsSuspended
  BY DEF Init, OverThresholdIsSuspended
<1>2. ASSUME Basics, OverThresholdIsSuspended, [Next]_vars
      PROVE  OverThresholdIsSuspended'
  <2> USE <1>2 DEF Basics, TypeInv, TasksBegan, RowsOpened,
                   OverThresholdIsSuspended, Of
  \* Suspensions keep their license and their end.
  <2>1. ASSUME NEW l \in License, \E s \in Of(l) : ends[s] # NoEnd
        PROVE  \E s \in Of(l)' : ends'[s] # NoEnd
    <3>1. PICK s \in Suspension : holder[s] = l /\ ends[s] # NoEnd
      BY <2>1
    <3>2. holder'[s] = l /\ ends'[s] # NoEnd
      BY <3>1, RowsAreKept
    <3> QED
      BY <3>2
  <2>2. CASE \E e \in Engine : ApplyCommit(e)
    <3>1. PICK e \in Engine : ApplyCommit(e)
      BY <2>2
    <3>2. PICK l \in License : l = driver[task[e]]
      BY <3>1 DEF ApplyCommit
    <3>3. ASSUME NEW k \in License, k # l, points'[k] >= Threshold
          PROVE  \E s \in Of(k)' : ends'[s] # NoEnd
      BY <2>1, <3>1, <3>2, <3>3 DEF ApplyCommit
    <3>4. ASSUME points'[l] >= Threshold
          PROVE  \E s \in Of(l)' : ends'[s] # NoEnd
      <4>1. total[e] >= Threshold
        BY <3>1, <3>2, <3>4 DEF ApplyCommit
      <4>2. CASE ~Suspends(e, l)
        BY <2>1, <4>1, <4>2 DEF Suspends, Active
      <4>3. CASE Suspends(e, l)
        <5>1. PICK s \in Suspension : Open(s, l, SuspEnd)
          BY <3>1, <3>2, <4>3 DEF ApplyCommit
        <5>2. holder'[s] = l /\ ends'[s] # NoEnd
          BY <5>1 DEF Open, SuspEnd
        <5> QED
          BY <5>2
      <4> QED
        BY <4>2, <4>3
    <3> QED
      BY <3>3, <3>4
  <2>3. CASE points' = points
    BY <2>1, <2>3
  <2> QED
    BY <2>2, <2>3, Steps DEF Month, IssueFine, ApplyFails, ApplyFine,
       AddSuspension, LiftCommit, LiftRollback, LiftRead, pointVars, vars
<1> QED
  BY <1>1, <1>2, BasicsHold, PTL DEF Spec

----------------------------------------------------------------------------
(***************************************************************************)
(* The flag.                                                               *)
(***************************************************************************)
FlagInv == FlagFollowsSuspensions /\ LiftKnows

\* An opening raises the flag, and spoils what lifts under way have seen.
LEMMA OpenKeepsFlag ==
  ASSUME Basics, FlagInv, NEW s \in Suspension, NEW l \in License, NEW end,
         Open(s, l, end), UNCHANGED <<now, asked, lifting, clear>>
  PROVE  FlagInv'
<1> USE LicenseAssumption DEF Basics, TypeInv, RowsOpened, Of
<1>1. /\ holder'[s] = l /\ ~lifted'[s] /\ flag'[l]
      /\ \A k \in License \ {l} : flag'[k] = flag[k] /\ crossed'[k] = crossed[k]
      /\ \A o \in Suspension \ {s} : holder'[o] = holder[o] /\ ends'[o] = ends[o]
      /\ lifted' = lifted
      /\ LiftsOf(l) # {} => crossed'[l]
  BY DEF Open
<1>2. \A k \in License \ {l} : Of(k)' = Of(k) /\ s \notin Of(k)
  BY <1>1 DEF Open
<1>3. FlagFollowsSuspensions'
  BY <1>1, <1>2 DEF FlagInv, FlagFollowsSuspensions, InForce
<1>4. LiftKnows'
  <2> SUFFICES ASSUME NEW a \in Staff, NEW k \in License, asked[a] = k, ~crossed'[k]
               PROVE  IF clear[a]
                      THEN \A o \in Suspension \ {lifting[a]} :
                             holder'[o] = k => ~InForce(o, now)'
                      ELSE \E o \in Suspension \ {lifting[a]} :
                             holder'[o] = k /\ ~lifted'[o]
    BY DEF LiftKnows
  <2>2. k # l
    <3>1. k = l => a \in LiftsOf(l)
      BY DEF LiftsOf
    <3> QED
      BY <1>1, <3>1
  <2>3. \A o \in Suspension : holder'[o] = k <=> holder[o] = k
    BY <1>1, <2>2, LicenseAssumption DEF Open
  <2>4. \A o \in Suspension : holder[o] = k => (InForce(o, now)' <=> InForce(o, now))
    BY <1>1, LicenseAssumption DEF Open, InForce
  <2> QED
    BY <1>1, <2>2, <2>3, <2>4 DEF FlagInv, LiftKnows
<1> QED
  BY <1>3, <1>4 DEF FlagInv

\* The commit of a lift lowers the flag only if no other suspension is in
\* force, and leaves it up only if one has not been lifted.
LEMMA LiftKeepsFlag ==
  ASSUME Basics, FlagInv, NEW a \in Staff, LiftCommit(a)
  PROVE  FlagInv'
<1> USE LicenseAssumption DEF Basics, TypeInv, RowsOpened, Of
<1>1. PICK s \in Suspension \cup {NoSuspension} : s = lifting[a]
  OBVIOUS
<1>2. PICK l \in License : l = asked[a]
  BY DEF LiftCommit
<1>3. /\ holder' = holder /\ ends' = ends /\ now' = now
      /\ lifted' = [o \in Suspension |-> lifted[o] \/ (holder[o] = l /\ o = s)]
      /\ flag' = [flag EXCEPT ![l] = @ /\ ~clear[a]]
      /\ crossed' = [crossed EXCEPT ![l] = @ \/ LiftsOf(l) # {a}]
      /\ asked' = [asked EXCEPT ![a] = NoLicense]
      /\ lifting' = [lifting EXCEPT ![a] = NoSuspension]
      /\ clear' = [clear EXCEPT ![a] = FALSE]
  BY <1>1, <1>2 DEF LiftCommit, Marks, Clear, EndLift
<1>4. FlagFollowsSuspensions'
  <2> SUFFICES ASSUME NEW k \in License, ~crossed'[k]
               PROVE  /\ (\E o \in Of(k) : InForce(o, now)') => flag'[k]
                      /\ flag'[k] => \E o \in Of(k) : ~lifted'[o]
    BY <1>3 DEF FlagFollowsSuspensions
  <2>1. CASE k # l
    BY <1>2, <1>3, <2>1 DEF FlagInv, FlagFollowsSuspensions, InForce
  <2>2. CASE k = l
    <3>1. /\ ~crossed[l]
          /\ IF clear[a] THEN \A o \in Of(l) \ {s} : ~InForce(o, now)
                         ELSE \E o \in Of(l) \ {s} : ~lifted[o]
      BY <1>1, <1>2, <1>3, <2>2 DEF FlagInv, LiftKnows
    <3>2. \A o \in Suspension \ {s} : InForce(o, now)' <=> InForce(o, now)
      BY <1>3 DEF InForce
    <3>3. \A o \in Of(l) : o = s => ~InForce(o, now)'
      BY <1>3 DEF InForce
    <3>4. /\ (\E o \in Of(l) : InForce(o, now)) => flag[l]
      BY <3>1 DEF FlagInv, FlagFollowsSuspensions
    <3> QED
      BY <1>3, <2>2, <3>1, <3>2, <3>3, <3>4
  <2> QED
    BY <2>1, <2>2
<1>5. LiftKnows'
  <2> SUFFICES ASSUME NEW b \in Staff, NEW k \in License, asked'[b] = k, ~crossed'[k]
               PROVE  IF clear'[b]
                      THEN \A o \in Suspension \ {lifting'[b]} :
                             holder[o] = k => ~InForce(o, now)'
                      ELSE \E o \in Suspension \ {lifting'[b]} :
                             holder[o] = k /\ ~lifted'[o]
    BY <1>3 DEF LiftKnows
  <2>1. b # a /\ asked[b] = k /\ lifting'[b] = lifting[b] /\ clear'[b] = clear[b]
    BY <1>3
  <2>2. k # l
    <3>1. k = l => b \in LiftsOf(l)
      BY <2>1 DEF LiftsOf
    <3>2. LiftsOf(l) # {a} => crossed'[l]
      BY <1>3
    <3> QED
      BY <2>1, <3>1, <3>2
  <2>3. \A o \in Suspension : holder[o] = k => (InForce(o, now)' <=> InForce(o, now))
    BY <1>2, <1>3, <2>2 DEF InForce
  <2> QED
    BY <1>2, <1>3, <2>1, <2>2, <2>3 DEF FlagInv, LiftKnows
<1> QED
  BY <1>4, <1>5 DEF FlagInv

\* The flag follows the suspensions of every license no lift overlapped on,
\* for any number of staff and engines: the second statement of a lift may
\* use its snapshot because nothing was opened or lifted after it.
THEOREM FlagCorrect == Spec => []FlagFollowsSuspensions
<1> USE LicenseAssumption
<1>1. Init => FlagInv
  BY DEF Init, FlagInv, FlagFollowsSuspensions, LiftKnows, Of
<1>2. ASSUME Basics, FlagInv, [Next]_vars
      PROVE  FlagInv'
  <2> USE <1>2
  <2>1. CASE Month
    BY <2>1 DEF Month, suspendVars, liftVars, FlagInv, FlagFollowsSuspensions,
                LiftKnows, InForce, Of, Basics, TypeInv
  <2>2. ASSUME NEW e \in Engine, ApplyCommit(e)
        PROVE  FlagInv'
    <3>1. driver[task[e]] \in License
      BY <2>2 DEF ApplyCommit, Basics, TasksBegan
    <3>2. UNCHANGED <<now, asked, lifting, clear>>
      BY <2>2 DEF ApplyCommit, liftVars
    <3>3. ASSUME NEW s \in Suspension, Open(s, driver[task[e]], SuspEnd)
          PROVE  FlagInv'
      BY <3>1, <3>2, <3>3, OpenKeepsFlag
    <3>4. CASE UNCHANGED suspendVars
      BY <3>2, <3>4 DEF suspendVars, FlagInv, FlagFollowsSuspensions, LiftKnows,
                        InForce, Of
    <3> QED
      BY <2>2, <3>3, <3>4 DEF ApplyCommit
  <2>3. ASSUME NEW s \in Suspension, NEW l \in License, NEW end,
               AddSuspension(s, l, end)
        PROVE  FlagInv'
    BY <2>3, OpenKeepsFlag DEF AddSuspension, liftVars
  <2>4. ASSUME NEW a \in Staff, LiftCommit(a)
        PROVE  FlagInv'
    BY <2>4, LiftKeepsFlag
  <2>5. ASSUME NEW a \in Staff, LiftRollback(a)
        PROVE  FlagInv'
    BY <2>5 DEF LiftRollback, EndLift, suspendVars, FlagInv,
                FlagFollowsSuspensions, LiftKnows, InForce, Of, Basics, TypeInv
  <2>6. ASSUME NEW a \in Staff, NEW s \in Suspension \cup {NoSuspension},
               NEW l \in License, LiftRead(a, s, l)
        PROVE  FlagInv'
    <3>1. FlagFollowsSuspensions'
      BY <2>6 DEF LiftRead, suspendVars, FlagInv, FlagFollowsSuspensions, InForce, Of
    <3>2. LiftKnows'
      BY <2>6 DEF LiftRead, suspendVars, FlagInv, LiftKnows, InForce, Of, Basics,
                  TypeInv
    <3> QED
      BY <3>1, <3>2 DEF FlagInv
  <2>7. CASE UNCHANGED <<now, suspendVars, liftVars>>
    BY <2>7 DEF suspendVars, liftVars, FlagInv, FlagFollowsSuspensions, LiftKnows,
                InForce, Of
  <2> QED
    BY <2>1, <2>2, <2>3, <2>4, <2>5, <2>6, <2>7, Steps
       DEF IssueFine, ApplyFails, ApplyFine, vars
<1>3. FlagInv => FlagFollowsSuspensions
  BY DEF FlagInv
<1> QED
  BY <1>1, <1>2, <1>3, BasicsHold, PTL DEF Spec

\* A reinstatement names a suspension that was opened, or none: ids are not
\* announced ahead of their rows.
EventsNameRows == \A s \in Suspension, l \in License :
  <<"reinstated", s, l>> \in announced => holder[s] # NoLicense

\* The outbox announces the suspensions that were opened, and no others, and a
\* suspension is lifted exactly if an event pairs it with its own license: a
\* lift that marks no row is announced too, but never with such a pair.
THEOREM AnnouncedCorrect == Spec => []SuspensionsAreAnnounced
<1> USE LicenseAssumption
<1>1. Init => SuspensionsAreAnnounced /\ EventsNameRows
  BY DEF Init, SuspensionsAreAnnounced, EventsNameRows
<1>2. ASSUME Basics, SuspensionsAreAnnounced, EventsNameRows, [Next]_vars
      PROVE  (SuspensionsAreAnnounced /\ EventsNameRows)'
  <2> USE <1>2 DEF Basics, TypeInv, TasksBegan, RowsOpened, SuspensionsAreAnnounced,
                   EventsNameRows
  \* A row is opened with its event, and no event pairs it with its license yet.
  <2>1. ASSUME NEW s \in Suspension, NEW l \in License, NEW end, Open(s, l, end),
               <<"suspended", s>> \in announced', announced \subseteq announced',
               \A o \in Suspension \ {s} :
                 <<"suspended", o>> \in announced' => <<"suspended", o>> \in announced,
               \A o \in Suspension, k \in License \cup {NoLicense} :
                 <<"reinstated", o, k>> \in announced' => <<"reinstated", o, k>> \in announced
        PROVE  (SuspensionsAreAnnounced /\ EventsNameRows)'
    <3>1. /\ holder' = [holder EXCEPT ![s] = l] /\ holder[s] = NoLicense
          /\ lifted' = lifted /\ ~lifted[s] /\ holder'[s] = l
      BY <2>1 DEF Open
    <3>2. <<"reinstated", s, l>> \notin announced'
      BY <2>1, <3>1
    <3>3. \A o \in Suspension \ {s} : holder'[o] = holder[o]
      BY <3>1
    <3>4. \A o \in Suspension \ {s} :
            /\ <<"suspended", o>> \in announced' <=> <<"suspended", o>> \in announced
            /\ holder[o] \in License =>
                 (<<"reinstated", o, holder[o]>> \in announced'
                    <=> <<"reinstated", o, holder[o]>> \in announced)
      BY <2>1
    <3>5. \A o \in Suspension \ {s} : holder[o] = NoLicense =>
            <<"reinstated", o, holder[o]>> \notin announced'
      BY <2>1, <3>1
    <3> QED
      BY <2>1, <3>1, <3>2, <3>3, <3>4, <3>5
  <2>2. ASSUME NEW e \in Engine, ApplyCommit(e)
        PROVE  (SuspensionsAreAnnounced /\ EventsNameRows)'
    <3>1. CASE announced' = announced \cup {<<"demerit", task[e]>>}
               /\ UNCHANGED suspendVars
      BY <3>1 DEF suspendVars
    <3>2. ASSUME NEW s \in Suspension, Open(s, driver[task[e]], SuspEnd),
                 announced' = announced \cup Crossing(task[e], s)
          PROVE  (SuspensionsAreAnnounced /\ EventsNameRows)'
      <4>1. driver[task[e]] \in License
        BY <2>2 DEF ApplyCommit
      <4> QED
        BY <2>1, <3>2, <4>1 DEF Crossing
    <3> QED
      BY <2>2, <3>1, <3>2 DEF ApplyCommit
  <2>3. ASSUME NEW s \in Suspension, NEW l \in License, NEW end,
               AddSuspension(s, l, end)
        PROVE  (SuspensionsAreAnnounced /\ EventsNameRows)'
    BY <2>1, <2>3 DEF AddSuspension
  <2>4. ASSUME NEW a \in Staff, LiftCommit(a)
        PROVE  (SuspensionsAreAnnounced /\ EventsNameRows)'
    <3>1. /\ holder' = holder /\ asked[a] \in License
          /\ announced' = announced \cup {<<"reinstated", lifting[a], asked[a]>>}
          /\ lifted' = [o \in Suspension |->
                          lifted[o] \/ (holder[o] = asked[a] /\ o = lifting[a])]
      BY <2>4 DEF LiftCommit, Marks, Of
    <3>2. lifting[a] \in Suspension => holder[lifting[a]] # NoLicense
      OBVIOUS
    <3> QED
      BY <3>1, <3>2
  <2>5. CASE UNCHANGED <<suspendVars, announced>>
    BY <2>5 DEF suspendVars
  <2> QED
    BY <2>2, <2>3, <2>4, <2>5, Steps DEF Month, IssueFine, ApplyFails, ApplyFine,
       LiftRollback, LiftRead, vars
<1> QED
  BY <1>1, <1>2, BasicsHold, PTL DEF Spec

\* The three together: what the engine, the staff and the outbox say of a
\* license's suspensions never contradicts itself.
THEOREM SuspensionsCorrect == Spec => []SuspensionsAgree
  BY OneDemeritSuspensionHolds, FlagCorrect, AnnouncedCorrect, PTL
     DEF SuspensionsAgree
(***************************************************************************)
(* Induction, for sets of numbers and of finite sets.                      *)
(***************************************************************************)
\* A nonempty set of numbers has a least element.
LEMMA LeastNumber ==
  ASSUME NEW T, T \subseteq Nat, T # {}
  PROVE  \E n \in T : \A m \in T : n <= m
<1> DEFINE R == {ss \in Nat \X Nat : ss[1] < ss[2]}
<1>1. IsWellFoundedOn(R, Nat)
  <2>1. OpToRel(<,Nat) = R
    BY DEF OpToRel
  <2> QED
    BY <2>1, NatLessThanWellFounded
<1>2. \A m, n \in Nat : m < n => <<m, n>> \in R
  <2> SUFFICES ASSUME NEW m \in Nat, NEW n \in Nat, m < n
               PROVE  <<m, n>> \in R
    OBVIOUS
  <2>1. \A ss \in Nat \X Nat : ss[1] < ss[2] => ss \in R
    OBVIOUS
  <2> HIDE DEF R
  <2>2. <<m, n>> \in Nat \X Nat /\ <<m, n>>[1] < <<m, n>>[2]
    OBVIOUS
  <2> QED
    BY <2>1, <2>2
<1> HIDE DEF R
<1>3. PICK n \in T : \A m \in T : ~ (<<m, n>> \in R)
  BY <1>1, WFMin
<1>4. ASSUME NEW m \in T
      PROVE  n <= m
  <2>1. m \in Nat /\ n \in Nat /\ ~(m < n)
    BY <1>2, <1>3
  <2> QED
    BY <2>1
<1> QED
  BY <1>4

\* A set of numbers with 0 and the successors of its members has them all.
LEMMA NumberInduction ==
  ASSUME NEW Good, 0 \in Good, \A n \in Nat : n \in Good => n + 1 \in Good
  PROVE  Nat \subseteq Good
<1> SUFFICES ASSUME Nat \ Good # {} PROVE FALSE
  OBVIOUS
<1>1. PICK n \in Nat \ Good : \A m \in Nat \ Good : n <= m
  <2>1. Nat \ Good \subseteq Nat
    OBVIOUS
  <2> QED
    BY <2>1, LeastNumber
<1>2. n \in Nat /\ n # 0 /\ n - 1 \in Nat
  BY <1>1
<1>3. n - 1 \in Good
  BY <1>1, <1>2
<1>4. (n - 1) + 1 \in Good /\ (n - 1) + 1 = n
  BY <1>2, <1>3
<1> QED
  BY <1>1, <1>4

\* A set with the empty set, and with every subset of S it has all the smaller
\* ones of, has all subsets of S.
LEMMA SubsetInduction ==
  ASSUME NEW S, IsFiniteSet(S), NEW Good,
         {} \in Good,
         \A s \in SUBSET S : s # {} /\ (\A x \in s : s \ {x} \in Good) => s \in Good
  PROVE  SUBSET S \subseteq Good
<1> DEFINE Upto == {n \in Nat : \A s \in SUBSET S : Cardinality(s) = n => s \in Good}
<1>0. \A s \in SUBSET S : IsFiniteSet(s) /\ Cardinality(s) \in Nat
  BY FS_Subset, FS_CardinalityType
<1>1. 0 \in Upto
  BY <1>0, FS_EmptySet
<1>2. ASSUME NEW n \in Nat, n \in Upto
      PROVE  n + 1 \in Upto
  <2> SUFFICES ASSUME NEW s \in SUBSET S, Cardinality(s) = n + 1
               PROVE  s \in Good
    OBVIOUS
  <2>1. s # {}
    BY <1>0, FS_EmptySet
  <2>2. ASSUME NEW x \in s
        PROVE  s \ {x} \in Good
    <3>1. s \ {x} \in SUBSET S /\ Cardinality(s \ {x}) = n
      BY <1>0, FS_RemoveElement
    <3> QED
      BY <1>2, <3>1
  <2> QED
    BY <2>1, <2>2
<1>3. Nat \subseteq Upto
  <2> HIDE DEF Upto
  <2> QED
    BY <1>1, <1>2, NumberInduction
<1> QED
  BY <1>0, <1>3

(***************************************************************************)
(* Sums over finite sets of a function's values.                           *)
(***************************************************************************)
FirstOf(s) == CHOOSE x \in s : TRUE

\* What the library's fold computes for the set s, from its smaller sets.
FoldOf(h, g, s) == IF s = {} THEN 0 ELSE g[FirstOf(s)] + h[s \ {FirstOf(s)}]

IsFold(h, g, S) == h = [s \in SUBSET S |-> FoldOf(h, g, s)]

\* The recursion of the fold has a solution.
LEMMA FoldExists ==
  ASSUME NEW S, IsFiniteSet(S), NEW g, \A x \in S : g[x] \in Nat
  PROVE  \E h : IsFold(h, g, S)
<1> DEFINE Upto(n, h) == /\ h \in [SUBSET S -> Nat]
                         /\ \A s \in SUBSET S : Cardinality(s) <= n => h[s] = FoldOf(h, g, s)
           Good == {n \in Nat : \E h : Upto(n, h)}
<1>0. \A s \in SUBSET S : IsFiniteSet(s) /\ Cardinality(s) \in Nat
  BY FS_Subset, FS_CardinalityType
<1>1. \A s \in SUBSET S : s # {} =>
        /\ FirstOf(s) \in s /\ s \ {FirstOf(s)} \in SUBSET S
        /\ Cardinality(s \ {FirstOf(s)}) = Cardinality(s) - 1
  BY <1>0, FS_RemoveElement DEF FirstOf
<1>2. 0 \in Good
  <2>1. \A s \in SUBSET S : Cardinality(s) <= 0 => s = {}
    BY <1>0, FS_EmptySet
  <2> DEFINE z == [s \in SUBSET S |-> 0]
  <2>2. Upto(0, z)
    BY <2>1 DEF FoldOf
  <2> QED
    BY <2>2
<1>3. ASSUME NEW n \in Nat, n \in Good
      PROVE  n + 1 \in Good
  <2>1. PICK h : Upto(n, h)
    BY <1>3
  <2> DEFINE k == [s \in SUBSET S |-> IF Cardinality(s) <= n THEN h[s] ELSE FoldOf(h, g, s)]
  <2>2. ASSUME NEW s \in SUBSET S
        PROVE  FoldOf(h, g, s) \in Nat
    <3>1. CASE s = {}
      BY <3>1 DEF FoldOf
    <3>2. CASE s # {}
      <4>1. g[FirstOf(s)] \in Nat /\ h[s \ {FirstOf(s)}] \in Nat
        BY <1>1, <2>1, <3>2
      <4> QED
        BY <3>2, <4>1 DEF FoldOf
    <3> QED
      BY <3>1, <3>2
  <2>3. k \in [SUBSET S -> Nat]
    BY <2>1, <2>2
  <2>4. ASSUME NEW s \in SUBSET S, Cardinality(s) <= n + 1
        PROVE  k[s] = FoldOf(k, g, s)
    <3>1. k[s] = FoldOf(h, g, s)
      BY <2>1, <2>4
    <3>2. FoldOf(h, g, s) = FoldOf(k, g, s)
      <4>1. CASE s = {}
        BY <4>1 DEF FoldOf
      <4>2. CASE s # {}
        <5>1. Cardinality(s \ {FirstOf(s)}) <= n /\ s \ {FirstOf(s)} \in SUBSET S
          BY <1>0, <1>1, <2>4, <4>2
        <5>2. k[s \ {FirstOf(s)}] = h[s \ {FirstOf(s)}]
          BY <5>1
        <5> QED
          BY <5>2 DEF FoldOf
      <4> QED
        BY <4>1, <4>2
    <3> QED
      BY <3>1, <3>2
  <2> HIDE DEF k
  <2>5. Upto(n + 1, k)
    BY <2>3, <2>4
  <2> QED
    BY <2>5
<1>4. Nat \subseteq Good
  <2> HIDE DEF Good
  <2> QED
    BY <1>2, <1>3, NumberInduction
<1>5. PICK h : Upto(Cardinality(S), h)
  BY <1>0, <1>4
<1>6. \A s \in SUBSET S : Cardinality(s) <= Cardinality(S)
  BY FS_Subset
<1> QED
  BY <1>5, <1>6 DEF IsFold

\* It has one solution, of numbers, and the solution for a set is that for
\* its supersets as well.
LEMMA FoldUnique ==
  ASSUME NEW S, IsFiniteSet(S), NEW g, \A x \in S : g[x] \in Nat,
         NEW T, S \subseteq T, NEW h, IsFold(h, g, S), NEW k, IsFold(k, g, T)
  PROVE  h[S] = k[S] /\ h[S] \in Nat
<1> DEFINE Good == {s \in SUBSET S : h[s] = k[s] /\ h[s] \in Nat}
<1>1. {} \in Good
  BY DEF IsFold, FoldOf
<1>2. ASSUME NEW s \in SUBSET S, s # {}, \A x \in s : s \ {x} \in Good
      PROVE  s \in Good
  <2>1. FirstOf(s) \in s /\ s \ {FirstOf(s)} \in Good
    BY <1>2 DEF FirstOf
  <2>2. h[s] = FoldOf(h, g, s) /\ k[s] = FoldOf(k, g, s)
    BY DEF IsFold
  <2> QED
    BY <1>2, <2>1, <2>2 DEF FoldOf
<1>3. SUBSET S \subseteq Good
  <2> HIDE DEF Good
  <2> QED
    BY <1>1, <1>2, SubsetInduction
<1> QED
  BY <1>3

\* The library's sum is the fold.
LEMMA SumIsFold ==
  ASSUME NEW S, IsFiniteSet(S), NEW g, \A x \in S : g[x] \in Nat
  PROVE  \E h : IsFold(h, g, S) /\ SumFunctionOnSet(g, S) = h[S]
<1> DEFINE iter == CHOOSE h : h = [s \in SUBSET S |-> FoldOf(h, g, s)]
<1>1. SumFunctionOnSet(g, S) = iter[S]
  BY DEF SumFunctionOnSet, FoldFunctionOnSet, MapThenFoldSet, FoldOf, FirstOf
<1>2. \E h : h = [s \in SUBSET S |-> FoldOf(h, g, s)]
  <2>1. PICK h : IsFold(h, g, S)
    BY FoldExists
  <2> QED
    BY <2>1 DEF IsFold
<1>3. iter = [s \in SUBSET S |-> FoldOf(iter, g, s)]
  BY <1>2
<1> HIDE DEF iter
<1> QED
  BY <1>1, <1>3 DEF IsFold

\* A sum is a number, 0 for the empty set; any element may be taken out of it.
LEMMA SumRemoves ==
  ASSUME NEW S, IsFiniteSet(S), NEW g, \A x \in S : g[x] \in Nat
  PROVE  /\ SumFunctionOnSet(g, S) \in Nat
         /\ S = {} => SumFunctionOnSet(g, S) = 0
         /\ \A x \in S : SumFunctionOnSet(g, S) = g[x] + SumFunctionOnSet(g, S \ {x})
<1>1. PICK h : IsFold(h, g, S) /\ SumFunctionOnSet(g, S) = h[S]
  BY SumIsFold
<1>2. ASSUME NEW s \in SUBSET S
      PROVE  SumFunctionOnSet(g, s) = h[s] /\ h[s] \in Nat
  <2>1. IsFiniteSet(s)
    BY FS_Subset
  <2>2. PICK k : IsFold(k, g, s) /\ SumFunctionOnSet(g, s) = k[s]
    BY <2>1, SumIsFold
  <2> QED
    BY <1>1, <2>1, <2>2, FoldUnique
<1> DEFINE Good == {s \in SUBSET S : \A x \in s : h[s] = g[x] + h[s \ {x}]}
<1>3. {} \in Good
  OBVIOUS
<1>4. ASSUME NEW s \in SUBSET S, s # {}, \A x \in s : s \ {x} \in Good
      PROVE  s \in Good
  <2> DEFINE c == FirstOf(s)
  <2>1. c \in s
    BY <1>4 DEF FirstOf
  <2>2. h[s] = g[c] + h[s \ {c}]
    BY <1>1, <1>4 DEF IsFold, FoldOf
  <2> HIDE DEF c
  <2> SUFFICES ASSUME NEW x \in s, x # c
               PROVE  h[s] = g[x] + h[s \ {x}]
    BY <2>2
  <2>3. h[s \ {c}] = g[x] + h[(s \ {c}) \ {x}]
    BY <1>4, <2>1
  <2>4. h[s \ {x}] = g[c] + h[(s \ {x}) \ {c}]
    BY <1>4, <2>1
  <2>5. (s \ {x}) \ {c} = (s \ {c}) \ {x} /\ (s \ {x}) \ {c} \in SUBSET S
    OBVIOUS
  <2> DEFINE r == h[(s \ {x}) \ {c}]
             gx == g[x]
             gc == g[c]
  <2>6. gx \in Nat /\ gc \in Nat /\ r \in Nat
    BY <1>2, <2>1, <2>5
  <2>7. h[s] = gc + (gx + r) /\ h[s \ {x}] = gc + r
    BY <2>2, <2>3, <2>4, <2>5
  <2>8. h[s] = gx + h[s \ {x}]
    <3> HIDE DEF r, gx, gc
    <3> QED
      BY <2>6, <2>7
  <2> QED
    BY <2>8
<1>5. S \in Good
  <2> HIDE DEF Good
  <2> QED
    BY <1>3, <1>4, SubsetInduction
<1>6. \A x \in S : SumFunctionOnSet(g, S) = g[x] + SumFunctionOnSet(g, S \ {x})
  BY <1>1, <1>2, <1>5
<1>7. S = {} => h[S] = 0
  BY <1>1 DEF IsFold, FoldOf
<1> QED
  BY <1>1, <1>2, <1>6, <1>7

\* Two functions that agree on a set have one sum over it.
LEMMA SumSame ==
  ASSUME NEW S, IsFiniteSet(S), NEW g, \A x \in S : g[x] \in Nat,
         NEW k, \A x \in S : k[x] = g[x]
  PROVE  SumFunctionOnSet(k, S) = SumFunctionOnSet(g, S)
<1> DEFINE Good == {s \in SUBSET S : SumFunctionOnSet(k, s) = SumFunctionOnSet(g, s)}
<1>1. {} \in Good
  BY SumRemoves, FS_EmptySet
<1>2. ASSUME NEW s \in SUBSET S, s # {}, \A x \in s : s \ {x} \in Good
      PROVE  s \in Good
  <2>1. PICK x \in s : TRUE
    BY <1>2
  <2>2. IsFiniteSet(s)
    BY FS_Subset
  <2>3. /\ SumFunctionOnSet(k, s) = k[x] + SumFunctionOnSet(k, s \ {x})
        /\ SumFunctionOnSet(g, s) = g[x] + SumFunctionOnSet(g, s \ {x})
    BY <2>1, <2>2, SumRemoves
  <2> QED
    BY <1>2, <2>1, <2>3
<1>3. S \in Good
  <2> HIDE DEF Good
  <2> QED
    BY <1>1, <1>2, SubsetInduction
<1> QED
  BY <1>3

\* One value more makes the sum as much more.
LEMMA SumGrows ==
  ASSUME NEW S, IsFiniteSet(S), NEW g, \A x \in S : g[x] \in Nat,
         NEW k, NEW y \in S, NEW d \in Nat, k[y] = g[y] + d,
         \A x \in S \ {y} : k[x] = g[x]
  PROVE  SumFunctionOnSet(k, S) = SumFunctionOnSet(g, S) + d
<1>1. IsFiniteSet(S \ {y})
  BY FS_Subset
<1>2. SumFunctionOnSet(k, S \ {y}) = SumFunctionOnSet(g, S \ {y})
  BY <1>1, SumSame
<1>3. SumFunctionOnSet(g, S \ {y}) \in Nat
  BY <1>1, SumRemoves
<1>4. \A x \in S : k[x] \in Nat
  OBVIOUS
<1>5. /\ SumFunctionOnSet(k, S) = k[y] + SumFunctionOnSet(k, S \ {y})
      /\ SumFunctionOnSet(g, S) = g[y] + SumFunctionOnSet(g, S \ {y})
  BY <1>4, SumRemoves
<1> QED
  BY <1>2, <1>3, <1>5

(***************************************************************************)
(* The points.                                                             *)
(***************************************************************************)
\* A sum of zeros.
LEMMA SumOfZeros ==
  ASSUME NEW S, IsFiniteSet(S), NEW g, \A x \in S : g[x] = 0
  PROVE  SumFunctionOnSet(g, S) = 0
<1> DEFINE Good == {s \in SUBSET S : SumFunctionOnSet(g, s) = 0}
<1>1. {} \in Good
  BY SumRemoves, FS_EmptySet
<1>2. ASSUME NEW s \in SUBSET S, s # {}, \A x \in s : s \ {x} \in Good
      PROVE  s \in Good
  <2>1. PICK x \in s : TRUE
    BY <1>2
  <2>2. IsFiniteSet(s) /\ \A y \in s : g[y] \in Nat
    BY FS_Subset
  <2>3. SumFunctionOnSet(g, s) = g[x] + SumFunctionOnSet(g, s \ {x})
    BY <2>2, SumRemoves
  <2> QED
    BY <1>2, <2>3
<1>3. SUBSET S \subseteq Good
  <2> HIDE DEF Good
  <2> QED
    BY <1>1, <1>2, SubsetInduction
<1> QED
  BY <1>3

Months(t) == {x \in Time : InWindow(x, t)}
FinesOf(l) == {f \in Fine : driver[f] = l}
Busy(f) == {e \in Engine : task[e] = f}

\* The types, which hold because a fine is handled a bounded number of times;
\* the sums are over finite sets; a fine is counted once it is issued.
Ledgers ==
  /\ TypeOK
  /\ IsFiniteSet({f \in Fine : driver[f] # NoLicense})
  /\ IsFiniteSet({e \in Engine : task[e] # NoFine})
  /\ \A f \in Fine : Handled(f) <= MaxDeliveries
  /\ \A f \in Fine : driver[f] = NoLicense => \A t \in Time : ledger[f][t] = 0

\* The sums are over finite sets.
LEMMA FiniteSums ==
  ASSUME Ledgers
  PROVE  /\ IsFiniteSet(Time)
         /\ \A t : IsFiniteSet(Months(t)) /\ Months(t) \subseteq Time
         /\ \A l \in License : IsFiniteSet(FinesOf(l))
         /\ \A f \in Fine : IsFiniteSet(Busy(f))
<1>1. IsFiniteSet(Time)
  BY LicenseAssumption, FS_Interval DEF Time
<1>2. \A t : Months(t) \subseteq Time
  BY DEF Months
<1>3. ASSUME NEW l \in License
      PROVE  FinesOf(l) \subseteq {f \in Fine : driver[f] # NoLicense}
  BY LicenseAssumption DEF FinesOf
<1>4. ASSUME NEW f \in Fine
      PROVE  Busy(f) \subseteq {e \in Engine : task[e] # NoFine}
  BY LicenseAssumption DEF Busy
<1>5. \A t : IsFiniteSet(Months(t))
  BY <1>1, <1>2, FS_Subset
<1>6. \A l \in License : IsFiniteSet(FinesOf(l))
  BY <1>3, FS_Subset DEF Ledgers
<1>7. \A f \in Fine : IsFiniteSet(Busy(f))
  BY <1>4, FS_Subset DEF Ledgers
<1> QED
  BY <1>1, <1>2, <1>5, <1>6, <1>7

\* What they are of, and that they are numbers.
LEMMA PointsAreNumbers ==
  ASSUME Ledgers, NEW t \in Time
  PROVE  /\ \A f \in Fine : Recent(f, t) \in Nat /\ worth[f] * Recent(f, t) \in Nat
         /\ \A l \in License : Points(l, t) \in Nat
<1>1. ASSUME NEW f \in Fine
      PROVE  Recent(f, t) \in Nat /\ worth[f] \in Nat
  <2>1. /\ ledger[f] \in [Time -> 0..MaxDeliveries]
        /\ worth[f] \in PointValues \cup {0}
    BY DEF Ledgers, TypeOK
  <2>2. worth[f] \in Nat
    <3>1. PointValues \cup {0} \subseteq Nat
      BY LicenseAssumption
    <3> QED
      BY <2>1, <3>1
  <2>3. ASSUME NEW x \in Months(t)
        PROVE  ledger[f][x] \in Nat
    BY <2>1, LicenseAssumption DEF Months
  <2>4. SumFunctionOnSet(ledger[f], Months(t)) \in Nat
    BY <2>3, FiniteSums, SumRemoves
  <2> QED
    BY <2>2, <2>4 DEF Recent, Months
<1>2. \A m, n \in Nat : m * n \in Nat
  OBVIOUS
<1>3. \A f \in Fine : worth[f] * Recent(f, t) \in Nat
  BY <1>1, <1>2
<1>4. ASSUME NEW l \in License
      PROVE  Points(l, t) \in Nat
  <2> DEFINE g == [f \in Fine |-> worth[f] * Recent(f, t)]
  <2>1. \A f \in FinesOf(l) : g[f] \in Nat
    BY <1>3 DEF FinesOf
  <2> HIDE DEF g
  <2>2. SumFunctionOnSet(g, FinesOf(l)) \in Nat
    BY <2>1, FiniteSums, SumRemoves
  <2> QED
    BY <2>2 DEF Points, FinesOf, g
<1> QED
  BY <1>1, <1>3, <1>4

\* Handled, as the proofs use it.
LEMMA HandledIs ==
  ASSUME Ledgers, NEW f \in Fine
  PROVE  /\ Handled(f) = SumFunctionOnSet(ledger[f], Time) + Cardinality(Busy(f))
         /\ SumFunctionOnSet(ledger[f], Time) \in Nat
         /\ Cardinality(Busy(f)) \in Nat
         /\ \A x \in Time : ledger[f][x] \in Nat
<1>1. ledger[f] \in [Time -> 0..MaxDeliveries]
  BY DEF Ledgers, TypeOK
<1>2. ASSUME NEW x \in Time
      PROVE  ledger[f][x] \in Nat
  BY <1>1, LicenseAssumption
<1>3. SumFunctionOnSet(ledger[f], Time) \in Nat
  BY <1>2, FiniteSums, SumRemoves
<1>4. Cardinality(Busy(f)) \in Nat
  BY FiniteSums, FS_CardinalityType
<1> QED
  BY <1>2, <1>3, <1>4 DEF Handled, Busy

\* Opening a suspension keeps the types of the suspensions.
LEMMA OpenKeepsTypes ==
  ASSUME TypeOK, NEW s \in Suspension, NEW l \in License,
         NEW end \in 0..MaxTime + Term + 1 \cup {NoEnd}, Open(s, l, end)
  PROVE  /\ holder' \in [Suspension -> License \cup {NoLicense}]
         /\ ends' \in [Suspension -> 0..MaxTime + Term + 1 \cup {NoEnd}]
         /\ lifted' \in [Suspension -> BOOLEAN]
         /\ flag' \in [License -> BOOLEAN]
         /\ crossed' \in [License -> BOOLEAN]
  BY DEF TypeOK, Open

\* A fine is committed as often as it was begun: the row goes in as the task ends.
LEMMA CommitKeepsHandled ==
  ASSUME Ledgers, Basics, NEW e \in Engine, ApplyCommit(e)
  PROVE  /\ \A f \in Fine : Handled(f)' = Handled(f)
         /\ ledger' \in [Fine -> [Time -> 0..MaxDeliveries]]
<1>0. PICK c \in Fine, b \in Time : c = task[e] /\ b = began[e]
  BY DEF ApplyCommit, Ledgers, TypeOK
<1>1. c \in Fine /\ b \in Time
  OBVIOUS
<1>2. /\ ledger' = [ledger EXCEPT ![c][b] = @ + 1]
      /\ task' = [task EXCEPT ![e] = NoFine]
  BY <1>0 DEF ApplyCommit, EndTask
<1>3. ledger \in [Fine -> [Time -> 0..MaxDeliveries]] /\ task \in [Engine -> Fine \cup {NoFine}]
  BY DEF Ledgers, TypeOK
<1>4. e \in Busy(c)
  BY <1>0 DEF Busy
<1>5. /\ ledger'[c][b] = ledger[c][b] + 1
      /\ \A x \in Time \ {b} : ledger'[c][x] = ledger[c][x]
      /\ \A f \in Fine \ {c} : ledger'[f] = ledger[f]
  BY <1>1, <1>2, <1>3
<1>6. /\ Busy(c)' = Busy(c) \ {e}
      /\ \A f \in Fine \ {c} : Busy(f)' = Busy(f)
  <2>1. NoFine \notin Fine
    BY LicenseAssumption
  <2>2. \A f \in Fine : f # c => e \notin Busy(f)
    BY <1>4 DEF Busy
  <2> QED
    BY <1>1, <1>2, <1>3, <2>1, <2>2 DEF Busy
<1>7. SumFunctionOnSet(ledger'[c], Time) = SumFunctionOnSet(ledger[c], Time) + 1
  BY <1>1, <1>5, HandledIs, FiniteSums, SumGrows
<1>8. Cardinality(Busy(c)') = Cardinality(Busy(c)) - 1
  BY <1>1, <1>4, <1>6, FiniteSums, FS_RemoveElement
<1>9. ASSUME NEW f \in Fine
      PROVE  Handled(f)' = Handled(f)
  <2>1. Handled(f)' = SumFunctionOnSet(ledger'[f], Time) + Cardinality(Busy(f)')
    BY DEF Handled, Busy, Time
  <2>2. CASE f = c
    BY <1>1, <1>7, <1>8, <2>1, <2>2, HandledIs
  <2>3. CASE f # c
    BY <1>5, <1>6, <2>1, <2>3, HandledIs
  <2> QED
    BY <2>2, <2>3
<1>10. ledger'[c][b] \in 0..MaxDeliveries
  <2>1. \A x \in Time : ledger'[c][x] \in Nat
    BY <1>1, <1>5, HandledIs
  <2>2. /\ SumFunctionOnSet(ledger'[c], Time)
             = ledger'[c][b] + SumFunctionOnSet(ledger'[c], Time \ {b})
        /\ SumFunctionOnSet(ledger'[c], Time \ {b}) \in Nat
    <3>1. IsFiniteSet(Time \ {b})
      BY FiniteSums, FS_Subset
    <3> QED
      BY <1>1, <2>1, <3>1, FiniteSums, SumRemoves
  <2>3. SumFunctionOnSet(ledger'[c], Time) <= MaxDeliveries
    <3>1. Cardinality(Busy(c)) # 0 /\ Cardinality(Busy(c)) \in Nat
      BY <1>1, <1>4, FiniteSums, FS_EmptySet, FS_CardinalityType
    <3>2. Handled(c) <= MaxDeliveries
      BY <1>1 DEF Ledgers
    <3>3. /\ Handled(c) = SumFunctionOnSet(ledger[c], Time) + Cardinality(Busy(c))
          /\ SumFunctionOnSet(ledger[c], Time) \in Nat
      BY <1>1, HandledIs
    <3> QED
      BY <1>7, <3>1, <3>2, <3>3, LicenseAssumption
  <2> QED
    BY <1>1, <2>1, <2>2, <2>3, LicenseAssumption
<1>11. ledger' \in [Fine -> [Time -> 0..MaxDeliveries]]
  <2>1. \A f \in Fine : ledger[f] \in [Time -> 0..MaxDeliveries]
    BY <1>3
  <2>2. ledger'[c] = [ledger[c] EXCEPT ![b] = @ + 1]
    BY <1>1, <1>2, <1>3
  <2>3. ledger'[c] \in [Time -> 0..MaxDeliveries]
    BY <1>1, <1>5, <1>10, <2>1, <2>2
  <2> QED
    BY <1>2, <1>3, <1>5, <2>1, <2>3
<1> QED
  BY <1>9, <1>11

\* Types, finite tables and bounded handling, in every step.
LEMMA LedgersHold == Spec => []Ledgers
<1>1. Init => Ledgers
  <2> SUFFICES ASSUME Init
               PROVE  Ledgers
    OBVIOUS
  <2>1. TypeOK
    BY LicenseAssumption DEF Init, TypeOK, Time
  <2>2. {f \in Fine : driver[f] # NoLicense} = {} /\ {e \in Engine : task[e] # NoFine} = {}
    BY DEF Init
  <2>3. ASSUME NEW f \in Fine
        PROVE  Handled(f) <= MaxDeliveries
    <3>1. IsFiniteSet(Time) /\ \A x \in Time : ledger[f][x] = 0
      BY LicenseAssumption, FS_Interval DEF Init, Time
    <3>2. SumFunctionOnSet(ledger[f], Time) = 0
      BY <3>1, SumOfZeros
    <3>3. Cardinality({e \in Engine : task[e] = f}) = 0
      <4>1. {e \in Engine : task[e] = f} = {}
        BY LicenseAssumption DEF Init
      <4> QED
        BY <4>1, FS_EmptySet
    <3> QED
      BY <3>2, <3>3, LicenseAssumption DEF Handled
  <2>4. \A f \in Fine : \A t \in Time : ledger[f][t] = 0
    BY DEF Init
  <2> QED
    BY <2>1, <2>2, <2>3, <2>4, FS_EmptySet DEF Ledgers
<1>2. ASSUME Ledgers, Basics, [Next]_vars
      PROVE  Ledgers'
  <2> USE <1>2
  <2>0. /\ TypeOK
        /\ IsFiniteSet({f \in Fine : driver[f] # NoLicense})
        /\ IsFiniteSet({e \in Engine : task[e] # NoFine})
        /\ \A f \in Fine : Handled(f) <= MaxDeliveries
        /\ \A f \in Fine : driver[f] = NoLicense => \A t \in Time : ledger[f][t] = 0
    BY DEF Ledgers
  \* Where neither fines nor tasks change, the types are all there is to show.
  <2>1. ASSUME UNCHANGED <<driver, ledger, task>>, TypeOK'
        PROVE  Ledgers'
    BY <2>0, <2>1 DEF Ledgers, Handled, Time
  <2>2. CASE Month
    <3>1. now' \in Time
      BY <2>0, <2>2, LicenseAssumption DEF Month, TypeOK, Time
    <3> QED
      BY <2>0, <2>1, <2>2, <3>1 DEF Month, TypeOK, fineVars, pointVars, engineVars,
         suspendVars, liftVars, Time
  <2>3. ASSUME NEW f \in Fine, NEW l \in License, NEW n \in PointValues,
               IssueFine(f, l, n)
        PROVE  Ledgers'
    <3>1. TypeOK'
      BY <2>0, <2>3 DEF IssueFine, TypeOK, Time, pointVars, engineVars, suspendVars, liftVars
    <3>2. {g \in Fine : driver'[g] # NoLicense}
             = {g \in Fine : driver[g] # NoLicense} \cup {f}
      BY <2>0, <2>3, LicenseAssumption DEF IssueFine, TypeOK
    <3>3. IsFiniteSet({g \in Fine : driver'[g] # NoLicense})
      BY <2>0, <3>2, FS_AddElement
    <3>4. \A g \in Fine : driver'[g] = NoLicense => driver[g] = NoLicense
      BY <2>0, <2>3, LicenseAssumption DEF IssueFine, TypeOK
    <3>5. ledger' = ledger /\ task' = task
      BY <2>3 DEF IssueFine, pointVars, engineVars
    <3> QED
      BY <2>0, <3>1, <3>3, <3>4, <3>5 DEF Ledgers, Handled, Time
  <2>4. ASSUME NEW e \in Engine, ApplyCommit(e)
        PROVE  Ledgers'
    <3>1. PICK c \in Fine, l \in License : c = task[e] /\ l = driver[c]
      BY <2>0, <2>4 DEF ApplyCommit, TypeOK, Basics, TasksBegan
    <3>2. /\ \A f \in Fine : Handled(f)' <= MaxDeliveries
          /\ ledger' \in [Fine -> [Time -> 0..MaxDeliveries]]
      BY <2>0, <2>4, CommitKeepsHandled
    <3>3. {d \in Engine : task'[d] # NoFine} = {d \in Engine : task[d] # NoFine} \ {e}
      BY <2>0, <2>4 DEF ApplyCommit, EndTask, TypeOK
    <3>4. IsFiniteSet({d \in Engine : task'[d] # NoFine})
      BY <2>0, <3>3, FS_Subset
    <3>5. ASSUME NEW f \in Fine, driver'[f] = NoLicense
          PROVE  \A t \in Time : ledger'[f][t] = 0
      <4>1. f # c /\ driver[f] = NoLicense
        BY <2>4, <3>1, <3>5, LicenseAssumption DEF ApplyCommit, fineVars
      <4>2. ledger'[f] = ledger[f]
        BY <2>0, <2>4, <3>1, <4>1 DEF ApplyCommit, TypeOK
      <4> QED
        BY <2>0, <4>1, <4>2
    <3>6. /\ points' \in [License -> Nat]
          /\ task' \in [Engine -> Fine \cup {NoFine}]
          /\ began' \in [Engine -> Time]
          /\ total' \in [Engine -> Nat]
          /\ last' \in [License -> Time]
          /\ raced' \in [License -> BOOLEAN]
      <4>1. 0 \in Time
        BY LicenseAssumption DEF Time
      <4> QED
        BY <2>0, <2>4, <3>1, <4>1 DEF ApplyCommit, EndTask, TypeOK
    <3>7. UNCHANGED <<now, driver, worth, asked, lifting, clear>>
      BY <2>4 DEF ApplyCommit, fineVars, liftVars
    <3>8. /\ holder' \in [Suspension -> License \cup {NoLicense}]
          /\ ends' \in [Suspension -> 0..MaxTime + Term + 1 \cup {NoEnd}]
          /\ lifted' \in [Suspension -> BOOLEAN]
          /\ flag' \in [License -> BOOLEAN]
          /\ crossed' \in [License -> BOOLEAN]
          /\ auto' \subseteq Suspension
          /\ announced' \subseteq Announcement
      <4>1. CASE UNCHANGED suspendVars /\ announced' = announced \cup {<<"demerit", c>>}
        BY <2>0, <4>1 DEF suspendVars, TypeOK, Announcement
      <4>2. ASSUME NEW s \in Suspension, Open(s, l, SuspEnd), auto' = auto \cup {s},
                   announced' = announced \cup Crossing(c, s)
            PROVE  <3>8!:
        <5>1. SuspEnd \in 0..MaxTime + Term + 1
          BY <2>0, LicenseAssumption DEF SuspEnd, TypeOK, Time
        <5>2. /\ auto' \subseteq Suspension
              /\ announced' \subseteq Announcement
          BY <2>0, <4>2 DEF TypeOK, Announcement, Crossing
        <5> QED
          BY <2>0, <4>2, <5>1, <5>2, OpenKeepsTypes
      <4> QED
        BY <2>4, <3>1, <4>1, <4>2 DEF ApplyCommit
    <3>9. TypeOK'
      BY <2>0, <3>2, <3>6, <3>7, <3>8 DEF TypeOK, Time
    <3> QED
      BY <3>2, <3>4, <3>5, <3>7, <3>9 DEF Ledgers, Time
  <2>5. ASSUME NEW e \in Engine, ApplyFails(e)
        PROVE  Ledgers'
    <3>1. 0 \in Time
      BY LicenseAssumption DEF Time
    <3>2. TypeOK'
      BY <2>0, <2>5, <3>1 DEF ApplyFails, EndTask, TypeOK, Time, fineVars, pointVars,
         suspendVars, liftVars
    <3>3. ledger' = ledger /\ driver' = driver /\ task' = [task EXCEPT ![e] = NoFine]
      BY <2>5 DEF ApplyFails, EndTask, fineVars, pointVars
    <3>4. {d \in Engine : task'[d] # NoFine} \subseteq {d \in Engine : task[d] # NoFine}
      BY <2>0, <3>3 DEF TypeOK
    <3>5. IsFiniteSet({d \in Engine : task'[d] # NoFine})
      BY <2>0, <3>4, FS_Subset
    <3>6. ASSUME NEW f \in Fine
          PROVE  Handled(f)' <= MaxDeliveries
      <4>1. {d \in Engine : task'[d] = f} \subseteq Busy(f)
        BY <2>0, <3>3, LicenseAssumption DEF TypeOK, Busy
      <4>2. /\ Cardinality({d \in Engine : task'[d] = f}) \in Nat
            /\ Cardinality({d \in Engine : task'[d] = f}) <= Cardinality(Busy(f))
        BY <4>1, FiniteSums, FS_Subset, FS_CardinalityType
      <4>3. Handled(f)' = SumFunctionOnSet(ledger[f], Time)
                            + Cardinality({d \in Engine : task'[d] = f})
        BY <3>3 DEF Handled, Time
      <4> QED
        BY <2>0, <4>2, <4>3, HandledIs, LicenseAssumption
    <3> QED
      BY <2>0, <3>2, <3>3, <3>5, <3>6 DEF Ledgers, Time
  <2>6. ASSUME NEW e \in Engine, NEW f \in Fine, ApplyFine(e, f)
        PROVE  Ledgers'
    <3>1. /\ driver[f] \in License /\ now \in Time
          /\ task[e] = NoFine /\ Handled(f) < MaxDeliveries
      BY <2>0, <2>6 DEF ApplyFine, TypeOK
    <3>2. Points(driver[f], now) \in Nat /\ worth[f] \in Nat
      <4>1. PointValues \cup {0} \subseteq Nat
        BY LicenseAssumption
      <4> QED
        BY <2>0, <3>1, <4>1, PointsAreNumbers DEF TypeOK
    <3>3. TypeOK'
      <4>1. Points(driver[f], now) + worth[f] \in Nat
        BY <3>2
      <4>2. /\ task' \in [Engine -> Fine \cup {NoFine}]
            /\ began' \in [Engine -> Time]
            /\ total' \in [Engine -> Nat]
        BY <2>0, <2>6, <3>1, <4>1 DEF ApplyFine, TypeOK
      <4> QED
        BY <2>0, <2>6, <4>2 DEF ApplyFine, TypeOK, Time, fineVars, pointVars,
           suspendVars, liftVars
    <3>4. ledger' = ledger /\ driver' = driver /\ task' = [task EXCEPT ![e] = f]
      BY <2>6 DEF ApplyFine, fineVars, pointVars
    <3>5. {d \in Engine : task'[d] # NoFine} = {d \in Engine : task[d] # NoFine} \cup {e}
      BY <2>0, <3>4, LicenseAssumption DEF TypeOK
    <3>6. IsFiniteSet({d \in Engine : task'[d] # NoFine})
      BY <2>0, <3>5, FS_AddElement
    <3>7. ASSUME NEW g \in Fine
          PROVE  Handled(g)' <= MaxDeliveries
      <4>1. Handled(g)' = SumFunctionOnSet(ledger[g], Time)
                            + Cardinality({d \in Engine : task'[d] = g})
        BY <3>4 DEF Handled, Time
      <4>2. CASE g = f
        <5>1. {d \in Engine : task'[d] = g} = Busy(g) \cup {e} /\ e \notin Busy(g)
          BY <2>0, <3>1, <3>4, <4>2, LicenseAssumption DEF TypeOK, Busy
        <5>2. Cardinality(Busy(g) \cup {e}) = Cardinality(Busy(g)) + 1
          BY <5>1, FiniteSums, FS_AddElement
        <5>3. /\ Handled(g) = SumFunctionOnSet(ledger[g], Time) + Cardinality(Busy(g))
              /\ SumFunctionOnSet(ledger[g], Time) \in Nat
              /\ Cardinality(Busy(g)) \in Nat
          BY HandledIs
        <5>4. Cardinality({d \in Engine : task'[d] = g}) = Cardinality(Busy(g)) + 1
          BY <5>1, <5>2
        <5>5. Handled(g)' = Handled(g) + 1 /\ Handled(g) \in Nat
          BY <4>1, <5>3, <5>4
        <5> QED
          BY <3>1, <4>2, <5>5, LicenseAssumption
      <4>3. CASE g # f
        <5>1. {d \in Engine : task'[d] = g} = Busy(g)
          BY <2>0, <3>1, <3>4, <4>3, LicenseAssumption DEF TypeOK, Busy
        <5> QED
          BY <2>0, <4>1, <5>1, HandledIs
      <4> QED
        BY <4>2, <4>3
    <3> QED
      BY <2>0, <3>3, <3>4, <3>6, <3>7 DEF Ledgers, Time
  <2>7. ASSUME NEW s \in Suspension, NEW l \in License,
               NEW end \in {now, now + 1, NoEnd}, AddSuspension(s, l, end)
        PROVE  Ledgers'
    <3>1. end \in 0..MaxTime + Term + 1 \cup {NoEnd}
      BY <2>0, LicenseAssumption DEF TypeOK, Time
    <3>2. Open(s, l, end)
      BY <2>7 DEF AddSuspension
    <3>3. TypeOK'
      BY <2>0, <2>7, <3>1, <3>2, OpenKeepsTypes DEF AddSuspension, TypeOK, Time,
         Announcement, fineVars, pointVars, engineVars, liftVars
    <3> QED
      BY <2>1, <2>7, <3>3 DEF AddSuspension, fineVars, pointVars, engineVars
  <2>8. ASSUME NEW a \in Staff, LiftCommit(a)
        PROVE  Ledgers'
    <3>1. asked[a] \in License /\ lifting[a] \in Suspension \cup {NoSuspension}
      BY <2>0, <2>8 DEF LiftCommit, TypeOK
    <3>2. announced' \subseteq Announcement
      BY <2>0, <2>8, <3>1 DEF LiftCommit, TypeOK, Announcement
    <3>3. /\ lifted' \in [Suspension -> BOOLEAN]
          /\ flag' \in [License -> BOOLEAN] /\ crossed' \in [License -> BOOLEAN]
          /\ asked' \in [Staff -> License \cup {NoLicense}]
          /\ lifting' \in [Staff -> Suspension \cup {NoSuspension}]
          /\ clear' \in [Staff -> BOOLEAN]
      BY <2>0, <2>8, <3>1 DEF LiftCommit, Marks, Clear, EndLift, TypeOK
    <3>4. UNCHANGED <<now, fineVars, pointVars, engineVars, holder, ends, auto>>
      BY <2>8 DEF LiftCommit
    <3>5. TypeOK'
      BY <2>0, <3>2, <3>3, <3>4 DEF TypeOK, Time, fineVars, pointVars, engineVars
    <3> QED
      BY <2>1, <3>4, <3>5 DEF fineVars, pointVars, engineVars
  <2>9. ASSUME NEW a \in Staff, LiftRollback(a)
        PROVE  Ledgers'
    <3>1. TypeOK'
      BY <2>0, <2>9 DEF LiftRollback, EndLift, TypeOK, Time, fineVars, pointVars,
         engineVars, suspendVars
    <3> QED
      BY <2>1, <2>9, <3>1 DEF LiftRollback, fineVars, pointVars, engineVars
  <2>10. ASSUME NEW a \in Staff, NEW s \in Suspension \cup {NoSuspension},
                NEW l \in License, LiftRead(a, s, l)
         PROVE  Ledgers'
    <3>1. TypeOK'
      BY <2>0, <2>10 DEF LiftRead, TypeOK, Time, fineVars, pointVars, engineVars, suspendVars
    <3> QED
      BY <2>1, <2>10, <3>1 DEF LiftRead, fineVars, pointVars, engineVars
  <2>11. CASE UNCHANGED vars
    <3>1. TypeOK'
      BY <2>0, <2>11 DEF vars, TypeOK, Time, fineVars, pointVars, engineVars, suspendVars,
         liftVars
    <3> QED
      BY <2>1, <2>11, <3>1 DEF vars, fineVars, pointVars, engineVars
  <2> QED
    BY <2>2, <2>3, <2>4, <2>5, <2>6, <2>7, <2>8, <2>9, <2>10, <2>11, Steps
<1> QED
  BY <1>1, <1>2, BasicsHold, PTL DEF Spec

\* The types of the license service's tables and transactions: the ledger's
\* counts stay under the number of deliveries, rows and events are about
\* suspensions and fines there are.
THEOREM TypeCorrect == Spec => []TypeOK
<1>1. Ledgers => TypeOK
  BY DEF Ledgers
<1> QED
  BY <1>1, LedgersHold, PTL

----------------------------------------------------------------------------
\* What an open transaction has read is the sum without its row, and its row.
TotalsRead == \A e \in Engine : task[e] # NoFine /\ ~raced[driver[task[e]]] =>
  total[e] = Points(driver[task[e]], began[e]) + worth[task[e]]

PointsInv == PointsAreTheLedger /\ TotalsRead

Shares(t) == [f \in Fine |-> worth[f] * Recent(f, t)]

\* Points is a sum over the license's fines of their shares.
LEMMA PointsAre ==
  ASSUME Ledgers, NEW l \in License, NEW t \in Time
  PROVE  /\ Points(l, t) = SumFunctionOnSet(Shares(t), FinesOf(l))
         /\ \A f \in FinesOf(l) : Shares(t)[f] \in Nat
         /\ IsFiniteSet(FinesOf(l)) /\ FinesOf(l) \subseteq Fine
<1>1. FinesOf(l) \subseteq Fine
  BY DEF FinesOf
<1>2. \A f \in Fine : Shares(t)[f] \in Nat
  BY PointsAreNumbers DEF Shares
<1> QED
  BY <1>1, <1>2, FiniteSums DEF Points, FinesOf, Shares

\* They are the same after a step that changes nothing about its fines.
LEMMA PointsStay ==
  ASSUME Ledgers, Ledgers', NEW l \in License, NEW t \in Time, FinesOf(l)' = FinesOf(l),
         \A f \in FinesOf(l) : worth'[f] = worth[f] /\ ledger'[f] = ledger[f]
  PROVE  Points(l, t)' = Points(l, t)
<1>1. \A f \in FinesOf(l) : f \in Fine
  BY DEF FinesOf
<1>2. \A f \in FinesOf(l) : Shares(t)'[f] = Shares(t)[f]
  <2> SUFFICES ASSUME NEW f \in FinesOf(l)
               PROVE  Shares(t)'[f] = Shares(t)[f]
    OBVIOUS
  <2>1. Recent(f, t)' = Recent(f, t)
    BY DEF Recent, Time
  <2> QED
    BY <1>1, <2>1 DEF Shares
<1>3. SumFunctionOnSet(Shares(t)', FinesOf(l)) = SumFunctionOnSet(Shares(t), FinesOf(l))
  BY <1>2, PointsAre, SumSame
<1>4. Points(l, t)' = SumFunctionOnSet(Shares(t)', FinesOf(l)')
  BY DEF Points, Shares, FinesOf
<1> QED
  BY <1>3, <1>4, PointsAre

\* A new fine has no rows, and gives no points.
LEMMA IssuedGivesNone ==
  ASSUME Ledgers, Ledgers', NEW f \in Fine, NEW l \in License, NEW n \in PointValues,
         IssueFine(f, l, n), NEW t \in Time
  PROVE  Points(l, t)' = Points(l, t)
<1>1. /\ driver[f] = NoLicense /\ driver \in [Fine -> License \cup {NoLicense}]
      /\ driver' = [driver EXCEPT ![f] = l] /\ ledger' = ledger
      /\ worth' = [worth EXCEPT ![f] = n] /\ worth \in [Fine -> PointValues \cup {0}]
  BY DEF IssueFine, pointVars, Ledgers, TypeOK
<1>2. FinesOf(l)' = FinesOf(l) \cup {f} /\ f \notin FinesOf(l)
  BY <1>1, LicenseAssumption DEF FinesOf
<1>3. \A g \in Fine : Recent(g, t)' = Recent(g, t)
  BY <1>1 DEF Recent, Time
<1>4. \A g \in FinesOf(l) : Shares(t)'[g] = Shares(t)[g]
  BY <1>1, <1>2, <1>3, PointsAre DEF Shares
<1>5. Shares(t)'[f] = 0
  <2>1. Recent(f, t) = 0
    <3>1. \A x \in Months(t) : ledger[f][x] = 0
      BY <1>1, FiniteSums DEF Ledgers
    <3>2. SumFunctionOnSet(ledger[f], Months(t)) = 0
      BY <3>1, FiniteSums, SumOfZeros
    <3> QED
      BY <3>2 DEF Recent, Months
  <2>2. n \in Nat
    BY LicenseAssumption
  <2>3. n * 0 = 0
    BY <2>2
  <2> QED
    BY <1>1, <1>3, <2>1, <2>3 DEF Shares
<1>6. /\ Points(l, t)' = SumFunctionOnSet(Shares(t)', FinesOf(l)')
      /\ IsFiniteSet(FinesOf(l)')
  <2>1. IsFiniteSet(FinesOf(l) \cup {f})
    BY PointsAre, FS_AddElement
  <2> QED
    BY <1>2, <2>1 DEF Points, Shares, FinesOf
<1>7. \A g \in FinesOf(l)' : Shares(t)'[g] \in Nat
  BY <1>2, <1>4, <1>5, PointsAre
<1>8. FinesOf(l)' \ {f} = FinesOf(l) /\ f \in FinesOf(l)'
  BY <1>2
<1>9. SumFunctionOnSet(Shares(t)', FinesOf(l)')
         = Shares(t)'[f] + SumFunctionOnSet(Shares(t)', FinesOf(l)' \ {f})
  BY <1>6, <1>7, <1>8, SumRemoves
<1>10. SumFunctionOnSet(Shares(t)', FinesOf(l)) = SumFunctionOnSet(Shares(t), FinesOf(l))
  BY <1>4, PointsAre, SumSame
<1>11. Points(l, t) \in Nat
  BY PointsAreNumbers
<1>12. Points(l, t) = SumFunctionOnSet(Shares(t), FinesOf(l))
  BY PointsAre
<1>13. Points(l, t)' = 0 + SumFunctionOnSet(Shares(t)', FinesOf(l))
  <2>1. SumFunctionOnSet(Shares(t)', FinesOf(l)' \ {f})
           = SumFunctionOnSet(Shares(t)', FinesOf(l))
    BY <1>8
  <2> QED
    BY <1>5, <1>6, <1>9, <2>1
<1> QED
  BY <1>10, <1>11, <1>12, <1>13

\* One more of something that is worth w.
LEMMA OneMore ==
  ASSUME NEW w \in Nat, NEW r \in Nat
  PROVE  w * (r + 1) = w * r + w
  OBVIOUS

\* A committed row gives its fine's points at once: no window is empty.
LEMMA CommitGivesPoints ==
  ASSUME Ledgers, Ledgers', Basics, NEW e \in Engine, ApplyCommit(e),
         NEW c \in Fine, NEW l \in License, NEW b \in Time,
         c = task[e], l = driver[c], b = began[e]
  PROVE  Points(l, b)' = Points(l, b) + worth[c]
<1>1. /\ ledger' = [ledger EXCEPT ![c][b] = @ + 1]
      /\ driver' = driver /\ worth' = worth
  BY DEF ApplyCommit, fineVars
<1>2. ledger \in [Fine -> [Time -> 0..MaxDeliveries]]
  BY DEF Ledgers, TypeOK
<1>3. /\ ledger'[c][b] = ledger[c][b] + 1
      /\ \A x \in Time \ {b} : ledger'[c][x] = ledger[c][x]
      /\ \A f \in Fine \ {c} : ledger'[f] = ledger[f]
  BY <1>1, <1>2
<1>4. c \in FinesOf(l) /\ FinesOf(l)' = FinesOf(l)
  BY <1>1 DEF FinesOf
<1>5. Recent(c, b)' = Recent(c, b) + 1
  <2>1. b \in Months(b)
    BY LicenseAssumption DEF Months, InWindow, Time
  <2>2. SumFunctionOnSet(ledger'[c], Months(b)) = SumFunctionOnSet(ledger[c], Months(b)) + 1
    BY <1>3, <2>1, HandledIs, FiniteSums, SumGrows
  <2> QED
    BY <2>2 DEF Recent, Months, Time
<1>6. Shares(b)'[c] = Shares(b)[c] + worth[c] /\ worth[c] \in Nat
  <2>1. worth[c] \in Nat /\ Recent(c, b) \in Nat
    <3>1. PointValues \cup {0} \subseteq Nat
      BY LicenseAssumption
    <3> QED
      BY <3>1, PointsAreNumbers DEF Ledgers, TypeOK
  <2>2. Shares(b)[c] = worth[c] * Recent(c, b) /\ Shares(b)'[c] = worth[c] * Recent(c, b)'
    BY <1>1 DEF Shares
  <2> QED
    BY <1>5, <2>1, <2>2, OneMore
<1>7. ASSUME NEW f \in FinesOf(l) \ {c}
      PROVE  Shares(b)'[f] = Shares(b)[f]
  <2>1. f \in Fine /\ ledger'[f] = ledger[f]
    BY <1>3, <1>7, PointsAre
  <2>2. Recent(f, b)' = Recent(f, b)
    BY <2>1 DEF Recent, Time
  <2> QED
    BY <1>1, <2>1, <2>2 DEF Shares
<1>8. SumFunctionOnSet(Shares(b)', FinesOf(l))
         = SumFunctionOnSet(Shares(b), FinesOf(l)) + worth[c]
  BY <1>4, <1>6, <1>7, PointsAre, SumGrows
<1>9. Points(l, b)' = SumFunctionOnSet(Shares(b)', FinesOf(l)')
  BY DEF Points, Shares, FinesOf
<1> QED
  BY <1>4, <1>8, <1>9, PointsAre

\* A step that leaves every sum and the points alone, and every open
\* transaction but those it begins.
LEMMA PointsInvKept ==
  ASSUME Ledgers, Ledgers', Basics, PointsInv, UNCHANGED <<points, last, raced>>,
         \A l \in License, t \in Time : Points(l, t)' = Points(l, t),
         \A e \in Engine : task'[e] # NoFine =>
           \/ /\ task'[e] = task[e] /\ began'[e] = began[e] /\ total'[e] = total[e]
              /\ driver'[task[e]] = driver[task[e]] /\ worth'[task[e]] = worth[task[e]]
           \/ total'[e] = Points(driver'[task'[e]], began'[e]) + worth[task'[e]]
              /\ UNCHANGED <<driver, worth>> /\ driver[task'[e]] \in License
  PROVE  PointsInv'
<1>1. PointsAreTheLedger'
  <2> SUFFICES ASSUME NEW l \in License, ~raced[l]
               PROVE  points[l] = Points(l, last[l])'
    BY DEF PointsAreTheLedger
  <2>1. PICK t \in Time : t = last[l]
    BY DEF Ledgers, TypeOK
  <2>2. points[l] = Points(l, t)
    BY <2>1 DEF PointsInv, PointsAreTheLedger
  <2>3. Points(l, last[l])' = Points(l, t)'
    BY <2>1 DEF Points
  <2> QED
    BY <2>2, <2>3
<1>2. TotalsRead'
  <2> SUFFICES ASSUME NEW e \in Engine, task'[e] # NoFine, ~raced[driver'[task'[e]]]
               PROVE  total'[e] = Points(driver[task[e]], began[e])' + worth'[task'[e]]
    BY DEF TotalsRead
  <2>1. PICK t \in Time : t = began'[e]
    BY DEF Ledgers, TypeOK
  <2>2. CASE /\ task'[e] = task[e] /\ began'[e] = began[e] /\ total'[e] = total[e]
             /\ driver'[task[e]] = driver[task[e]] /\ worth'[task[e]] = worth[task[e]]
    <3>1. PICK l \in License : l = driver[task[e]]
      BY <2>2 DEF Basics, TasksBegan
    <3>2. total[e] = Points(l, t) + worth[task[e]]
      BY <2>1, <2>2, <3>1 DEF PointsInv, TotalsRead
    <3>3. Points(driver[task[e]], began[e])' = Points(l, t)'
      BY <2>1, <2>2, <3>1 DEF Points
    <3> QED
      BY <2>2, <3>2, <3>3
  <2>3. CASE /\ total'[e] = Points(driver'[task'[e]], began'[e]) + worth[task'[e]]
             /\ UNCHANGED <<driver, worth>> /\ driver[task'[e]] \in License
    <3>1. PICK l \in License : l = driver'[task'[e]]
      BY <2>3
    <3>2. total'[e] = Points(l, t) + worth[task'[e]]
      BY <2>1, <2>3, <3>1
    <3>3. Points(driver[task[e]], began[e])' = Points(l, t)'
      BY <2>1, <3>1 DEF Points
    <3> QED
      BY <2>3, <3>2, <3>3
  <2> QED
    BY <2>2, <2>3
<1> QED
  BY <1>1, <1>2 DEF PointsInv

\* The points a license shows are the sum of its ledger as of the last
\* transaction, unless two engines worked on it at once: for any fines,
\* however often they are delivered, and whatever transactions fail.
THEOREM PointsCorrect == Spec => []PointsAreTheLedger
<1>1. Init /\ Ledgers => PointsInv
  <2> SUFFICES ASSUME Init, Ledgers
               PROVE  PointsInv
    OBVIOUS
  <2>1. ASSUME NEW l \in License
        PROVE  points[l] = Points(l, last[l])
    <3>1. PICK t \in Time : t = last[l]
      BY DEF Ledgers, TypeOK
    <3>2. FinesOf(l) = {}
      BY LicenseAssumption DEF Init, FinesOf
    <3>3. SumFunctionOnSet(Shares(t), {}) = 0
      BY SumRemoves, FS_EmptySet
    <3> QED
      BY <3>1, <3>2, <3>3, PointsAre DEF Init
  <2> QED
    BY <2>1 DEF Init, PointsInv, PointsAreTheLedger, TotalsRead
<1>2. ASSUME Ledgers, Ledgers', Basics, PointsInv, [Next]_vars
      PROVE  PointsInv'
  <2> USE <1>2
  <2>0. /\ driver \in [Fine -> License \cup {NoLicense}]
        /\ task \in [Engine -> Fine \cup {NoFine}]
        /\ began \in [Engine -> Time] /\ total \in [Engine -> Nat]
        /\ last \in [License -> Time] /\ points \in [License -> Nat]
        /\ raced \in [License -> BOOLEAN]
        /\ worth \in [Fine -> PointValues \cup {0}]
    BY DEF Ledgers, TypeOK
  \* Without a new fine or row the sums stay.
  <2>1. ASSUME UNCHANGED <<driver, worth, ledger>>
        PROVE  \A l \in License, t \in Time : Points(l, t)' = Points(l, t)
    BY <2>1, PointsStay DEF FinesOf
  <2>2. ASSUME NEW f \in Fine, NEW k \in License, NEW n \in PointValues,
               IssueFine(f, k, n)
        PROVE  PointsInv'
    <3>1. /\ driver[f] = NoLicense /\ driver' = [driver EXCEPT ![f] = k]
          /\ worth' = [worth EXCEPT ![f] = n]
          /\ UNCHANGED <<ledger, points, last, raced, task, began, total>>
      BY <2>2 DEF IssueFine, pointVars, engineVars
    <3>2. ASSUME NEW l \in License \ {k}, NEW t \in Time
          PROVE  Points(l, t)' = Points(l, t)
      <4>1. FinesOf(l)' = FinesOf(l) /\ \A g \in FinesOf(l) : worth'[g] = worth[g]
        BY <2>0, <3>1, LicenseAssumption DEF FinesOf
      <4> QED
        BY <3>1, <4>1, PointsStay
    <3>3. \A l \in License, t \in Time : Points(l, t)' = Points(l, t)
      BY <2>2, <3>2, IssuedGivesNone
    <3>4. ASSUME NEW e \in Engine, task[e] # NoFine
          PROVE  driver'[task[e]] = driver[task[e]] /\ worth'[task[e]] = worth[task[e]]
      <4>1. task[e] # f /\ task[e] \in Fine
        BY <2>0, <3>1, <3>4, LicenseAssumption DEF Basics, TasksBegan
      <4> QED
        BY <2>0, <3>1, <4>1
    <3> QED
      BY <3>1, <3>3, <3>4, PointsInvKept
  <2>3. ASSUME NEW e \in Engine, ApplyCommit(e)
        PROVE  PointsInv'
    <3>1. PICK c \in Fine, b \in Time : c = task[e] /\ b = began[e]
      BY <2>0, <2>3 DEF ApplyCommit
    <3>2. PICK l \in License : l = driver[c]
      BY <3>1, LicenseAssumption DEF Basics, TasksBegan
    <3>3. /\ ledger' = [ledger EXCEPT ![c][b] = @ + 1]
          /\ points' = [points EXCEPT ![l] = total[e]]
          /\ last' = [last EXCEPT ![l] = b]
          /\ raced' = [raced EXCEPT ![l] = @ \/ \E d \in Engine \ {e} :
                                     task[d] # NoFine /\ driver[task[d]] = l]
          /\ task' = [task EXCEPT ![e] = NoFine]
          /\ began' = [began EXCEPT ![e] = 0]
          /\ total' = [total EXCEPT ![e] = 0]
          /\ driver' = driver /\ worth' = worth
      BY <2>3, <3>1, <3>2 DEF ApplyCommit, EndTask, fineVars
    <3>4. ASSUME NEW k \in License \ {l}, NEW t \in Time
          PROVE  Points(k, t)' = Points(k, t)
      <4>1. FinesOf(k)' = FinesOf(k) /\ c \notin FinesOf(k)
        BY <3>2, <3>3 DEF FinesOf
      <4>2. \A g \in FinesOf(k) : ledger'[g] = ledger[g]
        <5>1. ledger \in [Fine -> [Time -> 0..MaxDeliveries]]
          BY DEF Ledgers, TypeOK
        <5> QED
          BY <3>3, <4>1, <5>1 DEF FinesOf
      <4> QED
        BY <3>3, <4>1, <4>2, PointsStay
    <3>5. ASSUME NEW k \in License, ~raced'[k]
          PROVE  points'[k] = Points(k, last[k])'
      <4>1. PICK t \in Time : t = last'[k]
        BY DEF Ledgers, TypeOK
      <4>2. Points(k, last[k])' = Points(k, t)'
        BY <4>1 DEF Points
      <4>3. CASE k = l
        <5>1. t = b /\ points'[k] = total[e] /\ ~raced[l]
          BY <2>0, <3>3, <3>5, <4>1, <4>3
        <5>2. total[e] = Points(l, b) + worth[c]
          BY <3>1, <3>2, <5>1, LicenseAssumption DEF PointsInv, TotalsRead
        <5>3. Points(l, b)' = Points(l, b) + worth[c]
          BY <2>3, <3>1, <3>2, CommitGivesPoints
        <5> QED
          BY <4>2, <4>3, <5>1, <5>2, <5>3
      <4>4. CASE k # l
        <5>1. t = last[k] /\ points'[k] = points[k] /\ ~raced[k]
          BY <2>0, <3>3, <3>5, <4>1, <4>4
        <5>2. points[k] = Points(k, t)
          BY <5>1 DEF PointsInv, PointsAreTheLedger
        <5> QED
          BY <3>4, <4>2, <4>4, <5>1, <5>2
      <4> QED
        BY <4>3, <4>4
    <3>6. ASSUME NEW d \in Engine, task'[d] # NoFine, ~raced'[driver'[task'[d]]]
          PROVE  total'[d] = Points(driver[task[d]], began[d])' + worth'[task'[d]]
      <4>1. d # e /\ task'[d] = task[d] /\ began'[d] = began[d] /\ total'[d] = total[d]
        BY <2>0, <3>3, <3>6
      <4>2. PICK k \in License, t \in Time : k = driver[task[d]] /\ t = began[d]
        BY <2>0, <3>6, <4>1 DEF Basics, TasksBegan
      <4>3. k # l /\ ~raced[k]
        BY <2>0, <3>3, <3>6, <4>1, <4>2
      <4>4. total[d] = Points(k, t) + worth[task[d]]
        BY <3>6, <4>1, <4>2, <4>3 DEF PointsInv, TotalsRead
      <4>5. Points(driver[task[d]], began[d])' = Points(k, t)'
        BY <3>3, <4>1, <4>2 DEF Points
      <4> QED
        BY <3>3, <3>4, <4>1, <4>3, <4>4, <4>5
    <3> QED
      BY <3>5, <3>6 DEF PointsInv, PointsAreTheLedger, TotalsRead
  <2>4. ASSUME NEW e \in Engine, ApplyFails(e)
        PROVE  PointsInv'
    <3>1. /\ UNCHANGED <<driver, worth, ledger, points, last, raced>>
          /\ task' = [task EXCEPT ![e] = NoFine]
          /\ began' = [began EXCEPT ![e] = 0]
          /\ total' = [total EXCEPT ![e] = 0]
      BY <2>4 DEF ApplyFails, EndTask, fineVars, pointVars
    <3>2. \A d \in Engine : task'[d] # NoFine =>
            task'[d] = task[d] /\ began'[d] = began[d] /\ total'[d] = total[d]
      BY <2>0, <3>1
    <3> QED
      BY <2>1, <3>1, <3>2, PointsInvKept
  <2>5. ASSUME NEW e \in Engine, NEW f \in Fine, ApplyFine(e, f)
        PROVE  PointsInv'
    <3>1. /\ UNCHANGED <<driver, worth, ledger, points, last, raced>>
          /\ driver[f] \in License
          /\ task' = [task EXCEPT ![e] = f]
          /\ began' = [began EXCEPT ![e] = now]
          /\ total' = [total EXCEPT ![e] = Points(driver[f], now) + worth[f]]
      BY <2>0, <2>5 DEF ApplyFine, fineVars, pointVars
    <3>2. \A d \in Engine \ {e} :
            task'[d] = task[d] /\ began'[d] = began[d] /\ total'[d] = total[d]
      BY <2>0, <3>1
    <3>3. task'[e] = f /\ began'[e] = now /\ total'[e] = Points(driver[f], now) + worth[f]
      BY <2>0, <3>1
    <3>4. total'[e] = Points(driver'[task'[e]], began'[e]) + worth[task'[e]]
      BY <3>1, <3>3
    <3> QED
      BY <2>1, <3>1, <3>2, <3>3, <3>4, PointsInvKept
  <2>6. CASE UNCHANGED <<driver, worth, pointVars, engineVars>>
    BY <2>1, <2>6, PointsInvKept DEF pointVars, engineVars
  <2> QED
    BY <2>2, <2>3, <2>4, <2>5, <2>6, Steps DEF Month, AddSuspension, LiftCommit,
       LiftRollback, LiftRead, fineVars, vars
<1>3. PointsInv => PointsAreTheLedger
  BY DEF PointsInv
<1> QED
  BY <1>1, <1>2, <1>3, LedgersHold, BasicsHold, PTL DEF Spec

----------------------------------------------------------------------------
(***************************************************************************)
(* The notifications service.                                              *)
(***************************************************************************)
\* What a tick holds at each of its steps.
TickHolds(t) ==
  /\ t.at # 0 <=> t.step \in {"send", "commit"}
  /\ t.step \in {"rest", "read"} => t.batch = {}
  /\ t.step = "send" => t.to \in Party
  /\ t.step = "commit" <=> t.status # "pending"
  /\ t.status \in {"sent", "failed"} => t.to \in Party
  /\ t.taken => t.step = "commit" /\ t.status # "suppressed"
  /\ t.status = "sent" => t.taken

\* Where it is: above the offset it has read, up to the highest of its batch.
TickReaches(t) ==
  /\ t.last \in committed \cup {0}
  /\ \A e \in t.batch : e > t.last
  /\ t.at # 0 => t.at > t.last
  /\ t.step \notin {"rest", "read"} => t.highest \in committed /\ t.highest > t.last

TicksInv ==
  /\ NotificationsTypeOK
  /\ IsFiniteSet({r \in Replica : tick[r].step # "rest"})
  /\ offset \in committed \cup {0}
  /\ \A r \in Replica : TickHolds(tick[r]) /\ TickReaches(tick[r])

\* A nonempty set of events has a highest one.
LEMMA HighestIs ==
  ASSUME NEW E \in SUBSET Event, E # {}
  PROVE  Highest(E) \in E /\ \A f \in E : f <= Highest(E)
<1> DEFINE D == {n \in Nat : \E e \in E : e + n = MaxEvent}
<1>1. \A e \in E : e \in Nat /\ e <= MaxEvent /\ MaxEvent \in Nat
  BY NotificationsAssumption DEF Event
<1>2. \A e \in E : MaxEvent - e \in D
  BY <1>1
<1>3. D \subseteq Nat /\ D # {}
  BY <1>2
<1> HIDE DEF D
<1>4. PICK n \in D : \A m \in D : n <= m
  BY <1>3, LeastNumber
<1>5. PICK e \in E : e + n = MaxEvent
  BY <1>4 DEF D
<1>6. ASSUME NEW f \in E
      PROVE  f <= e
  <2>1. n <= MaxEvent - f /\ n \in Nat
    BY <1>2, <1>3, <1>4
  <2> QED
    BY <1>1, <1>5, <2>1
<1> QED
  BY <1>6 DEF Highest

\* A replica's step is one of these, in fields of its tick.
Stepped(r, step, from, batch, highest, at, to, status, taken) ==
  /\ \A q \in Replica \ {r} : tick'[q] = tick[q]
  /\ tick'[r].step = step /\ tick'[r].last = from
  /\ tick'[r].batch = batch /\ tick'[r].highest = highest
  /\ tick'[r].at = at /\ tick'[r].to = to
  /\ tick'[r].status = status /\ tick'[r].taken = taken

\* One replica's tick moves, to where it holds what it should.
LEMMA TicksKept ==
  ASSUME TicksInv, NotificationsTypeOK', committed' = committed,
         offset' \in committed \cup {0},
         NEW r \in Replica, \A q \in Replica \ {r} : tick'[q] = tick[q],
         TickHolds(tick'[r]), TickReaches(tick'[r])
  PROVE  TicksInv'
<1>1. {q \in Replica : tick'[q].step # "rest"}
         \subseteq {q \in Replica : tick[q].step # "rest"} \cup {r}
  OBVIOUS
<1>2. IsFiniteSet({q \in Replica : tick'[q].step # "rest"})
  <2>1. IsFiniteSet({q \in Replica : tick[q].step # "rest"} \cup {r})
    BY FS_AddElement DEF TicksInv
  <2> QED
    BY <1>1, <2>1, FS_Subset
<1>3. \A q \in Replica : TickHolds(tick'[q]) /\ TickReaches(tick'[q])
  BY DEF TicksInv
<1>4. \A q \in Replica : TickReaches(tick[q])'
  BY <1>3 DEF TickReaches
<1>5. \A q \in Replica : TickHolds(tick[q])'
  BY <1>3 DEF TickHolds
<1> QED
  BY <1>2, <1>4, <1>5 DEF TicksInv

\* A tick starts from the offset.
LEMMA ReadOffsetMoves ==
  ASSUME TicksInv, NEW r \in Replica, ReadOffset(r)
  PROVE  /\ Stepped(r, "read", offset, {}, tick[r].highest, 0, tick[r].to, "pending", FALSE)
         /\ TicksInv'
<1>1. /\ tick[r] \in Ticks /\ tick[r].step = "rest"
      /\ tick' = [tick EXCEPT ![r].step = "read", ![r].last = offset]
      /\ UNCHANGED <<world, offset, records, message, faults>>
  BY DEF ReadOffset, TicksInv, NotificationsTypeOK
<1>2. Stepped(r, "read", offset, {}, tick[r].highest, 0, tick[r].to, "pending", FALSE)
  BY <1>1 DEF Stepped, TicksInv, TickHolds, NotificationsTypeOK, Ticks
<1>3. tick' \in [Replica -> Ticks]
  BY <1>1 DEF TicksInv, NotificationsTypeOK, Ticks
<1>4. NotificationsTypeOK'
  BY <1>1, <1>3 DEF TicksInv, NotificationsTypeOK, world, records
<1>5. TickHolds(tick'[r]) /\ TickReaches(tick'[r])
  BY <1>2 DEF Stepped, TickHolds, TickReaches, TicksInv
<1> QED
  BY <1>1, <1>2, <1>4, <1>5, TicksKept DEF Stepped, TicksInv, world

\* A tick that is over.
LEMMA RestIsTick == Rest \in Ticks
<1>1. 0 \in 0..MaxEvent
  BY NotificationsAssumption
<1> QED
  BY <1>1 DEF Rest, Ticks

\* A tick that ends, done or cut short, holds and reaches nothing.
LEMMA RestMoves ==
  ASSUME TicksInv, NEW r \in Replica, tick' = [tick EXCEPT ![r] = Rest],
         NotificationsTypeOK', offset' \in committed \cup {0}, committed' = committed
  PROVE  /\ Stepped(r, "rest", 0, {}, 0, 0, Nobody, "pending", FALSE)
         /\ TicksInv'
<1>1. Stepped(r, "rest", 0, {}, 0, 0, Nobody, "pending", FALSE)
  BY DEF Stepped, TicksInv, NotificationsTypeOK, Rest
<1>2. TickHolds(tick'[r]) /\ TickReaches(tick'[r])
  BY <1>1 DEF Stepped, TickHolds, TickReaches
<1> QED
  BY <1>1, <1>2, TicksKept DEF Stepped

\* A batch is of committed rows above the offset, and its highest is one.
LEMMA ReadBatchMoves ==
  ASSUME TicksInv, NEW r \in Replica, ReadBatch(r),
         NEW B, B = Lowest({e \in committed : e > tick[r].last}), B # {}
  PROVE  /\ Stepped(r, "next", tick[r].last, B, Highest(B), 0, tick[r].to, "pending", FALSE)
         /\ TicksInv'
         /\ Highest(B) \in B /\ \A f \in B : f <= Highest(B)
<1>1. /\ tick[r] \in Ticks /\ tick[r].step = "read"
      /\ tick' = [tick EXCEPT ![r] = [@ EXCEPT !.step = "next", !.batch = B,
                                                !.highest = Highest(B)]]
      /\ UNCHANGED <<world, offset, records, message, faults>>
  BY DEF ReadBatch, TicksInv, NotificationsTypeOK
<1>2. B \subseteq committed /\ committed \subseteq Event /\ \A e \in B : e > tick[r].last
  BY DEF Lowest, TicksInv, NotificationsTypeOK
<1>3. Highest(B) \in B /\ \A f \in B : f <= Highest(B)
  BY <1>2, HighestIs
<1>4. Stepped(r, "next", tick[r].last, B, Highest(B), 0, tick[r].to, "pending", FALSE)
  BY <1>1 DEF Stepped, TicksInv, TickHolds, NotificationsTypeOK, Ticks
<1>5. tick' \in [Replica -> Ticks]
  <2>0. Event \subseteq 0..MaxEvent
    BY NotificationsAssumption DEF Event
  <2>1. Highest(B) \in 0..MaxEvent /\ B \in SUBSET Event
    BY <1>2, <1>3, <2>0
  <2> QED
    BY <1>1, <2>1 DEF TicksInv, NotificationsTypeOK, Ticks
<1>6. NotificationsTypeOK'
  BY <1>1, <1>5 DEF TicksInv, NotificationsTypeOK, world, records
<1>7. TickHolds(tick'[r]) /\ TickReaches(tick'[r])
  BY <1>2, <1>3, <1>4 DEF Stepped, TickHolds, TickReaches, TicksInv
<1> QED
  BY <1>1, <1>3, <1>4, <1>6, <1>7, TicksKept DEF Stepped, TicksInv, world

\* A replica reads a batch, or finds nothing above its offset and rests.
LEMMA ReadBatchIs ==
  ASSUME TicksInv, NEW r \in Replica, ReadBatch(r)
  PROVE  /\ \/ Stepped(r, "rest", 0, {}, 0, 0, Nobody, "pending", FALSE)
            \/ \E B \in SUBSET committed :
                 /\ B = Lowest({e \in committed : e > tick[r].last})
                 /\ Highest(B) \in B /\ \A f \in B : f <= Highest(B)
                 /\ Stepped(r, "next", tick[r].last, B, Highest(B), 0, tick[r].to,
                            "pending", FALSE)
         /\ TicksInv'
<1>1. PICK B \in SUBSET committed : B = Lowest({e \in committed : e > tick[r].last})
  BY DEF Lowest
<1>2. CASE B = {}
  <2>1. tick' = [tick EXCEPT ![r] = Rest] /\ UNCHANGED <<world, offset, records, message, faults>>
    BY <1>1, <1>2 DEF ReadBatch
  <2>2. NotificationsTypeOK'
    BY <2>1, RestIsTick DEF TicksInv, NotificationsTypeOK, world, records
  <2> QED
    BY <2>1, <2>2, RestMoves DEF TicksInv, world
<1>3. CASE B # {}
  BY <1>1, <1>3, ReadBatchMoves
<1> QED
  BY <1>2, <1>3

\* An event that nobody is told of leaves the batch.
LEMMA IgnoreMoves ==
  ASSUME TicksInv, NEW r \in Replica, NEW e \in Event, Ignore(r, e)
  PROVE  /\ Stepped(r, "next", tick[r].last, tick[r].batch \ {e}, tick[r].highest,
                    0, tick[r].to, "pending", FALSE)
         /\ TicksInv'
<1>1. /\ tick[r] \in Ticks /\ tick[r].step = "next"
      /\ tick' = [tick EXCEPT ![r].batch = @ \ {e}]
      /\ UNCHANGED <<world, offset, records, message, faults>>
  BY DEF Ignore, IsNext, TicksInv, NotificationsTypeOK
<1>2. Stepped(r, "next", tick[r].last, tick[r].batch \ {e}, tick[r].highest,
              0, tick[r].to, "pending", FALSE)
  BY <1>1 DEF Stepped, TicksInv, TickHolds, NotificationsTypeOK, Ticks
<1>3. tick' \in [Replica -> Ticks]
  BY <1>1 DEF TicksInv, NotificationsTypeOK, Ticks
<1>4. NotificationsTypeOK'
  BY <1>1, <1>3 DEF TicksInv, NotificationsTypeOK, world, records
<1>5. TickHolds(tick'[r]) /\ TickReaches(tick'[r])
  BY <1>1, <1>2 DEF Stepped, TickHolds, TickReaches, TicksInv
<1> QED
  BY <1>1, <1>2, <1>4, <1>5, TicksKept DEF Stepped, TicksInv, world

\* Updating five fields of such a record.
LEMMA RecordKept ==
  ASSUME NEW Step, NEW Id, NEW Ids, NEW To, NEW Status,
         NEW t \in [step : Step, last : Id, batch : Ids, highest : Id, at : Id, to : To,
                    status : Status, taken : BOOLEAN],
         NEW s \in Step, NEW b \in Ids, NEW a \in Id, NEW p \in To, NEW u \in Status
  PROVE  [t EXCEPT !.batch = b, !.at = a, !.to = p, !.step = s, !.status = u]
           \in [step : Step, last : Id, batch : Ids, highest : Id, at : Id, to : To,
                status : Status, taken : BOOLEAN]
  OBVIOUS

\* What Resolved does to each field.
LEMMA ResolvedIs ==
  ASSUME NEW t \in Ticks, NEW e \in Event, NEW p \in Party \cup {Nobody},
         NEW step, step = IF p = Nobody THEN "commit" ELSE "send",
         NEW status, status = IF p = Nobody THEN "suppressed" ELSE "pending"
  PROVE  /\ Resolved(t, e, p) \in Ticks
         /\ Resolved(t, e, p).step = step /\ Resolved(t, e, p).last = t.last
         /\ Resolved(t, e, p).batch = t.batch \ {e}
         /\ Resolved(t, e, p).highest = t.highest
         /\ Resolved(t, e, p).at = e /\ Resolved(t, e, p).to = p
         /\ Resolved(t, e, p).status = status /\ Resolved(t, e, p).taken = t.taken
<1>1. Resolved(t, e, p) = [t EXCEPT !.batch = t.batch \ {e}, !.at = e, !.to = p,
                                    !.step = step, !.status = status]
  BY DEF Resolved
<1>2. e \in 0..MaxEvent /\ step \in {"commit", "send"} /\ status \in {"suppressed", "pending"}
  BY NotificationsAssumption DEF Event
<1>3. Resolved(t, e, p) \in Ticks
  <2>1. t.batch \ {e} \in SUBSET Event
    BY DEF Ticks
  <2>2. /\ step \in {"rest", "read", "next", "send", "commit"}
        /\ status \in {"pending", "suppressed", "sent", "failed"}
    BY <1>2
  <2>3. [t EXCEPT !.batch = t.batch \ {e}, !.at = e, !.to = p, !.step = step,
                  !.status = status] \in Ticks
    BY ONLY t \in Ticks, p \in Party \cup {Nobody}, <1>2, <2>1, <2>2, RecordKept, Zenon DEF Ticks
  <2> QED
    BY <1>1, <2>3
<1>4. /\ Resolved(t, e, p).step = step /\ Resolved(t, e, p).last = t.last
      /\ Resolved(t, e, p).batch = t.batch \ {e}
      /\ Resolved(t, e, p).highest = t.highest
  BY <1>1 DEF Ticks
<1>5. /\ Resolved(t, e, p).at = e /\ Resolved(t, e, p).to = p
      /\ Resolved(t, e, p).status = status /\ Resolved(t, e, p).taken = t.taken
  BY <1>1 DEF Ticks
<1> QED
  BY <1>3, <1>4, <1>5

\* One that somebody may be told of becomes the one at hand.
LEMMA ResolveMoves ==
  ASSUME TicksInv, NEW r \in Replica, NEW e \in Event, Resolve(r, e),
         NEW p, p = Recipient(e),
         NEW step, step = IF p = Nobody THEN "commit" ELSE "send",
         NEW status, status = IF p = Nobody THEN "suppressed" ELSE "pending"
  PROVE  /\ Stepped(r, step, tick[r].last, tick[r].batch \ {e}, tick[r].highest,
                    e, p, status, FALSE)
         /\ TicksInv'
<1>1. /\ tick[r] \in Ticks /\ tick[r].step = "next" /\ e \in tick[r].batch
      /\ tick' = [tick EXCEPT ![r] = Resolved(tick[r], e, p)]
      /\ tick \in [Replica -> Ticks]
      /\ UNCHANGED <<world, offset, records, message, faults>>
  BY DEF Resolve, IsNext, TicksInv, NotificationsTypeOK
<1>2. p \in Party \cup {Nobody} /\ e # 0
  <2>1. PartyOf[e] \in Party /\ owner \in Party
    BY NotificationsAssumption DEF TicksInv, NotificationsTypeOK
  <2>2. p \in Party \cup {Nobody}
    BY <2>1 DEF Recipient, ResolveByVehicle, ResolveByLicense, ResolveBuyer, Contact
  <2> QED
    BY <2>2, NotificationsAssumption DEF Event
<1>3. /\ tick'[r] = Resolved(tick[r], e, p) /\ tick[r].taken = FALSE
      /\ \A q \in Replica \ {r} : tick'[q] = tick[q]
  BY <1>1 DEF TicksInv, TickHolds, Ticks
<1>4. Stepped(r, step, tick[r].last, tick[r].batch \ {e}, tick[r].highest,
              e, p, status, FALSE)
  BY <1>1, <1>2, <1>3, ResolvedIs DEF Stepped
<1>5. tick' \in [Replica -> Ticks]
  BY <1>1, <1>2, ResolvedIs
<1>6. NotificationsTypeOK'
  BY <1>1, <1>5 DEF TicksInv, NotificationsTypeOK, world, records
<1>7. TickHolds(tick'[r]) /\ TickReaches(tick'[r])
  BY <1>1, <1>2, <1>4 DEF Stepped, TickHolds, TickReaches, TicksInv
<1> QED
  BY <1>1, <1>3, <1>4, <1>6, <1>7, TicksKept DEF TicksInv, world

\* Counting one more keeps the type of the counts.
LEMMA MoreCounts ==
  ASSUME NEW count \in Counts, NEW e \in Event, NEW p \in Party
  PROVE  /\ More(count, e, p) \in Counts
         /\ More(count, e, p)[e][p] = count[e][p] + 1
         /\ \A f \in Event, q \in Party :
              <<f, q>> # <<e, p>> => More(count, e, p)[f][q] = count[f][q]
<1>1. count[e] \in [Party -> Nat] /\ count \in [Event -> [Party -> Nat]]
  BY DEF Counts
<1>2. More(count, e, p) = [count EXCEPT ![e] = [count[e] EXCEPT ![p] = count[e][p] + 1]]
  BY <1>1 DEF More
<1>3. [count[e] EXCEPT ![p] = count[e][p] + 1] \in [Party -> Nat]
  BY <1>1
<1>4. More(count, e, p) \in Counts
  BY <1>1, <1>2, <1>3 DEF Counts
<1>5. ASSUME NEW f \in Event, NEW q \in Party, <<f, q>> # <<e, p>>
      PROVE  More(count, e, p)[f][q] = count[f][q]
  <2>1. f # e \/ q # p
    BY <1>5
  <2> QED
    BY <1>1, <1>2, <2>1
<1> QED
  BY <1>1, <1>2, <1>4, <1>5

\* The provider's answer is marked; a message it took is counted.
LEMMA SendMoves ==
  ASSUME TicksInv, NEW r \in Replica, NEW taken \in BOOLEAN, NEW told \in BOOLEAN,
         Send(r, taken, told),
         NEW status, status = IF told THEN "sent" ELSE "failed"
  PROVE  /\ tick[r].step = "send" /\ tick[r].at \in Event /\ tick[r].to \in Party
         /\ Stepped(r, "commit", tick[r].last, tick[r].batch, tick[r].highest,
                    tick[r].at, tick[r].to, status, taken)
         /\ TicksInv'
<1>1. /\ tick[r] \in Ticks /\ tick[r].step = "send" /\ tick \in [Replica -> Ticks]
      /\ tick' = [tick EXCEPT ![r].step = "commit", ![r].taken = taken, ![r].status = status]
      /\ UNCHANGED <<world, offset, sent, failed, suppressed, dropped, message, faults>>
  BY DEF Send, TicksInv, NotificationsTypeOK
<1>2. tick[r].at \in Event /\ tick[r].to \in Party
  <2>1. tick[r].at \in 0..MaxEvent /\ tick[r].at # 0 /\ tick[r].to \in Party
    BY <1>1 DEF TicksInv, TickHolds, Ticks
  <2> QED
    BY <2>1, NotificationsAssumption DEF Event
<1>3. Stepped(r, "commit", tick[r].last, tick[r].batch, tick[r].highest,
              tick[r].at, tick[r].to, status, taken)
  BY <1>1 DEF Stepped, Ticks
<1>4. tick' \in [Replica -> Ticks]
  <2>1. status \in {"sent", "failed"}
    OBVIOUS
  <2> QED
    BY <1>1, <2>1 DEF Ticks
<1>5. accepted' \in Counts /\ torn' \subseteq Event
  BY <1>2, MoreCounts DEF Send, TicksInv, NotificationsTypeOK
<1>6. NotificationsTypeOK'
  BY <1>1, <1>4, <1>5 DEF TicksInv, NotificationsTypeOK, world
<1>7. told => taken
  BY DEF Send
<1>8. TickHolds(tick'[r]) /\ TickReaches(tick'[r])
  BY <1>1, <1>2, <1>3, <1>7 DEF Stepped, TickHolds, TickReaches, TicksInv
<1> QED
  BY <1>1, <1>2, <1>3, <1>6, <1>8, TicksKept DEF Stepped, TicksInv, world

\* The tick that goes on with the next event.
LEMMA NextEventMoves ==
  ASSUME TicksInv, NEW r \in Replica, tick[r].step \in {"send", "commit"},
         tick' = [tick EXCEPT ![r] = NextEvent(tick[r])]
  PROVE  /\ Stepped(r, "next", tick[r].last, tick[r].batch, tick[r].highest,
                    0, Nobody, "pending", FALSE)
         /\ tick' \in [Replica -> Ticks]
         /\ TickHolds(tick'[r]) /\ TickReaches(tick'[r])
<1>1. tick[r] \in Ticks /\ tick \in [Replica -> Ticks]
  BY DEF TicksInv, NotificationsTypeOK
<1>2. 0 \in 0..MaxEvent
  BY NotificationsAssumption
<1>3. NextEvent(tick[r]) \in Ticks
  BY <1>1, <1>2 DEF Ticks, NextEvent
<1>4. tick' \in [Replica -> Ticks]
  BY <1>1, <1>3
<1>5. tick'[r] = NextEvent(tick[r]) /\ \A q \in Replica \ {r} : tick'[q] = tick[q]
  BY <1>1
<1>6. Stepped(r, "next", tick[r].last, tick[r].batch, tick[r].highest,
              0, Nobody, "pending", FALSE)
  BY <1>1, <1>5 DEF Stepped, NextEvent, Ticks
<1>7. TickHolds(tick'[r]) /\ TickReaches(tick'[r])
  BY <1>6 DEF Stepped, TickHolds, TickReaches, TicksInv
<1> QED
  BY <1>4, <1>6, <1>7

\* Where an event at hand is.
LEMMA AtHand ==
  ASSUME TicksInv, NEW r \in Replica, tick[r].step \in {"send", "commit"}
  PROVE  /\ tick[r].at \in Event
         /\ tick[r].status \in {"sent", "failed"} => tick[r].to \in Party
<1>1. tick[r].at \in 0..MaxEvent /\ tick[r].at # 0
  BY DEF TicksInv, TickHolds, NotificationsTypeOK, Ticks
<1> QED
  BY <1>1, NotificationsAssumption DEF TicksInv, TickHolds, Event

\* The transaction commits, and the tick goes on.
LEMMA CommitMoves ==
  ASSUME TicksInv, NEW r \in Replica, Commit(r)
  PROVE  /\ Stepped(r, "next", tick[r].last, tick[r].batch, tick[r].highest,
                    0, Nobody, "pending", FALSE)
         /\ TicksInv'
<1>1. /\ tick[r].step = "commit" /\ tick' = [tick EXCEPT ![r] = NextEvent(tick[r])]
      /\ UNCHANGED <<world, offset, accepted, torn, dropped, message, faults>>
  BY DEF Commit
<1>2. sent' \in Counts /\ failed' \in Counts /\ suppressed' \subseteq Event
  BY <1>1, AtHand, MoreCounts DEF Commit, TicksInv, NotificationsTypeOK
<1>3. NotificationsTypeOK'
  BY <1>1, <1>2, NextEventMoves DEF TicksInv, NotificationsTypeOK, world
<1> QED
  BY <1>1, <1>3, NextEventMoves, TicksKept DEF Stepped, TicksInv, world

\* The transaction is rolled back, and the tick goes on.
LEMMA RollbackMoves ==
  ASSUME TicksInv, NEW r \in Replica, Rollback(r)
  PROVE  /\ Stepped(r, "next", tick[r].last, tick[r].batch, tick[r].highest,
                    0, Nobody, "pending", FALSE)
         /\ TicksInv'
<1>1. /\ tick[r].step \in {"send", "commit"} /\ tick' = [tick EXCEPT ![r] = NextEvent(tick[r])]
      /\ UNCHANGED <<world, offset, sent, failed, suppressed, accepted, message, faults>>
  BY DEF Rollback
<1>2. dropped' \subseteq Event /\ torn' \subseteq Event
  BY <1>1, AtHand DEF Rollback, Torn, TicksInv, NotificationsTypeOK
<1>3. NotificationsTypeOK'
  BY <1>1, <1>2, NextEventMoves DEF TicksInv, NotificationsTypeOK, world
<1> QED
  BY <1>1, <1>3, NextEventMoves, TicksKept DEF Stepped, TicksInv, world

\* The offset that a tick saves is of a committed row above the one it read.
LEMMA AdvanceMoves ==
  ASSUME TicksInv, NEW r \in Replica, Advance(r)
  PROVE  /\ Stepped(r, "rest", 0, {}, 0, 0, Nobody, "pending", FALSE)
         /\ offset' > tick[r].last
         /\ TicksInv'
<1>1. /\ tick[r].step = "next" /\ tick' = [tick EXCEPT ![r] = Rest]
      /\ offset' = tick[r].highest
      /\ UNCHANGED <<world, records, message, faults>>
  BY DEF Advance
<1>2. offset' \in committed /\ offset' > tick[r].last /\ offset' \in 0..MaxEvent
  BY <1>1 DEF TicksInv, TickReaches, NotificationsTypeOK, Ticks
<1>3. NotificationsTypeOK'
  BY <1>1, <1>2, RestIsTick DEF TicksInv, NotificationsTypeOK, world, records
<1> QED
  BY <1>1, <1>2, <1>3, RestMoves DEF world

\* A tick is cut short wherever it is.
LEMMA TickEndsMoves ==
  ASSUME TicksInv, NEW r \in Replica, TickEnds(r)
  PROVE  /\ Stepped(r, "rest", 0, {}, 0, 0, Nobody, "pending", FALSE)
         /\ TicksInv'
<1>1. /\ tick' = [tick EXCEPT ![r] = Rest]
      /\ faults < MaxFaults /\ faults' = faults + 1 /\ torn' = Torn(tick[r])
      /\ UNCHANGED <<world, offset, sent, failed, suppressed, accepted, dropped, message>>
  BY DEF TickEnds
<1>2. torn' \subseteq Event
  <2>1. tick[r].taken => tick[r].at \in Event
    BY AtHand DEF TicksInv, TickHolds
  <2> QED
    BY <1>1, <2>1 DEF Torn, TicksInv, NotificationsTypeOK
<1>3. faults' \in 0..MaxFaults
  BY <1>1, NotificationsAssumption DEF TicksInv, NotificationsTypeOK
<1>4. NotificationsTypeOK'
  BY <1>1, <1>2, <1>3, RestIsTick DEF TicksInv, NotificationsTypeOK, world
<1> QED
  BY <1>1, <1>4, RestMoves DEF TicksInv, world

\* A message that counts as sent was taken, before its request was over.
MessageHolds(n) ==
  /\ n.outcome = "sent" => n.taken /\ n.step = "update"
  /\ n.row = "sent" => n.taken /\ n.step = "over"

\* What a request of an admin does.
LEMMA NotifyMoves ==
  ASSUME TicksInv, \A n \in Message : MessageHolds(message[n]),
         NEW m \in Message, Notify(m)
  PROVE  /\ \A n \in Message : MessageHolds(message'[n])
         /\ UNCHANGED <<world, offset, tick, records, faults>>
         /\ NotificationsTypeOK'
<1>1. UNCHANGED <<world, offset, tick, records, faults>>
  BY DEF Notify, NotifyInsert, NotifySend, NotifyUpdate, NotifyLost
<1>2. /\ message \in [Message -> Messages]
      /\ message[m] \in Messages /\ MessageHolds(message[m])
  BY DEF TicksInv, NotificationsTypeOK
<1>3. /\ message'[m] \in Messages /\ MessageHolds(message'[m])
      /\ \A n \in Message \ {m} : message'[n] = message[n]
      /\ DOMAIN message' = Message
      /\ message' = [message EXCEPT ![m] = message'[m]]
  <2>1. CASE NotifyInsert(m)
    BY <1>2, <2>1 DEF NotifyInsert, Messages, MessageHolds
  <2>2. ASSUME NEW taken \in BOOLEAN, NEW told \in BOOLEAN, NotifySend(m, taken, told)
        PROVE  <1>3!:
    BY <1>2, <2>2 DEF NotifySend, Messages, MessageHolds
  <2>3. CASE NotifyUpdate(m)
    BY <1>2, <2>3 DEF NotifyUpdate, Messages, MessageHolds
  <2>4. CASE NotifyLost(m)
    BY <1>2, <2>4 DEF NotifyLost, Messages, MessageHolds
  <2> QED
    BY <2>1, <2>2, <2>3, <2>4 DEF Notify
<1>4. message' \in [Message -> Messages]
  BY <1>2, <1>3
<1>5. NotificationsTypeOK'
  BY <1>1, <1>4 DEF TicksInv, NotificationsTypeOK, world, records
<1> QED
  BY <1>1, <1>3, <1>5

\* Replicas at their steps, under any interleaving of events, requests, lost
\* answers, rollbacks and stops.
LEMMA TicksHold == NotificationsSpec => [](TicksInv /\ \A n \in Message : MessageHolds(message[n]))
<1> DEFINE Inv == TicksInv /\ \A n \in Message : MessageHolds(message[n])
<1>1. NotificationsInit => Inv
  <2> SUFFICES ASSUME NotificationsInit
               PROVE  Inv
    OBVIOUS
  <2>1. NotificationsTypeOK
    BY RestIsTick, NotificationsAssumption
       DEF NotificationsInit, NotificationsTypeOK, None, Counts, Messages
  <2>2. {r \in Replica : tick[r].step # "rest"} = {}
    BY DEF NotificationsInit, Rest
  <2>3. \A r \in Replica : TickHolds(tick[r]) /\ TickReaches(tick[r])
    BY DEF NotificationsInit, Rest, TickHolds, TickReaches
  <2>4. \A n \in Message : MessageHolds(message[n])
    BY DEF NotificationsInit, MessageHolds
  <2> QED
    BY <2>1, <2>2, <2>3, <2>4, FS_EmptySet DEF NotificationsInit, TicksInv
<1>2. ASSUME Inv, [NotificationsNext]_notificationsVars
      PROVE  Inv'
  <2> USE <1>2
  \* Most steps leave the messages alone.
  <2>0. ASSUME message' = message, TicksInv'
        PROVE  Inv'
    BY <2>0 DEF MessageHolds
  <2>1. ASSUME NEW e \in Event, Appear(e)
        PROVE  Inv'
    <3>1. /\ committed' = committed \cup {e}
          /\ UNCHANGED <<owner, offset, tick, records, message, faults>>
      BY <2>1 DEF Appear
    <3>2. NotificationsTypeOK'
      BY <2>1, <3>1 DEF Appear, TicksInv, NotificationsTypeOK, records
    <3>3. \A r \in Replica : TickHolds(tick[r])' /\ TickReaches(tick[r])'
      BY <3>1 DEF TicksInv, TickHolds, TickReaches
    <3> QED
      BY <2>0, <3>1, <3>2, <3>3 DEF TicksInv
  <2>2. CASE /\ UNCHANGED <<committed, overtaken, offset, tick, records, message, faults>>
             /\ owner' \in Party
    <3>1. NotificationsTypeOK'
      BY <2>2 DEF TicksInv, NotificationsTypeOK, records
    <3>2. \A r \in Replica : TickHolds(tick[r])' /\ TickReaches(tick[r])'
      BY <2>2 DEF TicksInv, TickHolds, TickReaches
    <3> QED
      BY <2>0, <2>2, <3>1, <3>2 DEF TicksInv
  <2>3. ASSUME NEW r \in Replica, ReadBatch(r)
        PROVE  Inv'
    BY <2>0, <2>3, ReadBatchIs DEF ReadBatch
  <2>4. ASSUME NEW r \in Replica, NEW taken \in BOOLEAN, NEW told \in BOOLEAN,
               Send(r, taken, told)
        PROVE  Inv'
    BY <2>0, <2>4, SendMoves DEF Send
  <2>5. ASSUME NEW r \in Replica, NEW e \in Event, Ignore(r, e) \/ Resolve(r, e)
        PROVE  Inv'
    BY <2>0, <2>5, IgnoreMoves, ResolveMoves DEF Ignore, Resolve
  <2>6. ASSUME NEW r \in Replica,
               ReadOffset(r) \/ Commit(r) \/ Rollback(r) \/ Advance(r) \/ TickEnds(r)
        PROVE  Inv'
    BY <2>0, <2>6, ReadOffsetMoves, CommitMoves, RollbackMoves, AdvanceMoves, TickEndsMoves
       DEF ReadOffset, Commit, Rollback, Advance, TickEnds
  <2>7. ASSUME NEW m \in Message, Notify(m)
        PROVE  Inv'
    <3>1. /\ \A n \in Message : MessageHolds(message'[n])
          /\ UNCHANGED <<world, offset, tick, records, faults>>
          /\ NotificationsTypeOK'
      BY <2>7, NotifyMoves
    <3>2. \A r \in Replica : TickHolds(tick[r])' /\ TickReaches(tick[r])'
      BY <3>1 DEF TicksInv, TickHolds, TickReaches, world
    <3>3. TicksInv'
      BY <3>1, <3>2 DEF TicksInv, world
    <3> QED
      BY <3>1, <3>3 DEF MessageHolds
  <2> QED
    <3>1. CASE UNCHANGED notificationsVars
      BY <2>2, <3>1 DEF notificationsVars, world, TicksInv, NotificationsTypeOK
    <3>2. ASSUME NEW p \in Party, Transfer(p)
          PROVE  Inv'
      BY <2>2, <3>2 DEF Transfer
    <3>3. ASSUME NEW r \in Replica, TickStep(r)
          PROVE  Inv'
      BY <2>3, <2>4, <2>5, <2>6, <3>3 DEF TickStep
    <3> QED
      BY <2>1, <2>6, <2>7, <3>1, <3>2, <3>3 DEF NotificationsNext
<1> QED
  BY <1>1, <1>2, PTL DEF NotificationsSpec

\* The types of the notifications service: the offset stays within the ids there
\* may be, whatever order its replicas save it in, and a record is of somebody.
THEOREM NotificationsTypeCorrect == NotificationsSpec => []NotificationsTypeOK
<1>1. TicksInv => NotificationsTypeOK
  BY DEF TicksInv
<1> QED
  BY <1>1, TicksHold, PTL

----------------------------------------------------------------------------
\* What is written, or about to be, for p about e.
Written(e, p) == sent[e][p] + Cardinality(Marked(e, p))

Tallies == \A e \in Event, p \in Party :
  /\ Written(e, p) <= accepted[e][p]
  /\ e \notin torn => Written(e, p) = accepted[e][p]

\* The transactions that are about to write, before and after a tick moves.
LEMMA MarkedMoves ==
  ASSUME TicksInv, TicksInv', NEW r \in Replica, \A q \in Replica \ {r} : tick'[q] = tick[q],
         NEW e \in Event, NEW p \in Party
  PROVE  /\ Cardinality(Marked(e, p)) \in Nat /\ Cardinality(Marked(e, p)') \in Nat
         /\ (r \in Marked(e, p) <=> r \in Marked(e, p)')
              => Cardinality(Marked(e, p)') = Cardinality(Marked(e, p))
         /\ r \in Marked(e, p) /\ r \notin Marked(e, p)'
              => Cardinality(Marked(e, p)') = Cardinality(Marked(e, p)) - 1
         /\ r \notin Marked(e, p) /\ r \in Marked(e, p)'
              => Cardinality(Marked(e, p)') = Cardinality(Marked(e, p)) + 1
<1>1. Marked(e, p) \subseteq {q \in Replica : tick[q].step # "rest"}
  BY DEF Marked
<1>2. IsFiniteSet(Marked(e, p))
  BY <1>1, FS_Subset DEF TicksInv
<1>3. Marked(e, p)' \subseteq Marked(e, p) \cup {r}
  BY DEF Marked
<1>4. IsFiniteSet(Marked(e, p)')
  BY <1>2, <1>3, FS_AddElement, FS_Subset
<1>5. \A q \in Replica \ {r} : q \in Marked(e, p)' <=> q \in Marked(e, p)
  BY DEF Marked
<1>6. Marked(e, p) \subseteq Replica /\ Marked(e, p)' \subseteq Replica
  BY DEF Marked
<1>7. ASSUME r \in Marked(e, p) <=> r \in Marked(e, p)'
      PROVE  Cardinality(Marked(e, p)') = Cardinality(Marked(e, p))
  <2>1. Marked(e, p)' = Marked(e, p)
    BY <1>5, <1>6, <1>7
  <2> QED
    BY <2>1
<1>8. ASSUME r \in Marked(e, p), r \notin Marked(e, p)'
      PROVE  Cardinality(Marked(e, p)') = Cardinality(Marked(e, p)) - 1
  <2>1. Marked(e, p)' = Marked(e, p) \ {r}
    BY <1>5, <1>6, <1>8
  <2>2. Cardinality(Marked(e, p) \ {r}) = Cardinality(Marked(e, p)) - 1
    BY <1>2, <1>8, FS_RemoveElement
  <2> QED
    BY <2>1, <2>2
<1>9. ASSUME r \notin Marked(e, p), r \in Marked(e, p)'
      PROVE  Cardinality(Marked(e, p)') = Cardinality(Marked(e, p)) + 1
  <2>1. Marked(e, p)' = Marked(e, p) \cup {r}
    BY <1>5, <1>6, <1>9
  <2>2. Cardinality(Marked(e, p) \cup {r}) = Cardinality(Marked(e, p)) + 1
    BY <1>2, <1>9, FS_AddElement
  <2> QED
    BY <2>1, <2>2
<1> QED
  BY <1>2, <1>4, <1>7, <1>8, <1>9, FS_CardinalityType

\* A tick that moves without a record or a message keeps the tallies.
LEMMA TalliesKept ==
  ASSUME TicksInv, TicksInv', Tallies, sent' = sent, accepted' = accepted, torn \subseteq torn',
         NEW r \in Replica, \A q \in Replica \ {r} : tick'[q] = tick[q],
         tick'[r].status # "sent", tick[r].status = "sent" => tick[r].at \in torn'
  PROVE  Tallies'
<1> SUFFICES ASSUME NEW e \in Event, NEW p \in Party
             PROVE  /\ Written(e, p)' <= accepted[e][p]
                    /\ e \notin torn' => Written(e, p)' = accepted[e][p]
  BY DEF Tallies
<1>1. sent[e][p] \in Nat /\ accepted[e][p] \in Nat
  BY DEF TicksInv, NotificationsTypeOK, Counts
<1>2. r \notin Marked(e, p)' /\ (r \in Marked(e, p) => e \in torn')
  BY DEF Marked
<1>3. /\ Written(e, p) <= accepted[e][p]
      /\ e \notin torn => Written(e, p) = accepted[e][p]
  BY DEF Tallies
<1>4. /\ Written(e, p) = sent[e][p] + Cardinality(Marked(e, p))
      /\ Written(e, p)' = sent[e][p] + Cardinality(Marked(e, p)')
  BY DEF Written
<1>5. /\ Cardinality(Marked(e, p)) \in Nat /\ Cardinality(Marked(e, p)') \in Nat
      /\ r \in Marked(e, p) => Cardinality(Marked(e, p)') = Cardinality(Marked(e, p)) - 1
      /\ r \notin Marked(e, p) => Cardinality(Marked(e, p)') = Cardinality(Marked(e, p))
  BY <1>2, MarkedMoves
<1> QED
  BY <1>1, <1>2, <1>3, <1>4, <1>5

\* A message that is taken, and marked unless its answer is lost.
LEMMA SendTallies ==
  ASSUME TicksInv, Tallies, NEW r \in Replica, NEW taken \in BOOLEAN, NEW told \in BOOLEAN,
         Send(r, taken, told)
  PROVE  Tallies'
<1>1. PICK status : status = IF told THEN "sent" ELSE "failed"
  OBVIOUS
<1>2. /\ tick[r].step = "send" /\ tick[r].at \in Event /\ tick[r].to \in Party
      /\ Stepped(r, "commit", tick[r].last, tick[r].batch, tick[r].highest,
                 tick[r].at, tick[r].to, status, taken)
      /\ TicksInv'
  BY <1>1, SendMoves
<1>3. PICK at \in Event, to \in Party : at = tick[r].at /\ to = tick[r].to
  BY <1>2
<1>4. /\ tick'[r].step = "commit" /\ tick'[r].at = at /\ tick'[r].to = to
      /\ tick'[r].status = "sent" <=> told
      /\ \A q \in Replica \ {r} : tick'[q] = tick[q]
      /\ told => taken
  BY <1>1, <1>2, <1>3 DEF Stepped, Send
<1>5. /\ accepted' = IF taken THEN More(accepted, at, to) ELSE accepted
      /\ torn' = IF taken /\ ~told THEN torn \cup {at} ELSE torn
      /\ sent' = sent
  BY <1>3 DEF Send
<1> SUFFICES ASSUME NEW e \in Event, NEW p \in Party
             PROVE  /\ Written(e, p)' <= accepted'[e][p]
                    /\ e \notin torn' => Written(e, p)' = accepted'[e][p]
  BY DEF Tallies
<1>6. sent[e][p] \in Nat /\ accepted[e][p] \in Nat /\ accepted \in Counts
  BY DEF TicksInv, NotificationsTypeOK, Counts
<1>7. r \notin Marked(e, p) /\ (r \in Marked(e, p)' <=> told /\ e = at /\ p = to)
  BY <1>2, <1>4 DEF Marked
<1>8. /\ Written(e, p) <= accepted[e][p]
      /\ e \notin torn => Written(e, p) = accepted[e][p]
  BY DEF Tallies
<1>9. /\ Written(e, p) = sent[e][p] + Cardinality(Marked(e, p))
      /\ Written(e, p)' = sent[e][p] + Cardinality(Marked(e, p)')
  BY <1>5 DEF Written
<1>10. /\ Cardinality(Marked(e, p)) \in Nat /\ Cardinality(Marked(e, p)') \in Nat
       /\ r \in Marked(e, p)' => Cardinality(Marked(e, p)') = Cardinality(Marked(e, p)) + 1
       /\ r \notin Marked(e, p)' => Cardinality(Marked(e, p)') = Cardinality(Marked(e, p))
  BY <1>2, <1>4, <1>7, MarkedMoves
<1>11. CASE e = at /\ p = to
  <2>1. accepted'[e][p] = IF taken THEN accepted[e][p] + 1 ELSE accepted[e][p]
    BY <1>5, <1>6, <1>11, MoreCounts
  <2> QED
    BY <1>4, <1>5, <1>6, <1>7, <1>8, <1>9, <1>10, <1>11, <2>1
<1>12. CASE ~(e = at /\ p = to)
  <2>1. accepted'[e][p] = accepted[e][p]
    BY <1>5, <1>6, <1>12, MoreCounts
  <2>2. r \notin Marked(e, p)' /\ torn \subseteq torn'
    BY <1>5, <1>7, <1>12
  <2> QED
    BY <1>6, <1>8, <1>9, <1>10, <2>1, <2>2
<1> QED
  BY <1>11, <1>12

\* A record that commits has been marked.
LEMMA CommitTallies ==
  ASSUME TicksInv, Tallies, NEW r \in Replica, Commit(r)
  PROVE  Tallies'
<1>1. PICK at \in Event : at = tick[r].at
  BY AtHand DEF Commit
<1>2. /\ tick[r].step = "commit" /\ tick'[r].step = "next" /\ tick'[r].status = "pending"
      /\ \A q \in Replica \ {r} : tick'[q] = tick[q]
      /\ TicksInv'
      /\ accepted' = accepted /\ torn' = torn
  BY CommitMoves DEF Commit, Stepped
<1>3. CASE tick[r].status # "sent"
  <2>1. sent' = sent
    BY <1>3 DEF Commit
  <2> QED
    BY <1>2, <1>3, <2>1, TalliesKept
<1>4. CASE tick[r].status = "sent"
  <2>1. PICK to \in Party : to = tick[r].to
    BY <1>2, <1>4, AtHand
  <2>2. sent' = More(sent, at, to)
    BY <1>1, <1>4, <2>1 DEF Commit
  <2> SUFFICES ASSUME NEW e \in Event, NEW p \in Party
               PROVE  Written(e, p)' = Written(e, p)
    BY <1>2 DEF Tallies
  <2>3. r \notin Marked(e, p)' /\ (r \in Marked(e, p) <=> e = at /\ p = to)
    BY <1>1, <1>2, <1>4, <2>1 DEF Marked
  <2>4. sent[e][p] \in Nat /\ sent \in Counts
    BY DEF TicksInv, NotificationsTypeOK, Counts
  <2>5. /\ Cardinality(Marked(e, p)) \in Nat /\ Cardinality(Marked(e, p)') \in Nat
        /\ r \in Marked(e, p) => Cardinality(Marked(e, p)') = Cardinality(Marked(e, p)) - 1
        /\ r \notin Marked(e, p) => Cardinality(Marked(e, p)') = Cardinality(Marked(e, p))
    BY <1>2, <2>3, MarkedMoves
  <2>6. sent'[e][p] = IF e = at /\ p = to THEN sent[e][p] + 1 ELSE sent[e][p]
    BY <2>2, <2>4, MoreCounts
  <2> QED
    BY <2>3, <2>4, <2>5, <2>6 DEF Written
<1> QED
  BY <1>3, <1>4

\* The records tell what the provider did: a 'sent' record was taken by it,
\* and what it took has one or is about to, unless an answer, a transaction or
\* a process was lost; for any number of replicas, events and faults.
THEOREM RecordsCorrect == NotificationsSpec => []RecordsAgree
<1> DEFINE Msgs == \A n \in Message : MessageHolds(message[n])
<1>1. NotificationsInit => Tallies
  <2> SUFFICES ASSUME NotificationsInit, NEW e \in Event, NEW p \in Party
               PROVE  Written(e, p) = 0 /\ accepted[e][p] = 0
    BY DEF Tallies
  <2>1. Marked(e, p) = {}
    BY DEF NotificationsInit, Marked, Rest
  <2> QED
    BY <2>1, FS_EmptySet DEF NotificationsInit, None, Written
<1>2. ASSUME TicksInv, TicksInv', Tallies, [NotificationsNext]_notificationsVars
      PROVE  Tallies'
  <2> USE <1>2
  <2>1. CASE UNCHANGED <<tick, sent, accepted, torn>>
    BY <2>1 DEF Tallies, Written, Marked
  <2>2. ASSUME NEW r \in Replica, ReadOffset(r) \/ Advance(r) \/ ReadBatch(r)
                 \/ \E e \in Event : Ignore(r, e) \/ Resolve(r, e)
        PROVE  Tallies'
    <3>1. /\ UNCHANGED <<sent, accepted, torn>> /\ tick[r].step \in {"rest", "read", "next"}
          /\ \A q \in Replica \ {r} : tick'[q] = tick[q]
      BY <2>2 DEF ReadOffset, Advance, ReadBatch, Ignore, Resolve, IsNext, records,
         TicksInv, NotificationsTypeOK
    <3>2. tick'[r].status # "sent" /\ tick[r].status # "sent"
      <4>1. tick[r].status # "sent"
        BY <3>1 DEF TicksInv, TickHolds
      <4>2. ASSUME NEW e \in Event, Resolve(r, e)
            PROVE  tick'[r].status # "sent"
        <5>1. PICK p, step, status : /\ p = Recipient(e)
                                     /\ step = IF p = Nobody THEN "commit" ELSE "send"
                                     /\ status = IF p = Nobody THEN "suppressed" ELSE "pending"
          OBVIOUS
        <5>2. Stepped(r, step, tick[r].last, tick[r].batch \ {e}, tick[r].highest,
                      e, p, status, FALSE)
          BY <4>2, <5>1, ResolveMoves
        <5> QED
          BY <5>1, <5>2 DEF Stepped
      <4>3. ASSUME NEW e \in Event, Ignore(r, e)
            PROVE  tick'[r].status # "sent"
        BY <4>3, IgnoreMoves DEF Stepped
      <4>4. ASSUME Advance(r)
            PROVE  tick'[r].status # "sent"
        BY <4>4, AdvanceMoves DEF Stepped
      <4>5. ASSUME ReadOffset(r)
            PROVE  tick'[r].status # "sent"
        BY <4>5, ReadOffsetMoves DEF Stepped
      <4>6. ASSUME ReadBatch(r)
            PROVE  tick'[r].status # "sent"
        BY <4>6, ReadBatchIs DEF Stepped
      <4> QED
        BY <2>2, <4>1, <4>2, <4>3, <4>4, <4>5, <4>6
    <3> QED
      BY <3>1, <3>2, TalliesKept
  <2>3. ASSUME NEW r \in Replica, Rollback(r)
        PROVE  Tallies'
    <3>1. tick[r].status = "sent" => tick[r].taken
      BY DEF TicksInv, TickHolds
    <3> QED
      BY <2>3, <3>1, RollbackMoves, TalliesKept DEF Rollback, Torn, Stepped
  <2>4. ASSUME NEW r \in Replica, TickEnds(r)
        PROVE  Tallies'
    <3>1. tick[r].status = "sent" => tick[r].taken
      BY DEF TicksInv, TickHolds
    <3> QED
      BY <2>4, <3>1, TickEndsMoves, TalliesKept DEF TickEnds, Torn, Stepped
  <2>5. ASSUME NEW r \in Replica, TickStep(r)
        PROVE  Tallies'
    BY <2>2, <2>3, <2>5, SendTallies, CommitTallies DEF TickStep
  <2>6. ASSUME NEW m \in Message, Notify(m)
        PROVE  Tallies'
    BY <2>1, <2>6 DEF Notify, NotifyInsert, NotifySend, NotifyUpdate, NotifyLost, records
  <2> QED
    BY <2>1, <2>4, <2>5, <2>6 DEF NotificationsNext, Appear, Transfer, notificationsVars,
       records
<1>3. TicksInv /\ Msgs /\ Tallies => RecordsAgree
  <2> SUFFICES ASSUME TicksInv, Msgs, Tallies
               PROVE  RecordsAgree
    OBVIOUS
  <2>1. ASSUME NEW e \in Event, NEW p \in Party, e \in Inbox(p)
        PROVE  accepted[e][p] > 0
    <3>1. Cardinality(Marked(e, p)) \in Nat
      <4>1. Marked(e, p) \subseteq {q \in Replica : tick[q].step # "rest"}
        BY DEF Marked
      <4> QED
        BY <4>1, FS_Subset, FS_CardinalityType DEF TicksInv
    <3>2. sent[e][p] > 0 /\ sent[e][p] \in Nat /\ accepted[e][p] \in Nat
      BY <2>1 DEF Inbox, TicksInv, NotificationsTypeOK, Counts
    <3> QED
      BY <3>1, <3>2 DEF Tallies, Written
  <2> QED
    BY <2>1 DEF RecordsAgree, Tallies, Written, MessageHolds
<1> QED
  BY <1>1, <1>2, <1>3, TicksHold, PTL DEF NotificationsSpec

----------------------------------------------------------------------------
\* Nobody waits for a record of e any more.
Accounted(e) ==
  KindOf[e] \in {"other", "malformed"} \/ Recorded(e) \/ e \in dropped \/ e \in overtaken

\* What a tick has gone over, up to where its batch ends, but for what is left
\* of the batch and the event at hand.
TickAccounts(r) == \A e \in committed :
  /\ tick[r].step # "rest" /\ e <= tick[r].last => Accounted(e)
  /\ tick[r].step \notin {"rest", "read"} /\ e <= tick[r].highest
       => Accounted(e) \/ e \in tick[r].batch \/ e = tick[r].at

Accounts ==
  /\ \A e \in committed : e <= offset => Accounted(e)
  /\ \A r \in Replica : TickAccounts(r)

\* Records are only added, and so are the events that were rolled back.
LEMMA AccountedLasts ==
  ASSUME TicksInv,
         sent' = sent \/ \E f \in Event, q \in Party : sent' = More(sent, f, q),
         failed' = failed \/ \E f \in Event, q \in Party : failed' = More(failed, f, q),
         suppressed \subseteq suppressed', dropped \subseteq dropped',
         overtaken \subseteq overtaken',
         NEW e \in Event, Accounted(e)
  PROVE  Accounted(e)'
<1>1. ASSUME NEW count \in Counts, NEW more,
             more = count \/ \E f \in Event, q \in Party : more = More(count, f, q),
             NEW p \in Party
      PROVE  more[e][p] \in Nat /\ more[e][p] >= count[e][p] /\ count[e][p] \in Nat
  <2>1. count[e][p] \in Nat
    BY DEF Counts
  <2>2. CASE more = count
    BY <2>1, <2>2
  <2>3. ASSUME NEW f \in Event, NEW q \in Party, more = More(count, f, q)
        PROVE  more[e][p] \in Nat /\ more[e][p] >= count[e][p]
    <3>1. CASE f = e /\ q = p
      BY <2>1, <2>3, <3>1, MoreCounts
    <3>2. CASE ~(f = e /\ q = p)
      BY <2>1, <2>3, <3>2, MoreCounts
    <3> QED
      BY <3>1, <3>2
  <2> QED
    BY <1>1, <2>1, <2>2, <2>3
<1>2. sent \in Counts /\ failed \in Counts
  BY DEF TicksInv, NotificationsTypeOK
<1>3. \A p \in Party : sent[e][p] + failed[e][p] > 0 => sent'[e][p] + failed'[e][p] > 0
  <2> SUFFICES ASSUME NEW p \in Party, sent[e][p] + failed[e][p] > 0
               PROVE  sent'[e][p] + failed'[e][p] > 0
    OBVIOUS
  <2>1. sent'[e][p] \in Nat /\ sent'[e][p] >= sent[e][p] /\ sent[e][p] \in Nat
    BY <1>1, <1>2
  <2>2. failed'[e][p] \in Nat /\ failed'[e][p] >= failed[e][p] /\ failed[e][p] \in Nat
    BY <1>1, <1>2
  <2> QED
    BY <2>1, <2>2
<1> QED
  BY <1>3 DEF Accounted, Recorded

\* One replica moves, and still accounts for what it has gone over.
LEMMA AccountsKept ==
  ASSUME Accounts, committed' = committed, offset' = offset, committed \subseteq Event,
         \A e \in Event : Accounted(e) => Accounted(e)',
         NEW r \in Replica, \A q \in Replica \ {r} : tick'[q] = tick[q],
         TickAccounts(r)'
  PROVE  Accounts'
<1>1. ASSUME NEW q \in Replica \ {r}
      PROVE  TickAccounts(q)'
  BY DEF Accounts, TickAccounts
<1> QED
  BY <1>1 DEF Accounts

\* A batch leaves out no committed row between where it starts and its highest.
LEMMA LowestIsClosed ==
  ASSUME NEW E \in SUBSET Event, NEW e \in E, NEW f \in Lowest(E), e <= f
  PROVE  e \in Lowest(E)
<1> DEFINE Below(g) == {h \in E : h < g}
<1>1. MaxEvent \in Nat /\ BatchLimit \in Nat
  BY NotificationsAssumption
<1>2. IsFiniteSet(Below(f))
  <2>1. IsFiniteSet(Event)
    BY <1>1, FS_Interval DEF Event
  <2> QED
    BY <2>1, FS_Subset
<1>3. Below(e) \subseteq Below(f)
  <2>1. e \in Nat /\ f \in Nat /\ \A h \in E : h \in Nat
    BY DEF Lowest, Event
  <2>2. \A h \in E : h < e => h < f
    BY <2>1
  <2> QED
    BY <2>2
<1>4. Cardinality(Below(f)) < BatchLimit
  BY DEF Lowest
<1>5. Cardinality(Below(e)) <= Cardinality(Below(f)) /\ IsFiniteSet(Below(e))
  BY <1>2, <1>3, FS_Subset
<1>6. Cardinality(Below(e)) < BatchLimit
  <2>1. Cardinality(Below(e)) \in Nat /\ Cardinality(Below(f)) \in Nat
    BY <1>2, <1>5, FS_CardinalityType
  <2> HIDE DEF Below
  <2> QED
    BY <1>1, <1>4, <1>5, <2>1
<1> QED
  BY <1>6 DEF Lowest

\* A row that appears below the offset, or below where a tick starts or ends,
\* appears below a row that is there.
LEMMA AppearAccounts ==
  ASSUME TicksInv, Accounts, NEW e \in Event, Appear(e)
  PROVE  Accounts'
<1>1. /\ committed' = committed \cup {e}
      /\ overtaken' = IF \E f \in committed : f > e THEN overtaken \cup {e} ELSE overtaken
      /\ UNCHANGED <<offset, tick, records>>
      /\ committed \subseteq Event /\ e \in Nat \ {0} /\ e \notin committed
  BY NotificationsAssumption DEF Appear, TicksInv, NotificationsTypeOK, Event
<1>2. ASSUME NEW n \in committed \cup {0}, e <= n
      PROVE  Accounted(e)'
  <2>1. n > e /\ n \in committed
    BY <1>1, <1>2 DEF Event
  <2> QED
    BY <1>1, <2>1 DEF Accounted
<1>3. \A f \in committed : Accounted(f) => Accounted(f)'
  BY <1>1, AccountedLasts DEF records
<1>4. \A f \in committed' : f <= offset => Accounted(f)'
  BY <1>1, <1>2, <1>3 DEF Accounts, TicksInv
<1>5. ASSUME NEW r \in Replica
      PROVE  TickAccounts(r)'
  <2>1. TickAccounts(r) /\ TickReaches(tick[r])
    BY DEF Accounts, TicksInv
  <2>2. ASSUME tick[r].step # "rest", e <= tick[r].last
        PROVE  Accounted(e)'
    BY <1>2, <2>1, <2>2 DEF TickReaches
  <2>3. ASSUME tick[r].step \notin {"rest", "read"}, e <= tick[r].highest
        PROVE  Accounted(e)'
    BY <1>2, <2>1, <2>3 DEF TickReaches
  <2> QED
    BY <1>1, <1>3, <2>1, <2>2, <2>3 DEF TickAccounts
<1> QED
  BY <1>1, <1>4, <1>5 DEF Accounts

\* The tick's steps: what leaves the batch is ignored or at hand, and what was
\* at hand has its record or was rolled back.
LEMMA TickAccountsMoves ==
  ASSUME TicksInv, Accounts, \A e \in Event : Accounted(e) => Accounted(e)',
         committed' = committed, NEW r \in Replica, TickStep(r) \/ TickEnds(r)
  PROVE  /\ \A q \in Replica \ {r} : tick'[q] = tick[q]
         /\ TickAccounts(r)'
<1>1. /\ committed \subseteq Event /\ TickAccounts(r) /\ TickReaches(tick[r])
      /\ TickHolds(tick[r]) /\ tick[r] \in Ticks /\ \A e \in committed : e \in Nat
      /\ \A e \in committed : e <= offset => Accounted(e)
      /\ offset \in committed \cup {0}
  BY NotificationsAssumption DEF Accounts, TicksInv, NotificationsTypeOK, Event
<1>2. CASE ReadOffset(r)
  BY <1>1, <1>2, ReadOffsetMoves DEF Stepped, TickAccounts
<1>3. CASE ReadBatch(r)
  <2>1. CASE Stepped(r, "rest", 0, {}, 0, 0, Nobody, "pending", FALSE)
    BY <2>1 DEF Stepped, TickAccounts
  <2>2. ASSUME NEW B \in SUBSET committed, B = Lowest({e \in committed : e > tick[r].last}),
               Highest(B) \in B,
               Stepped(r, "next", tick[r].last, B, Highest(B), 0, tick[r].to, "pending", FALSE)
        PROVE  (\A q \in Replica \ {r} : tick'[q] = tick[q]) /\ TickAccounts(r)'
    <3>1. tick[r].last \in Nat /\ tick[r].step # "rest"
      BY <1>1, <1>3, NotificationsAssumption DEF ReadBatch, Ticks
    <3>2. ASSUME NEW e \in committed, e <= Highest(B), ~(e <= tick[r].last)
          PROVE  e \in B
      <4>1. {f \in committed : f > tick[r].last} \in SUBSET Event
        BY <1>1
      <4>2. e \in {f \in committed : f > tick[r].last}
        BY <1>1, <3>1, <3>2
      <4> QED
        BY <2>2, <3>2, <4>1, <4>2, LowestIsClosed
    <3> QED
      BY <1>1, <2>2, <3>1, <3>2 DEF Stepped, TickAccounts
  <2> QED
    BY <1>3, <2>1, <2>2, ReadBatchIs
<1>4. ASSUME NEW e \in Event, Ignore(r, e)
      PROVE  (\A q \in Replica \ {r} : tick'[q] = tick[q]) /\ TickAccounts(r)'
  <2>1. /\ tick[r].step = "next" /\ tick[r].at = 0
        /\ Stepped(r, "next", tick[r].last, tick[r].batch \ {e}, tick[r].highest,
                   0, tick[r].to, "pending", FALSE)
    BY <1>1, <1>4, IgnoreMoves DEF Ignore, IsNext, TickHolds
  <2>2. Accounted(e)
    BY <1>4 DEF Ignore, Accounted
  <2> QED
    BY <1>1, <2>1, <2>2 DEF Stepped, TickAccounts
<1>5. ASSUME NEW e \in Event, Resolve(r, e)
      PROVE  (\A q \in Replica \ {r} : tick'[q] = tick[q]) /\ TickAccounts(r)'
  <2>1. PICK p, step, status : /\ p = Recipient(e)
                               /\ step = IF p = Nobody THEN "commit" ELSE "send"
                               /\ status = IF p = Nobody THEN "suppressed" ELSE "pending"
    OBVIOUS
  <2>2. Stepped(r, step, tick[r].last, tick[r].batch \ {e}, tick[r].highest,
                e, p, status, FALSE)
    BY <1>5, <2>1, ResolveMoves
  <2>3. tick[r].step = "next" /\ tick[r].at = 0
    BY <1>1, <1>5 DEF Resolve, IsNext, TickHolds
  <2> QED
    BY <1>1, <2>2, <2>3 DEF Stepped, TickAccounts
<1>6. ASSUME NEW taken \in BOOLEAN, NEW told \in BOOLEAN, Send(r, taken, told)
      PROVE  (\A q \in Replica \ {r} : tick'[q] = tick[q]) /\ TickAccounts(r)'
  <2>1. PICK status : status = IF told THEN "sent" ELSE "failed"
    OBVIOUS
  <2>2. /\ tick[r].step = "send"
        /\ Stepped(r, "commit", tick[r].last, tick[r].batch, tick[r].highest,
                   tick[r].at, tick[r].to, status, taken)
    BY <1>6, <2>1, SendMoves
  <2> QED
    BY <1>1, <2>2 DEF Stepped, TickAccounts
<1>7. ASSUME tick[r].step \in {"send", "commit"}, NEW at \in Event, at = tick[r].at,
             Accounted(at)',
             Stepped(r, "next", tick[r].last, tick[r].batch, tick[r].highest,
                     0, Nobody, "pending", FALSE)
      PROVE  (\A q \in Replica \ {r} : tick'[q] = tick[q]) /\ TickAccounts(r)'
  BY <1>1, <1>7 DEF Stepped, TickAccounts
<1>8. CASE Commit(r)
  <2>1. PICK at \in Event : at = tick[r].at
    BY <1>8, AtHand DEF Commit
  <2>2. sent \in Counts /\ failed \in Counts /\ tick[r].step = "commit"
    BY <1>8 DEF Commit, TicksInv, NotificationsTypeOK
  <2>3. Accounted(at)'
    <3>1. CASE tick[r].status = "suppressed"
      BY <1>8, <2>1, <3>1 DEF Commit, Accounted, Recorded
    <3>2. CASE tick[r].status \in {"sent", "failed"}
      <4>1. PICK to \in Party : to = tick[r].to
        BY <1>1, <3>2 DEF TickHolds
      <4>2. /\ sent[at][to] \in Nat /\ failed[at][to] \in Nat
            /\ More(sent, at, to)[at][to] = sent[at][to] + 1
            /\ More(failed, at, to)[at][to] = failed[at][to] + 1
        BY <2>2, MoreCounts DEF Counts
      <4>3. \/ sent' = More(sent, at, to) /\ failed' = failed
            \/ sent' = sent /\ failed' = More(failed, at, to)
        BY <1>8, <2>1, <3>2, <4>1 DEF Commit
      <4>4. sent'[at][to] + failed'[at][to] > 0
        BY <4>2, <4>3
      <4> QED
        BY <4>4 DEF Accounted, Recorded
    <3> QED
      BY <1>1, <2>2, <3>1, <3>2 DEF TickHolds, Ticks
  <2> QED
    BY <1>7, <1>8, <2>1, <2>2, <2>3, CommitMoves
<1>9. CASE Rollback(r)
  <2>1. PICK at \in Event : at = tick[r].at
    BY <1>9, AtHand DEF Rollback
  <2>2. Accounted(at)' /\ tick[r].step \in {"send", "commit"}
    BY <1>9, <2>1 DEF Rollback, Accounted
  <2> QED
    BY <1>7, <1>9, <2>1, <2>2, RollbackMoves
<1>10. CASE Advance(r) \/ TickEnds(r)
  <2>1. Stepped(r, "rest", 0, {}, 0, 0, Nobody, "pending", FALSE)
    BY <1>10, AdvanceMoves, TickEndsMoves
  <2> QED
    BY <2>1 DEF Stepped, TickAccounts
<1> QED
  BY <1>2, <1>3, <1>4, <1>5, <1>6, <1>8, <1>9, <1>10 DEF TickStep

\* Events are accounted for once and for all, whatever happens.
LEMMA AccountedStays ==
  ASSUME TicksInv, [NotificationsNext]_notificationsVars, NEW e \in Event, Accounted(e)
  PROVE  Accounted(e)'
<1>1. CASE UNCHANGED <<records, overtaken>>
  BY <1>1, AccountedLasts DEF records
<1>2. ASSUME NEW f \in Event, Appear(f)
      PROVE  Accounted(e)'
  BY <1>2, AccountedLasts DEF Appear, records
<1>3. ASSUME NEW r \in Replica, Commit(r)
      PROVE  Accounted(e)'
  <2>1. /\ tick[r].at \in Event
        /\ tick[r].status \in {"sent", "failed"} => tick[r].to \in Party
    BY <1>3, AtHand DEF Commit
  <2>2. sent' = sent \/ \E f \in Event, q \in Party : sent' = More(sent, f, q)
    BY <1>3, <2>1 DEF Commit
  <2>3. failed' = failed \/ \E f \in Event, q \in Party : failed' = More(failed, f, q)
    BY <1>3, <2>1 DEF Commit
  <2>4. suppressed \subseteq suppressed' /\ dropped' = dropped /\ overtaken' = overtaken
    BY <1>3 DEF Commit, world
  <2> QED
    BY <2>2, <2>3, <2>4, AccountedLasts
<1>4. ASSUME NEW r \in Replica, Rollback(r) \/ TickEnds(r)
                 \/ \E taken, told \in BOOLEAN : Send(r, taken, told)
      PROVE  Accounted(e)'
  BY <1>4, AccountedLasts DEF Rollback, TickEnds, Send, world
<1>5. ASSUME NEW r \in Replica, TickStep(r)
      PROVE  Accounted(e)'
  BY <1>1, <1>3, <1>4, <1>5
     DEF TickStep, ReadOffset, ReadBatch, Ignore, Resolve, Advance, world
<1>6. ASSUME NEW m \in Message, Notify(m)
      PROVE  Accounted(e)'
  BY <1>1, <1>6 DEF Notify, NotifyInsert, NotifySend, NotifyUpdate, NotifyLost, world
<1> QED
  BY <1>1, <1>2, <1>4, <1>5, <1>6 DEF NotificationsNext, Transfer, notificationsVars, world

\* An event somebody should hear of that the offset has passed has a record,
\* or was rolled back, or its row appeared late: for any number of replicas,
\* whose batches overlap and whose offset moves back and forth, any batch size
\* and any number of ticks that are cut short.
THEOREM PassedCorrect == NotificationsSpec => []PassedIsAccounted
<1>1. NotificationsInit => Accounts
  BY DEF NotificationsInit, Accounts, TickAccounts
<1>2. ASSUME TicksInv, Accounts, [NotificationsNext]_notificationsVars
      PROVE  Accounts'
  <2> USE <1>2
  <2>1. \A e \in Event : Accounted(e) => Accounted(e)'
    BY AccountedStays
  <2>2. committed \subseteq Event
    BY DEF TicksInv, NotificationsTypeOK
  <2>3. CASE UNCHANGED <<committed, offset, tick>>
    BY <2>1, <2>2, <2>3 DEF Accounts, TickAccounts
  <2>4. ASSUME NEW r \in Replica, TickStep(r) \/ TickEnds(r)
        PROVE  Accounts'
    <3>1. committed' = committed
      BY <2>4 DEF TickStep, TickEnds, ReadOffset, ReadBatch, Ignore, Resolve, Send, Commit,
         Rollback, Advance, world
    <3>2. (\A q \in Replica \ {r} : tick'[q] = tick[q]) /\ TickAccounts(r)'
      BY <2>1, <2>4, <3>1, TickAccountsMoves
    <3>3. CASE offset' = offset
      BY <2>1, <2>2, <3>1, <3>2, <3>3, AccountsKept
    <3>4. CASE Advance(r)
      <4>1. tick[r].step = "next" /\ tick[r].batch = {} /\ tick[r].at = 0
        BY <3>4 DEF Advance, TicksInv, TickHolds
      <4>2. \A e \in committed : e # 0 /\ (e <= offset' => Accounted(e))
        BY <2>2, <3>4, <4>1, NotificationsAssumption
           DEF Advance, Accounts, TickAccounts, Event
      <4>3. \A q \in Replica \ {r} : TickAccounts(q)'
        BY <2>1, <2>2, <3>1, <3>2 DEF Accounts, TickAccounts
      <4> QED
        BY <2>1, <2>2, <3>1, <3>2, <4>2, <4>3 DEF Accounts
    <3> QED
      BY <2>4, <3>3, <3>4 DEF TickStep, TickEnds, ReadOffset, ReadBatch, Ignore, Resolve,
         Send, Commit, Rollback
  <2>5. ASSUME NEW m \in Message, Notify(m)
        PROVE  Accounts'
    BY <2>3, <2>5 DEF Notify, NotifyInsert, NotifySend, NotifyUpdate, NotifyLost, world
  <2> QED
    BY <2>3, <2>4, <2>5, AppearAccounts DEF NotificationsNext, Transfer, notificationsVars,
       world
<1>3. TicksInv /\ Accounts => PassedIsAccounted
  BY DEF Accounts, Accounted, PassedIsAccounted
<1> QED
  BY <1>1, <1>2, <1>3, TicksHold, PTL DEF NotificationsSpec

----------------------------------------------------------------------------
\* The offset of two replicas may move back, but an event that is behind it
\* and behind every tick in progress stays there, and nobody is told of it
\* again.
THEOREM PastStays == NotificationsSpec => PastIsPast
<1>1. ASSUME TicksInv, [NotificationsNext]_notificationsVars, NEW e \in Event, Past(e)
      PROVE  Past(e)' /\ accepted'[e] = accepted[e] /\ sent'[e] = sent[e]
  <2> USE <1>1
  <2>1. CASE UNCHANGED <<offset, tick, accepted, sent>>
    BY <2>1 DEF Past
  <2>2. ASSUME NEW r \in Replica, tick[r].step # "rest" => tick'[r].last = tick[r].last,
               \A q \in Replica \ {r} : tick'[q] = tick[q],
               tick[r].step # "rest", offset' = offset
        PROVE  Past(e)'
    BY <2>2 DEF Past
  <2>3. \A r \in Replica : tick[r].step \in {"send", "commit"} => tick[r].at # e
    BY DEF Past, TicksInv, TickReaches, TickHolds, NotificationsTypeOK, Ticks, Event
  <2>4. ASSUME NEW r \in Replica, ReadOffset(r)
        PROVE  Past(e)' /\ UNCHANGED <<accepted, sent>>
    <3>1. Stepped(r, "read", offset, {}, tick[r].highest, 0, tick[r].to, "pending", FALSE)
      BY <2>4, ReadOffsetMoves
    <3>2. offset' = offset /\ UNCHANGED <<accepted, sent>>
      BY <2>4 DEF ReadOffset, records
    <3> QED
      BY <3>1, <3>2 DEF Stepped, Past
  <2>5. ASSUME NEW r \in Replica, tick'[r].step = "rest",
               \A q \in Replica \ {r} : tick'[q] = tick[q], e <= offset'
        PROVE  Past(e)'
    BY <2>5 DEF Past
  <2>6. ASSUME NEW r \in Replica, ReadBatch(r)
        PROVE  Past(e)' /\ UNCHANGED <<accepted, sent>>
    <3>1. offset' = offset /\ tick[r].step = "read" /\ UNCHANGED <<accepted, sent>>
      BY <2>6 DEF ReadBatch, records
    <3>2. \A q \in Replica \ {r} : tick'[q] = tick[q]
      BY <2>6, ReadBatchIs DEF Stepped
    <3>3. tick'[r].step = "rest" \/ tick'[r].last = tick[r].last
      BY <2>6, ReadBatchIs DEF Stepped
    <3> QED
      BY <2>2, <2>5, <3>1, <3>2, <3>3 DEF Past
  <2>7. ASSUME NEW r \in Replica, NEW f \in Event, Ignore(r, f)
        PROVE  Past(e)' /\ UNCHANGED <<accepted, sent>>
    BY <2>2, <2>7, IgnoreMoves DEF Ignore, IsNext, Stepped, records
  <2>8. ASSUME NEW r \in Replica, NEW f \in Event, Resolve(r, f)
        PROVE  Past(e)' /\ UNCHANGED <<accepted, sent>>
    <3>1. PICK p, step, status : /\ p = Recipient(f)
                                 /\ step = IF p = Nobody THEN "commit" ELSE "send"
                                 /\ status = IF p = Nobody THEN "suppressed" ELSE "pending"
      OBVIOUS
    <3>2. Stepped(r, step, tick[r].last, tick[r].batch \ {f}, tick[r].highest,
                  f, p, status, FALSE)
      BY <2>8, <3>1, ResolveMoves
    <3> QED
      BY <2>2, <2>8, <3>2 DEF Resolve, IsNext, Stepped, records
  <2>9. ASSUME NEW r \in Replica, NEW taken \in BOOLEAN, NEW told \in BOOLEAN,
               Send(r, taken, told)
        PROVE  Past(e)' /\ accepted'[e] = accepted[e] /\ sent'[e] = sent[e]
    <3>1. PICK status : status = IF told THEN "sent" ELSE "failed"
      OBVIOUS
    <3>2. Stepped(r, "commit", tick[r].last, tick[r].batch, tick[r].highest,
                  tick[r].at, tick[r].to, status, taken)
      BY <2>9, <3>1, SendMoves
    <3>3. accepted'[e] = accepted[e]
      BY <2>3, <2>9 DEF Send, More, TicksInv, NotificationsTypeOK, Counts
    <3> QED
      BY <2>2, <2>9, <3>2, <3>3 DEF Send, Stepped
  <2>10. ASSUME NEW r \in Replica, Commit(r) \/ Rollback(r)
         PROVE  Past(e)' /\ accepted'[e] = accepted[e] /\ sent'[e] = sent[e]
    <3>1. sent'[e] = sent[e]
      BY <2>3, <2>10 DEF Commit, Rollback, More, TicksInv, NotificationsTypeOK, Counts
    <3> QED
      BY <2>2, <2>10, <3>1, CommitMoves, RollbackMoves DEF Commit, Rollback, Stepped
  <2>11. ASSUME NEW r \in Replica, Advance(r) \/ TickEnds(r)
         PROVE  Past(e)' /\ UNCHANGED <<accepted, sent>>
    <3>1. /\ tick'[r].step = "rest" /\ \A q \in Replica \ {r} : tick'[q] = tick[q]
          /\ UNCHANGED <<accepted, sent>>
      BY <2>11, AdvanceMoves, TickEndsMoves DEF Stepped, Advance, TickEnds, records
    <3>2. e <= offset'
      <4>1. CASE TickEnds(r)
        BY <4>1 DEF TickEnds, Past
      <4>2. CASE Advance(r)
        <5>1. /\ offset' > tick[r].last /\ tick[r].step # "rest" /\ offset' \in 0..MaxEvent
              /\ tick[r].last \in 0..MaxEvent
          BY <4>2, AdvanceMoves DEF Advance, TicksInv, NotificationsTypeOK, Ticks
        <5> QED
          BY <5>1, NotificationsAssumption DEF Past, Event
      <4> QED
        BY <2>11, <4>1, <4>2
    <3> QED
      BY <2>5, <3>1, <3>2
  <2>12. ASSUME NEW m \in Message, Notify(m)
         PROVE  UNCHANGED <<offset, tick, accepted, sent>>
    BY <2>12 DEF Notify, NotifyInsert, NotifySend, NotifyUpdate, NotifyLost, records
  <2>13. ASSUME NEW r \in Replica, TickStep(r)
         PROVE  Past(e)' /\ accepted'[e] = accepted[e] /\ sent'[e] = sent[e]
    BY <2>4, <2>6, <2>7, <2>8, <2>9, <2>10, <2>11, <2>13 DEF TickStep
  <2> QED
    BY <2>1, <2>11, <2>12, <2>13 DEF NotificationsNext, Appear, Transfer,
       notificationsVars, records
<1>2. TicksInv /\ [NotificationsNext]_notificationsVars
        => [\A e \in Event : Past(e) =>
             Past(e)' /\ accepted'[e] = accepted[e] /\ sent'[e] = sent[e]]_notificationsVars
  BY <1>1
<1> QED
  BY <1>2, TicksHold, PTL DEF NotificationsSpec, PastIsPast

=============================================================================
