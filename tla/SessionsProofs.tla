--------------------------- MODULE SessionsProofs ---------------------------
(***************************************************************************)
(* Theorems about Sessions, for every number of accounts, sessions and     *)
(* requests, every assignment of permissions to roles and all lifetimes,   *)
(* and about Sightings, for every number of jobs, plates, vehicles and     *)
(* alerts and any number of attempts, lost answers and workers that stop.  *)
(***************************************************************************)
EXTENDS Sessions, Sightings, FiniteSetTheorems, TLAPS

\* A stored session is somebody's, and only a stored one can be revoked.
RowsOwned == \A t \in Token :
  /\ refresh[t].left > 0 => refresh[t].user \in User
  /\ refresh[t].revoked => refresh[t].left > 0

\* A request that is under way is about an account whose roles have not
\* shrunk since it looked up.
RequestsOwned == \A q \in Request : req[q].pc # "idle" =>
  /\ req[q].user \in User
  /\ req[q].began \subseteq account[req[q].user].roles

Basics == TypeOK /\ RowsOwned /\ RequestsOwned

\* pickPrimary finds a role in every set that has one.
LEMMA PickPrimaryIsOne ==
  ASSUME NEW R \in SUBSET Role, R # {}
  PROVE  PickPrimary(R) \in R
<1> DEFINE P(i) == /\ i \in DOMAIN Priority
                   /\ Priority[i] \in R
                   /\ \A j \in 1..(i - 1) : Priority[j] \notin R
<1>1. /\ DOMAIN Priority = 1..5 /\ Len(Priority) = 5
      /\ Priority[1] = "admin" /\ Priority[2] = "court" /\ Priority[3] = "customs"
      /\ Priority[4] = "officer" /\ Priority[5] = "citizen"
  BY DEF Priority
<1>2. Role = {Priority[1], Priority[2], Priority[3], Priority[4], Priority[5]}
  <2>1. 1..Len(Priority) = {1, 2, 3, 4, 5}
    BY <1>1
  <2> QED
    BY <2>1 DEF Role
<1>3. \E i : P(i)
  <2>1. CASE Priority[1] \in R
    BY <1>1, <2>1
  <2>2. CASE Priority[1] \notin R /\ Priority[2] \in R
    <3>1. \A j \in 1..(2 - 1) : j = 1
      OBVIOUS
    <3> QED
      BY <1>1, <2>2, <3>1
  <2>3. CASE Priority[1] \notin R /\ Priority[2] \notin R /\ Priority[3] \in R
    <3>1. \A j \in 1..(3 - 1) : j = 1 \/ j = 2
      OBVIOUS
    <3> QED
      BY <1>1, <2>3, <3>1
  <2>4. CASE /\ Priority[1] \notin R /\ Priority[2] \notin R
             /\ Priority[3] \notin R /\ Priority[4] \in R
    <3>1. \A j \in 1..(4 - 1) : j = 1 \/ j = 2 \/ j = 3
      OBVIOUS
    <3> QED
      BY <1>1, <2>4, <3>1
  <2>5. CASE /\ Priority[1] \notin R /\ Priority[2] \notin R
             /\ Priority[3] \notin R /\ Priority[4] \notin R
    <3>1. \A j \in 1..(5 - 1) : j = 1 \/ j = 2 \/ j = 3 \/ j = 4
      OBVIOUS
    <3>2. Priority[5] \in R
      BY <1>2, <2>5
    <3> QED
      BY <1>1, <2>5, <3>1, <3>2
  <2> QED
    BY <2>1, <2>2, <2>3, <2>4, <2>5
<1> HIDE DEF P
<1>4. P(CHOOSE i : P(i))
  BY <1>3
<1>5. PickPrimary(R) = Priority[CHOOSE i : P(i)]
  BY DEF PickPrimary, P
<1> QED
  BY <1>4, <1>5 DEF P

\* More roles carry more permissions.
LEMMA CarriedGrows ==
  ASSUME NEW R, NEW S, R \subseteq S
  PROVE  Carried(R) \subseteq Carried(S)
  BY DEF Carried

\* What a signature asserts is what the account may do at that moment.
LEMMA LoadedClaims ==
  ASSUME TypeOK, NEW u \in User
  PROVE  /\ LoadRoleAndPerms(u) \in Claims
         /\ LoadRoleAndPerms(u).role \in account[u].roles \cup {"citizen"}
         /\ LoadRoleAndPerms(u).perms = Carried(account[u].roles)
<1> DEFINE R == account[u].roles
<1>1. R \in SUBSET Role
  BY DEF TypeOK, Accounts
<1>2. "citizen" \in Role
  <2>1. 5 \in 1..Len(Priority) /\ Priority[5] = "citizen"
    BY DEF Priority
  <2> QED
    BY <2>1 DEF Role
<1>3. Carried(R) \in SUBSET Permission
  BY <1>1 DEF Carried, Permission
<1>4. CASE R = {}
  <2>1. Carried(R) = {}
    BY <1>4 DEF Carried
  <2> QED
    BY <1>2, <1>4, <2>1 DEF LoadRoleAndPerms, Nobody, Claims
<1>5. CASE R # {}
  <2>1. PickPrimary(R) \in R
    BY <1>1, <1>5, PickPrimaryIsOne
  <2> QED
    BY <1>1, <1>3, <1>5, <2>1 DEF LoadRoleAndPerms, Claims
<1> QED
  BY <1>4, <1>5
(***************************************************************************)
(* The basic invariant, one step per action.                               *)
(***************************************************************************)
\* The request found its account or session and notes the roles there were.
LEMMA LookupKeeps ==
  ASSUME Basics, NEW q \in Request,
         \/ \E u \in User, password \in Password : LoginLookup(q, u, password)
         \/ \E t \in Token : RefreshLookup(q, t)
  PROVE  Basics'
<1>1. PICK u \in User, t \in Token \cup {NoToken}, pc \in {"login", "refresh"} :
        /\ req' = [req EXCEPT ![q] = Begun(pc, u, t)]
        /\ UNCHANGED <<account, refresh>>
  <2>1. CASE \E u \in User, password \in Password : LoginLookup(q, u, password)
    BY <2>1 DEF LoginLookup
  <2>2. CASE \E t \in Token : RefreshLookup(q, t)
    BY <2>2 DEF RefreshLookup, Basics, RowsOwned
  <2> QED
    BY <2>1, <2>2
<1> DEFINE new == Begun(pc, u, t)
<1>2. new = [pc |-> pc, user |-> u, token |-> t, claims |-> Nobody, left |-> 0,
             stay |-> 0, began |-> account[u].roles]
  BY DEF Begun
<1>3. new \in Requests
  <2>1. account[u].roles \in SUBSET Role
    BY DEF Basics, TypeOK, Accounts
  <2>2. Nobody \in Claims
    <3>1. 5 \in 1..Len(Priority) /\ Priority[5] = "citizen"
      BY DEF Priority
    <3> QED
      BY <3>1 DEF Nobody, Claims, Role
  <2>3. 0 \in 0..AccessTTL /\ 0 \in 0..RefreshTTL
    BY SessionAssumption
  <2> QED
    BY <1>2, <2>1, <2>2, <2>3 DEF Requests
<1>4. new.pc # "idle" /\ new.user = u /\ new.began = account[u].roles
  BY <1>2
<1> HIDE DEF new
<1>5. /\ req' = [req EXCEPT ![q] = new]
      /\ req \in [Request -> Requests]
      /\ UNCHANGED <<account, refresh>>
  BY <1>1 DEF new, Basics, TypeOK
<1>6. TypeOK'
  BY <1>3, <1>5 DEF Basics, TypeOK
<1>7. RowsOwned'
  BY <1>5 DEF Basics, RowsOwned
<1>8. RequestsOwned'
  BY <1>4, <1>5 DEF Basics, RequestsOwned
<1> QED
  BY <1>6, <1>7, <1>8 DEF Basics

\* Any other step of a request leaves whom it is about and what it noted.
LEMMA RequestKeeps ==
  ASSUME Basics, NEW q \in Request, RequestStep(q)
  PROVE  Basics'
<1>0. /\ req \in [Request -> Requests] /\ refresh \in [Token -> Rows]
      /\ req[q] \in Requests
      /\ \A t \in Token : refresh[t] \in Rows
  BY DEF Basics, TypeOK
<1>1. /\ AccessTTL \in 0..AccessTTL /\ RefreshTTL \in 0..RefreshTTL
      /\ 0 \in 0..AccessTTL /\ 0 \in 0..RefreshTTL
  BY SessionAssumption
<1>2. CASE LoginSign(q) \/ RefreshSign(q)
  <2>1. req[q].user \in User
    BY <1>2 DEF LoginSign, RefreshSign, Basics, RequestsOwned
  <2>2. LoadRoleAndPerms(req[q].user) \in Claims
    BY <2>1, LoadedClaims DEF Basics
  <2>3. PICK pc \in {"signed_in", "answered"}, stay \in 0..RefreshTTL :
          req' = [req EXCEPT ![q] = [req[q] EXCEPT !.pc = pc,
                    !.claims = LoadRoleAndPerms(req[q].user),
                    !.left = AccessTTL, !.stay = stay]]
    <3>1. CASE LoginSign(q)
      BY <1>0, <1>1, <3>1 DEF LoginSign
    <3>2. CASE RefreshSign(q)
      <4>1. [req[q] EXCEPT !.pc = "answered",
                           !.claims = LoadRoleAndPerms(req[q].user),
                           !.left = AccessTTL]
             = [req[q] EXCEPT !.pc = "answered",
                              !.claims = LoadRoleAndPerms(req[q].user),
                              !.left = AccessTTL, !.stay = req[q].stay]
        BY <1>0 DEF Requests
      <4>2. req[q].stay \in 0..RefreshTTL
        BY <1>0 DEF Requests
      <4> QED
        BY <1>0, <3>2, <4>1, <4>2 DEF RefreshSign
    <3> QED
      BY <1>2, <3>1, <3>2
  <2> DEFINE new == [req[q] EXCEPT !.pc = pc,
                       !.claims = LoadRoleAndPerms(req[q].user),
                       !.left = AccessTTL, !.stay = stay]
  <2>4. new \in Requests /\ new.user = req[q].user /\ new.began = req[q].began
    BY <1>0, <1>1, <2>2 DEF Requests
  <2> HIDE DEF new
  <2>5. req' = [req EXCEPT ![q] = new] /\ UNCHANGED <<account, refresh>>
    BY <1>2, <2>3 DEF new, LoginSign, RefreshSign
  <2>6. req[q].pc # "idle"
    BY <1>2 DEF LoginSign, RefreshSign
  <2>7. TypeOK'
    BY <1>0, <2>4, <2>5 DEF Basics, TypeOK
  <2>8. RowsOwned'
    BY <2>5 DEF Basics, RowsOwned
  <2>9. RequestsOwned'
    BY <1>0, <2>4, <2>5, <2>6 DEF Basics, RequestsOwned
  <2> QED
    BY <2>7, <2>8, <2>9 DEF Basics
<1>3. ASSUME NEW t \in Token, LoginCommit(q, t)
      PROVE  Basics'
  <2> DEFINE new == [req[q] EXCEPT !.pc = "answered", !.token = t, !.stay = 0]
             row == [user |-> req[q].user, left |-> req[q].stay, revoked |-> FALSE]
  <2>1. new \in Requests /\ new.user = req[q].user /\ new.began = req[q].began
    BY <1>0, <1>1 DEF Requests
  <2>2. req[q].pc # "idle"
    BY <1>3 DEF LoginCommit
  <2>3. req[q].user \in User
    BY <2>2 DEF Basics, RequestsOwned
  <2>4. row \in Rows /\ row.user \in User /\ ~row.revoked
    BY <1>0, <2>3 DEF Rows, Requests
  <2> HIDE DEF new, row
  <2>5. /\ req' = [req EXCEPT ![q] = new] /\ refresh' = [refresh EXCEPT ![t] = row]
        /\ UNCHANGED account
    BY <1>0, <1>3 DEF LoginCommit, new, row
  <2>6. TypeOK'
    BY <1>0, <2>1, <2>4, <2>5 DEF Basics, TypeOK
  <2>7. RowsOwned'
    BY <1>0, <2>4, <2>5 DEF Basics, RowsOwned
  <2>8. RequestsOwned'
    BY <1>0, <2>1, <2>2, <2>5 DEF Basics, RequestsOwned
  <2> QED
    BY <2>6, <2>7, <2>8 DEF Basics
<1>4. CASE RequestFails(q)
  <2>1. Idle \in Requests /\ Idle.pc = "idle"
    <3>1. 5 \in 1..Len(Priority) /\ Priority[5] = "citizen"
      BY DEF Priority
    <3> QED
      BY <1>1, <3>1 DEF Idle, Requests, Nobody, Claims, Role
  <2> QED
    BY <1>0, <1>4, <2>1 DEF RequestFails, Basics, TypeOK, RowsOwned, RequestsOwned
<1> QED
  BY <1>2, <1>3, <1>4 DEF RequestStep

\* The clock takes from what is left and forgets what is over.
LEMMA TickKeeps ==
  ASSUME Basics, Tick
  PROVE  Basics'
<1>1. ASSUME NEW t \in Token
      PROVE  /\ refresh'[t] \in Rows
             /\ refresh'[t].left > 0 => refresh'[t].user \in User
             /\ refresh'[t].revoked => refresh'[t].left > 0
  <2>1. refresh[t] \in Rows /\ 0 \in 0..RefreshTTL
    BY SessionAssumption DEF Basics, TypeOK
  <2>2. CASE refresh[t].left <= 1
    <3>1. refresh'[t] = [user |-> NoUser, left |-> 0, revoked |-> FALSE]
      BY <2>2 DEF Tick, NoRow
    <3> QED
      BY <2>1, <3>1 DEF Rows
  <2>3. CASE ~(refresh[t].left <= 1)
    <3>1. refresh'[t] = [refresh[t] EXCEPT !.left = @ - 1]
      BY <2>3 DEF Tick
    <3>2. refresh[t].left \in 0..RefreshTTL /\ RefreshTTL \in Nat
      BY <2>1, SessionAssumption DEF Rows
    <3>3. refresh[t].left - 1 \in 0..RefreshTTL /\ refresh[t].left - 1 > 0
      BY <2>3, <3>2
    <3>4. /\ refresh'[t] \in Rows
          /\ refresh'[t].left = refresh[t].left - 1
          /\ refresh'[t].user = refresh[t].user
      BY <2>1, <3>1, <3>3 DEF Rows
    <3> QED
      BY <3>2, <3>3, <3>4 DEF Basics, RowsOwned
  <2> QED
    BY <2>2, <2>3
<1>2. ASSUME NEW q \in Request
      PROVE  /\ req'[q] \in Requests
             /\ req'[q].pc # "idle" => /\ req[q].pc # "idle"
                                       /\ req'[q].user = req[q].user
                                       /\ req'[q].began = req[q].began
  <2>1. req[q] \in Requests /\ 0 \in 0..RefreshTTL /\ 0 \in 0..AccessTTL
    BY SessionAssumption DEF Basics, TypeOK
  <2>2. CASE req'[q] = Idle
    <3>1. 5 \in 1..Len(Priority) /\ Priority[5] = "citizen"
      BY DEF Priority
    <3> QED
      BY <2>1, <2>2, <3>1 DEF Idle, Requests, Nobody, Claims, Role
  <2>3. CASE req'[q] = [req[q] EXCEPT !.left = Less(@), !.stay = Less(@)]
    <3>1. /\ req[q].left \in 0..AccessTTL /\ req[q].stay \in 0..RefreshTTL
          /\ AccessTTL \in Nat /\ RefreshTTL \in Nat
      BY <2>1, SessionAssumption DEF Requests
    <3>2. Less(req[q].left) \in 0..AccessTTL /\ Less(req[q].stay) \in 0..RefreshTTL
      BY <3>1 DEF Less
    <3>3. req'[q] = [req[q] EXCEPT !.left = Less(req[q].left),
                                   !.stay = Less(req[q].stay)]
      BY <2>1, <2>3 DEF Requests
    <3> QED
      BY <2>1, <3>2, <3>3 DEF Requests
  <2> QED
    BY <2>2, <2>3 DEF Tick, Aged
<1>3. TypeOK'
  <2>1. req' = [q \in Request |-> req'[q]]
    BY DEF Tick
  <2>2. refresh' = [t \in Token |-> refresh'[t]]
    BY DEF Tick
  <2>3. req' \in [Request -> Requests] /\ refresh' \in [Token -> Rows]
    BY <1>1, <1>2, <2>1, <2>2
  <2> QED
    BY <2>3 DEF Tick, Basics, TypeOK
<1>4. RowsOwned'
  BY <1>1 DEF RowsOwned
<1>5. RequestsOwned'
  <2>1. account' = account
    BY DEF Tick
  <2> QED
    BY <1>2, <2>1 DEF Basics, RequestsOwned
<1> QED
  BY <1>3, <1>4, <1>5 DEF Basics

\* No request takes a role away from an account.
LEMMA RolesGrow ==
  ASSUME TypeOK, [Next]_vars
  PROVE  \A u \in User : account[u].roles \subseteq account'[u].roles
<1>1. ASSUME NEW u \in User, NEW password \in Password, NEW roles \in Grant,
             AdminCreateUser(u, password, roles)
      PROVE  \A v \in User : account[v].roles \subseteq account'[v].roles
  BY <1>1 DEF AdminCreateUser, TypeOK, Accounts
<1>2. ASSUME NEW u \in User, NEW active \in BOOLEAN, SetActive(u, active)
      PROVE  \A v \in User : account[v].roles \subseteq account'[v].roles
  BY <1>2 DEF SetActive, TypeOK, Accounts
<1>3. ASSUME account' = account
      PROVE  \A v \in User : account[v].roles \subseteq account'[v].roles
  BY <1>3
<1> QED
  BY <1>1, <1>2, <1>3
  DEF Next, LoginLookup, RefreshLookup, RequestStep, LoginSign, LoginCommit,
      RefreshSign, RequestFails, Logout, Tick, vars

\* handleLogout, handleAdminCreateUser and the operator touch no request.
LEMMA OthersKeep ==
  ASSUME Basics, [Next]_vars,
         \/ \E t \in Token : Logout(t)
         \/ \E u \in User, password \in Password, roles \in Grant :
              AdminCreateUser(u, password, roles)
         \/ \E u \in User, active \in BOOLEAN : SetActive(u, active)
  PROVE  Basics'
<1>1. ASSUME NEW t \in Token, Logout(t)
      PROVE  Basics'
  <2>1. refresh[t] \in Rows /\ refresh[t].left > 0 /\ refresh[t].user \in User
    BY <1>1 DEF Logout, Basics, TypeOK, RowsOwned
  <2>2. /\ [refresh[t] EXCEPT !.revoked = TRUE] \in Rows
        /\ [refresh[t] EXCEPT !.revoked = TRUE].left = refresh[t].left
        /\ [refresh[t] EXCEPT !.revoked = TRUE].user = refresh[t].user
    BY <2>1 DEF Rows
  <2>3. /\ refresh' = [refresh EXCEPT ![t] = [refresh[t] EXCEPT !.revoked = TRUE]]
        /\ UNCHANGED <<account, req>>
    BY <1>1 DEF Logout
  <2>4. TypeOK'
    BY <2>2, <2>3 DEF Basics, TypeOK
  <2>5. RowsOwned'
    BY <2>1, <2>2, <2>3 DEF Basics, TypeOK, RowsOwned
  <2> QED
    BY <2>3, <2>4, <2>5 DEF Basics, RequestsOwned
<1>2. ASSUME NEW u \in User, account[u] \in Accounts,
             NEW new \in Accounts, account' = [account EXCEPT ![u] = new],
             UNCHANGED <<refresh, req>>
      PROVE  Basics'
  <2>1. TypeOK' /\ RowsOwned'
    BY <1>2 DEF Basics, TypeOK, RowsOwned
  <2>2. RequestsOwned'
    BY <1>2, RolesGrow DEF Basics, RequestsOwned
  <2> QED
    BY <2>1, <2>2 DEF Basics
<1>3. ASSUME NEW u \in User, NEW password \in Password, NEW roles \in Grant,
             AdminCreateUser(u, password, roles)
      PROVE  Basics'
  <2> DEFINE new == [account[u] EXCEPT !.exists = TRUE, !.password = password,
                                       !.roles = account[u].roles \cup roles]
  <2>1. account[u] \in Accounts /\ roles \in SUBSET Role
    BY SessionAssumption DEF Basics, TypeOK
  <2>2. new \in Accounts
    BY <2>1 DEF Accounts
  <2>3. account' = [account EXCEPT ![u] = new] /\ UNCHANGED <<refresh, req>>
    BY <1>3, <2>1 DEF AdminCreateUser, Accounts
  <2> HIDE DEF new
  <2> QED
    BY <1>2, <2>1, <2>2, <2>3
<1>4. ASSUME NEW u \in User, NEW active \in BOOLEAN, SetActive(u, active)
      PROVE  Basics'
  <2>1. account[u] \in Accounts
    BY DEF Basics, TypeOK
  <2>2. [account[u] EXCEPT !.active = active] \in Accounts
    BY <2>1 DEF Accounts
  <2>3. account' = [account EXCEPT ![u] = [account[u] EXCEPT !.active = active]]
        /\ UNCHANGED <<refresh, req>>
    BY <1>4 DEF SetActive
  <2> QED
    BY <1>2, <2>1, <2>2, <2>3
<1> QED
  BY <1>1, <1>3, <1>4

\* The basic invariant holds of the whole service.
THEOREM TypeCorrect == Spec => []Basics
<1>1. Init => Basics
  <2> SUFFICES ASSUME Init PROVE Basics
    OBVIOUS
  <2>1. 0 \in 0..RefreshTTL /\ 0 \in 0..AccessTTL
    BY SessionAssumption
  <2>2. NoRow \in Rows /\ ~NoRow.revoked /\ NoRow.left = 0
    BY <2>1 DEF NoRow, Rows
  <2>3. Idle \in Requests /\ Idle.pc = "idle"
    <3>1. 5 \in 1..Len(Priority) /\ Priority[5] = "citizen"
      BY DEF Priority
    <3> QED
      BY <2>1, <3>1 DEF Idle, Requests, Nobody, Claims, Role
  <2>4. account \in [User -> Accounts]
    <3>1. [exists : {FALSE}, password : Password, active : {TRUE}, roles : {{}}]
            \subseteq Accounts
      BY DEF Accounts
    <3> QED
      BY <3>1 DEF Init
  <2>5. TypeOK
    BY <2>2, <2>3, <2>4 DEF Init, TypeOK
  <2> QED
    BY <2>2, <2>3, <2>5 DEF Init, Basics, RowsOwned, RequestsOwned
<1>2. Basics /\ [Next]_vars => Basics'
  <2> SUFFICES ASSUME Basics, [Next]_vars PROVE Basics'
    OBVIOUS
  <2>1. CASE UNCHANGED vars
    BY <2>1 DEF vars, Basics, TypeOK, RowsOwned, RequestsOwned
  <2>2. ASSUME NEW q \in Request,
               \/ \E u \in User, password \in Password : LoginLookup(q, u, password)
               \/ \E t \in Token : RefreshLookup(q, t)
               \/ RequestStep(q)
        PROVE  Basics'
    BY <2>2, LookupKeeps, RequestKeeps
  <2> QED
    BY <2>1, <2>2, OthersKeep, TickKeeps DEF Next
<1> QED
  BY <1>1, <1>2, PTL DEF Spec

(***************************************************************************)
(* What tokens assert.                                                     *)
(***************************************************************************)
\* What a request has signed is bracketed by the roles it saw when it looked
\* up and the roles there are now.
Signed(q) ==
  LET now == account[req[q].user].roles
  IN  /\ req[q].claims.role \in now \cup {"citizen"}
      /\ Carried(req[q].began) \subseteq req[q].claims.perms
      /\ req[q].claims.perms \subseteq Carried(now)

Bracketed == \A q \in Request : req[q].pc \in {"signed_in", "answered"} => Signed(q)

\* A step leaves what a request has signed alone, or signs it anew, or the
\* request is not one that has signed.
LEMMA SignedOnce ==
  ASSUME Basics, [Next]_vars, NEW q \in Request,
         req'[q].pc \in {"signed_in", "answered"}
  PROVE  /\ req'[q].user = req[q].user /\ req'[q].began = req[q].began
         /\ req[q].pc # "idle"
         /\ \/ /\ req[q].pc \in {"signed_in", "answered"}
               /\ req'[q].claims = req[q].claims
            \/ /\ req'[q].claims = LoadRoleAndPerms(req[q].user)
               /\ account' = account
<1>0. req \in [Request -> Requests] /\ req[q] \in Requests
  BY DEF Basics, TypeOK
<1>1. CASE req'[q] = req[q]
  BY <1>0, <1>1 DEF Requests
<1>2. CASE Tick
  <2>1. CASE req'[q] = Idle
    BY <2>1 DEF Idle
  <2>2. CASE req'[q] = [req[q] EXCEPT !.left = Less(@), !.stay = Less(@)]
    BY <1>0, <2>2 DEF Requests
  <2> QED
    BY <1>2, <2>1, <2>2 DEF Tick, Aged
<1>3. ASSUME NEW p \in Request,
             \/ \E u \in User, password \in Password : LoginLookup(p, u, password)
             \/ \E t \in Token : RefreshLookup(p, t)
      PROVE  req'[q] = req[q]
  <2>1. CASE \E u \in User, password \in Password : LoginLookup(p, u, password)
    <3>1. PICK u \in User, password \in Password : LoginLookup(p, u, password)
      BY <2>1
    <3>2. req' = [req EXCEPT ![p] = Begun("login", u, NoToken)]
      BY <3>1 DEF LoginLookup
    <3>3. Begun("login", u, NoToken).pc = "login"
      BY DEF Begun
    <3>4. p # q
      BY <1>0, <3>2, <3>3
    <3> QED
      BY <1>0, <3>2, <3>4
  <2>2. CASE \E t \in Token : RefreshLookup(p, t)
    <3>1. PICK t \in Token : RefreshLookup(p, t)
      BY <2>2
    <3>2. req' = [req EXCEPT ![p] = Begun("refresh", refresh[t].user, t)]
      BY <3>1 DEF RefreshLookup
    <3>3. Begun("refresh", refresh[t].user, t).pc = "refresh"
      BY DEF Begun
    <3>4. p # q
      BY <1>0, <3>2, <3>3
    <3> QED
      BY <1>0, <3>2, <3>4
  <2> QED
    BY <1>3, <2>1, <2>2
<1>4. ASSUME NEW p \in Request, p # q, RequestStep(p)
      PROVE  req'[q] = req[q]
  BY <1>0, <1>4 DEF RequestStep, LoginSign, LoginCommit, RefreshSign, RequestFails
<1>5. CASE LoginSign(q) \/ RefreshSign(q)
  <2>1. UNCHANGED account /\ req[q].pc # "idle"
    BY <1>5 DEF LoginSign, RefreshSign
  <2>2. req'[q].claims = LoadRoleAndPerms(req[q].user)
        /\ req'[q].user = req[q].user /\ req'[q].began = req[q].began
    BY <1>0, <1>5 DEF LoginSign, RefreshSign, Requests
  <2> QED
    BY <2>1, <2>2
<1>6. ASSUME NEW t \in Token, LoginCommit(q, t)
      PROVE  /\ req'[q].user = req[q].user /\ req'[q].began = req[q].began
             /\ req[q].pc = "signed_in" /\ req'[q].claims = req[q].claims
  BY <1>0, <1>6 DEF LoginCommit, Requests
<1>7. ~RequestFails(q)
  BY <1>0 DEF RequestFails, Idle
<1>8. (\/ \E t \in Token : Logout(t)
       \/ \E u \in User, password \in Password, roles \in Grant :
            AdminCreateUser(u, password, roles)
       \/ \E u \in User, active \in BOOLEAN : SetActive(u, active)
       \/ UNCHANGED vars) => req'[q] = req[q]
  BY DEF Logout, AdminCreateUser, SetActive, vars
<1> QED
  BY <1>1, <1>2, <1>3, <1>4, <1>5, <1>6, <1>7, <1>8 DEF Next, RequestStep

\* The permissions a service reads out of a live token were all the account's
\* at one moment between the lookup of handleLogin or handleRefresh and now.
THEOREM ClaimsAreBracketedHolds == Spec => []ClaimsAreBracketed
<1>1. Init => Bracketed
  BY DEF Init, Bracketed, Idle
<1>2. Basics /\ [Next]_vars /\ Bracketed => Bracketed'
  <2> SUFFICES ASSUME Basics, [Next]_vars, Bracketed, NEW q \in Request,
                      req'[q].pc \in {"signed_in", "answered"}
               PROVE  Signed(q)'
    BY DEF Bracketed
  <2> DEFINE u == req[q].user
  <2>1. u \in User /\ req[q].began \subseteq account[u].roles
    BY SignedOnce DEF Basics, RequestsOwned
  <2>2. account[u].roles \subseteq account'[u].roles
    BY <2>1, RolesGrow DEF Basics
  <2>3. /\ Carried(account[u].roles) \subseteq Carried(account'[u].roles)
        /\ Carried(req[q].began) \subseteq Carried(account[u].roles)
    BY <2>1, <2>2, CarriedGrows
  <2>4. /\ req'[q].claims.role \in account[u].roles \cup {"citizen"}
        /\ Carried(req[q].began) \subseteq req'[q].claims.perms
        /\ req'[q].claims.perms \subseteq Carried(account[u].roles)
    <3>1. CASE req[q].pc \in {"signed_in", "answered"}
               /\ req'[q].claims = req[q].claims
      BY <3>1 DEF Bracketed, Signed
    <3>2. CASE req'[q].claims = LoadRoleAndPerms(u)
      BY <2>1, <2>3, <3>2, LoadedClaims DEF Basics
    <3> QED
      BY <3>1, <3>2, SignedOnce
  <2>5. req'[q].user = u /\ req'[q].began = req[q].began
    BY SignedOnce
  <2> HIDE DEF u
  <2> QED
    BY <2>2, <2>3, <2>4, <2>5 DEF Signed
<1>3. Basics /\ Bracketed => ClaimsAreBracketed
  <2> SUFFICES ASSUME Bracketed, NEW q \in Request, Live(q)
               PROVE  LET now == account[req[q].user].roles
                      IN  /\ Me(q).role \in now \cup {"citizen"}
                          /\ \A permission \in Permission :
                               /\ permission \in Carried(req[q].began)
                                    => Admits(q, permission)
                               /\ Admits(q, permission)
                                    => permission \in Carried(now)
    BY DEF ClaimsAreBracketed
  <2>1. Signed(q)
    BY DEF Bracketed, Live
  <2> QED
    BY <2>1 DEF Signed, Me, Admits
<1> QED
  BY <1>1, <1>2, <1>3, TypeCorrect, PTL DEF Spec

(***************************************************************************)
(* Logout.                                                                 *)
(***************************************************************************)
\* A drained session that is revoked gets no request and no token: a lookup
\* refuses it, and a login takes the name of a session that is over.
THEOREM LogoutIsFinalHolds == Spec => LogoutIsFinal
<1>1. Basics /\ [Next]_vars =>
        \A t \in Token : refresh[t].revoked /\ Drained(t) => Drained(t)'
  <2> SUFFICES ASSUME Basics, [Next]_vars, NEW t \in Token, refresh[t].revoked,
                      Drained(t), NEW q \in Request, req'[q].token = t
               PROVE  req'[q].pc # "refresh" /\ ~Live(q)'
    BY DEF Drained
  <2>0. /\ req \in [Request -> Requests] /\ req[q] \in Requests
        /\ refresh[t].left > 0 /\ refresh[t].left # 0
    BY DEF Basics, TypeOK, RowsOwned
  <2>1. CASE req'[q] = req[q]
    BY <2>1 DEF Drained, Live
  <2>2. CASE req'[q] = Idle
    BY <2>2 DEF Idle, Live
  <2>3. CASE Tick
    <3>1. CASE req'[q] = [req[q] EXCEPT !.left = Less(@), !.stay = Less(@)]
      <4>1. /\ req'[q].pc = req[q].pc /\ req'[q].token = req[q].token
            /\ req'[q].left = Less(req[q].left)
        BY <2>0, <3>1 DEF Requests
      <4>2. req[q].left \in Nat
        BY <2>0, SessionAssumption DEF Requests
      <4>3. Less(req[q].left) > 0 => req[q].left > 0
        BY <4>2 DEF Less
      <4> QED
        BY <4>1, <4>3 DEF Drained, Live
    <3> QED
      BY <2>2, <2>3, <3>1 DEF Tick, Aged
  <2>4. ASSUME NEW p \in Request, NEW u \in User, NEW password \in Password,
               LoginLookup(p, u, password)
        PROVE  req'[q].pc # "refresh" /\ ~Live(q)'
    <3>1. Begun("login", u, NoToken).pc = "login"
      BY DEF Begun
    <3> QED
      BY <2>0, <2>1, <2>4, <3>1 DEF LoginLookup, Live
  <2>5. ASSUME NEW p \in Request, NEW s \in Token, RefreshLookup(p, s)
        PROVE  req'[q].pc # "refresh" /\ ~Live(q)'
    <3>1. s # t
      BY <2>5 DEF RefreshLookup
    <3>2. Begun("refresh", refresh[s].user, s).token = s
      BY DEF Begun
    <3> QED
      BY <2>0, <2>1, <2>5, <3>1, <3>2 DEF RefreshLookup
  <2>6. ASSUME NEW p \in Request, LoginSign(p)
        PROVE  req'[q].pc # "refresh" /\ ~Live(q)'
    <3>1. CASE p = q
      <4>1. req'[q].pc = "signed_in"
        BY <2>0, <2>6, <3>1 DEF LoginSign, Requests
      <4> QED
        BY <4>1 DEF Live
    <3> QED
      BY <2>0, <2>1, <2>6, <3>1 DEF LoginSign
  <2>7. ASSUME NEW p \in Request, NEW s \in Token, LoginCommit(p, s)
        PROVE  req'[q].pc # "refresh" /\ ~Live(q)'
    <3>1. CASE p = q
      <4>1. req'[q].token = s
        BY <2>0, <2>7, <3>1 DEF LoginCommit, Requests
      <4>2. refresh[s].left = 0
        BY <2>7 DEF LoginCommit
      <4> QED
        BY <2>0, <4>1, <4>2
    <3> QED
      BY <2>0, <2>1, <2>7, <3>1 DEF LoginCommit
  <2>8. ASSUME NEW p \in Request, RefreshSign(p)
        PROVE  req'[q].pc # "refresh" /\ ~Live(q)'
    <3>1. CASE p = q
      <4>1. req'[q].token = req[q].token
        BY <2>0, <2>8, <3>1 DEF RefreshSign, Requests
      <4>2. req[q].pc = "refresh"
        BY <2>8, <3>1 DEF RefreshSign
      <4> QED
        BY <4>1, <4>2 DEF Drained
    <3> QED
      BY <2>0, <2>1, <2>8, <3>1 DEF RefreshSign
  <2>9. ASSUME NEW p \in Request, RequestFails(p)
        PROVE  req'[q].pc # "refresh" /\ ~Live(q)'
    BY <2>0, <2>1, <2>2, <2>9 DEF RequestFails
  <2>10. (\/ \E s \in Token : Logout(s)
          \/ \E u \in User, password \in Password, roles \in Grant :
               AdminCreateUser(u, password, roles)
          \/ \E u \in User, active \in BOOLEAN : SetActive(u, active)
          \/ UNCHANGED vars) => req'[q] = req[q]
    BY DEF Logout, AdminCreateUser, SetActive, vars
  <2> QED
    BY <2>1, <2>3, <2>4, <2>5, <2>6, <2>7, <2>8, <2>9, <2>10 DEF Next, RequestStep
<1> QED
  BY <1>1, TypeCorrect, PTL DEF Spec, LogoutIsFinal

----------------------------------------------------------------------------
(***************************************************************************)
(* The sightings.                                                          *)
(***************************************************************************)
AlertRow == [id : Nat, plate : Vehicle, day : 0..LastDay, open : BOOLEAN,
             sightings : SUBSET Attempt]

\* How often a job has been tried at each of its steps.
JobsTried == \A j \in Job :
  /\ status[j] = "queued" => attempts[j] < MaxAttempts
  /\ status[j] = "none" => attempts[j] = 0 /\ step[j] = "idle"
  /\ status[j] = "queued" => step[j] = "idle"
  /\ step[j] # "idle" => attempts[j] > 0

\* What alerts, or is about to, is a vehicle.
AlertsKnown ==
  /\ \A s \in scans : s.alert => s.plate \in Vehicle
  /\ \A j \in Job : view[j].alert => view[j].plate \in Vehicle

SightingsBasics ==
  /\ SightingsTypeOK
  /\ JobsTried
  /\ AlertsKnown
  /\ IsFiniteSet(alerts) /\ IsFiniteSet(scans)

\* The scans of a job.
ScansOf(j) == {s \in scans : s.by[1] = j}

\* A job's scans, at each of its steps: one that was written and is to be
\* tried again, or may be, is one whose commit was not heard of.
ScansCounted == \A j \in Job :
  /\ Cardinality(ScansOf(j)) <= 1 + unheard[j]
  /\ status[j] \notin {"done", "duplicate"} => Cardinality(ScansOf(j)) <= unheard[j]
  /\ step[j] = "failing" => Cardinality(ScansOf(j)) <= unheard[j]
  /\ status[j] \in {"done", "duplicate"} => Cardinality(ScansOf(j)) > 0

\* A job that is sure to meet a flagged vehicle sees it and says so, and an
\* event that was handled, and not only failed on, is part of an alert.
FlagsSeen ==
  /\ \A j \in Job : status[j] # "none" /\ j \notin unsure => Corrected[raw[j]] \in flagged
  /\ \A j \in Job : step[j] = "read" /\ j \notin unsure => view[j].alert
  /\ \A j \in Job : status[j] \in {"done", "duplicate"} /\ j \notin unsure
       => \E s \in scans : s.by[1] = j /\ s.alert
  /\ \A h \in handled \ missed : \E a \in alerts : h \in a.sightings

\* Raw plates and capture times to start from, and a view that sees nothing.
LEMMA StartsThere ==
  /\ (CHOOSE r \in Raw : TRUE) \in Raw
  /\ (CHOOSE t \in CaptureTime : TRUE) \in CaptureTime
  /\ NoView \in View /\ NoView.alert = FALSE
<1>1. Raw # {} /\ CaptureTime # {} /\ Corrected \in [Raw -> Plate]
  BY SightingsAssumption
<1>2. Plate # {}
  BY <1>1
<1>3. (CHOOSE p \in Plate : TRUE) \in Plate
  BY <1>2
<1> QED
  BY <1>1, <1>3 DEF NoView, View

\* There is nothing to begin with.
LEMMA SightingsStart == SightingsInit => SightingsBasics
<1> SUFFICES ASSUME SightingsInit
             PROVE  SightingsBasics
  OBVIOUS
<1>1. SightingsTypeOK
  BY StartsThere, SightingsAssumption DEF SightingsInit, SightingsTypeOK
<1>2. JobsTried
  BY SightingsAssumption DEF SightingsInit, JobsTried
<1>3. AlertsKnown
  BY StartsThere DEF SightingsInit, AlertsKnown
<1> QED
  BY <1>1, <1>2, <1>3, FS_EmptySet DEF SightingsInit, SightingsBasics

\* The gateway and the workers, but for what they write.
LEMMA JobsMove ==
  ASSUME SightingsBasics, NEW j \in Job,
         \/ \E r \in Raw, t \in CaptureTime : Enqueue(j, r, t)
         \/ Claim(j) \/ ProcessFails(j) \/ Fail(j) \/ Stop(j)
  PROVE  SightingsBasics'
<1> USE DEF SightingsBasics
<1>0. /\ MaxAttempts \in Nat \ {0}
      /\ status \in [Job -> {"none", "queued", "processing", "done", "duplicate", "failed"}]
      /\ attempts \in [Job -> 0..MaxAttempts]
      /\ step \in [Job -> {"idle", "claimed", "read", "failing"}]
      /\ view \in [Job -> View]
  BY SightingsAssumption DEF SightingsTypeOK
<1>1. /\ UNCHANGED <<scans, flagged, alertVars>>
      /\ unheard' = unheard
  BY DEF Enqueue, Claim, ProcessFails, Fail, Stop, history
<1>2. /\ status' \in [Job -> {"none", "queued", "processing", "done", "duplicate", "failed"}]
      /\ raw' \in [Job -> Raw] /\ captured' \in [Job -> CaptureTime]
      /\ step' \in [Job -> {"idle", "claimed", "read", "failing"}]
      /\ stranded' \subseteq Job /\ unsure' \subseteq Job
  BY DEF Enqueue, Claim, ProcessFails, Fail, Stop, jobVars, history, SightingsTypeOK
<1>3. view' \in [Job -> View] /\ \A i \in Job : view'[i] = view[i] \/ view'[i] = NoView
  BY <1>0, StartsThere DEF Enqueue, Claim, ProcessFails, Fail, Stop
<1>4. attempts' \in [Job -> 0..MaxAttempts]
  <2>1. CASE Claim(j)
    BY <1>0, <2>1 DEF Claim, JobsTried
  <2> QED
    BY <1>0, <2>1 DEF Enqueue, ProcessFails, Fail, Stop, jobVars
<1>5. \A i \in Job : step'[i] \in {"claimed", "read"} => status'[i] = "processing"
  BY <1>0 DEF Enqueue, Claim, ProcessFails, Fail, Stop, jobVars, JobsTried, SightingsTypeOK
<1>6. JobsTried'
  <2>1. CASE \E r \in Raw, t \in CaptureTime : Enqueue(j, r, t)
    BY <1>0, <2>1 DEF Enqueue, JobsTried
  <2>2. CASE Claim(j)
    BY <1>0, <2>2 DEF Claim, JobsTried
  <2>3. CASE ProcessFails(j) \/ Stop(j)
    BY <1>0, <2>3 DEF ProcessFails, Stop, JobsTried, jobVars, SightingsTypeOK
  <2>4. CASE Fail(j)
    BY <1>0, <2>4 DEF Fail, JobsTried
  <2> QED
    BY <2>1, <2>2, <2>3, <2>4
<1>7. AlertsKnown'
  BY <1>1, <1>3, StartsThere DEF AlertsKnown
<1> QED
  BY <1>1, <1>2, <1>3, <1>4, <1>5, <1>6, <1>7 DEF SightingsTypeOK, alertVars

\* A worker reads: what it sees flagged is a vehicle.
LEMMA ReadMoves ==
  ASSUME SightingsBasics, NEW j \in Job, Read(j)
  PROVE  SightingsBasics'
<1>1. PICK plate \in Plate : /\ view' = [view EXCEPT ![j] =
                                  [plate |-> plate,
                                   dup |-> \E s \in scans : Near(s, j, plate),
                                   alert |-> plate \in flagged]]
                             /\ unsure' \subseteq unsure \cup {j}
  <2>1. PICK withRegex \in BOOLEAN :
          /\ view' = [view EXCEPT ![j] =
               [plate |-> Normalize(raw[j], withRegex),
                dup |-> \E s \in scans : Near(s, j, Normalize(raw[j], withRegex)),
                alert |-> Normalize(raw[j], withRegex) \in flagged]]
          /\ unsure' \subseteq unsure \cup {j}
    BY DEF Read
  <2>2. Normalize(raw[j], withRegex) \in Plate
    BY SightingsAssumption DEF Normalize, SightingsBasics, SightingsTypeOK
  <2> QED
    BY <2>1, <2>2
<1>2. PICK dup \in BOOLEAN : dup = \E s \in scans : Near(s, j, plate)
  OBVIOUS
<1>3. PICK alert \in BOOLEAN : alert = (plate \in flagged)
  <2>1. (plate \in flagged) \in BOOLEAN
    OBVIOUS
  <2> QED
    BY <2>1
<1>4. view' = [view EXCEPT ![j] = [plate |-> plate, dup |-> dup, alert |-> alert]]
  BY <1>1, <1>2, <1>3
<1>5. view' \in [Job -> View]
  BY <1>4 DEF SightingsBasics, SightingsTypeOK, View
<1>6. /\ \A i \in Job : view'[i].alert => view'[i].plate \in Vehicle
  BY <1>3, <1>4 DEF SightingsBasics, AlertsKnown, SightingsTypeOK
<1>7. /\ step[j] = "claimed" /\ step' = [step EXCEPT ![j] = "read"]
      /\ UNCHANGED <<jobVars, scans, flagged, alertVars, unheard, stranded>>
  BY DEF Read
<1>8. SightingsTypeOK'
  BY <1>1, <1>5, <1>7 DEF SightingsBasics, SightingsTypeOK, jobVars, alertVars
<1>9. JobsTried'
  BY <1>7 DEF SightingsBasics, SightingsTypeOK, jobVars, JobsTried
<1>10. AlertsKnown'
  BY <1>6, <1>7 DEF SightingsBasics, AlertsKnown
<1> QED
  BY <1>7, <1>8, <1>9, <1>10 DEF SightingsBasics, alertVars

\* A worker writes its scan, and hears of it or not.
LEMMA WriteMoves ==
  ASSUME SightingsBasics, NEW j \in Job, Finish(j) \/ FinishUnheard(j)
  PROVE  SightingsBasics'
<1>1. /\ Write(j) /\ step[j] = "read"
      /\ step' = [step EXCEPT ![j] = "idle"] \/ step' = [step EXCEPT ![j] = "failing"]
  BY DEF Finish, FinishUnheard, Write
<1>2. /\ scans' = scans \cup {Scan(j)} /\ view' = [view EXCEPT ![j] = NoView]
      /\ UNCHANGED <<attempts, raw, captured, flagged, alertVars, stranded, unsure>>
  BY <1>1 DEF Write
<1>3. PICK st \in {"duplicate", "done"} : status' = [status EXCEPT ![j] = st]
  BY <1>1 DEF Write
<1>4. Scan(j) \in [by : Attempt, plate : Plate, dup : BOOLEAN, alert : BOOLEAN]
  <2>1. attempts[j] \in 1..MaxAttempts
    BY <1>1, SightingsAssumption DEF SightingsBasics, JobsTried, SightingsTypeOK
  <2>2. view[j] \in View
    BY DEF SightingsBasics, SightingsTypeOK
  <2> QED
    BY <2>1, <2>2 DEF Scan, View, Attempt
<1>5. Scan(j).alert => Scan(j).plate \in Vehicle
  BY DEF Scan, SightingsBasics, AlertsKnown
<1>6. unheard' \in [Job -> 0..MaxUnheard]
  <2>1. CASE Finish(j)
    BY <2>1 DEF Finish, SightingsBasics, SightingsTypeOK
  <2>2. CASE FinishUnheard(j)
    <3>1. unheard \in [Job -> 0..MaxUnheard] /\ unheard[j] < MaxUnheard /\ MaxUnheard \in Nat
          /\ unheard' = [unheard EXCEPT ![j] = @ + 1]
      BY <2>2, SightingsAssumption DEF FinishUnheard, SightingsBasics, SightingsTypeOK
    <3> QED
      BY <3>1
  <2> QED
    BY <2>1, <2>2
<1>7. view' \in [Job -> View]
  BY <1>2, StartsThere DEF SightingsBasics, SightingsTypeOK
<1>8. SightingsTypeOK'
  BY <1>1, <1>2, <1>3, <1>4, <1>6, <1>7 DEF SightingsBasics, SightingsTypeOK, alertVars
<1>9. JobsTried'
  BY <1>1, <1>2, <1>3 DEF SightingsBasics, SightingsTypeOK, JobsTried
<1>10. AlertsKnown'
  BY <1>2, <1>5, StartsThere DEF SightingsBasics, AlertsKnown, SightingsTypeOK
<1> QED
  BY <1>2, <1>8, <1>9, <1>10, FS_AddElement DEF SightingsBasics, alertVars

\* An alert as it is after the event of s: with it, if it is the open one.
Noted(s, a) ==
  IF a \in Conflicts(s.plate) /\ a.open THEN [a EXCEPT !.sightings = @ \cup {s.by}] ELSE a

\* It stays the alert it is, open or not, and loses no sighting.
LEMMA NotedIs ==
  ASSUME NEW s, s.by \in Attempt, NEW a \in AlertRow
  PROVE  /\ Noted(s, a) \in AlertRow
         /\ Noted(s, a).plate = a.plate /\ Noted(s, a).day = a.day
         /\ Noted(s, a).open = a.open
         /\ a.sightings \subseteq Noted(s, a).sightings
         /\ a \in Conflicts(s.plate) => s.by \in Noted(s, a).sightings
  BY DEF Noted, AlertRow, Conflicts

\* Two open alerts of a vehicle and a day are one.
OneOpen(A) == \A a, b \in A : a.open /\ b.open /\ a.plate = b.plate /\ a.day = b.day => a = b

\* The consumer raises an alert, or adds to the open one.
LEMMA HandleMoves ==
  ASSUME SightingsBasics, NEW s \in scans, Handle(s)
  PROVE  /\ SightingsBasics'
         /\ handled' = handled \cup {s.by} /\ missed' = missed \ {s.by}
         /\ \A a \in alerts : \E b \in alerts' : a.sightings \subseteq b.sightings
         /\ \E b \in alerts' : s.by \in b.sightings
<1>1. /\ s.by \in Attempt /\ s.plate \in Vehicle
      /\ missed \subseteq handled /\ handled \subseteq Attempt
      /\ alerts \subseteq AlertRow /\ IsFiniteSet(alerts) /\ OneOpen(alerts)
      /\ day \in 0..LastDay
  BY DEF Handle, SightingsBasics, SightingsTypeOK, AlertsKnown, AlertRow, OneOpen
<1>2. /\ handled' = handled \cup {s.by} /\ missed' = missed \ {s.by}
      /\ UNCHANGED <<jobVars, step, view, scans, flagged, day, history>>
  BY DEF Handle
<1>3. CASE Conflicts(s.plate) = {}
  <2> DEFINE new == Raised(s.plate, s.by)
  <2>1. alerts' = alerts \cup {new}
    BY <1>3 DEF Handle
  <2>2. Cardinality(alerts) \in Nat
    BY <1>1, FS_CardinalityType
  <2>3. /\ new \in AlertRow /\ new.plate = s.plate /\ new.day = day
        /\ new.sightings = {s.by}
    BY <1>1, <2>2 DEF Raised, AlertRow
  <2>4. \A a \in alerts : ~(a.open /\ a.plate = s.plate /\ a.day = day)
    BY <1>3 DEF Conflicts
  <2> HIDE DEF new
  <2>5. IsFiniteSet(alerts') /\ alerts' \subseteq AlertRow /\ OneOpen(alerts')
    BY <1>1, <2>1, <2>3, <2>4, FS_AddElement DEF OneOpen
  <2>6. SightingsTypeOK'
    BY <1>1, <1>2, <2>5
       DEF SightingsBasics, SightingsTypeOK, AlertRow, OneOpen, jobVars, history
  <2> QED
    BY <1>2, <2>1, <2>3, <2>5, <2>6
       DEF SightingsBasics, JobsTried, AlertsKnown, jobVars
<1>4. CASE Conflicts(s.plate) # {}
  <2>1. alerts' = {Noted(s, a) : a \in alerts}
    BY <1>4 DEF Handle, Noted
  <2>2. IsFiniteSet({Noted(s, a) : a \in alerts})
    <3> DEFINE T == {Noted(s, a) : a \in alerts}
               f == [a \in alerts |-> Noted(s, a)]
    <3>1. f \in Surjection(alerts, T)
      BY DEF Surjection
    <3> HIDE DEF f, T
    <3>2. IsFiniteSet(T)
      BY <1>1, <3>1, FS_Surjection
    <3> QED
      BY <3>2 DEF T
  <2>3. alerts' \subseteq AlertRow
    BY <1>1, <2>1, NotedIs
  <2>4. OneOpen(alerts')
    <3> SUFFICES ASSUME NEW a \in alerts, NEW b \in alerts,
                        Noted(s, a).open, Noted(s, b).open,
                        Noted(s, a).plate = Noted(s, b).plate, Noted(s, a).day = Noted(s, b).day
                 PROVE  a = b
      BY <2>1 DEF OneOpen
    <3>1. a.open /\ b.open /\ a.plate = b.plate /\ a.day = b.day
      BY <1>1, NotedIs
    <3> QED
      BY <1>1, <3>1 DEF OneOpen
  <2>5. SightingsTypeOK'
    BY <1>1, <1>2, <2>3, <2>4
       DEF SightingsBasics, SightingsTypeOK, AlertRow, OneOpen, jobVars, history
  <2>6. \A a \in alerts : \E b \in alerts' : a.sightings \subseteq b.sightings
    BY <1>1, <2>1, NotedIs
  <2>7. \E b \in alerts' : s.by \in b.sightings
    <3>1. PICK a \in alerts : a \in Conflicts(s.plate)
      BY <1>4 DEF Conflicts
    <3> QED
      BY <1>1, <2>1, <3>1, NotedIs
  <2>8. JobsTried' /\ AlertsKnown'
    BY <1>2 DEF SightingsBasics, JobsTried, AlertsKnown, jobVars
  <2> QED
    BY <1>2, <2>1, <2>2, <2>5, <2>6, <2>7, <2>8 DEF SightingsBasics
<1> QED
  BY <1>3, <1>4

\* An alert that is resolved keeps its sightings.
LEMMA ResolveAlertMoves ==
  ASSUME SightingsBasics, NEW a \in alerts, ResolveAlert(a)
  PROVE  /\ SightingsBasics'
         /\ \A b \in alerts : \E c \in alerts' : c.sightings = b.sightings
<1> DEFINE closed == [a EXCEPT !.open = FALSE]
<1>1. /\ alerts' = (alerts \ {a}) \cup {closed}
      /\ UNCHANGED <<jobVars, step, view, scans, flagged, handled, missed, day, history>>
  BY DEF ResolveAlert
<1>2. alerts \subseteq AlertRow /\ OneOpen(alerts) /\ IsFiniteSet(alerts)
  BY DEF SightingsBasics, SightingsTypeOK, AlertRow, OneOpen
<1>3. closed \in AlertRow /\ closed.sightings = a.sightings /\ closed.open = FALSE
  BY <1>2 DEF AlertRow
<1> HIDE DEF closed
<1>4. alerts' \subseteq AlertRow /\ OneOpen(alerts')
  BY <1>1, <1>2, <1>3 DEF OneOpen
<1>5. IsFiniteSet(alerts')
  BY <1>1, <1>2, FS_RemoveElement, FS_AddElement
<1>6. SightingsTypeOK'
  BY <1>1, <1>4
     DEF SightingsBasics, SightingsTypeOK, AlertRow, OneOpen, jobVars, history
<1>7. JobsTried' /\ AlertsKnown'
  BY <1>1 DEF SightingsBasics, JobsTried, AlertsKnown, jobVars
<1> QED
  BY <1>1, <1>3, <1>5, <1>6, <1>7 DEF SightingsBasics

\* Every step keeps the types of the sightings.
LEMMA SightingsMove ==
  ASSUME SightingsBasics, [SightingsNext]_sightingsVars
  PROVE  SightingsBasics'
<1>1. CASE /\ UNCHANGED <<jobVars, step, view, scans, alerts, unheard, stranded>>
           /\ flagged' \subseteq Vehicle /\ day' \in 0..LastDay /\ unsure' \subseteq Job
           /\ missed' \subseteq handled' /\ handled' \subseteq Attempt
  <2>1. SightingsTypeOK'
    BY <1>1 DEF SightingsBasics, SightingsTypeOK, jobVars
  <2> QED
    BY <1>1, <2>1 DEF SightingsBasics, JobsTried, AlertsKnown, jobVars
<1>2. ASSUME NEW v \in Vehicle, SetFlag(v) \/ ClearFlag(v)
      PROVE  SightingsBasics'
  BY <1>1, <1>2 DEF SetFlag, ClearFlag, SightingsBasics, SightingsTypeOK, alertVars, history
<1>3. CASE Midnight
  <2>1. day' \in 0..LastDay
    BY <1>3, SightingsAssumption DEF Midnight, SightingsBasics, SightingsTypeOK
  <2> QED
    BY <1>1, <1>3, <2>1 DEF Midnight, SightingsBasics, SightingsTypeOK, history
<1>4. CASE UNCHANGED sightingsVars
  BY <1>1, <1>4 DEF sightingsVars, SightingsBasics, SightingsTypeOK, alertVars, history
<1>5. ASSUME NEW s \in scans, HandleFails(s)
      PROVE  SightingsBasics'
  BY <1>1, <1>5 DEF HandleFails, SightingsBasics, SightingsTypeOK, history
<1> QED
  BY <1>2, <1>3, <1>4, <1>5, JobsMove, ReadMoves, WriteMoves, HandleMoves, ResolveAlertMoves
     DEF SightingsNext, WorkerStep

\* The types of the sightings hold: jobs are tried no more often than they
\* may be, a worker holds its job until it has said how it ended, and a
\* vehicle has one open alert a day.
THEOREM SightingsTypeCorrect == SightingsSpec => []SightingsTypeOK
<1>1. SightingsBasics => SightingsTypeOK
  BY DEF SightingsBasics
<1>2. SightingsBasics /\ [SightingsNext]_sightingsVars => SightingsBasics'
  BY SightingsMove
<1> QED
  BY <1>1, <1>2, SightingsStart, PTL DEF SightingsSpec

----------------------------------------------------------------------------
\* A scan that is written is its job's, and nobody else's.
LEMMA ScansMove ==
  ASSUME SightingsBasics, NEW j \in Job, scans' = scans \cup {Scan(j)}
  PROVE  /\ \A i \in Job \ {j} : ScansOf(i)' = ScansOf(i)
         /\ Cardinality(ScansOf(j)') \in Nat /\ Cardinality(ScansOf(j)) \in Nat
         /\ Cardinality(ScansOf(j)') <= 1 + Cardinality(ScansOf(j))
         /\ Cardinality(ScansOf(j)') > 0
<1>1. Scan(j).by[1] = j
  BY DEF Scan
<1>2. \A i \in Job \ {j} : ScansOf(i)' = ScansOf(i)
  BY <1>1 DEF ScansOf
<1>3. ScansOf(j)' = ScansOf(j) \cup {Scan(j)}
  BY <1>1 DEF ScansOf
<1>4. IsFiniteSet(ScansOf(j))
  <2>1. ScansOf(j) \subseteq scans
    BY DEF ScansOf
  <2> QED
    BY <2>1, FS_Subset DEF SightingsBasics
<1>5. Cardinality(ScansOf(j)) \in Nat
  BY <1>4, FS_CardinalityType
<1>6. /\ IsFiniteSet(ScansOf(j) \cup {Scan(j)})
      /\ \/ Cardinality(ScansOf(j) \cup {Scan(j)}) = Cardinality(ScansOf(j))
         \/ Cardinality(ScansOf(j) \cup {Scan(j)}) = Cardinality(ScansOf(j)) + 1
  BY <1>4, FS_AddElement
<1>7. Cardinality(ScansOf(j) \cup {Scan(j)}) # 0
  BY <1>6, FS_EmptySet
<1> QED
  BY <1>2, <1>3, <1>5, <1>6, <1>7

\* The scans of every job stay counted.
LEMMA CountsMove ==
  ASSUME SightingsBasics, ScansCounted, [SightingsNext]_sightingsVars
  PROVE  ScansCounted'
<1>0. /\ \A i \in Job : unheard[i] \in Nat
      /\ status \in [Job -> {"none", "queued", "processing", "done", "duplicate", "failed"}]
      /\ step \in [Job -> {"idle", "claimed", "read", "failing"}]
      /\ unheard \in [Job -> 0..MaxUnheard]
  BY SightingsAssumption DEF SightingsBasics, SightingsTypeOK
<1>1. CASE UNCHANGED <<scans, status, step, unheard>>
  BY <1>1 DEF ScansCounted, ScansOf
<1>2. ASSUME NEW j \in Job, scans' = scans, unheard' = unheard,
             \A i \in Job \ {j} : status'[i] = status[i] /\ step'[i] = step[i],
             \/ status'[j] = status[j]
             \/ status'[j] \notin {"done", "duplicate"} /\
                  (status[j] \notin {"done", "duplicate"} \/ step[j] = "failing"),
             step'[j] = "failing" => status'[j] \notin {"done", "duplicate"}
      PROVE  ScansCounted'
  <2>1. \A i \in Job : ScansOf(i)' = ScansOf(i)
    BY <1>2 DEF ScansOf
  <2> SUFFICES ASSUME NEW i \in Job
               PROVE  /\ Cardinality(ScansOf(i)) <= 1 + unheard[i]
                      /\ status'[i] \notin {"done", "duplicate"}
                           => Cardinality(ScansOf(i)) <= unheard[i]
                      /\ step'[i] = "failing" => Cardinality(ScansOf(i)) <= unheard[i]
                      /\ status'[i] \in {"done", "duplicate"} => Cardinality(ScansOf(i)) > 0
    BY <1>2, <2>1 DEF ScansCounted
  <2>2. CASE i = j
    BY <1>0, <1>2, <2>2 DEF ScansCounted
  <2>3. CASE i # j
    BY <1>2, <2>3 DEF ScansCounted
  <2> QED
    BY <2>2, <2>3
<1>3. ASSUME NEW j \in Job, Finish(j) \/ FinishUnheard(j)
      PROVE  ScansCounted'
  <2>1. /\ scans' = scans \cup {Scan(j)} /\ step[j] = "read"
        /\ \A i \in Job \ {j} : /\ status'[i] = status[i] /\ step'[i] = step[i]
                                /\ unheard'[i] = unheard[i]
        /\ status'[j] \in {"done", "duplicate"}
        /\ \/ step'[j] = "idle" /\ unheard'[j] = unheard[j]
           \/ unheard'[j] = unheard[j] + 1
    BY <1>0, <1>3 DEF Finish, FinishUnheard, Write
  <2>2. status[j] = "processing"
    BY <2>1 DEF SightingsBasics, SightingsTypeOK
  <2>3. /\ \A i \in Job \ {j} : ScansOf(i)' = ScansOf(i)
        /\ Cardinality(ScansOf(j)') \in Nat /\ Cardinality(ScansOf(j)) \in Nat
        /\ Cardinality(ScansOf(j)') <= 1 + Cardinality(ScansOf(j))
        /\ Cardinality(ScansOf(j)') > 0
    BY <2>1, ScansMove
  <2>4. Cardinality(ScansOf(j)) <= unheard[j]
    BY <2>2 DEF ScansCounted
  <2>5. ASSUME NEW i \in Job
        PROVE  /\ Cardinality(ScansOf(i)') <= 1 + unheard'[i]
               /\ status'[i] \notin {"done", "duplicate"}
                    => Cardinality(ScansOf(i)') <= unheard'[i]
               /\ step'[i] = "failing" => Cardinality(ScansOf(i)') <= unheard'[i]
               /\ status'[i] \in {"done", "duplicate"} => Cardinality(ScansOf(i)') > 0
    <3>1. CASE i = j
      BY <1>0, <2>1, <2>3, <2>4, <3>1
    <3>2. CASE i # j
      BY <2>1, <2>3, <3>2 DEF ScansCounted
    <3> QED
      BY <3>1, <3>2
  <2> QED
    BY <2>5 DEF ScansCounted
<1>4. ASSUME NEW j \in Job, NEW r \in Raw, NEW t \in CaptureTime, Enqueue(j, r, t)
      PROVE  ScansCounted'
  BY <1>0, <1>2, <1>4 DEF Enqueue, SightingsBasics, JobsTried
<1>5. ASSUME NEW j \in Job, Claim(j) \/ Read(j)
      PROVE  ScansCounted'
  BY <1>0, <1>2, <1>5 DEF Claim, Read, jobVars, history
<1>6. ASSUME NEW j \in Job, ProcessFails(j)
      PROVE  ScansCounted'
  BY <1>0, <1>2, <1>6 DEF ProcessFails, jobVars, history, SightingsBasics, SightingsTypeOK
<1>7. ASSUME NEW j \in Job, Fail(j) \/ Stop(j)
      PROVE  ScansCounted'
  BY <1>0, <1>2, <1>7 DEF Fail, Stop, jobVars, history
<1> QED
  BY <1>1, <1>3, <1>4, <1>5, <1>6, <1>7
     DEF SightingsNext, WorkerStep, SetFlag, ClearFlag, Handle, HandleFails,
         ResolveAlert, Midnight,
         sightingsVars, jobVars, history

\* A job writes one scan, and one more for each commit whose answer was lost,
\* however many workers there are, however often it is tried and whichever of
\* them stop; what ended as done or duplicate has been written.
THEOREM ScannedOnceHolds == SightingsSpec => []ScannedOnce
<1>1. SightingsInit => ScansCounted
  BY FS_EmptySet DEF SightingsInit, ScansCounted, ScansOf
<1>2. SightingsBasics /\ ScansCounted /\ [SightingsNext]_sightingsVars
        => SightingsBasics' /\ ScansCounted'
  BY SightingsMove, CountsMove
<1>3. ScansCounted => ScannedOnce
  BY DEF ScansCounted, ScansOf, ScannedOnce
<1> QED
  BY <1>1, <1>2, <1>3, SightingsStart, PTL DEF SightingsSpec

----------------------------------------------------------------------------
\* What is known of the sightings so far stays known.
LEMMA FlagsMove ==
  ASSUME SightingsBasics, FlagsSeen, [SightingsNext]_sightingsVars
  PROVE  FlagsSeen'
<1>0. /\ status \in [Job -> {"none", "queued", "processing", "done", "duplicate", "failed"}]
      /\ step \in [Job -> {"idle", "claimed", "read", "failing"}]
      /\ raw \in [Job -> Raw] /\ view \in [Job -> View]
  BY DEF SightingsBasics, SightingsTypeOK
<1>1. \A j \in Job : step[j] # "idle" => status[j] # "none"
  BY DEF SightingsBasics, JobsTried
<1>2. ASSUME UNCHANGED <<scans, handled, missed, alerts>>,
             \A i \in Job : /\ status'[i] = status[i]
                               \/ status'[i] \notin {"none", "done", "duplicate"}
                            /\ status'[i] # "none" => i \in unsure' \/ Corrected[raw'[i]] \in flagged'
                            /\ i \in unsure => i \in unsure'
                            /\ step'[i] = "read" => i \in unsure' \/ view'[i].alert
      PROVE  FlagsSeen'
  BY <1>2 DEF FlagsSeen
<1>3. ASSUME NEW j \in Job, NEW r \in Raw, NEW t \in CaptureTime, Enqueue(j, r, t)
      PROVE  FlagsSeen'
  BY <1>0, <1>2, <1>3 DEF Enqueue, FlagsSeen, alertVars
<1>4. ASSUME NEW j \in Job, Claim(j) \/ ProcessFails(j) \/ Fail(j) \/ Stop(j)
      PROVE  FlagsSeen'
  BY <1>0, <1>1, <1>2, <1>4
     DEF Claim, ProcessFails, Fail, Stop, FlagsSeen, jobVars, alertVars, history
<1>5. ASSUME NEW j \in Job, Read(j)
      PROVE  FlagsSeen'
  <2>1. /\ UNCHANGED <<jobVars, scans, flagged, alertVars>>
        /\ step[j] = "claimed" /\ step' = [step EXCEPT ![j] = "read"]
        /\ \A i \in Job \ {j} : view'[i] = view[i]
        /\ unsure \subseteq unsure'
        /\ j \in unsure' \/ view'[j].alert
    <3>1. PICK withRegex \in BOOLEAN :
            LET plate == Normalize(raw[j], withRegex)
            IN  /\ view' = [view EXCEPT ![j] =
                     [plate |-> plate,
                      dup |-> \E s \in scans : Near(s, j, plate),
                      alert |-> plate \in flagged]]
                /\ unsure' = IF plate = Corrected[raw[j]] THEN unsure ELSE unsure \cup {j}
      BY <1>5 DEF Read
    <3>2. step[j] = "claimed" /\ step' = [step EXCEPT ![j] = "read"]
          /\ UNCHANGED <<jobVars, scans, flagged, alertVars>>
      BY <1>5 DEF Read
    <3>3. view'[j].alert = (Normalize(raw[j], withRegex) \in flagged)
      BY <1>0, <3>1
    <3>4. j \notin unsure => Corrected[raw[j]] \in flagged
      BY <1>1, <3>2 DEF FlagsSeen
    <3> QED
      BY <1>0, <3>1, <3>2, <3>3, <3>4
  <2> QED
    BY <1>0, <1>2, <2>1 DEF FlagsSeen, jobVars, alertVars
<1>6. ASSUME NEW j \in Job, Finish(j) \/ FinishUnheard(j)
      PROVE  FlagsSeen'
  <2>1. /\ scans' = scans \cup {Scan(j)} /\ step[j] = "read"
        /\ UNCHANGED <<raw, flagged, alertVars, unsure>>
        /\ \A i \in Job \ {j} : /\ status'[i] = status[i] /\ step'[i] = step[i]
                                /\ view'[i] = view[i]
        /\ step'[j] # "read"
    BY <1>0, <1>6 DEF Finish, FinishUnheard, Write
  <2>2. Scan(j).by[1] = j /\ Scan(j).alert = view[j].alert
    BY DEF Scan
  <2>3. j \notin unsure => Scan(j).alert /\ Corrected[raw[j]] \in flagged
    BY <1>1, <2>1, <2>2 DEF FlagsSeen
  <2>4. \A i \in Job : status'[i] # "none" /\ i \notin unsure' => Corrected[raw'[i]] \in flagged'
    BY <2>1, <2>3 DEF FlagsSeen
  <2>5. \A i \in Job : step'[i] = "read" /\ i \notin unsure' => view'[i].alert
    BY <2>1 DEF FlagsSeen
  <2>6. ASSUME NEW i \in Job, status'[i] \in {"done", "duplicate"}, i \notin unsure'
        PROVE  \E s \in scans' : s.by[1] = i /\ s.alert
    BY <2>1, <2>2, <2>3, <2>6 DEF FlagsSeen
  <2> QED
    BY <2>1, <2>4, <2>5, <2>6 DEF FlagsSeen, alertVars
<1>7. ASSUME NEW v \in Vehicle, SetFlag(v) \/ ClearFlag(v)
      PROVE  FlagsSeen'
  BY <1>2, <1>7 DEF SetFlag, ClearFlag, FlagsSeen, jobVars, alertVars, history
<1>8. ASSUME UNCHANGED <<jobVars, step, view, scans, flagged, unsure>>,
             \A h \in (handled \ missed)' : \E a \in alerts' : h \in a.sightings
      PROVE  FlagsSeen'
  BY <1>8 DEF FlagsSeen, jobVars
<1>9. ASSUME NEW s \in scans, Handle(s)
      PROVE  FlagsSeen'
  <2>1. \A h \in (handled \ missed)' : \E a \in alerts' : h \in a.sightings
    BY <1>9, HandleMoves DEF FlagsSeen
  <2> QED
    BY <1>8, <1>9, <2>1 DEF Handle, history
<1>10. ASSUME NEW a \in alerts, ResolveAlert(a)
       PROVE  FlagsSeen'
  <2>1. \A h \in handled \ missed : \E b \in alerts' : h \in b.sightings
    BY <1>10, ResolveAlertMoves DEF FlagsSeen
  <2> QED
    BY <1>8, <1>10, <2>1 DEF ResolveAlert, history
<1>11. CASE Midnight \/ UNCHANGED sightingsVars
  BY <1>8, <1>11 DEF Midnight, sightingsVars, alertVars, history, FlagsSeen
<1>12. ASSUME NEW s \in scans, HandleFails(s)
       PROVE  FlagsSeen'
  <2>1. \A h \in (handled \ missed)' : \E a \in alerts' : h \in a.sightings
    BY <1>12 DEF HandleFails, FlagsSeen
  <2> QED
    BY <1>8, <1>12, <2>1 DEF HandleFails, history
<1> QED
  BY <1>3, <1>4, <1>5, <1>6, <1>7, <1>9, <1>10, <1>11, <1>12
     DEF SightingsNext, WorkerStep

\* A flagged vehicle that was seen is known to the staff, whatever workers,
\* events and administrators do: an alert was raised or open after the scan,
\* its event is on the way, or the consumer has only failed on it, which the
\* code neither tries again nor records.
THEOREM SightingsAreAlertedHolds == SightingsSpec => []SightingsAreAlerted
<1>1. SightingsInit => FlagsSeen
  BY DEF SightingsInit, FlagsSeen
<1>2. SightingsBasics /\ FlagsSeen /\ [SightingsNext]_sightingsVars
        => SightingsBasics' /\ FlagsSeen'
  BY SightingsMove, FlagsMove
<1>3. FlagsSeen => SightingsAreAlerted
  BY DEF FlagsSeen, SightingsAreAlerted
<1> QED
  BY <1>1, <1>2, <1>3, SightingsStart, PTL DEF SightingsSpec

=============================================================================
