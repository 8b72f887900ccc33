------------------------------ MODULE Sessions ------------------------------
(***************************************************************************)
(* The auth service: users with their roles and passwords, refresh tokens  *)
(* in the database, access tokens that live outside it until they expire.  *)
(* A login or a refresh is several statements with other requests between  *)
(* them: it looks its user or token up, then loads the roles and signs,    *)
(* then commits.  Lifetimes are counted down by the clock; a row or token  *)
(* with nothing left is forgotten, and its name free for another one.      *)
(***************************************************************************)
EXTENDS Naturals, Sequences

CONSTANTS
  User,             \* accounts (tenant and e-mail)
  Password,
  Token,            \* rows of refresh_tokens
  Request,          \* login and refresh requests, and the token they answer
  Grant,            \* the role sets an admin request may name
  RolePermissions,  \* role_permissions: the permissions of every role
  AccessTTL,        \* JWT_ACCESS_TTL, in ticks
  RefreshTTL,       \* JWT_REFRESH_TTL, in ticks
  NoUser, NoToken

\* pickPrimary's order.
Priority == <<"admin", "court", "customs", "officer", "citizen">>
Role == {Priority[i] : i \in 1..Len(Priority)}

ASSUME SessionAssumption ==
  /\ AccessTTL \in Nat \ {0} /\ RefreshTTL \in Nat \ {0}
  /\ Grant \subseteq SUBSET Role
  /\ DOMAIN RolePermissions = Role
  /\ NoUser \notin User /\ NoToken \notin Token

VARIABLES
  account,  \* users and user_roles
  refresh,  \* refresh_tokens
  req       \* the requests in progress, and the access tokens they answered

vars == <<account, refresh, req>>

Permission == UNION {RolePermissions[r] : r \in Role}

\* What an access token asserts.
Claims == [role : Role, perms : SUBSET Permission]

Accounts == [exists : BOOLEAN, password : Password, active : BOOLEAN, roles : SUBSET Role]
Rows     == [user : User \cup {NoUser}, left : 0..RefreshTTL, revoked : BOOLEAN]
Requests ==
  [pc     : {"idle", "login", "refresh", "signed_in", "signed", "answered"},
   user   : User \cup {NoUser},
   token  : Token \cup {NoToken},  \* the session it belongs to
   claims : Claims,
   left   : 0..AccessTTL,          \* of the access token, once signed
   stay   : 0..RefreshTTL,         \* of the refresh token about to be stored
   began  : SUBSET Role]           \* history: the roles when it looked up

TypeOK ==
  /\ account \in [User -> Accounts]
  /\ refresh \in [Token -> Rows]
  /\ req \in [Request -> Requests]

Nobody == [role |-> "citizen", perms |-> {}]
Idle == [pc |-> "idle", user |-> NoUser, token |-> NoToken, claims |-> Nobody,
         left |-> 0, stay |-> 0, began |-> {}]
NoRow == [user |-> NoUser, left |-> 0, revoked |-> FALSE]

\* No account yet; is_active is TRUE by default.
Init ==
  /\ account \in [User -> [exists : {FALSE}, password : Password, active : {TRUE},
                           roles : {{}}]]
  /\ refresh = [t \in Token |-> NoRow]
  /\ req = [q \in Request |-> Idle]

----------------------------------------------------------------------------
(***************************************************************************)
(* What a token says.                                                      *)
(***************************************************************************)
PickPrimary(R) == Priority[CHOOSE i \in DOMAIN Priority :
  Priority[i] \in R /\ \A j \in 1..(i - 1) : Priority[j] \notin R]

Carried(R) == UNION {RolePermissions[r] : r \in R}

\* loadRoleAndPerms: an account without a role is a citizen with no permission.
\* user_roles refers to roles, whose codes are all in Priority.
LoadRoleAndPerms(u) ==
  LET R == account[u].roles
  IN  IF R = {} THEN Nobody ELSE [role |-> PickPrimary(R), perms |-> Carried(R)]

\* Issuer.Parse accepts the access token q answered until it expires.
Live(q) == req[q].pc = "answered" /\ req[q].left > 0

\* /v1/auth/me shows what the token asserts and does not ask the database.
Me(q) == req[q].claims

\* Middleware and RequirePermission, in every service.
Admits(q, permission) == Live(q) /\ permission \in Me(q).perms

\* The bootstrap key, or the access token of an admin.
AdminAuthorized(keyed, q) == keyed \/ (Live(q) /\ Me(q).role = "admin")

----------------------------------------------------------------------------
(***************************************************************************)
(* Login.                                                                  *)
(***************************************************************************)
\* A request that has found its account, or its session and with it the account.
Begun(pc, u, t) == [pc |-> pc, user |-> u, token |-> t, claims |-> Nobody,
                    left |-> 0, stay |-> 0, began |-> account[u].roles]

\* Mutant: the account's is_active is not looked at.
LookUpAnyone(q, u, password) ==
  /\ req[q] = Idle
  /\ account[u].exists
  /\ account[u].password = password
  /\ req' = [req EXCEPT ![q] = Begun("login", u, NoToken)]
  /\ UNCHANGED <<account, refresh>>

\* The account is active and the password matches its hash; anything else is
\* answered 401 and leaves no trace.
LoginLookup(q, u, password) ==
  /\ req[q] = Idle
  /\ account[u].exists /\ account[u].active
  /\ account[u].password = password
  /\ req' = [req EXCEPT ![q] = Begun("login", u, NoToken)]
  /\ UNCHANGED <<account, refresh>>

\* Loads the roles, signs the access token and makes the refresh token.
LoginSign(q) ==
  /\ req[q].pc = "login"
  /\ req' = [req EXCEPT ![q].pc = "signed_in",
                        ![q].claims = LoadRoleAndPerms(req[q].user),
                        ![q].left = AccessTTL,
                        ![q].stay = RefreshTTL]
  /\ UNCHANGED <<account, refresh>>

LoginCommit(q, t) ==
  /\ req[q].pc = "signed_in"
  /\ refresh[t].left = 0
  /\ \A p \in Request : req[p].token # t   \* a name nothing refers to any more
  /\ refresh' = [refresh EXCEPT ![t] =
       [user |-> req[q].user, left |-> req[q].stay, revoked |-> FALSE]]
  /\ req' = [req EXCEPT ![q].pc = "answered", ![q].token = t, ![q].stay = 0]
  /\ UNCHANGED account

(***************************************************************************)
(* Refresh.  The row is read once, without a lock, and stays as it is.     *)
(***************************************************************************)
\* Mutant: revoked_at is not looked at.
RefreshRevoked(q, t) ==
  /\ req[q] = Idle
  /\ refresh[t].left > 0
  /\ req' = [req EXCEPT ![q] = Begun("refresh", refresh[t].user, t)]
  /\ UNCHANGED <<account, refresh>>

\* A row there is, not revoked and not expired.  is_active is not read here.
RefreshLookup(q, t) ==
  /\ req[q] = Idle
  /\ ~refresh[t].revoked
  /\ refresh[t].left > 0
  /\ req' = [req EXCEPT ![q] = Begun("refresh", refresh[t].user, t)]
  /\ UNCHANGED <<account, refresh>>

\* Loads the roles, ends the transaction, which wrote nothing, and signs.
RefreshSign(q) ==
  /\ req[q].pc = "refresh"
  /\ req' = [req EXCEPT ![q].pc = "answered",
                        ![q].claims = LoadRoleAndPerms(req[q].user),
                        ![q].left = AccessTTL]
  /\ UNCHANGED <<account, refresh>>

\* A statement of the request fails, or its process stops: rolled back.
RequestFails(q) ==
  /\ req[q].pc \in {"login", "refresh", "signed_in"}
  /\ req' = [req EXCEPT ![q] = Idle]
  /\ UNCHANGED <<account, refresh>>

(***************************************************************************)
(* The other requests are one statement or transaction each.               *)
(***************************************************************************)
\* A logout that fails, or names no row, is answered 204 all the same.
Logout(t) ==
  /\ refresh[t].left > 0
  /\ refresh' = [refresh EXCEPT ![t].revoked = TRUE]
  /\ UNCHANGED <<account, req>>

\* Mutant: the roles of the request replace those of the account.
CreateReplaces(u, password, roles) ==
  /\ \E keyed \in BOOLEAN, q \in Request : AdminAuthorized(keyed, q)
  /\ account' = [account EXCEPT ![u].exists = TRUE, ![u].password = password,
                               ![u].roles = roles]
  /\ UNCHANGED <<refresh, req>>

\* An upsert by e-mail: an account that exists takes the password and keeps
\* its roles, its sessions and whether it is active.
AdminCreateUser(u, password, roles) ==
  /\ \E keyed \in BOOLEAN, q \in Request : AdminAuthorized(keyed, q)
  /\ account' = [account EXCEPT ![u].exists = TRUE, ![u].password = password,
                               ![u].roles = @ \cup roles]
  /\ UNCHANGED <<refresh, req>>

\* is_active is only ever written by an operator, in the database.
SetActive(u, active) ==
  /\ account[u].exists /\ account[u].active # active
  /\ account' = [account EXCEPT ![u].active = active]
  /\ UNCHANGED <<refresh, req>>

----------------------------------------------------------------------------
Less(n) == IF n = 0 THEN 0 ELSE n - 1

\* Time passes for what is stored, what is signed and what is about to be.
Aged(q) ==
  LET r == req[q]
  IN  IF r.pc = "answered" /\ r.left <= 1 THEN Idle
      ELSE [r EXCEPT !.left = Less(@), !.stay = Less(@)]

Tick ==
  /\ req' = [q \in Request |-> Aged(q)]
  /\ refresh' = [t \in Token |-> IF refresh[t].left <= 1 THEN NoRow
                                 ELSE [refresh[t] EXCEPT !.left = @ - 1]]
  /\ UNCHANGED account

RequestStep(q) ==
  \/ LoginSign(q)
  \/ \E t \in Token : LoginCommit(q, t)
  \/ RefreshSign(q)
  \/ RequestFails(q)

Next ==
  \/ \E q \in Request :
       \/ \E u \in User, password \in Password : LoginLookup(q, u, password)
       \/ \E t \in Token : RefreshLookup(q, t)
       \/ RequestStep(q)
  \/ \E t \in Token : Logout(t)
  \/ \E u \in User :
       \/ \E password \in Password, roles \in Grant :
            AdminCreateUser(u, password, roles)
       \/ \E active \in BOOLEAN : SetActive(u, active)
  \/ Tick

Spec == Init /\ [][Next]_vars

\* The only fairness: time passes.
Fairness == WF_vars(Tick)

FairSpec == Spec /\ Fairness

----------------------------------------------------------------------------
(***************************************************************************)
(* Properties.                                                             *)
(***************************************************************************)
\* Whatever the services read out of a live access token is bracketed by two
\* moments: it has every permission the account had when the request looked
\* up, and none the account has lost since, although the roles are read
\* after the account, without a lock, and the token outlives the reading.
ClaimsAreBracketed == \A q \in Request : Live(q) =>
  LET now == account[req[q].user].roles
  IN  /\ Me(q).role \in now \cup {"citizen"}
      /\ \A permission \in Permission :
           /\ permission \in Carried(req[q].began) => Admits(q, permission)
           /\ Admits(q, permission) => permission \in Carried(now)

\* No access token of session t is live, and no refresh is about to make one.
Drained(t) == \A q \in Request : req[q].token = t =>
  req[q].pc # "refresh" /\ ~Live(q)

\* Once a session is logged out and the refreshes that overlapped the logout
\* are over, no access token comes out of it again (handleLogout marks the
\* row, handleRefresh reads it before it does anything else).
LogoutIsFinal == [][\A t \in Token :
  refresh[t].revoked /\ Drained(t) => Drained(t)']_vars

\* An account that stays deactivated ends up with no live access token: a
\* refresh does not ask is_active, but it does not prolong the session
\* either, so the sessions there are run out.
DeactivatedEnds == \A u \in User :
  <>[](~account[u].active) => <>[](\A q \in Request : Live(q) => req[q].user # u)

=============================================================================
