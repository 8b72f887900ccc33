\* One account, two sessions, two requests at once.  Two sweeps, one of them a
\* ticker's, over two pieces of evidence of one fine, one of them stuck in the
\* bucket.
CONSTANTS
  User = {u1}
  Password = {p1, p2}
  Token = {t1, t2}
  Request = {q1, q2}
  Grant <- MCGrant
  RolePermissions <- MCRolePermissions
  AccessTTL = 1
  RefreshTTL = 2
  NoUser = NoUser
  NoToken = NoToken
  Fine = {f1}
  Evidence = {e1, e2}
  FineOf <- MCFineOf
  Sweeper = {r1, r2}
  Ticker = {r1}
  Stuck = {e2}
  DefaultDays = 1
  PaidDays = 0
  CancelledDays = 0
  CourtDays = Never
  Never = Never
  MaxDays = 2
  MaxStops = 2
  NoEvidence = NoEvidence
SPECIFICATION MCSpec
INVARIANTS
  ClaimsAreBracketed
  CustodyAgrees
PROPERTIES
  LogoutIsFinal
  DeactivatedEnds
  ProtectedIsKept
  DueIsSealed
CHECK_DEADLOCK FALSE
