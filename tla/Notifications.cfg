\* Two replicas over two events, one fault.
CONSTANTS
  seller = seller
  buyer = buyer
  MaxEvent = 2
  KindOf <- MCKindOf
  PartyOf <- MCPartyOf
  Party = {seller, buyer}
  Reachable = {seller}
  Nobody = Nobody
  Replica = {r1, r2}
  BatchLimit = 2
  Message = {m1}
  MaxFaults = 1
SPECIFICATION NotificationsFairSpec
INVARIANTS
  NotificationsTypeOK
  RecordsAgree
  PassedIsAccounted
PROPERTIES
  PastIsPast
  EventIsPassed
CHECK_DEADLOCK FALSE
