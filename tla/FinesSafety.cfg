\* Two pay requests, two disputes, a cancellation and two replicas sweeping
\* one fine through two stages; and two fines of one vehicle with one of each.
CONSTANTS
  Fine = {f1, f2}
  Payment = {p1, p2}
  Intent = {i1, i2}
  Dispute = {d1, d2}
  Subject = {v1}
  Replica = {r1, r2}
  NoVehicle = NoVehicle
  NoFine = NoFine
  NoIntent = NoIntent
  StageAction <- MCStageAction
  StageAge <- MCStageAge
  DuplicateWindow = 2
  HonoursKey = FALSE
  MaxAge = 2
  MaxCancels = 1
SPECIFICATION Spec
SYMMETRY SafetySymmetry
CONSTRAINT OneFineOrTwo
INVARIANTS
  PaymentsAgree
  DisputedIsPending
  EscalatedOnce
  NoDuplicateFines
PROPERTIES
  ClosedIsLeftAlone
  ImplementsLedger
CHECK_DEADLOCK FALSE
