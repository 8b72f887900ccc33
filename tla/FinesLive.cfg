\* Two fines, a retried payment, webhooks and sweeps under fairness (no
\* symmetry: liveness), with a provider that honours the idempotency key.
CONSTANTS
  Fine = {f1, f2}
  Payment = {p1, p2}
  Intent = {i1}
  Dispute = {}
  Subject = {}
  Replica = {r1}
  NoVehicle = NoVehicle
  NoFine = NoFine
  NoIntent = NoIntent
  StageAction <- MCOneAction
  StageAge <- MCOneAge
  DuplicateWindow = 1
  HonoursKey = TRUE
  MaxAge = 1
  MaxCancels = 1
SPECIFICATION FairSpec
PROPERTIES
  CaptureIsSettled
  OverdueEscalates
CHECK_DEADLOCK FALSE
