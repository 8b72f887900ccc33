\* Two fines of one vehicle for one offence, both issued at the same time.
CONSTANTS
  Fine = {f1, f2}
  Payment = {}
  Intent = {}
  Dispute = {}
  Subject = {v1}
  Replica = {r1}
  NoVehicle = NoVehicle
  NoFine = NoFine
  NoIntent = NoIntent
  StageAction <- MCOneAction
  StageAge <- MCOneAge
  DuplicateWindow = 1
  HonoursKey = FALSE
  MaxAge = 1
  MaxCancels = 1
SPECIFICATION Spec
INVARIANT DuplicatesAreRejected
CHECK_DEADLOCK FALSE
