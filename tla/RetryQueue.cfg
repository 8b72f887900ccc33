\* Two workers and a verify request on one vehicle, two jobs of two
\* attempts, one of them abandoned.
CONSTANTS
  Job = {j1, j2}
  Vehicle = {v1}
  Worker = {w1, w2}
  Request = {q1}
  NoJob = NoJob
  NoVehicle = NoVehicle
  MaxAttempts = 2
  MaxVersion = 2
  MaxCrashes = 1
SPECIFICATION FairSpec
INVARIANTS
  ClaimIsExclusive
  AttemptsCountRuns
  VerifiedIsOnRecord
PROPERTIES
  JobsEnd
CHECK_DEADLOCK FALSE
