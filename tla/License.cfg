\* Two engines and two lift requests on one license, which name its suspensions
\* or none; two fines of one point each against a threshold of two, each fine
\* counted up to twice.
CONSTANTS
  License = {l1}
  Fine = {f1, f2}
  Engine = {e1, e2}
  Staff = {a1, a2}
  Suspension = {s1, s2}
  NoLicense = NoLicense
  NoFine = NoFine
  NoSuspension = NoSuspension
  NoEnd = NoEnd
  PointValues = {1}
  Threshold = 2
  Window = 1
  Term = 1
  MaxTime = 1
  MaxDeliveries = 2
SPECIFICATION Spec
INVARIANTS
  TypeOK
  PointsAreTheLedger
  OverThresholdIsSuspended
  SuspensionsAgree
SYMMETRY Symmetry
CHECK_DEADLOCK FALSE
