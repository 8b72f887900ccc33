\* Three writes about two things, in every order of their statements; two
\* sweeps over three days, one behind the window.
CONSTANTS
  Write = {w1, w2, w3}
  Content = {c1, c2}
  NoRow = NoRow
  Sweeper = {r1, r2}
  Ticker = {r1}
  MaxDay = 2
  MaxFines = 2
  MaxChanges = 5
  MaxFaults = 1
  RecountDays = 1
  BaselineDays = 2
  MinPrior = 2
  HighAnomalyZ = 0
  HighCancelPercent = 30
  MinActivity = 2
SPECIFICATION AuditSpec
INVARIANTS
  BreaksAreOverlaps
PROPERTIES
  StatsCatchUp
CHECK_DEADLOCK FALSE
