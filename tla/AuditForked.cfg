\* Two writes at once.
CONSTANTS
  Write = {w1, w2}
  Content = {c1, c2}
  NoRow = NoRow
SPECIFICATION Spec
INVARIANTS
  ChainVerifies
CHECK_DEADLOCK FALSE
