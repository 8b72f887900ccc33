\* Two reads of one plate, each tried twice.
CONSTANTS
  ab0 = ab0
  abO = abO
  Job = {j1, j2}
  Raw = {abO}
  Plate = {ab0, abO}
  Corrected <- MCCorrected
  Stripped <- MCStripped
  Vehicle = {ab0}
  CaptureTime = {1, 3}
  DedupWindow = 1
  MaxAttempts = 2
  MaxUnheard = 1
  MaxFaults = 1
  MaxAlerts = 2
  LastDay = 1
SPECIFICATION SightingsFairSpec
INVARIANTS
  SightingsTypeOK
  ScannedOnce
  SightingsAreAlerted
PROPERTY
  JobsEnd
CHECK_DEADLOCK FALSE
