CONSTANTS
  Uploads = {1, 2}
  MaxFiles = 1
  MayRestart = FALSE
  Tabs = {1, 2}
SPECIFICATION Spec
CHECK_DEADLOCK FALSE
INVARIANTS
  AcknowledgedKept
