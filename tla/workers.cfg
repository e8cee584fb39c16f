SPECIFICATION FairSpec
CONSTANTS
  None = None
  d1 = d1
  d2 = d2
  e1 = e1
  e2 = e2
  Devices = {d1, d2}
  Endpoints = {e1, e2}
  Bindings <- Moving
  MaxScans = 2
  MaxFailures = 2
  MaxLate = 1
INVARIANTS
  OneSession
  OneDevicePerEndpoint
  JournalAlternates
PROPERTIES
  BoundIsPolled
  StopEnds
CHECK_DEADLOCK FALSE
