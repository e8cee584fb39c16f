SPECIFICATION Spec
CONSTANTS
  None = None
  g1 = g1
  g2 = g2
  gx = gx
  d1 = d1
  d2 = d2
  d3 = d3
  dx = dx
  Groups = {g1, g2}
  Devices = {d1, d2}
  GroupTopics = {g1, g2}
  DeviceTopics = {d1, d2}
  Members <- SharedMembers
  FirstGroup <- SharedFirst
  GroupConfig <- SharedConfig
  MemberConfig <- SharedGains
  DeviceConfig <- PairDevices
  ObserverMode = FALSE
  Heartbeat = 2
  RequestIds = {r1, r2, r3}
  GroupCommands <- SharedCommands
  DeviceCommands <- OverrideCommands
  Readings = {w1}
  Configurations = {c1}
  Errors = {e1}
  MaxPower = 2
  MaxDedup = 2
  MaxTime = 1
  MaxRevision = 2
  Reporting = {d2}
INVARIANTS
  ResultRevisionsOrdered
  GroupViewCurrent
  EmergencyHoldsOwnMembers
PROPERTIES
  ImplementsSource
  OverrideKept
  EmergencyLocksDevices
  DesiredChangesOnlyByFreshRequest
SYMMETRY RequestSymmetry
CHECK_DEADLOCK FALSE
