SPECIFICATION Spec
CONSTANTS
  None = None
  g1 = g1
  g2 = g2
  gx = gx
  d1 = d1
  d2 = d2
  d3 = d3
  dx = dx
  Groups = {g1}
  Devices = {d1, d2}
  GroupTopics = {g1}
  DeviceTopics = {d1, d2}
  Members <- PairMembers
  FirstGroup <- PairFirst
  GroupConfig <- PairConfig
  MemberConfig <- PairGains
  DeviceConfig <- PairDevices
  ObserverMode = FALSE
  Heartbeat = 2
  RequestIds = {r1, r2}
  GroupCommands <- StatusCommands
  DeviceCommands <- OverrideCommands
  Readings = {w1}
  Configurations = {c1}
  Errors = {e1}
  MaxPower = 2
  MaxDedup = 1
  MaxTime = 1
  MaxRevision = 4
  Reporting = {d1, d2}
PROPERTIES
  EmergencyReleasedOnlyByRequest
SYMMETRY RequestSymmetry
CHECK_DEADLOCK FALSE
