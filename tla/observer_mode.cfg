SPECIFICATION Spec
CONSTANTS
  None = None
  g1 = g1
  g2 = g2
  gx = gx
  d1 = d1
  d2 = d2
  d3 = d3
  dx = dx
  Groups = {g1}
  Devices = {d1, d2}
  GroupTopics = {g1, gx}
  DeviceTopics = {d1, d2}
  Members <- PairMembers
  FirstGroup <- PairFirst
  GroupConfig <- FutureConfig
  MemberConfig <- PairGains
  DeviceConfig <- PairDevices
  ObserverMode = TRUE
  Heartbeat = 2
  RequestIds = {r1}
  GroupCommands <- ResumeCommands
  DeviceCommands <- OverrideCommands
  Readings = {w1}
  Configurations = {c1, c2}
  Errors = {}
  MaxPower = 2
  MaxDedup = 1
  MaxTime = 3
  MaxRevision = 3
  Reporting = {d1, d2}
INVARIANTS
  PublishedFreshness
  ObserverModeReadOnly
PROPERTIES
  ObservedChangeIsQueued
  ChangeStamped
CHECK_DEADLOCK FALSE
