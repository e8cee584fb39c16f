SPECIFICATION Spec
CONSTANTS
  None = None
  g1 = g1
  g2 = g2
  gx = gx
  d1 = d1
  d2 = d2
  d3 = d3
  dx = dx
  Groups = {g1}
  Devices = {d1, d2, d3}
  GroupTopics = {g1}
  DeviceTopics = {d1, d2, d3}
  Members <- PairMembers
  FirstGroup <- PairFirst
  GroupConfig <- OverConfig
  MemberConfig <- PairGains
  DeviceConfig <- TrioDevices
  ObserverMode = FALSE
  Heartbeat = 2
  RequestIds = {r1, r2}
  GroupCommands <- AllCommands
  DeviceCommands <- PairDeviceCommands
  Readings = {w1}
  Configurations = {c1}
  Errors = {}
  MaxPower = 2
  MaxDedup = 1
  MaxTime = 0
  MaxRevision = 3
  Reporting = {}
INVARIANTS
  MemberViewAgrees
  GroupPowersWithinLimits
  StopRefusedOnlyAsConfigured
SYMMETRY RequestSymmetry
CHECK_DEADLOCK FALSE
