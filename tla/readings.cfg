SPECIFICATION ReadingsSpec
CONSTANTS
  v1 = v1
  v2 = v2
  v3 = v3
  m1 = m1
  m2 = m2
  a1 = a1
  a2 = a2
  a3 = a3
  other = other
  left = left
  right = right
  fixed = fixed
  spare = spare
  None = None
  Configs <- Pumps
  Types = {"wavemaker", "return_pump", "dosing_pump"}
  ProductTypes <- Keys
  Responses <- Answers
  Strings <- InUse
  Statuses <- Samples
  Targets <- Asked
INVARIANTS
  EndpointBoundOnce
  UnboundForAReason
  NeverMisread
  ScheduleShown
PROPERTIES
  ControlIsExact
CHECK_DEADLOCK FALSE
