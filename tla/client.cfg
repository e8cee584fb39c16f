SPECIFICATION Spec
CONSTANTS
  None = None
  Junk = Junk
  d1 = d1
  Groups = {}
  Devices = {d1}
  Configs <- Files
  MaxRevision = 0
  MaxStarts = 2
  MaxBreaks = 1
  Platforms = {"switch", "sensor"}
  MaxResults = 1
  MaxRequests = 2
  MaxTroubles = 1
INVARIANTS
  NothingMissed
  AddedOnce
  Discovered
  RequestsAccounted
CHECK_DEADLOCK FALSE
