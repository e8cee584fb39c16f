SPECIFICATION FairSpec
CONSTANTS
  None = None
  Junk = Junk
  g1 = g1
  d1 = d1
  Groups = {g1}
  Devices = {d1}
  Configs <- Files
  MaxRevision = 1
  MaxStarts = 2
  MaxBreaks = 2
  MaxRequests = 1
INVARIANTS
  EndIsSeen
PROPERTIES
  ServeEnds
  ImplementsContract
CHECK_DEADLOCK FALSE
