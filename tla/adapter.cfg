SPECIFICATION FairSpec
CONSTANTS
  g1 = g1
  d1 = d1
  d2 = d2
  Groups = {g1}
  Devices = {d1, d2}
  Members <- Pair
  MaxVersion = 1
  MaxLosses = 1
  MaxTimeouts = 1
INVARIANTS
  NothingForgotten
  OnlineIsGuarded
PROPERTIES
  ImplementsMirror
  Converges
  StopEndsOffline
CHECK_DEADLOCK FALSE
