SPECIFICATION Spec
CONSTANTS
  None = None
  flow = flow
  low = low
  high = high
  Attributes = {flow}
  Values = {low, high}
  Changes <- Powers
  MaxSkipped = 1
  MaxFlight = 2
  Attempts = 2
  MaxCommands = 2
INVARIANTS
  WriteInForce
