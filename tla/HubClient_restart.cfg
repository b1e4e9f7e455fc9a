CONSTANTS
  Handlers = {h1, h2}
  Reconnect = FALSE
  Overlap = {}
  MaxStarts = 3
  MaxStops = 2
CHECK_DEADLOCK FALSE
SPECIFICATION Spec
INVARIANTS
  OpenConnectionHasAll
