CONSTANTS
  Handlers = {h1, h2}
  Reconnect = TRUE
  Overlap = {"start", "stop"}
  MaxStarts = 3
  MaxStops = 2
CHECK_DEADLOCK FALSE
SPECIFICATION Spec
INVARIANTS
  TypeOK
  NoCallbackInLimbo
  FirstConnectionHasAll
  OrderlyIsSingle
