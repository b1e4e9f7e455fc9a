CONSTANTS
  Requests = {get}
  Idempotent = {get}
  MaxAttempts = 2
  MaxDead = 2
CHECK_DEADLOCK FALSE
SPECIFICATION Spec
INVARIANTS
  OneRefreshThenError
