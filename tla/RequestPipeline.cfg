CONSTANTS
  Requests = {get, post}
  Idempotent = {get}
  MaxAttempts = 2
  MaxDead = 2
CHECK_DEADLOCK FALSE
SPECIFICATION FairSpec
INVARIANTS
  TypeOK
  UnsafeSentOnce
  SendsBounded
  ReplayCarriesNewerToken
PROPERTIES
  NothingSentAfterCancel
  EveryRequestSettles
