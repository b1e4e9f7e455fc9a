SPECIFICATION Spec
CONSTANTS
  Keys = {1, 2, 3}
  Walkers = {w1, w2}
INVARIANTS
  TypeOK
  WalkIsFaithful
PROPERTIES
  WalkEnds
CHECK_DEADLOCK FALSE
