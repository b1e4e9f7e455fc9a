CONSTANTS
  MaxItems = 4
  MaxCalls = 6
SPECIFICATION Spec
INVARIANTS
  TypeOK
  ItemsInOrder
  NoStarvedCall
  EndIsFinal
PROPERTIES
  ImplementsOrderedStream
