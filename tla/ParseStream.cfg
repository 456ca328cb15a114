SPECIFICATION Spec
CONSTANTS
  Messages <- MCMessages
  Limits = {0, 2, 4}
CHECK_DEADLOCK FALSE
INVARIANTS
  ResultRight
  StreamsReleased
PROPERTIES
  ParseSettles
