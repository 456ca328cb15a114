SPECIFICATION LiveSpec
CONSTANTS
  in1 = in1
  in2 = in2
  ack1 = ack1
  NoProbe = NoProbe
  Nodes = {in1, ack1}
CHECK_DEADLOCK FALSE
INVARIANTS
  TypeOK
  OneResult
  ResultTrue
  NothingLeft
PROPERTIES
  StatusStays
  Answered
