SPECIFICATION Spec
CONSTANTS
  r1 = r1
  r2 = r2
  Nodes = {r1}
  BatchSize = 1
  FrontWindowSize = 2
  MaxInflight = 4
  MaxUidPerCommand = 2
  ExpungeLimit = 2
  SingleWindow = FALSE
  MayClose = {}
  Effects = {"unwanted"}
  MaxUid = 6
  MaxValidity = 1
  MaxErrors = 0
  MaxChanges = 0
CHECK_DEADLOCK FALSE
PROPERTIES
  OverflowAhead
