SPECIFICATION Spec
CONSTANTS
  r1 = r1
  r2 = r2
  Nodes = {r1}
  BatchSize = 2
  FrontWindowSize = 2
  MaxInflight = 4
  MaxUidPerCommand = 2
  ExpungeLimit = 0
  SingleWindow = FALSE
  MayClose = {}
  Effects = {"unwanted"}
  MaxUid = 3
  MaxValidity = 1
  MaxErrors = 1
  MaxChanges = 1
CHECK_DEADLOCK FALSE
PROPERTIES
  InterruptedAhead
