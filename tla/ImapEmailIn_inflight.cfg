SPECIFICATION Spec
CONSTANTS
  r1 = r1
  r2 = r2
  Nodes = {r1, r2}
  BatchSize = 1
  FrontWindowSize = 2
  MaxInflight = 1
  MaxUidPerCommand = 1
  ExpungeLimit = 0
  SingleWindow = TRUE
  MayClose = {}
  Effects = {"unwanted"}
  MaxUid = 2
  MaxValidity = 1
  MaxErrors = 0
  MaxChanges = 0
CHECK_DEADLOCK FALSE
INVARIANTS
  InflightBounded
