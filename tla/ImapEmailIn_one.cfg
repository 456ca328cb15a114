SPECIFICATION Spec
CONSTANTS
  r1 = r1
  r2 = r2
  Nodes = {r1}
  BatchSize = 2
  FrontWindowSize = 2
  MaxInflight = 2
  MaxUidPerCommand = 1
  ExpungeLimit = 1
  SingleWindow = FALSE
  MayClose = {r1}
  Effects = {"absent", "deleted"}
  MaxUid = 3
  MaxValidity = 2
  MaxErrors = 1
  MaxChanges = 1
CHECK_DEADLOCK FALSE
INVARIANTS
  TypeOK
  InflightBounded
  
PROPERTIES
  PassedOnlyWhenRead
