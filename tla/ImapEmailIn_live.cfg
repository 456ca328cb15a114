SPECIFICATION LiveSpec
CONSTANTS
  r1 = r1
  r2 = r2
  Nodes = {r1}
  BatchSize = 1
  FrontWindowSize = 2
  MaxInflight = 2
  MaxUidPerCommand = 1
  ExpungeLimit = 1
  SingleWindow = FALSE
  MayClose = {r1}
  Effects = {"deleted"}
  MaxUid = 3
  MaxValidity = 1
  MaxErrors = 1
  MaxChanges = 0
CHECK_DEADLOCK FALSE
PROPERTIES
  FailedCandidateAhead
  CloseSetsBack
  OverflowHeld
  EventuallySent
  CycleEnds
