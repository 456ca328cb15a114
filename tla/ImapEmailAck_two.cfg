SPECIFICATION Spec
CONSTANTS
  x1 = x1
  x2 = x2
  i1 = i1
  i2 = i2
  i3 = i3
  delete = delete
  move = move
  noop = noop
  Nodes = {x1, x2}
  Uids = {1, 2}
  Items = {i1, i2, i3}
  Plans = {delete}
  LocalPlans = {}
  BatchSize <- MCBatchSize
  MaxBatchesPerFlush = 1
  MaxUidPerCommand = 1
  MaxGeneration = 2
SYMMETRY Symmetry
CHECK_DEADLOCK FALSE
INVARIANTS
  OneOutput
  CloseComplete
  ClaimsOwned
  AcknowledgedOnce
PROPERTIES
  EntryKeptUntilOk
