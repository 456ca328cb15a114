SPECIFICATION LiveSpec
CONSTANTS
  x1 = x1
  x2 = x2
  i1 = i1
  i2 = i2
  i3 = i3
  delete = delete
  move = move
  noop = noop
  Nodes = {x1}
  Uids = {1, 2}
  Items = {i1, i2}
  Plans = {delete, move, noop}
  LocalPlans = {noop}
  BatchSize <- MCBatchSize
  MaxBatchesPerFlush = 1
  MaxUidPerCommand = 1
  MaxGeneration = 1
CHECK_DEADLOCK FALSE
PROPERTIES
  NoActionAfterClose
  EveryAckSettles
