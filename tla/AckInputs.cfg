SPECIFICATION MCSpec
CONSTANTS
  none = none
  Inputs <- MCInputs
  MaxPerChunk = 3
  MaxUid = 6
  MaxDeleteUids = 3
  SystemFlags = {"seen", "deleted"}
  ForbiddenFlags = {"recent"}
  Keywords = {"work"}
  Unsendable = {"a b"}
  Rejected = none
CHECK_DEADLOCK FALSE
INVARIANTS
  RangesExact
  ChunksDeletable
  PlanFaithful
