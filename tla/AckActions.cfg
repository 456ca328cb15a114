SPECIFICATION Spec
CONSTANTS
  u1 = u1
  u2 = u2
  u3 = u3
  Uids <- MCUids
  Chunk <- MCChunk
  MaxOther = 2
SYMMETRY Symmetry
CHECK_DEADLOCK FALSE
INVARIANTS
  DeleteMeansGone
  OthersUntouched
  PartialMeansChanged
  AllConfirmed
