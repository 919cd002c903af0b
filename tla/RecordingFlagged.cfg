SPECIFICATION Spec
CONSTANTS
  i1 = i1
  i2 = i2
  Incidents = {i1, i2}
  ChunkCount = 1
  MaxFailures = 0
SYMMETRY AnyIncident
INVARIANT FlaggedIsNotShown
CHECK_DEADLOCK FALSE
