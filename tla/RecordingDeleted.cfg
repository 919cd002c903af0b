SPECIFICATION Spec
CONSTANTS
  i1 = i1
  i2 = i2
  Incidents = {}
  ChunkCount = 2
  MaxFailures = 0
INVARIANT DeletedLeavesNoMedia
CHECK_DEADLOCK FALSE
