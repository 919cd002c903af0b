SPECIFICATION FairSpec
CONSTANTS
  i1 = i1
  i2 = i2
  Incidents = {i1, i2}
  ChunkCount = 2
  MaxFailures = 1
INVARIANTS
  TypeOK
  PlayedIsWhole
  ReceivedIsCounted
  OnlyAReleaseShows
PROPERTIES
  DeletedChunksStayDeleted
  DueIsDeleted
CHECK_DEADLOCK FALSE
