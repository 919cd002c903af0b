SPECIFICATION FairSpec
CONSTANTS
  j1 = j1
  j2 = j2
  old = old
  new = new
  Jobs = {j1, j2}
  Workers = {old, new}
  Knows <- Deployed
  MaxAttempts = 3
  MaxCrashes = 1
  MaxSlow = 2
INVARIANTS
  TypeOK
  OneWorkerPerJob
  AttemptsAreBounded
  CompletedOnce
PROPERTIES
  SuccessIsFinal
  EveryJobSettles
CHECK_DEADLOCK FALSE
