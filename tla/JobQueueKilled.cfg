SPECIFICATION Spec
CONSTANTS
  j1 = j1
  j2 = j2
  old = old
  new = new
  Jobs = {j1, j2}
  Workers = {old, new}
  Knows <- Deployed
  MaxAttempts = 3
  MaxCrashes = 0
  MaxSlow = 0
CHECK_DEADLOCK FALSE
INVARIANT KilledJobsNeverGoBack
