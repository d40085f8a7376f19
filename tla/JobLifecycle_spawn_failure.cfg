CONSTANTS
  j1 = j1
  j2 = j2
  NoJob = NoJob
  Jobs = {j1, j2}
  Live = {j1}
  MaxJobs = 1
  MaxAge = 1
  SpawnMayFail = TRUE
  MayLoseSemaphore = FALSE
  MayShutDown = FALSE
SPECIFICATION FairSpec
CHECK_DEADLOCK FALSE
PROPERTY FailedRestartRetried
