CONSTANTS
  j1 = j1
  j2 = j2
  NoJob = NoJob
  Jobs = {j1, j2}
  Live = {j1}
  MaxJobs = 1
  MaxAge = 2
  SpawnMayFail = FALSE
  MayLoseSemaphore = FALSE
  MayShutDown = TRUE
SPECIFICATION FairSpec
CHECK_DEADLOCK FALSE
INVARIANT ShutdownWaitsForListed
PROPERTIES StopHonoured FailedWorkerReplaced EosRemoved
