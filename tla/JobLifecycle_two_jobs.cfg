CONSTANTS
  j1 = j1
  j2 = j2
  NoJob = NoJob
  Jobs = {j1, j2}
  Live = {j1}
  MaxJobs = 2
  MaxAge = 1
  SpawnMayFail = TRUE
  MayLoseSemaphore = TRUE
  MayShutDown = FALSE
SPECIFICATION Spec
CHECK_DEADLOCK FALSE
INVARIANTS EveryWorkerReaped PidNamesWorker RestartsListedJob
PROPERTIES LiveRemovedAfterWorker ReadyThenPlayingOrFailure
