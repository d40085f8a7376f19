------------------------- MODULE JobLifecycleProofs -------------------------
(***************************************************************************)
(* The safety properties of JobLifecycle, proved for any number of jobs,   *)
(* live and not, of starts, stops, worker failures and restarts.           *)
(***************************************************************************)
EXTENDS JobLifecycle, TLAPS

(* A thread is idle exactly when it handles no job.                        *)
Idle ==
  /\ mgmt.pc = "idle" <=> mgmt.job = NoJob
  /\ main.pc = "idle" <=> main.job = NoJob

(* The monitor walks over jobs that are listed: it holds job_list_mutex.   *)
Walk ==
  /\ mon.todo \subseteq job_list
  /\ mon.pc \in {"mark", "kill", "sweep"} => mon.job \in mon.todo

(* The reference gstreamill_job_stop holds while it works on job j.        *)
Held(j) == mgmt.job = j /\ mgmt.pc \in {"mark", "kill"}

(* An object nobody has made yet.                                          *)
Unmade(j) ==
  j \notin made =>
    /\ mgmt.job # j /\ main.job # j /\ j \notin job_list
    /\ proc[j] = "none" /\ ~watch[j] /\ ~worker_pid[j]
    /\ state[j] = "VOID_PENDING" /\ age[j] = 0 /\ refs[j] = 0

(* What the worker has reported so far is what it wrote last.              *)
Reported(j) ==
  /\ proc[j] = "init" => state[j] = "VOID_PENDING"
  /\ proc[j] = "ready" => state[j] = "READY"
  /\ proc[j] = "failing" => state[j] = "START_FAILURE"
  /\ proc[j] \in {"started", "running"} => state[j] = "PLAYING"

(* The management thread is alone with a job it creates; it knows the      *)
(* worker's pid once it has left the spin loop.                            *)
Created(j) ==
  Creating(j) =>
    /\ age[j] = 0 /\ main.job # j /\ ~watch[j]
    /\ mgmt.pc \in {"wait", "probe", "append"} =>
         j \notin job_list /\ refs[j] = 1 /\ proc[j] # "none"
    /\ mgmt.pc \in {"append", "watch"} => (worker_pid[j] <=> proc[j] # "none")

(* child_watch_cb handles a reaped worker, or has made a new one that      *)
(* nobody watches yet; it resets only live jobs.                           *)
Handled(j) ==
  /\ Reaping(j) => proc[j] = "none" /\ ~watch[j]
  /\ Recreating(j) => proc[j] # "none" /\ ~watch[j]
  /\ main.job = j /\ main.pc # "enter" => age[j] > 0
  /\ main.job = j /\ main.pc \in {"reset", "spawn", "wait", "probe"} => j \in Live
  /\ main.job = j /\ main.pc = "spawn" => state[j] = "VOID_PENDING"

(* A job whose first worker has not played, and may never do so, has not   *)
(* been listed: only its creator refers to it, until MainStartFailed.      *)
FirstWorker(j) ==
  \/ age[j] = 0
  \/ age[j] = 1 /\ main.job = j /\ main.pc = "test"
NotPlayed(j) ==
  FirstWorker(j) /\ state[j] \in {"VOID_PENDING", "READY", "START_FAILURE"} /\ j \in made =>
    /\ j \notin job_list /\ refs[j] = 1
    /\ mgmt.job = j => Creating(j) /\ mgmt.pc # "append"

(* The reference of the creator, which becomes the list's, and Held.       *)
Counted(j) ==
  /\ refs[j] \in 0..2
  /\ Held(j) => refs[j] > 0
  /\ ~Held(j) => refs[j] < 2
  /\ j \in job_list => refs[j] = IF Held(j) THEN 2 ELSE 1

(* A live job with a worker, or a callback at work on it, is listed,       *)
(* unless its first worker failed to start.                                *)
Listed(j) ==
  j \in Live =>
    /\ watch[j] \/ (main.job = j /\ main.pc \in {"enter", "test"})
         => j \in job_list \/ (FirstWorker(j) /\ state[j] = "START_FAILURE")
    /\ Creating(j) /\ mgmt.pc = "watch" /\ worker_pid[j]
         => j \in job_list \/ state[j] = "START_FAILURE"
    /\ main.job = j /\ main.pc \in {"ended", "reset", "spawn", "wait", "probe"} => j \in job_list
    /\ main.job = j /\ main.pc = "unlock" /\ watch[j] => j \in job_list

(* A non-live job's only worker has not been counted while it is reaped.   *)
Once(j) ==
  j \notin Live /\ main.job = j /\ main.pc = "enter" => age[j] = 0

JobInv(j) ==
  /\ Unmade(j) /\ Reported(j) /\ Created(j) /\ Handled(j) /\ NotPlayed(j)
  /\ Counted(j) /\ Listed(j) /\ Once(j)

IInv ==
  /\ TypeOK /\ Idle /\ Walk
  /\ \A j \in Jobs : JobInv(j)
  /\ EveryWorkerReaped /\ PidNamesWorker /\ PlayingHasWorker /\ StopedIsFinal
  /\ RestartsListedJob /\ NonLiveRunsOnce

-----------------------------------------------------------------------------
(* job->worker_pid set.                                                    *)
LEMMA PidSet ==
  ASSUME NEW j \in Jobs, TypeOK, worker_pid' = [worker_pid EXCEPT ![j] = TRUE]
  PROVE  worker_pid' \in [Jobs -> BOOLEAN]
<1>1. worker_pid \in [Jobs -> BOOLEAN]
  BY DEF TypeOK
<1> QED
  BY <1>1, Zenon

(* create_job_process leaves the pid and the watch of the new worker.      *)
LEMMA RecreatedType ==
  ASSUME NEW j \in Jobs, TypeOK, Recreated(j)
  PROVE  worker_pid' \in [Jobs -> BOOLEAN] /\ watch' \in [Jobs -> BOOLEAN]
<1>1. worker_pid \in [Jobs -> BOOLEAN] /\ watch \in [Jobs -> BOOLEAN]
  BY DEF TypeOK
<1>2. worker_pid' = [worker_pid EXCEPT ![j] = TRUE] /\ watch' = [watch EXCEPT ![j] = TRUE]
  BY DEF Recreated
<1> QED
  BY <1>1, <1>2, Zenon

(* The end of a worker, whatever it dies of, keeps the types.              *)
LEMMA WorkerDiesType ==
  ASSUME NEW j \in Jobs, NEW how \in Zombie, TypeOK, WorkerDies(j, how)
  PROVE  TypeOK'
<1>1. semLost' \in [Jobs -> BOOLEAN]
  <2>1. semLost \in [Jobs -> BOOLEAN]
    BY DEF TypeOK
  <2>2. UNCHANGED semLost \/ semLost' = [semLost EXCEPT ![j] = TRUE]
    BY DEF WorkerDies
  <2> QED
    BY <2>1, <2>2, Zenon
<1>2. sigterm' \in [Jobs -> BOOLEAN]
  BY DEF WorkerDies, TypeOK
<1>3. proc' \in [Jobs -> {"none"} \cup Running \cup Zombie]
  BY DEF WorkerDies, TypeOK
<1>4. UNCHANGED <<mgr, stop, job_list, objVars, enc_eos, threads>>
  BY DEF WorkerDies
<1> QED
  BY <1>1, <1>2, <1>3, <1>4 DEF TypeOK, objVars, threads

(* What job_check_func may change, without its choice of whom to kill.     *)
LEMMA MonCheckType ==
  ASSUME NEW j \in Jobs, TypeOK, MonCheck(j)
  PROVE  /\ eos' \in [Jobs -> BOOLEAN] /\ sigterm' \in [Jobs -> BOOLEAN]
         /\ stoping' \in [Jobs -> BOOLEAN]
         /\ UNCHANGED proc \/ (proc[j] \in Running /\ proc' = [proc EXCEPT ![j] = "killed"])
<1>1. PICK kill \in BOOLEAN :
       /\ kill => age[j] < MaxAge /\ worker_pid[j] /\ proc[j] \in Running
       /\ proc' = [proc EXCEPT ![j] = IF kill THEN "killed" ELSE @]
       /\ IF j \notin Live /\ enc_eos[j]
          THEN /\ JobStopMark(j)
               /\ eos' = [eos EXCEPT ![j] = TRUE]
               /\ sigterm' = [sigterm EXCEPT ![j] =
                                (@ \/ (worker_pid[j] /\ proc[j] \in Running)) /\ ~kill]
          ELSE /\ sigterm' = [sigterm EXCEPT ![j] = @ /\ ~kill]
               /\ UNCHANGED <<stoping, eos>>
  BY DEF MonCheck
<1>2. eos' \in [Jobs -> BOOLEAN]
  <2>1. UNCHANGED eos \/ eos' = [eos EXCEPT ![j] = TRUE]
    BY <1>1
  <2>2. eos \in [Jobs -> BOOLEAN]
    BY DEF TypeOK
  <2> QED
    BY <2>1, <2>2, Zenon
<1>3. sigterm' \in [Jobs -> BOOLEAN]
  BY <1>1 DEF TypeOK
<1>4. stoping' \in [Jobs -> BOOLEAN]
  BY <1>1 DEF TypeOK, JobStopMark
<1>5. UNCHANGED proc \/ (proc[j] \in Running /\ proc' = [proc EXCEPT ![j] = "killed"])
  <2>1. CASE kill
    BY <1>1, <2>1
  <2>2. CASE ~kill
    <3>1. proc' = [proc EXCEPT ![j] = proc[j]]
      BY <1>1, <2>2
    <3>2. proc = [proc EXCEPT ![j] = proc[j]]
      BY DEF TypeOK
    <3> QED
      BY <3>1, <3>2
  <2> QED
    BY <2>1, <2>2
<1> QED
  BY <1>2, <1>3, <1>4, <1>5

(* An idle system, and no object made.                                     *)
LEMMA InitInv == Init => IInv
<1> USE JobsAssumption
    DEF IInv, TypeOK, Idle, Walk, JobInv, Unmade, Reported, Created, Handled,
        NotPlayed, Counted, Listed, Once, Held, FirstWorker, Creating,
        Recreating, Reaping, EveryWorkerReaped, PidNamesWorker,
        PlayingHasWorker, StopedIsFinal, RestartsListedJob, NonLiveRunsOnce,
        Running, Zombie, JobState, objVars, workerVars, threads
<1> SUFFICES ASSUME Init PROVE IInv
  OBVIOUS
<1>1. TypeOK
  <2>1. /\ age \in [Jobs -> Nat] /\ refs \in [Jobs -> 0..2]
        /\ state \in [Jobs -> JobState]
        /\ proc \in [Jobs -> {"none"} \cup Running \cup Zombie]
    BY DEF Init
  <2>2. /\ stoping \in [Jobs -> BOOLEAN] /\ eos \in [Jobs -> BOOLEAN]
        /\ worker_pid \in [Jobs -> BOOLEAN] /\ watch \in [Jobs -> BOOLEAN]
        /\ sigterm \in [Jobs -> BOOLEAN] /\ enc_eos \in [Jobs -> BOOLEAN]
        /\ semLost \in [Jobs -> BOOLEAN]
    BY DEF Init
  <2> QED
    BY <2>1, <2>2 DEF Init
<1> QED
  BY <1>1 DEF Init

(* The management thread.                                                  *)
LEMMA MgmtInv ==
  ASSUME IInv, NEW j \in Jobs,
         \/ MgmtStart(j) \/ MgmtStartFail(j) \/ MgmtWait(j) \/ MgmtProbe(j)
         \/ MgmtAppend(j) \/ MgmtWatch(j) \/ MgmtStop(j) \/ MgmtRef(j)
         \/ MgmtMark(j) \/ MgmtKill(j)
  PROVE  IInv'
<1> USE JobsAssumption
    DEF IInv, TypeOK, Idle, Walk, JobInv, Unmade, Reported, Created, Handled,
        NotPlayed, Counted, Listed, Once, Held, FirstWorker, Creating,
        Recreating, Reaping, EveryWorkerReaped, PidNamesWorker,
        PlayingHasWorker, StopedIsFinal, RestartsListedJob, NonLiveRunsOnce,
        Running, Zombie, JobState, objVars, workerVars, threads
<1>1. CASE MgmtStart(j)
  BY <1>1 DEF MgmtStart, NewJob, Spawned, MgmtGoto
<1>2. CASE MgmtStartFail(j)
  BY <1>2 DEF MgmtStartFail, NewJob, MgmtGoto
<1>3. CASE MgmtWait(j)
  <2>1. CASE Pending(j)
    BY <1>3, <2>1 DEF MgmtWait, MgmtGoto, Pending
  <2>2. CASE ~Pending(j)
    <3>1. worker_pid' = [worker_pid EXCEPT ![j] = TRUE]
      BY <1>3, <2>2 DEF MgmtWait
    <3>2. worker_pid' \in [Jobs -> BOOLEAN]
      BY <3>1, PidSet
    <3> QED
      BY <1>3, <2>2, <3>2 DEF MgmtWait, MgmtGoto, Pending
  <2> QED BY <2>1, <2>2
<1>4. CASE MgmtProbe(j)
  <2>1. CASE proc[j] \in Zombie
    <3>1. worker_pid' = [worker_pid EXCEPT ![j] = TRUE]
      BY <1>4, <2>1 DEF MgmtProbe
    <3>2. worker_pid' \in [Jobs -> BOOLEAN]
      BY <3>1, PidSet
    <3> QED
      BY <1>4, <2>1, <3>2 DEF MgmtProbe, MgmtGoto
  <2>2. CASE proc[j] \notin Zombie
    BY <1>4, <2>2 DEF MgmtProbe, MgmtGoto
  <2> QED BY <2>1, <2>2
<1>5. CASE MgmtAppend(j)
  BY <1>5 DEF MgmtAppend, MgmtGoto, ListFree
<1>6. CASE MgmtWatch(j)
  BY <1>6 DEF MgmtWatch, MgmtGoto
<1>7. CASE MgmtStop(j)
  BY <1>7 DEF MgmtStop, MgmtGoto, ListFree
<1>8. CASE MgmtRef(j)
  BY <1>8 DEF MgmtRef, MgmtGoto
<1>9. CASE MgmtMark(j)
  BY <1>9 DEF MgmtMark, MgmtGoto, JobStopMark
<1>10. CASE MgmtKill(j)
  BY <1>10 DEF MgmtKill, MgmtGoto, JobStopTerm
<1> QED
  BY <1>1, <1>2, <1>3, <1>4, <1>5, <1>6, <1>7, <1>8, <1>9, <1>10

(* The main loop.                                                          *)
LEMMA MainInv ==
  ASSUME IInv, NEW j \in Jobs,
         \/ MainReap(j) \/ MainFault(j) \/ MainEnter(j) \/ MainStartFailed(j)
         \/ MainStoped(j) \/ MainEnded(j) \/ MainPublish(j) \/ MainEos(j)
         \/ MainFailed(j) \/ MainReset(j) \/ MainSpawn(j)
         \/ MainSpawnFail(j) \/ MainWait(j) \/ MainProbe(j) \/ MainUnlock(j)
  PROVE  IInv'
<1> USE JobsAssumption
    DEF IInv, TypeOK, Idle, Walk, JobInv, Unmade, Reported, Created, Handled,
        NotPlayed, Counted, Listed, Once, Held, FirstWorker, Creating,
        Recreating, Reaping, EveryWorkerReaped, PidNamesWorker,
        PlayingHasWorker, StopedIsFinal, RestartsListedJob, NonLiveRunsOnce,
        Running, Zombie, JobState, objVars, workerVars, threads
<1>1. CASE MainReap(j)
  BY <1>1 DEF MainReap, MainGoto
<1>2. CASE MainFault(j)
  BY <1>2 DEF MainFault, MainGoto
<1>3. CASE MainEnter(j)
  BY <1>3 DEF MainEnter, MainGoto
<1>4. CASE MainStartFailed(j)
  BY <1>4 DEF MainStartFailed, MainGoto, StartFailed
<1>5. CASE MainStoped(j)
  BY <1>5 DEF MainStoped, MainGoto, StartFailed
<1>6. CASE MainFailed(j)
  BY <1>6 DEF MainFailed, MainGoto, StartFailed
<1>7. CASE MainReset(j)
  BY <1>7 DEF MainReset, MainGoto
<1>8. CASE MainSpawn(j)
  BY <1>8 DEF MainSpawn, Spawned, MainGoto
<1>9. CASE MainSpawnFail(j)
  BY <1>9 DEF MainSpawnFail, MainGoto
<1>10. CASE MainWait(j)
  <2>1. CASE Pending(j)
    BY <1>10, <2>1 DEF MainWait, Recreated, MainGoto, Pending
  <2>2. CASE ~Pending(j)
    <3>1. Recreated(j)
      BY <1>10, <2>2 DEF MainWait
    <3>2. worker_pid' \in [Jobs -> BOOLEAN] /\ watch' \in [Jobs -> BOOLEAN]
      BY <3>1, RecreatedType
    <3> QED
      BY <1>10, <2>2, <3>2 DEF MainWait, Recreated, MainGoto, Pending
  <2> QED BY <2>1, <2>2
<1>11. CASE MainProbe(j)
  <2>1. CASE proc[j] \in Zombie
    <3>1. Recreated(j)
      BY <1>11, <2>1 DEF MainProbe
    <3>2. worker_pid' \in [Jobs -> BOOLEAN] /\ watch' \in [Jobs -> BOOLEAN]
      BY <3>1, RecreatedType
    <3> QED
      BY <1>11, <2>1, <3>2 DEF MainProbe, Recreated, MainGoto
  <2>2. CASE proc[j] \notin Zombie
    BY <1>11, <2>2 DEF MainProbe, Recreated, MainGoto
  <2> QED BY <2>1, <2>2
<1>12. CASE MainUnlock(j)
  BY <1>12 DEF MainUnlock, MainGoto
<1>13. CASE MainEnded(j)
  BY <1>13 DEF MainEnded, MainGoto, StartFailed
<1>14. CASE MainPublish(j)
  BY <1>14 DEF MainPublish, MainGoto
<1>15. CASE MainEos(j)
  BY <1>15 DEF MainEos, MainGoto
<1> QED
  BY <1>1, <1>2, <1>3, <1>4, <1>5, <1>6, <1>7, <1>8, <1>9, <1>10, <1>11, <1>12,
     <1>13, <1>14, <1>15

(* The monitor, with one job.                                              *)
LEMMA MonInv ==
  ASSUME IInv, NEW j \in Jobs,
         \/ MonClean(j) \/ MonRetry(j) \/ MonMark(j) \/ MonKill(j)
         \/ MonSweep(j) \/ MonCheckSkip(j) \/ MonCheck(j)
  PROVE  IInv'
<1> USE JobsAssumption
    DEF IInv, TypeOK, Idle, Walk, JobInv, Unmade, Reported, Created, Handled,
        NotPlayed, Counted, Listed, Once, Held, FirstWorker, Creating,
        Recreating, Reaping, EveryWorkerReaped, PidNamesWorker,
        PlayingHasWorker, StopedIsFinal, RestartsListedJob, NonLiveRunsOnce,
        Running, Zombie, JobState, objVars, workerVars, threads
<1>1. CASE MonClean(j)
  BY <1>1 DEF MonClean, MonGoto
<1>2. CASE MonRetry(j)
  BY <1>2 DEF MonRetry, MonGoto
<1>3. CASE MonMark(j)
  BY <1>3 DEF MonMark, MonGoto, JobStopMark
<1>4. CASE MonKill(j)
  BY <1>4 DEF MonKill, MonGoto, JobStopTerm
<1>5. CASE MonSweep(j)
  BY <1>5 DEF MonSweep, MonGoto, Removable
<1>6. CASE MonCheckSkip(j)
  BY <1>6 DEF MonCheckSkip, MonGoto
<1>7. CASE MonCheck(j)
  <2>1. /\ eos' \in [Jobs -> BOOLEAN] /\ sigterm' \in [Jobs -> BOOLEAN]
        /\ stoping' \in [Jobs -> BOOLEAN]
        /\ UNCHANGED proc \/ (proc[j] \in Running /\ proc' = [proc EXCEPT ![j] = "killed"])
    BY <1>7, MonCheckType
  <2>2. /\ mon' = [pc |-> "check", job |-> NoJob, todo |-> mon.todo \ {j}]
        /\ mon.pc = "check"
        /\ UNCHANGED <<mgr, stop, job_list, made, refs, state, age, worker_pid, watch,
                       enc_eos, semLost, mgmt, main, shut>>
    BY <1>7 DEF MonCheck, MonGoto
  <2> QED
    BY <2>1, <2>2
<1> QED
  BY <1>1, <1>2, <1>3, <1>4, <1>5, <1>6, <1>7

(* The shutdown handler, with one job.                                     *)
LEMMA ShutInv ==
  ASSUME IInv, NEW j \in Jobs,
         \/ ShutMark(j) \/ ShutKill(j)
  PROVE  IInv'
<1> USE JobsAssumption
    DEF IInv, TypeOK, Idle, Walk, JobInv, Unmade, Reported, Created, Handled,
        NotPlayed, Counted, Listed, Once, Held, FirstWorker, Creating,
        Recreating, Reaping, EveryWorkerReaped, PidNamesWorker,
        PlayingHasWorker, StopedIsFinal, RestartsListedJob, NonLiveRunsOnce,
        Running, Zombie, JobState, objVars, workerVars, threads
<1>1. CASE ShutMark(j)
  BY <1>1 DEF ShutMark, JobStopMark
<1>2. CASE ShutKill(j)
  BY <1>2 DEF ShutKill, JobStopTerm
<1> QED
  BY <1>1, <1>2

(* The monitor and the shutdown handler, with the list.                    *)
LEMMA ListInv ==
  ASSUME IInv,
         \/ MonTick \/ MonCleaned \/ MonChecked \/ ShutStop
         \/ ShutLock \/ ShutUnlock
  PROVE  IInv'
<1> USE JobsAssumption
    DEF IInv, TypeOK, Idle, Walk, JobInv, Unmade, Reported, Created, Handled,
        NotPlayed, Counted, Listed, Once, Held, FirstWorker, Creating,
        Recreating, Reaping, EveryWorkerReaped, PidNamesWorker,
        PlayingHasWorker, StopedIsFinal, RestartsListedJob, NonLiveRunsOnce,
        Running, Zombie, JobState, objVars, workerVars, threads
<1>1. CASE MonTick
  BY <1>1 DEF MonTick, MonGoto, ListFree
<1>2. CASE MonCleaned
  BY <1>2 DEF MonCleaned, MonGoto
<1>3. CASE MonChecked
  BY <1>3 DEF MonChecked, MonGoto
<1>4. CASE ShutStop
  BY <1>4 DEF ShutStop
<1>5. CASE ShutLock
  BY <1>5 DEF ShutLock, ListFree
<1>6. CASE ShutUnlock
  BY <1>6 DEF ShutUnlock
<1> QED
  BY <1>1, <1>2, <1>3, <1>4, <1>5, <1>6

(* The end of a worker, whatever it dies of.                               *)
LEMMA WorkerDiesInv ==
  ASSUME IInv, NEW j \in Jobs, proc[j] \in Running, NEW how \in Zombie, WorkerDies(j, how)
  PROVE  IInv'
<1> USE JobsAssumption
    DEF IInv, TypeOK, Idle, Walk, JobInv, Unmade, Reported, Created, Handled,
        NotPlayed, Counted, Listed, Once, Held, FirstWorker, Creating,
        Recreating, Reaping, EveryWorkerReaped, PidNamesWorker,
        PlayingHasWorker, StopedIsFinal, RestartsListedJob, NonLiveRunsOnce,
        Running, Zombie, JobState, objVars, workerVars, threads
<1>1. TypeOK'
  BY WorkerDiesType
<1> QED
  BY <1>1 DEF WorkerDies

(* The worker processes.                                                   *)
LEMMA WorkerInv ==
  ASSUME IInv, NEW j \in Jobs,
         \/ WorkerReady(j) \/ WorkerPlaying(j) \/ WorkerStartFailure(j) \/ WorkerHandler(j)
         \/ WorkerEos(j) \/ WorkerExitFailure(j) \/ WorkerCrash(j) \/ WorkerTerm(j)
  PROVE  IInv'
<1> USE JobsAssumption
    DEF IInv, TypeOK, Idle, Walk, JobInv, Unmade, Reported, Created, Handled,
        NotPlayed, Counted, Listed, Once, Held, FirstWorker, Creating,
        Recreating, Reaping, EveryWorkerReaped, PidNamesWorker,
        PlayingHasWorker, StopedIsFinal, RestartsListedJob, NonLiveRunsOnce,
        Running, Zombie, JobState, objVars, workerVars, threads
<1>1. CASE WorkerReady(j)
  BY <1>1 DEF WorkerReady
<1>2. CASE WorkerPlaying(j)
  BY <1>2 DEF WorkerPlaying
<1>3. CASE WorkerStartFailure(j)
  BY <1>3 DEF WorkerStartFailure
<1>4. CASE WorkerHandler(j)
  BY <1>4 DEF WorkerHandler
<1>5. CASE WorkerEos(j)
  BY <1>5 DEF WorkerEos
<1>6. CASE WorkerExitFailure(j)
  BY <1>6, WorkerDiesInv DEF WorkerExitFailure
<1>7. CASE WorkerCrash(j)
  <2>1. PICK how \in Zombie : WorkerDies(j, how)
    BY <1>7 DEF WorkerCrash
  <2>2. proc[j] \in Running
    BY <1>7 DEF WorkerCrash
  <2> QED
    BY <2>1, <2>2, WorkerDiesInv
<1>8. CASE WorkerTerm(j)
  <2>1. PICK how \in Zombie : WorkerDies(j, how)
    BY <1>8 DEF WorkerTerm
  <2>2. proc[j] \in Running
    BY <1>8 DEF WorkerTerm
  <2> QED
    BY <2>1, <2>2, WorkerDiesInv
<1> QED
  BY <1>1, <1>2, <1>3, <1>4, <1>5, <1>6, <1>7, <1>8

(* Every step keeps the invariant.                                         *)
LEMMA StepInv == IInv /\ [Next]_vars => IInv'
<1> SUFFICES ASSUME IInv, [Next]_vars PROVE IInv'
  OBVIOUS
<1>1. ASSUME NEW j \in Jobs,
             MgmtStart(j) \/ MgmtStop(j) \/ MgmtStartFail(j) \/ MgmtAppend(j) \/ MgmtStep(j)
      PROVE  IInv'
  BY <1>1, MgmtInv DEF MgmtStep
<1>2. ASSUME NEW j \in Jobs, MainSpawnFail(j) \/ MainStep(j) PROVE IInv'
  BY <1>2, MainInv DEF MainStep
<1>3. ASSUME NEW j \in Jobs, MonStep(j) PROVE IInv'
  BY <1>3, MonInv DEF MonStep
<1>4. ASSUME NEW j \in Jobs, ShutStep(j) PROVE IInv'
  BY <1>4, ShutInv DEF ShutStep
<1>5. ASSUME NEW j \in Jobs,
             WorkerStep(j) \/ WorkerEos(j) \/ WorkerCrash(j) \/ WorkerTerm(j)
      PROVE  IInv'
  BY <1>5, WorkerInv DEF WorkerStep
<1>6. CASE MonTick \/ MonCleaned \/ MonChecked \/ ShutStop \/ ShutLock \/ ShutUnlock
  BY <1>6, ListInv
<1>7. CASE UNCHANGED vars
  <2> USE JobsAssumption
      DEF IInv, TypeOK, Idle, Walk, JobInv, Unmade, Reported, Created, Handled,
          NotPlayed, Counted, Listed, Once, Held, FirstWorker, Creating,
          Recreating, Reaping, EveryWorkerReaped, PidNamesWorker,
          PlayingHasWorker, StopedIsFinal, RestartsListedJob, NonLiveRunsOnce,
          Running, Zombie, JobState, objVars, workerVars, threads
  <2> QED
    BY <1>7 DEF vars
<1> QED
  BY <1>1, <1>2, <1>3, <1>4, <1>5, <1>6, <1>7 DEF Next

(* The invariant of the specification, and with it its named parts.        *)
THEOREM Inductive == Spec => []IInv
  BY InitInv, StepInv, PTL DEF Spec

-----------------------------------------------------------------------------
(* Reference counts included: no Job object is unreferenced twice, and at  *)
(* most one request refers to it beside the list.                          *)
THEOREM TypesHold == Spec => []TypeOK
<1>1. IInv => TypeOK
  BY DEF IInv
<1> QED
  BY <1>1, Inductive, PTL

(* No worker process is left without the thread or the watch that will     *)
(* reap it.                                                                *)
THEOREM WorkersReaped == Spec => []EveryWorkerReaped
<1>1. IInv => EveryWorkerReaped
  BY DEF IInv
<1> QED
  BY <1>1, Inductive, PTL

(* job_stop and job_check_func signal nobody but the job's own worker,     *)
(* outside the window between GLib's reap and child_watch_cb.              *)
THEOREM PidsCurrent == Spec => []PidNamesWorker
<1>1. IInv => PidNamesWorker
  BY DEF IInv
<1> QED
  BY <1>1, Inductive, PTL

(* A job is not shown as playing once its worker is gone and handled.      *)
THEOREM PlayingTrue == Spec => []PlayingHasWorker
<1>1. IInv => PlayingHasWorker
  BY DEF IInv
<1> QED
  BY <1>1, Inductive, PTL

(* The state STOPED, on which the monitor frees a live job, is final.      *)
THEOREM StopedTrue == Spec => []StopedIsFinal
<1>1. IInv => StopedIsFinal
  BY DEF IInv
<1> QED
  BY <1>1, Inductive, PTL

(* child_watch_cb never restarts a live job that has been removed, and     *)
(* finds its object there up to the write of STOPED, on which the monitor  *)
(* may free it.                                                            *)
THEOREM RestartsSafe == Spec => []RestartsListedJob
<1>1. IInv => RestartsListedJob
  BY DEF IInv
<1> QED
  BY <1>1, Inductive, PTL

(* A non-live job is never run a second time.                              *)
THEOREM RunsOnce == Spec => []NonLiveRunsOnce
<1>1. IInv => NonLiveRunsOnce
  BY DEF IInv
<1> QED
  BY <1>1, Inductive, PTL

(* Jobs leave the list in MonSweep only.                                   *)
LEMMA ListKept ==
  ASSUME [Next]_vars
  PROVE  job_list \subseteq job_list' \/ \E k \in Jobs : MonSweep(k)
<1> USE DEF objVars, workerVars, threads
<1>1. ASSUME NEW j \in Jobs,
             MgmtStart(j) \/ MgmtStop(j) \/ MgmtStartFail(j) \/ MgmtAppend(j) \/ MgmtStep(j)
      PROVE  job_list \subseteq job_list'
  BY <1>1 DEF NewJob, MgmtStart, MgmtStop, MgmtStartFail, MgmtAppend, MgmtStep, MgmtWait,
              MgmtProbe, MgmtWatch, MgmtRef, MgmtMark, MgmtKill
<1>2. ASSUME NEW j \in Jobs, MainSpawnFail(j) \/ MainStep(j)
      PROVE  job_list' = job_list
  BY <1>2 DEF MainSpawnFail, MainStep, MainReap, MainFault, MainEnter, MainStartFailed,
              MainStoped, MainEnded, MainPublish, MainEos, MainFailed,
              MainReset, MainSpawn, MainWait, MainProbe, MainUnlock
<1>3. ASSUME NEW j \in Jobs, MonStep(j)
      PROVE  job_list' = job_list \/ MonSweep(j)
  BY <1>3 DEF MonStep, MonClean, MonRetry, MonMark, MonKill, MonCheckSkip, MonCheck
<1>4. ASSUME NEW j \in Jobs, ShutStep(j)
      PROVE  job_list' = job_list
  BY <1>4 DEF ShutStep, ShutMark, ShutKill
<1>5. ASSUME NEW j \in Jobs,
             WorkerStep(j) \/ WorkerEos(j) \/ WorkerCrash(j) \/ WorkerTerm(j)
      PROVE  job_list' = job_list
  BY <1>5 DEF WorkerStep, WorkerReady, WorkerPlaying, WorkerStartFailure, WorkerHandler,
              WorkerExitFailure, WorkerEos, WorkerCrash, WorkerTerm, WorkerDies
<1>6. CASE MonTick \/ MonCleaned \/ MonChecked \/ ShutStop \/ ShutLock \/ ShutUnlock
  BY <1>6 DEF MonTick, MonCleaned, MonChecked, ShutStop, ShutLock, ShutUnlock
<1>7. CASE UNCHANGED vars
  BY <1>7 DEF vars
<1> QED
  BY <1>1, <1>2, <1>3, <1>4, <1>5, <1>6, <1>7 DEF Next

(* clean_job_list removes a live job only when its worker is gone and      *)
(* reaped.                                                                 *)
THEOREM RemovedAfterWorker == Spec => LiveRemovedAfterWorker
<1>1. ASSUME IInv, [Next]_vars, NEW j \in Live, j \in job_list, j \notin job_list'
      PROVE  proc[j] = "none" /\ ~watch[j]
  <2>1. j \in Jobs
    BY JobsAssumption
  <2>2. PICK k \in Jobs : MonSweep(k)
    BY <1>1, ListKept
  <2>3. state[j] = "STOPED"
    BY <1>1, <2>1, <2>2 DEF MonSweep, Removable
  <2> QED
    BY <1>1, <2>1, <2>3 DEF IInv, StopedIsFinal
<1>2. IInv /\ [Next]_vars =>
        [\A j \in Live : j \in job_list /\ j \notin job_list' =>
           proc[j] = "none" /\ ~watch[j]]_job_list
  BY <1>1
<1> QED
  BY <1>2, Inductive, PTL DEF Spec, LiveRemovedAfterWorker

-----------------------------------------------------------------------------
(* The manager exits with an empty list, which stays empty.                *)
ExitEmpty == mgr = "exited" => job_list = {}

LEMMA ExitStep ==
  ASSUME ExitEmpty, [Next]_vars
  PROVE  ExitEmpty'
<1> USE DEF ExitEmpty, objVars, workerVars, threads
<1>1. ASSUME NEW j \in Jobs,
             MgmtStart(j) \/ MgmtStop(j) \/ MgmtStartFail(j) \/ MgmtAppend(j) \/ MgmtStep(j)
      PROVE  ExitEmpty'
  BY <1>1 DEF NewJob, MgmtStart, MgmtStop, MgmtStartFail, MgmtAppend, MgmtStep, MgmtWait,
              MgmtProbe, MgmtWatch, MgmtRef, MgmtMark, MgmtKill
<1>2. ASSUME NEW j \in Jobs, MainSpawnFail(j) \/ MainStep(j)
      PROVE  ExitEmpty'
  BY <1>2 DEF MainSpawnFail, MainStep, MainReap, MainFault, MainEnter, MainStartFailed,
              MainStoped, MainEnded, MainPublish, MainEos, MainFailed,
              MainReset, MainSpawn, MainWait, MainProbe, MainUnlock
<1>3. ASSUME NEW j \in Jobs, MonStep(j)
      PROVE  ExitEmpty'
  BY <1>3 DEF MonStep, MonClean, MonRetry, MonMark, MonKill, MonSweep, MonCheckSkip, MonCheck
<1>4. ASSUME NEW j \in Jobs, ShutStep(j)
      PROVE  ExitEmpty'
  BY <1>4 DEF ShutStep, ShutMark, ShutKill
<1>5. ASSUME NEW j \in Jobs,
             WorkerStep(j) \/ WorkerEos(j) \/ WorkerCrash(j) \/ WorkerTerm(j)
      PROVE  ExitEmpty'
  BY <1>5 DEF WorkerStep, WorkerReady, WorkerPlaying, WorkerStartFailure, WorkerHandler,
              WorkerExitFailure, WorkerEos, WorkerCrash, WorkerTerm, WorkerDies
<1>6. CASE MonTick \/ MonCleaned \/ MonChecked \/ ShutStop \/ ShutLock \/ ShutUnlock
  BY <1>6 DEF MonTick, MonCleaned, MonChecked, ShutStop, ShutLock, ShutUnlock
<1>7. CASE UNCHANGED vars
  BY <1>7 DEF vars
<1> QED
  BY <1>1, <1>2, <1>3, <1>4, <1>5, <1>6, <1>7 DEF Next

(* When the manager exits no worker of a live job goes on without it, but  *)
(* that of a job the management thread is starting at that moment.         *)
THEOREM ShutdownWaits == Spec => []ShutdownWaitsForListed
<1>1. Init => ExitEmpty
  BY DEF Init, ExitEmpty
<1>2. ASSUME IInv, ExitEmpty, NEW j \in Live, mgr = "exited",
             proc[j] \in Running \ {"failing"}
      PROVE  Creating(j)
  <2>1. j \in Jobs /\ j \notin job_list
    BY <1>2, JobsAssumption DEF ExitEmpty
  <2>2. JobInv(j) /\ (watch[j] \/ Creating(j) \/ Recreating(j))
    BY <1>2, <2>1 DEF IInv, EveryWorkerReaped, Running
  <2>3. state[j] # "START_FAILURE"
    BY <1>2, <2>2 DEF JobInv, Reported, Running
  <2>4. ~watch[j] /\ ~Recreating(j)
    BY <2>1, <2>2, <2>3 DEF JobInv, Listed, Recreating
  <2> QED
    BY <2>2, <2>4
<1>3. IInv /\ ExitEmpty => ShutdownWaitsForListed
  BY <1>2 DEF ShutdownWaitsForListed
<1> QED
  BY <1>1, <1>3, ExitStep, Inductive, PTL DEF Spec

-----------------------------------------------------------------------------
(* Once a worker is watched, or its callback at work, it has left READY.   *)
Settled(j) ==
  /\ watch[j] \/ (main.job = j /\ main.pc \in {"enter", "test", "ended", "reset"}) => ~Pending(j)
  /\ mgmt.job = j /\ mgmt.pc \in {"append", "watch"} /\ worker_pid[j] => ~Pending(j)

LEMMA SettledStep ==
  ASSUME IInv, \A j \in Jobs : Settled(j), [Next]_vars
  PROVE  \A j \in Jobs : Settled(j)'
<1> USE JobsAssumption DEF Settled, Pending, objVars, workerVars, threads
<1>1. /\ TypeOK /\ EveryWorkerReaped
      /\ \A j \in Jobs : Reported(j) /\ Created(j) /\ Handled(j) /\ Unmade(j)
  BY DEF IInv, JobInv
<1>2. ASSUME NEW k \in Jobs,
             MgmtStart(k) \/ MgmtStop(k) \/ MgmtStartFail(k) \/ MgmtAppend(k) \/ MgmtStep(k)
      PROVE  \A j \in Jobs : Settled(j)'
  BY <1>1, <1>2 DEF TypeOK, Created, Creating, Unmade, NewJob, MgmtStart, MgmtStop, MgmtStartFail,
     MgmtAppend, MgmtStep, MgmtWait, MgmtProbe, MgmtWatch, MgmtRef, MgmtMark, MgmtKill, MgmtGoto,
     JobState
<1>3. ASSUME NEW k \in Jobs, MainSpawnFail(k) \/ MainStep(k)
      PROVE  \A j \in Jobs : Settled(j)'
  BY <1>1, <1>3 DEF TypeOK, Created, Creating, Handled, Reaping, MainSpawnFail, MainStep, MainReap,
     MainFault, MainEnter, MainStartFailed, MainStoped, MainEnded, MainPublish, MainEos, MainFailed,
     MainReset, MainSpawn, MainWait, MainProbe, MainUnlock, MainGoto, Recreated, StartFailed, JobState
<1>4. ASSUME NEW k \in Jobs, MonStep(k)
      PROVE  \A j \in Jobs : Settled(j)'
  BY <1>4 DEF MonStep, MonClean, MonRetry, MonMark, MonKill, MonSweep, MonCheckSkip, MonCheck
<1>5. ASSUME NEW k \in Jobs, ShutStep(k)
      PROVE  \A j \in Jobs : Settled(j)'
  BY <1>5 DEF ShutStep, ShutMark, ShutKill
<1>6. ASSUME NEW k \in Jobs,
             WorkerStep(k) \/ WorkerEos(k) \/ WorkerCrash(k) \/ WorkerTerm(k)
      PROVE  \A j \in Jobs : Settled(j)'
  BY <1>1, <1>6 DEF TypeOK, Reported, WorkerStep, WorkerReady, WorkerPlaying, WorkerStartFailure,
     WorkerHandler, WorkerExitFailure, WorkerEos, WorkerCrash, WorkerTerm, WorkerDies, JobState
<1>7. CASE MonTick \/ MonCleaned \/ MonChecked \/ ShutStop \/ ShutLock \/ ShutUnlock
  BY <1>7 DEF MonTick, MonCleaned, MonChecked, ShutStop, ShutLock, ShutUnlock
<1>8. CASE UNCHANGED vars
  BY <1>8 DEF vars
<1> QED
  BY <1>2, <1>3, <1>4, <1>5, <1>6, <1>7, <1>8 DEF Next

LEMMA ReadyStep ==
  ASSUME IInv, \A k \in Jobs : Settled(k), [Next]_vars,
         NEW j \in Jobs, state[j] = "READY", state'[j] # "READY"
  PROVE  state'[j] \in {"PLAYING", "START_FAILURE"}
<1> USE DEF objVars, workerVars, threads
<1>1. state \in [Jobs -> JobState] /\ Reported(j) /\ Handled(j) /\ Settled(j)
  BY DEF IInv, TypeOK, JobInv
<1>2. ASSUME NEW k \in Jobs,
             MgmtStart(k) \/ MgmtStop(k) \/ MgmtStartFail(k) \/ MgmtAppend(k) \/ MgmtStep(k)
      PROVE  state'[j] \in {"READY", "START_FAILURE"}
  BY <1>1, <1>2 DEF NewJob, MgmtStart, MgmtStop, MgmtStartFail, MgmtAppend, MgmtStep, MgmtWait,
     MgmtProbe, MgmtWatch, MgmtRef, MgmtMark, MgmtKill
<1>3. ASSUME NEW k \in Jobs, MainSpawnFail(k) \/ MainStep(k)
      PROVE  state'[j] \in {"READY", "START_FAILURE"}
  BY <1>1, <1>3 DEF Settled, Pending, MainSpawnFail, MainStep, MainReap, MainFault, MainEnter,
     MainStartFailed, MainStoped, MainEnded, MainPublish, MainEos, MainFailed,
              MainReset, MainSpawn, MainWait, MainProbe, MainUnlock,
     Recreated
<1>4. ASSUME NEW k \in Jobs, MonStep(k) \/ ShutStep(k)
      PROVE  state' = state
  BY <1>4 DEF MonStep, MonClean, MonRetry, MonMark, MonKill, MonSweep, MonCheckSkip, MonCheck,
     ShutStep, ShutMark, ShutKill
<1>5. ASSUME NEW k \in Jobs,
             WorkerStep(k) \/ WorkerEos(k) \/ WorkerCrash(k) \/ WorkerTerm(k)
      PROVE  state'[j] \in {"READY", "PLAYING", "START_FAILURE"}
  BY <1>1, <1>5 DEF WorkerStep, WorkerReady, WorkerPlaying, WorkerStartFailure, WorkerHandler,
     WorkerExitFailure, WorkerEos, WorkerCrash, WorkerTerm, WorkerDies
<1>6. CASE MonTick \/ MonCleaned \/ MonChecked \/ ShutStop \/ ShutLock \/ ShutUnlock
  BY <1>6 DEF MonTick, MonCleaned, MonChecked, ShutStop, ShutLock, ShutUnlock
<1>7. CASE UNCHANGED vars
  BY <1>7 DEF vars
<1> QED
  BY <1>2, <1>3, <1>4, <1>5, <1>6, <1>7 DEF Next

(* The state that job_start and create_job_process share leaves READY for  *)
(* PLAYING or START_FAILURE only, as job.h promises.                       *)
THEOREM ReadyOrder == Spec => ReadyThenPlayingOrFailure
<1> DEFINE AllSettled == \A j \in Jobs : Settled(j)
<1>1. Init => AllSettled
  BY JobsAssumption DEF Init, Settled
<1>2. IInv /\ AllSettled /\ [Next]_vars => AllSettled'
  BY SettledStep
<1>3. IInv /\ AllSettled /\ [Next]_vars =>
        [\A j \in Jobs : state[j] = "READY" /\ state'[j] # "READY" =>
           state'[j] \in {"PLAYING", "START_FAILURE"}]_state
  BY ReadyStep
<1> HIDE DEF AllSettled
<1> QED
  BY <1>1, <1>2, <1>3, Inductive, PTL DEF Spec, ReadyThenPlayingOrFailure
=============================================================================
