---------------------------- MODULE JobLifecycle ----------------------------
(***************************************************************************)
(* The life of a job: the HTTP management thread that starts and stops it, *)
(* the main loop that reaps its worker process and restarts it, the        *)
(* monitor that signals, checks and removes it every two seconds, the      *)
(* handler that shuts the whole manager down, and the worker process       *)
(* itself (src/src/gstreamill.c, src/src/job.c, src/src/main.c).           *)
(*                                                                         *)
(* One element of Jobs is one Job object, from job_new to its last unref.  *)
(* Two objects never share a name here: see the README.  All threads run   *)
(* concurrently; a step of the model is one access to state that another   *)
(* thread, or the worker through shared memory, may change.                *)
(***************************************************************************)
EXTENDS Naturals, FiniteSets

CONSTANTS
  Jobs,           (* job objects                                             *)
  Live,           (* those whose description says "live"                     *)
  NoJob,          (* a thread that handles no job                            *)
  MaxJobs,        (* bound: at most this many objects are made               *)
  MaxAge,         (* bound: a worker fails by itself only below this age,    *)
                  (* and nobody asks to stop a job above it                  *)
  SpawnMayFail,   (* g_spawn_async may return FALSE                          *)
  MayLoseSemaphore, (* a worker may die inside a semaphore critical section  *)
  MayShutDown     (* the manager may be sent SIGTERM                         *)

ASSUME JobsAssumption ==
  /\ Live \subseteq Jobs
  /\ NoJob \notin Jobs
  /\ MaxJobs \in Nat
  /\ MaxAge \in Nat
  /\ SpawnMayFail \in BOOLEAN
  /\ MayLoseSemaphore \in BOOLEAN
  /\ MayShutDown \in BOOLEAN

VARIABLES
  mgr,         (* manager process: "up", "exited" or "crashed"               *)
  stop,        (* gstreamill->stop                                           *)
  job_list,    (* gstreamill->job_list                                       *)
  made,        (* objects that job_new has returned                          *)
  refs,        (* GObject reference count                                    *)
  state,       (* *(job->output->state), in shared memory                    *)
  stoping, eos, age,   (* fields of the Job object                           *)
  worker_pid,  (* job->worker_pid # 0                                        *)
  watch,       (* a child watch source is attached for the job               *)
  proc,        (* the worker process as the kernel sees it                   *)
  sigterm,     (* SIGTERM sent to the worker and not yet acted on            *)
  enc_eos,     (* all *(encoders[i].eos) are set, in shared memory           *)
  semLost,     (* the worker died holding the job's semaphore                *)
  mgmt, main, mon, shut   (* program counters of the manager's threads       *)

objVars    == <<made, refs, state, stoping, eos, age, worker_pid, watch>>
workerVars == <<proc, sigterm, enc_eos, semLost>>
threads    == <<mgmt, main, mon, shut>>
vars       == <<mgr, stop, job_list, objVars, workerVars, threads>>

-----------------------------------------------------------------------------
(* The process states: "none" before the spawn and once reaped; "started"  *)
(* has set PLAYING but not yet installed the SIGTERM handler.              *)
Running  == {"init", "ready", "failing", "started", "running"}
Zombie   == {"exit0", "exit1", "killed"}
JobState == {"VOID_PENDING", "READY", "PLAYING", "START_FAILURE", "STOPED"}

(* Mutant: the spin ends as soon as the worker has attached.               *)
PendingVoidOnly(j) == state[j] = "VOID_PENDING"

(* create_job_process spins while the worker has not reported.             *)
Pending(j) == state[j] \in {"VOID_PENDING", "READY"}

(* job_list_mutex is held by the monitor for its whole tick and by         *)
(* gstreamill_stop while it signals; the other users hold it for one step. *)
ListFree == mon.pc = "idle" /\ shut.pc \notin {"mark", "kill"}

(* access_mutex is held by child_watch_cb from its first to its last line. *)
Locked(j) == main.job = j /\ main.pc # "enter"

Init ==
  /\ mgr = "up" /\ stop = FALSE /\ job_list = {} /\ made = {}
  /\ refs       = [j \in Jobs |-> 0]
  /\ state      = [j \in Jobs |-> "VOID_PENDING"]
  /\ stoping    = [j \in Jobs |-> FALSE]
  /\ eos        = [j \in Jobs |-> FALSE]
  /\ age        = [j \in Jobs |-> 0]
  /\ worker_pid = [j \in Jobs |-> FALSE]
  /\ watch      = [j \in Jobs |-> FALSE]
  /\ proc       = [j \in Jobs |-> "none"]
  /\ sigterm    = [j \in Jobs |-> FALSE]
  /\ enc_eos    = [j \in Jobs |-> FALSE]
  /\ semLost    = [j \in Jobs |-> FALSE]
  /\ mgmt = [pc |-> "idle", job |-> NoJob]
  /\ main = [pc |-> "idle", job |-> NoJob, status |-> "none"]
  /\ mon  = [pc |-> "idle", job |-> NoJob, todo |-> {}]
  /\ shut = [pc |-> "off",  job |-> NoJob, todo |-> {}]

-----------------------------------------------------------------------------
(* job_stop, in its two parts: the flag, then the signal.                  *)
JobStopMark(j) ==
  stoping' = [stoping EXCEPT ![j] = @ \/ state[j] # "STOPED"]

JobStopTerm(j) ==
  sigterm' = [sigterm EXCEPT ![j] = @ \/ (worker_pid[j] /\ proc[j] \in Running)]

(* g_spawn_async succeeded.                                                *)
Spawned(j) ==
  /\ proc'    = [proc EXCEPT ![j] = "init"]
  /\ sigterm' = [sigterm EXCEPT ![j] = FALSE]

(* The monitor is done with job j of the list it is walking.               *)
MonGoto(pc, j, todo) == mon' = [pc |-> pc, job |-> j, todo |-> todo]
MgmtGoto(pc, j) == mgmt' = [pc |-> pc, job |-> j]
MainGoto(pc)    == main' = [main EXCEPT !.pc = pc]

-----------------------------------------------------------------------------
(* The management thread: gstreamill_job_start.                            *)

(* get_job found no job of that name; job_initialize, job_reset and the    *)
(* spawn of create_job_process: nobody else sees the object yet.           *)
NewJob(j) ==
  /\ mgr = "up" /\ mgmt.pc = "idle" /\ ListFree /\ j \notin made
  /\ Cardinality(made) < MaxJobs
  /\ made' = made \cup {j}
  /\ refs' = [refs EXCEPT ![j] = 1]
  /\ UNCHANGED <<mgr, stop, job_list, state, stoping, eos, age, worker_pid,
                 watch, enc_eos, semLost, main, mon, shut>>

MgmtStart(j) ==
  /\ NewJob(j)
  /\ Spawned(j)
  /\ MgmtGoto("wait", j)

(* g_spawn_async failed: worker_pid stays 0, the object is never freed.    *)
MgmtStartFail(j) ==
  /\ NewJob(j) /\ SpawnMayFail
  /\ MgmtGoto("watch", j)
  /\ UNCHANGED <<proc, sigterm>>

(* The spin loop's test of the shared state, and the worker_pid assignment *)
(* that follows the loop.                                                  *)
MgmtWait(j) ==
  /\ mgr = "up" /\ mgmt.pc = "wait" /\ mgmt.job = j
  /\ IF Pending(j)
     THEN MgmtGoto("probe", j) /\ UNCHANGED worker_pid
     ELSE /\ worker_pid' = [worker_pid EXCEPT ![j] = TRUE]
          /\ MgmtGoto(IF state[j] = "PLAYING" THEN "append" ELSE "watch", j)
  /\ UNCHANGED <<mgr, stop, job_list, made, refs, state, stoping, eos, age, watch,
                 workerVars, main, mon, shut>>

(* The loop's look at /proc/<pid>/stat: a zombie ends it.                  *)
MgmtProbe(j) ==
  /\ mgr = "up" /\ mgmt.pc = "probe" /\ mgmt.job = j
  /\ IF proc[j] \in Zombie
     THEN /\ state' = [state EXCEPT ![j] = "START_FAILURE"]
          /\ worker_pid' = [worker_pid EXCEPT ![j] = TRUE]
          /\ MgmtGoto("watch", j)
     ELSE MgmtGoto("wait", j) /\ UNCHANGED <<state, worker_pid>>
  /\ UNCHANGED <<mgr, stop, job_list, made, refs, stoping, eos, age, watch,
                 workerVars, main, mon, shut>>

MgmtAppend(j) ==
  /\ mgr = "up" /\ mgmt.pc = "append" /\ mgmt.job = j /\ ListFree
  /\ job_list' = job_list \cup {j}
  /\ MgmtGoto("watch", j)
  /\ UNCHANGED <<mgr, stop, objVars, workerVars, main, mon, shut>>

(* g_child_watch_add on job->worker_pid: GLib refuses pid 0.               *)
MgmtWatch(j) ==
  /\ mgr = "up" /\ mgmt.pc = "watch" /\ mgmt.job = j
  /\ watch' = [watch EXCEPT ![j] = worker_pid[j]]
  /\ MgmtGoto("idle", NoJob)
  /\ UNCHANGED <<mgr, stop, job_list, made, refs, state, stoping, eos, age,
                 worker_pid, workerVars, main, mon, shut>>

-----------------------------------------------------------------------------
(* The management thread: gstreamill_job_stop.                             *)

(* get_job finds the job under the mutex ...                               *)
MgmtStop(j) ==
  /\ mgr = "up" /\ mgmt.pc = "idle" /\ ListFree /\ j \in job_list
  /\ age[j] <= MaxAge
  /\ MgmtGoto("ref", j)
  /\ UNCHANGED <<mgr, stop, job_list, objVars, workerVars, main, mon, shut>>

(* ... and takes its reference after the unlock: the object may be gone.   *)
MgmtRef(j) ==
  /\ mgr = "up" /\ mgmt.pc = "ref" /\ mgmt.job = j
  /\ IF refs[j] = 0
     THEN mgr' = "crashed" /\ UNCHANGED <<refs, mgmt>>
     ELSE /\ refs' = [refs EXCEPT ![j] = @ + 1]
          /\ MgmtGoto("mark", j) /\ UNCHANGED mgr
  /\ UNCHANGED <<stop, job_list, made, state, stoping, eos, age, worker_pid, watch,
                 workerVars, main, mon, shut>>

MgmtMark(j) ==
  /\ mgr = "up" /\ mgmt.pc = "mark" /\ mgmt.job = j
  /\ JobStopMark(j)
  /\ MgmtGoto("kill", j)
  /\ UNCHANGED <<mgr, stop, job_list, made, refs, state, eos, age, worker_pid, watch,
                 workerVars, main, mon, shut>>

(* The signal, and the unref that ends the request.                        *)
MgmtKill(j) ==
  /\ mgr = "up" /\ mgmt.pc = "kill" /\ mgmt.job = j
  /\ JobStopTerm(j)
  /\ refs' = [refs EXCEPT ![j] = @ - 1]
  /\ MgmtGoto("idle", NoJob)
  /\ UNCHANGED <<mgr, stop, job_list, made, state, stoping, eos, age, worker_pid, watch,
                 proc, enc_eos, semLost, main, mon, shut>>

-----------------------------------------------------------------------------
(* The main loop: child_watch_cb.                                          *)

(* GLib reaps the process and dispatches the callback, which then waits    *)
(* for access_mutex.  Until it has it, worker_pid names a reaped process.  *)
MainReap(j) ==
  /\ mgr = "up" /\ main.pc = "idle" /\ watch[j] /\ proc[j] \in Zombie
  /\ main'  = [pc |-> "enter", job |-> j, status |-> proc[j]]
  /\ proc'  = [proc EXCEPT ![j] = "none"]
  /\ watch' = [watch EXCEPT ![j] = FALSE]
  /\ UNCHANGED <<mgr, stop, job_list, made, refs, state, stoping, eos, age, worker_pid,
                 sigterm, enc_eos, semLost, mgmt, mon, shut>>

(* A freed object's shared memory is unmapped: reading or writing its      *)
(* state faults.  The object itself is heap memory: the last lines of the  *)
(* callback, which write eos and unlock the mutex, may go well or not.     *)
MainFault(j) ==
  /\ mgr = "up" /\ main.job = j /\ refs[j] = 0
  /\ main.pc \in {"enter", "test", "ended", "eos", "unlock"}
  /\ mgr' = "crashed"
  /\ UNCHANGED <<stop, job_list, objVars, workerVars, threads>>

(* Mutant: child_watch_cb does not forget the pid.                         *)
MainEnterKeepPid(j) ==
  /\ mgr = "up" /\ main.pc = "enter" /\ main.job = j /\ refs[j] > 0
  /\ age' = [age EXCEPT ![j] = @ + 1]
  /\ MainGoto("test")
  /\ UNCHANGED <<mgr, stop, job_list, made, refs, state, stoping, eos, worker_pid, watch,
                 workerVars, mgmt, mon, shut>>

MainEnter(j) ==
  /\ mgr = "up" /\ main.pc = "enter" /\ main.job = j /\ refs[j] > 0
  /\ age'        = [age EXCEPT ![j] = @ + 1]
  /\ worker_pid' = [worker_pid EXCEPT ![j] = FALSE]
  /\ MainGoto("test")
  /\ UNCHANGED <<mgr, stop, job_list, made, refs, state, stoping, eos, watch,
                 workerVars, mgmt, mon, shut>>

StartFailed(j) == age[j] = 1 /\ state[j] = "START_FAILURE"

(* The first worker never played: the object is dropped.                   *)
MainStartFailed(j) ==
  /\ mgr = "up" /\ main.pc = "test" /\ main.job = j /\ refs[j] > 0
  /\ StartFailed(j)
  /\ refs' = [refs EXCEPT ![j] = @ - 1]
  /\ MainGoto("unlock")
  /\ UNCHANGED <<mgr, stop, job_list, made, state, stoping, eos, age, worker_pid, watch,
                 workerVars, mgmt, mon, shut>>

(* Asked to stop: stoping stays set while the callback has access_mutex.   *)
MainStoped(j) ==
  /\ mgr = "up" /\ main.pc = "test" /\ main.job = j /\ refs[j] > 0
  /\ ~StartFailed(j) /\ stoping[j]
  /\ state' = [state EXCEPT ![j] = "STOPED"]
  /\ MainGoto("unlock")
  /\ UNCHANGED <<mgr, stop, job_list, made, refs, stoping, eos, age, worker_pid, watch,
                 workerVars, mgmt, mon, shut>>

(* Not asked to, but exited with status 0 or not live: the job is over.    *)
MainEnded(j) ==
  /\ mgr = "up" /\ main.pc = "test" /\ main.job = j /\ refs[j] > 0
  /\ ~StartFailed(j) /\ ~stoping[j]
  /\ main.status = "exit0" \/ j \notin Live
  /\ MainGoto("ended")
  /\ UNCHANGED <<mgr, stop, job_list, objVars, workerVars, mgmt, mon, shut>>

(* The state is published, on which the monitor frees a live job ...       *)
MainPublish(j) ==
  /\ mgr = "up" /\ main.pc = "ended" /\ main.job = j /\ refs[j] > 0
  /\ state' = [state EXCEPT ![j] = "STOPED"]
  /\ MainGoto("eos")
  /\ UNCHANGED <<mgr, stop, job_list, made, refs, stoping, eos, age, worker_pid, watch,
                 workerVars, mgmt, mon, shut>>

(* ... then eos, on which it frees one that is not live.                   *)
MainEos(j) ==
  /\ mgr = "up" /\ main.pc = "eos" /\ main.job = j
  /\ eos' = [eos EXCEPT ![j] = TRUE]
  /\ MainGoto("unlock")
  /\ UNCHANGED <<mgr, stop, job_list, made, refs, state, stoping, age, worker_pid, watch,
                 workerVars, mgmt, mon, shut>>

(* A live job's worker failed: restart it.                                 *)
MainFailed(j) ==
  /\ mgr = "up" /\ main.pc = "test" /\ main.job = j /\ refs[j] > 0
  /\ ~StartFailed(j) /\ ~stoping[j] /\ main.status # "exit0" /\ j \in Live
  /\ MainGoto("reset")
  /\ UNCHANGED <<mgr, stop, job_list, objVars, workerVars, mgmt, mon, shut>>

(* job_reset.                                                              *)
MainReset(j) ==
  /\ mgr = "up" /\ main.pc = "reset" /\ main.job = j
  /\ stoping' = [stoping EXCEPT ![j] = FALSE]
  /\ state'   = [state EXCEPT ![j] = "VOID_PENDING"]
  /\ semLost' = [semLost EXCEPT ![j] = FALSE]
  /\ MainGoto("spawn")
  /\ UNCHANGED <<mgr, stop, job_list, made, refs, eos, age, worker_pid, watch,
                 proc, sigterm, enc_eos, mgmt, mon, shut>>

MainSpawn(j) ==
  /\ mgr = "up" /\ main.pc = "spawn" /\ main.job = j
  /\ Spawned(j)
  /\ MainGoto("wait")
  /\ UNCHANGED <<mgr, stop, job_list, objVars, enc_eos, semLost, mgmt, mon, shut>>

(* g_spawn_async failed: no process, no watch, state VOID_PENDING.         *)
MainSpawnFail(j) ==
  /\ mgr = "up" /\ main.pc = "spawn" /\ main.job = j /\ SpawnMayFail
  /\ MainGoto("unlock")
  /\ UNCHANGED <<mgr, stop, job_list, objVars, workerVars, mgmt, mon, shut>>

(* Mutant: only the first worker is watched.                               *)
RecreatedUnwatched(j) ==
  /\ worker_pid' = [worker_pid EXCEPT ![j] = TRUE]
  /\ MainGoto("unlock")
  /\ UNCHANGED watch

(* The end of create_job_process at age > 0: worker_pid, then the watch.   *)
Recreated(j) ==
  /\ worker_pid' = [worker_pid EXCEPT ![j] = TRUE]
  /\ watch'      = [watch EXCEPT ![j] = TRUE]
  /\ MainGoto("unlock")

MainWait(j) ==
  /\ mgr = "up" /\ main.pc = "wait" /\ main.job = j
  /\ IF Pending(j)
     THEN MainGoto("probe") /\ UNCHANGED <<worker_pid, watch>>
     ELSE Recreated(j)
  /\ UNCHANGED <<mgr, stop, job_list, made, refs, state, stoping, eos, age,
                 workerVars, mgmt, mon, shut>>

MainProbe(j) ==
  /\ mgr = "up" /\ main.pc = "probe" /\ main.job = j
  /\ IF proc[j] \in Zombie
     THEN /\ state' = [state EXCEPT ![j] = "START_FAILURE"]
          /\ Recreated(j)
     ELSE MainGoto("wait") /\ UNCHANGED <<state, worker_pid, watch>>
  /\ UNCHANGED <<mgr, stop, job_list, made, refs, stoping, eos, age,
                 workerVars, mgmt, mon, shut>>

MainUnlock(j) ==
  /\ mgr = "up" /\ main.pc = "unlock" /\ main.job = j
  /\ main' = [pc |-> "idle", job |-> NoJob, status |-> "none"]
  /\ UNCHANGED <<mgr, stop, job_list, objVars, workerVars, mgmt, mon, shut>>

-----------------------------------------------------------------------------
(* The monitor: gstreamill_monitor, clean_job_list and job_check_func.     *)

MonTick ==
  /\ mgr = "up" /\ ListFree
  /\ MonGoto("clean", NoJob, job_list)
  /\ UNCHANGED <<mgr, stop, job_list, objVars, workerVars, mgmt, main, shut>>

(* Mutant: a job that is to stop is not signalled again.                   *)
MonCleanSilent(j) ==
  /\ mgr = "up" /\ mon.pc = "clean" /\ j \in mon.todo /\ ~semLost[j]
  /\ MonGoto("sweep", j, mon.todo)
  /\ UNCHANGED <<mgr, stop, job_list, objVars, workerVars, mgmt, main, shut>>

(* clean_job_list has the job's semaphore; a live job that is to stop is   *)
(* signalled again.                                                        *)
MonClean(j) ==
  /\ mgr = "up" /\ mon.pc = "clean" /\ j \in mon.todo /\ ~semLost[j]
  /\ MonGoto(IF j \in Live /\ stoping[j] THEN "mark" ELSE "sweep", j, mon.todo)
  /\ UNCHANGED <<mgr, stop, job_list, objVars, workerVars, mgmt, main, shut>>

(* sem_timedwait timed out: the walk starts again, the mutex still held.   *)
MonRetry(j) ==
  /\ mgr = "up" /\ mon.pc = "clean" /\ j \in mon.todo /\ semLost[j]
  /\ MonGoto("clean", NoJob, job_list)
  /\ UNCHANGED <<mgr, stop, job_list, objVars, workerVars, mgmt, main, shut>>

MonMark(j) ==
  /\ mgr = "up" /\ mon.pc = "mark" /\ mon.job = j
  /\ JobStopMark(j)
  /\ MonGoto("kill", j, mon.todo)
  /\ UNCHANGED <<mgr, stop, job_list, made, refs, state, eos, age, worker_pid, watch,
                 workerVars, mgmt, main, shut>>

MonKill(j) ==
  /\ mgr = "up" /\ mon.pc = "kill" /\ mon.job = j
  /\ JobStopTerm(j)
  /\ MonGoto("sweep", j, mon.todo)
  /\ UNCHANGED <<mgr, stop, job_list, objVars, proc, enc_eos, semLost, mgmt, main, shut>>

(* Mutants: the request is taken for its completion; the non-live branch   *)
(* is missing.                                                             *)
RemovableStoping(j)  == IF j \in Live THEN stoping[j] ELSE eos[j]
RemovableLiveOnly(j) == j \in Live /\ state[j] = "STOPED"

Removable(j) == IF j \in Live THEN state[j] = "STOPED" ELSE eos[j]

(* Remove the job and start over, or go on to the next one.                *)
MonSweep(j) ==
  /\ mgr = "up" /\ mon.pc = "sweep" /\ mon.job = j
  /\ IF Removable(j)
     THEN /\ job_list' = job_list \ {j}
          /\ refs' = [refs EXCEPT ![j] = @ - 1]
          /\ MonGoto("clean", NoJob, job_list \ {j})
     ELSE MonGoto("clean", NoJob, mon.todo \ {j}) /\ UNCHANGED <<job_list, refs>>
  /\ UNCHANGED <<mgr, stop, made, state, stoping, eos, age, worker_pid, watch,
                 workerVars, mgmt, main, shut>>

(* Mutant: the monitor leaves without waiting for the list to empty.       *)
MonCleanedAtOnce ==
  /\ mgr = "up" /\ mon.pc = "clean" /\ mon.todo = {}
  /\ IF stop
     THEN mgr' = "exited" /\ UNCHANGED mon
     ELSE MonGoto("check", NoJob, job_list) /\ UNCHANGED mgr
  /\ UNCHANGED <<stop, job_list, objVars, workerVars, mgmt, main, shut>>

(* All jobs seen: exit if stopping and the list is empty, else check them. *)
MonCleaned ==
  /\ mgr = "up" /\ mon.pc = "clean" /\ mon.todo = {}
  /\ IF stop /\ job_list = {}
     THEN mgr' = "exited" /\ UNCHANGED mon
     ELSE MonGoto(IF stop THEN "idle" ELSE "check", NoJob, IF stop THEN {} ELSE job_list)
          /\ UNCHANGED mgr
  /\ UNCHANGED <<stop, job_list, objVars, workerVars, mgmt, main, shut>>

(* job_check_func goes past its early returns: job_stat_update read        *)
(* /proc/<pid>/stat, the semaphore was free, the job plays.                *)
CanCheck(j) ==
  /\ ~stop /\ ~Locked(j)
  /\ worker_pid[j] => proc[j] # "none"
  /\ ~semLost[j] /\ state[j] = "PLAYING"

MonCheckSkip(j) ==
  /\ mgr = "up" /\ mon.pc = "check" /\ j \in mon.todo /\ ~CanCheck(j)
  /\ MonGoto("check", NoJob, mon.todo \ {j})
  /\ UNCHANGED <<mgr, stop, job_list, objVars, workerVars, mgmt, main, shut>>

(* job_check_func under access_mutex and the semaphore: a stale heartbeat  *)
(* or unsynchronised streams kill the worker; a non-live job whose         *)
(* encoders all reached end of stream is stopped.                          *)
MonCheck(j) ==
  /\ mgr = "up" /\ mon.pc = "check" /\ j \in mon.todo /\ CanCheck(j)
  /\ \E kill \in BOOLEAN :
       /\ kill => age[j] < MaxAge /\ worker_pid[j] /\ proc[j] \in Running
       /\ proc' = [proc EXCEPT ![j] = IF kill THEN "killed" ELSE @]
       /\ IF j \notin Live /\ enc_eos[j]
          THEN /\ JobStopMark(j)
               /\ eos' = [eos EXCEPT ![j] = TRUE]
               /\ sigterm' = [sigterm EXCEPT ![j] =
                                (@ \/ (worker_pid[j] /\ proc[j] \in Running)) /\ ~kill]
          ELSE /\ sigterm' = [sigterm EXCEPT ![j] = @ /\ ~kill]
               /\ UNCHANGED <<stoping, eos>>
  /\ MonGoto("check", NoJob, mon.todo \ {j})
  /\ UNCHANGED <<mgr, stop, job_list, made, refs, state, age, worker_pid, watch,
                 enc_eos, semLost, mgmt, main, shut>>

MonChecked ==
  /\ mgr = "up" /\ mon.pc = "check" /\ mon.todo = {}
  /\ MonGoto("idle", NoJob, {})
  /\ UNCHANGED <<mgr, stop, job_list, objVars, workerVars, mgmt, main, shut>>

-----------------------------------------------------------------------------
(* The SIGTERM handler of the manager: gstreamill_stop.                    *)

ShutStop ==
  /\ mgr = "up" /\ shut.pc = "off" /\ MayShutDown
  /\ stop' = TRUE
  /\ shut' = [shut EXCEPT !.pc = "lock"]
  /\ UNCHANGED <<mgr, job_list, objVars, workerVars, mgmt, main, mon>>

ShutLock ==
  /\ mgr = "up" /\ shut.pc = "lock" /\ ListFree
  /\ shut' = [pc |-> "mark", job |-> NoJob, todo |-> job_list]
  /\ UNCHANGED <<mgr, stop, job_list, objVars, workerVars, mgmt, main, mon>>

ShutMark(j) ==
  /\ mgr = "up" /\ shut.pc = "mark" /\ j \in shut.todo
  /\ JobStopMark(j)
  /\ shut' = [pc |-> "kill", job |-> j, todo |-> shut.todo]
  /\ UNCHANGED <<mgr, stop, job_list, made, refs, state, eos, age, worker_pid, watch,
                 workerVars, mgmt, main, mon>>

ShutKill(j) ==
  /\ mgr = "up" /\ shut.pc = "kill" /\ shut.job = j
  /\ JobStopTerm(j)
  /\ shut' = [pc |-> "mark", job |-> NoJob, todo |-> shut.todo \ {j}]
  /\ UNCHANGED <<mgr, stop, job_list, objVars, proc, enc_eos, semLost, mgmt, main, mon>>

ShutUnlock ==
  /\ mgr = "up" /\ shut.pc = "mark" /\ shut.todo = {}
  /\ shut' = [shut EXCEPT !.pc = "done"]
  /\ UNCHANGED <<mgr, stop, job_list, objVars, workerVars, mgmt, main, mon>>

-----------------------------------------------------------------------------
(* The worker process of job j: main with -n, and its end.                 *)

(* job_encoders_output_initialize.                                         *)
WorkerReady(j) ==
  /\ proc[j] = "init"
  /\ proc'    = [proc EXCEPT ![j] = "ready"]
  /\ state'   = [state EXCEPT ![j] = "READY"]
  /\ enc_eos' = [enc_eos EXCEPT ![j] = FALSE]
  /\ UNCHANGED <<mgr, stop, job_list, made, refs, stoping, eos, age, worker_pid, watch,
                 sigterm, semLost, threads>>

(* job_start sets the pipelines to PLAYING ...                             *)
WorkerPlaying(j) ==
  /\ proc[j] = "ready"
  /\ proc'  = [proc EXCEPT ![j] = "started"]
  /\ state' = [state EXCEPT ![j] = "PLAYING"]
  /\ UNCHANGED <<mgr, stop, job_list, made, refs, stoping, eos, age, worker_pid, watch,
                 sigterm, enc_eos, semLost, threads>>

(* ... or reports that it cannot, and main exits with a status.            *)
WorkerStartFailure(j) ==
  /\ proc[j] = "ready" /\ age[j] < MaxAge
  /\ proc'  = [proc EXCEPT ![j] = "failing"]
  /\ state' = [state EXCEPT ![j] = "START_FAILURE"]
  /\ UNCHANGED <<mgr, stop, job_list, made, refs, stoping, eos, age, worker_pid, watch,
                 sigterm, enc_eos, semLost, threads>>

(* signal (SIGTERM, stop_job).                                             *)
WorkerHandler(j) ==
  /\ proc[j] = "started"
  /\ proc' = [proc EXCEPT ![j] = "running"]
  /\ UNCHANGED <<mgr, stop, job_list, objVars, sigterm, enc_eos, semLost, threads>>

(* Every encoder of a non-live job has reached the end of the stream.      *)
WorkerEos(j) ==
  /\ proc[j] = "running" /\ j \notin Live /\ ~enc_eos[j]
  /\ enc_eos' = [enc_eos EXCEPT ![j] = TRUE]
  /\ UNCHANGED <<mgr, stop, job_list, objVars, proc, sigterm, semLost, threads>>

(* The worker ends; a live one may be between sem_timedwait and sem_post.  *)
WorkerDies(j, how) ==
  /\ proc'    = [proc EXCEPT ![j] = how]
  /\ sigterm' = [sigterm EXCEPT ![j] = FALSE]
  /\ \/ UNCHANGED semLost
     \/ /\ MayLoseSemaphore /\ j \in Live
        /\ semLost' = [semLost EXCEPT ![j] = TRUE]
  /\ UNCHANGED <<mgr, stop, job_list, objVars, enc_eos, threads>>

(* exit (9) after the failure has been reported.                           *)
WorkerExitFailure(j) == proc[j] = "failing" /\ WorkerDies(j, "exit1")

(* An error exit or a fatal signal at any other time.                      *)
WorkerCrash(j) ==
  /\ proc[j] \in Running \ {"failing"} /\ age[j] < MaxAge
  /\ \E how \in {"exit1", "killed"} : WorkerDies(j, how)

(* SIGTERM: stop_job calls exit (0); before it is installed, death.        *)
WorkerTerm(j) ==
  /\ proc[j] \in Running /\ sigterm[j]
  /\ WorkerDies(j, IF proc[j] = "running" THEN "exit0" ELSE "killed")

-----------------------------------------------------------------------------
(* What each thread does on its own, requests and failures left aside.     *)
MgmtStep(j) ==
  \/ MgmtWait(j) \/ MgmtProbe(j) \/ MgmtWatch(j)
  \/ MgmtRef(j) \/ MgmtMark(j) \/ MgmtKill(j)

MainStep(j) ==
  \/ MainReap(j) \/ MainFault(j) \/ MainEnter(j)
  \/ MainStartFailed(j) \/ MainStoped(j) \/ MainFailed(j)
  \/ MainEnded(j) \/ MainPublish(j) \/ MainEos(j)
  \/ MainReset(j) \/ MainSpawn(j) \/ MainWait(j) \/ MainProbe(j) \/ MainUnlock(j)

MonStep(j) ==
  \/ MonClean(j) \/ MonRetry(j) \/ MonMark(j) \/ MonKill(j) \/ MonSweep(j)
  \/ MonCheckSkip(j) \/ MonCheck(j)

ShutStep(j) == ShutMark(j) \/ ShutKill(j)

WorkerStep(j) ==
  \/ WorkerReady(j) \/ WorkerPlaying(j) \/ WorkerStartFailure(j)
  \/ WorkerHandler(j) \/ WorkerExitFailure(j)

Next ==
  \/ \E j \in Jobs :
       \/ MgmtStart(j) \/ MgmtStop(j) \/ MgmtStartFail(j) \/ MgmtAppend(j) \/ MgmtStep(j)
       \/ MainSpawnFail(j) \/ MainStep(j)
       \/ MonStep(j) \/ ShutStep(j)
       \/ WorkerStep(j) \/ WorkerEos(j) \/ WorkerCrash(j) \/ WorkerTerm(j)
  \/ MonTick \/ MonCleaned \/ MonChecked
  \/ ShutStop \/ ShutLock \/ ShutUnlock

Spec == Init /\ [][Next]_vars

(* Threads keep running; a signal sent is delivered; the monitor's timer   *)
(* leaves job_list_mutex free between ticks, so whoever waits for it gets  *)
(* it.  Nobody owes the system a request or a crash.                       *)
Fairness ==
  /\ \A j \in Jobs :
       /\ WF_vars(MgmtStep(j)) /\ SF_vars(MgmtAppend(j))
       /\ WF_vars(MainStep(j)) /\ WF_vars(MonStep(j)) /\ WF_vars(ShutStep(j))
       /\ WF_vars(WorkerStep(j)) /\ WF_vars(WorkerTerm(j))
  /\ WF_vars(MonTick) /\ WF_vars(MonCleaned) /\ WF_vars(MonChecked)
  /\ SF_vars(ShutLock) /\ WF_vars(ShutUnlock)

FairSpec == Spec /\ Fairness

-----------------------------------------------------------------------------
(* Threads that are creating a worker for j, and those whose handling of   *)
(* j's last worker is not finished.                                        *)
Creating(j)   == mgmt.job = j /\ mgmt.pc \in {"wait", "probe", "append", "watch"}
Recreating(j) == main.job = j /\ main.pc \in {"wait", "probe"}
Reaping(j)    == main.job = j /\ main.pc \in {"enter", "test", "ended", "reset", "spawn"}

(* Every variable has its type.                                            *)
TypeOK ==
  /\ mgr \in {"up", "exited", "crashed"}
  /\ stop \in BOOLEAN
  /\ job_list \in SUBSET Jobs
  /\ made \in SUBSET Jobs
  /\ refs \in [Jobs -> 0..2]
  /\ state \in [Jobs -> JobState]
  /\ stoping \in [Jobs -> BOOLEAN]
  /\ eos \in [Jobs -> BOOLEAN]
  /\ age \in [Jobs -> Nat]
  /\ worker_pid \in [Jobs -> BOOLEAN]
  /\ watch \in [Jobs -> BOOLEAN]
  /\ proc \in [Jobs -> {"none"} \cup Running \cup Zombie]
  /\ sigterm \in [Jobs -> BOOLEAN]
  /\ enc_eos \in [Jobs -> BOOLEAN]
  /\ semLost \in [Jobs -> BOOLEAN]
  /\ mgmt \in [pc : {"idle", "wait", "probe", "append", "watch",
                     "ref", "mark", "kill"}, job : Jobs \cup {NoJob}]
  /\ main \in [pc : {"idle", "enter", "test", "ended", "eos", "reset", "spawn", "wait",
                     "probe", "unlock"}, job : Jobs \cup {NoJob}, status : {"none"} \cup Zombie]
  /\ mon \in [pc : {"idle", "clean", "mark", "kill", "sweep", "check"},
              job : Jobs \cup {NoJob}, todo : SUBSET Jobs]
  /\ shut \in [pc : {"off", "lock", "mark", "kill", "done"},
               job : Jobs \cup {NoJob}, todo : SUBSET Jobs]

(* Every worker process has exactly one owner that will reap it: the       *)
(* thread still creating it, or its child watch.  A worker without one     *)
(* stays a zombie and its job is never restarted.                          *)
EveryWorkerReaped ==
  \A j \in Jobs :
    /\ proc[j] # "none" => watch[j] \/ Creating(j) \/ Recreating(j)
    /\ watch[j] => proc[j] # "none" /\ ~Creating(j) /\ ~Recreating(j)

(* kill(worker_pid) never reaches a process that is not the job's: the pid *)
(* outlives its process only between GLib's reap and child_watch_cb        *)
(* getting access_mutex.                                                   *)
PidNamesWorker ==
  \A j \in Jobs : worker_pid[j] /\ proc[j] = "none" => main.job = j /\ main.pc = "enter"

(* A job shown as playing has a worker, or the callback that will correct  *)
(* the state is already running.                                           *)
PlayingHasWorker ==
  \A j \in Jobs : state[j] = "PLAYING" => proc[j] # "none" \/ Reaping(j)

(* STOPED is only written when nothing can change the state again: no      *)
(* process, no watch, no thread creating one.                              *)
StopedIsFinal ==
  \A j \in Jobs : state[j] = "STOPED" =>
    proc[j] = "none" /\ ~watch[j] /\ ~Creating(j) /\ ~Recreating(j) /\ ~Reaping(j)

(* child_watch_cb restarts only jobs that are still in the list, and while *)
(* it works on a live job the object is not freed, until it has published  *)
(* STOPED or dropped the job itself: the assignment of eos and the unlock  *)
(* that are left come too late, they may write to freed memory.            *)
RestartsListedJob ==
  \A j \in Live : main.job = j /\ main.pc \notin {"eos", "unlock"} =>
    /\ refs[j] > 0
    /\ main.pc \in {"reset", "spawn", "wait", "probe"} => j \in job_list

(* A non-live job has at most one worker in its life.                      *)
NonLiveRunsOnce == \A j \in Jobs \ Live : age[j] + (IF proc[j] = "none" THEN 0 ELSE 1) <= 1

(* The worker and the manager both write the shared state, and job.h       *)
(* promises an order: READY is left for PLAYING or START_FAILURE only.     *)
ReadyThenPlayingOrFailure ==
  [][\A j \in Jobs : state[j] = "READY" /\ state'[j] # "READY" =>
       state'[j] \in {"PLAYING", "START_FAILURE"}]_state

(* A live job leaves the list only when its worker is gone and reaped.     *)
LiveRemovedAfterWorker ==
  [][\A j \in Live : j \in job_list /\ j \notin job_list' =>
       proc[j] = "none" /\ ~watch[j]]_job_list

(* The state a failed g_spawn_async leaves behind: a listed live job with  *)
(* no worker, no watch and no callback at work.                            *)
Workerless(j) ==
  j \in job_list /\ state[j] = "VOID_PENDING" /\ proc[j] = "none" /\ main.job # j

(* A live job asked to stop is removed, however often its worker fails,    *)
(* unless job_reset forgets the request.                                   *)
StopHonoured ==
  \A j \in Live :
    j \in job_list /\ stoping[j] ~> j \notin job_list \/ ~stoping[j] \/ mgr # "up"

(* A listed live job whose worker failed gets a new one, unless asked to   *)
(* stop in the meantime.                                                   *)
FailedWorkerReplaced ==
  \A j \in Live :
    j \in job_list /\ proc[j] \in {"exit1", "killed"}
      ~> proc[j] \in Running \/ stoping[j] \/ mgr # "up"

(* A non-live job that came to its end of stream is removed.               *)
EosRemoved ==
  \A j \in Jobs \ Live :
    j \in job_list /\ proc[j] = "running" /\ enc_eos[j]
      ~> j \notin job_list \/ (stoping[j] /\ ~eos[j]) \/ stop \/ mgr # "up"

(* A restart that could not create a process is tried again.               *)
FailedRestartRetried ==
  \A j \in Live : Workerless(j) ~> proc[j] \in Running \/ mgr # "up"

(* When the manager exits, the only live worker it can leave behind, one   *)
(* that failed to start and is about to exit apart, is that of a job the   *)
(* management thread is starting at that moment.                           *)
ShutdownWaitsForListed ==
  mgr = "exited" => \A j \in Live : proc[j] \in Running \ {"failing"} => Creating(j)
=============================================================================
