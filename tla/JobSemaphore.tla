---------------------------- MODULE JobSemaphore ----------------------------
(***************************************************************************)
(* The semaphore that guards the output of one live job (the encoders'     *)
(* cache rings and counters in shared memory), the mutex job->access_mutex *)
(* beside it, and what happens to both when the worker process dies inside *)
(* a critical section (src/src/job.c, encoder.c, gstreamill.c,             *)
(* httpstreaming.c).                                                       *)
(*                                                                         *)
(* Three kinds of threads take the semaphore.  Encoders are the streaming  *)
(* threads of the worker process; they die with it.  Lockers are manager   *)
(* threads that hold access_mutex meanwhile (msg_thread, job_check_func,   *)
(* gstreamill_job_stat).  Readers are manager threads that do not          *)
(* (clean_job_list, and the HTTP threads in is_encoder_output_ready,       *)
(* get_mpeg2ts_segment and send_chunk).  child_watch_cb, run by the main   *)
(* loop, holds access_mutex from its first to its last line.               *)
(***************************************************************************)
EXTENDS Naturals

CONSTANTS
  Encoders, Lockers, Readers,  (* see above                                  *)
  Main,     (* the main loop, as a holder of access_mutex                    *)
  Nobody,   (* access_mutex is free                                          *)
  MaxAge    (* bound: the worker is restarted at most this many times        *)

Threads == Encoders \cup Lockers \cup Readers

ASSUME ThreadsAssumption ==
  /\ Encoders \cap Lockers = {} /\ Encoders \cap Readers = {} /\ Lockers \cap Readers = {}
  /\ {Main, Nobody} \cap Threads = {} /\ Main # Nobody
  /\ MaxAge \in Nat

VARIABLES
  sval,         (* value of the semaphore                                    *)
  access_mutex, (* its holder                                                *)
  pc,           (* of every thread in Threads                                *)
  boot,         (* the worker's main thread: "attach" in job_initialize,     *)
                (* "ready" in job_encoders_output_initialize, each with its  *)
                (* critical section, then "up"; "dead" once it has ended     *)
  main,         (* the main loop                                             *)
  age,          (* restarts                                                  *)
  handed        (* history: job_reset found the semaphore taken by a reader, *)
                (* who is alive, and posts it all the same                   *)

vars == <<sval, access_mutex, pc, boot, main, age, handed>>

Up == boot \notin {"dead"}

(* Who is between sem_timedwait and sem_post.                              *)
InOutput(t) == pc[t] = "cs"
Booting     == boot \in {"attach_cs", "ready_cs"}

Init ==
  /\ sval = 1 /\ access_mutex = Nobody /\ age = 0 /\ handed = FALSE
  /\ pc = [t \in Threads |-> "idle"]
  /\ boot = "up" /\ main = "idle"

Goto(t, label) == pc' = [pc EXCEPT ![t] = label]

-----------------------------------------------------------------------------
(* sem_timedwait and sem_post around a critical section.                   *)

Take(t) ==
  /\ pc[t] = "wait" /\ sval > 0
  /\ sval' = sval - 1
  /\ Goto(t, "cs")
  /\ UNCHANGED <<access_mutex, boot, main, age, handed>>

(* After the timeout the caller skips its work, and does not post.         *)
Timeout(t) ==
  /\ pc[t] = "wait" /\ sval = 0
  /\ Goto(t, IF t \in Lockers THEN "unlock" ELSE "idle")
  /\ UNCHANGED <<sval, access_mutex, boot, main, age, handed>>

Post(t) ==
  /\ pc[t] = "cs"
  /\ sval' = sval + 1
  /\ Goto(t, IF t \in Lockers THEN "unlock" ELSE "idle")
  /\ UNCHANGED <<access_mutex, boot, main, age, handed>>

(* new_sample_callback, or a reader's call, begins.                        *)
Enter(t) ==
  /\ pc[t] = "idle" /\ t \notin Lockers /\ (t \in Encoders => boot = "up")
  /\ Goto(t, "wait")
  /\ UNCHANGED <<sval, access_mutex, boot, main, age, handed>>

(* msg_thread, job_check_func or gstreamill_job_stat has access_mutex.     *)
Lock(t) ==
  /\ pc[t] = "idle" /\ t \in Lockers /\ access_mutex = Nobody
  /\ access_mutex' = t
  /\ Goto(t, "wait")
  /\ UNCHANGED <<sval, boot, main, age, handed>>

Unlock(t) ==
  /\ pc[t] = "unlock"
  /\ access_mutex' = Nobody
  /\ Goto(t, "idle")
  /\ UNCHANGED <<sval, boot, main, age, handed>>

-----------------------------------------------------------------------------
(* The worker process.                                                     *)

(* The critical sections of job_initialize and of                          *)
(* job_encoders_output_initialize.                                         *)
BootTake ==
  /\ boot \in {"attach", "ready"} /\ sval > 0
  /\ sval' = sval - 1
  /\ boot' = IF boot = "attach" THEN "attach_cs" ELSE "ready_cs"
  /\ UNCHANGED <<access_mutex, pc, main, age, handed>>

BootPost ==
  /\ boot \in {"attach_cs", "ready_cs"}
  /\ sval' = sval + 1
  /\ boot' = IF boot = "attach_cs" THEN "ready" ELSE "up"
  /\ UNCHANGED <<access_mutex, pc, main, age, handed>>

(* The process ends, in or out of a critical section: it crashes, is       *)
(* killed, or exits because a wait timed out.                              *)
WorkerDies ==
  /\ Up /\ age < MaxAge
  /\ boot' = "dead"
  /\ pc' = [t \in Threads |-> IF t \in Encoders THEN "idle" ELSE pc[t]]
  /\ UNCHANGED <<sval, access_mutex, main, age, handed>>

-----------------------------------------------------------------------------
(* The main loop: child_watch_cb, job_reset and create_job_process.        *)

(* Mutant: child_watch_cb does not take access_mutex.                      *)
MainLockNot ==
  /\ main = "idle" /\ boot = "dead"
  /\ main' = "reset"
  /\ UNCHANGED <<sval, access_mutex, pc, boot, age, handed>>

MainLock ==
  /\ main = "idle" /\ boot = "dead" /\ access_mutex = Nobody
  /\ access_mutex' = Main
  /\ main' = "reset"
  /\ UNCHANGED <<sval, pc, boot, age, handed>>

(* The job is over, not restarted: child_watch_cb only records it.         *)
MainStoped ==
  /\ main = "reset"
  /\ access_mutex' = Nobody
  /\ main' = "stoped"
  /\ UNCHANGED <<sval, pc, boot, age, handed>>

(* Mutant: job_reset trusts the dead worker to have posted.                *)
MainNoGetValue ==
  /\ main = "reset"
  /\ main' = "spawn"
  /\ UNCHANGED <<sval, access_mutex, pc, boot, age, handed>>

(* job_reset: sem_getvalue ...                                             *)
MainGetValue ==
  /\ main = "reset"
  /\ main' = IF sval = 0 THEN "post" ELSE "spawn"
  /\ handed' = (handed \/ (sval = 0 /\ \E t \in Readers : InOutput(t)))
  /\ UNCHANGED <<sval, access_mutex, pc, boot, age>>

(* ... and sem_post for the worker that is thought to hold it.             *)
MainPost ==
  /\ main = "post"
  /\ sval' = sval + 1
  /\ main' = "spawn"
  /\ UNCHANGED <<access_mutex, pc, boot, age, handed>>

MainSpawn ==
  /\ main = "spawn"
  /\ boot' = "attach" /\ age' = age + 1
  /\ main' = "wait"
  /\ UNCHANGED <<sval, access_mutex, pc, handed>>

(* create_job_process waits for the worker to play or to end.              *)
MainUnlock ==
  /\ main = "wait" /\ boot \in {"up", "dead"}
  /\ access_mutex' = Nobody
  /\ main' = "idle"
  /\ UNCHANGED <<sval, pc, boot, age, handed>>

-----------------------------------------------------------------------------
Call(t)  == Take(t) \/ Timeout(t) \/ Post(t) \/ Unlock(t)
Worker   == BootTake \/ BootPost
MainLoop == MainGetValue \/ MainPost \/ MainSpawn \/ MainUnlock

Next ==
  \/ \E t \in Threads : Enter(t) \/ Lock(t) \/ Call(t)
  \/ Worker \/ WorkerDies
  \/ MainLock \/ MainStoped \/ MainLoop

Spec == Init /\ [][Next]_vars

-----------------------------------------------------------------------------
Labels == {"idle", "wait", "cs", "unlock"}

(* Every variable has its type.                                            *)
TypeOK ==
  /\ sval \in Nat
  /\ access_mutex \in Lockers \cup {Main, Nobody}
  /\ pc \in [Threads -> Labels]
  /\ boot \in {"attach", "attach_cs", "ready", "ready_cs", "up", "dead"}
  /\ main \in {"idle", "reset", "post", "spawn", "wait", "stoped"}
  /\ age \in Nat
  /\ handed \in BOOLEAN

(* Access to the job's output is exclusive (job.h).                        *)
OutputExclusive ==
  /\ \A t, u \in Threads : InOutput(t) /\ InOutput(u) => t = u
  /\ ~(Booting /\ \E t \in Threads : InOutput(t))

(* Nobody but job_reset breaks it, and only for readers, the threads that  *)
(* take the semaphore without access_mutex: until it has posted while one  *)
(* of them was using the output, access stays exclusive, whatever dies in  *)
(* or out of a critical section.                                           *)
ExclusiveUntilHanded == ~handed => OutputExclusive

(* A running worker is never locked out of its own output: the semaphore   *)
(* is free, or somebody alive holds it and will post.                      *)
WorkerNotLockedOut ==
  Up => sval > 0 \/ Booting \/ \E t \in Threads : InOutput(t)

=============================================================================
