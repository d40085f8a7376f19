----------------------------- MODULE HealthCheck -----------------------------
(***************************************************************************)
(* The watch the manager keeps over one job (job_check_func, gstreamill.c):*)
(* heartbeats the worker leaves in shared memory as samples pass, and the  *)
(* drift between its source streams; a worker found silent or out of sync  *)
(* is killed and the job started again. JobLifecycle lets the check kill   *)
(* at any time; this module says when it does.                             *)
(*                                                                         *)
(* A tick is the two seconds between two checks. One source stream, one    *)
(* encoder stream and one encoder output beat in every tick in which they  *)
(* flow. The drift of the source streams is either in bounds or not. Names  *)
(* begin with HC where JobSemaphore, the other part of WorkerProofs, has    *)
(* the same.                                                               *)
(***************************************************************************)
EXTENDS Integers

CONSTANTS
    Threshold,      \* HEARTBEAT_THRESHHOLD, in ticks
    NonliveThreshold,   \* NONLIVE_HEARTBEAT_THRESHHOLD
    OutputThreshold,    \* ENCODER_OUTPUT_HEARTBEAT_THRESHHOLD
    StartTicks,     \* bound: the ticks a worker may take to start
    MaxStarts       \* bound: workers of a run

ASSUME HealthAssumption ==
    /\ {Threshold, NonliveThreshold, OutputThreshold, StartTicks, MaxStarts} \subseteq Nat \ {0}

VARIABLES
    live,       \* job->is_live
    worker,     \* the worker: init, ready, started (pipelines play), playing, or
                \* zombie and dead: ended, with the state PLAYING or another
    starts,     \* workers started
    flows,      \* what flows in the worker: source, encoder, output
    beat,       \* ticks since the heartbeat of each, in shared memory
    silent,     \* history: ticks since each last beat in this worker
    synced,     \* the source streams are within SYNC_THRESHHOLD of each other
    errors,     \* sync_error_times, in the manager
    found,      \* history: the checks in a row that found this worker out of sync
    checkDue    \* the clock of the monitor has fired

hcVars == <<live, worker, starts, flows, beat, silent, synced, errors, found, checkDue>>

Flows == {"source", "encoder", "output"}
Limit == [f \in Flows |-> IF f = "output" THEN OutputThreshold
                          ELSE IF live THEN Threshold ELSE NonliveThreshold]
Greater(m, n) == IF m > n THEN m ELSE n
Oldest == Greater(Threshold, Greater(NonliveThreshold, OutputThreshold))
Older(n) == IF n > Oldest THEN n ELSE n + 1
Runs == worker \in {"started", "playing"}
Starting == worker \in {"init", "ready", "started"}

-----------------------------------------------------------------------------
(* A job has just been created; its shared memory is new: the heartbeats of *)
(* the encoder streams have never been written.                            *)
HCInit ==
    /\ live \in BOOLEAN
    /\ worker = "init" /\ starts = 1 /\ flows = Flows
    /\ beat = [f \in Flows |-> IF f = "source" THEN 0 ELSE Oldest + 1]
    /\ silent = [f \in Flows |-> 0]
    /\ synced \in BOOLEAN /\ errors = 0 /\ found = 0 /\ checkDue = FALSE

(* Two seconds pass: what flows beats. A live source stays in sync or not. *)
Tick ==
    /\ ~checkDue /\ checkDue' = TRUE
    /\ Starting => silent["source"] < StartTicks
    /\ LET aged(n, f) == IF Runs /\ f \in flows THEN 0 ELSE Older(n)
       IN /\ beat' = [f \in Flows |-> aged(beat[f], f)]
          /\ silent' = [f \in Flows |-> aged(silent[f], f)]
    /\ UNCHANGED <<live, worker, starts, flows, synced, errors, found>>

(* A part of the pipelines hangs; it does not come back in this worker.    *)
Hang(f) ==
    /\ Runs /\ f \in flows
    /\ flows' = flows \ {f}
    /\ UNCHANGED <<live, worker, starts, beat, silent, synced, errors, found, checkDue>>

(* The source streams drift apart, or meet again.                          *)
Drift ==
    /\ Runs
    /\ synced' = ~synced
    /\ UNCHANGED <<live, worker, starts, flows, beat, silent, errors, found, checkDue>>

-----------------------------------------------------------------------------
(* The worker: job_encoders_output_initialize, the pipelines of job_start,  *)
(* and its last line.                                                      *)
Ready ==
    /\ worker = "init"
    /\ worker' = "ready" /\ beat' = [beat EXCEPT !["output"] = 0]
    /\ UNCHANGED <<live, starts, flows, silent, synced, errors, found, checkDue>>

Started ==
    /\ worker = "ready"
    /\ worker' = "started"
    /\ UNCHANGED <<live, starts, flows, beat, silent, synced, errors, found, checkDue>>

Playing ==
    /\ worker = "started"
    /\ worker' = "playing"
    /\ UNCHANGED <<live, starts, flows, beat, silent, synced, errors, found, checkDue>>

(* The worker ends by itself: an error of a pipeline makes bus_callback     *)
(* exit with 101, or it crashes.                                            *)
Crash ==
    /\ Starting \/ worker = "playing"
    /\ starts < MaxStarts
    /\ worker' = IF worker = "playing" THEN "zombie" ELSE "dead"
    /\ UNCHANGED <<live, starts, flows, beat, silent, synced, errors, found, checkDue>>

Restarted(sourceBeat) ==
    /\ live /\ worker \in {"dead", "zombie"}
    /\ worker' = "init" /\ starts' = IF starts < MaxStarts THEN starts + 1 ELSE starts
    /\ flows' = Flows
    /\ beat' = [beat EXCEPT !["source"] = sourceBeat]
    /\ silent' = [f \in Flows |-> 0] /\ found' = 0
    /\ UNCHANGED <<live, synced, errors, checkDue>>

(* Mutant: the new worker finds the old heartbeat of its source.           *)
RestartOld == Restarted(beat["source"])

(* child_watch_cb starts a live job again: job_reset, and the new worker sets  *)
(* the heartbeats of the source in job_output_initialize. sync_error_times  *)
(* and the heartbeats of the encoder streams stay as they are.             *)
Restart == Restarted(0)

(* A job that is not live is STOPED.                                       *)
Reap ==
    /\ ~live /\ worker = "zombie"
    /\ worker' = "dead"
    /\ UNCHANGED <<live, starts, flows, beat, silent, synced, errors, found, checkDue>>

-----------------------------------------------------------------------------
(* The checks. Each kills the worker with SIGKILL.                         *)
SourceSilent == beat["source"] > Limit["source"]

(* Mutant: the heartbeats of the encoders are not looked at.               *)
EncodersIgnored == FALSE

(* encoders_check: of a live job alone.                                    *)
EncodersSilent ==
    live /\ (beat["encoder"] > Limit["encoder"] \/ beat["output"] > Limit["output"])

(* sync_check, of a live job: the errors in a row, where four stands for    *)
(* any number above three, and the one at which the worker is killed       *)
(* (source.h:54 says that it is the fifth).                                *)
Counted(n) == IF ~live THEN n ELSE IF synced THEN 0 ELSE IF n > 3 THEN 4 ELSE n + 1
SyncErrors == Counted(errors)

(* Mutant: it is the jobs that are not live that are killed.               *)
OutOfSyncNonlive == ~live /\ ~synced /\ SyncErrors = 3

OutOfSync == live /\ ~synced /\ SyncErrors = 3

(* A worker that has ended is checked as long as it is not reaped.         *)
Check ==
    /\ checkDue /\ worker \in {"playing", "zombie"}
    /\ checkDue' = FALSE
    /\ errors' = SyncErrors /\ found' = Counted(found)
    /\ worker' = IF SourceSilent \/ EncodersSilent \/ OutOfSync THEN "zombie" ELSE worker
    /\ UNCHANGED <<live, starts, flows, beat, silent, synced>>

(* The check returns early: the worker does not play, its access_mutex or   *)
(* semaphore is held, or /proc has no such process.                        *)
Skip ==
    /\ checkDue
    /\ checkDue' = FALSE
    /\ UNCHANGED <<live, worker, starts, flows, beat, silent, synced, errors, found>>

HCNext ==
    \/ Tick
    \/ \E f \in Flows : Hang(f)
    \/ Drift
    \/ Ready \/ Started \/ Playing
    \/ Crash
    \/ Restart \/ Reap
    \/ Check
    \/ Skip

(* Time goes on, a worker gets to its end of job_start, and one that ended  *)
(* is started again. A check may be skipped, when a start or a reader holds *)
(* what it needs, but not for ever.                                        *)
HCFairness ==
    /\ WF_hcVars(Tick) /\ WF_hcVars(Ready) /\ WF_hcVars(Started) /\ WF_hcVars(Playing)
    /\ WF_hcVars(Restart) /\ WF_hcVars(Reap) /\ WF_hcVars(Skip) /\ SF_hcVars(Check)

HCSpec == HCInit /\ [][HCNext]_hcVars /\ HCFairness

-----------------------------------------------------------------------------
(* Properties.                                                             *)
HCTypeOK ==
    /\ live \in BOOLEAN /\ synced \in BOOLEAN /\ checkDue \in BOOLEAN
    /\ worker \in {"init", "ready", "started", "playing", "zombie", "dead"}
    /\ starts \in 1..MaxStarts /\ errors \in 0..4 /\ found \in 0..errors
    /\ flows \subseteq Flows
    /\ beat \in [Flows -> 0..(Oldest + 1)] /\ silent \in [Flows -> 0..(Oldest + 1)]

(* The check ends a worker for what this worker did (gstreamill.c:391, 446, *)
(* 468, 506): something of it has been silent for too long, or this is the  *)
(* third check in a row that finds it out of sync (the third, though       *)
(* source.h:54 says the fifth). Or it is held against it what came before,  *)
(* as nothing sets that anew: fewer than three such checks of its own,      *)
(* which count on from those of the worker before; or, until its encoders   *)
(* ask for their first sample, their old heartbeats or none (encoder.c:436, *)
(* job.c:416).                                                             *)
KilledForReason ==
    [][worker = "playing" /\ worker' = "zombie" /\ checkDue /\ ~checkDue' =>
        \/ \E f \in Flows : (live \/ f = "source") /\ silent[f] > Limit[f]
        \/ live /\ ~synced /\ found = 2
        \/ live /\ ~synced /\ errors = 2 /\ found < errors
        \/ live /\ silent["encoder"] < beat["encoder"]]_hcVars

(* A live worker of which a part hangs does not go on for ever, nor one     *)
(* that is not live when its source hangs (gstreamill.c:435).              *)
StalledReplaced ==
    \A f \in Flows :
        worker = "playing" /\ f \notin flows /\ (live \/ f = "source") ~> worker # "playing"

(* Nor does a live worker out of sync (gstreamill.c:508), while the count   *)
(* of errors is below three: nothing sets it back when the worker is       *)
(* killed at three, so a new worker that is still out of sync is left so.  *)
UnsyncedReplaced ==
    live /\ worker = "playing" /\ ~synced /\ errors < 3 ~> worker # "playing" \/ synced

=============================================================================
