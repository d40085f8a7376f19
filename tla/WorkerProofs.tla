---------------------------- MODULE WorkerProofs ----------------------------
(***************************************************************************)
(* A live job and its worker: who may use the output at a time             *)
(* (JobSemaphore), and when the monitor ends the worker (HealthCheck).     *)
(*                                                                         *)
(* Whatever dies in a critical section, access to the output is exclusive  *)
(* until job_reset posts a semaphore that a living reader has taken, and a *)
(* worker that runs can always get its output, for any number of encoders, *)
(* of manager threads with and without access_mutex, and of restarts. For  *)
(* all thresholds the monitor has a reason for each worker it kills.       *)
(***************************************************************************)
EXTENDS JobSemaphore, HealthCheck, TLAPS

(* Until it is posted under a reader, the semaphore is binary, and a unit  *)
(* in it means that nobody is inside.                                      *)
Binary ==
  ~handed => /\ sval \in 0..1
             /\ sval = 1 => ~Booting /\ \A t \in Threads : ~InOutput(t)

(* access_mutex is held by child_watch_cb for its whole run, and by a      *)
(* locker from Lock to Unlock.                                             *)
Mutex ==
  /\ main \in {"reset", "post", "spawn", "wait"} <=> access_mutex = Main
  /\ \A t \in Lockers : pc[t] # "idle" <=> access_mutex = t
  /\ \A t \in Threads \ Lockers : pc[t] # "unlock"

(* The encoders run only in a worker that is up, and the worker that       *)
(* child_watch_cb is called for is dead until it makes a new one.          *)
Workers ==
  /\ boot # "up" => \A t \in Encoders : pc[t] = "idle"
  /\ main \in {"reset", "post", "spawn", "stoped"} => boot = "dead"

(* Where job_reset is about to post under no reader, nobody is inside: the *)
(* lockers wait for access_mutex and the encoders are dead.                *)
Reset ==
  main = "post" /\ ~handed =>
    /\ sval = 0 /\ ~Booting
    /\ \A t \in Threads : ~InOutput(t)

(* Somebody can still post, from the moment job_reset has done its part.   *)
NotLost ==
  Up \/ main = "spawn" => sval > 0 \/ Booting \/ \E t \in Threads : InOutput(t)

IInv == TypeOK /\ Binary /\ ExclusiveUntilHanded /\ Mutex /\ Workers /\ Reset /\ NotLost

-----------------------------------------------------------------------------
(* In the initial state the semaphore is free.                             *)
LEMMA InitInv == Init => IInv
<1> SUFFICES ASSUME Init PROVE IInv
  OBVIOUS
<1> USE ThreadsAssumption DEF Init, Threads, InOutput, Booting, Up
<1>1. TypeOK
  <2>1. handed \in BOOLEAN
    BY Zenon
  <2> QED
    BY <2>1 DEF TypeOK, Labels
<1>2. Binary /\ ExclusiveUntilHanded /\ NotLost /\ Reset
  BY DEF Binary, OutputExclusive, ExclusiveUntilHanded, NotLost, Reset
<1>3. Mutex /\ Workers
  BY DEF Mutex, Workers
<1> QED
  BY <1>1, <1>2, <1>3 DEF IInv

(* While child_watch_cb resets the semaphore only readers can be inside.   *)
LEMMA OnlyReaders ==
  ASSUME IInv, main \in {"reset", "post"}
  PROVE  ~Booting /\ \A t \in Threads : InOutput(t) => t \in Readers
  BY ThreadsAssumption DEF IInv, Mutex, Workers, Threads, InOutput, Booting

(* Every step of Next keeps the invariant.                                 *)
LEMMA StepInv ==
  ASSUME IInv, [Next]_vars
  PROVE  IInv'
<1> USE ThreadsAssumption DEF IInv, TypeOK, Labels, Goto
<1> Threads = Encoders \cup Lockers \cup Readers
  BY DEF Threads
<1>1. ASSUME NEW t \in Threads, Take(t) PROVE IInv'
  BY <1>1 DEF Take, Binary, OutputExclusive, ExclusiveUntilHanded, Mutex, Workers, Reset, NotLost,
              InOutput, Booting, Up
<1>2. ASSUME NEW t \in Threads, Timeout(t) PROVE IInv'
  BY <1>2 DEF Timeout, Binary, OutputExclusive, ExclusiveUntilHanded, Mutex, Workers, Reset, NotLost,
              InOutput, Booting, Up
<1>3. ASSUME NEW t \in Threads, Post(t) PROVE IInv'
  BY <1>3 DEF Post, Binary, OutputExclusive, ExclusiveUntilHanded, Mutex, Workers, Reset, NotLost,
              InOutput, Booting, Up
<1>4. ASSUME NEW t \in Threads, Enter(t) PROVE IInv'
  BY <1>4 DEF Enter, Binary, OutputExclusive, ExclusiveUntilHanded, Mutex, Workers, Reset, NotLost,
              InOutput, Booting, Up
<1>5. ASSUME NEW t \in Threads, Lock(t) PROVE IInv'
  BY <1>5 DEF Lock, Binary, OutputExclusive, ExclusiveUntilHanded, Mutex, Workers, Reset, NotLost,
              InOutput, Booting, Up
<1>6. ASSUME NEW t \in Threads, Unlock(t) PROVE IInv'
  BY <1>6 DEF Unlock, Binary, OutputExclusive, ExclusiveUntilHanded, Mutex, Workers, Reset, NotLost,
              InOutput, Booting, Up
<1>7. CASE BootTake \/ BootPost
  BY <1>7 DEF BootTake, BootPost, Binary, OutputExclusive, ExclusiveUntilHanded, Mutex, Workers, Reset, NotLost,
              InOutput, Booting, Up
<1>8. CASE WorkerDies
  BY <1>8 DEF WorkerDies, Binary, OutputExclusive, ExclusiveUntilHanded, Mutex, Workers, Reset, NotLost,
              InOutput, Booting, Up
<1>9. CASE MainLock \/ MainStoped \/ MainSpawn \/ MainUnlock
  BY <1>9 DEF MainLock, MainStoped, MainSpawn, MainUnlock, Binary, OutputExclusive, ExclusiveUntilHanded, Mutex, Workers, Reset, NotLost,
              InOutput, Booting, Up
<1>10. CASE MainGetValue
  <2>1. ~Booting /\ \A t \in Threads : InOutput(t) => t \in Readers
    BY <1>10, OnlyReaders DEF MainGetValue
  <2>2. /\ UNCHANGED <<sval, access_mutex, pc, boot, age>>
        /\ main = "reset" /\ main' = IF sval = 0 THEN "post" ELSE "spawn"
    BY <1>10 DEF MainGetValue
  <2>3. handed' \in BOOLEAN /\ (~handed' => ~handed)
    BY <1>10, Zenon DEF MainGetValue
  <2>4. ~handed' /\ sval = 0 => \A t \in Threads : ~InOutput(t)
    BY <1>10, <2>1, Zenon DEF MainGetValue
  <2>5. TypeOK'
    BY <2>2, <2>3
  <2>6. Binary' /\ ExclusiveUntilHanded' /\ Mutex' /\ Workers'
    BY <2>2, <2>3 DEF Binary, OutputExclusive, ExclusiveUntilHanded, Mutex, Workers, InOutput,
                      Booting
  <2>7. Reset' /\ NotLost'
    BY <2>1, <2>2, <2>4 DEF Reset, NotLost, InOutput, Booting, Up
  <2> QED
    BY <2>5, <2>6, <2>7
<1>11. CASE MainPost
  BY <1>11 DEF MainPost, Binary, OutputExclusive, ExclusiveUntilHanded, Mutex, Workers, Reset, NotLost,
               InOutput, Booting, Up
<1>12. CASE UNCHANGED vars
  BY <1>12 DEF vars, Binary, OutputExclusive, ExclusiveUntilHanded, Mutex, Workers, Reset, NotLost,
               InOutput, Booting, Up
<1> QED
  BY <1>1, <1>2, <1>3, <1>4, <1>5, <1>6, <1>7, <1>8, <1>9, <1>10, <1>11, <1>12
  DEF Next, Call, Worker, MainLoop

(* The output of a job is accessed by one process or thread at a time      *)
(* (job.h:45), until job_reset posts the semaphore while a reader has it   *)
(* (job.c:711); with no assumption on who the readers are.                 *)
THEOREM ExclusiveUntilReset == Spec => []ExclusiveUntilHanded
<1>1. IInv /\ [Next]_vars => IInv'
  BY StepInv
<1>2. IInv => ExclusiveUntilHanded
  BY DEF IInv
<1> QED
  BY InitInv, <1>1, <1>2, PTL DEF Spec

(* A worker that runs can always get its own output, now or after a post:  *)
(* also where readers are inside when the semaphore is reset.              *)
THEOREM NotLockedOut == Spec => []WorkerNotLockedOut
<1>1. IInv /\ [Next]_vars => IInv'
  BY StepInv
<1>2. IInv => WorkerNotLockedOut
  BY DEF IInv, NotLost, WorkerNotLockedOut
<1> QED
  BY InitInv, <1>1, <1>2, PTL DEF Spec
-----------------------------------------------------------------------------
(* The monitor's watch over the worker.                                    *)
Ages == 0..(Oldest + 1)

(* What relates the heartbeats in shared memory to what this worker did:   *)
(* the source's are its own, the output's are once it is ready, and those   *)
(* of the encoder streams are not younger than its own.                    *)
HealthInv ==
    /\ HCTypeOK
    /\ beat["source"] = silent["source"]
    /\ worker \in {"ready", "started", "playing"} => beat["output"] <= silent["output"]
    /\ silent["encoder"] <= beat["encoder"]

(* Ages of heartbeats are numbers.                                         *)
LEMMA OldestNat == Oldest \in Nat
  BY HealthAssumption DEF Oldest, Greater

(* A heartbeat that grows older stays in bounds, and two keep their order. *)
LEMMA OlderBounds ==
  ASSUME NEW m \in Ages, NEW n \in Ages
  PROVE /\ Older(n) \in Ages
        /\ m <= n => Older(m) <= Older(n)
  BY OldestNat DEF Older, Ages

(* At the start the worker has been silent for no time.                    *)
LEMMA HealthInit ==
  ASSUME HCInit
  PROVE  HealthInv
<1>1. MaxStarts \in Nat /\ MaxStarts >= 1
  BY HealthAssumption
<1>2. 0 \in Ages /\ Oldest + 1 \in Ages
  BY OldestNat DEF Ages
<1>3. beat \in [Flows -> Ages] /\ silent \in [Flows -> Ages]
  BY <1>2 DEF HCInit
<1>4. starts \in 1..MaxStarts /\ errors \in 0..4 /\ found \in 0..errors
  BY <1>1 DEF HCInit
<1>5. HCTypeOK
  BY <1>3, <1>4 DEF HCInit, HCTypeOK, Ages
<1> QED
  BY <1>5, OldestNat DEF HCInit, HealthInv, Flows

(* Time passes for what does not flow.                                     *)
LEMMA TickInv ==
  ASSUME HealthInv, Tick
  PROVE HealthInv'
<1> DEFINE Aged(n, f) == IF Runs /\ f \in flows THEN 0 ELSE Older(n)
<1>1. /\ beat' = [f \in Flows |-> Aged(beat[f], f)]
      /\ silent' = [f \in Flows |-> Aged(silent[f], f)]
      /\ UNCHANGED <<live, worker, starts, flows, synced, errors, found>>
      /\ checkDue' = TRUE
  BY DEF Tick
<1>2. beat \in [Flows -> Ages] /\ silent \in [Flows -> Ages]
  BY DEF HealthInv, HCTypeOK, Ages
<1>3. \A f \in Flows : Aged(beat[f], f) \in Ages /\ Aged(silent[f], f) \in Ages
  BY <1>2, OlderBounds, OldestNat DEF Ages
<1>4. beat' \in [Flows -> Ages] /\ silent' \in [Flows -> Ages]
  BY <1>1, <1>3
<1>5. HCTypeOK'
  BY <1>1, <1>4 DEF HealthInv, HCTypeOK, Ages
<1>6. /\ {"source", "encoder", "output"} \subseteq Flows
      /\ \A f \in Flows : beat'[f] = Aged(beat[f], f) /\ silent'[f] = Aged(silent[f], f)
  BY <1>1 DEF Flows
<1>7. beat'["source"] = silent'["source"]
  BY <1>6 DEF HealthInv
<1>8. silent'["encoder"] <= beat'["encoder"]
  BY <1>2, <1>6, OlderBounds DEF HealthInv
<1>9. worker' \in {"ready", "started", "playing"} => beat'["output"] <= silent'["output"]
  BY <1>1, <1>2, <1>6, OlderBounds DEF HealthInv
<1> QED
  BY <1>5, <1>7, <1>8, <1>9 DEF HealthInv

(* Every step of HCNext keeps the invariant.                          *)
LEMMA HealthStep ==
  ASSUME HealthInv, [HCNext]_hcVars
  PROVE HealthInv'
<1>1. CASE Tick
  BY <1>1, TickInv
<1> USE OldestNat DEF HealthInv, HCTypeOK, Flows
<1>2. ASSUME NEW f \in Flows, Hang(f) PROVE HealthInv'
  BY <1>2 DEF Hang
<1>3. CASE Drift
  BY <1>3 DEF Drift
<1>4. CASE Ready
  BY <1>4 DEF Ready
<1>5. CASE Started
  BY <1>5 DEF Started
<1>6. CASE Playing
  BY <1>6 DEF Playing
<1>7. CASE Crash
  BY <1>7 DEF Crash
<1>8. CASE Restart
  BY <1>8, HealthAssumption DEF Restart, Restarted
<1>9. CASE Check
  <2>1. SyncErrors \in 0..4 /\ Counted(found) \in 0..SyncErrors
    BY DEF SyncErrors, Counted
  <2>2. QED
    BY <1>9, <2>1 DEF Check
<1>10. CASE Skip \/ Reap
  BY <1>10 DEF Skip, Reap
<1>11. CASE UNCHANGED hcVars
  BY <1>11 DEF hcVars
<1> QED
  BY <1>1, <1>2, <1>3, <1>4, <1>5, <1>6, <1>7, <1>8, <1>9, <1>10, <1>11 DEF HCNext

(* The types hold of every state, whatever the thresholds and the bounds    *)
(* (job_check_func, gstreamill.c:520).                                     *)
THEOREM TypesHold == HCSpec => []HCTypeOK
<1>1. HCInit => HealthInv
  BY HealthInit
<1>2. HealthInv /\ [HCNext]_hcVars => HealthInv'
  BY HealthStep
<1>3. HealthInv => HCTypeOK
  BY DEF HealthInv
<1> QED
  BY <1>1, <1>2, <1>3, PTL DEF HCSpec

Reason ==
    \/ \E f \in Flows : (live \/ f = "source") /\ silent[f] > Limit[f]
    \/ live /\ ~synced /\ found = 2
    \/ live /\ ~synced /\ errors = 2 /\ found < errors
    \/ live /\ silent["encoder"] < beat["encoder"]

(* Only Check takes the monitor's tick and ends a worker.                   *)
LEMMA KillHasReason ==
  ASSUME HealthInv, HCNext, worker = "playing", worker' = "zombie", checkDue, ~checkDue'
  PROVE Reason
<1>1. Check
  BY DEF HCNext, Tick, Hang, Drift, Ready, Started, Playing, Crash, Restart, Restarted, Reap, Skip
<1>2. SourceSilent \/ EncodersSilent \/ OutOfSync
  BY <1>1 DEF Check
<1>3. CASE SourceSilent
  BY <1>3 DEF SourceSilent, HealthInv, Reason, Flows
<1>4. CASE EncodersSilent
  <2>1. live /\ (beat["encoder"] > Limit["encoder"] \/ beat["output"] > Limit["output"])
    BY <1>4 DEF EncodersSilent
  <2>2. /\ beat["output"] <= silent["output"] /\ silent["encoder"] <= beat["encoder"]
        /\ \A f \in Flows : beat[f] \in Int /\ silent[f] \in Int
    BY OldestNat DEF HealthInv, HCTypeOK
  <2>3. \A f \in Flows : Limit[f] \in Int
    BY HealthAssumption DEF Limit
  <2>4. QED
    BY <2>1, <2>2, <2>3 DEF Reason, Flows
<1>5. CASE OutOfSync
  BY <1>5 DEF OutOfSync, SyncErrors, Counted, HealthInv, HCTypeOK, Reason
<1> QED
  BY <1>2, <1>3, <1>4, <1>5

(* A check ends a worker only for what the worker did, or for what it       *)
(* finds left by the worker before it: counted sync errors, and heartbeats  *)
(* of encoders that have not begun (gstreamill.c:391, 446, 506).            *)
THEOREM KillsForReason == HCSpec => KilledForReason
<1>1. HCInit => HealthInv
  BY HealthInit
<1>2. HealthInv /\ [HCNext]_hcVars => HealthInv'
  BY HealthStep
<1>3. HealthInv /\ [HCNext]_hcVars =>
        [worker = "playing" /\ worker' = "zombie" /\ checkDue /\ ~checkDue' => Reason]_hcVars
  BY KillHasReason DEF hcVars
<1> QED
  BY <1>1, <1>2, <1>3, PTL DEF HCSpec, KilledForReason, Reason

=============================================================================
