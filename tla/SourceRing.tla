----------------------------- MODULE SourceRing -----------------------------
(***************************************************************************)
(* The ring of samples between one stream of the source pipeline and the   *)
(* encoder streams it feeds, inside a worker process: new_sample_callback  *)
(* and eos_callback (src/src/source.c) on the appsink's thread,            *)
(* need_data_callback (src/src/encoder.c) on a thread of each appsrc.      *)
(* There is no lock: the threads meet at two current_position fields and   *)
(* the eos flag, and a step of the model is one access to one of them or   *)
(* to a slot.                                                              *)
(***************************************************************************)
EXTENDS Integers, FiniteSets

CONSTANTS
  Encoders,    (* encoder streams                                            *)
  Size,        (* SOURCE_RING_SIZE                                           *)
  MaxSamples   (* bound: the source delivers at most this many samples       *)

ASSUME RingAssumption ==
  /\ Size \in Nat /\ Size > 1
  /\ MaxSamples \in Nat

VARIABLES
  is_live,     (* stream->is_live                                            *)
  ring,        (* number of the sample in each slot, 0 for none or a freed   *)
  position,    (* stream->current_position of the source, -1 at first        *)
  eos,         (* stream->eos                                                *)
  count,       (* samples delivered to new_sample_callback                   *)
  src,         (* its progress: "idle", "check", "free" or "store"           *)
  todo,        (* encoders it has still to look at                           *)
  enc,         (* progress of need_data_callback: "idle", its reads "wait",  *)
               (* "differs", "equal" and "ending", then "read" and "push";   *)
               (* at last "eos", or "fault" after undefined behaviour        *)
  current,     (* current_position of each encoder stream, -1 at first       *)
  last,        (* number of the sample an encoder took last                  *)
  adrift       (* history: encoders that were out of step when they began    *)

source   == <<position, eos, count, src, todo, ring>>
encoders == <<enc, current, last, adrift>>
vars     == <<is_live, source, encoders>>

Slots == 0..(Size - 1)

Succ(p)  == (p + 1) % Size
Next1(e) == Succ(current[e])

Init ==
  /\ is_live \in BOOLEAN
  /\ ring = [s \in Slots |-> 0]
  /\ position = -1 /\ eos = FALSE /\ count = 0 /\ src = "idle" /\ todo = {}
  /\ enc     = [e \in Encoders |-> "idle"]
  /\ current = [e \in Encoders |-> -1]
  /\ last    = [e \in Encoders |-> 0]
  /\ adrift  = {}

-----------------------------------------------------------------------------
(* new_sample_callback: the next position is published at once ...         *)
Sample ==
  /\ src = "idle" /\ ~eos /\ count < MaxSamples
  /\ position' = Succ(position)
  /\ count' = count + 1
  /\ src' = "check" /\ todo' = Encoders
  /\ UNCHANGED <<is_live, eos, ring, encoders>>

(* The wait is passed for e.  An encoder that has not begun has no         *)
(* position to wait for: when the ring is full, samples are lost to it.    *)
Passed(e) ==
  /\ todo' = todo \ {e}
  /\ adrift' = IF current[e] = -1 /\ count > Size THEN adrift \cup {e} ELSE adrift
  /\ UNCHANGED <<is_live, position, eos, count, src, ring, enc, current, last>>

(* Mutant: nobody waits.                                                   *)
CheckNever(e) == src = "check" /\ e \in todo /\ Passed(e)

(* Mutant: a live stream waits as well.                                    *)
CheckAlways(e) ==
  /\ src = "check" /\ e \in todo
  /\ position # current[e]
  /\ Passed(e)

(* ... then a stream that is not live waits for each encoder that took its *)
(* last sample from that slot ...                                          *)
Check(e) ==
  /\ src = "check" /\ e \in todo
  /\ is_live \/ position # current[e]
  /\ Passed(e)

Checked ==
  /\ src = "check" /\ todo = {}
  /\ src' = "free"
  /\ UNCHANGED <<is_live, position, eos, count, todo, ring, encoders>>

(* ... and replaces what is there.                                         *)
Free ==
  /\ src = "free"
  /\ ring' = [ring EXCEPT ![position] = 0]
  /\ src' = "store"
  /\ UNCHANGED <<is_live, position, eos, count, todo, encoders>>

Store ==
  /\ src = "store"
  /\ ring' = [ring EXCEPT ![position] = count]
  /\ src' = "idle"
  /\ UNCHANGED <<is_live, position, eos, count, todo, encoders>>

(* eos_callback, on the same thread.                                       *)
Eos ==
  /\ src = "idle" /\ ~eos
  /\ eos' = TRUE
  /\ UNCHANGED <<is_live, position, count, src, todo, ring, encoders>>

-----------------------------------------------------------------------------
(* need_data_callback.                                                     *)
Goto(e, label) == enc' = [enc EXCEPT ![e] = label]

NeedData(e) ==
  /\ enc[e] = "idle"
  /\ Goto(e, "wait")
  /\ UNCHANGED <<is_live, source, current, last, adrift>>

(* Four reads decide what to do.  Is the source at the next sample?        *)
Look(e) ==
  /\ enc[e] = "wait"
  /\ Goto(e, IF Next1(e) = position THEN "equal" ELSE "differs")
  /\ UNCHANGED <<is_live, source, current, last, adrift>>

(* Has it none yet?  If its first one comes between these two reads, the   *)
(* encoder takes a slot the source is still to fill.                       *)
LookNone(e) ==
  /\ enc[e] = "differs"
  /\ Goto(e, IF position = -1 THEN "equal" ELSE "read")
  /\ adrift' = IF count = 1 THEN adrift \cup {e} ELSE adrift
  /\ UNCHANGED <<is_live, source, current, last>>

(* Nothing to take.  Is the source still there ...                         *)
LookAgain(e) ==
  /\ enc[e] = "equal"
  /\ Goto(e, IF Next1(e) = position THEN "ending" ELSE "wait")
  /\ UNCHANGED <<is_live, source, current, last, adrift>>

(* Mutant: the end is told whether the source is at its end or not.        *)
LookEosEarly(e) ==
  /\ enc[e] = "ending"
  /\ Goto(e, "eos")
  /\ current' = [current EXCEPT ![e] = Next1(e)]
  /\ UNCHANGED <<is_live, source, last, adrift>>

(* Mutant: the end moves the position and is not told.                     *)
LookEosUntold(e) ==
  /\ enc[e] = "ending"
  /\ IF eos
     THEN /\ Goto(e, "idle")
          /\ current' = [current EXCEPT ![e] = Next1(e)]
     ELSE Goto(e, "wait") /\ UNCHANGED current
  /\ UNCHANGED <<is_live, source, last, adrift>>

(* ... and at its end?  The end also moves the position.                   *)
LookEos(e) ==
  /\ enc[e] = "ending"
  /\ IF eos
     THEN /\ Goto(e, "eos")
          /\ current' = [current EXCEPT ![e] = Next1(e)]
     ELSE Goto(e, "wait") /\ UNCHANGED current
  /\ UNCHANGED <<is_live, source, last, adrift>>

(* The sample is taken, and pushed while current_position still names the  *)
(* one before it.                                                          *)
Read(e) ==
  /\ enc[e] = "read" /\ ring[Next1(e)] # 0
  /\ last' = [last EXCEPT ![e] = ring[Next1(e)]]
  /\ Goto(e, "push")
  /\ UNCHANGED <<is_live, source, current, adrift>>

(* The slot holds NULL or freed memory, or the sample that is being used   *)
(* has been freed.                                                         *)
Fault(e) ==
  /\ \/ enc[e] = "read" /\ ring[Next1(e)] = 0
     \/ enc[e] = "push" /\ ring[Next1(e)] # last[e]
  /\ Goto(e, "fault")
  /\ UNCHANGED <<is_live, source, current, last, adrift>>

Pushed(e) ==
  /\ enc[e] = "push"
  /\ current' = [current EXCEPT ![e] = Next1(e)]
  /\ Goto(e, "idle")
  /\ UNCHANGED <<is_live, source, last, adrift>>

-----------------------------------------------------------------------------
Callback == (\E e \in Encoders : Check(e)) \/ Checked \/ Free \/ Store

Encoder(e) ==
  \/ NeedData(e) \/ Look(e) \/ LookNone(e) \/ LookAgain(e) \/ LookEos(e)
  \/ Read(e) \/ Fault(e) \/ Pushed(e)

Next ==
  \/ Sample \/ Callback \/ Eos
  \/ \E e \in Encoders : Encoder(e)

Spec == Init /\ [][Next]_vars

(* new_sample_callback runs on; an encoder pipeline asks for data as long  *)
(* as the job is not live.  A live encoder may stall.                      *)
Fairness ==
  /\ WF_vars(Callback)
  /\ \A e \in Encoders : WF_vars(~is_live /\ Encoder(e))

FairSpec == Spec /\ Fairness

-----------------------------------------------------------------------------
(* Every variable has its type.                                            *)
TypeOK ==
  /\ is_live \in BOOLEAN /\ eos \in BOOLEAN
  /\ ring \in [Slots -> Nat]
  /\ position \in Slots \cup {-1}
  /\ count \in Nat
  /\ src \in {"idle", "check", "free", "store"}
  /\ todo \in SUBSET Encoders
  /\ enc \in [Encoders -> {"idle", "wait", "differs", "equal", "ending", "read", "push",
                           "eos", "fault"}]
  /\ current \in [Encoders -> Slots \cup {-1}]
  /\ last \in [Encoders -> Nat]
  /\ adrift \in SUBSET Encoders

(* need_data_callback uses a slot only while it holds a sample, not before *)
(* the first and not while the source replaces it: the wait of a stream    *)
(* that is not live protects the slot after the one it compares.  It does  *)
(* not protect the encoders that are adrift.                               *)
ReadsSample ==
  ~is_live => \A e \in Encoders \ adrift :
    /\ enc[e] = "read" => ring[Next1(e)] # 0
    /\ enc[e] = "push" => ring[Next1(e)] = last[e]

(* The end of the stream is told to an encoder when at most a ring of      *)
(* samples is left, all of them lost to it: at least the one the source is *)
(* at, and more when the end comes between the reads of the position and   *)
(* of eos.  An encoder adrift may lose more.                               *)
EosLoss ==
  ~is_live => \A e \in Encoders \ adrift : enc[e] = "eos" => count - last[e] \in 1..Size

(* A sample handed to new_sample_callback is stored, unless an encoder     *)
(* brings the worker down: the source and the encoders never wait for each *)
(* other, and a live source waits for nobody.                              *)
SampleStored == src # "idle" ~> src = "idle" \/ \E e \in Encoders : enc[e] = "fault"

(* A stream that is not live and that had a sample ends for every encoder, *)
(* also for those adrift if they get there.                                *)
EncodersEnd ==
  ~is_live /\ eos /\ count > 0
    ~> \A e \in Encoders : enc[e] = "eos" \/ (e \in adrift /\ enc[e] = "fault")

(* A stream that is not live is a queue: no encoder misses a sample before *)
(* its end of stream, but those that were out of step with the source when *)
(* they took their first: they had not begun when it filled the ring, or   *)
(* took the slot of its first sample before it was there.  A live stream,  *)
(* which promises no such thing, is mapped to a queue where nothing        *)
(* happens.                                                                *)
Queue == INSTANCE StreamQueue WITH
  Capacity <- Size,
  written  <- IF is_live THEN 0
              ELSE IF src = "idle" THEN count ELSE count - 1,
  taken    <- IF is_live THEN [e \in Encoders |-> 0] ELSE last,
  late     <- IF is_live THEN {} ELSE adrift,
  closed   <- eos /\ ~is_live

QueueSpec == Queue!Spec
=============================================================================
