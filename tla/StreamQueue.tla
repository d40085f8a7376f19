----------------------------- MODULE StreamQueue -----------------------------
(***************************************************************************)
(* What a source stream promises the encoders of a job that is not live:   *)
(* samples are taken by every encoder in the order they came, one by one,  *)
(* and at most Capacity of them wait for the slowest encoder.  An encoder  *)
(* can lose this promise only at its start, when it has taken no more than *)
(* its first sample: with the first sample of the source, or when the      *)
(* source has delivered as many as the queue holds.                        *)
(***************************************************************************)
EXTENDS Naturals

CONSTANTS
  Encoders,   (* the encoder streams fed by the source stream                *)
  Capacity    (* how many samples may wait                                   *)

VARIABLES
  written,    (* samples the source has delivered                            *)
  taken,      (* the last sample each encoder has taken                      *)
  late,       (* encoders the queue does not wait for                        *)
  closed      (* the source is at the end of its stream                      *)

vars == <<written, taken, late, closed>>

Init == written = 0 /\ taken = [e \in Encoders |-> 0] /\ late = {} /\ closed = FALSE

Write ==
  /\ ~closed
  /\ \A e \in Encoders \ late : written < taken[e] + Capacity
  /\ written' = written + 1
  /\ UNCHANGED <<taken, late, closed>>

Take(e) ==
  /\ e \notin late /\ taken[e] < written
  /\ taken' = [taken EXCEPT ![e] = @ + 1]
  /\ UNCHANGED <<written, late, closed>>

Stray(e) ==
  /\ e \notin late /\ taken[e] <= 1
  /\ written <= 1 \/ written >= Capacity
  /\ late' = late \cup {e}
  /\ UNCHANGED <<written, taken, closed>>

(* What a late encoder finds is some sample.                               *)
Find(e) ==
  /\ e \in late
  /\ \E n \in 1..written : taken' = [taken EXCEPT ![e] = n]
  /\ UNCHANGED <<written, late, closed>>

Close ==
  /\ ~closed /\ closed' = TRUE
  /\ UNCHANGED <<written, taken, late>>

Next == Write \/ Close \/ \E e \in Encoders : Take(e) \/ Stray(e) \/ Find(e)

Spec == Init /\ [][Next]_vars
=============================================================================
