-------------------------- MODULE CallbackProtocol --------------------------
(***************************************************************************)
(* What the HTTP server promises its user callback, the abstract            *)
(* specification of src/src/httpserver.c and the environment of             *)
(* src/src/httpstreaming.c: for every request slot the first call is        *)
(* REQUEST, the following ones are CONTINUE, a FINISH call is the last, no  *)
(* two calls for one slot overlap, and a session whose callback asked to be *)
(* called again is never dropped without a call.                            *)
(***************************************************************************)
CONSTANT Slots  \* the request_data_pointers of the server

VARIABLES
    session,    \* none, fresh: no callback yet, kept: asked to be called again,
                \* ending: FINISH was or is being called
    call        \* the call in progress for the slot, "no" when there is none

vars == <<session, call>>

TypeOK ==
    /\ session \in [Slots -> {"none", "fresh", "kept", "ending"}]
    /\ call \in [Slots -> {"no", "REQUEST", "CONTINUE", "FINISH"}]

Init ==
    /\ session = [s \in Slots |-> "none"]
    /\ call = [s \in Slots |-> "no"]

(* A connection gets a slot. *)
Open(s) ==
    /\ session[s] = "none" /\ call[s] = "no"
    /\ session' = [session EXCEPT ![s] = "fresh"]
    /\ UNCHANGED call

(* The connection ends before its request was ever handed to the callback. *)
Drop(s) ==
    /\ session[s] = "fresh" /\ call[s] = "no"
    /\ session' = [session EXCEPT ![s] = "none"]
    /\ UNCHANGED call

CallRequest(s) ==
    /\ session[s] = "fresh" /\ call[s] = "no"
    /\ call' = [call EXCEPT ![s] = "REQUEST"]
    /\ UNCHANGED session

CallContinue(s) ==
    /\ session[s] = "kept" /\ call[s] = "no"
    /\ call' = [call EXCEPT ![s] = "CONTINUE"]
    /\ UNCHANGED session

CallFinish(s) ==
    /\ session[s] \in {"fresh", "kept"} /\ call[s] = "no"
    /\ session' = [session EXCEPT ![s] = "ending"]
    /\ call' = [call EXCEPT ![s] = "FINISH"]

(* The callback returns: 0 ends the session, anything else keeps it. *)
Return(s) ==
    /\ call[s] # "no"
    /\ call' = [call EXCEPT ![s] = "no"]
    /\ \/ session' = [session EXCEPT ![s] = "none"]
       \/ /\ call[s] # "FINISH"
          /\ session' = [session EXCEPT ![s] = "kept"]

Next == \E s \in Slots :
    \/ Open(s) \/ Drop(s) \/ CallRequest(s) \/ CallContinue(s)
    \/ CallFinish(s) \/ Return(s)

Spec == Init /\ [][Next]_vars
=============================================================================
