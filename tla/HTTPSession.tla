---------------------------- MODULE HTTPSession ----------------------------
(***************************************************************************)
(* The callback of the streaming server, src/src/httpstreaming.c, with the  *)
(* job accounting of src/src/gstreamill.c it goes through: what a slot of   *)
(* the HTTP server keeps between two calls (priv_data), the access count    *)
(* and the references of the job, and the job that is restarted, stopped,   *)
(* removed or started again under the same name in the meantime.            *)
(*                                                                         *)
(* The calls come as CallbackProtocol lets them, which HTTPServer           *)
(* implements. All uris name one job name; every object it denotes in the   *)
(* course of time is a member of Jobs.                                      *)
(***************************************************************************)
EXTENDS Integers, FiniteSets

CONSTANTS
    Slots,      \* the request slots of the server
    Jobs,       \* the job objects that bear the name, one after the other
    None, Wild, \* no pointer; one that was never assigned
    MaxAge,     \* bound: how often a job object loses its worker
    MaxRequests \* bound: connections

ASSUME SessionAssumption ==
    /\ IsFiniteSet(Slots) /\ IsFiniteSet(Jobs)
    /\ None \notin Jobs /\ Wild \notin Jobs /\ None # Wild
    /\ MaxAge \in Nat /\ MaxRequests \in Nat

VARIABLES
    session, call,  \* of CallbackProtocol
    step,       \* where the callback of the slot is; "out" between two calls
    uri,        \* what the last parsed request of the slot asks for: file (a
                \* segment, a playlist), play (progressive) or download
    out,        \* the job the slot's request is counted on: the encoder output
    found,      \* the job get_job found for the slot and has no reference of yet
    priv,       \* priv_data of the slot
    listed,     \* the job of that name in job_list
    state, age, \* of each job object
    refs,       \* references; 0 is freed
    access,     \* current_access
    misgiven,   \* history: an access was given back to it that it had not given
    down,       \* the process died of a null pointer or of one that was freed
    requests

slotVars == <<step, uri, out, found, priv>>
jobVars == <<listed, state, age, refs, access, misgiven>>
vars == <<session, call, slotVars, jobVars, down, requests>>

Server == INSTANCE CallbackProtocol

(* priv_data: the rest of a reply to send, the job of a progressive session *)
(* with its age, the files of a download, and the encoder output.           *)
PrivData == [buf : BOOLEAN, segments : BOOLEAN, encoder_output : Jobs \cup {None, Wild},
             job : Jobs \cup {None}, livejob_age : 0..MaxAge]

ASSUME PrivAssumption == None \notin PrivData

TypeOK ==
    /\ Server!TypeOK
    /\ step \in [Slots -> {"out", "dispatch", "lookup", "serve", "play", "send", "unaccess",
                          "unref"}]
    /\ uri \in [Slots -> {"file", "play", "download"}]
    /\ out \in [Slots -> Jobs \cup {None}] /\ found \in [Slots -> Jobs \cup {None}]
    /\ priv \in [Slots -> PrivData \cup {None}]
    /\ listed \in Jobs \cup {None}
    /\ state \in [Jobs -> {"none", "READY", "PLAYING", "STOPED"}]
    /\ age \in [Jobs -> 0..MaxAge]
    /\ refs \in [Jobs -> Nat] /\ access \in [Jobs -> Int]
    /\ misgiven \subseteq Jobs
    /\ down \in BOOLEAN
    /\ requests \in 0..MaxRequests

Init ==
    /\ Server!Init
    /\ step = [s \in Slots |-> "out"]
    /\ uri = [s \in Slots |-> "file"]
    /\ out = [s \in Slots |-> None] /\ found = [s \in Slots |-> None]
    /\ priv = [s \in Slots |-> None]
    /\ listed = None
    /\ state = [j \in Jobs |-> "none"]
    /\ age = [j \in Jobs |-> 0]
    /\ refs = [j \in Jobs |-> 0] /\ access = [j \in Jobs |-> 0]
    /\ misgiven = {}
    /\ down = FALSE
    /\ requests = 0

-----------------------------------------------------------------------------
(* The jobs, seen from the streaming server: an abridged JobLifecycle.      *)

(* gstreamill_job_start: the name is free, the job gets its own reference.  *)
(* Which of the objects not yet used it is makes no difference.             *)
Start(j) ==
    /\ listed = None /\ state[j] = "none"
    /\ j = CHOOSE k \in Jobs : state[k] = "none"
    /\ listed' = j
    /\ state' = [state EXCEPT ![j] = "PLAYING"]
    /\ refs' = [refs EXCEPT ![j] = 1]
    /\ UNCHANGED <<age, access, misgiven>>

(* child_watch_cb: the worker is gone. The job stops or is reset, ...       *)
Reap(j) ==
    /\ listed = j /\ state[j] # "STOPED" /\ age[j] < MaxAge
    /\ age' = [age EXCEPT ![j] = @ + 1]
    /\ \E to \in {"READY", "STOPED"} : state' = [state EXCEPT ![j] = to]
    /\ UNCHANGED <<listed, refs, access, misgiven>>

(* ... and its next worker plays.                                           *)
Plays(j) ==
    /\ listed = j /\ state[j] = "READY"
    /\ state' = [state EXCEPT ![j] = "PLAYING"]
    /\ UNCHANGED <<listed, age, refs, access, misgiven>>

Unref(j) == refs' = [refs EXCEPT ![j] = IF @ = 0 THEN 0 ELSE @ - 1]

(* clean_job_list: nobody asks whether the job is being accessed.           *)
Remove(j) ==
    /\ listed = j /\ state[j] = "STOPED"
    /\ listed' = None
    /\ Unref(j)
    /\ UNCHANGED <<state, age, access, misgiven>>

Manage == \E j \in Jobs : Start(j) \/ Reap(j) \/ Plays(j) \/ Remove(j)

-----------------------------------------------------------------------------
(* The server, between two calls. *)

Open(s) ==
    /\ requests < MaxRequests
    /\ requests' = requests + 1
    /\ Server!Open(s)
    /\ UNCHANGED slotVars

Drop(s) ==
    /\ Server!Drop(s)
    /\ UNCHANGED <<slotVars, requests>>

(* A request that was parsed leaves its uri in the slot.                    *)
CallRequest(s) ==
    /\ Server!CallRequest(s)
    /\ \E u \in {"file", "play", "download"} : uri' = [uri EXCEPT ![s] = u]
    /\ out' = [out EXCEPT ![s] = None]
    /\ step' = [step EXCEPT ![s] = "dispatch"]
    /\ UNCHANGED <<found, priv, requests>>

CallAgain(s) ==
    /\ Server!CallContinue(s) \/ Server!CallFinish(s)
    /\ step' = [step EXCEPT ![s] = "dispatch"]
    /\ UNCHANGED <<uri, out, found, priv, requests>>

(* The callback returns a time or none, or zero.                            *)
Return(s, to) ==
    /\ Server!Return(s)
    /\ session' = [session EXCEPT ![s] = to]
    /\ step' = [step EXCEPT ![s] = "out"]

Goto(s, to) ==
    /\ step' = [step EXCEPT ![s] = to]
    /\ UNCHANGED <<session, call>>

-----------------------------------------------------------------------------
(* get_job: the search is under the mutex of the list, ...                  *)
Search(s) == found' = [found EXCEPT ![s] = listed]

(* ... and the reference is taken after the unlock. Of an object freed in   *)
(* between g_object_ref gives none, unless its memory is the next job's.    *)
Freed(s) == found[s] # None /\ refs[found[s]] = 0
Got(s) == IF Freed(s) THEN {None, listed} ELSE {found[s]}
Forget(s) == found' = [found EXCEPT ![s] = None]

(* gstreamill_unaccess begins: it looks the job up by the name in the uri.   *)
GiveBack(s) == Search(s) /\ Goto(s, "unaccess")

-----------------------------------------------------------------------------
(* HTTP_REQUEST: http_request_process. *)

LookupBegins(s) ==
    /\ call[s] = "REQUEST" /\ step[s] = "dispatch"
    /\ Search(s) /\ Goto(s, "lookup")
    /\ UNCHANGED <<uri, out, priv, jobVars, down>>

(* gstreamill_get_encoder_output: an output of a playing job is counted, and *)
(* the reference the look-up took is kept.                                   *)
Lookup(s) ==
    /\ step[s] = "lookup"
    /\ \E j \in Got(s) :
          IF j # None /\ state[j] = "PLAYING"
          THEN /\ out' = [out EXCEPT ![s] = j]
               /\ refs' = [refs EXCEPT ![j] = @ + 1]
               /\ access' = [access EXCEPT ![j] = @ + 1]
          ELSE UNCHANGED <<out, refs, access>>
    /\ Forget(s) /\ Goto(s, "serve")
    /\ UNCHANGED <<uri, priv, listed, state, age, misgiven, down>>

Playing(s) == out[s] # None /\ uri[s] = "play"
Downloading(s) == out[s] # None /\ uri[s] = "download"

(* The rest of a reply that did not fit into the socket: a file, a header,  *)
(* or the 404 of any uri, that of a player whose output is not ready too.   *)
(* The files of a download are forgotten.                                   *)
ServePart(s) ==
    /\ step[s] = "serve"
    /\ priv' = [priv EXCEPT ![s] = [buf |-> TRUE, segments |-> FALSE, encoder_output |-> out[s],
                                    job |-> None, livejob_age |-> 0]]
    /\ Return(s, "kept")
    /\ UNCHANGED <<uri, out, found, jobVars, down>>

(* http_progress_play_priv_data_init, after the header went out or in part: *)
(* the job is looked up by its name again, with a second reference.         *)
PlayBegins(s) ==
    /\ step[s] = "serve" /\ Playing(s)
    /\ Search(s) /\ Goto(s, "play")
    /\ UNCHANGED <<uri, out, priv, jobVars, down>>

ServePlay(s) ==
    /\ step[s] = "play"
    /\ \E j \in Got(s) \ {None}, b \in BOOLEAN :
          /\ priv' = [priv EXCEPT ![s] = [buf |-> b, segments |-> FALSE, encoder_output |-> out[s],
                                          job |-> j, livejob_age |-> age[j]]]
          /\ refs' = [refs EXCEPT ![j] = @ + 1]
    /\ Forget(s) /\ Return(s, "kept")
    /\ UNCHANGED <<uri, out, listed, state, age, access, misgiven, down>>

(* is_dvr_download_request: the encoder output in priv_data is not assigned, *)
(* whatever the memory held.                                                 *)
FilesOf(s, eo) == [priv EXCEPT ![s] = [buf |-> FALSE, segments |-> TRUE, encoder_output |-> eo,
                                       job |-> None, livejob_age |-> 0]]

ServeDownload(s) ==
    /\ step[s] = "serve" /\ Downloading(s)
    /\ \E eo \in {None, Wild} : priv' = FilesOf(s, eo)
    /\ Return(s, "kept")
    /\ UNCHANGED <<uri, out, found, jobVars, down>>

(* The header of a download was refused: its priv_data stays in the slot.   *)
ServeDownloadFails(s) ==
    /\ step[s] = "serve" /\ Downloading(s)
    /\ \E eo \in {None, Wild} : priv' = FilesOf(s, eo)
    /\ GiveBack(s)
    /\ UNCHANGED <<uri, out, jobVars, down>>

(* Mutant: the access is given back whether or not there is an output.      *)
ServeAllUnaccess(s) ==
    /\ step[s] = "serve"
    /\ GiveBack(s)
    /\ UNCHANGED <<uri, out, priv, jobVars, down>>

(* Sent, or a socket error; no encoder output is a complete reply, too.     *)
ServeAll(s) ==
    /\ step[s] = "serve"
    /\ IF out[s] = None THEN Return(s, "none") /\ UNCHANGED found ELSE GiveBack(s)
    /\ UNCHANGED <<uri, out, priv, jobVars, down>>

-----------------------------------------------------------------------------
(* HTTP_CONTINUE: http_continue_process, dvr_download. *)

Continue(s) == call[s] = "CONTINUE" /\ step[s] = "dispatch"

(* What ends a session: the access, when there is an encoder output, and    *)
(* then the reference of the job.                                           *)
Leave(s) == IF priv[s].encoder_output = None THEN Goto(s, "unref") /\ UNCHANGED found
            ELSE GiveBack(s)

(* More of the reply is written, or the socket blocks.                      *)
ContinuePart(s) ==
    /\ Continue(s) /\ priv[s].buf
    /\ Return(s, "kept")
    /\ UNCHANGED <<uri, out, found, priv, jobVars, down>>

(* The reply is out, or the socket failed.                                  *)
ContinueAll(s) ==
    /\ Continue(s) /\ priv[s].buf /\ uri[s] # "play"
    /\ priv' = [priv EXCEPT ![s].buf = FALSE]
    /\ Leave(s)
    /\ UNCHANGED <<uri, out, jobVars, down>>

(* A player goes on, by its uri: so does the rest of a 404.                 *)
ContinueHeader(s) ==
    /\ Continue(s) /\ priv[s].buf /\ uri[s] = "play" /\ priv[s].encoder_output # None
    /\ priv' = [priv EXCEPT ![s].buf = FALSE]
    /\ Return(s, "kept")
    /\ UNCHANGED <<uri, out, found, jobVars, down>>

ContinueDownload(s) ==
    /\ Continue(s) /\ ~priv[s].buf /\ priv[s].segments
    /\ \/ Return(s, "kept") /\ UNCHANGED priv
       \/ Return(s, "none") /\ priv' = [priv EXCEPT ![s] = None]
    /\ UNCHANGED <<uri, out, found, jobVars, down>>

(* Mutant: the age is not compared.                                         *)
JobPlays(s) == state[priv[s].job] = "PLAYING"

SameJob(s) == /\ priv[s].livejob_age = age[priv[s].job]
              /\ state[priv[s].job] = "PLAYING"

ContinuePlay(s) ==
    /\ Continue(s) /\ ~priv[s].buf /\ ~priv[s].segments /\ priv[s].job # None
    /\ IF SameJob(s) THEN Goto(s, "send") /\ UNCHANGED found ELSE Leave(s)
    /\ UNCHANGED <<uri, out, priv, jobVars, down>>

(* send_chunk, from the ring of the encoder output as it is by now.         *)
Send(s) ==
    /\ step[s] = "send"
    /\ Return(s, "kept")
    /\ UNCHANGED <<uri, out, found, priv, jobVars, down>>

-----------------------------------------------------------------------------
(* HTTP_FINISH, and what ends a session. *)

Finish(s) ==
    /\ call[s] = "FINISH" /\ step[s] = "dispatch"
    /\ IF priv[s] = None THEN Return(s, "none") /\ UNCHANGED found ELSE Leave(s)
    /\ UNCHANGED <<uri, out, priv, jobVars, down>>

(* Mutant: the reference of the look-up in gstreamill_unaccess and two more. *)
UnaccessThrice(s) ==
    /\ step[s] = "unaccess"
    /\ \E j \in Got(s) :
          IF j = None THEN UNCHANGED <<refs, access, misgiven>>
          ELSE /\ access' = [access EXCEPT ![j] = @ - 1]
               /\ refs' = [refs EXCEPT ![j] = IF @ <= 1 THEN 0 ELSE @ - 2]
               /\ misgiven' = IF j = out[s] THEN misgiven ELSE misgiven \cup {j}
    /\ out' = [out EXCEPT ![s] = None] /\ Forget(s)
    /\ IF call[s] = "REQUEST" THEN Return(s, "none") ELSE Goto(s, "unref")
    /\ UNCHANGED <<uri, priv, listed, state, age, down>>

(* gstreamill_unaccess finds the job by its name: the job of that name, or   *)
(* none, by now. It gives the reference of this look-up back, too.           *)
Unaccess(s) ==
    /\ step[s] = "unaccess"
    /\ \E j \in Got(s) :
          IF j = None THEN UNCHANGED <<refs, access, misgiven>>
          ELSE /\ access' = [access EXCEPT ![j] = @ - 1]
               /\ Unref(j)
               /\ misgiven' = IF j = out[s] THEN misgiven ELSE misgiven \cup {j}
    /\ out' = [out EXCEPT ![s] = None] /\ Forget(s)
    /\ IF call[s] = "REQUEST" THEN Return(s, "none") ELSE Goto(s, "unref")
    /\ UNCHANGED <<uri, priv, listed, state, age, down>>

(* Mutant: the slot keeps the pointer.                                      *)
UnrefJobKeepsPriv(s) ==
    /\ step[s] = "unref"
    /\ IF priv[s].job = None THEN UNCHANGED refs ELSE Unref(priv[s].job)
    /\ Return(s, "none")
    /\ UNCHANGED <<uri, out, found, priv, listed, state, age, access, misgiven, down>>

UnrefJob(s) ==
    /\ step[s] = "unref"
    /\ IF priv[s].job = None THEN UNCHANGED refs ELSE Unref(priv[s].job)
    /\ priv' = [priv EXCEPT ![s] = None]
    /\ Return(s, "none")
    /\ UNCHANGED <<uri, out, found, listed, state, age, access, misgiven, down>>

-----------------------------------------------------------------------------
(* The process dies: an object that was freed is used, get_job gave none    *)
(* where its result is not tested, a player without an encoder output goes  *)
(* on, or one without a job, the rest of its 404 sent.                      *)
Fault(s) ==
    /\ \/ step[s] \in {"lookup", "play", "unaccess"} /\ Freed(s)
       \/ step[s] = "play" /\ None \in Got(s)
       \/ Continue(s) /\ priv[s].buf /\ uri[s] = "play" /\ priv[s].encoder_output = None
       \/ Continue(s) /\ ~priv[s].buf /\ ~priv[s].segments /\ priv[s].job = None
    /\ down' = TRUE
    /\ UNCHANGED <<session, call, slotVars, jobVars>>

-----------------------------------------------------------------------------
Callback(s) ==
    /\ \/ LookupBegins(s) \/ Lookup(s) \/ ServePart(s) \/ PlayBegins(s) \/ ServePlay(s)
       \/ ServeDownload(s) \/ ServeDownloadFails(s) \/ ServeAll(s)
       \/ ContinuePart(s) \/ ContinueAll(s) \/ ContinueHeader(s) \/ ContinueDownload(s) \/ ContinuePlay(s) \/ Send(s)
       \/ Finish(s) \/ Unaccess(s) \/ UnrefJob(s) \/ Fault(s)
    /\ UNCHANGED requests

Call(s) ==
    /\ Open(s) \/ Drop(s) \/ CallRequest(s) \/ CallAgain(s)
    /\ UNCHANGED <<jobVars, down>>

Next ==
    /\ ~down
    /\ \/ \E s \in Slots : Call(s) \/ Callback(s)
       \/ Manage /\ UNCHANGED <<session, call, slotVars, down, requests>>

(* A callback runs to its end, and a session that was kept is called again:  *)
(* RequestEnds of HTTPServer, whose queues forget no request but a stranded  *)
(* one.                                                                      *)
Fairness ==
    \A s \in Slots : /\ WF_vars(~down /\ Callback(s))
                     /\ WF_vars(~down /\ CallAgain(s) /\ UNCHANGED <<jobVars, down>>)

Spec == Init /\ [][Next]_vars /\ Fairness

-----------------------------------------------------------------------------
(* The references a job must have: that of the list, one for each request   *)
(* counted on it and one for each progressive session of it.                *)
Owed(j) == (IF listed = j THEN 1 ELSE 0)
           + Cardinality({s \in Slots : out[s] = j})
           + Cardinality({s \in Slots : priv[s] # None /\ priv[s].job = j})

(* A job is not freed while it is listed or a session goes on reading its   *)
(* encoder output, unless a session gave it back an access of another job   *)
(* of the same name, or gave one back twice.                                *)
RefsCover == \A j \in Jobs \ misgiven : refs[j] >= Owed(j)

(* The next call of a session finds its priv_data, and a connection begins   *)
(* without one, unless the header of a download could not be sent in it.     *)
PrivMatchesSession ==
    ~down => \A s \in Slots :
        /\ session[s] = "kept" /\ call[s] = "no" => priv[s] # None
        /\ session[s] \in {"none", "fresh"} /\ call[s] = "no" /\ priv[s] # None
             => priv[s].segments

(* An access is given back by a request that was counted, and by a slot     *)
(* whose last request left a download behind.                               *)
GivenBackOnce ==
    [][\A j \in Jobs : access'[j] < access[j] =>
          \E s \in Slots : /\ step[s] = "unaccess" /\ step'[s] # "unaccess"
                           /\ \/ out[s] # None
                              \/ priv[s] # None /\ priv[s].segments]_vars

(* A player of a job that stopped or lost its worker does not go on with    *)
(* what the next worker writes into the ring: its session ends.             *)
StalePlayEnds ==
    \A s \in Slots :
        (/\ session[s] = "kept" /\ call[s] = "no" /\ ~priv[s].buf /\ ~priv[s].segments
         /\ priv[s].job # None
         /\ priv[s].livejob_age # age[priv[s].job] \/ state[priv[s].job] = "STOPED")
            ~> (session[s] = "none" \/ down)
=============================================================================
