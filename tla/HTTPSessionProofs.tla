-------------------------- MODULE HTTPSessionProofs --------------------------
(***************************************************************************)
(* Proofs about HTTPSession, for any number of slots, of jobs and of        *)
(* requests: a session finds its priv_data, an access is given back by a    *)
(* request that has one, and the references of a job cover its uses.        *)
(***************************************************************************)
EXTENDS HTTPSession, FiniteSetTheorems, TLAPS

USE SessionAssumption, PrivAssumption

Labels == {"out", "dispatch", "lookup", "serve", "play", "send", "unaccess", "unref"}
States == {"none", "READY", "PLAYING", "STOPED"}

(* The types, those of the slots and those of the jobs.                     *)
SlotTypes ==
    /\ Server!TypeOK
    /\ step \in [Slots -> Labels]
    /\ uri \in [Slots -> {"file", "play", "download"}]
    /\ out \in [Slots -> Jobs \cup {None}] /\ found \in [Slots -> Jobs \cup {None}]
    /\ priv \in [Slots -> PrivData \cup {None}]

JobTypes ==
    /\ listed \in Jobs \cup {None}
    /\ state \in [Jobs -> States] /\ age \in [Jobs -> 0..MaxAge]
    /\ refs \in [Jobs -> Nat] /\ access \in [Jobs -> Int]
    /\ misgiven \subseteq Jobs

Types == SlotTypes /\ JobTypes /\ down \in BOOLEAN /\ requests \in 0..MaxRequests

LEMMA TypesTypeOK == Types => TypeOK
  BY DEF Types, SlotTypes, JobTypes, TypeOK, Labels, States

-----------------------------------------------------------------------------
(* The record of a slot.                                                    *)
LEMMA PrivFields ==
  ASSUME NEW p \in PrivData
  PROVE  /\ p.buf \in BOOLEAN /\ p.segments \in BOOLEAN
         /\ p.encoder_output \in Jobs \cup {None, Wild}
         /\ p.job \in Jobs \cup {None} /\ p.livejob_age \in 0..MaxAge
  BY DEF PrivData

LEMMA PrivMade ==
  ASSUME NEW b \in BOOLEAN, NEW g \in BOOLEAN, NEW e \in Jobs \cup {None, Wild},
         NEW j \in Jobs \cup {None}, NEW a \in 0..MaxAge
  PROVE  [buf |-> b, segments |-> g, encoder_output |-> e, job |-> j, livejob_age |-> a]
            \in PrivData
  BY DEF PrivData

LEMMA BufOff ==
  ASSUME NEW p \in PrivData
  PROVE  /\ [p EXCEPT !.buf = FALSE] \in PrivData
         /\ [p EXCEPT !.buf = FALSE].segments = p.segments
         /\ [p EXCEPT !.buf = FALSE].encoder_output = p.encoder_output
         /\ [p EXCEPT !.buf = FALSE].job = p.job
  BY DEF PrivData

-----------------------------------------------------------------------------
(* Where a slot stands: what its call and its session allow, and which      *)
(* priv_data it has there.                                                  *)
Leftover(s) == priv[s] # None => priv[s].segments

Stands(s) ==
    /\ call[s] = "no" <=> step[s] = "out"
    /\ call[s] = "no" => /\ session[s] # "ending"
                         /\ IF session[s] = "kept" THEN priv[s] # None ELSE Leftover(s)
    /\ call[s] = "REQUEST" => /\ session[s] = "fresh" /\ Leftover(s)
                              /\ step[s] \in {"dispatch", "lookup", "serve", "play", "unaccess"}
    /\ call[s] = "CONTINUE" => /\ session[s] = "kept" /\ priv[s] # None
                               /\ step[s] \in {"dispatch", "send", "unaccess", "unref"}
    /\ call[s] = "FINISH" => /\ session[s] = "ending"
                             /\ step[s] \in {"dispatch", "unaccess", "unref"}
                             /\ step[s] # "dispatch" => priv[s] # None

(* A slot that will give an access back has one, or a download.             *)
Counts(s) ==
    /\ step[s] = "unaccess" => out[s] # None \/ (priv[s] # None /\ priv[s].segments)
    /\ priv[s] # None /\ priv[s].encoder_output # None /\ step[s] # "unref"
         => out[s] # None \/ priv[s].segments

(* An object that was never started is nobody's.                            *)
Unborn(j) == state[j] = "none" => j # listed /\ j \notin misgiven /\ refs[j] = 0

IInv ==
    /\ Types
    /\ \A s \in Slots : Stands(s) /\ Counts(s)
    /\ \A j \in Jobs : Unborn(j)
    /\ RefsCover

-----------------------------------------------------------------------------
(* The initial states, and the types after a step.                          *)
LEMMA InitTypes == Init => Types
<1>1. Init => SlotTypes
  BY DEF Init, SlotTypes, Labels, Server!Init, Server!TypeOK
<1>2. Init => JobTypes
  BY DEF Init, JobTypes, States
<1>3. Init => down \in BOOLEAN
  BY Zenon DEF Init
<1>4. Init => requests \in 0..MaxRequests
  BY DEF Init
<1>5. QED
  BY <1>1, <1>2, <1>3, <1>4 DEF Types

LEMMA ReturnTypes ==
  ASSUME SlotTypes, NEW s \in Slots, NEW to \in {"none", "kept"}, Return(s, to)
  PROVE  Server!TypeOK' /\ step' \in [Slots -> Labels]
  BY DEF SlotTypes, Return, Server!Return, Server!TypeOK, Labels

LEMMA GotoTypes ==
  ASSUME SlotTypes, NEW s \in Slots, NEW to \in Labels, Goto(s, to)
  PROVE  Server!TypeOK' /\ step' \in [Slots -> Labels]
  BY DEF SlotTypes, Goto, Server!TypeOK, Labels

LEMMA FoundTypes ==
  ASSUME Types, NEW s \in Slots, Search(s) \/ Forget(s)
  PROVE  found' \in [Slots -> Jobs \cup {None}]
  BY DEF Types, SlotTypes, JobTypes, Search, Forget

(* What get_job returns: a job with references, or the one that is listed.  *)
LEMMA GotTypes ==
  ASSUME Types, NEW s \in Slots, NEW j \in Got(s)
  PROVE  /\ j \in Jobs \cup {None}
         /\ j # None /\ refs[j] = 0 => j = listed
  BY DEF Types, SlotTypes, JobTypes, Got, Freed

LEMMA GiveBackTypes ==
  ASSUME Types, NEW s \in Slots, GiveBack(s)
  PROVE  /\ Server!TypeOK' /\ step' \in [Slots -> Labels]
         /\ found' \in [Slots -> Jobs \cup {None}]
<1>1. Goto(s, "unaccess") /\ Search(s)
  BY DEF GiveBack
<1>2. QED
  BY <1>1, GotoTypes, FoundTypes DEF Labels, Types

LEMMA LeaveTypes ==
  ASSUME Types, NEW s \in Slots, Leave(s)
  PROVE  /\ Server!TypeOK' /\ step' \in [Slots -> Labels]
         /\ found' \in [Slots -> Jobs \cup {None}]
<1>1. CASE Goto(s, "unref") /\ UNCHANGED found
  BY <1>1, GotoTypes DEF Labels, Types, SlotTypes
<1>2. CASE GiveBack(s)
  BY <1>2, GiveBackTypes
<1>3. QED
  BY <1>1, <1>2 DEF Leave

LEMMA PrivTypes ==
  ASSUME SlotTypes, NEW s \in Slots, NEW p \in PrivData \cup {None},
         priv' = [priv EXCEPT ![s] = p]
  PROVE  priv' \in [Slots -> PrivData \cup {None}]
  BY DEF SlotTypes

LEMMA UnrefTypes ==
  ASSUME JobTypes, NEW j \in Jobs, Unref(j)
  PROVE  refs' \in [Jobs -> Nat]
  BY DEF JobTypes, Unref

LEMMA CallTypes ==
  ASSUME Types, NEW s \in Slots, Call(s)
  PROVE  Types'
<1>1. CASE Open(s)
  BY <1>1 DEF Open, Call, Server!Open, Types, SlotTypes, JobTypes, jobVars, slotVars, Server!TypeOK
<1>2. CASE Drop(s)
  BY <1>2 DEF Drop, Call, Server!Drop, Types, SlotTypes, JobTypes, jobVars, slotVars, Server!TypeOK
<1>3. CASE CallRequest(s)
  BY <1>3 DEF CallRequest, Call, Server!CallRequest, Types, SlotTypes, JobTypes, jobVars,
     Server!TypeOK, Labels
<1>4. CASE CallAgain(s)
  BY <1>4 DEF CallAgain, Call, Server!CallContinue, Server!CallFinish, Types, SlotTypes, JobTypes,
     jobVars, Server!TypeOK, Labels
<1>5. QED
  BY <1>1, <1>2, <1>3, <1>4 DEF Call

LEMMA ManageTypes ==
  ASSUME JobTypes, Manage
  PROVE  JobTypes'
<1>1. ASSUME NEW j \in Jobs, Start(j) PROVE JobTypes'
  BY <1>1 DEF Start, JobTypes, States
<1>2. ASSUME NEW j \in Jobs, Reap(j) PROVE JobTypes'
  BY <1>2 DEF Reap, JobTypes, States
<1>3. ASSUME NEW j \in Jobs, Plays(j) PROVE JobTypes'
  BY <1>3 DEF Plays, JobTypes, States
<1>4. ASSUME NEW j \in Jobs, Remove(j) PROVE JobTypes'
  BY <1>4, UnrefTypes DEF Remove, JobTypes
<1>5. QED
  BY <1>1, <1>2, <1>3, <1>4 DEF Manage

-----------------------------------------------------------------------------
(* The types after a step of the callback.                                  *)
LEMMA ServeTypes ==
  ASSUME Types, NEW s \in Slots, UNCHANGED requests,
         \/ ServePart(s) \/ PlayBegins(s) \/ ServePlay(s) \/ ServeDownload(s)
         \/ ServeDownloadFails(s) \/ ServeAll(s)
  PROVE  Types'
<1>1. CASE ServePart(s)
  <2>1. [buf |-> TRUE, segments |-> FALSE, encoder_output |-> out[s], job |-> None,
         livejob_age |-> 0] \in PrivData
    <3>1. /\ out[s] \in Jobs \cup {None, Wild}
          /\ None \in Jobs \cup {None} /\ 0 \in 0..MaxAge
      BY DEF Types, SlotTypes
    <3>2. TRUE \in BOOLEAN /\ FALSE \in BOOLEAN
      OBVIOUS
    <3>3. QED
      BY <3>1, <3>2, PrivMade, Zenon
  <2>2. priv' \in [Slots -> PrivData \cup {None}]
    BY <1>1, <2>1, PrivTypes DEF ServePart, Types
  <2>3. QED
    BY <1>1, <2>2, ReturnTypes DEF ServePart, Types, SlotTypes, JobTypes, jobVars
<1>2. CASE PlayBegins(s)
  BY <1>2, GotoTypes, FoundTypes DEF PlayBegins, Types, SlotTypes, JobTypes, jobVars, Labels
<1>10. CASE ServePlay(s)
  <2>1. PICK j \in Got(s) \ {None}, b \in BOOLEAN :
           /\ priv' = [priv EXCEPT ![s] = [buf |-> b, segments |-> FALSE, encoder_output |-> out[s],
                                           job |-> j, livejob_age |-> age[j]]]
           /\ refs' = [refs EXCEPT ![j] = @ + 1]
    BY <1>10 DEF ServePlay
  <2>2. j \in Jobs /\ j \in Jobs \cup {None}
    BY <2>1, GotTypes
  <2>3. age[j] \in 0..MaxAge /\ out[s] \in Jobs \cup {None, Wild} /\ FALSE \in BOOLEAN
    BY <2>2 DEF Types, SlotTypes, JobTypes
  <2>4. [buf |-> b, segments |-> FALSE, encoder_output |-> out[s], job |-> j,
         livejob_age |-> age[j]] \in PrivData
    BY <2>2, <2>3, PrivMade, Zenon
  <2>5. priv' \in [Slots -> PrivData \cup {None}]
    BY <2>1, <2>4, PrivTypes DEF Types
  <2>6. refs' \in [Jobs -> Nat]
    BY <2>1, <2>2 DEF Types, JobTypes
  <2>7. QED
    BY <1>10, <2>5, <2>6, ReturnTypes, FoundTypes DEF ServePlay, Types, SlotTypes, JobTypes
<1>3. ASSUME NEW e \in {None, Wild}, priv' = FilesOf(s, e)
      PROVE  priv' \in [Slots -> PrivData \cup {None}]
  <2>1. [buf |-> FALSE, segments |-> TRUE, encoder_output |-> e, job |-> None,
         livejob_age |-> 0] \in PrivData
    <3>1. e \in Jobs \cup {None, Wild} /\ None \in Jobs \cup {None} /\ 0 \in 0..MaxAge
      OBVIOUS
    <3>2. TRUE \in BOOLEAN /\ FALSE \in BOOLEAN
      OBVIOUS
    <3>3. QED
      BY <3>1, <3>2, PrivMade, Zenon
  <2>2. QED
    BY <1>3, <2>1, PrivTypes DEF FilesOf, Types
<1>4. CASE ServeDownload(s)
  BY <1>3, <1>4, ReturnTypes DEF ServeDownload, Types, SlotTypes, JobTypes, jobVars
<1>5. CASE ServeDownloadFails(s)
  BY <1>3, <1>5, GiveBackTypes DEF ServeDownloadFails, Types, SlotTypes, JobTypes, jobVars
<1>6. CASE ServeAll(s)
  <2>1. (Return(s, "none") /\ UNCHANGED found) \/ GiveBack(s)
    BY <1>6 DEF ServeAll
  <2>2. /\ Server!TypeOK' /\ step' \in [Slots -> Labels]
        /\ found' \in [Slots -> Jobs \cup {None}]
    BY <2>1, ReturnTypes, GiveBackTypes DEF Types, SlotTypes
  <2>3. QED
    BY <1>6, <2>2 DEF ServeAll, Types, SlotTypes, JobTypes, jobVars
<1>7. QED
  BY <1>1, <1>2, <1>4, <1>5, <1>6, <1>10

LEMMA BufOffTypes ==
  ASSUME Types, NEW s \in Slots, priv[s] # None, priv' = [priv EXCEPT ![s].buf = FALSE]
  PROVE  priv' \in [Slots -> PrivData \cup {None}]
<1>1. priv[s] \in PrivData
  BY DEF Types, SlotTypes
<1>2. priv' = [priv EXCEPT ![s] = [priv[s] EXCEPT !.buf = FALSE]]
  OBVIOUS
<1>3. QED
  BY <1>1, <1>2, BufOff, PrivTypes DEF Types

LEMMA ContinueTypes ==
  ASSUME Types, NEW s \in Slots, Stands(s), UNCHANGED requests,
         \/ ContinuePart(s) \/ ContinueAll(s) \/ ContinueHeader(s) \/ ContinueDownload(s)
         \/ ContinuePlay(s) \/ Send(s)
  PROVE  Types'
<1>1. CASE ContinuePart(s)
  BY <1>1, ReturnTypes DEF ContinuePart, Types, SlotTypes, JobTypes, jobVars
<1>2. CASE ContinueAll(s)
  <2>1. priv[s] # None
    BY <1>2 DEF ContinueAll, Continue, Stands
  <2>2. priv' \in [Slots -> PrivData \cup {None}]
    BY <1>2, <2>1, BufOffTypes DEF ContinueAll
  <2>3. QED
    BY <1>2, <2>2, LeaveTypes DEF ContinueAll, Types, SlotTypes, JobTypes, jobVars
<1>3. CASE ContinueHeader(s)
  <2>1. priv[s] # None
    BY <1>3 DEF ContinueHeader, Continue, Stands
  <2>2. priv' \in [Slots -> PrivData \cup {None}]
    BY <1>3, <2>1, BufOffTypes DEF ContinueHeader
  <2>3. QED
    BY <1>3, <2>2, ReturnTypes DEF ContinueHeader, Types, SlotTypes, JobTypes, jobVars
<1>4. CASE ContinueDownload(s)
  <2>1. priv' \in [Slots -> PrivData \cup {None}]
    BY <1>4 DEF ContinueDownload, Types, SlotTypes
  <2>2. Return(s, "kept") \/ Return(s, "none")
    BY <1>4 DEF ContinueDownload
  <2>3. QED
    BY <1>4, <2>1, <2>2, ReturnTypes DEF ContinueDownload, Types, SlotTypes, JobTypes, jobVars
<1>5. CASE ContinuePlay(s)
  <2>1. (Goto(s, "send") /\ UNCHANGED found) \/ Leave(s)
    BY <1>5 DEF ContinuePlay
  <2>2. /\ Server!TypeOK' /\ step' \in [Slots -> Labels]
        /\ found' \in [Slots -> Jobs \cup {None}]
    BY <2>1, GotoTypes, LeaveTypes DEF Types, SlotTypes, Labels
  <2>3. QED
    BY <1>5, <2>2 DEF ContinuePlay, Types, SlotTypes, JobTypes, jobVars
<1>6. CASE Send(s)
  BY <1>6, ReturnTypes DEF Send, Types, SlotTypes, JobTypes, jobVars
<1>7. QED
  BY <1>1, <1>2, <1>3, <1>4, <1>5, <1>6

LEMMA EndTypes ==
  ASSUME Types, NEW s \in Slots, Stands(s), UNCHANGED requests,
         LookupBegins(s) \/ Lookup(s) \/ Finish(s) \/ Unaccess(s) \/ UnrefJob(s) \/ Fault(s)
  PROVE  Types'
<1>1. CASE Lookup(s)
  <2>1. PICK j \in Got(s) :
           IF j # None /\ state[j] = "PLAYING"
           THEN /\ out' = [out EXCEPT ![s] = j]
                /\ refs' = [refs EXCEPT ![j] = @ + 1]
                /\ access' = [access EXCEPT ![j] = @ + 1]
           ELSE UNCHANGED <<out, refs, access>>
    BY <1>1 DEF Lookup
  <2>2. j \in Jobs \cup {None}
    BY <2>1, GotTypes
  <2>3. /\ out' \in [Slots -> Jobs \cup {None}]
        /\ refs' \in [Jobs -> Nat] /\ access' \in [Jobs -> Int]
    BY <2>1, <2>2 DEF Types, SlotTypes, JobTypes
  <2>4. QED
    BY <1>1, <2>3, GotoTypes, FoundTypes DEF Lookup, Types, SlotTypes, JobTypes, Labels
<1>2. CASE Finish(s)
  <2>1. (Return(s, "none") /\ UNCHANGED found) \/ Leave(s)
    BY <1>2 DEF Finish
  <2>2. /\ Server!TypeOK' /\ step' \in [Slots -> Labels]
        /\ found' \in [Slots -> Jobs \cup {None}]
    BY <2>1, ReturnTypes, LeaveTypes DEF Types, SlotTypes
  <2>3. QED
    BY <1>2, <2>2 DEF Finish, Types, SlotTypes, JobTypes, jobVars
<1>3. CASE Unaccess(s)
  <2>1. Return(s, "none") \/ Goto(s, "unref")
    BY <1>3 DEF Unaccess
  <2>2. Server!TypeOK' /\ step' \in [Slots -> Labels]
    BY <2>1, ReturnTypes, GotoTypes DEF Types, Labels
  <2>3. PICK j \in Got(s) :
           IF j = None THEN UNCHANGED <<refs, access, misgiven>>
           ELSE /\ access' = [access EXCEPT ![j] = @ - 1]
                /\ Unref(j)
                /\ misgiven' = IF j = out[s] THEN misgiven ELSE misgiven \cup {j}
    BY <1>3 DEF Unaccess
  <2>4. j \in Jobs \cup {None}
    BY <2>3, GotTypes
  <2>5. /\ refs' \in [Jobs -> Nat] /\ access' \in [Jobs -> Int] /\ misgiven' \subseteq Jobs
    BY <2>3, <2>4, UnrefTypes DEF Types, JobTypes
  <2>6. out' \in [Slots -> Jobs \cup {None}]
    BY <1>3 DEF Unaccess, Types, SlotTypes
  <2>7. QED
    BY <1>3, <2>2, <2>5, <2>6, FoundTypes DEF Unaccess, Types, SlotTypes, JobTypes
<1>10. CASE LookupBegins(s)
  BY <1>10, GotoTypes, FoundTypes DEF LookupBegins, Types, SlotTypes, JobTypes, jobVars, Labels
<1>11. CASE Fault(s)
  <2>1. down' \in BOOLEAN
    BY <1>11, Zenon DEF Fault
  <2>2. QED
    BY <1>11, <2>1 DEF Fault, Types, SlotTypes, JobTypes, jobVars, slotVars, Server!TypeOK
<1>4. CASE UnrefJob(s)
  <2>1. priv[s] \in PrivData
    BY <1>4 DEF UnrefJob, Types, SlotTypes, Stands, Server!TypeOK
  <2>2. refs' \in [Jobs -> Nat]
    BY <1>4, <2>1, PrivFields, UnrefTypes DEF UnrefJob, Types, JobTypes
  <2>3. priv' \in [Slots -> PrivData \cup {None}]
    BY <1>4 DEF UnrefJob, Types, SlotTypes
  <2>4. QED
    BY <1>4, <2>2, <2>3, ReturnTypes DEF UnrefJob, Types, SlotTypes, JobTypes
<1>5. QED
  BY <1>1, <1>2, <1>3, <1>4, <1>10, <1>11

LEMMA StepTypes ==
  ASSUME Types, \A s \in Slots : Stands(s), [Next]_vars
  PROVE  Types'
<1>1. ASSUME NEW s \in Slots, Call(s) PROVE Types'
  BY <1>1, CallTypes
<1>2. ASSUME NEW s \in Slots, Callback(s) PROVE Types'
  BY <1>2, ServeTypes, ContinueTypes, EndTypes DEF Callback
<1>3. CASE Manage /\ UNCHANGED <<session, call, slotVars, down, requests>>
  BY <1>3, ManageTypes DEF Types, SlotTypes, slotVars, Server!TypeOK
<1>4. CASE UNCHANGED vars
  BY <1>4 DEF vars, slotVars, jobVars, Types, SlotTypes, JobTypes, Server!TypeOK
<1>5. QED
  BY <1>1, <1>2, <1>3, <1>4 DEF Next

-----------------------------------------------------------------------------
(* A slot stands where it should after each step.                           *)
Placed(s) == Stands(s) /\ Counts(s)

(* What a step of one slot leaves to another.                               *)
Same(t) ==
    /\ session'[t] = session[t] /\ call'[t] = call[t] /\ step'[t] = step[t]
    /\ out'[t] = out[t] /\ priv'[t] = priv[t]

LEMMA SamePlaced ==
  ASSUME NEW t \in Slots, Placed(t), Same(t)
  PROVE  Placed(t)'
  BY DEF Same, Placed, Stands, Leftover, Counts

LEMMA OtherSame ==
  ASSUME Types, NEW s \in Slots, NEW t \in Slots, t # s, Callback(s) \/ Call(s)
  PROVE  Same(t)
<1>1. /\ session \in [Slots -> {"none", "fresh", "kept", "ending"}]
      /\ call \in [Slots -> {"no", "REQUEST", "CONTINUE", "FINISH"}]
      /\ step \in [Slots -> Labels] /\ out \in [Slots -> Jobs \cup {None}]
      /\ priv \in [Slots -> PrivData \cup {None}]
  BY DEF Types, SlotTypes, Server!TypeOK
<1>2. CASE Call(s)
  BY <1>1, <1>2 DEF Same, Call, Open, Drop, CallRequest, CallAgain, slotVars, Server!Open, Server!Drop,
     Server!CallRequest, Server!CallContinue, Server!CallFinish
<1>3. ASSUME NEW to \in {"none", "kept"}, Return(s, to)
      PROVE  session'[t] = session[t] /\ call'[t] = call[t] /\ step'[t] = step[t]
  BY <1>1, <1>3 DEF Return, Server!Return
<1>4. ASSUME NEW to \in Labels, Goto(s, to)
      PROVE  session'[t] = session[t] /\ call'[t] = call[t] /\ step'[t] = step[t]
  BY <1>1, <1>4 DEF Goto
<1>5. ASSUME GiveBack(s) \/ Leave(s)
      PROVE  session'[t] = session[t] /\ call'[t] = call[t] /\ step'[t] = step[t]
  BY <1>4, <1>5 DEF Leave, GiveBack, Labels
<1>7. CASE LookupBegins(s) \/ PlayBegins(s)
  BY <1>1, <1>4, <1>7 DEF LookupBegins, PlayBegins, Same, Labels
<1>6. CASE Lookup(s)
  BY <1>1, <1>4, <1>6 DEF Lookup, Same, Labels
<1>8. CASE ServePart(s) \/ ServePlay(s)
  BY <1>1, <1>3, <1>8 DEF ServePart, ServePlay, Same
<1>9. CASE ServeDownload(s) \/ ServeDownloadFails(s) \/ ServeAll(s)
  BY <1>1, <1>3, <1>5, <1>9 DEF ServeDownload, ServeDownloadFails, ServeAll, FilesOf, Same, Labels
<1>10. CASE ContinuePart(s) \/ ContinueAll(s) \/ ContinueHeader(s)
  <2>1. priv' = [priv EXCEPT ![s].buf = FALSE] => priv'[t] = priv[t]
    BY <1>1
  <2>2. QED
    BY <1>3, <1>5, <1>10, <2>1 DEF ContinuePart, ContinueAll, ContinueHeader, Same
<1>11. CASE ContinueDownload(s) \/ ContinuePlay(s) \/ Send(s)
  BY <1>1, <1>3, <1>4, <1>5, <1>11 DEF ContinueDownload, ContinuePlay, Send, Same, Labels
<1>12. CASE Finish(s) \/ Unaccess(s) \/ UnrefJob(s)
  BY <1>1, <1>3, <1>4, <1>5, <1>12 DEF Finish, Unaccess, UnrefJob, Same, Labels
<1>14. CASE Fault(s)
  BY <1>14 DEF Fault, Same, slotVars
<1>13. QED
  BY <1>2, <1>6, <1>7, <1>8, <1>9, <1>10, <1>11, <1>12, <1>14 DEF Callback

(* The slot of the step itself. Where it returns to and goes to, ...        *)
LEMMA ReturnAt ==
  ASSUME Types, NEW s \in Slots, NEW to, Return(s, to)
  PROVE  /\ call[s] # "no" /\ call'[s] = "no" /\ step'[s] = "out" /\ session'[s] = to
         /\ call[s] = "FINISH" => to # "kept"
  BY DEF Types, SlotTypes, Server!TypeOK, Return, Server!Return

LEMMA GotoAt ==
  ASSUME Types, NEW s \in Slots, NEW to, Goto(s, to)
  PROVE  call'[s] = call[s] /\ step'[s] = to /\ session'[s] = session[s]
  BY DEF Types, SlotTypes, Server!TypeOK, Goto

LEMMA LeaveAt ==
  ASSUME Types, NEW s \in Slots, Leave(s)
  PROVE  /\ call'[s] = call[s] /\ session'[s] = session[s]
         /\ step'[s] = IF priv[s].encoder_output = None THEN "unref" ELSE "unaccess"
  BY GotoAt DEF Leave, GiveBack

(* ... its priv_data without a buffer, ...                                  *)
LEMMA BufOffAt ==
  ASSUME Types, NEW s \in Slots, priv[s] # None, priv' = [priv EXCEPT ![s].buf = FALSE]
  PROVE  /\ priv'[s] # None /\ priv'[s].segments = priv[s].segments
         /\ priv'[s].encoder_output = priv[s].encoder_output /\ priv'[s].job = priv[s].job
<1>1. priv[s] \in PrivData /\ priv \in [Slots -> PrivData \cup {None}]
  BY DEF Types, SlotTypes
<1>2. priv'[s] = [priv[s] EXCEPT !.buf = FALSE]
  BY <1>1
<1>3. priv'[s] \in PrivData
  BY <1>1, <1>2, BufOff
<1>4. QED
  BY <1>1, <1>2, <1>3, BufOff

(* ... and its new priv_data.                                               *)
LEMMA MadeAt ==
  ASSUME Types, NEW s \in Slots, NEW b \in BOOLEAN, NEW g \in BOOLEAN,
         NEW e \in Jobs \cup {None, Wild}, NEW j \in Jobs \cup {None}, NEW a \in 0..MaxAge,
         priv' = [priv EXCEPT ![s] = [buf |-> b, segments |-> g, encoder_output |-> e,
                                      job |-> j, livejob_age |-> a]]
  PROVE  /\ priv'[s] # None /\ priv'[s].segments = g
         /\ priv'[s].encoder_output = e /\ priv'[s].job = j
<1>1. priv'[s] = [buf |-> b, segments |-> g, encoder_output |-> e, job |-> j, livejob_age |-> a]
  BY DEF Types, SlotTypes
<1>2. [buf |-> b, segments |-> g, encoder_output |-> e, job |-> j, livejob_age |-> a] # None
  BY PrivMade, PrivAssumption
<1>3. QED
  BY <1>1, <1>2

LEMMA CallPlaced ==
  ASSUME Types, NEW s \in Slots, Placed(s), Call(s)
  PROVE  Placed(s)'
<1>1. /\ session \in [Slots -> {"none", "fresh", "kept", "ending"}]
      /\ call \in [Slots -> {"no", "REQUEST", "CONTINUE", "FINISH"}]
      /\ step \in [Slots -> Labels] /\ out \in [Slots -> Jobs \cup {None}]
  BY DEF Types, SlotTypes, Server!TypeOK
<1>2. CASE Open(s) \/ Drop(s)
  BY <1>1, <1>2 DEF Open, Drop, slotVars, Server!Open, Server!Drop, Placed, Stands, Leftover, Counts
<1>3. CASE CallRequest(s)
  BY <1>1, <1>3 DEF CallRequest, Server!CallRequest, Placed, Stands, Leftover, Counts
<1>4. CASE CallAgain(s)
  BY <1>1, <1>4 DEF CallAgain, Server!CallContinue, Server!CallFinish, Placed, Stands, Leftover, Counts
<1>5. QED
  BY <1>2, <1>3, <1>4 DEF Call

LEMMA PlayAt ==
  ASSUME Types, NEW s \in Slots, ServePlay(s)
  PROVE  \E j \in Jobs : /\ j \in Got(s) /\ refs' = [refs EXCEPT ![j] = @ + 1]
                         /\ priv'[s] # None /\ priv'[s].encoder_output = out[s]
                         /\ priv'[s].job = j
<1>1. PICK j \in Got(s) \ {None}, b \in BOOLEAN :
         /\ priv' = [priv EXCEPT ![s] = [buf |-> b, segments |-> FALSE, encoder_output |-> out[s],
                                         job |-> j, livejob_age |-> age[j]]]
         /\ refs' = [refs EXCEPT ![j] = @ + 1]
  BY DEF ServePlay
<1>2. j \in Jobs /\ j \in Jobs \cup {None}
  BY <1>1, GotTypes
<1>3. age[j] \in 0..MaxAge /\ out[s] \in Jobs \cup {None, Wild} /\ FALSE \in BOOLEAN
  BY <1>2 DEF Types, SlotTypes, JobTypes
<1>4. priv'[s] # None /\ priv'[s].encoder_output = out[s] /\ priv'[s].job = j
  BY <1>1, <1>2, <1>3, MadeAt, Zenon
<1>5. QED
  BY <1>1, <1>2, <1>4

LEMMA ServePlaced ==
  ASSUME Types, NEW s \in Slots, Placed(s),
         \/ ServePart(s) \/ PlayBegins(s) \/ ServePlay(s) \/ ServeDownload(s)
         \/ ServeDownloadFails(s) \/ ServeAll(s)
  PROVE  Placed(s)'
<1>1. step[s] \in {"serve", "play"} /\ call[s] = "REQUEST" /\ session[s] = "fresh" /\ Leftover(s)
  BY DEF ServePart, PlayBegins, ServePlay, ServeDownload, ServeDownloadFails, ServeAll, Placed,
     Stands, Types, SlotTypes, Server!TypeOK
<1>2. CASE ServePlay(s)
  <2>1. priv'[s] # None /\ priv'[s].encoder_output = out[s] /\ out' = out
    BY <1>2, PlayAt DEF ServePlay
  <2>2. QED
    BY <1>1, <1>2, <2>1, ReturnAt DEF ServePlay, Placed, Stands, Leftover, Counts
<1>9. CASE PlayBegins(s)
  BY <1>1, <1>9, GotoAt DEF PlayBegins, Placed, Stands, Leftover, Counts
<1>3. CASE ServePart(s)
  <2>1. /\ out[s] \in Jobs \cup {None, Wild} /\ None \in Jobs \cup {None} /\ 0 \in 0..MaxAge
    BY DEF Types, SlotTypes
  <2>2. priv'[s] # None /\ priv'[s].encoder_output = out[s]
    <3>1. priv' = [priv EXCEPT ![s] = [buf |-> TRUE, segments |-> FALSE, encoder_output |-> out[s],
                                       job |-> None, livejob_age |-> 0]]
      BY <1>3 DEF ServePart
    <3>2. TRUE \in BOOLEAN /\ FALSE \in BOOLEAN
      OBVIOUS
    <3>3. QED
      BY <2>1, <3>1, <3>2, MadeAt, Zenon
  <2>3. QED
    BY <1>1, <1>3, <2>2, ReturnAt DEF ServePart, Placed, Stands, Leftover, Counts
<1>4. ASSUME NEW e \in {None, Wild}, priv' = FilesOf(s, e)
      PROVE  priv'[s] # None /\ priv'[s].segments = TRUE
  <2>1. e \in Jobs \cup {None, Wild} /\ None \in Jobs \cup {None} /\ 0 \in 0..MaxAge
    OBVIOUS
  <2>2. QED
    BY <1>4, <2>1, MadeAt DEF FilesOf
<1>5. CASE ServeDownload(s)
  <2>1. priv'[s] # None /\ priv'[s].segments
    BY <1>4, <1>5 DEF ServeDownload
  <2>2. QED
    BY <1>5, <2>1, ReturnAt DEF ServeDownload, Placed, Stands, Leftover, Counts
<1>6. CASE ServeDownloadFails(s)
  <2>1. priv'[s] # None /\ priv'[s].segments /\ out[s] # None
    BY <1>4, <1>6 DEF ServeDownloadFails, Downloading
  <2>2. QED
    BY <1>1, <1>6, <2>1, GotoAt DEF ServeDownloadFails, GiveBack, Placed, Stands, Leftover, Counts
<1>7. CASE ServeAll(s)
  <2>1. CASE out[s] = None
    BY <1>1, <1>7, <2>1, ReturnAt DEF ServeAll, Placed, Stands, Leftover, Counts
  <2>2. CASE out[s] # None
    BY <1>1, <1>7, <2>2, GotoAt DEF ServeAll, GiveBack, Placed, Stands, Leftover, Counts
  <2>3. QED
    BY <2>1, <2>2
<1>8. QED
  BY <1>2, <1>3, <1>5, <1>6, <1>7, <1>9

LEMMA LeavePlaced ==
  ASSUME Types, NEW s \in Slots, Placed(s), step[s] = "dispatch",
         call[s] \in {"CONTINUE", "FINISH"}, priv[s] # None, Leave(s), UNCHANGED out,
         /\ priv'[s] # None /\ priv'[s].segments = priv[s].segments
         /\ priv'[s].encoder_output = priv[s].encoder_output
  PROVE  Placed(s)'
  BY LeaveAt DEF Placed, Stands, Leftover, Counts

LEMMA ContinuePlaced ==
  ASSUME Types, NEW s \in Slots, Placed(s),
         \/ ContinuePart(s) \/ ContinueAll(s) \/ ContinueHeader(s) \/ ContinueDownload(s)
         \/ ContinuePlay(s) \/ Send(s)
  PROVE  Placed(s)'
<1>1. call[s] = "CONTINUE" /\ session[s] = "kept" /\ priv[s] # None /\ step[s] \in {"dispatch", "send"}
  BY DEF ContinuePart, ContinueAll, ContinueHeader, ContinueDownload, ContinuePlay, Send, Continue,
     Placed, Stands, Types, SlotTypes, Server!TypeOK
<1>2. CASE ContinuePart(s) \/ Send(s)
  BY <1>1, <1>2, ReturnAt DEF ContinuePart, Send, Placed, Stands, Leftover, Counts
<1>3. CASE ContinueAll(s)
  BY <1>1, <1>3, BufOffAt, LeavePlaced DEF ContinueAll, Continue
<1>4. CASE ContinueHeader(s)
  <2>1. /\ priv'[s] # None /\ priv'[s].segments = priv[s].segments
        /\ priv'[s].encoder_output = priv[s].encoder_output
        /\ out'[s] = out[s] /\ step[s] = "dispatch"
    BY <1>1, <1>4, BufOffAt DEF ContinueHeader, Continue
  <2>2. call'[s] = "no" /\ step'[s] = "out" /\ session'[s] = "kept"
    BY <1>4, ReturnAt DEF ContinueHeader
  <2>3. QED
    BY <1>1, <2>1, <2>2 DEF Placed, Stands, Leftover, Counts
<1>5. CASE ContinueDownload(s)
  <2>1. CASE Return(s, "kept") /\ UNCHANGED priv
    BY <1>1, <1>5, <2>1, ReturnAt DEF ContinueDownload, Continue, Placed, Stands, Leftover, Counts
  <2>2. CASE Return(s, "none") /\ priv' = [priv EXCEPT ![s] = None]
    <3>1. priv'[s] = None
      BY <2>2 DEF Types, SlotTypes
    <3>2. QED
      BY <1>1, <1>5, <2>2, <3>1, ReturnAt DEF ContinueDownload, Continue, Placed, Stands, Leftover, Counts
  <2>3. QED
    BY <1>5, <2>1, <2>2 DEF ContinueDownload
<1>6. CASE ContinuePlay(s)
  <2>1. CASE Goto(s, "send")
    BY <1>1, <1>6, <2>1, GotoAt DEF ContinuePlay, Continue, Placed, Stands, Leftover, Counts
  <2>2. CASE Leave(s)
    BY <1>1, <1>6, <2>2, LeavePlaced DEF ContinuePlay, Continue
  <2>3. QED
    BY <1>6, <2>1, <2>2 DEF ContinuePlay
<1>7. QED
  BY <1>2, <1>3, <1>4, <1>5, <1>6

LEMMA EndPlaced ==
  ASSUME Types, NEW s \in Slots, Placed(s),
         LookupBegins(s) \/ Lookup(s) \/ Finish(s) \/ Unaccess(s) \/ UnrefJob(s) \/ Fault(s)
  PROVE  Placed(s)'
<1>1. CASE Lookup(s)
  <2>1. out'[s] = None => out[s] = None
    BY <1>1, GotTypes DEF Lookup, Types, SlotTypes, JobTypes
  <2>2. step[s] = "lookup" /\ call[s] = "REQUEST"
    BY <1>1 DEF Lookup, Placed, Stands, Types, SlotTypes, Server!TypeOK
  <2>3. QED
    BY <1>1, <2>1, <2>2, GotoAt DEF Lookup, Placed, Stands, Leftover, Counts
<1>6. CASE LookupBegins(s)
  BY <1>6, GotoAt DEF LookupBegins, Placed, Stands, Leftover, Counts
<1>7. CASE Fault(s)
  BY <1>7, SamePlaced DEF Fault, Same, slotVars
<1>2. CASE Finish(s)
  <2>1. CASE priv[s] = None
    BY <1>2, <2>1, ReturnAt DEF Finish, Placed, Stands, Leftover, Counts
  <2>2. CASE priv[s] # None
    BY <1>2, <2>2, LeavePlaced DEF Finish
  <2>3. QED
    BY <2>1, <2>2
<1>3. CASE Unaccess(s)
  <2>1. CASE call[s] = "REQUEST"
    BY <1>3, <2>1, ReturnAt DEF Unaccess, Placed, Stands, Leftover, Counts
  <2>2. CASE call[s] # "REQUEST"
    BY <1>3, <2>2, GotoAt DEF Unaccess, Placed, Stands, Leftover, Counts, Types, SlotTypes, Server!TypeOK
  <2>3. QED
    BY <2>1, <2>2
<1>4. CASE UnrefJob(s)
  <2>1. priv'[s] = None
    BY <1>4 DEF UnrefJob, Types, SlotTypes
  <2>2. QED
    BY <1>4, <2>1, ReturnAt DEF UnrefJob, Placed, Stands, Leftover, Counts
<1>5. QED
  BY <1>1, <1>2, <1>3, <1>4, <1>6, <1>7

LEMMA StepPlaced ==
  ASSUME Types, \A t \in Slots : Placed(t), [Next]_vars, NEW t \in Slots
  PROVE  Placed(t)'
<1>1. ASSUME NEW s \in Slots, Call(s) PROVE Placed(t)'
  BY <1>1, CallPlaced, OtherSame, SamePlaced
<1>2. ASSUME NEW s \in Slots, Callback(s) PROVE Placed(t)'
  <2>1. CASE t = s
    BY <1>2, <2>1, ServePlaced, ContinuePlaced, EndPlaced DEF Callback
  <2>2. CASE t # s
    BY <1>2, <2>2, OtherSame, SamePlaced
  <2>3. QED
    BY <2>1, <2>2
<1>3. CASE UNCHANGED <<session, call, slotVars>>
  BY <1>3, SamePlaced DEF Same, slotVars
<1>4. QED
  BY <1>1, <1>2, <1>3 DEF Next, vars

-----------------------------------------------------------------------------
(* What a job owes, counted.                                                *)
Listed(j) == IF listed = j THEN 1 ELSE 0
Counted(j) == {s \in Slots : out[s] = j}
Players(j) == {s \in Slots : priv[s] # None /\ priv[s].job = j}

LEMMA CardinalityFewer ==
  ASSUME NEW S, IsFiniteSet(S), NEW B \in SUBSET S, NEW A \in SUBSET B
  PROVE  Cardinality(A) \in Nat /\ Cardinality(B) \in Nat /\ Cardinality(A) <= Cardinality(B)
<1>1. IsFiniteSet(B)
  BY FS_Subset
<1>2. QED
  BY <1>1, FS_Subset, FS_CardinalityType

LEMMA CardinalityMore ==
  ASSUME NEW S, IsFiniteSet(S), NEW B \in SUBSET S, NEW s, NEW A \in SUBSET (B \cup {s})
  PROVE  /\ Cardinality(A) \in Nat /\ Cardinality(B) \in Nat
         /\ Cardinality(A) <= Cardinality(B) + 1
<1>1. IsFiniteSet(B)
  BY FS_Subset
<1>2. /\ IsFiniteSet(B \cup {s}) /\ Cardinality(B) \in Nat
      /\ Cardinality(B \cup {s}) = Cardinality(B) \/ Cardinality(B \cup {s}) = Cardinality(B) + 1
  BY <1>1, FS_AddElement, FS_CardinalityType
<1>3. Cardinality(A) \in Nat /\ Cardinality(A) <= Cardinality(B \cup {s})
  BY <1>2, CardinalityFewer
<1>4. QED
  BY <1>2, <1>3

LEMMA CardinalityLess ==
  ASSUME NEW S, IsFiniteSet(S), NEW B \in SUBSET S, NEW s \in B, NEW A \in SUBSET (B \ {s})
  PROVE  /\ Cardinality(A) \in Nat /\ Cardinality(B) \in Nat
         /\ Cardinality(A) <= Cardinality(B) - 1
<1>1. IsFiniteSet(B)
  BY FS_Subset
<1>2. /\ IsFiniteSet(B \ {s}) /\ Cardinality(B) \in Nat
      /\ Cardinality(B \ {s}) = Cardinality(B) - 1
  BY <1>1, FS_RemoveElement, FS_CardinalityType
<1>3. Cardinality(A) \in Nat /\ Cardinality(A) <= Cardinality(B \ {s})
  BY <1>2, CardinalityFewer
<1>4. QED
  BY <1>2, <1>3

LEMMA OwedSum ==
  ASSUME NEW j \in Jobs
  PROVE  /\ Owed(j) = Listed(j) + Cardinality(Counted(j)) + Cardinality(Players(j))
         /\ Cardinality(Counted(j)) \in Nat /\ Cardinality(Players(j)) \in Nat
         /\ Listed(j) \in {0, 1}
<1>1. Counted(j) \in SUBSET Slots /\ Players(j) \in SUBSET Slots
  BY DEF Counted, Players
<1>2. Cardinality(Counted(j)) \in Nat /\ Cardinality(Players(j)) \in Nat
  BY <1>1, CardinalityFewer
<1>3. QED
  BY <1>2 DEF Owed, Listed, Counted, Players

LEMMA OwedSumNext ==
  ASSUME NEW j \in Jobs
  PROVE  /\ Owed(j)' = Listed(j)' + Cardinality(Counted(j)') + Cardinality(Players(j)')
         /\ Cardinality(Counted(j)') \in Nat /\ Cardinality(Players(j)') \in Nat
         /\ Listed(j)' \in {0, 1}
<1>1. Counted(j)' \in SUBSET Slots /\ Players(j)' \in SUBSET Slots
  BY DEF Counted, Players
<1>2. Cardinality(Counted(j)') \in Nat /\ Cardinality(Players(j)') \in Nat
  BY <1>1, CardinalityFewer
<1>3. QED
  BY <1>2 DEF Owed, Listed, Counted, Players

Covered(j) == j \notin misgiven => refs[j] >= Owed(j)

(* The uses only become fewer.                                              *)
LEMMA FewerCovered ==
  ASSUME NEW j \in Jobs, Covered(j), misgiven \subseteq misgiven',
         refs[j] \in Nat, refs'[j] = refs[j], listed' = j => listed = j,
         Counted(j)' \subseteq Counted(j), Players(j)' \subseteq Players(j)
  PROVE  Covered(j)'
<1>1. Counted(j) \in SUBSET Slots /\ Players(j) \in SUBSET Slots
  BY DEF Counted, Players
<1>2. /\ Cardinality(Counted(j)') <= Cardinality(Counted(j))
      /\ Cardinality(Players(j)') <= Cardinality(Players(j))
  BY <1>1, CardinalityFewer
<1>3. Listed(j)' <= Listed(j)
  BY DEF Listed
<1>4. Owed(j)' <= Owed(j) /\ Owed(j)' \in Nat /\ Owed(j) \in Nat
  BY <1>2, <1>3, OwedSum, OwedSumNext
<1>5. QED
  BY <1>4 DEF Covered

(* One use more, and a reference for it.                                    *)
LEMMA MoreCovered ==
  ASSUME NEW j \in Jobs, Covered(j), misgiven' = misgiven, NEW s \in Slots,
         refs[j] \in Nat, refs'[j] = refs[j] + 1, listed' = listed,
         \/ Counted(j)' \subseteq Counted(j) \cup {s} /\ Players(j)' \subseteq Players(j)
         \/ Counted(j)' \subseteq Counted(j) /\ Players(j)' \subseteq Players(j) \cup {s}
  PROVE  Covered(j)'
<1>1. Counted(j) \in SUBSET Slots /\ Players(j) \in SUBSET Slots
  BY DEF Counted, Players
<1>2. Cardinality(Counted(j)') + Cardinality(Players(j)')
        <= Cardinality(Counted(j)) + Cardinality(Players(j)) + 1
  <2>1. CASE Counted(j)' \subseteq Counted(j) \cup {s} /\ Players(j)' \subseteq Players(j)
    <3>1. Cardinality(Counted(j)') <= Cardinality(Counted(j)) + 1
      BY <1>1, <2>1, CardinalityMore
    <3>2. Cardinality(Players(j)') <= Cardinality(Players(j))
      BY <1>1, <2>1, CardinalityFewer
    <3>3. QED
      BY <3>1, <3>2, OwedSum, OwedSumNext
  <2>2. CASE Counted(j)' \subseteq Counted(j) /\ Players(j)' \subseteq Players(j) \cup {s}
    <3>1. Cardinality(Counted(j)') <= Cardinality(Counted(j))
      BY <1>1, <2>2, CardinalityFewer
    <3>2. Cardinality(Players(j)') <= Cardinality(Players(j)) + 1
      BY <1>1, <2>2, CardinalityMore
    <3>3. QED
      BY <3>1, <3>2, OwedSum, OwedSumNext
  <2>3. QED
    BY <2>1, <2>2
<1>3. Listed(j)' = Listed(j)
  BY DEF Listed
<1>4. Owed(j)' <= Owed(j) + 1 /\ Owed(j)' \in Nat /\ Owed(j) \in Nat
  BY <1>2, <1>3, OwedSum, OwedSumNext
<1>5. QED
  BY <1>4 DEF Covered

(* One use less, and one reference.                                         *)
LEMMA LessCovered ==
  ASSUME NEW j \in Jobs, Covered(j), misgiven' = misgiven, refs[j] \in Nat,
         refs'[j] = IF refs[j] = 0 THEN 0 ELSE refs[j] - 1,
         \/ /\ listed = j /\ listed' # j
            /\ Counted(j)' \subseteq Counted(j) /\ Players(j)' \subseteq Players(j)
         \/ \E s \in Counted(j) :
               /\ listed' = listed
               /\ Counted(j)' \subseteq Counted(j) \ {s} /\ Players(j)' \subseteq Players(j)
         \/ \E s \in Players(j) :
               /\ listed' = listed
               /\ Counted(j)' \subseteq Counted(j) /\ Players(j)' \subseteq Players(j) \ {s}
  PROVE  Covered(j)'
<1>1. Counted(j) \in SUBSET Slots /\ Players(j) \in SUBSET Slots
  BY DEF Counted, Players
<1>2. Owed(j)' <= Owed(j) - 1
  <2>1. CASE /\ listed = j /\ listed' # j
             /\ Counted(j)' \subseteq Counted(j) /\ Players(j)' \subseteq Players(j)
    <3>1. /\ Cardinality(Counted(j)') <= Cardinality(Counted(j))
          /\ Cardinality(Players(j)') <= Cardinality(Players(j))
      BY <1>1, <2>1, CardinalityFewer
    <3>2. Listed(j)' = 0 /\ Listed(j) = 1
      BY <2>1 DEF Listed
    <3>3. QED
      BY <3>1, <3>2, OwedSum, OwedSumNext
  <2>2. ASSUME NEW s \in Counted(j), listed' = listed,
               Counted(j)' \subseteq Counted(j) \ {s}, Players(j)' \subseteq Players(j)
        PROVE  Owed(j)' <= Owed(j) - 1
    <3>1. Cardinality(Counted(j)') <= Cardinality(Counted(j)) - 1
      BY <1>1, <2>2, CardinalityLess
    <3>2. Cardinality(Players(j)') <= Cardinality(Players(j))
      BY <1>1, <2>2, CardinalityFewer
    <3>3. Listed(j)' = Listed(j)
      BY <2>2 DEF Listed
    <3>4. QED
      BY <3>1, <3>2, <3>3, OwedSum, OwedSumNext
  <2>3. ASSUME NEW s \in Players(j), listed' = listed,
               Counted(j)' \subseteq Counted(j), Players(j)' \subseteq Players(j) \ {s}
        PROVE  Owed(j)' <= Owed(j) - 1
    <3>1. Cardinality(Counted(j)') <= Cardinality(Counted(j))
      BY <1>1, <2>3, CardinalityFewer
    <3>2. Cardinality(Players(j)') <= Cardinality(Players(j)) - 1
      BY <1>1, <2>3, CardinalityLess
    <3>3. Listed(j)' = Listed(j)
      BY <2>3 DEF Listed
    <3>4. QED
      BY <3>1, <3>2, <3>3, OwedSum, OwedSumNext
  <2>4. QED
    BY <2>1, <2>2, <2>3
<1>3. Owed(j)' \in Nat /\ Owed(j) \in Nat
  BY OwedSum, OwedSumNext
<1>4. QED
  BY <1>2, <1>3 DEF Covered

(* The uses of a job that a step of one slot changes are those of the slot. *)
LEMMA SlotUses ==
  ASSUME NEW s \in Slots, NEW j \in Jobs, \A t \in Slots : t # s => Same(t)
  PROVE  /\ Counted(j)' \subseteq Counted(j) \cup {s} /\ Players(j)' \subseteq Players(j) \cup {s}
         /\ out'[s] = out[s] => Counted(j)' \subseteq Counted(j)
         /\ out'[s] # j => Counted(j)' \subseteq Counted(j) \ {s}
         /\ priv'[s] = priv[s] => Players(j)' \subseteq Players(j)
         /\ (priv'[s] # None /\ priv[s] # None /\ priv'[s].job = priv[s].job)
              => Players(j)' \subseteq Players(j)
         /\ priv'[s] = None \/ priv'[s].job # j => Players(j)' \subseteq Players(j) \ {s}
  BY DEF Same, Counted, Players

(* A step that changes neither the list nor a reference.                    *)
LEMMA QuietCovered ==
  ASSUME Types, NEW s \in Slots, NEW j \in Jobs, Covered(j), UNCHANGED <<listed, refs, misgiven>>,
         \A t \in Slots : t # s => Same(t),
         out'[s] = out[s] \/ out'[s] = None,
         \/ priv'[s] = priv[s] \/ priv'[s] = None \/ priv'[s].job = None
         \/ priv'[s] # None /\ priv[s] # None /\ priv'[s].job = priv[s].job
  PROVE  Covered(j)'
<1>1. refs[j] \in Nat
  BY DEF Types, JobTypes
<1>2. Counted(j)' \subseteq Counted(j) /\ Players(j)' \subseteq Players(j)
  BY SlotUses
<1>3. QED
  BY <1>1, <1>2, FewerCovered

LEMMA CallCovered ==
  ASSUME Types, NEW s \in Slots, NEW j \in Jobs, Covered(j), Call(s)
  PROVE  Covered(j)'
<1>1. \A t \in Slots : t # s => Same(t)
  BY OtherSame
<1>2. priv' = priv /\ UNCHANGED <<listed, refs, misgiven>>
  BY DEF Call, Open, Drop, CallRequest, CallAgain, slotVars, jobVars
<1>3. out'[s] = out[s] \/ out'[s] = None
  BY DEF Call, Open, Drop, CallRequest, CallAgain, slotVars, Types, SlotTypes
<1>4. QED
  BY <1>1, <1>2, <1>3, QuietCovered

LEMMA PlayCovered ==
  ASSUME Types, NEW s \in Slots, NEW j \in Jobs, Covered(j), ServePlay(s),
         \A t \in Slots : t # s => Same(t)
  PROVE  Covered(j)'
<1>1. refs \in [Jobs -> Nat] /\ UNCHANGED <<out, listed, misgiven>>
  BY DEF Types, JobTypes, ServePlay
<1>2. PICK k \in Jobs : refs' = [refs EXCEPT ![k] = @ + 1] /\ priv'[s].job = k
  BY PlayAt
<1>3. CASE j = k
  <2>1. refs'[j] = refs[j] + 1
    BY <1>1, <1>2, <1>3
  <2>2. Counted(j)' \subseteq Counted(j) /\ Players(j)' \subseteq Players(j) \cup {s}
    BY <1>1, SlotUses
  <2>3. QED
    BY <1>1, <2>1, <2>2, MoreCovered
<1>4. CASE j # k
  <2>1. refs'[j] = refs[j]
    BY <1>1, <1>2, <1>4
  <2>2. Counted(j)' \subseteq Counted(j) /\ Players(j)' \subseteq Players(j)
    BY <1>1, <1>2, <1>4, SlotUses
  <2>3. QED
    BY <1>1, <2>1, <2>2, FewerCovered
<1>5. QED
  BY <1>3, <1>4

LEMMA ServeCovered ==
  ASSUME Types, NEW s \in Slots, NEW j \in Jobs, Covered(j), \A t \in Slots : t # s => Same(t),
         \/ LookupBegins(s) \/ ServePart(s) \/ PlayBegins(s) \/ ServePlay(s) \/ ServeDownload(s)
         \/ ServeDownloadFails(s) \/ ServeAll(s) \/ Fault(s)
  PROVE  Covered(j)'
<1>1. CASE ServePlay(s)
  BY <1>1, PlayCovered
<1>2. CASE ServePart(s)
  <2>1. /\ out[s] \in Jobs \cup {None, Wild} /\ None \in Jobs \cup {None} /\ 0 \in 0..MaxAge
        /\ TRUE \in BOOLEAN /\ FALSE \in BOOLEAN
    BY DEF Types, SlotTypes
  <2>2. priv' = [priv EXCEPT ![s] = [buf |-> TRUE, segments |-> FALSE, encoder_output |-> out[s],
                                     job |-> None, livejob_age |-> 0]]
    BY <1>2 DEF ServePart
  <2>3. priv'[s].job = None
    BY <2>1, <2>2, MadeAt, Zenon
  <2>4. UNCHANGED <<out, listed, refs, misgiven>>
    BY <1>2 DEF ServePart, jobVars
  <2>5. QED
    BY <2>3, <2>4, QuietCovered
<1>7. CASE LookupBegins(s) \/ PlayBegins(s) \/ Fault(s)
  BY <1>7, QuietCovered DEF LookupBegins, PlayBegins, Fault, slotVars, jobVars
<1>3. ASSUME NEW e \in {None, Wild}, priv' = FilesOf(s, e)
      PROVE  priv'[s].job = None
  <2>1. e \in Jobs \cup {None, Wild} /\ None \in Jobs \cup {None} /\ 0 \in 0..MaxAge
    OBVIOUS
  <2>2. QED
    BY <1>3, <2>1, MadeAt DEF FilesOf
<1>4. CASE ServeDownload(s) \/ ServeDownloadFails(s)
  BY <1>3, <1>4, QuietCovered DEF ServeDownload, ServeDownloadFails, jobVars
<1>5. CASE ServeAll(s)
  BY <1>5, QuietCovered DEF ServeAll, jobVars
<1>6. QED
  BY <1>1, <1>2, <1>4, <1>5, <1>7

LEMMA ContinueCovered ==
  ASSUME Types, NEW s \in Slots, NEW j \in Jobs, Covered(j), \A t \in Slots : t # s => Same(t),
         Placed(s),
         \/ ContinuePart(s) \/ ContinueAll(s) \/ ContinueHeader(s) \/ ContinueDownload(s)
         \/ ContinuePlay(s) \/ Send(s) \/ Finish(s)
  PROVE  Covered(j)'
<1>1. UNCHANGED <<out, listed, refs, misgiven>>
  BY DEF ContinuePart, ContinueAll, ContinueHeader, ContinueDownload, ContinuePlay, Send, Finish, jobVars
<1>2. \/ priv' = priv \/ priv' = [priv EXCEPT ![s] = None]
      \/ priv[s] # None /\ priv' = [priv EXCEPT ![s].buf = FALSE]
  BY DEF ContinuePart, ContinueAll, ContinueHeader, ContinueDownload, ContinuePlay, Send, Finish,
     Continue, Placed, Stands
<1>3. \/ priv'[s] = priv[s] \/ priv'[s] = None
      \/ priv'[s] # None /\ priv[s] # None /\ priv'[s].job = priv[s].job
  BY <1>2, BufOffAt DEF Types, SlotTypes
<1>4. QED
  BY <1>1, <1>3, QuietCovered

LEMMA LookupCovered ==
  ASSUME Types, NEW s \in Slots, NEW j \in Jobs, Covered(j), \A t \in Slots : t # s => Same(t),
         Lookup(s)
  PROVE  Covered(j)'
<1>1. refs \in [Jobs -> Nat] /\ out \in [Slots -> Jobs \cup {None}]
  BY DEF Types, SlotTypes, JobTypes
<1>2. UNCHANGED <<priv, listed, misgiven>>
  BY DEF Lookup
<1>3. CASE UNCHANGED <<out, refs>>
  BY <1>2, <1>3, QuietCovered
<1>4. ASSUME NEW k \in Jobs, out' = [out EXCEPT ![s] = k], refs' = [refs EXCEPT ![k] = @ + 1]
      PROVE  Covered(j)'
  <2>1. out'[s] = k
    BY <1>1, <1>4
  <2>2. CASE j = k
    <3>1. refs'[j] = refs[j] + 1
      BY <1>1, <1>4, <2>2
    <3>2. Counted(j)' \subseteq Counted(j) \cup {s} /\ Players(j)' \subseteq Players(j)
      BY <1>2, SlotUses
    <3>3. QED
      BY <1>1, <1>2, <3>1, <3>2, MoreCovered
  <2>3. CASE j # k
    <3>1. refs'[j] = refs[j]
      BY <1>1, <1>4, <2>3
    <3>2. Counted(j)' \subseteq Counted(j) /\ Players(j)' \subseteq Players(j)
      BY <1>2, <2>1, <2>3, SlotUses
    <3>3. QED
      BY <1>1, <1>2, <3>1, <3>2, FewerCovered
  <2>4. QED
    BY <2>2, <2>3
<1>5. QED
  BY <1>3, <1>4, GotTypes DEF Lookup

LEMMA UnaccessCovered ==
  ASSUME Types, NEW s \in Slots, NEW j \in Jobs, Covered(j), \A t \in Slots : t # s => Same(t),
         Unaccess(s)
  PROVE  Covered(j)'
<1>1. refs \in [Jobs -> Nat] /\ out \in [Slots -> Jobs \cup {None}]
  BY DEF Types, SlotTypes, JobTypes
<1>2. out'[s] = None /\ UNCHANGED <<priv, listed>>
  BY <1>1 DEF Unaccess
<1>3. Counted(j)' \subseteq Counted(j) \ {s} /\ Players(j)' \subseteq Players(j)
  BY <1>2, SlotUses
<1>9. PICK k \in Got(s) :
         IF k = None THEN UNCHANGED <<refs, access, misgiven>>
         ELSE /\ Unref(k)
              /\ misgiven' = IF k = out[s] THEN misgiven ELSE misgiven \cup {k}
  BY DEF Unaccess
<1>10. k \in Jobs \cup {None}
  BY <1>9, GotTypes
<1>4. CASE k = None
  BY <1>2, <1>4, <1>9, QuietCovered
<1>5. CASE k # None /\ j # k
  <2>1. refs'[j] = refs[j] /\ misgiven \subseteq misgiven'
    BY <1>1, <1>5, <1>9, <1>10 DEF Unref
  <2>2. QED
    BY <1>1, <1>2, <1>3, <2>1, FewerCovered
<1>6. CASE k # None /\ j = k /\ out[s] = j
  <2>1. s \in Counted(j) /\ misgiven' = misgiven
    BY <1>6, <1>9 DEF Counted
  <2>2. refs'[j] = IF refs[j] = 0 THEN 0 ELSE refs[j] - 1
    BY <1>1, <1>6, <1>9 DEF Unref
  <2>3. QED
    BY <1>1, <1>2, <1>3, <2>1, <2>2, LessCovered
<1>7. CASE k # None /\ j = k /\ out[s] # j
  <2>1. j \in misgiven'
    BY <1>7, <1>9
  <2>2. QED
    BY <2>1 DEF Covered
<1>8. QED
  BY <1>4, <1>5, <1>6, <1>7

LEMMA UnrefCovered ==
  ASSUME Types, NEW s \in Slots, NEW j \in Jobs, Covered(j), \A t \in Slots : t # s => Same(t),
         Placed(s), UnrefJob(s)
  PROVE  Covered(j)'
<1>1. refs \in [Jobs -> Nat] /\ priv \in [Slots -> PrivData \cup {None}]
  BY DEF Types, SlotTypes, JobTypes
<1>2. priv[s] # None
  BY DEF UnrefJob, Placed, Stands, Types, SlotTypes, Server!TypeOK
<1>3. priv'[s] = None /\ UNCHANGED <<out, listed, misgiven>>
  BY <1>1 DEF UnrefJob
<1>4. priv[s].job \in Jobs \cup {None}
  BY <1>1, <1>2, PrivFields
<1>5. Counted(j)' \subseteq Counted(j) /\ Players(j)' \subseteq Players(j) \ {s}
  BY <1>3, SlotUses
<1>6. CASE priv[s].job = j
  <2>1. s \in Players(j)
    BY <1>2, <1>6 DEF Players
  <2>2. refs'[j] = IF refs[j] = 0 THEN 0 ELSE refs[j] - 1
    BY <1>1, <1>6 DEF UnrefJob, Unref
  <2>3. QED
    BY <1>1, <1>3, <1>5, <2>1, <2>2, LessCovered
<1>7. CASE priv[s].job # j
  <2>1. refs'[j] = refs[j]
    BY <1>1, <1>4, <1>7 DEF UnrefJob, Unref
  <2>2. QED
    BY <1>1, <1>3, <1>5, <2>1, FewerCovered
<1>8. QED
  BY <1>6, <1>7

LEMMA ManageCovered ==
  ASSUME Types, NEW j \in Jobs, Covered(j), Unborn(j), Manage, UNCHANGED <<out, priv>>
  PROVE  Covered(j)'
<1>1. refs \in [Jobs -> Nat] /\ listed \in Jobs \cup {None}
  BY DEF Types, JobTypes
<1>2. Counted(j)' = Counted(j) /\ Players(j)' = Players(j)
  BY DEF Counted, Players
<1>3. ASSUME NEW k \in Jobs, Start(k) PROVE Covered(j)'
  <2>1. CASE k = j
    <3>1. refs[j] = 0 /\ j \notin misgiven /\ refs'[j] = 1
      BY <1>1, <1>3, <2>1 DEF Start, Unborn
    <3>2. Owed(j) = 0
      BY <3>1, OwedSum DEF Covered
    <3>3. Owed(j)' = 1
      <4>1. Listed(j) = 0 /\ Listed(j)' = 1
        BY <1>3, <2>1, SessionAssumption DEF Start, Listed
      <4>2. QED
        BY <1>2, <3>2, <4>1, OwedSum, OwedSumNext
    <3>4. QED
      BY <3>1, <3>3 DEF Covered
  <2>2. CASE k # j
    <3>1. refs'[j] = refs[j] /\ misgiven' = misgiven /\ listed' # j
      BY <1>1, <1>3, <2>2 DEF Start
    <3>2. QED
      BY <1>1, <1>2, <3>1, FewerCovered
  <2>3. QED
    BY <2>1, <2>2
<1>4. ASSUME NEW k \in Jobs, Reap(k) \/ Plays(k) PROVE Covered(j)'
  BY <1>1, <1>2, <1>4, FewerCovered DEF Reap, Plays
<1>5. ASSUME NEW k \in Jobs, Remove(k) PROVE Covered(j)'
  <2>1. listed = k /\ listed' = None /\ misgiven' = misgiven /\ Unref(k)
    BY <1>5 DEF Remove
  <2>2. CASE k = j
    <3>1. refs'[j] = IF refs[j] = 0 THEN 0 ELSE refs[j] - 1
      BY <1>1, <2>1, <2>2 DEF Unref
    <3>2. listed = j /\ listed' # j
      BY <2>1, <2>2, SessionAssumption
    <3>3. QED
      BY <1>1, <1>2, <2>1, <3>1, <3>2, LessCovered
  <2>3. CASE k # j
    <3>1. refs'[j] = refs[j] /\ listed' # j
      BY <1>1, <2>1, <2>3, SessionAssumption DEF Unref
    <3>2. QED
      BY <1>1, <1>2, <2>1, <3>1, FewerCovered
  <2>4. QED
    BY <2>2, <2>3
<1>6. QED
  BY <1>3, <1>4, <1>5 DEF Manage

LEMMA StepCovered ==
  ASSUME IInv, [Next]_vars, NEW j \in Jobs
  PROVE  Covered(j)'
<1>1. Types /\ Covered(j) /\ Unborn(j) /\ \A s \in Slots : Placed(s)
  BY DEF IInv, RefsCover, Covered, Placed
<1>2. ASSUME NEW s \in Slots, Call(s) PROVE Covered(j)'
  BY <1>1, <1>2, CallCovered
<1>3. ASSUME NEW s \in Slots, Callback(s) PROVE Covered(j)'
  <2>1. \A t \in Slots : t # s => Same(t)
    BY <1>1, <1>3, OtherSame
  <2>2. QED
    BY <1>1, <1>3, <2>1, ServeCovered, ContinueCovered, LookupCovered, UnaccessCovered, UnrefCovered
       DEF Callback
<1>4. CASE Manage /\ UNCHANGED slotVars
  BY <1>1, <1>4, ManageCovered DEF slotVars
<1>5. CASE UNCHANGED vars
  BY <1>1, <1>5 DEF vars, slotVars, jobVars, Covered, Owed
<1>6. QED
  BY <1>2, <1>3, <1>4, <1>5 DEF Next

-----------------------------------------------------------------------------
(* An object is not used before it is started.                              *)
LEMMA StepUnborn ==
  ASSUME IInv, [Next]_vars, NEW j \in Jobs
  PROVE  Unborn(j)'
<1>1. /\ refs \in [Jobs -> Nat] /\ listed \in Jobs \cup {None} /\ state \in [Jobs -> States]
      /\ Unborn(j) /\ \A s \in Slots : Stands(s)
      /\ priv \in [Slots -> PrivData \cup {None}]
  BY DEF IInv, Types, SlotTypes, JobTypes
<1>2. ASSUME UNCHANGED <<listed, state, misgiven>>, state[j] = "none" => refs'[j] = refs[j]
      PROVE  Unborn(j)'
  BY <1>1, <1>2 DEF Unborn
<1>3. ASSUME NEW s \in Slots, Call(s) PROVE Unborn(j)'
  BY <1>2, <1>3 DEF Call, jobVars
<1>4. ASSUME NEW s \in Slots, NEW k \in Got(s), k # None, state[j] = "none"
      PROVE  k # j
  BY <1>1, <1>4, GotTypes DEF Unborn, IInv
<1>5. ASSUME NEW s \in Slots, Callback(s) PROVE Unborn(j)'
  <2>1. CASE Lookup(s)
    <3>1. state[j] = "none" => refs'[j] = refs[j]
      BY <1>1, <1>4, <2>1, GotTypes DEF Lookup, IInv
    <3>2. QED
      BY <1>2, <2>1, <3>1 DEF Lookup
  <2>2. CASE ServePlay(s)
    <3>1. state[j] = "none" => refs'[j] = refs[j]
      BY <1>1, <1>4, <2>2, GotTypes, PlayAt DEF ServePlay, IInv
    <3>2. QED
      BY <1>2, <2>2, <3>1 DEF ServePlay
  <2>3. CASE \/ LookupBegins(s) \/ ServePart(s) \/ PlayBegins(s) \/ Fault(s)
             \/ ServeDownload(s) \/ ServeDownloadFails(s) \/ ServeAll(s)
             \/ ContinuePart(s) \/ ContinueAll(s) \/ ContinueHeader(s) \/ ContinueDownload(s)
             \/ ContinuePlay(s) \/ Send(s) \/ Finish(s)
    BY <1>2, <2>3 DEF LookupBegins, ServePart, PlayBegins, Fault, ServeDownload, ServeDownloadFails,
       ServeAll, ContinuePart, ContinueAll, ContinueHeader, ContinueDownload, ContinuePlay, Send,
       Finish, jobVars
  <2>4. CASE Unaccess(s)
    <3>1. PICK k \in Got(s) :
             IF k = None THEN UNCHANGED <<refs, access, misgiven>>
             ELSE /\ Unref(k)
                  /\ misgiven' = IF k = out[s] THEN misgiven ELSE misgiven \cup {k}
      BY <2>4 DEF Unaccess
    <3>2. k \in Jobs \cup {None}
      BY <3>1, GotTypes DEF IInv
    <3>3. QED
      BY <1>1, <1>4, <2>4, <3>1, <3>2 DEF Unaccess, Unref, Unborn
  <2>5. CASE UnrefJob(s)
    <3>1. priv[s].job \in Jobs \cup {None}
      BY <1>1, <2>5, PrivFields DEF UnrefJob, Stands, IInv, Types, SlotTypes, Server!TypeOK
    <3>2. refs[j] = 0 => refs'[j] = 0
      BY <1>1, <2>5, <3>1 DEF UnrefJob, Unref
    <3>3. QED
      BY <1>1, <1>2, <2>5, <3>2 DEF UnrefJob, Unborn
  <2>6. QED
    BY <1>5, <2>1, <2>2, <2>3, <2>4, <2>5 DEF Callback
<1>6. ASSUME NEW k \in Jobs, Start(k) \/ Reap(k) \/ Plays(k) \/ Remove(k) PROVE Unborn(j)'
  BY <1>1, <1>6, SessionAssumption DEF Start, Reap, Plays, Remove, Unref, Unborn, States
<1>7. CASE UNCHANGED vars
  BY <1>1, <1>7 DEF vars, jobVars, Unborn
<1>8. QED
  BY <1>3, <1>5, <1>6, <1>7 DEF Next, Manage

LEMMA InitInv == Init => IInv
<1>1. SUFFICES ASSUME Init PROVE IInv
  OBVIOUS
<1>2. Types
  BY <1>1, InitTypes
<1>3. \A s \in Slots : Stands(s) /\ Counts(s)
  BY <1>1 DEF Init, Server!Init, Stands, Counts, Leftover
<1>4. \A j \in Jobs : Unborn(j)
  BY <1>1, SessionAssumption DEF Init, Unborn
<1>5. ASSUME NEW j \in Jobs PROVE Owed(j) = 0
  <2>1. Counted(j) = {} /\ Players(j) = {} /\ Listed(j) = 0
    BY <1>1, SessionAssumption DEF Init, Counted, Players, Listed
  <2>2. Cardinality(Counted(j)) = 0 /\ Cardinality(Players(j)) = 0
    BY <2>1, FS_EmptySet
  <2>3. Listed(j) = 0
    BY <2>1
  <2>4. QED
    BY <2>2, <2>3, OwedSum
<1>6. RefsCover
  BY <1>1, <1>5 DEF Init, RefsCover
<1>7. QED
  BY <1>2, <1>3, <1>4, <1>6 DEF IInv

LEMMA StepInv == IInv /\ [Next]_vars => IInv'
<1>1. SUFFICES ASSUME IInv, [Next]_vars PROVE IInv'
  OBVIOUS
<1>2. Types'
  BY <1>1, StepTypes DEF IInv
<1>3. \A s \in Slots : (Stands(s) /\ Counts(s))'
  BY <1>1, StepPlaced DEF IInv, Placed
<1>4. \A j \in Jobs : Unborn(j)'
  BY <1>1, StepUnborn
<1>5. RefsCover'
  BY <1>1, StepCovered DEF Covered, RefsCover
<1>6. QED
  BY <1>2, <1>3, <1>4, <1>5 DEF IInv

LEMMA Inductive == Spec => []IInv
  BY InitInv, StepInv, PTL DEF Spec

-----------------------------------------------------------------------------
(* Every variable keeps its type: of each reachable state of the slots of   *)
(* the streaming server and of the jobs they are counted on.                *)
THEOREM TypesHold == Spec => []TypeOK
<1>1. IInv => TypeOK
  BY TypesTypeOK DEF IInv
<1>2. QED
  BY <1>1, Inductive, PTL

(* A job object that no access was wrongly given back to has a reference    *)
(* for the list, for each request counted on it and for each player: the    *)
(* get and unref of http_request_process and http_continue_process balance. *)
THEOREM JobsOutliveSessions == Spec => []RefsCover
<1>1. IInv => RefsCover
  BY DEF IInv
<1>2. QED
  BY <1>1, Inductive, PTL

(* A session that is called again finds its priv_data, one that ended left  *)
(* none behind but that of a download whose header failed.                  *)
THEOREM PrivKept == Spec => []PrivMatchesSession
<1>1. IInv => PrivMatchesSession
  BY DEF IInv, PrivMatchesSession, Stands, Leftover
<1>2. QED
  BY <1>1, Inductive, PTL

(* The step that gives an access back is the one of a slot that had one.    *)
LEMMA AccessStep ==
  ASSUME IInv, [Next]_vars, NEW j \in Jobs, access'[j] < access[j]
  PROVE  \E s \in Slots : Unaccess(s)
<1>1. access \in [Jobs -> Int] /\ listed \in Jobs \cup {None}
  BY DEF IInv, Types, JobTypes
<1>2. ASSUME NEW s \in Slots, Callback(s), ~Unaccess(s) PROVE FALSE
  <2>1. CASE Lookup(s)
    <3>1. access' = access \/ \E k \in Jobs : access' = [access EXCEPT ![k] = @ + 1]
      BY <2>1, GotTypes DEF Lookup, IInv
    <3>2. QED
      BY <1>1, <3>1
  <2>2. CASE ~Lookup(s)
    <3>1. access' = access
      BY <1>2, <2>2 DEF Callback, LookupBegins, ServePart, PlayBegins, ServePlay, ServeDownload,
         ServeDownloadFails, ServeAll, ContinuePart, ContinueAll, ContinueHeader, ContinueDownload,
         ContinuePlay, Send, Finish, UnrefJob, Fault, jobVars
    <3>2. QED
      BY <1>1, <3>1
  <2>3. QED
    BY <2>1, <2>2
<1>3. ASSUME access' = access PROVE FALSE
  BY <1>1, <1>3
<1>4. Manage => access' = access
  BY DEF Manage, Start, Reap, Plays, Remove
<1>5. \A s \in Slots : Call(s) => access' = access
  BY DEF Call, jobVars
<1>6. UNCHANGED vars => access' = access
  BY DEF vars, jobVars
<1>7. QED
  BY <1>2, <1>3, <1>4, <1>5, <1>6 DEF Next

(* gstreamill_unaccess is only called for a slot whose request was counted, *)
(* or that an unsent header of a download left with priv_data.              *)
THEOREM AccessGivenBack == Spec => GivenBackOnce
<1>1. ASSUME IInv, [Next]_vars, NEW j \in Jobs, access'[j] < access[j]
      PROVE  \E s \in Slots : /\ step[s] = "unaccess" /\ step'[s] # "unaccess"
                              /\ \/ out[s] # None
                                 \/ priv[s] # None /\ priv[s].segments
  <2>1. PICK s \in Slots : Unaccess(s)
    BY <1>1, AccessStep
  <2>2. step'[s] # "unaccess"
    BY <1>1, <2>1, ReturnAt, GotoAt DEF Unaccess, IInv
  <2>3. step[s] = "unaccess" /\ Counts(s)
    BY <1>1, <2>1 DEF Unaccess, IInv
  <2>4. QED
    BY <2>2, <2>3 DEF Counts
<1>2. IInv /\ [Next]_vars =>
        [\A j \in Jobs : access'[j] < access[j] =>
          \E s \in Slots : /\ step[s] = "unaccess" /\ step'[s] # "unaccess"
                           /\ \/ out[s] # None
                              \/ priv[s] # None /\ priv[s].segments]_vars
  BY <1>1
<1>3. QED
  BY <1>2, Inductive, PTL DEF Spec, GivenBackOnce
=============================================================================
