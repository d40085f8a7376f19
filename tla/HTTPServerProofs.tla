-------------------------- MODULE HTTPServerProofs --------------------------
(***************************************************************************)
(* Proofs about HTTPServer, for any number of slots and of workers: a slot  *)
(* has one owner, a hang-up is kept, and the server implements              *)
(* CallbackProtocol.                                                       *)
(***************************************************************************)
EXTENDS HTTPServer, FiniteSetTheorems, TLAPS

Statuses == {"NONE", "CONNECTED", "REQUEST", "CONTINUE", "IDLE", "BLOCK", "FINISH"}
Labels == {"no", "request", "clear", "callback", "finish"}

Shape ==
    /\ status \in [Slots -> Statuses] /\ pc \in [Slots -> Labels]
    /\ free \subseteq Slots /\ pool \subseteq Slots /\ block \subseteq Slots /\ idle \subseteq Slots

(* A slot is in one place: among the free ones, in one queue or with one    *)
(* worker.                                                                  *)
Apart(s) ==
    /\ s \in free => s \notin pool /\ s \notin block /\ s \notin idle /\ pc[s] = "no"
    /\ s \in pool => s \notin block /\ s \notin idle /\ pc[s] = "no"
    /\ s \in block => s \notin idle /\ pc[s] = "no"
    /\ s \in idle => pc[s] = "no"

Nowhere(s) ==
    s \notin free /\ s \notin pool /\ s \notin block /\ s \notin idle /\ pc[s] = "no"

(* The status tells where.                                                  *)
Placed(s) ==
    /\ status[s] = "NONE" <=> s \in free
    /\ s \in pool => status[s] \in {"REQUEST", "IDLE", "BLOCK"}
    /\ s \in block => status[s] \in {"REQUEST", "BLOCK"}
    /\ s \in idle => status[s] = "IDLE"
    /\ pc[s] \in {"request", "clear"} => status[s] = "REQUEST"
    /\ pc[s] = "callback" => status[s] \in {"REQUEST", "CONTINUE"}
    /\ pc[s] = "finish" => status[s] = "FINISH"
    /\ status[s] = "CONNECTED" => Nowhere(s)
    /\ Nowhere(s) => status[s] \in {"CONNECTED", "IDLE"}

IInv == Shape /\ \A s \in Slots : Apart(s) /\ Placed(s)

LEMMA InitInv == Init => IInv
  BY DEF Init, IInv, Shape, Statuses, Labels, Apart, Placed, Nowhere

LEMMA RecordInv ==
  ASSUME IInv, NEW s \in Slots, NEW ev, Record(s, ev)
  PROVE  IInv'
<1>1. CASE status' = [status EXCEPT ![s] = "REQUEST"] /\ pool' = pool \cup {s} /\ status[s] = "CONNECTED"
  BY <1>1 DEF IInv, Record, Shape, Statuses, Labels, Apart, Placed, Nowhere
<1>2. CASE UNCHANGED <<status, pool>>
  BY <1>2 DEF IInv, Record, Shape, Statuses, Labels, Apart, Placed, Nowhere
<1>3. QED
  BY <1>1, <1>2 DEF Record

LEMMA NetworkInv ==
  ASSUME IInv, NEW s \in Slots, Network(s) \/ Late(s)
  PROVE  IInv'
<1>1. \E ev : Record(s, ev)
  BY DEF Network, Send, Close, HangUp, HasRoom, Event, Late
<1>2. QED
  BY <1>1, RecordInv

LEMMA AcceptInv ==
  ASSUME IInv, NEW s \in Slots, Accept(s)
  PROVE  IInv'
  BY DEF IInv, Accept, Shape, Statuses, Labels, Apart, Placed, Nowhere

(* What Take leaves in the slot.                                            *)
LEMMA TakeEffect ==
  ASSUME IInv, NEW s \in Slots, Take(s)
  PROVE  /\ s \in pool /\ pool' = pool \ {s} /\ UNCHANGED <<free, block, idle>>
         /\ \/ /\ status[s] = "REQUEST" /\ status' = [status EXCEPT ![s] = "REQUEST"]
               /\ pc' = [pc EXCEPT ![s] = "request"]
            \/ /\ status[s] \in {"IDLE", "BLOCK"} /\ status' = [status EXCEPT ![s] = "CONTINUE"]
               /\ pc' = [pc EXCEPT ![s] = "callback"]
            \/ /\ status' = [status EXCEPT ![s] = "FINISH"]
               /\ pc' = [pc EXCEPT ![s] = "finish"]
<1>1. s \in pool /\ pool' = pool \ {s} /\ UNCHANGED <<free, block, idle>>
  BY DEF Take
<1>2. status \in [Slots -> Statuses] /\ status[s] \in {"REQUEST", "IDLE", "BLOCK"}
  BY <1>1 DEF IInv, Shape, Placed
<1>3. \/ status[s] = "REQUEST" /\ status' = [status EXCEPT ![s] = "REQUEST"]
      \/ status[s] \in {"IDLE", "BLOCK"} /\ status' = [status EXCEPT ![s] = "CONTINUE"]
      \/ status' = [status EXCEPT ![s] = "FINISH"]
  BY <1>2 DEF Take, TakeHangup, TakeOut, TakeIn, TakeNoEvent, Waiting, ReadResults
<1>4. /\ status'[s] = "REQUEST" => pc' = [pc EXCEPT ![s] = "request"]
      /\ status'[s] = "CONTINUE" => pc' = [pc EXCEPT ![s] = "callback"]
      /\ status'[s] = "FINISH" => pc' = [pc EXCEPT ![s] = "finish"]
  BY DEF Take
<1>5. QED
  BY <1>1, <1>2, <1>3, <1>4

LEMMA TakeInv ==
  ASSUME IInv, NEW s \in Slots, Take(s)
  PROVE  IInv'
  BY TakeEffect DEF IInv, Shape, Statuses, Labels, Apart, Placed, Nowhere

LEMMA WorkInv ==
  ASSUME IInv, NEW s \in Slots, Work(s)
  PROVE  IInv'
<1>1. CASE Take(s)
  BY <1>1, TakeInv
<1>2. CASE Reject(s)
  BY <1>2 DEF IInv, Reject, Release, Shape, Statuses, Labels, Apart, Placed, Nowhere
<1>3. CASE ReadMore(s)
  BY <1>3 DEF IInv, ReadMore, Shape, Statuses, Labels, Apart, Placed, Nowhere
<1>4. CASE Parsed(s)
  BY <1>4 DEF IInv, Parsed, queueVars, Shape, Statuses, Labels, Apart, Placed, Nowhere
<1>5. CASE ClearIn(s)
  BY <1>5 DEF IInv, ClearIn, queueVars, Shape, Statuses, Labels, Apart, Placed, Nowhere
<1>6. CASE Blocks(s)
  BY <1>6 DEF IInv, Blocks, Shape, Statuses, Labels, Apart, Placed, Nowhere
<1>7. CASE Idles(s)
  BY <1>7 DEF IInv, Idles, Shape, Statuses, Labels, Apart, Placed, Nowhere
<1>8. CASE Ends(s)
  BY <1>8 DEF IInv, Ends, Release, Shape, Statuses, Labels, Apart, Placed, Nowhere
<1>9. CASE Finish(s)
  BY <1>9 DEF IInv, Finish, Release, Shape, Statuses, Labels, Apart, Placed, Nowhere
<1>10. QED
  BY <1>1, <1>2, <1>3, <1>4, <1>5, <1>6, <1>7, <1>8, <1>9 DEF Work

LEMMA StepInv ==
  ASSUME IInv, [Next]_vars
  PROVE  IInv'
<1>1. CASE Tick
  BY <1>1 DEF IInv, Tick, slotVars, queueVars, Shape, Apart, Placed, Nowhere
<1>2. CASE IdleScan
  BY <1>2 DEF IInv, IdleScan, Expired, slotVars, Shape, Apart, Placed, Nowhere
<1>3. CASE IdleTimeout
  BY <1>3 DEF IInv, IdleTimeout, slotVars, queueVars, Shape, Apart, Placed, Nowhere
<1>4. CASE BlockScan
  BY <1>4 DEF IInv, BlockScan, slotVars, Shape, Apart, Placed, Nowhere
<1>5. ASSUME NEW s \in Slots, Network(s) \/ Late(s) PROVE IInv'
  BY <1>5, NetworkInv
<1>6. ASSUME NEW s \in Slots, Accept(s) PROVE IInv'
  BY <1>6, AcceptInv
<1>7. ASSUME NEW s \in Slots, Work(s) PROVE IInv'
  BY <1>7, WorkInv
<1>8. CASE UNCHANGED vars
  BY <1>8 DEF IInv, vars, slotVars, queueVars, Shape, Apart, Placed, Nowhere
<1>9. QED
  BY <1>1, <1>2, <1>3, <1>4, <1>5, <1>6, <1>7, <1>8 DEF Next, Idler

LEMMA Inductive == Spec => []IInv
  BY InitInv, StepInv, PTL DEF Spec

-----------------------------------------------------------------------------
(* A place more or less, as the cardinality the property counts.            *)
LEMMA PlacesApart ==
  ASSUME NEW s \in Slots, Apart(s)
  PROVE  /\ Places(s) <= 1
         /\ Places(s) = 0 => Nowhere(s)
<1> DEFINE P == {q \in {"free", "pool", "block", "idle", "worker"} :
        \/ q = "free" /\ s \in free
        \/ q = "pool" /\ s \in pool
        \/ q = "block" /\ s \in block
        \/ q = "idle" /\ s \in idle
        \/ q = "worker" /\ pc[s] # "no"}
<1>1. Places(s) = Cardinality(P)
  BY DEF Places
<1>2. CASE P = {}
  <2>1. Nowhere(s)
    BY <1>2 DEF Nowhere
  <2>2. QED
    BY <1>1, <1>2, <2>1, FS_EmptySet
<1>3. CASE \E q : P = {q}
  <2>1. Cardinality(P) = 1
    BY <1>3, FS_Singleton
  <2>2. QED
    BY <1>1, <2>1
<1>4. P = {} \/ \E q : P = {q}
  <2>1. \A q, r \in P : q = r
    BY DEF Apart
  <2>2. QED
    BY <2>1
<1>5. QED
  BY <1>2, <1>3, <1>4

(* For any number of slots and workers, OneOwner: a request slot is never   *)
(* free or queued twice, or worked on by two threads of the pool            *)
(* (httpserver.c:868-966).                                                  *)
THEOREM SlotsOwned == Spec => []OneOwner
<1>1. IInv => OneOwner
  <2>1. SUFFICES ASSUME IInv, NEW s \in Slots
                 PROVE  /\ Places(s) <= 1
                        /\ Places(s) = 0 => status[s] = "CONNECTED" \/ Stranded(s)
                        /\ status[s] = "NONE" <=> s \in free
    BY DEF OneOwner
  <2>2. Apart(s) /\ Placed(s)
    BY <2>1 DEF IInv
  <2>3. Places(s) = 0 => status[s] \in {"CONNECTED", "IDLE"}
    BY <2>2, PlacesApart DEF Placed
  <2>4. QED
    BY <2>2, <2>3, PlacesApart DEF Placed, Stranded
<1>2. QED
  BY <1>1, Inductive, PTL

-----------------------------------------------------------------------------
(* A step drops no hang-up but as the property allows.                      *)
KeepsHangup(t) ==
    "HUP" \in events[t] /\ "HUP" \notin events'[t] =>
        status'[t] \in {"FINISH", "NONE", "CONNECTED"} \/ pc[t] = "clear"

(* The events of a slot are one of its sets, which no action but its own    *)
(* changes.                                                                 *)
EventsShape == events \in [Slots -> SUBSET Events] /\ late \in [Slots -> SUBSET Events] /\ seen \in [Slots -> SUBSET Events]

LEMMA EventsInit == Init => EventsShape
  BY DEF Init, EventsShape

LEMMA RecordEvents ==
  ASSUME EventsShape, NEW s \in Slots, NEW ev \in SUBSET Events, Record(s, ev)
  PROVE  /\ events' \in [Slots -> SUBSET Events] /\ UNCHANGED seen
         /\ \A t \in Slots : "HUP" \in events[t] => "HUP" \in events'[t]
<1>1. Canonical(events[s] \cup ev) \in SUBSET Events
  BY DEF EventsShape, Canonical, Events
<1>2. "HUP" \in events[s] => "HUP" \in Canonical(events[s] \cup ev)
  BY DEF Canonical
<1>3. events' = [events EXCEPT ![s] = Canonical(events[s] \cup ev)] /\ UNCHANGED seen
  BY DEF Record
<1>4. QED
  BY <1>1, <1>2, <1>3 DEF EventsShape

LEMMA NetworkEvents ==
  ASSUME EventsShape, NEW s \in Slots, Network(s) \/ Late(s)
  PROVE  EventsShape' /\ \A t \in Slots : KeepsHangup(t)
<1>1. CASE Network(s)
  <2>1. PICK ev \in Events : Record(s, {ev}) /\ UNCHANGED late
    BY <1>1 DEF Network, Send, Close, HangUp, HasRoom, Event, Events
  <2>2. QED
    BY <2>1, RecordEvents DEF EventsShape, KeepsHangup
<1>2. CASE Late(s)
  <2>1. late[s] \in SUBSET Events /\ Record(s, late[s]) /\ late' = [late EXCEPT ![s] = {}]
    BY <1>2 DEF Late, EventsShape
  <2>2. QED
    BY <2>1, RecordEvents DEF EventsShape, KeepsHangup
<1>3. QED
  BY <1>1, <1>2

LEMMA ReleaseEvents ==
  ASSUME IInv, EventsShape, NEW s \in Slots, Release(s), UNCHANGED seen
  PROVE  EventsShape' /\ \A t \in Slots : KeepsHangup(t)
  BY DEF IInv, Shape, Release, EventsShape, Events, KeepsHangup

LEMMA TakeEvents ==
  ASSUME IInv, EventsShape, NEW s \in Slots, Take(s)
  PROVE  EventsShape' /\ \A t \in Slots : KeepsHangup(t)
<1>1. UNCHANGED <<late, seen>>
  BY DEF Take
<1>2. CASE TakeHangup(s)
  BY <1>1, <1>2 DEF IInv, Shape, TakeHangup, EventsShape, Events, KeepsHangup
<1>3. CASE TakeOut(s)
  BY <1>1, <1>3 DEF TakeOut, EventsShape, Events, KeepsHangup
<1>4. CASE TakeIn(s)
  BY <1>1, <1>4 DEF TakeIn, EventsShape, Events, KeepsHangup
<1>5. CASE TakeNoEvent(s)
  BY <1>1, <1>5 DEF TakeNoEvent, EventsShape, Events, KeepsHangup
<1>6. QED
  BY <1>2, <1>3, <1>4, <1>5 DEF Take

LEMMA WorkEvents ==
  ASSUME IInv, EventsShape, NEW s \in Slots, Work(s)
  PROVE  EventsShape' /\ \A t \in Slots : KeepsHangup(t)
<1>1. CASE Take(s)
  BY <1>1, TakeEvents
<1>2. CASE Reject(s)
  BY <1>2, ReleaseEvents DEF Reject
<1>3. CASE ReadMore(s) \/ Blocks(s) \/ Idles(s)
  BY <1>3 DEF ReadMore, Blocks, Idles, EventsShape, KeepsHangup
<1>4. CASE Parsed(s)
  BY <1>4 DEF Parsed, EventsShape, KeepsHangup
<1>5. CASE ClearIn(s)
  <2>1. Flip(seen[s]) \in SUBSET Events
    BY DEF Flip, Canonical, EventsShape, Events
  <2>2. QED
    BY <1>5, <2>1 DEF ClearIn, EventsShape, KeepsHangup
<1>6. CASE Ends(s)
  BY <1>6, ReleaseEvents DEF Ends
<1>7. CASE Finish(s)
  BY <1>7, ReleaseEvents DEF Finish
<1>8. QED
  BY <1>1, <1>2, <1>3, <1>4, <1>5, <1>6, <1>7 DEF Work

LEMMA AcceptEvents ==
  ASSUME IInv, EventsShape, NEW s \in Slots, Accept(s)
  PROVE  EventsShape' /\ \A t \in Slots : KeepsHangup(t)
<1>1. status \in [Slots -> Statuses] /\ status[s] = "NONE"
  BY DEF IInv, Shape, Placed, Accept
<1>2. status'[s] \in {"NONE", "CONNECTED"}
  BY <1>1 DEF Accept
<1>3. QED
  BY <1>2 DEF Accept, EventsShape, Events, KeepsHangup

LEMMA StepEvents ==
  ASSUME IInv, EventsShape, [Next]_vars
  PROVE  EventsShape' /\ \A t \in Slots : KeepsHangup(t)
<1>1. CASE UNCHANGED <<late, slotVars>>
  BY <1>1 DEF slotVars, EventsShape, KeepsHangup
<1>2. ASSUME NEW s \in Slots, Network(s) \/ Late(s)
      PROVE  EventsShape' /\ \A t \in Slots : KeepsHangup(t)
  BY <1>2, NetworkEvents
<1>3. ASSUME NEW s \in Slots, Accept(s)
      PROVE  EventsShape' /\ \A t \in Slots : KeepsHangup(t)
  BY <1>3, AcceptEvents
<1>4. ASSUME NEW s \in Slots, Work(s)
      PROVE  EventsShape' /\ \A t \in Slots : KeepsHangup(t)
  BY <1>4, WorkEvents
<1>5. Tick \/ Idler \/ BlockScan \/ UNCHANGED vars => UNCHANGED <<late, slotVars>>
  BY DEF Tick, Idler, IdleScan, IdleTimeout, BlockScan, vars
<1>6. QED
  BY <1>1, <1>2, <1>3, <1>4, <1>5 DEF Next

(* For any number of slots, HangupKept: a hang-up that the listening thread *)
(* recorded is not lost but by the unlocked flip of the input event         *)
(* (httpserver.c:922).                                                      *)
THEOREM HangupsKept == Spec => HangupKept
<1>1. Spec => []EventsShape
  <2>1. IInv /\ EventsShape /\ [Next]_vars => EventsShape'
    BY StepEvents
  <2>2. QED
    BY <2>1, EventsInit, Inductive, PTL DEF Spec
<1>2. IInv /\ EventsShape /\ [Next]_vars =>
        [\A s \in Slots : "HUP" \in events[s] /\ "HUP" \notin events'[s] =>
            status'[s] \in {"FINISH", "NONE", "CONNECTED"} \/ pc[s] = "clear"]_vars
  BY StepEvents DEF KeepsHangup
<1>3. QED
  BY <1>1, <1>2, Inductive, PTL DEF Spec, HangupKept

-----------------------------------------------------------------------------
(* The session and the call the slot stands for.                            *)
SessionNow == [s \in Slots |-> SessionOf(status[s])]
CallNow == [s \in Slots |-> CallOf(pc[s], status[s])]

(* A step that changes one slot at most maps to a step of the protocol, by  *)
(* what it does to the session and the call of that slot.                   *)
LEMMA OneSlot ==
  ASSUME NEW s \in Slots, Shape,
         \A t \in Slots \ {s} : status'[t] = status[t] /\ pc'[t] = pc[t]
  PROVE  /\ SessionNow' = [SessionNow EXCEPT ![s] = SessionOf(status'[s])]
         /\ CallNow' = [CallNow EXCEPT ![s] = CallOf(pc'[s], status'[s])]
  BY DEF SessionNow, CallNow

ProtocolStep == Protocol!Next \/ UNCHANGED Protocol!vars

(* The moves of one slot that the protocol has.                             *)
Move(old, new, was, is) ==
    \/ new = old /\ is = was
    \/ old = "none" /\ new = "fresh" /\ was = "no" /\ is = "no"
    \/ old = "fresh" /\ new = "none" /\ was = "no" /\ is = "no"
    \/ old = "fresh" /\ new = "fresh" /\ was = "no" /\ is = "REQUEST"
    \/ old = "kept" /\ new = "kept" /\ was = "no" /\ is = "CONTINUE"
    \/ old \in {"fresh", "kept"} /\ new = "ending" /\ was = "no" /\ is = "FINISH"
    \/ was # "no" /\ new = "none" /\ is = "no"
    \/ was \notin {"no", "FINISH"} /\ new = "kept" /\ is = "no"

SlotMoves(s) ==
    /\ \A t \in Slots \ {s} : status'[t] = status[t] /\ pc'[t] = pc[t]
    /\ Move(SessionOf(status[s]), SessionOf(status'[s]),
            CallOf(pc[s], status[s]), CallOf(pc'[s], status'[s]))

LEMMA StepMaps ==
  ASSUME Shape, NEW s \in Slots, SlotMoves(s)
  PROVE  ProtocolStep
<1>1. /\ SessionNow' = [SessionNow EXCEPT ![s] = SessionOf(status'[s])]
      /\ CallNow' = [CallNow EXCEPT ![s] = CallOf(pc'[s], status'[s])]
  BY OneSlot DEF SlotMoves
<1>2. /\ SessionNow[s] = SessionOf(status[s]) /\ CallNow[s] = CallOf(pc[s], status[s])
      /\ SessionNow = [SessionNow EXCEPT ![s] = SessionNow[s]]
      /\ CallNow = [CallNow EXCEPT ![s] = CallNow[s]]
  BY DEF SessionNow, CallNow
<1>3. QED
  BY <1>1, <1>2 DEF SlotMoves, Move, ProtocolStep, Protocol!Next, Protocol!vars, Protocol!Open,
       Protocol!Drop, Protocol!CallRequest, Protocol!CallContinue, Protocol!CallFinish,
       Protocol!Return, SessionNow, CallNow

LEMMA StutterMaps ==
  ASSUME UNCHANGED <<status, pc>>
  PROVE  ProtocolStep
  BY DEF ProtocolStep, Protocol!vars, SessionOf, CallOf

LEMMA RecordMaps ==
  ASSUME IInv, NEW s \in Slots, Network(s) \/ Late(s)
  PROVE  ProtocolStep
<1>1. PICK ev : Record(s, ev)
  BY DEF Network, Send, Close, HangUp, HasRoom, Event, Late
<1>2. CASE UNCHANGED status
  BY <1>1, <1>2, StutterMaps DEF Record
<1>3. CASE status[s] = "CONNECTED" /\ status' = [status EXCEPT ![s] = "REQUEST"]
  <2>1. SlotMoves(s)
    BY <1>1, <1>3 DEF IInv, Shape, Placed, Nowhere, Record, SlotMoves, Move, SessionOf, CallOf
  <2>2. QED
    BY <2>1, StepMaps DEF IInv
<1>4. QED
  BY <1>1, <1>2, <1>3 DEF Record

LEMMA AcceptMaps ==
  ASSUME IInv, NEW s \in Slots, Accept(s)
  PROVE  ProtocolStep
<1>1. SlotMoves(s)
  BY DEF IInv, Shape, Apart, Placed, Accept, SlotMoves, Move, SessionOf, CallOf
<1>2. QED
  BY <1>1, StepMaps DEF IInv

LEMMA ReleaseMaps ==
  ASSUME IInv, NEW s \in Slots, Release(s), pc[s] # "no"
  PROVE  ProtocolStep
<1>1. SlotMoves(s)
  BY DEF IInv, Shape, Labels, Placed, Release, SlotMoves, Move, SessionOf, CallOf
<1>2. QED
  BY <1>1, StepMaps DEF IInv

LEMMA WorkMaps ==
  ASSUME IInv, NEW s \in Slots, Work(s)
  PROVE  ProtocolStep
<1>1. CASE Take(s)
  <2>1. status[s] \in {"REQUEST", "IDLE", "BLOCK"} /\ pc[s] = "no"
    BY TakeEffect, <1>1 DEF IInv, Apart, Placed
  <2>2. SlotMoves(s)
    BY TakeEffect, <1>1, <2>1 DEF IInv, Shape, SlotMoves, Move, SessionOf, CallOf
  <2>3. QED
    BY <2>2, StepMaps DEF IInv
<1>2. CASE Reject(s) \/ Ends(s) \/ Finish(s)
  BY <1>2, ReleaseMaps DEF Reject, Ends, Finish
<1>3. CASE ReadMore(s) \/ Parsed(s)
  <2>1. SlotMoves(s)
    BY <1>3 DEF IInv, Shape, Placed, ReadMore, Parsed, SlotMoves, Move, SessionOf, CallOf
  <2>2. QED
    BY <2>1, StepMaps DEF IInv
<1>4. CASE ClearIn(s)
  <2>1. SlotMoves(s)
    BY <1>4 DEF IInv, Shape, Placed, ClearIn, SlotMoves, Move, SessionOf, CallOf
  <2>2. QED
    BY <2>1, StepMaps DEF IInv
<1>5. CASE Blocks(s) \/ Idles(s)
  <2>1. SlotMoves(s)
    BY <1>5 DEF IInv, Shape, Placed, Blocks, Idles, SlotMoves, Move, SessionOf, CallOf
  <2>2. QED
    BY <2>1, StepMaps DEF IInv
<1>6. QED
  BY <1>1, <1>2, <1>3, <1>4, <1>5 DEF Work

LEMMA EveryStepMaps ==
  ASSUME IInv, [Next]_vars
  PROVE  ProtocolStep
<1>1. CASE UNCHANGED slotVars
  BY <1>1, StutterMaps DEF slotVars
<1>2. ASSUME NEW s \in Slots, Network(s) \/ Late(s) PROVE ProtocolStep
  BY <1>2, RecordMaps
<1>3. ASSUME NEW s \in Slots, Accept(s) PROVE ProtocolStep
  BY <1>3, AcceptMaps
<1>4. ASSUME NEW s \in Slots, Work(s) PROVE ProtocolStep
  BY <1>4, WorkMaps
<1>5. Tick \/ Idler \/ BlockScan \/ UNCHANGED vars => UNCHANGED slotVars
  BY DEF Tick, Idler, IdleScan, IdleTimeout, BlockScan, vars
<1>6. QED
  BY <1>1, <1>2, <1>3, <1>4, <1>5 DEF Next

(* For any number of slots and workers the server implements                *)
(* CallbackProtocol: the callback of a slot is called with REQUEST first,   *)
(* then with CONTINUE, last with FINISH, and never twice at a time          *)
(* (httpserver.c:773-866, 891-966).                                         *)
THEOREM ServerKeepsProtocol == Spec => ImplementsProtocol
<1>1. Init => Protocol!Init
  BY DEF Init, Protocol!Init, SessionOf, CallOf
<1>2. IInv /\ [Next]_vars => [Protocol!Next]_Protocol!vars
  BY EveryStepMaps DEF ProtocolStep
<1>3. QED
  BY <1>1, <1>2, Inductive, PTL DEF Spec, Protocol!Spec, ImplementsProtocol

-----------------------------------------------------------------------------
(* A slot is nowhere when it has no place, now and after a step.            *)
PlaceNames == {"free", "pool", "block", "idle", "worker"}

LEMMA NoPlace ==
  ASSUME NEW P \in SUBSET PlaceNames
  PROVE  Cardinality(P) = 0 <=> P = {}
<1>1. IsFiniteSet({"free", "pool"})
  <2>1. IsFiniteSet({"free"} \cup {"pool"})
    BY FS_Singleton, FS_AddElement
  <2>2. {"free"} \cup {"pool"} = {"free", "pool"}
    OBVIOUS
  <2>3. QED
    BY <2>1, <2>2
<1>2. IsFiniteSet({"free", "pool", "block"})
  <2>1. IsFiniteSet({"free", "pool"} \cup {"block"})
    BY <1>1, FS_AddElement
  <2>2. {"free", "pool"} \cup {"block"} = {"free", "pool", "block"}
    OBVIOUS
  <2>3. QED
    BY <2>1, <2>2
<1>3. IsFiniteSet({"free", "pool", "block", "idle"})
  <2>1. IsFiniteSet({"free", "pool", "block"} \cup {"idle"})
    BY <1>2, FS_AddElement
  <2>2. {"free", "pool", "block"} \cup {"idle"} = {"free", "pool", "block", "idle"}
    OBVIOUS
  <2>3. QED
    BY <2>1, <2>2
<1>4. IsFiniteSet(P)
  <2>1. IsFiniteSet({"free", "pool", "block", "idle"} \cup {"worker"})
    BY <1>3, FS_AddElement
  <2>2. P \subseteq {"free", "pool", "block", "idle"} \cup {"worker"}
    BY DEF PlaceNames
  <2>3. QED
    BY <2>1, <2>2, FS_Subset
<1>5. QED
  BY <1>4, FS_EmptySet

LEMMA NowhereNow ==
  ASSUME NEW s \in Slots, Nowhere(s)
  PROVE  Places(s) = 0
<1> DEFINE P == {q \in PlaceNames :
        \/ q = "free" /\ s \in free
        \/ q = "pool" /\ s \in pool
        \/ q = "block" /\ s \in block
        \/ q = "idle" /\ s \in idle
        \/ q = "worker" /\ pc[s] # "no"}
<1>1. P = {}
  BY DEF Nowhere, PlaceNames
<1>2. QED
  BY <1>1, NoPlace DEF Places, PlaceNames

LEMMA NowhereNext ==
  ASSUME NEW s \in Slots, Places(s)' = 0
  PROVE  Nowhere(s)'
<1> DEFINE P == {q \in PlaceNames :
        \/ q = "free" /\ s \in free'
        \/ q = "pool" /\ s \in pool'
        \/ q = "block" /\ s \in block'
        \/ q = "idle" /\ s \in idle'
        \/ q = "worker" /\ pc'[s] # "no"}
<1>1. Cardinality(P) = 0
  BY DEF Places, PlaceNames
<1>2. P = {}
  BY <1>1, NoPlace
<1>3. QED
  BY <1>2 DEF Nowhere, PlaceNames

Lost(s) == status[s] = "IDLE" /\ Nowhere(s)

LEMMA WorkLoses ==
  ASSUME IInv, NEW t \in Slots, Work(t), NEW s \in Slots, Lost(s)', ~Lost(s)
  PROVE  Finish(t)
<1> USE DEF IInv, Shape, Statuses, Labels, Apart, Placed, Nowhere, Lost
<1>1. CASE Take(t)
  BY <1>1, TakeEffect
<1>2. CASE Reject(t) \/ Ends(t)
  BY <1>2 DEF Reject, Ends, Release
<1>3. CASE ReadMore(t)
  BY <1>3 DEF ReadMore
<1>4. CASE Parsed(t) \/ ClearIn(t)
  BY <1>4 DEF Parsed, ClearIn, queueVars
<1>5. CASE Blocks(t)
  BY <1>5 DEF Blocks
<1>6. CASE Idles(t)
  BY <1>6 DEF Idles
<1>7. QED
  BY <1>1, <1>2, <1>3, <1>4, <1>5, <1>6 DEF Work

LEMMA StepLoses ==
  ASSUME IInv, [Next]_vars, NEW s \in Slots, Lost(s)', ~Lost(s)
  PROVE  \E t \in Slots \ {s} : pc[t] = "finish" /\ pc'[t] = "no" /\ wakeup[t] = wakeup[s]
<1>1. ASSUME NEW t \in Slots, Network(t) \/ Late(t) PROVE FALSE
  <2>1. \E ev : Record(t, ev)
    BY <1>1 DEF Network, Send, Close, HangUp, HasRoom, Event, Late
  <2>2. QED
    BY <2>1 DEF Record, IInv, Shape, Lost, Nowhere
<1>2. ASSUME NEW t \in Slots, Accept(t) PROVE FALSE
  BY <1>2 DEF Accept, IInv, Shape, Apart, Lost, Nowhere
<1>3. CASE Tick \/ IdleTimeout
  BY <1>3 DEF Tick, IdleTimeout, slotVars, queueVars, Lost, Nowhere
<1>4. CASE IdleScan
  BY <1>4 DEF IdleScan, slotVars, Lost, Nowhere
<1>5. CASE BlockScan
  BY <1>5 DEF BlockScan, slotVars, Lost, Nowhere
<1>6. CASE UNCHANGED vars
  BY <1>6 DEF vars, slotVars, queueVars, Lost, Nowhere
<1>7. ASSUME NEW t \in Slots, Work(t)
      PROVE  t # s /\ pc[t] = "finish" /\ pc'[t] = "no" /\ wakeup[t] = wakeup[s]
  <2>1. Finish(t)
    BY <1>7, WorkLoses
  <2>2. status'[t] = "NONE" /\ pc[t] = "finish" /\ pc'[t] = "no"
    BY <2>1 DEF Finish, Release, IInv, Shape
  <2>3. t # s
    BY <2>2 DEF Lost
  <2>4. status[s] = "IDLE" /\ s \notin idle'
    BY <2>1, <2>3 DEF Finish, Release, IInv, Shape, Lost, Nowhere
  <2>5. s \in idle
    BY <2>1, <2>3, <2>4 DEF Finish, Release, IInv, Shape, Lost, Nowhere
  <2>6. QED
    BY <2>1, <2>2, <2>3, <2>4, <2>5 DEF Finish
<1>8. QED
  BY <1>1, <1>2, <1>3, <1>4, <1>5, <1>6, <1>7 DEF Next, Idler

(* For any number of slots, StrandedByKeyClash: a waiting request is only   *)
(* lost when the FINISH of another one removes the node of its own wake-up  *)
(* time from the idle tree (httpserver.c:961).                             *)
THEOREM StrandedByClash == Spec => StrandedByKeyClash
<1>1. ASSUME IInv, [Next]_vars, NEW s \in Slots, Stranded(s)', ~Stranded(s)
      PROVE  \E t \in Slots \ {s} : pc[t] = "finish" /\ pc'[t] = "no" /\ wakeup[t] = wakeup[s]
  <2>1. Lost(s)'
    BY <1>1, NowhereNext DEF Stranded, Lost
  <2>2. ~Lost(s)
    BY <1>1, NowhereNow DEF Stranded, Lost
  <2>3. QED
    BY <1>1, <2>1, <2>2, StepLoses
<1>2. IInv /\ [Next]_vars =>
        [\A s \in Slots : Stranded(s)' /\ ~Stranded(s) =>
            \E t \in Slots \ {s} : /\ pc[t] = "finish" /\ pc'[t] = "no"
                                  /\ wakeup[t] = wakeup[s]]_vars
  BY <1>1
<1>3. QED
  BY <1>2, Inductive, PTL DEF Spec, StrandedByKeyClash
=============================================================================
