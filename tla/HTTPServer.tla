----------------------------- MODULE HTTPServer -----------------------------
(***************************************************************************)
(* The HTTP server of src/src/httpserver.c: a listening thread over an edge *)
(* triggered epoll, a pool of workers, the idle queue (a tree keyed by the  *)
(* wake-up time) and the block queue with a thread each, and a fixed set of *)
(* request slots that go round between them.                                *)
(*                                                                         *)
(* A worker is anonymous, so its state is kept with the slot it works on.   *)
(* The user callback is a choice of what it may return. The order of the    *)
(* slots inside a queue is abstracted, a client may connect at any time.    *)
(***************************************************************************)
EXTENDS Integers, FiniteSets

CONSTANTS
    Slots,      \* the request slots, kMaxRequests of them in the code
    MaxThreads, \* the size of the pool
    Horizon     \* bound: after this time the callback only finishes

ASSUME ServerAssumption ==
    /\ IsFiniteSet(Slots) /\ Slots # {}
    /\ MaxThreads \in Nat \ {0} /\ Horizon \in Nat \ {0}

VARIABLES
    client,     \* of the slot's connection: a part of its request is still to
                \* come, the whole was sent, it is gone
    late,       \* events epoll_wait returned for the slot's last connection and
                \* the listening thread did not handle yet
    now,        \* the clock
    status, events, wakeup,
    pc, seen,   \* what a worker does with the slot; the events it loaded
    free, pool, block, idle,    \* the queues
    idler       \* the idle thread: scan, empty (waits for a first node), until

slotVars == <<status, events, wakeup, pc, seen>>
queueVars == <<free, pool, block, idle>>
vars == <<client, late, now, slotVars, queueVars, idler>>

Events == {"IN", "OUT", "HUP"}

(* A hang-up (EPOLLHUP, EPOLLERR) comes with input, and among others they   *)
(* make no difference beside it.                                            *)
Canonical(ev) == IF "HUP" \in ev THEN {"HUP"} ELSE ev
EventSets == {Canonical(ev) : ev \in SUBSET Events}
LastTime == Horizon + Cardinality(Slots)

TypeOK ==
    /\ client \in [Slots -> {"part", "whole", "gone"}]
    /\ late \in [Slots -> {{}, {"IN"}, {"HUP"}}]
    /\ now \in 1..LastTime
    /\ status \in [Slots -> {"NONE", "CONNECTED", "REQUEST", "CONTINUE", "IDLE", "BLOCK", "FINISH"}]
    /\ events \in [Slots -> EventSets] /\ seen \in [Slots -> EventSets]
    /\ wakeup \in [Slots -> 0..LastTime]
    /\ pc \in [Slots -> {"no", "request", "clear", "callback", "finish"}]
    /\ free \subseteq Slots /\ pool \subseteq Slots /\ block \subseteq Slots /\ idle \subseteq Slots
    /\ idler \in {"scan", "empty", "until"}

(* The slots are not cleared, but each is over a megabyte, which malloc maps *)
(* afresh: what is never assigned is zero.                                  *)
Init ==
    /\ client = [s \in Slots |-> "part"]
    /\ late = [s \in Slots |-> {}]
    /\ now = 1
    /\ status = [s \in Slots |-> "NONE"]
    /\ events = [s \in Slots |-> {}] /\ seen = [s \in Slots |-> {}]
    /\ wakeup = [s \in Slots |-> 0]
    /\ pc = [s \in Slots |-> "no"]
    /\ free = Slots /\ pool = {} /\ block = {} /\ idle = {}
    /\ idler = "scan"

-----------------------------------------------------------------------------
(* Mutant: the event replaces those the slot has.                           *)
RecordOver(s, ev) ==
    /\ events' = [events EXCEPT ![s] = Canonical(ev)]
    /\ IF ev \cap {"IN", "HUP"} # {} /\ status[s] = "CONNECTED"
       THEN /\ status' = [status EXCEPT ![s] = "REQUEST"]
            /\ pool' = pool \cup {s}
       ELSE UNCHANGED <<status, pool>>
    /\ UNCHANGED <<now, wakeup, pc, seen, free, block, idle, idler>>

(* The listening thread. An event is recorded in the slot the kernel was    *)
(* given, whatever connection the slot serves by now; the first input makes *)
(* it a request.                                                            *)
Record(s, ev) ==
    /\ events' = [events EXCEPT ![s] = Canonical(@ \cup ev)]
    /\ IF ev \cap {"IN", "HUP"} # {} /\ status[s] = "CONNECTED"
       THEN /\ status' = [status EXCEPT ![s] = "REQUEST"]
            /\ pool' = pool \cup {s}
       ELSE UNCHANGED <<status, pool>>
    /\ UNCHANGED <<now, wakeup, pc, seen, free, block, idle, idler>>

(* What the client and the network do to a connection, with the event that  *)
(* reports it.                                                              *)
Event(s, state, ev) ==
    /\ status[s] # "NONE" /\ late[s] = {}
    /\ client' = [client EXCEPT ![s] = state]
    /\ Record(s, {ev})
    /\ UNCHANGED late

(* A part of the request, the rest of it, or something after it.            *)
Send(s) ==
    \/ client[s] = "part" /\ Event(s, "part", "IN")
    \/ client[s] \in {"part", "whole"} /\ Event(s, "whole", "IN")

(* It closes the connection, and later or at once the socket hangs up.      *)
Close(s) == client[s] # "gone" /\ Event(s, "gone", "IN")
HangUp(s) == Event(s, "gone", "HUP")

(* The socket has room, which the kernel reports on its own or along with   *)
(* an input.                                                                *)
HasRoom(s) == Event(s, client[s], "OUT")

(* The rest of the events of one epoll_wait, after the slot was released    *)
(* (that the old socket had room adds nothing to HasRoom).                  *)
Late(s) ==
    /\ late[s] # {}
    /\ late' = [late EXCEPT ![s] = {}]
    /\ Record(s, late[s])
    /\ UNCHANGED client

(* accept_socket, for one connection: the slot is cleared of the last       *)
(* request's events. When epoll_ctl fails it goes back to the free slots.   *)
Accept(s) ==
    /\ s \in free
    /\ events' = [events EXCEPT ![s] = {}]
    /\ \/ /\ free' = free \ {s}
          /\ status' = [status EXCEPT ![s] = "CONNECTED"]
          /\ client' = [client EXCEPT ![s] = "part"]
       \/ UNCHANGED <<free, status, client>>
    /\ UNCHANGED <<late, now, wakeup, pc, seen, pool, block, idle, idler>>

Tick ==
    /\ now < LastTime
    /\ now' = now + 1
    /\ UNCHANGED <<client, late, slotVars, queueVars, idler>>

-----------------------------------------------------------------------------
(* The workers: thread_pool_func. *)

Busy == {s \in Slots : pc[s] # "no"}

(* read_request fails when the client is gone, whatever it sent before, and *)
(* when what it sent fills the buffer.                                      *)
ReadResults(s) == IF client[s] = "gone" THEN {"FINISH"} ELSE {"CONTINUE", "FINISH"}

Waiting(s) == status[s] \in {"IDLE", "BLOCK"}

(* The events decide, under events_mutex, what the worker does next.        *)
TakeHangup(s) ==
    /\ "HUP" \in events[s]
    /\ status' = [status EXCEPT ![s] = "FINISH"]
    /\ events' = [events EXCEPT ![s] = {}]

(* Mutant: whatever the slot was doing it is continued.                     *)
TakeOutContinue(s) ==
    /\ "HUP" \notin events[s] /\ "OUT" \in events[s]
    /\ status' = [status EXCEPT ![s] = "CONTINUE"]
    /\ events' = [events EXCEPT ![s] = @ \ {"OUT"}]

TakeOut(s) ==
    /\ "HUP" \notin events[s] /\ "OUT" \in events[s]
    /\ status' = [status EXCEPT ![s] = IF Waiting(s) THEN "CONTINUE" ELSE @]
    /\ events' = [events EXCEPT ![s] = @ \ {"OUT"}]

TakeIn(s) ==
    /\ events[s] = {"IN"}
    /\ events' = [events EXCEPT ![s] = {}]
    /\ IF Waiting(s)
       THEN \E st \in ReadResults(s) : status' = [status EXCEPT ![s] = st]
       ELSE UNCHANGED status

TakeNoEvent(s) ==
    /\ events[s] = {}
    /\ status' = [status EXCEPT ![s] = IF Waiting(s) THEN "CONTINUE" ELSE @]
    /\ UNCHANGED events

Take(s) ==
    /\ s \in pool /\ Cardinality(Busy) < MaxThreads
    /\ pool' = pool \ {s}
    /\ TakeHangup(s) \/ TakeOut(s) \/ TakeIn(s) \/ TakeNoEvent(s)
    /\ pc' = [pc EXCEPT ![s] = CASE status'[s] = "REQUEST" -> "request"
                                 [] status'[s] = "CONTINUE" -> "callback"
                                 [] status'[s] = "FINISH" -> "finish"
                                 [] OTHER -> "no"]
    /\ UNCHANGED <<client, late, now, wakeup, seen, free, block, idle, idler>>

(* request_data_release: the socket is closed and the slot is free. Events  *)
(* epoll_wait has returned already outlive the socket.                      *)
Release(s) ==
    /\ status' = [status EXCEPT ![s] = "NONE"]
    /\ client' = [client EXCEPT ![s] = "part"]
    /\ \E ev \in {{}, {"IN"}, {"HUP"}} : late' = [late EXCEPT ![s] = ev]
    /\ events' = [events EXCEPT ![s] = {}]
    /\ free' = free \cup {s}
    /\ pc' = [pc EXCEPT ![s] = "no"]

(* Not readable, too long, or refused with 400 or 501.                      *)
Reject(s) ==
    /\ pc[s] = "request"
    /\ Release(s)
    /\ UNCHANGED <<now, wakeup, seen, pool, block, idle, idler>>

(* Mutant: the worker queues the request and calls the callback anyway.     *)
ReadMoreFallsThrough(s) ==
    /\ pc[s] = "request" /\ client[s] = "part"
    /\ block' = block \cup {s}
    /\ pc' = [pc EXCEPT ![s] = "callback"]
    /\ UNCHANGED <<client, late, now, status, events, wakeup, seen, free, pool, idle, idler>>

(* Not complete: the block queue, still as a request.                       *)
ReadMore(s) ==
    /\ pc[s] = "request" /\ client[s] = "part"
    /\ block' = block \cup {s}
    /\ pc' = [pc EXCEPT ![s] = "no"]
    /\ UNCHANGED <<client, late, now, status, events, wakeup, seen, free, pool, idle, idler>>

(* Complete: the worker flips the input event without events_mutex, a load  *)
(* here and a store in ClearIn.                                             *)
Parsed(s) ==
    /\ pc[s] = "request" /\ client[s] = "whole"
    /\ seen' = [seen EXCEPT ![s] = events[s]]
    /\ pc' = [pc EXCEPT ![s] = "clear"]
    /\ UNCHANGED <<client, late, now, status, events, wakeup, queueVars, idler>>

Flip(ev) == Canonical(IF "IN" \in ev THEN ev \ {"IN"} ELSE ev \cup {"IN"})

ClearIn(s) ==
    /\ pc[s] = "clear"
    /\ events' = [events EXCEPT ![s] = Flip(seen[s])]
    /\ seen' = [seen EXCEPT ![s] = {}]
    /\ pc' = [pc EXCEPT ![s] = "callback"]
    /\ UNCHANGED <<client, late, now, status, wakeup, queueVars, idler>>

(* invoke_user_callback, by what the callback returns. The 300 ms of the    *)
(* block queue are over when the clock ticks.                               *)
Blocks(s) ==
    /\ pc[s] = "callback" /\ now <= Horizon
    /\ status' = [status EXCEPT ![s] = "BLOCK"]
    /\ wakeup' = [wakeup EXCEPT ![s] = now]
    /\ block' = block \cup {s}
    /\ pc' = [pc EXCEPT ![s] = "no"]
    /\ UNCHANGED <<client, late, now, events, seen, free, pool, idle, idler>>

Keys == {wakeup[s] : s \in idle}

(* The first time from t on that no node of the tree has.                   *)
FreeKey(t) == CHOOSE k \in t..LastTime : k \notin Keys /\ t..(k - 1) \subseteq Keys

(* Mutant: the idle thread is not signalled.                                *)
IdlesQuietly(s) ==
    /\ pc[s] = "callback" /\ now <= Horizon
    /\ \E t \in 1..Horizon : wakeup' = [wakeup EXCEPT ![s] = FreeKey(t)]
    /\ status' = [status EXCEPT ![s] = "IDLE"]
    /\ idle' = idle \cup {s}
    /\ pc' = [pc EXCEPT ![s] = "no"]
    /\ UNCHANGED <<client, late, now, events, seen, free, pool, block, idler>>

Idles(s) ==
    /\ pc[s] = "callback" /\ now <= Horizon
    /\ \E t \in 1..Horizon : wakeup' = [wakeup EXCEPT ![s] = FreeKey(t)]
    /\ status' = [status EXCEPT ![s] = "IDLE"]
    /\ idle' = idle \cup {s}
    /\ idler' = "scan"
    /\ pc' = [pc EXCEPT ![s] = "no"]
    /\ UNCHANGED <<client, late, now, events, seen, free, pool, block>>

Ends(s) ==
    /\ pc[s] = "callback"
    /\ Release(s)
    /\ UNCHANGED <<now, wakeup, seen, pool, block, idle, idler>>

(* The FINISH callback; a node with the slot's last wake-up time is taken   *)
(* out of the tree, whoever's it is.                                        *)
Finish(s) ==
    /\ pc[s] = "finish"
    /\ idle' = {t \in idle : wakeup[t] # wakeup[s]}
    /\ Release(s)
    /\ UNCHANGED <<now, wakeup, seen, pool, block, idler>>

-----------------------------------------------------------------------------
(* The idle and the block thread. *)

Expired == {s \in idle : wakeup[s] < now}

(* Mutant: the whole tree is emptied, only the expired nodes are woken up.   *)
IdleScanClears ==
    /\ idler = "scan"
    /\ idle' = {}
    /\ pool' = pool \cup Expired
    /\ idler' = CASE idle = {} -> "empty" [] OTHER -> "scan"
    /\ UNCHANGED <<client, late, now, slotVars, free, block>>

IdleScan ==
    /\ idler = "scan"
    /\ idle' = idle \ Expired
    /\ pool' = pool \cup Expired
    /\ idler' = CASE idle = {} -> "empty"
                  [] idle # {} /\ idle' = {} -> "scan"
                  [] OTHER -> "until"
    /\ UNCHANGED <<client, late, now, slotVars, free, block>>

IdleTimeout ==
    /\ idler = "until"
    /\ idle = {} \/ \E s \in idle : wakeup[s] <= now
    /\ idler' = "scan"
    /\ UNCHANGED <<client, late, now, slotVars, queueVars>>

(* The block thread waits for a second at most, so a scan may always come.  *)
BlockScan ==
    /\ \E s \in block : events[s] # {} \/ wakeup[s] < now
    /\ LET woken == {s \in block : events[s] # {} \/ wakeup[s] < now}
       IN  /\ pool' = pool \cup woken
           /\ block' = block \ woken
    /\ UNCHANGED <<client, late, now, slotVars, free, idle, idler>>

-----------------------------------------------------------------------------
Work(s) ==
    \/ Take(s) \/ Reject(s) \/ ReadMore(s) \/ Parsed(s) \/ ClearIn(s)
    \/ Blocks(s) \/ Idles(s) \/ Ends(s) \/ Finish(s)

Network(s) == Send(s) \/ Close(s) \/ HangUp(s) \/ HasRoom(s)

Idler == IdleScan \/ IdleTimeout

Next ==
    \/ Tick \/ Idler \/ BlockScan
    \/ \E s \in Slots : Network(s) \/ Late(s) \/ Accept(s) \/ Work(s)

(* The workers, the idle and the block thread run, and time passes. Nothing *)
(* is asked of the clients, and no event is promised.                       *)
Fairness ==
    /\ WF_vars(Tick) /\ WF_vars(Idler) /\ WF_vars(BlockScan)
    /\ \A s \in Slots : WF_vars(Work(s))

Spec == Init /\ [][Next]_vars /\ Fairness

-----------------------------------------------------------------------------
(* The places a slot is in. *)
Places(s) ==
    Cardinality({q \in {"free", "pool", "block", "idle", "worker"} :
        \/ q = "free" /\ s \in free
        \/ q = "pool" /\ s \in pool
        \/ q = "block" /\ s \in block
        \/ q = "idle" /\ s \in idle
        \/ q = "worker" /\ pc[s] # "no"})

(* A request whose node another one's FINISH took out of the tree.          *)
Stranded(s) == status[s] = "IDLE" /\ Places(s) = 0

(* A slot is free, queued once, or worked on by one worker, and never two   *)
(* of these; only a connection that sent nothing yet is nowhere (the        *)
(* listening thread will queue it), and a stranded one.                     *)
OneOwner ==
    \A s \in Slots :
        /\ Places(s) <= 1
        /\ Places(s) = 0 => status[s] = "CONNECTED" \/ Stranded(s)
        /\ status[s] = "NONE" <=> s \in free

(* The only step that loses a request that waits in the idle queue is the   *)
(* end of another one that last waited for the very same time.              *)
StrandedByKeyClash ==
    [][\A s \in Slots : Stranded(s)' /\ ~Stranded(s) =>
          \E t \in Slots \ {s} : /\ pc[t] = "finish" /\ pc'[t] = "no"
                                /\ wakeup[t] = wakeup[s]]_vars

(* A hang-up the listening thread recorded is dropped by nothing but the    *)
(* end of the session or the unlocked flip of the input event.              *)
HangupKept ==
    [][\A s \in Slots : "HUP" \in events[s] /\ "HUP" \notin events'[s] =>
          status'[s] \in {"FINISH", "NONE", "CONNECTED"} \/ pc[s] = "clear"]_vars

(* A request that came in whole, or whose client went away, is not lost     *)
(* between the threads: it ends, unless it was stranded.                    *)
RequestEnds ==
    \A s \in Slots : client[s] # "part"
                        ~> (status[s] = "NONE" \/ Stranded(s))

(* What a slot's status and its worker mean to the callback.                *)
SessionOf(st) == CASE st = "NONE" -> "none"
                   [] st \in {"CONNECTED", "REQUEST"} -> "fresh"
                   [] st = "FINISH" -> "ending"
                   [] OTHER -> "kept"
CallOf(at, st) == CASE at = "callback" -> st
                    [] at = "finish" -> "FINISH"
                    [] OTHER -> "no"

Protocol == INSTANCE CallbackProtocol WITH
    session <- [s \in Slots |-> SessionOf(status[s])],
    call <- [s \in Slots |-> CallOf(pc[s], status[s])]

(* The server keeps the promise its callback relies on.                     *)
ImplementsProtocol == Protocol!Spec
=============================================================================
