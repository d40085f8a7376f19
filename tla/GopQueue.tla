------------------------------ MODULE GopQueue ------------------------------
(***************************************************************************)
(* What the cache of an encoder output promises its readers: a queue of    *)
(* groups of pictures, each with its time stamp and the words of its       *)
(* payload in the order the encoder gave them. The last one grows, the     *)
(* oldest are given up, and no more of them than a new sample needs.       *)
(***************************************************************************)
EXTENDS Naturals, Sequences

CONSTANTS
    Capacity,   \* words of memory
    Header,     \* words of memory a group costs beside its payload
    MaxTs       \* bound: the largest time stamp

VARIABLES
    gops,       \* the groups, oldest first; time stamp 0: before the first key
    count       \* words of payload given so far

Fresh == <<[ts |-> 0, data |-> <<>>]>>
Used(q) ==
    LET first[n \in 0..Len(q)] == IF n = 0 THEN 0 ELSE first[n - 1] + Header + Len(q[n].data)
    IN first[Len(q)]
Fits(q, size) == Used(q) + size + Header < Capacity

Init == gops = Fresh /\ count = 0

(* What may stay of a queue when a sample comes.                           *)
Kept(q, size) ==
    LET from(d) == SubSeq(q, d, Len(q))
    IN {from(d) : d \in {d \in DOMAIN q : Fits(from(d), size) /\ (d > 1 => ~Fits(from(d - 1), size))}}

(* A sample of some words enters the last group, or opens another one.     *)
Put ==
    \E size \in 1..(Capacity - Header) :
        /\ count' = count + size
        /\ LET data == [i \in 1..size |-> count + i]
               more(q) == [q EXCEPT ![Len(q)].data = @ \o data]
               opened(q) == {Append(q, [ts |-> t, data |-> data]) : t \in q[Len(q)].ts..MaxTs}
           IN gops' \in UNION {{more(q)} \cup opened(q) : q \in Kept(gops, size)}

(* The worker was started again.                                           *)
Restart == gops' = Fresh /\ UNCHANGED count

Next == Put \/ Restart

Spec == Init /\ [][Next]_<<gops, count>>
=============================================================================
