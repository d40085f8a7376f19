-------------------------- MODULE SourceRingProofs --------------------------
(***************************************************************************)
(* For any number of encoder streams, any ring size above one and any      *)
(* number of samples: the ring between a source stream that is not live    *)
(* and its encoders implements StreamQueue, which names the encoders that  *)
(* can miss samples, and it is safe to read for all the others.            *)
(***************************************************************************)
EXTENDS SourceRing, TLAPS

-----------------------------------------------------------------------------
(* Positions.                                                              *)

(* The number of samples in q rounds of the ring.                          *)
Rounds(q) == Size * q

LEMMA Division ==
  ASSUME NEW n \in Nat
  PROVE  /\ n % Size \in Slots
         /\ n \div Size \in Int
         /\ n = Rounds(n \div Size) + (n % Size)
  BY RingAssumption, SMT DEF Slots, Rounds

LEMMA NextRound ==
  ASSUME NEW q \in Int
  PROVE  Rounds(q) \in Int /\ Rounds(q + 1) = Rounds(q) + Size
  BY RingAssumption DEF Rounds

(* Different numbers of rounds are at least one round apart.               *)
LEMMA RoundsApart ==
  ASSUME NEW p \in Int, NEW q \in Int, p < q
  PROVE  Rounds(p) + Size <= Rounds(q)
<1> DEFINE k == q - p
<1>1. k \in Nat /\ k > 0 /\ Rounds(q) = Rounds(p) + Size * k
  BY RingAssumption DEF Rounds
<1>2. Size * k >= Size
  BY <1>1, RingAssumption
<1> QED
  BY <1>1, <1>2, NextRound, RingAssumption

LEMMA SameRound ==
  ASSUME NEW p \in Int, NEW q \in Int,
         Rounds(q) - Rounds(p) < Size, Rounds(p) - Rounds(q) < Size
  PROVE  p = q
<1>1. ASSUME p < q PROVE FALSE
  <2>1. Rounds(p) + Size <= Rounds(q)
    BY <1>1, RoundsApart
  <2> QED
    BY <2>1, NextRound, RingAssumption
<1>2. ASSUME q < p PROVE FALSE
  <2>1. Rounds(q) + Size <= Rounds(p)
    BY <1>2, RoundsApart
  <2> QED
    BY <2>1, NextRound, RingAssumption
<1> QED
  BY <1>1, <1>2

(* The remainder is determined by the number.                              *)
LEMMA Remainder ==
  ASSUME NEW n \in Nat, NEW q \in Int, NEW r \in Slots, n = Rounds(q) + r
  PROVE  n % Size = r
<1> DEFINE p == n \div Size
           s == n % Size
<1>1. p \in Int /\ s \in Slots /\ n = Rounds(p) + s
  BY Division
<1> HIDE DEF p, s
<1>2. Rounds(p) \in Int /\ Rounds(q) \in Int
  BY <1>1, NextRound
<1>3. Rounds(q) - Rounds(p) < Size /\ Rounds(p) - Rounds(q) < Size
  BY <1>1, <1>2, RingAssumption DEF Slots
<1>4. p = q
  BY <1>1, <1>3, SameRound
<1>5. s = r
  BY <1>1, <1>2, <1>4 DEF Slots
<1> QED
  BY <1>5 DEF s

(* The position of the source after n samples, that of an encoder that has *)
(* finished with n of them.                                                *)
At(n) == IF n = 0 THEN -1 ELSE (n - 1) % Size

LEMMA AtType ==
  ASSUME NEW n \in Nat
  PROVE  At(n) \in Slots \cup {-1} /\ (n > 0 => At(n) \in Slots) /\ (At(n) = -1 <=> n = 0)
  BY Division DEF At, Slots

LEMMA SuccType ==
  ASSUME NEW p \in Slots \cup {-1}
  PROVE  Succ(p) \in Slots
  BY Division, RingAssumption DEF Succ, Slots

(* One sample further, one position further.                               *)
LEMMA AtSucc ==
  ASSUME NEW n \in Nat
  PROVE  Succ(At(n)) = At(n + 1)
<1>1. CASE n = 0
  BY <1>1, RingAssumption DEF At, Succ
<1>2. CASE n > 0
  <2> DEFINE m == n - 1
             r == m % Size
             q == m \div Size
  <2>1. m \in Nat /\ r \in Slots /\ q \in Int /\ m = Rounds(q) + r
    BY <1>2, Division
  <2>2. At(n) = r /\ At(n + 1) = n % Size /\ n = m + 1 /\ Rounds(q) \in Int
    BY <1>2, <2>1, NextRound DEF At
  <2> HIDE DEF m, r, q
  <2>3. CASE r < Size - 1
    <3>1. r + 1 \in Slots /\ n = Rounds(q) + (r + 1)
      BY <2>1, <2>2, <2>3, RingAssumption DEF Slots
    <3>2. n % Size = r + 1
      BY <3>1, <2>1, Remainder
    <3>3. (r + 1) % Size = r + 1
      BY <3>1, RingAssumption, SMT DEF Slots
    <3> QED
      BY <2>2, <3>2, <3>3 DEF Succ
  <2>4. CASE r = Size - 1
    <3>1. q + 1 \in Int /\ 0 \in Slots /\ n = Rounds(q + 1) + 0
      BY <2>1, <2>2, <2>4, NextRound, RingAssumption DEF Slots
    <3>2. n % Size = 0
      BY <3>1, Remainder
    <3>3. Size % Size = 0
      BY RingAssumption, SMT
    <3> QED
      BY <2>2, <2>4, <3>2, <3>3, RingAssumption DEF Succ
  <2> QED
    BY <2>1, <2>3, <2>4, RingAssumption DEF Slots
<1> QED
  BY <1>1, <1>2

(* Fewer than Size samples apart, two positions differ ...                 *)
LEMMA AtDiffers ==
  ASSUME NEW m \in Nat, NEW n \in Nat, m < n, n - m < Size
  PROVE  At(m) # At(n)
<1>1. CASE m = 0
  BY <1>1, AtType
<1>2. CASE m > 0
  <2> DEFINE a == m - 1
             b == n - 1
             r == a % Size
             p == a \div Size
             q == b \div Size
  <2>1. a \in Nat /\ b \in Nat /\ a < b /\ b - a < Size /\ At(m) = r /\ At(n) = b % Size
    BY <1>2 DEF At
  <2>2. /\ r \in Slots /\ p \in Int /\ a = Rounds(p) + r
        /\ b % Size \in Slots /\ q \in Int /\ b = Rounds(q) + (b % Size)
    BY <2>1, Division
  <2> HIDE DEF a, b, r, p, q
  <2>3. ASSUME b % Size = r PROVE FALSE
    <3>1. Rounds(q) - Rounds(p) \in 1..(Size - 1)
      BY <2>1, <2>2, <2>3, NextRound, RingAssumption DEF Slots
    <3>2. Rounds(p) \in Int /\ Rounds(q) \in Int
      BY <2>2, NextRound
    <3>3. p = q
      BY <2>2, <3>1, <3>2, SameRound, RingAssumption
    <3> QED
      BY <3>1, <3>3, <2>2, NextRound
  <2> QED
    BY <2>1, <2>3
<1> QED
  BY <1>1, <1>2

(* ... and exactly Size apart they are the same.                           *)
LEMMA AtLap ==
  ASSUME NEW m \in Nat, m > 0
  PROVE  At(m + Size) = At(m)
<1> DEFINE a == m - 1
           r == a % Size
           q == a \div Size
<1>1. a \in Nat /\ a + Size \in Nat /\ At(m) = r /\ At(m + Size) = (a + Size) % Size
  BY RingAssumption DEF At
<1>2. r \in Slots /\ q \in Int /\ a = Rounds(q) + r
  BY <1>1, Division
<1> HIDE DEF a, r, q
<1>3. q + 1 \in Int /\ a + Size = Rounds(q + 1) + r
  BY <1>1, <1>2, NextRound, RingAssumption DEF Slots
<1>4. (a + Size) % Size = r
  BY <1>1, <1>2, <1>3, Remainder
<1> QED
  BY <1>1, <1>4

-----------------------------------------------------------------------------
(* The inductive invariant of a stream that is not live.                   *)

(* Samples the source has stored, and those an encoder has finished with.  *)
Stored  == IF src = "idle" THEN count ELSE count - 1
Done(e) == IF enc[e] = "push" THEN last[e] - 1 ELSE last[e]

(* The source publishes a position for each sample; at its end it rests.   *)
Source ==
  /\ position = At(count)
  /\ src # "idle" => count > 0 /\ ~eos

(* The last Size samples are in their slots, and the one before them until *)
(* it is replaced.                                                         *)
Oldest == IF src \in {"check", "free"} THEN count - Size ELSE count - Size + 1
Filled ==
  /\ \A k \in 1..Stored : k >= Oldest => ring[At(k)] = k
  /\ \A s \in Slots : ring[s] <= Stored

(* An encoder stays behind the sample the source is at, and its position   *)
(* tells how many it has finished with.                                    *)
Behind(e) ==
  /\ last[e] = 0 \/ last[e] < count
  /\ enc[e] = "push" => last[e] > 0
  /\ enc[e] = "differs" => last[e] = 0 \/ last[e] + 1 < count
  /\ enc[e] = "read" => last[e] + 1 < count
  /\ enc[e] \in {"ending", "eos"} => count > 0
  /\ enc[e] = "eos" => eos
  /\ enc[e] # "eos" => current[e] = At(Done(e))
  /\ enc[e] # "fault"

(* At most a ring of samples waits for it, and the source goes on only     *)
(* when there is room for one more.  One that has not begun holds no slot. *)
Waited(e) == src = "check" /\ e \in todo
Room(e) ==
  /\ Done(e) > 0 => count - Done(e) <= Size
  /\ Done(e) > 0 /\ ~Waited(e) => count - Done(e) < Size
  /\ Done(e) = 0 => count <= Size + 1
  /\ Done(e) = 0 /\ ~Waited(e) => count <= Size

IInv ==
  /\ TypeOK
  /\ ~is_live => Source /\ Filled /\ \A e \in Encoders \ adrift : Behind(e) /\ Room(e)

-----------------------------------------------------------------------------
(* Every step keeps the types, of a live stream as well.                   *)
LEMMA TypeStep ==
  ASSUME TypeOK, [Next]_vars
  PROVE  TypeOK'
<1> USE DEF TypeOK, source, encoders, Goto
<1> \A e \in Encoders : Next1(e) \in Slots
  BY SuccType DEF Next1
<1>1. CASE Sample
  BY <1>1, SuccType DEF Sample
<1>2. ASSUME NEW e \in Encoders, Check(e) PROVE TypeOK'
  BY <1>2 DEF Check, Passed
<1>3. CASE Checked
  BY <1>3 DEF Checked
<1>4. CASE Free
  BY <1>4 DEF Free
<1>5. CASE Store
  BY <1>5 DEF Store
<1>6. CASE Eos
  BY <1>6 DEF Eos
<1>7. ASSUME NEW e \in Encoders, NeedData(e) PROVE TypeOK'
  BY <1>7 DEF NeedData
<1>8. ASSUME NEW e \in Encoders, Look(e) PROVE TypeOK'
  BY <1>8 DEF Look
<1>14. ASSUME NEW e \in Encoders, LookNone(e) PROVE TypeOK'
  BY <1>14 DEF LookNone
<1>15. ASSUME NEW e \in Encoders, LookAgain(e) PROVE TypeOK'
  BY <1>15 DEF LookAgain
<1>9. ASSUME NEW e \in Encoders, LookEos(e) PROVE TypeOK'
  BY <1>9 DEF LookEos
<1>10. ASSUME NEW e \in Encoders, Read(e) PROVE TypeOK'
  BY <1>10 DEF Read
<1>11. ASSUME NEW e \in Encoders, Pushed(e) PROVE TypeOK'
  BY <1>11 DEF Pushed
<1>12. ASSUME NEW e \in Encoders, Fault(e) PROVE TypeOK'
  BY <1>12 DEF Fault
<1>13. CASE UNCHANGED vars
  BY <1>13 DEF vars
<1> QED
  BY <1>1, <1>2, <1>3, <1>4, <1>5, <1>6, <1>7, <1>8, <1>9, <1>10, <1>11, <1>12, <1>13,
     <1>14, <1>15
  DEF Next, Callback, Encoder

(* Nothing has been delivered, nothing taken.                              *)
LEMMA InitInv ==
  ASSUME Init
  PROVE  IInv
<1>1. TypeOK
  BY RingAssumption DEF Init, TypeOK
<1>2. At(0) = -1
  BY DEF At
<1>3. Source /\ Filled
  BY <1>2 DEF Init, Source, Filled, Stored, Slots
<1>4. ASSUME NEW e \in Encoders PROVE Behind(e) /\ Room(e)
  BY <1>2, RingAssumption DEF Init, Behind, Room, Done, Waited
<1> QED
  BY <1>1, <1>3, <1>4 DEF IInv

(* What the invariant says of an encoder at its next sample.               *)
LEMMA NextSample ==
  ASSUME IInv, ~is_live, NEW e \in Encoders \ adrift, enc[e] # "eos"
  PROVE  Done(e) \in Nat /\ Next1(e) = At(Done(e) + 1)
<1>1. Done(e) \in Nat /\ current[e] = At(Done(e))
  BY DEF IInv, Behind, Done, TypeOK
<1> QED
  BY <1>1, AtSucc DEF Next1

(* The sample an encoder takes, or is using, is in its slot.               *)
LEMMA ReadNext ==
  ASSUME IInv, ~is_live, NEW e \in Encoders \ adrift, enc[e] \in {"read", "push"}
  PROVE  /\ Done(e) + 1 <= Stored
         /\ ring[Next1(e)] = Done(e) + 1
<1> DEFINE n == Done(e)
<1>1. n \in Nat /\ Next1(e) = At(n + 1)
  BY NextSample
<1>2. n + 1 < count /\ count \in Nat /\ n + 1 <= Stored /\ Stored \in Nat
  BY <1>1 DEF IInv, Behind, Done, Stored, TypeOK
<1>3. n + 1 >= Oldest
  BY <1>1, <1>2, RingAssumption DEF IInv, Room, Waited, Oldest
<1> HIDE DEF n
<1>4. ring[At(n + 1)] = n + 1
  BY <1>1, <1>2, <1>3 DEF IInv, Filled
<1> QED
  BY <1>1, <1>2, <1>4 DEF n

(* A step that changes nothing of an encoder but its progress.             *)
LEMMA KeepDone ==
  ASSUME TypeOK, NEW e \in Encoders, last'[e] = last[e],
         enc'[e] = enc[e] \/ (enc[e] # "push" /\ enc'[e] # "push")
  PROVE  Done(e)' = Done(e) /\ Done(e) \in Int
  BY DEF Done, TypeOK

(* The source goes on to the next sample.                                  *)
LEMMA SampleInv ==
  ASSUME IInv, ~is_live, Sample
  PROVE  IInv'
<1> USE RingAssumption DEF IInv, Source, source, encoders
<1>1. TypeOK'
  BY TypeStep DEF Next
<1>2. position' = At(count')
  BY AtSucc DEF Sample, TypeOK
<1>3. Filled'
  BY <1>1 DEF Sample, Filled, Stored, Oldest, TypeOK
<1>4. ASSUME NEW e \in Encoders \ adrift PROVE Behind(e)' /\ Room(e)'
  <2>1. Done(e)' = Done(e) /\ Done(e) \in Int
    BY KeepDone DEF Sample
  <2>2. Behind(e)'
    BY <2>1 DEF Sample, Behind, TypeOK
  <2>3. Room(e)'
    BY <2>1 DEF Sample, Room, Waited, TypeOK
  <2> QED
    BY <2>2, <2>3
<1> QED
  BY <1>1, <1>2, <1>3, <1>4 DEF Sample, TypeOK

(* The wait is passed for an encoder.                                      *)
LEMMA CheckInv ==
  ASSUME IInv, ~is_live, NEW e \in Encoders, Check(e)
  PROVE  IInv'
<1> USE RingAssumption DEF IInv, Source, source, encoders
<1>1. TypeOK'
  BY TypeStep DEF Next, Callback
<1>2. Filled' /\ Source'
  BY DEF Check, Passed, Filled, Stored, Oldest
<1>3. ASSUME NEW f \in Encoders \ adrift' PROVE Behind(f)' /\ Room(f)'
  <2>1. f \in Encoders \ adrift /\ Behind(f) /\ Room(f)
    BY <1>3 DEF Check, Passed
  <2>2. Done(f)' = Done(f) /\ Done(f) \in Nat /\ count \in Nat
    BY <2>1 DEF Check, Passed, Done, TypeOK, Behind
  <2>3. Behind(f)'
    BY <2>1, <2>2 DEF Check, Passed, Behind
  <2>4. Room(f)'
    <3>1. CASE f # e
      BY <2>1, <2>2, <3>1 DEF Check, Passed, Room, Waited
    <3>2. CASE f = e
      <4>1. current[f] = At(Done(f)) /\ position # current[f]
        BY <2>1, <3>2 DEF Check, Behind
      <4>2. Done(f) = 0 => count <= Size
        BY <1>3, <2>1, <2>2, <3>2, <4>1 DEF Check, Passed, At, TypeOK
      <4>3. Done(f) > 0 => count # Done(f) + Size
        BY <2>2, <4>1, AtLap
      <4>4. count' = count
        BY DEF Check, Passed
      <4> QED
        BY <2>1, <2>2, <4>2, <4>3, <4>4 DEF Room
    <3> QED
      BY <3>1, <3>2
  <2> QED
    BY <2>3, <2>4
<1> QED
  BY <1>1, <1>2, <1>3

(* The rest of new_sample_callback, and eos_callback.                      *)
LEMMA SourceInv ==
  ASSUME IInv, ~is_live, Checked \/ Free \/ Store \/ Eos
  PROVE  IInv'
<1> USE RingAssumption DEF IInv, Source, source, encoders
<1>1. TypeOK'
  BY TypeStep DEF Next, Callback
<1>2. ASSUME NEW e \in Encoders \ adrift PROVE Behind(e)' /\ Room(e)'
  <2>1. Done(e)' = Done(e) /\ Done(e) \in Int
    BY KeepDone DEF Checked, Free, Store, Eos
  <2> QED
    BY <2>1 DEF Checked, Free, Store, Eos, Behind, Room, Waited, TypeOK
<1>3. adrift' = adrift /\ ~is_live'
  BY DEF Checked, Free, Store, Eos
<1>4. CASE Checked \/ Eos
  BY <1>1, <1>2, <1>3, <1>4 DEF Checked, Eos, Filled, Stored, Oldest, TypeOK
<1>5. CASE Free
  <2>1. \A k \in 1..Stored : k > count - Size => At(k) # position
    BY <1>5, AtDiffers DEF Free, Stored, TypeOK
  <2>2. position \in Slots
    BY <1>5, AtType DEF Free, TypeOK
  <2>3. Filled'
    <3>1. \A k \in 1..Stored : At(k) \in Slots
      BY AtType DEF Stored, TypeOK
    <3> QED
      BY <1>5, <2>1, <2>2, <3>1 DEF Free, Filled, Stored, Oldest, TypeOK
  <2> QED
    BY <1>1, <1>2, <1>3, <1>5, <2>3 DEF Free, TypeOK
<1>6. CASE Store
  <2>1. \A k \in 1..Stored : k > count - Size => At(k) # position
    BY <1>6, AtDiffers DEF Store, Stored, TypeOK
  <2>2. position \in Slots /\ position = At(count) /\ count > 0
    BY <1>6, AtType DEF Store, TypeOK
  <2>3. Filled'
    <3>1. \A k \in 1..count : At(k) \in Slots
      BY AtType DEF TypeOK
    <3> QED
      BY <1>6, <2>1, <2>2, <3>1 DEF Store, Filled, Stored, Oldest, TypeOK
  <2> QED
    BY <1>1, <1>2, <1>3, <1>6, <2>3 DEF Store, TypeOK
<1> QED
  BY <1>4, <1>5, <1>6

(* The reads of an encoder that move nothing.                              *)
LEMMA LookInv ==
  ASSUME IInv, ~is_live, NEW e \in Encoders,
         NeedData(e) \/ Look(e) \/ LookNone(e) \/ LookAgain(e)
  PROVE  IInv'
<1> USE RingAssumption DEF IInv, Source, source, encoders, Goto
<1>1. TypeOK'
  BY TypeStep DEF Next, Encoder
<1>2. Source' /\ Filled' /\ ~is_live'
  BY DEF NeedData, Look, LookNone, LookAgain, Filled, Stored, Oldest
<1>3. ASSUME NEW f \in Encoders \ adrift' PROVE Behind(f)' /\ Room(f)'
  <2>1. f \in Encoders \ adrift /\ Behind(f) /\ Room(f)
    BY <1>3 DEF NeedData, Look, LookNone, LookAgain
  <2>2. Done(f)' = Done(f) /\ Done(f) \in Int
    BY <2>1, KeepDone DEF NeedData, Look, LookNone, LookAgain, TypeOK
  <2>3. Room(f)'
    BY <2>1, <2>2 DEF NeedData, Look, LookNone, LookAgain, Room, Waited
  <2>4. CASE f # e
    BY <2>1, <2>2, <2>3, <2>4 DEF NeedData, Look, LookNone, LookAgain, Behind, TypeOK
  <2>5. CASE f = e
    <3>1. enc[e] \in {"idle", "wait", "differs", "equal"}
      BY DEF NeedData, Look, LookNone, LookAgain
    <3>2. Next1(e) = At(last[e] + 1) /\ last[e] \in Nat /\ count \in Nat
      BY <2>1, <2>5, <3>1, NextSample DEF Done, TypeOK
    <3>3. CASE NeedData(e)
      BY <2>1, <2>2, <2>3, <2>5, <3>3 DEF NeedData, Behind, TypeOK
    <3>4. CASE Look(e)
      <4>1. enc'[e] = "differs" => last[e] = 0 \/ last[e] + 1 < count
        BY <2>1, <2>5, <3>2, <3>4 DEF Look, Behind, TypeOK
      <4> QED
        BY <2>1, <2>2, <2>3, <2>5, <3>4, <4>1 DEF Look, Behind, TypeOK
    <3>5. CASE LookNone(e)
      <4>1. position # -1 => count > 0 /\ count # 1
        BY <1>3, <2>5, <3>2, <3>5, AtType DEF LookNone
      <4>2. enc'[e] = "read" => last[e] + 1 < count
        BY <2>1, <2>5, <3>2, <3>5, <4>1 DEF LookNone, Behind, TypeOK
      <4> QED
        BY <2>1, <2>2, <2>3, <2>5, <3>5, <4>2 DEF LookNone, Behind, TypeOK
    <3>6. CASE LookAgain(e)
      <4>1. enc'[e] = "ending" => count > 0
        BY <2>1, <2>5, <3>2, <3>6, AtType DEF LookAgain, TypeOK
      <4> QED
        BY <2>1, <2>2, <2>3, <2>5, <3>6, <4>1 DEF LookAgain, Behind, TypeOK
    <3> QED
      BY <3>3, <3>4, <3>5, <3>6
  <2> QED
    BY <2>4, <2>5
<1> QED
  BY <1>1, <1>2, <1>3

(* The steps of an encoder that take a sample, or the end of the stream.   *)
LEMMA TakeInv ==
  ASSUME IInv, ~is_live, NEW e \in Encoders,
         LookEos(e) \/ Read(e) \/ Fault(e) \/ Pushed(e)
  PROVE  IInv'
<1> USE RingAssumption DEF IInv, Source, source, encoders, Goto
<1>1. TypeOK'
  BY TypeStep DEF Next, Encoder
<1>2. Source' /\ Filled' /\ ~is_live' /\ adrift' = adrift
  BY DEF LookEos, Read, Fault, Pushed, Filled, Stored, Oldest
<1>3. ASSUME NEW f \in Encoders \ adrift PROVE Behind(f)' /\ Room(f)'
  <2>1. Behind(f) /\ Room(f)
    OBVIOUS
  <2>2. CASE f # e
    <3>1. Done(f)' = Done(f) /\ Done(f) \in Int
      BY <2>2, KeepDone DEF LookEos, Read, Fault, Pushed, TypeOK
    <3> QED
      BY <2>1, <2>2, <3>1 DEF LookEos, Read, Fault, Pushed, Behind, Room, Waited, TypeOK
  <2>3. CASE f = e
    <3>1. CASE LookEos(e)
      <4>1. Done(f)' = Done(f) /\ Done(f) \in Int
        BY <2>3, <3>1, KeepDone DEF LookEos, TypeOK
      <4> QED
        BY <2>1, <2>3, <3>1, <4>1 DEF LookEos, Behind, Room, Waited, TypeOK
    <3>2. CASE Read(e)
      <4>1. last'[e] = last[e] + 1 /\ last[e] + 1 < count /\ enc'[e] = "push"
        BY <2>1, <2>3, <3>2, ReadNext DEF Read, Behind, Done, TypeOK
      <4>2. Done(f)' = Done(f) /\ Done(f) \in Int
        BY <2>3, <3>2, <4>1 DEF Read, Done, TypeOK
      <4> QED
        BY <2>1, <2>3, <3>2, <4>1, <4>2 DEF Read, Behind, Room, Waited, TypeOK
    <3>3. CASE Fault(e)
      BY <2>1, <2>3, <3>3, ReadNext DEF Fault, Behind, Done, TypeOK
    <3>4. CASE Pushed(e)
      <4>1. Next1(e) = At(last[e]) /\ enc[e] = "push" /\ enc'[e] = "idle"
        BY <2>1, <2>3, <3>4, NextSample DEF Pushed, Done, TypeOK
      <4>2. current'[e] = At(last[e]) /\ last' = last
        BY <3>4, <4>1 DEF Pushed, TypeOK
      <4>3. Done(f)' = last[f] /\ Done(f) = last[f] - 1 /\ last[f] > 0
        BY <2>1, <2>3, <4>1, <4>2 DEF Done, Behind
      <4>4. UNCHANGED <<src, todo, count, eos>>
        BY <3>4 DEF Pushed
      <4>5. Behind(f)'
        BY <2>1, <2>3, <4>1, <4>2, <4>3, <4>4 DEF Behind, TypeOK
      <4>6. Room(f)'
        BY <2>1, <2>3, <4>3, <4>4 DEF Room, Waited, Behind, TypeOK
      <4> QED
        BY <4>5, <4>6
    <3> QED
      BY <3>1, <3>2, <3>3, <3>4
  <2> QED
    BY <2>2, <2>3
<1> QED
  BY <1>1, <1>2, <1>3

(* Every step keeps the invariant.                                         *)
LEMMA StepInv ==
  ASSUME IInv, [Next]_vars
  PROVE  IInv'
<1>1. TypeOK'
  BY TypeStep DEF IInv
<1>2. CASE is_live
  BY <1>1, <1>2 DEF IInv, Next, vars, source, encoders, Callback, Encoder, Sample, Check, Passed,
     Checked, Free, Store, Eos, NeedData, Look, LookNone, LookAgain, LookEos, Read, Pushed, Fault
<1>3. CASE ~is_live /\ UNCHANGED vars
  BY <1>1, <1>3 DEF IInv, vars, source, encoders, Source, Filled, Stored, Oldest, Behind, Room,
     Waited, Done
<1> QED
  BY <1>2, <1>3, SampleInv, CheckInv, SourceInv, LookInv, TakeInv DEF Next, Callback, Encoder

-----------------------------------------------------------------------------
(* The types, of every stream.                                             *)
THEOREM TypesHold == Spec => []TypeOK
<1>1. Init => TypeOK
  BY InitInv DEF IInv
<1>2. TypeOK /\ [Next]_vars => TypeOK'
  BY TypeStep
<1> QED
  BY <1>1, <1>2, PTL DEF Spec

(* The invariant is inductive.                                             *)
THEOREM Inductive == Spec => []IInv
<1>1. Init => IInv
  BY InitInv
<1>2. IInv /\ [Next]_vars => IInv'
  BY StepInv
<1> QED
  BY <1>1, <1>2, PTL DEF Spec

(* need_data_callback never uses an empty or replaced slot of a stream     *)
(* that is not live, but for an encoder that was out of step at its start. *)
THEOREM ReadsSafe == Spec => []ReadsSample
<1>1. ASSUME IInv, ~is_live, NEW e \in Encoders \ adrift
      PROVE  /\ enc[e] = "read" => ring[Next1(e)] # 0
             /\ enc[e] = "push" => ring[Next1(e)] = last[e]
  BY <1>1, ReadNext DEF IInv, Done, TypeOK
<1>2. IInv => ReadsSample
  BY <1>1 DEF ReadsSample
<1> QED
  BY <1>2, Inductive, PTL

(* The end of such a stream costs an encoder at least one sample and at    *)
(* most a ring of them, if it was in step with the source at its start.    *)
THEOREM LossBounded == Spec => []EosLoss
<1>1. IInv => EosLoss
  BY RingAssumption DEF EosLoss, IInv, Source, Behind, Room, Waited, Done, TypeOK
<1> QED
  BY <1>1, Inductive, PTL

-----------------------------------------------------------------------------
(* What the mapping makes of the variables of a stream that is not live.   *)
LEMMA QueueInit ==
  ASSUME Init
  PROVE  Queue!Init
  BY DEF Init, Queue!Init

(* Store is a Write: there is room in the queue.                           *)
LEMMA StoreWrites ==
  ASSUME IInv, ~is_live, Store
  PROVE  Queue!Write
<1>1. \A e \in Encoders \ adrift : count - 1 < last[e] + Size
  BY RingAssumption DEF IInv, Room, Waited, Behind, Done, TypeOK, Store
<1> QED
  BY <1>1 DEF IInv, Store, encoders, Queue!Write, Source, TypeOK

(* Read is a Take, or what an encoder adrift finds.                        *)
LEMMA ReadTakes ==
  ASSUME IInv, ~is_live, NEW e \in Encoders, Read(e)
  PROVE  Queue!Take(e) \/ Queue!Find(e)
<1>1. ~is_live' /\ UNCHANGED <<src, count, eos, adrift>>
  BY DEF Read, source
<1>2. Stored \in Nat
  BY DEF IInv, Source, Stored, TypeOK
<1>3. CASE e \notin adrift
  <2>1. last' = [last EXCEPT ![e] = last[e] + 1] /\ last[e] + 1 <= Stored
    BY <1>3, ReadNext DEF Read, Done
  <2>2. last[e] < IF src = "idle" THEN count ELSE count - 1
    BY <2>1, <1>2 DEF Stored, IInv, TypeOK
  <2> QED
    BY <1>1, <1>3, <2>1, <2>2 DEF Queue!Take
<1>4. CASE e \in adrift
  <2> DEFINE n == ring[Next1(e)]
  <2>1. Next1(e) \in Slots
    BY SuccType DEF IInv, TypeOK, Next1
  <2>2. n \in 1..Stored /\ last' = [last EXCEPT ![e] = n]
    BY <1>2, <2>1 DEF Read, IInv, Filled, TypeOK
  <2> HIDE DEF n
  <2>3. n \in 1..(IF src = "idle" THEN count ELSE count - 1)
    BY <2>2 DEF Stored
  <2> QED
    BY <1>1, <1>4, <2>2, <2>3 DEF Queue!Find
<1> QED
  BY <1>3, <1>4

(* An encoder strays only at its start.                                    *)
LEMMA CheckStrays ==
  ASSUME IInv, ~is_live, NEW e \in Encoders, Check(e)
  PROVE  Queue!Stray(e) \/ UNCHANGED Queue!vars
<1>1. CASE adrift' = adrift
  BY <1>1 DEF Check, Passed, Queue!vars
<1>2. CASE adrift' # adrift
  <2>1. e \notin adrift /\ current[e] = -1 /\ count > Size /\ adrift' = adrift \cup {e}
    BY <1>2 DEF Check, Passed
  <2>2. Behind(e) /\ enc[e] # "eos"
    BY <2>1 DEF IInv, Check, Behind, Source
  <2>3. Done(e) \in Nat /\ At(Done(e)) = -1
    BY <2>1, <2>2 DEF Behind, Done, IInv, TypeOK
  <2>4. Done(e) = 0
    BY <2>3, AtType
  <2>5. last[e] <= 1 /\ count - 1 >= Size
    BY <2>1, <2>4, RingAssumption DEF Done, IInv, TypeOK
  <2> QED
    BY <2>1, <2>5 DEF Check, Passed, Queue!Stray
<1> QED
  BY <1>1, <1>2

LEMMA LookStrays ==
  ASSUME IInv, ~is_live, NEW e \in Encoders, LookNone(e)
  PROVE  Queue!Stray(e) \/ UNCHANGED Queue!vars
<1>1. CASE adrift' = adrift
  BY <1>1 DEF LookNone, source, Queue!vars
<1>2. CASE adrift' # adrift
  <2>1. e \notin adrift /\ count = 1 /\ adrift' = adrift \cup {e}
    BY <1>2 DEF LookNone
  <2>2. last[e] = 0
    BY <2>1 DEF IInv, Behind, TypeOK
  <2> QED
    BY <2>1, <2>2 DEF LookNone, source, Queue!Stray
<1> QED
  BY <1>1, <1>2

LEMMA QueueStep ==
  ASSUME IInv, [Next]_vars
  PROVE  [Queue!Next]_(Queue!vars)
<1> USE DEF source, encoders
<1> is_live' = is_live
  BY DEF Next, vars, Callback, Encoder, Sample, Check, Passed, Checked, Free, Store, Eos, NeedData,
     Look, LookNone, LookAgain, LookEos, Read, Pushed, Fault
<1>1. CASE is_live
  BY <1>1 DEF Queue!vars
<1>2. CASE ~is_live
  <2>1. CASE Store
    BY <1>2, <2>1, StoreWrites DEF Queue!Next
  <2>2. ASSUME NEW e \in Encoders, Read(e) PROVE Queue!Next
    BY <1>2, <2>2, ReadTakes DEF Queue!Next
  <2>3. CASE Eos
    BY <1>2, <2>3 DEF Eos, Queue!Close, Queue!Next
  <2>4. ASSUME NEW e \in Encoders, Check(e) \/ LookNone(e)
        PROVE  Queue!Next \/ UNCHANGED Queue!vars
    BY <1>2, <2>4, CheckStrays, LookStrays DEF Queue!Next
  <2>5. CASE Sample
    BY <1>2, <2>5 DEF Sample, Queue!vars, IInv, TypeOK
  <2>6. CASE Checked \/ Free
    BY <2>6 DEF Checked, Free, Queue!vars
  <2>7. ASSUME NEW e \in Encoders,
               NeedData(e) \/ Look(e) \/ LookAgain(e) \/ LookEos(e) \/ Pushed(e) \/ Fault(e)
        PROVE  UNCHANGED Queue!vars
    BY <2>7 DEF NeedData, Look, LookAgain, LookEos, Pushed, Fault, Queue!vars
  <2>8. CASE UNCHANGED vars
    BY <2>8 DEF vars, Queue!vars
  <2> QED
    BY <2>1, <2>2, <2>3, <2>4, <2>5, <2>6, <2>7, <2>8 DEF Next, Callback, Encoder
<1> QED
  BY <1>1, <1>2

(* A stream that is not live implements the queue.                         *)
THEOREM ImplementsQueue == Spec => QueueSpec
<1>1. Init => Queue!Init
  BY QueueInit
<1>2. IInv /\ [Next]_vars => [Queue!Next]_(Queue!vars)
  BY QueueStep
<1> QED
  BY <1>1, <1>2, Inductive, PTL DEF Spec, QueueSpec, Queue!Spec
=============================================================================
