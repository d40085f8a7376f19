------------------------ MODULE EncoderOutputProofs ------------------------
(***************************************************************************)
(* The cache of an encoder output holds, for any size of it and whatever   *)
(* the samples, whole groups of pictures one behind the other. What is     *)
(* proved of it, in this order: what the cache, the records and the files  *)
(* give is a segment; what the playlist names is complete, and numbered    *)
(* one by one; the datagrams; that the ring implements the queue of        *)
(* GopQueue; and that a player, as long as it is not excused, is sent the  *)
(* payload in order.                                                       *)
(***************************************************************************)
EXTENDS EncoderOutput, WellFoundedInduction, SequenceTheorems, TLAPS

(* A set of numbers has a least one: what induction rests on here.         *)
LEMMA Least ==
  ASSUME NEW S \in SUBSET Nat, S # {}
  PROVE  \E m \in S : \A y \in S : m <= y
<1> DEFINE R == OpToRel(<, Nat)
<1>1. PICK m \in S : \A y \in S : ~(<<y, m>> \in R)
  BY NatLessThanWellFounded, WFMin
<1>2. \A y, z \in Nat : y < z => <<y, z>> \in R
  BY DEF OpToRel
<1> HIDE DEF R
<1>3. \A y \in S : ~(y < m)
  BY <1>1, <1>2
<1> QED
  BY <1>3

-----------------------------------------------------------------------------
(* Distances in the ring.                                                  *)

(* The address some words behind another.                                  *)
At(h, d) == Wrap(h + d)

(* The cache has room for a header and a sample.                           *)
LEMMA CacheFacts == Cache \in Nat /\ Cache > 6 + MaxSize /\ MaxSize \in Nat /\ MaxSize > 0
  BY OutputAssumption

(* Distances less than the ring is long add up and lead to different places. *)
LEMMA AtAdds ==
  ASSUME NEW h \in Addr
  PROVE  /\ \A d \in 0..(Cache - 1) : At(h, d) \in Addr
         /\ \A d, e \in Nat : d < Cache /\ d + e <= Cache => Wrap(At(h, d) + e) = At(h, d + e)
         /\ \A d, e \in 0..(Cache - 1) : At(h, d) = At(h, e) => d = e
  BY CacheFacts DEF At, Addr, Wrap

(* What is behind what is written in the ring stays.                       *)
HasLen(ws, n) == Len(ws) = n

(* What a copy into the ring leaves at an address: the word copied, or the *)
(* one before.                                                             *)
Stored(m, h, d, ws, n, e) ==
  /\ d <= e /\ e < d + n => Store(m, At(h, d), ws)[At(h, e)] = ws[e - d + 1]
  /\ ~(d <= e /\ e < d + n) => Store(m, At(h, d), ws)[At(h, e)] = m[At(h, e)]

(* That is so for offsets from any address of the ring.                    *)
LEMMA StoreAt ==
  ASSUME NEW m, NEW h \in Addr, NEW d \in 0..(Cache - 1), NEW ws, NEW n \in Nat,
         HasLen(ws, n), d + n <= Cache, NEW e \in 0..(Cache - 1)
  PROVE  Stored(m, h, d, ws, n, e)
<1>1. At(h, d) \in Addr /\ At(h, e) \in Addr
  BY AtAdds
<1>2. Wrap(At(h, e) - At(h, d) + Cache) = IF d <= e THEN e - d ELSE e - d + Cache
  BY CacheFacts DEF At, Addr, Wrap
<1>3. Store(m, At(h, d), ws)[At(h, e)]
        = IF Wrap(At(h, e) - At(h, d) + Cache) < n
          THEN ws[Wrap(At(h, e) - At(h, d) + Cache) + 1] ELSE m[At(h, e)]
  BY <1>1 DEF Store, HasLen
<1>4. CASE d <= e
  BY <1>2, <1>3, <1>4, CacheFacts DEF Stored
<1>5. CASE e < d
  BY <1>2, <1>3, <1>5, CacheFacts DEF Stored
<1> QED
  BY <1>4, <1>5

(* What is written is there.                                               *)
Written(m, h, d, ws, e) == Store(m, At(h, d), ws)[At(h, e)] = ws[e - d + 1]

(* The same with offsets from an address: words copied at d are found at e *)
(* in their place, and those outside stay.                                 *)
LEMMA StoreIn ==
  ASSUME NEW m, NEW h \in Addr, NEW d \in 0..(Cache - 1), NEW ws, NEW n \in Nat,
         HasLen(ws, n), d + n <= Cache, NEW e \in 0..(Cache - 1), d <= e, e < d + n
  PROVE  Written(m, h, d, ws, e)
<1>1. At(h, d) \in Addr /\ At(h, e) \in Addr
  BY AtAdds
<1>2. Wrap(At(h, e) - At(h, d) + Cache) = e - d
  BY CacheFacts DEF At, Addr, Wrap
<1>3. e - d < n /\ e \in Int /\ d \in Int
  BY CacheFacts
<1> QED
  BY <1>1, <1>2, <1>3 DEF Store, HasLen, Written

-----------------------------------------------------------------------------
(* The groups in the ring.                                                 *)

(* Counted with the headers before it, the first word of group i: b[i] is  *)
(* the number of its first payload word, among all that were given.        *)
Pos(b, i) == b[i] + Header * i

(* From head_addr h on, the cache m holds the groups from lo to hi, with   *)
(* time stamps t: each with two half time stamps, its size, 0 for the last, *)
(* and its payload up to the first word of the next one, b[i + 1].         *)
Bounds(lo, hi, b) ==
  /\ lo \in Nat /\ hi \in Nat /\ lo <= hi /\ b \in [Nat -> Nat]
  /\ \A i, j \in lo..(hi + 1) : i <= j => b[i] <= b[j]
  /\ Pos(b, hi + 1) - Pos(b, lo) < Cache

Held(lo, hi, b, t, h, m, i) ==
  /\ m[At(h, Pos(b, i) - Pos(b, lo))] = <<"ts", t[i]>>
  /\ m[At(h, Pos(b, i) + 2 - Pos(b, lo))] = <<"size", IF i = hi THEN 0 ELSE b[i + 1] - b[i]>>
  /\ \A k \in b[i]..(b[i + 1] - 1) : m[At(h, k + Header * i + Header - Pos(b, lo))] = <<"data", k>>

Ring(lo, hi, b, t, h, m) ==
  /\ Bounds(lo, hi, b)
  /\ t \in [Nat -> Nat]
  /\ h \in Addr
  /\ \A i \in lo..hi : Held(lo, hi, b, t, h, m, i)

(* The place of group i and of where the next one is to begin.             *)
Place(lo, b, h, i) == At(h, Pos(b, i) - Pos(b, lo))

(* Group i lies between head_addr and tail_addr.                           *)
Within(lo, hi, b, i) ==
  /\ lo \in Nat /\ hi \in Nat /\ i \in Nat /\ lo <= i /\ i <= hi
  /\ b[lo] \in Nat /\ b[i] \in Nat /\ b[i + 1] \in Nat /\ b[hi] \in Nat /\ b[hi + 1] \in Nat
  /\ b[i] <= b[i + 1]
  /\ Pos(b, lo) \in Nat /\ Pos(b, i) \in Nat /\ Pos(b, i + 1) \in Nat
  /\ Pos(b, hi) \in Nat /\ Pos(b, hi + 1) \in Nat
  /\ Pos(b, lo) <= Pos(b, i)
  /\ Pos(b, i + 1) = Pos(b, i) + Header + (b[i + 1] - b[i])
  /\ Pos(b, i + 1) <= Pos(b, hi + 1)
  /\ i < hi => Pos(b, i + 1) <= Pos(b, hi)
  /\ Pos(b, hi + 1) - Pos(b, lo) < Cache
  /\ Cache \in Nat /\ Header \in Nat /\ Header = 3

(* The positions of a group are between those of the ring.                 *)
LEMMA Between ==
  ASSUME NEW lo, NEW hi, NEW b, Bounds(lo, hi, b), NEW i \in lo..hi
  PROVE  Within(lo, hi, b, i)
<1>1. /\ lo \in Nat /\ hi \in Nat /\ i \in Nat /\ lo <= i /\ i <= hi
      /\ b \in [Nat -> Nat]
      /\ Pos(b, hi + 1) - Pos(b, lo) < Cache
  BY DEF Bounds
<1>2. b[lo] <= b[i] /\ b[i] <= b[i + 1] /\ b[i + 1] <= b[hi + 1] /\ b[hi] <= b[hi + 1]
  BY <1>1 DEF Bounds
<1>3. i < hi => b[i + 1] <= b[hi]
  BY <1>1 DEF Bounds
<1>4. b[lo] \in Nat /\ b[i] \in Nat /\ b[i + 1] \in Nat /\ b[hi] \in Nat /\ b[hi + 1] \in Nat
  BY <1>1
<1> QED
  BY <1>1, <1>2, <1>3, <1>4, CacheFacts DEF Within, Pos, Header

(* A word is at the same address counted from one group or another.        *)
Same(g, p, h, q, v) == At(g, v - p) = At(h, v - q)

(* Groups given up at the head leave a ring of the others.                 *)
LEMMA Dropped ==
  ASSUME NEW lo, NEW hi, NEW b, NEW t, NEW h, NEW m, Ring(lo, hi, b, t, h, m),
         NEW d \in lo..hi
  PROVE  /\ Ring(d, hi, b, t, Place(lo, b, h, d), m)
         /\ \A i \in d..(hi + 1) : Place(d, b, Place(lo, b, h, d), i) = Place(lo, b, h, i)
<1>1. Bounds(lo, hi, b) /\ h \in Addr /\ t \in [Nat -> Nat]
  BY DEF Ring
<1>2. Within(lo, hi, b, d)
  BY <1>1, Between
<1>3. Bounds(d, hi, b)
  BY <1>1, <1>2 DEF Bounds, Within
<1> DEFINE D == Pos(b, d) - Pos(b, lo)
<1>4. D \in 0..(Cache - 1) /\ At(h, D) \in Addr
  <2>1. D \in 0..(Cache - 1)
    BY <1>2 DEF Within
  <2> HIDE DEF D
  <2> QED
    BY <1>1, <2>1, AtAdds
<1>5. \A v \in Pos(b, d)..Pos(b, hi + 1) : Same(At(h, D), Pos(b, d), h, Pos(b, lo), v)
  <2> TAKE v \in Pos(b, d)..Pos(b, hi + 1)
  <2>1. /\ v - Pos(b, d) \in Nat /\ D \in Nat /\ D < Cache
        /\ D + (v - Pos(b, d)) = v - Pos(b, lo) /\ v - Pos(b, lo) <= Cache
    BY <1>2 DEF Within
  <2> QED
    BY <1>1, <2>1, AtAdds DEF At, Same
<1>6. \A i \in d..hi : /\ i \in lo..hi
                        /\ Pos(b, i) \in Pos(b, d)..Pos(b, hi + 1)
                        /\ Pos(b, i) + 2 \in Pos(b, d)..Pos(b, hi + 1)
                        /\ \A k \in b[i]..(b[i + 1] - 1) :
                             k + Header * i + Header \in Pos(b, d)..Pos(b, hi + 1)
  <2> TAKE i \in d..hi
  <2>1. i \in lo..hi
    BY <1>2 DEF Within
  <2>2. Within(d, hi, b, i)
    BY <1>3, Between
  <2>3. Pos(b, i) = b[i] + Header * i /\ Pos(b, i + 1) = b[i + 1] + Header * (i + 1)
    BY DEF Pos
  <2> QED
    BY <2>1, <2>2, <2>3 DEF Within, Header
<1>7. Ring(d, hi, b, t, At(h, D), m)
  <2> HIDE DEF D
  <2>1. ASSUME NEW i \in d..hi PROVE Held(d, hi, b, t, At(h, D), m, i)
    <3>1. Held(lo, hi, b, t, h, m, i)
      BY <1>6 DEF Ring
    <3>2. Same(At(h, D), Pos(b, d), h, Pos(b, lo), Pos(b, i)) /\ Same(At(h, D), Pos(b, d), h, Pos(b, lo), Pos(b, i) + 2)
      BY <1>5, <1>6
    <3>3. \A k \in b[i]..(b[i + 1] - 1) : Same(At(h, D), Pos(b, d), h, Pos(b, lo), k + Header * i + Header)
      BY <1>5, <1>6
    <3>4. /\ Pos(b, i) \in Int /\ Pos(b, d) \in Int /\ Pos(b, lo) \in Int /\ Header \in Int
          /\ i \in Int /\ b[i] \in Int /\ b[i + 1] \in Int
      <4>1. Within(d, hi, b, i)
        BY <1>3, Between
      <4> QED
        BY <1>2, <4>1 DEF Within
    <3>5. /\ m[At(At(h, D), Pos(b, i) - Pos(b, d))] = m[At(h, Pos(b, i) - Pos(b, lo))]
          /\ m[At(At(h, D), Pos(b, i) + 2 - Pos(b, d))] = m[At(h, Pos(b, i) + 2 - Pos(b, lo))]
      BY <3>2, <3>4 DEF Same
    <3>6. \A k \in b[i]..(b[i + 1] - 1) :
            m[At(At(h, D), k + Header * i + Header - Pos(b, d))] = m[At(h, k + Header * i + Header - Pos(b, lo))]
      BY <3>3, <3>4 DEF Same
    <3> QED
      BY <3>1, <3>5, <3>6 DEF Held
  <2> QED
    BY <1>1, <1>3, <1>4, <2>1 DEF Ring
<1>8. Pos(b, hi + 1) \in Pos(b, d)..Pos(b, hi + 1)
  BY <1>2 DEF Within
<1>9. \A i \in d..(hi + 1) : Pos(b, i) \in Pos(b, d)..Pos(b, hi + 1)
  <2>1. \A i \in d..(hi + 1) : i \in d..hi \/ i = hi + 1
    BY <1>2 DEF Within
  <2> QED
    BY <1>6, <1>8, <2>1
<1>10. At(h, D) = Place(lo, b, h, d)
  BY <1>6 DEF Place
<1>11. \A i \in d..(hi + 1) : Place(d, b, At(h, D), i) = Place(lo, b, h, i)
  BY <1>5, <1>9 DEF Place, Same
<1> HIDE DEF D
<1> QED
  BY <1>7, <1>10, <1>11

(* What comes into the last group: words that go on where it ends.         *)
Follows(ws, n, k) == Len(ws) = n /\ \A i \in 1..n : ws[i] = <<"data", k + i - 1>>

Longer(b, b2, i, n) == b2 \in [Nat -> Nat] /\ b2[i] = b[i] + n /\ \A j \in Nat \ {i} : b2[j] = b[j]

(* copy_buffer: payload copied to tail_addr makes the last group longer    *)
(* and leaves the others.                                                  *)
LEMMA Extended ==
  ASSUME NEW lo, NEW hi, NEW b, NEW t, NEW h, NEW m, Ring(lo, hi, b, t, h, m),
         NEW n \in Nat, Pos(b, hi + 1) + n - Pos(b, lo) < Cache,
         NEW ws, Follows(ws, n, b[hi + 1]), NEW b2, Longer(b, b2, hi + 1, n)
  PROVE  /\ Ring(lo, hi, b2, t, h, Store(m, Place(lo, b, h, hi + 1), ws))
         /\ Place(lo, b2, h, hi) = Place(lo, b, h, hi)
         /\ Place(lo, b2, h, hi + 1) = Wrap(Place(lo, b, h, hi + 1) + n)
<1>1. Bounds(lo, hi, b) /\ h \in Addr /\ t \in [Nat -> Nat] /\ b \in [Nat -> Nat] /\ lo \in Nat /\ hi \in Nat
  BY DEF Ring, Bounds
<1>2. Within(lo, hi, b, hi)
  <2>1. hi \in lo..hi
    BY <1>1 DEF Bounds
  <2> QED
    BY <1>1, <2>1, Between
<1>3. /\ \A i \in lo..hi : b2[i] = b[i]
      /\ b2[hi + 1] = b[hi + 1] + n
      /\ b2 \in [Nat -> Nat]
  BY <1>1, <1>2 DEF Within, Longer
<1>4. /\ \A i \in lo..hi : Pos(b2, i) = Pos(b, i)
      /\ Pos(b2, hi + 1) = Pos(b, hi + 1) + n
      /\ Pos(b2, lo) = Pos(b, lo)
  BY <1>1, <1>2, <1>3 DEF Pos, Within
<1>5. Bounds(lo, hi, b2)
  <2>1. \A i, j \in lo..(hi + 1) : i <= j => b2[i] <= b2[j]
    <3> SUFFICES ASSUME NEW i \in lo..(hi + 1), NEW j \in lo..(hi + 1), i <= j
                 PROVE  b2[i] <= b2[j]
      OBVIOUS
    <3>1. b[i] <= b[j] /\ b[i] \in Nat /\ b[j] \in Nat /\ b[hi + 1] \in Nat
      BY <1>1, <1>2 DEF Bounds, Within
    <3>2. CASE j = hi + 1
      <4>1. i \in lo..hi \/ i = hi + 1
        BY <1>1
      <4> QED
        BY <1>3, <3>1, <3>2, <4>1
    <3>3. CASE j # hi + 1
      <4>1. i \in lo..hi /\ j \in lo..hi
        BY <1>1, <3>3
      <4> QED
        BY <1>3, <3>1, <4>1
    <3> QED
      BY <3>2, <3>3
  <2>2. Pos(b2, hi + 1) - Pos(b2, lo) < Cache
    BY <1>1, <1>2, <1>4 DEF Within
  <2> QED
    BY <1>1, <1>3, <2>1, <2>2 DEF Bounds
<1>6. PICK E \in 0..(Cache - 1) : E = Pos(b, hi + 1) - Pos(b, lo) /\ E + n < Cache /\ Cache \in Nat
  <2>1. Pos(b, hi + 1) - Pos(b, lo) \in 0..(Cache - 1) /\ Pos(b, hi + 1) - Pos(b, lo) + n < Cache /\ Cache \in Nat
    BY <1>2 DEF Within
  <2> QED
    BY <2>1
<1> DEFINE m2 == Store(m, At(h, E), ws)
<1>7. \A e \in 0..(Cache - 1) :
        m2[At(h, e)] = IF E <= e /\ e < E + n THEN ws[e - E + 1] ELSE m[At(h, e)]
  <2> TAKE e \in 0..(Cache - 1)
  <2>1. HasLen(ws, n) /\ E + n <= Cache
    BY <1>6 DEF Follows, HasLen
  <2>2. Stored(m, h, E, ws, n, e)
    <3>1. h \in Addr
      BY <1>1
    <3> QED
      BY <1>6, <2>1, <3>1, StoreAt
  <2>3. /\ E <= e /\ e < E + n => Store(m, At(h, E), ws)[At(h, e)] = ws[e - E + 1]
        /\ ~(E <= e /\ e < E + n) => Store(m, At(h, E), ws)[At(h, e)] = m[At(h, e)]
    BY <2>2, Zenon DEF Stored
  <2> QED
    BY <2>3
<1> HIDE DEF m2
<1>8. ASSUME NEW i \in lo..hi
      PROVE  Held(lo, hi, b2, t, h, m2, i)
  <2>1. Held(lo, hi, b, t, h, m, i)
    BY DEF Ring
  <2>2. Within(lo, hi, b, i)
    BY <1>1, Between
  <2>3. /\ Pos(b, i) - Pos(b, lo) \in 0..(E - 1)
        /\ Pos(b, i) + 2 - Pos(b, lo) \in 0..(E - 1)
        /\ \A e \in 0..(E - 1) : m2[At(h, e)] = m[At(h, e)]
    BY <1>6, <1>7, <2>2 DEF Within
  <2>4. b2[i] = b[i] /\ (i < hi => b2[i + 1] = b[i + 1]) /\ b2[i + 1] \in Nat
    BY <1>3, <2>2 DEF Within
  <2>5. ASSUME NEW k \in b2[i]..(b2[i + 1] - 1)
        PROVE  m2[At(h, k + Header * i + Header - Pos(b2, lo))] = <<"data", k>>
    <3> DEFINE e == k + Header * i + Header - Pos(b2, lo)
    <3>1. k \in Int /\ e \in Int /\ e = k + 3 * i + 3 - Pos(b, lo)
      BY <1>3, <1>4, <2>2, <2>4 DEF Within
    <3>2. CASE k < b[i + 1]
      <4>1. e \in 0..(E - 1)
        BY <1>3, <1>4, <1>6, <2>2, <2>4, <3>1, <3>2 DEF Within, Pos
      <4>2. k \in b[i]..(b[i + 1] - 1)
        BY <2>2, <2>4, <3>1, <3>2 DEF Within
      <4>3. m[At(h, k + Header * i + Header - Pos(b, lo))] = <<"data", k>>
        BY <2>1, <4>2 DEF Held
      <4>4. m2[At(h, e)] = m[At(h, e)]
        BY <2>3, <4>1
      <4> QED
        BY <1>4, <4>3, <4>4
    <3>3. CASE ~(k < b[i + 1])
      <4>1. i = hi /\ k >= b[hi + 1] /\ k < b[hi + 1] + n
        <5>1. i = hi
          BY <2>2, <2>4, <3>1, <3>3 DEF Within
        <5>2. b2[i + 1] = b[hi + 1] + n /\ b[hi + 1] \in Nat
          BY <1>3, <2>2, <5>1 DEF Within
        <5> QED
          BY <2>4, <3>1, <3>3, <5>1, <5>2
      <4>2. e = E + (k - b[hi + 1]) /\ e \in 0..(Cache - 1) /\ e < E + n /\ E <= e
        BY <1>1, <1>6, <2>2, <3>1, <4>1 DEF Within, Pos
      <4>3. e - E + 1 \in 1..n /\ b[hi + 1] + (e - E + 1) - 1 = k
        BY <1>1, <1>6, <2>2, <3>1, <4>1, <4>2 DEF Within
      <4> HIDE DEF e
      <4>4. m2[At(h, e)] = ws[e - E + 1]
        BY <1>7, <4>2
      <4> QED
        BY <4>3, <4>4 DEF e, Follows
    <3> QED
      BY <3>2, <3>3
  <2>6. /\ m[At(h, Pos(b, i) - Pos(b, lo))] = <<"ts", t[i]>>
        /\ m[At(h, Pos(b, i) + 2 - Pos(b, lo))] = <<"size", IF i = hi THEN 0 ELSE b[i + 1] - b[i]>>
    BY <2>1 DEF Held
  <2>7. m2[At(h, Pos(b2, i) - Pos(b2, lo))] = <<"ts", t[i]>>
    BY <1>4, <2>3, <2>6
  <2>8. m2[At(h, Pos(b2, i) + 2 - Pos(b2, lo))] = <<"size", IF i = hi THEN 0 ELSE b[i + 1] - b[i]>>
    BY <1>4, <2>3, <2>6
  <2>9. ~(i = hi) => b2[i + 1] - b2[i] = b[i + 1] - b[i]
    BY <2>2, <2>4 DEF Within
  <2> QED
    BY <2>5, <2>7, <2>8, <2>9 DEF Held
<1>9. Ring(lo, hi, b2, t, h, m2)
  BY <1>1, <1>5, <1>8 DEF Ring
<1>10. At(h, E) = Place(lo, b, h, hi + 1)
  BY <1>6 DEF Place
<1>11. At(h, E + n) = Wrap(At(h, E) + n)
  BY <1>1, <1>6, AtAdds
<1>12. Place(lo, b2, h, hi + 1) = At(h, E + n) /\ Place(lo, b2, h, hi) = Place(lo, b, h, hi)
  <2>1. Pos(b2, hi + 1) - Pos(b2, lo) = E + n /\ Pos(b2, hi) - Pos(b2, lo) = Pos(b, hi) - Pos(b, lo)
    BY <1>1, <1>2, <1>4, <1>6 DEF Within
  <2> QED
    BY <2>1 DEF Place
<1> QED
  BY <1>9, <1>10, <1>11, <1>12 DEF m2

(* What two addresses say of the distance between them.                    *)
LEMMA Distance ==
  ASSUME NEW h \in Addr, NEW d \in 0..(Cache - 1), NEW e \in 0..(Cache - 1), d < e
  PROVE  /\ (IF At(h, e) >= At(h, d) THEN At(h, e) - At(h, d) ELSE Cache - At(h, d) + At(h, e)) = e - d
         /\ CacheFree(At(h, d), At(h, e)) = Cache - (e - d)
         /\ CacheFree(At(h, e), At(h, d)) = e - d
  BY CacheFacts DEF At, Addr, Wrap, CacheFree

(* A group closed with its size, and the header of the next one.           *)
Further(b, t, b2, t2, hi, x) ==
  /\ b2 \in [Nat -> Nat] /\ b2[hi + 2] = b[hi + 1] /\ \A i \in 0..(hi + 1) : b2[i] = b[i]
  /\ t2 \in [Nat -> Nat] /\ t2[hi + 1] = x /\ \A i \in 0..hi : t2[i] = t[i]

(* move_last_rap: the last group is closed with its size and an empty one  *)
(* follows it.                                                             *)
LEMMA Opened ==
  ASSUME NEW lo, NEW hi, NEW b, NEW t, NEW h, Ring(lo, hi, b, t, h, mem),
         last = Place(lo, b, h, hi), tail = Place(lo, b, h, hi + 1),
         Pos(b, hi + 1) + Header - Pos(b, lo) < Cache,
         NEW x \in Nat,
         NEW b2, NEW t2, Further(b, t, b2, t2, hi, x)
  PROVE  /\ Ring(lo, hi + 1, b2, t2, h, MoveLastRap(x).mem)
         /\ MoveLastRap(x).last = Place(lo, b2, h, hi + 1)
         /\ MoveLastRap(x).tail = Place(lo, b2, h, hi + 2)
<1>1. Bounds(lo, hi, b) /\ h \in Addr /\ t \in [Nat -> Nat] /\ b \in [Nat -> Nat] /\ lo \in Nat /\ hi \in Nat /\ lo <= hi
  BY DEF Ring, Bounds
<1>2. Within(lo, hi, b, hi)
  BY <1>1, Between
<1>3. /\ b2 \in [Nat -> Nat] /\ b2[hi + 2] = b[hi + 1]
      /\ t2 \in [Nat -> Nat] /\ t2[hi + 1] = x
      /\ \A i \in lo..hi : t2[i] = t[i]
      /\ \A i \in lo..(hi + 1) : b2[i] = b[i] /\ Pos(b2, i) = Pos(b, i)
  BY <1>1 DEF Further, Pos
<1>4. PICK L \in 0..(Cache - 1), E \in 0..(Cache - 1) :
        /\ L = Pos(b, hi) - Pos(b, lo) /\ E = Pos(b, hi + 1) - Pos(b, lo)
        /\ E = L + Header + (b[hi + 1] - b[hi]) /\ L + Header <= E /\ E + Header < Cache /\ Cache \in Nat
  <2>1. /\ Pos(b, hi) - Pos(b, lo) \in 0..(Cache - 1) /\ Pos(b, hi + 1) - Pos(b, lo) \in 0..(Cache - 1)
        /\ Pos(b, hi + 1) - Pos(b, lo) = (Pos(b, hi) - Pos(b, lo)) + Header + (b[hi + 1] - b[hi])
        /\ Pos(b, hi) - Pos(b, lo) + Header <= Pos(b, hi + 1) - Pos(b, lo)
        /\ Pos(b, hi + 1) - Pos(b, lo) + Header < Cache /\ Cache \in Nat
    BY <1>2 DEF Within, Header
  <2> QED
    BY <2>1
<1>5. last = At(h, L) /\ tail = At(h, E)
  BY <1>4 DEF Place
<1>6. \A i \in lo..(hi + 1) : b2[i] = b[i] /\ Pos(b2, i) = Pos(b, i)
  BY <1>3
<1>7. /\ Pos(b2, hi + 2) = Pos(b, hi + 1) + Header
      /\ Pos(b2, lo) = Pos(b, lo) /\ Pos(b2, hi + 1) = Pos(b, hi + 1)
  <2>1. Pos(b2, hi + 2) = b[hi + 1] + Header * (hi + 2) /\ Pos(b, hi + 1) = b[hi + 1] + Header * (hi + 1)
    BY <1>3 DEF Pos
  <2> QED
    BY <1>3, <1>1, <1>2, <2>1 DEF Within, Header
<1>8. Bounds(lo, hi + 1, b2)
  <2>1. \A i, j \in lo..(hi + 1 + 1) : i <= j => b2[i] <= b2[j]
    <3> SUFFICES ASSUME NEW i \in lo..(hi + 1 + 1), NEW j \in lo..(hi + 1 + 1), i <= j
                 PROVE  b2[i] <= b2[j]
      OBVIOUS
    <3>1. \A k \in lo..(hi + 1) : b[k] <= b[hi + 1] /\ b[k] \in Nat
      BY <1>1 DEF Bounds
    <3>2. CASE j = hi + 2
      <4>1. i \in lo..(hi + 1) \/ i = hi + 2
        BY <1>1
      <4> QED
        BY <1>3, <1>2, <3>1, <3>2, <4>1 DEF Within
    <3>3. CASE j # hi + 2
      <4>1. i \in lo..(hi + 1) /\ j \in lo..(hi + 1)
        BY <1>1, <3>3
      <4> QED
        BY <1>1, <1>6, <4>1 DEF Bounds
    <3> QED
      BY <3>2, <3>3
  <2>2. Pos(b2, hi + 1 + 1) - Pos(b2, lo) < Cache
    <3>1. hi + 1 + 1 = hi + 2
      BY <1>1
    <3>2. Pos(b, lo) \in Int /\ Pos(b, hi + 1) \in Int /\ Header \in Int /\ Cache \in Int
      BY <1>2 DEF Within
    <3> QED
      BY <1>7, <3>1, <3>2
  <2> QED
    BY <1>3, <1>1, <2>1, <2>2 DEF Bounds
<1> DEFINE closing == <<<<"size", b[hi + 1] - b[hi]>>>>
           m1 == Store(mem, At(h, L + 2), closing)
           m2 == Store(m1, At(h, E), HeaderOf(x))
<1>9. MoveLastRap(x) = [mem |-> m2, last |-> At(h, E), tail |-> At(h, E + Header)]
  <2>1. (IF tail >= last THEN tail - last ELSE Cache - last + tail) - Header = b[hi + 1] - b[hi]
    <3>1. L < E
      BY <1>4 DEF Header
    <3>2. (IF tail >= last THEN tail - last ELSE Cache - last + tail) = E - L
      BY <1>1, <1>5, <3>1, Distance
    <3>3. b[hi + 1] \in Int /\ b[hi] \in Int
      BY <1>2 DEF Within
    <3> QED
      BY <1>4, <3>2, <3>3 DEF Header
  <2>2. Wrap(last + 2) = At(h, L + 2) /\ Wrap(tail + Header) = At(h, E + Header)
    <3>1. L + 2 <= Cache /\ E + Header <= Cache /\ L \in Nat /\ E \in Nat /\ L < Cache /\ E < Cache
      BY <1>4 DEF Header
    <3> QED
      BY <1>1, <1>5, <3>1, AtAdds DEF Header
  <2> QED
    BY <1>5, <2>1, <2>2 DEF MoveLastRap
<1>10. /\ m1[At(h, L + 2)] = <<"size", b[hi + 1] - b[hi]>>
       /\ \A e \in 0..(Cache - 1) : e # L + 2 => m1[At(h, e)] = mem[At(h, e)]
  <2>1. HasLen(closing, 1) /\ L + 2 \in 0..(Cache - 1) /\ L + 2 + 1 <= Cache /\ 1 \in Nat
    BY <1>4 DEF HasLen, Header
  <2>2. closing[1] = <<"size", b[hi + 1] - b[hi]>>
    OBVIOUS
  <2> HIDE DEF closing
  <2>3. ASSUME NEW e \in 0..(Cache - 1)
        PROVE  /\ L + 2 <= e /\ e < L + 2 + 1 => m1[At(h, e)] = closing[e - (L + 2) + 1]
               /\ ~(L + 2 <= e /\ e < L + 2 + 1) => m1[At(h, e)] = mem[At(h, e)]
    <3>1. Stored(mem, h, L + 2, closing, 1, e)
      BY <1>1, <2>1, StoreAt
    <3> QED
      BY <3>1, Zenon DEF Stored
  <2> HIDE DEF m1
  <2>4. m1[At(h, L + 2)] = closing[(L + 2) - (L + 2) + 1]
    BY <2>1, <2>3
  <2> QED
    BY <2>1, <2>2, <2>3, <2>4
<1> HIDE DEF m1
<1>11. /\ m2[At(h, E)] = <<"ts", x>> /\ m2[At(h, E + 2)] = <<"size", 0>>
       /\ \A e \in 0..(E - 1) : m2[At(h, e)] = m1[At(h, e)]
  <2>1. HasLen(HeaderOf(x), 3) /\ E + 3 <= Cache /\ 3 \in Nat
    BY <1>4 DEF HasLen, Header, HeaderOf
  <2>2. HeaderOf(x)[1] = <<"ts", x>> /\ HeaderOf(x)[3] = <<"size", 0>>
    BY DEF HeaderOf
  <2>3. ASSUME NEW e \in 0..(Cache - 1)
        PROVE  /\ E <= e /\ e < E + 3 => m2[At(h, e)] = HeaderOf(x)[e - E + 1]
               /\ ~(E <= e /\ e < E + 3) => m2[At(h, e)] = m1[At(h, e)]
    <3>1. Stored(m1, h, E, HeaderOf(x), 3, e)
      BY <1>1, <2>1, StoreAt
    <3> QED
      BY <3>1, Zenon DEF Stored
  <2> HIDE DEF m2
  <2>4. E + 2 \in 0..(Cache - 1) /\ E \in Int /\ (E + 2) - E + 1 = 3 /\ E - E + 1 = 1
    BY <1>4, <2>1
  <2>5. m2[At(h, E)] = HeaderOf(x)[E - E + 1] /\ m2[At(h, E + 2)] = HeaderOf(x)[(E + 2) - E + 1]
    BY <2>1, <2>3, <2>4
  <2>6. \A e \in 0..(E - 1) : m2[At(h, e)] = m1[At(h, e)]
    BY <1>4, <2>3
  <2> QED
    BY <2>2, <2>4, <2>5, <2>6
<1> HIDE DEF m2
<1>12. ASSUME NEW i \in lo..hi PROVE Held(lo, hi + 1, b2, t2, h, m2, i)
  <2>1. Held(lo, hi, b, t, h, mem, i) /\ Within(lo, hi, b, i)
    BY <1>1, Between DEF Ring
  <2>2. /\ Pos(b, i) - Pos(b, lo) \in 0..(E - 1) /\ Pos(b, i) - Pos(b, lo) # L + 2
        /\ Pos(b, i) + 2 - Pos(b, lo) \in 0..(E - 1) /\ (i < hi => Pos(b, i) + 2 - Pos(b, lo) # L + 2)
        /\ (i = hi => Pos(b, i) + 2 - Pos(b, lo) = L + 2)
    BY <1>2, <1>4, <2>1 DEF Within
  <2>3. ASSUME NEW k \in b[i]..(b[i + 1] - 1)
        PROVE  m2[At(h, k + Header * i + Header - Pos(b, lo))] = <<"data", k>>
    <3> DEFINE e == k + Header * i + Header - Pos(b, lo)
    <3>1. e \in 0..(E - 1) /\ e # L + 2 /\ e \in 0..(Cache - 1)
      <4>1. Pos(b, i) = b[i] + 3 * i /\ Pos(b, i + 1) = b[i + 1] + 3 * (i + 1)
        BY DEF Pos, Header
      <4>2. k \in Int /\ e = k + 3 * i + 3 - Pos(b, lo)
        BY <2>1 DEF Within, Header
      <4>3. e >= Pos(b, i) - Pos(b, lo) + 3 /\ e < Pos(b, i + 1) - Pos(b, lo) /\ e \in Int
        BY <2>1, <4>1, <4>2 DEF Within
      <4> HIDE DEF e
      <4>4. CASE i = hi
        BY <1>4, <2>1, <4>3, <4>4 DEF Within
      <4>5. CASE i < hi
        BY <1>4, <2>1, <4>3, <4>5 DEF Within
      <4> QED
        BY <2>1, <4>4, <4>5 DEF Within
    <3>2. mem[At(h, e)] = <<"data", k>>
      BY <2>1 DEF Held
    <3> HIDE DEF e
    <3>3. m2[At(h, e)] = mem[At(h, e)]
      BY <1>10, <1>11, <3>1
    <3> QED
      BY <3>2, <3>3 DEF e
  <2>4. b2[i] = b[i] /\ b2[i + 1] = b[i + 1] /\ t2[i] = t[i] /\ i # hi + 1 /\ Pos(b2, i) = Pos(b, i)
    BY <1>3, <1>1
  <2>5. /\ mem[At(h, Pos(b, i) - Pos(b, lo))] = <<"ts", t[i]>>
        /\ mem[At(h, Pos(b, i) + 2 - Pos(b, lo))] = <<"size", IF i = hi THEN 0 ELSE b[i + 1] - b[i]>>
    BY <2>1 DEF Held
  <2>6. m2[At(h, Pos(b, i) - Pos(b, lo))] = <<"ts", t[i]>>
    BY <1>4, <1>10, <1>11, <2>2, <2>5
  <2>7. m2[At(h, Pos(b, i) + 2 - Pos(b, lo))] = <<"size", b[i + 1] - b[i]>>
    <3>1. CASE i = hi
      BY <1>10, <1>11, <2>2, <3>1
    <3>2. CASE i < hi
      BY <1>4, <1>10, <1>11, <2>2, <2>5, <3>2
    <3> QED
      BY <2>1, <3>1, <3>2 DEF Within
  <2> QED
    BY <1>7, <2>3, <2>4, <2>6, <2>7 DEF Held
<1>13. Held(lo, hi + 1, b2, t2, h, m2, hi + 1)
  <2>1. /\ Pos(b2, hi + 1) - Pos(b2, lo) = E
        /\ Pos(b2, hi + 1) + 2 - Pos(b2, lo) = E + 2
    BY <1>2, <1>4, <1>7 DEF Within
  <2>2. b2[hi + 1 + 1] = b2[hi + 1] /\ b2[hi + 1] \in Nat
    <3>1. hi + 1 + 1 = hi + 2
      BY <1>1
    <3> QED
      BY <1>3, <1>1, <1>2, <3>1 DEF Within
  <2>3. b2[hi + 1]..(b2[hi + 1 + 1] - 1) = {}
    BY <2>2
  <2>4. t2[hi + 1] = x
    BY <1>3
  <2> QED
    BY <1>11, <2>1, <2>3, <2>4 DEF Held
<1>14. Ring(lo, hi + 1, b2, t2, h, m2)
  <2>1. \A i \in lo..(hi + 1) : i \in lo..hi \/ i = hi + 1
    BY <1>1
  <2> QED
    BY <1>3, <1>1, <1>8, <1>12, <1>13, <2>1 DEF Ring
<1>15. Place(lo, b2, h, hi + 1) = At(h, E) /\ Place(lo, b2, h, hi + 2) = At(h, E + Header)
  <2>1. Pos(b2, hi + 1) - Pos(b2, lo) = E /\ Pos(b2, hi + 2) - Pos(b2, lo) = E + Header
    BY <1>2, <1>4, <1>7 DEF Within
  <2> QED
    BY <2>1 DEF Place
<1> QED
  BY <1>9, <1>14, <1>15
-----------------------------------------------------------------------------
(* The walk from head_addr through the sizes.                              *)

(* What is read in a group: behind its header, its payload.                *)
Filling(a, i, b) ==
  \A k \in b[i]..(b[i + 1] - 1) : mem[Wrap(a + Header + (k - b[i]))] = <<"data", k>>

(* What the words at the address of a group are, and what the arithmetic   *)
(* on its address gives.                                                   *)
LEMMA GroupAt ==
  ASSUME NEW lo, NEW hi, NEW b, NEW t, NEW h, Ring(lo, hi, b, t, h, mem), NEW i \in lo..hi
  PROVE  /\ Place(lo, b, h, i) \in Addr /\ Place(lo, b, h, hi + 1) \in Addr
         /\ mem[Place(lo, b, h, i)] = <<"ts", t[i]>>
         /\ i < hi => GopSize(Place(lo, b, h, i)) = b[i + 1] - b[i]
         /\ i = hi => GopSize(Place(lo, b, h, i)) = 0
         /\ i < hi => RapNext(Place(lo, b, h, i)) = Place(lo, b, h, i + 1)
         /\ CacheFree(Place(lo, b, h, i), Place(lo, b, h, hi + 1)) = Cache - (Pos(b, hi + 1) - Pos(b, i))
         /\ CacheFree(Place(lo, b, h, hi + 1), Place(lo, b, h, i)) = Pos(b, hi + 1) - Pos(b, i)
         /\ Filling(Place(lo, b, h, i), i, b)
<1>1. Bounds(lo, hi, b) /\ h \in Addr /\ Held(lo, hi, b, t, h, mem, i)
  BY DEF Ring
<1>2. Within(lo, hi, b, i)
  BY <1>1, Between
<1>3. PICK D \in 0..(Cache - 1), E \in 0..(Cache - 1) :
        /\ D = Pos(b, i) - Pos(b, lo) /\ E = Pos(b, hi + 1) - Pos(b, lo)
        /\ D + Header <= E /\ E - D = Pos(b, hi + 1) - Pos(b, i)
        /\ D + Header + (b[i + 1] - b[i]) = Pos(b, i + 1) - Pos(b, lo)
        /\ D + Header + (b[i + 1] - b[i]) <= E
        /\ D + 2 = Pos(b, i) + 2 - Pos(b, lo)
  <2>1. /\ Pos(b, i) - Pos(b, lo) \in 0..(Cache - 1) /\ Pos(b, hi + 1) - Pos(b, lo) \in 0..(Cache - 1)
        /\ Pos(b, i) - Pos(b, lo) + Header <= Pos(b, hi + 1) - Pos(b, lo)
        /\ Pos(b, hi + 1) - Pos(b, lo) - (Pos(b, i) - Pos(b, lo)) = Pos(b, hi + 1) - Pos(b, i)
        /\ Pos(b, i) - Pos(b, lo) + Header + (b[i + 1] - b[i]) = Pos(b, i + 1) - Pos(b, lo)
        /\ Pos(b, i) - Pos(b, lo) + Header + (b[i + 1] - b[i]) <= Pos(b, hi + 1) - Pos(b, lo)
        /\ Pos(b, i) - Pos(b, lo) + 2 = Pos(b, i) + 2 - Pos(b, lo)
    BY <1>2 DEF Within
  <2> QED
    BY <2>1
<1>4. /\ Place(lo, b, h, i) = At(h, D) /\ Place(lo, b, h, hi + 1) = At(h, E)
      /\ Place(lo, b, h, i + 1) = At(h, D + Header + (b[i + 1] - b[i]))
  BY <1>3 DEF Place
<1>5. At(h, D) \in Addr /\ At(h, E) \in Addr
  BY <1>1, AtAdds
<1>6. PICK s \in Nat : s = b[i + 1] - b[i]
  BY <1>2 DEF Within
<1>7. Wrap(At(h, D) + 2) = At(h, D + 2) /\ Wrap(At(h, D) + (Header + s)) = At(h, D + (Header + s))
  <2>1. D + 2 <= Cache /\ D + (Header + s) <= Cache /\ D \in Nat /\ D < Cache /\ Header + s \in Nat
    BY <1>2, <1>3, <1>6 DEF Header, Within
  <2> QED
    BY <1>1, <2>1, AtAdds
<1>8. GopSize(At(h, D)) = IF i = hi THEN 0 ELSE s
  BY <1>1, <1>3, <1>6, <1>7 DEF Held, GopSize
<1>9. i < hi => RapNext(At(h, D)) = At(h, D + Header + s)
  <2>1. At(h, D) + s + Header = At(h, D) + (Header + s) /\ D + Header + s = D + (Header + s)
    BY <1>5, <1>6 DEF Addr, Header
  <2>2. i < hi => i # hi
    BY <1>2 DEF Within
  <2> QED
    BY <1>7, <1>8, <2>1, <2>2 DEF RapNext
<1>10. /\ CacheFree(At(h, D), At(h, E)) = Cache - (E - D)
       /\ CacheFree(At(h, E), At(h, D)) = E - D
  BY <1>1, <1>3, Distance DEF Header
<1>11. ASSUME NEW k \in b[i]..(b[i + 1] - 1)
       PROVE  mem[Wrap(At(h, D) + Header + (k - b[i]))] = <<"data", k>>
  <2>1. PICK e \in Nat : e = Header + (k - b[i]) /\ D + e <= Cache /\ D < Cache /\ D \in Nat
    <3>1. Header + (k - b[i]) \in Nat /\ D + (Header + (k - b[i])) <= Cache /\ D < Cache /\ D \in Nat
      BY <1>2, <1>3, <1>6 DEF Within
    <3> QED
      BY <3>1
  <2>2. Wrap(At(h, D) + e) = At(h, D + e)
    BY <1>1, <2>1, AtAdds
  <2>3. At(h, D) + Header + (k - b[i]) = At(h, D) + e
    BY <1>2, <1>5, <2>1 DEF Addr, Within
  <2>4. D + e = k + Header * i + Header - Pos(b, lo)
    <3>1. Pos(b, i) = b[i] + Header * i
      BY DEF Pos
    <3> QED
      BY <1>2, <1>3, <2>1, <3>1 DEF Within, Header
  <2> QED
    BY <1>1, <2>2, <2>3, <2>4 DEF Held
<1>12. Filling(At(h, D), i, b)
  BY <1>11 DEF Filling
<1>13. mem[At(h, D)] = <<"ts", t[i]>>
  BY <1>1, <1>3 DEF Held
<1>14. i < hi => ~(i = hi)
  BY <1>2 DEF Within
<1>15. i < hi => RapNext(At(h, D)) = Place(lo, b, h, i + 1)
  BY <1>4, <1>6, <1>9
<1>16. CacheFree(At(h, D), At(h, E)) = Cache - (Pos(b, hi + 1) - Pos(b, i))
  BY <1>3, <1>10
<1>17. CacheFree(At(h, E), At(h, D)) = Pos(b, hi + 1) - Pos(b, i)
  BY <1>3, <1>10
<1> QED
  BY <1>4, <1>5, <1>6, <1>8, <1>12, <1>13, <1>14, <1>15, <1>16, <1>17
(* Different groups are at different places.                               *)
LEMMA Apart ==
  ASSUME NEW lo, NEW hi, NEW b, NEW h \in Addr, Bounds(lo, hi, b)
  PROVE  /\ \A i, j \in lo..hi : Place(lo, b, h, i) = Place(lo, b, h, j) => i = j
         /\ \A i \in lo..hi : Place(lo, b, h, i) \in Addr /\ Place(lo, b, h, i) # Place(lo, b, h, hi + 1)
<1>1. ASSUME NEW i \in lo..hi
      PROVE  /\ Pos(b, i) - Pos(b, lo) \in 0..(Cache - 1)
             /\ Pos(b, hi + 1) - Pos(b, lo) \in 0..(Cache - 1)
             /\ Pos(b, i) - Pos(b, lo) # Pos(b, hi + 1) - Pos(b, lo)
  <2>1. Within(lo, hi, b, i)
    BY Between
  <2> QED
    BY <2>1 DEF Within
<1>2. ASSUME NEW i \in lo..hi, NEW j \in lo..hi, i < j
      PROVE  Pos(b, i) - Pos(b, lo) # Pos(b, j) - Pos(b, lo)
  <2>1. Within(lo, hi, b, i) /\ Within(lo, hi, b, j) /\ b \in [Nat -> Nat]
    BY Between DEF Bounds
  <2>2. b[i] <= b[j] /\ b[i] \in Nat /\ b[j] \in Nat
    BY <1>2, <2>1 DEF Bounds, Within
  <2>3. Pos(b, i) = b[i] + 3 * i /\ Pos(b, j) = b[j] + 3 * j /\ i \in Nat /\ j \in Nat
    BY <2>1 DEF Pos, Header, Within
  <2> QED
    BY <1>2, <2>1, <2>2, <2>3 DEF Within
<1>3. ASSUME NEW i \in lo..hi, NEW j \in lo..hi, Place(lo, b, h, i) = Place(lo, b, h, j)
      PROVE  i = j
  <2>1. Pos(b, i) - Pos(b, lo) = Pos(b, j) - Pos(b, lo)
    BY <1>1, <1>3, AtAdds DEF Place
  <2>2. ~(i < j) /\ ~(j < i)
    BY <1>2, <2>1
  <2>3. i \in Int /\ j \in Int
    OBVIOUS
  <2> QED
    BY <2>2, <2>3
<1>4. ASSUME NEW i \in lo..hi
      PROVE  Place(lo, b, h, i) \in Addr /\ Place(lo, b, h, i) # Place(lo, b, h, hi + 1)
  BY <1>1, AtAdds DEF Place
<1> QED
  BY <1>3, <1>4

(* The recursion of Chain is one of a function that exists.                *)
Walk(f, n) == [a \in Addr |-> IF a = last \/ n = 0 THEN <<a>> ELSE <<a>> \o f[n - 1][RapNext(a)]]
Walks(f, m) == f = [n \in 0..m |-> Walk(f, n)]

(* Chain, a recursive function, is one that exists: its value is the walk  *)
(* from group to group.                                                    *)
LEMMA ChainWalks ==
  \E f : Walks(f, Most) /\ Chain = f[Most][head]
<1>1. ASSUME NEW m \in Nat, NEW f, Walks(f, m)
      PROVE  \E g : Walks(g, m + 1)
  <2> DEFINE g == [n \in 0..(m + 1) |-> IF n = m + 1 THEN Walk(f, n) ELSE f[n]]
  <2>1. \A n \in 0..(m + 1) : n # 0 => g[n - 1] = f[n - 1]
    OBVIOUS
  <2>2. \A n \in 0..(m + 1) : n = m + 1 \/ n \in 0..m
    OBVIOUS
  <2>3. \A n \in 0..m : f[n] = Walk(f, n)
    BY <1>1 DEF Walks
  <2>4. \A n \in 0..(m + 1) : Walk(f, n) = Walk(g, n)
    <3> HIDE DEF g
    <3> QED
      BY <2>1 DEF Walk
  <2>5. \A n \in 0..(m + 1) : g[n] = Walk(g, n)
    BY <2>2, <2>3, <2>4
  <2>6. g = [n \in 0..(m + 1) |-> g[n]]
    OBVIOUS
  <2> HIDE DEF g
  <2> QED
    BY <2>5, <2>6 DEF Walks
<1>2. \E f : Walks(f, 0)
  <2> DEFINE g == [n \in 0..0 |-> [a \in Addr |-> <<a>>]]
  <2>1. \A n \in 0..0 : g[n] = Walk(g, n)
    BY DEF Walk
  <2>2. g = [n \in 0..0 |-> g[n]]
    OBVIOUS
  <2> HIDE DEF g
  <2> QED
    BY <2>1, <2>2 DEF Walks
<1>3. Most \in Nat
  BY CacheFacts DEF Most, Header
<1>4. \A m \in Nat : \E f : Walks(f, m)
  <2> SUFFICES ASSUME NEW S, S = {m \in Nat : ~ \E f : Walks(f, m)}, S # {} PROVE FALSE
    OBVIOUS
  <2>1. PICK m \in S : \A y \in S : m <= y
    BY Least
  <2>2. m \in Nat /\ m # 0
    BY <1>2
  <2>3. m - 1 \in Nat /\ m - 1 \notin S
    BY <2>1, <2>2
  <2>4. PICK f : Walks(f, m - 1)
    BY <2>3
  <2>5. (m - 1) + 1 = m
    BY <2>2
  <2> QED
    BY <1>1, <2>3, <2>4, <2>5
<1> DEFINE Ok(f) == f = [n \in 0..Most |-> [a \in Addr |-> IF a = last \/ n = 0 THEN <<a>> ELSE <<a>> \o f[n - 1][RapNext(a)]]]
<1>5. Ok(CHOOSE f : Ok(f))
  <2>1. \E f : Ok(f)
    BY <1>3, <1>4 DEF Walks, Walk
  <2> QED
    BY <2>1
<1>6. Walks(CHOOSE f : Ok(f), Most)
  BY <1>5 DEF Walks, Walk
<1>7. Chain = (CHOOSE f : Ok(f))[Most][head]
  BY Zenon DEF Chain
<1> QED
  BY <1>6, <1>7

(* The places of the groups from i on.                                     *)
Line(lo, hi, b, h, i) == [k \in 1..(hi - i + 1) |-> Place(lo, b, h, i + k - 1)]

(* The addresses of the groups from one of them on are its own and those   *)
(* from the next one on.                                                   *)
LEMMA LineStep ==
  ASSUME NEW lo \in Nat, NEW hi \in Nat, NEW b, NEW h \in Addr, Bounds(lo, hi, b), NEW i \in lo..hi
  PROVE  /\ Line(lo, hi, b, h, i) \in Seq(Addr)
         /\ i = hi => Line(lo, hi, b, h, i) = <<Place(lo, b, h, i)>>
         /\ i < hi => Line(lo, hi, b, h, i) = <<Place(lo, b, h, i)>> \o Line(lo, hi, b, h, i + 1)
<1>1. ASSUME NEW j \in lo..hi
      PROVE  /\ Line(lo, hi, b, h, j) \in Seq(Addr) /\ Len(Line(lo, hi, b, h, j)) = hi - j + 1
             /\ \A k \in 1..(hi - j + 1) : Line(lo, hi, b, h, j)[k] = Place(lo, b, h, j + k - 1)
  <2>1. hi - j + 1 \in Nat /\ j \in Int
    OBVIOUS
  <2>2. \A k \in 1..(hi - j + 1) : j + k - 1 \in lo..hi
    OBVIOUS
  <2>3. \A k \in 1..(hi - j + 1) : Place(lo, b, h, j + k - 1) \in Addr
    BY <2>2, Apart
  <2> QED
    BY <2>1, <2>3 DEF Line
<1>2. CASE i = hi
  <2>1. Len(Line(lo, hi, b, h, i)) = 1 /\ Line(lo, hi, b, h, i)[1] = Place(lo, b, h, i)
    <3>1. hi - i + 1 = 1 /\ i + 1 - 1 = i /\ 1 \in 1..(hi - i + 1)
      BY <1>2
    <3> QED
      BY <1>1, <3>1
  <2> QED
    BY <1>1, <1>2, <2>1
<1>3. CASE i < hi
  <2> DEFINE a == Place(lo, b, h, i)
             s == Line(lo, hi, b, h, i)
             u == Line(lo, hi, b, h, i + 1)
  <2>1. i + 1 \in lo..hi /\ a \in Addr
    <3>1. i + 1 \in lo..hi
      BY <1>3
    <3>2. a \in Addr
      BY Apart
    <3> QED
      BY <3>1, <3>2
  <2>2. /\ <<a>> \in Seq(Addr) /\ Len(<<a>>) = 1
        /\ s \in Seq(Addr) /\ u \in Seq(Addr) /\ Len(s) = hi - i + 1 /\ Len(u) = hi - i
    <3>1. hi - (i + 1) + 1 = hi - i
      OBVIOUS
    <3>2. s \in Seq(Addr) /\ Len(s) = hi - i + 1
      BY <1>1
    <3>3. u \in Seq(Addr) /\ Len(u) = hi - i
      BY <1>1, <2>1, <3>1
    <3> HIDE DEF s, u
    <3>4. <<a>> \in Seq(Addr) /\ Len(<<a>>) = 1
      <4> HIDE DEF a
      <4> QED
        BY <2>1
    <3> QED
      BY <3>2, <3>3, <3>4
  <2>3. /\ \A k \in 1..(hi - i + 1) : s[k] = Place(lo, b, h, i + k - 1)
        /\ \A k \in 1..(hi - i) : u[k] = Place(lo, b, h, i + 1 + k - 1)
    <3>1. hi - (i + 1) + 1 = hi - i
      OBVIOUS
    <3> QED
      BY <1>1, <2>1, <3>1
  <2>4. s[1] = a
    <3>1. i + 1 - 1 = i /\ 1 \in 1..(hi - i + 1)
      BY <1>3
    <3> QED
      BY <2>3, <3>1
  <2> HIDE DEF a, s, u
  <2>5. /\ <<a>> \o u \in Seq(Addr) /\ Len(<<a>> \o u) = 1 + Len(u)
        /\ \A k \in 1..(1 + Len(u)) : (<<a>> \o u)[k] = IF k <= 1 THEN <<a>>[k] ELSE u[k - 1]
    BY <2>2, ConcatProperties
  <2>6. ASSUME NEW k \in 1..(hi - i + 1) PROVE s[k] = (<<a>> \o u)[k]
    <3>1. CASE k = 1
      BY <2>2, <2>4, <2>5, <3>1
    <3>2. CASE k # 1
      <4>1. k - 1 \in 1..(hi - i) /\ i + 1 + (k - 1) - 1 = i + k - 1 /\ ~(k <= 1) /\ k \in 1..(1 + Len(u))
        BY <2>2, <3>2
      <4> QED
        BY <2>3, <2>5, <4>1
    <3> QED
      BY <3>1, <3>2
  <2>7. s = <<a>> \o u
    <3>1. Len(s) = Len(<<a>> \o u) /\ \A k \in 1..Len(s) : s[k] = (<<a>> \o u)[k]
      BY <2>2, <2>5, <2>6
    <3> QED
      BY <2>2, <2>5, <3>1, SeqEqual
  <2> QED
    BY <1>1, <1>3, <2>7 DEF a, s, u
<1> QED
  BY <1>1, <1>2, <1>3

(* The walk gives the places of the groups, in order.                      *)
LEMMA ChainIs ==
  ASSUME NEW lo, NEW hi, NEW b, NEW t, Ring(lo, hi, b, t, head, mem),
         last = Place(lo, b, head, hi)
  PROVE  Chain = Line(lo, hi, b, head, lo)
<1>1. Bounds(lo, hi, b) /\ head \in Addr /\ lo \in Nat /\ hi \in Nat /\ lo <= hi /\ lo \in lo..hi /\ hi \in lo..hi
  BY DEF Ring, Bounds
<1>2. PICK f : Walks(f, Most) /\ Chain = f[Most][head]
  BY ChainWalks
<1>3. Most \in Nat /\ hi - lo <= Most
  <2>1. Within(lo, hi, b, hi) /\ Within(lo, hi, b, lo)
    BY <1>1, Between
  <2>2. b[lo] <= b[hi + 1] /\ Pos(b, hi + 1) - Pos(b, lo) < Cache
    BY <1>1 DEF Bounds
  <2>3. 3 * (hi - lo) < Cache
    BY <2>1, <2>2 DEF Within, Pos, Header
  <2> QED
    BY <1>1, <2>3, CacheFacts DEF Most, Header
<1>4. Place(lo, b, head, lo) = head
  <2>1. Pos(b, lo) - Pos(b, lo) = 0
    <3>1. Within(lo, hi, b, lo)
      BY <1>1, Between
    <3> QED
      BY <3>1 DEF Within
  <2> QED
    BY <1>1, <2>1, CacheFacts DEF Place, At, Wrap, Addr
<1>5. \A n \in 0..Most : \A i \in lo..hi :
        hi - i <= n => f[n][Place(lo, b, head, i)] = Line(lo, hi, b, head, i)
  <2> DEFINE Bad(n) == \E i \in lo..hi : hi - i <= n /\ f[n][Place(lo, b, head, i)] # Line(lo, hi, b, head, i)
  <2>1. SUFFICES ASSUME NEW S, S = {n \in 0..Most : Bad(n)}, S # {} PROVE FALSE
    <3>1. {n \in 0..Most : Bad(n)} = {}
      BY <2>1
    <3> QED
      BY <3>1
  <2>2. PICK n \in S : \A y \in S : n <= y
    <3>1. S \in SUBSET Nat
      BY <1>3, <2>1
    <3> QED
      BY <2>1, <3>1, Least
  <2>3. n \in 0..Most
    BY <2>1
  <2>4. PICK i \in lo..hi : hi - i <= n /\ f[n][Place(lo, b, head, i)] # Line(lo, hi, b, head, i)
    BY <2>1
  <2>5. Place(lo, b, head, i) \in Addr
    BY <1>1, Apart
  <2>6. f[n][Place(lo, b, head, i)]
          = IF Place(lo, b, head, i) = last \/ n = 0 THEN <<Place(lo, b, head, i)>>
            ELSE <<Place(lo, b, head, i)>> \o f[n - 1][RapNext(Place(lo, b, head, i))]
    <3>1. f[n] = Walk(f, n)
      BY <1>2, <2>3 DEF Walks
    <3> QED
      BY <2>5, <3>1 DEF Walk
  <2>7. CASE i = hi
    BY <1>1, <2>4, <2>6, <2>7, LineStep
  <2>8. CASE i < hi
    <3>1. Place(lo, b, head, i) # last /\ n # 0 /\ n - 1 \in 0..Most /\ i + 1 \in lo..hi /\ hi - (i + 1) <= n - 1
      <4>1. Place(lo, b, head, i) # last
        <5>1. i # hi
          BY <1>1, <2>8
        <5>2. \A x, y \in lo..hi : Place(lo, b, head, x) = Place(lo, b, head, y) => x = y
          BY <1>1, Apart
        <5> QED
          BY <1>1, <5>1, <5>2
      <4> QED
        BY <1>1, <1>3, <2>3, <2>4, <2>8, <4>1
    <3>2. RapNext(Place(lo, b, head, i)) = Place(lo, b, head, i + 1)
      BY <2>8, GroupAt
    <3>3. n - 1 \notin S
      BY <2>2, <2>3
    <3>4. f[n - 1][Place(lo, b, head, i + 1)] = Line(lo, hi, b, head, i + 1)
      BY <2>1, <3>1, <3>3
    <3> QED
      BY <1>1, <2>4, <2>6, <2>8, <3>1, <3>2, <3>4, LineStep
  <2> QED
    BY <1>1, <2>7, <2>8
<1>6. f[Most][Place(lo, b, head, lo)] = Line(lo, hi, b, head, lo)
  BY <1>1, <1>3, <1>5
<1> QED
  BY <1>2, <1>4, <1>6
-----------------------------------------------------------------------------
(* The cache at work.                                                      *)

(* The ring of the output: its last group is the one begun last, all the   *)
(* others were closed.                                                     *)
WasClosed(n, first, next) == \E g \in made : g[2] = n /\ g[3] = first /\ g[4] = next - 1

Filled(lo, hi, b, t) ==
  /\ Ring(lo, hi, b, t, head, mem)
  /\ last = Place(lo, b, head, hi) /\ tail = Place(lo, b, head, hi + 1)
  /\ b[hi] = begun /\ b[hi + 1] = words + 1 /\ t[hi] = ts
  /\ \A i \in lo..(hi - 1) : WasClosed(t[i], b[i], b[i + 1])

Numbers == words \in Nat /\ ts \in Nat

RingInv == Numbers /\ \E lo, hi, b, t : Filled(lo, hi, b, t)

(* output_initialize: one group, of nothing.                               *)
Flat(b, w) == b = [i \in Nat |-> w]

(* A header written at the start of the cache is a ring of one empty       *)
(* group.                                                                  *)
LEMMA Fresh ==
  ASSUME NEW m, NEW w \in Nat, NEW b, Flat(b, w), NEW t, Flat(t, 0)
  PROVE  /\ Ring(0, 0, b, t, 0, Store(m, 0, HeaderOf(0)))
         /\ Place(0, b, 0, 0) = 0 /\ Place(0, b, 0, 1) = Header
         /\ b[0] = w /\ b[1] = w /\ t[0] = 0
<1>1. b \in [Nat -> Nat] /\ t \in [Nat -> Nat] /\ b[0] = w /\ b[1] = w /\ t[0] = 0
  BY DEF Flat
<1>2. Pos(b, 0) = w /\ Pos(b, 1) = w + 3 /\ Pos(b, 0 + 1) = w + 3
  BY <1>1 DEF Pos, Header
<1>3. 0 \in Addr /\ At(0, 0) = 0 /\ At(0, 3) = 3 /\ At(0, 2) = 2 /\ 0 \in 0..(Cache - 1) /\ 2 \in 0..(Cache - 1)
  BY CacheFacts DEF Addr, At, Wrap
<1>4. Bounds(0, 0, b)
  <2>1. \A i \in 0..(0 + 1) : b[i] = w
    BY DEF Flat
  <2> QED
    BY <1>1, <1>2, <2>1, CacheFacts DEF Bounds
<1>5. /\ Store(m, 0, HeaderOf(0))[0] = <<"ts", 0>>
      /\ Store(m, 0, HeaderOf(0))[2] = <<"size", 0>>
  <2>1. HasLen(HeaderOf(0), 3) /\ 0 + 3 <= Cache /\ 3 \in Nat
    BY CacheFacts DEF HasLen, HeaderOf
  <2>2. ASSUME NEW e \in 0..2
        PROVE  Store(m, At(0, 0), HeaderOf(0))[At(0, e)] = HeaderOf(0)[e - 0 + 1]
    <3>1. 0 <= e /\ e < 0 + 3 /\ e \in 0..(Cache - 1)
      BY CacheFacts
    <3> QED
      <4>1. Written(m, 0, 0, HeaderOf(0), e)
        BY <1>3, <2>1, <3>1, StoreIn
      <4> QED
        BY <4>1 DEF Written
  <2>3. HeaderOf(0)[1] = <<"ts", 0>> /\ HeaderOf(0)[3] = <<"size", 0>>
    BY DEF HeaderOf
  <2>4. 0 - 0 + 1 = 1 /\ 2 - 0 + 1 = 3 /\ 0 \in 0..2 /\ 2 \in 0..2
    OBVIOUS
  <2> QED
    BY <1>3, <2>2, <2>3, <2>4
<1>6. Held(0, 0, b, t, 0, Store(m, 0, HeaderOf(0)), 0)
  <2> DEFINE m2 == Store(m, 0, HeaderOf(0))
  <2>1. m2[0] = <<"ts", 0>> /\ m2[2] = <<"size", 0>>
    BY <1>5
  <2> HIDE DEF m2
  <2>2. w - w = 0 /\ w + 2 - w = 2 /\ b[0]..(b[0 + 1] - 1) = {}
    BY <1>1
  <2>3. m2[At(0, Pos(b, 0) - Pos(b, 0))] = <<"ts", 0>> /\ m2[At(0, Pos(b, 0) + 2 - Pos(b, 0))] = <<"size", 0>>
    BY <1>2, <1>3, <2>1, <2>2
  <2>4. Held(0, 0, b, t, 0, m2, 0)
    BY <1>1, <2>2, <2>3 DEF Held
  <2> QED
    BY <2>4 DEF m2
<1>7. Ring(0, 0, b, t, 0, Store(m, 0, HeaderOf(0)))
  <2>1. \A i \in 0..0 : i = 0
    OBVIOUS
  <2> QED
    BY <1>1, <1>3, <1>4, <1>6, <2>1 DEF Ring
<1>8. Place(0, b, 0, 0) = 0 /\ Place(0, b, 0, 1) = Header
  <2>1. w - w = 0 /\ w + 3 - w = 3
    OBVIOUS
  <2> QED
    BY <1>2, <1>3, <2>1 DEF Place, Header
<1> QED
  BY <1>1, <1>7, <1>8

(* Groups given up to make room: the least number that is enough.          *)
Room(b, hi, i, size) == Cache - (Pos(b, hi + 1) - Pos(b, i)) > size + Header

Fewest(lo, hi, b, d, size) ==
  Room(b, hi, d, size) /\ \A j \in lo..(d - 1) : ~Room(b, hi, j, size)

(* The loop of new_sample_callback gives up the fewest groups that make    *)
(* room, and leaves a ring.                                                *)
LEMMA Moved ==
  ASSUME NEW lo, NEW hi, NEW b, NEW t, Filled(lo, hi, b, t), NEW size \in Nat, MoveHead(size)
  PROVE  \E d \in lo..hi :
           /\ Ring(d, hi, b, t, head', mem)
           /\ last = Place(d, b, head', hi) /\ tail = Place(d, b, head', hi + 1)
           /\ Fewest(lo, hi, b, d, size)
<1>1. /\ Ring(lo, hi, b, t, head, mem) /\ Bounds(lo, hi, b)
      /\ last = Place(lo, b, head, hi) /\ tail = Place(lo, b, head, hi + 1)
      /\ lo \in Nat /\ hi \in Nat /\ lo <= hi
  BY DEF Filled, Ring, Bounds
<1>2. Chain = Line(lo, hi, b, head, lo)
  BY <1>1, ChainIs
<1>3. PICK i \in {k \in DOMAIN Chain : CacheFree(Chain[k], tail) > size + Header} :
        /\ \A j \in {k \in DOMAIN Chain : CacheFree(Chain[k], tail) > size + Header} : i <= j
        /\ head' = Chain[i]
  BY DEF MoveHead
<1>4. /\ DOMAIN Chain = 1..(hi - lo + 1)
      /\ \A k \in 1..(hi - lo + 1) : Chain[k] = Place(lo, b, head, lo + k - 1)
  BY <1>2 DEF Line
<1>5. \A k \in lo..hi : (CacheFree(Place(lo, b, head, k), tail) > size + Header) = Room(b, hi, k, size)
  BY <1>1, GroupAt DEF Room
<1>6. PICK d \in lo..hi : d = lo + i - 1 /\ i = d - lo + 1 /\ i \in 1..(hi - lo + 1)
  <2>1. i \in 1..(hi - lo + 1)
    BY <1>3, <1>4
  <2> QED
    BY <1>1, <2>1
<1>7. head' = Place(lo, b, head, d)
  BY <1>3, <1>4, <1>6
<1>8. Room(b, hi, d, size)
  BY <1>3, <1>4, <1>5, <1>6
<1>9. ASSUME NEW j \in lo..(d - 1) PROVE ~Room(b, hi, j, size)
  <2>1. j \in lo..hi /\ j - lo + 1 \in 1..(hi - lo + 1) /\ ~(i <= j - lo + 1) /\ lo + (j - lo + 1) - 1 = j
    BY <1>1, <1>6
  <2>2. ~(CacheFree(Chain[j - lo + 1], tail) > size + Header)
    BY <1>3, <1>4, <2>1
  <2> QED
    BY <1>4, <1>5, <2>1, <2>2
<1>10. /\ Ring(d, hi, b, t, head', mem)
       /\ \A k \in d..(hi + 1) : Place(d, b, head', k) = Place(lo, b, head, k)
  BY <1>1, <1>7, Dropped
<1>11. hi \in d..(hi + 1) /\ hi + 1 \in d..(hi + 1)
  BY <1>1
<1> QED
  BY <1>1, <1>8, <1>9, <1>10, <1>11 DEF Fewest

(* After it there is room for the sample and a header.                     *)
LEMMA Enough ==
  ASSUME NEW d, NEW hi, NEW b, Bounds(d, hi, b), NEW lo, NEW size \in Nat, Fewest(lo, hi, b, d, size)
  PROVE  Pos(b, hi + 1) + Header + size - Pos(b, d) < Cache /\ Pos(b, hi + 1) + size - Pos(b, d) < Cache
<1>1. d \in d..hi
  BY DEF Bounds
<1>2. Within(d, hi, b, d)
  BY <1>1, Between
<1> QED
  BY <1>2 DEF Within, Fewest, Room, Header

(* A sample goes into the last group.                                      *)
LEMMA SampleStep ==
  ASSUME NEW lo, NEW hi, NEW b, NEW t, Filled(lo, hi, b, t), Numbers, NEW size \in Nat, Sample(size)
  PROVE  \E d \in lo..hi : \E b2 :
           Filled(d, hi, b2, t)' /\ Longer(b, b2, hi + 1, size) /\ Fewest(lo, hi, b, d, size)
<1>1. /\ MoveHead(size)
      /\ mem' = Store(mem, tail, [i \in 1..size |-> <<"data", words + i>>])
      /\ tail' = Wrap(tail + size) /\ last' = last
      /\ words' = words + size /\ UNCHANGED <<ts, begun, made>>
      /\ words \in Nat
  BY DEF Sample, CopyBuffer, Numbers
<1>2. PICK d \in lo..hi :
        /\ Ring(d, hi, b, t, head', mem)
        /\ last = Place(d, b, head', hi) /\ tail = Place(d, b, head', hi + 1)
        /\ Fewest(lo, hi, b, d, size)
  BY <1>1, Moved
<1>3. b[hi] = begun /\ b[hi + 1] = words + 1 /\ t[hi] = ts /\ \A i \in lo..(hi - 1) : WasClosed(t[i], b[i], b[i + 1])
  BY DEF Filled
<1>4. Bounds(d, hi, b) /\ hi \in Nat /\ d \in Nat /\ b \in [Nat -> Nat] /\ lo \in Nat
  <2>1. lo \in Nat
    BY DEF Filled, Ring, Bounds
  <2> QED
    BY <1>2, <2>1 DEF Ring, Bounds
<1> DEFINE b2 == [i \in Nat |-> IF i = hi + 1 THEN b[i] + size ELSE b[i]]
           ws == [i \in 1..size |-> <<"data", words + i>>]
<1>5. Longer(b, b2, hi + 1, size)
  BY <1>4 DEF Longer
<1>6. Follows(ws, size, b[hi + 1])
  <2>1. \A i \in 1..size : words + i = words + 1 + i - 1
    BY <1>1
  <2> QED
    BY <1>3, <2>1 DEF Follows
<1> HIDE DEF b2, ws
<1>7. Pos(b, hi + 1) + size - Pos(b, d) < Cache
  BY <1>2, <1>4, Enough
<1>8. /\ Ring(d, hi, b2, t, head', Store(mem, Place(d, b, head', hi + 1), ws))
      /\ Place(d, b2, head', hi) = Place(d, b, head', hi)
      /\ Place(d, b2, head', hi + 1) = Wrap(Place(d, b, head', hi + 1) + size)
  BY <1>2, <1>5, <1>6, <1>7, Extended
<1>9. /\ b2[hi] = b[hi] /\ b2[hi + 1] = b[hi + 1] + size
      /\ \A i \in d..(hi - 1) : b2[i] = b[i] /\ b2[i + 1] = b[i + 1]
  BY <1>4, <1>5 DEF Longer
<1>10. \A i \in d..(hi - 1) : WasClosed(t[i], b2[i], b2[i + 1])'
  <2> TAKE i \in d..(hi - 1)
  <2>1. WasClosed(t[i], b[i], b[i + 1])
    BY <1>3, <1>4
  <2>2. b2[i] = b[i] /\ b2[i + 1] = b[i + 1]
    BY <1>9
  <2> QED
    BY <1>1, <2>1, <2>2 DEF WasClosed
<1>11. b2[hi] = begun' /\ b2[hi + 1] = words' + 1 /\ t[hi] = ts'
  BY <1>1, <1>3, <1>9
<1>12. Filled(d, hi, b2, t)'
  <2>1. Ring(d, hi, b2, t, head', mem') /\ last' = Place(d, b2, head', hi) /\ tail' = Place(d, b2, head', hi + 1)
    BY <1>1, <1>2, <1>8 DEF ws
  <2> QED
    BY <1>10, <1>11, <2>1 DEF Filled
<1> QED
  BY <1>2, <1>5, <1>12

(* A key frame closes the last group and begins the next one.              *)
LEMMA KeyStep ==
  ASSUME NEW lo, NEW hi, NEW b, NEW t, Filled(lo, hi, b, t), Numbers, NEW size \in Nat, KeySample(size)
  PROVE  \E d \in lo..hi : \E b1, b2, t2 :
           /\ Filled(d, hi + 1, b2, t2)'
           /\ Further(b, t, b1, t2, hi, ts') /\ Longer(b1, b2, hi + 2, size)
           /\ Fewest(lo, hi, b, d, size)
<1>1. /\ MoveHead(size) /\ CopyBuffer(MoveLastRap(ts'), size)
      /\ ts' \in Nat
      /\ words' = words + size /\ made' = made \cup {<<age, ts, begun, words>>} /\ begun' = words + 1
      /\ words \in Nat
  <2>1. /\ MoveHead(size) /\ CopyBuffer(MoveLastRap(ts'), size)
        /\ words' = words + size /\ made' = made \cup {<<age, ts, begun, words>>} /\ begun' = words + 1
    BY DEF KeySample
  <2>2. ts' = ts \/ ts' = ts + 1 \/ ts' \in 1..MaxFirst
    BY DEF KeySample
  <2> QED
    BY <2>1, <2>2 DEF Numbers
<1>2. PICK d \in lo..hi :
        /\ Ring(d, hi, b, t, head', mem)
        /\ last = Place(d, b, head', hi) /\ tail = Place(d, b, head', hi + 1)
        /\ Fewest(lo, hi, b, d, size)
  BY <1>1, Moved
<1>3. b[hi] = begun /\ b[hi + 1] = words + 1 /\ t[hi] = ts /\ \A i \in lo..(hi - 1) : WasClosed(t[i], b[i], b[i + 1])
  BY DEF Filled
<1>4. /\ Bounds(d, hi, b) /\ hi \in Nat /\ d \in Nat /\ b \in [Nat -> Nat] /\ lo \in Nat /\ d <= hi
      /\ head' \in Addr /\ t \in [Nat -> Nat]
  <2>1. lo \in Nat
    BY DEF Filled, Ring, Bounds
  <2> QED
    BY <1>2, <2>1 DEF Ring, Bounds
<1>5. PICK b1, t2 : Further(b, t, b1, t2, hi, ts') /\ b1 \in [Nat -> Nat]
  <2> DEFINE b1 == [i \in Nat |-> IF i = hi + 2 THEN b[hi + 1] ELSE b[i]]
             t2 == [i \in Nat |-> IF i = hi + 1 THEN ts' ELSE t[i]]
  <2>1. b1 \in [Nat -> Nat] /\ t2 \in [Nat -> Nat]
    BY <1>1, <1>4
  <2>2. b1[hi + 2] = b[hi + 1] /\ t2[hi + 1] = ts'
    BY <1>4
  <2>3. \A i \in 0..(hi + 1) : i \in Nat /\ i # hi + 2
    BY <1>4
  <2>4. \A i \in 0..hi : i \in Nat /\ i # hi + 1
    BY <1>4
  <2>5. Further(b, t, b1, t2, hi, ts')
    BY <2>1, <2>2, <2>3, <2>4 DEF Further
  <2> HIDE DEF b1, t2
  <2> QED
    BY <2>1, <2>5
<1>6. PICK b2 : Longer(b1, b2, hi + 2, size)
  <2> DEFINE b2 == [i \in Nat |-> IF i = hi + 2 THEN b1[i] + size ELSE b1[i]]
  <2>1. Longer(b1, b2, hi + 2, size)
    BY <1>4, <1>5 DEF Longer
  <2> HIDE DEF b2
  <2> QED
    BY <2>1
<1> DEFINE ws == [i \in 1..size |-> <<"data", words + i>>]
<1>7. Follows(ws, size, b1[hi + 2])
  <2>1. \A i \in 1..size : words + i = words + 1 + i - 1
    BY <1>1
  <2>2. b1[hi + 2] = words + 1
    BY <1>3, <1>5 DEF Further
  <2> QED
    BY <2>1, <2>2 DEF Follows
<1> HIDE DEF ws
<1>8. Pos(b, hi + 1) + Header - Pos(b, d) < Cache /\ Pos(b1, hi + 2) + size - Pos(b1, d) < Cache
  <2>1. Within(d, hi, b, hi)
    BY <1>4, Between
  <2>2. Pos(b, hi + 1) + Header + size - Pos(b, d) < Cache
    BY <1>2, <1>4, Enough
  <2>3. Pos(b1, d) = Pos(b, d)
    <3>1. d \in 0..(hi + 1)
      BY <1>4
    <3> QED
      BY <1>5, <3>1 DEF Further, Pos
  <2>4. Pos(b1, hi + 2) = b[hi + 1] + Header * (hi + 2)
    BY <1>5 DEF Further, Pos
  <2>5. Pos(b, hi + 1) = b[hi + 1] + Header * (hi + 1)
    BY DEF Pos
  <2>6. Pos(b1, hi + 2) = Pos(b, hi + 1) + Header
    BY <1>4, <2>1, <2>4, <2>5 DEF Header, Within
  <2> QED
    BY <2>1, <2>2, <2>3, <2>6 DEF Within, Header
<1>9. /\ Ring(d, hi + 1, b1, t2, head', MoveLastRap(ts').mem)
      /\ MoveLastRap(ts').last = Place(d, b1, head', hi + 1)
      /\ MoveLastRap(ts').tail = Place(d, b1, head', hi + 2)
  BY <1>1, <1>2, <1>4, <1>5, <1>8, Opened
<1>10. hi + 1 + 1 = hi + 2
  BY <1>4
<1>11. /\ Ring(d, hi + 1, b2, t2, head', Store(MoveLastRap(ts').mem, Place(d, b1, head', hi + 2), ws))
       /\ Place(d, b2, head', hi + 1) = Place(d, b1, head', hi + 1)
       /\ Place(d, b2, head', hi + 2) = Wrap(Place(d, b1, head', hi + 2) + size)
  BY <1>6, <1>7, <1>8, <1>9, <1>10, Extended
<1>12. /\ b2[hi + 1] = b[hi + 1] /\ b2[hi + 2] = b[hi + 1] + size
       /\ \A i \in d..hi : b2[i] = b[i] /\ b2[i + 1] = b[i + 1] /\ t2[i] = t[i]
       /\ t2[hi + 1] = ts'
  <2>1. \A i \in 0..(hi + 1) : b2[i] = b[i]
    <3>1. \A i \in 0..(hi + 1) : i \in Nat \ {hi + 2}
      BY <1>4
    <3> QED
      BY <1>5, <1>6, <3>1 DEF Longer, Further
  <2>2. \A i \in d..hi : i \in 0..(hi + 1) /\ i + 1 \in 0..(hi + 1) /\ i \in 0..hi
    BY <1>4
  <2>3. hi + 1 \in 0..(hi + 1)
    BY <1>4
  <2>4. b2[hi + 2] = b[hi + 1] + size
    BY <1>5, <1>6 DEF Longer, Further
  <2>5. t2[hi + 1] = ts' /\ \A i \in 0..hi : t2[i] = t[i]
    BY <1>5 DEF Further
  <2> QED
    BY <2>1, <2>2, <2>3, <2>4, <2>5
<1>13. ASSUME NEW i \in d..hi PROVE WasClosed(t2[i], b2[i], b2[i + 1])'
  <2>1. b2[i] = b[i] /\ b2[i + 1] = b[i + 1] /\ t2[i] = t[i]
    BY <1>12
  <2>2. CASE i = hi
    <3>1. b[i + 1] - 1 = words
      BY <1>1, <1>3, <2>2
    <3> DEFINE g == <<age, ts, begun, words>>
    <3>2. g \in made' /\ g[2] = ts /\ g[3] = begun /\ g[4] = words
      BY <1>1
    <3>3. t2[i] = ts /\ b2[i] = begun /\ b2[i + 1] - 1 = words
      BY <1>3, <2>1, <2>2, <3>1
    <3> HIDE DEF g
    <3> QED
      BY <3>2, <3>3 DEF WasClosed
  <2>3. CASE i # hi
    <3>1. WasClosed(t[i], b[i], b[i + 1])
      BY <1>3, <1>4, <2>3
    <3> QED
      BY <1>1, <2>1, <3>1 DEF WasClosed
  <2> QED
    BY <2>2, <2>3
<1>14. b2[hi + 1] = begun' /\ b2[hi + 2] = words' + 1 /\ t2[hi + 1] = ts'
  BY <1>1, <1>3, <1>12
<1>15. Filled(d, hi + 1, b2, t2)'
  <2>1. /\ Ring(d, hi + 1, b2, t2, head', mem') /\ last' = Place(d, b2, head', hi + 1)
        /\ tail' = Place(d, b2, head', hi + 2)
    BY <1>1, <1>9, <1>11 DEF ws, CopyBuffer
  <2>2. tail' = Place(d, b2, head', hi + 1 + 1) /\ b2[hi + 1 + 1] = words' + 1
    BY <1>10, <1>14, <2>1
  <2>3. \A i \in d..(hi + 1 - 1) : WasClosed(t2[i], b2[i], b2[i + 1])'
    BY <1>4, <1>13
  <2> QED
    <3>1. Ring(d, hi + 1, b2, t2, head, mem)'
      BY <2>1
    <3>2. (last = Place(d, b2, head, hi + 1) /\ tail = Place(d, b2, head, hi + 1 + 1))'
      BY <2>1, <2>2
    <3>3. (b2[hi + 1] = begun /\ b2[hi + 1 + 1] = words + 1 /\ t2[hi + 1] = ts)'
      BY <1>14, <2>2
    <3>4. (\A i \in d..(hi + 1 - 1) : WasClosed(t2[i], b2[i], b2[i + 1]))'
      BY <2>3
    <3> QED
      BY <1>4, <3>1, <3>2, <3>3, <3>4 DEF Filled
<1> QED
  BY <1>2, <1>5, <1>6, <1>15
-----------------------------------------------------------------------------
(* What is copied out of the ring.                                         *)
Entries == (Nat \cup {Torn}) \X Seq({"data"} \X Nat)
Segments == {r \in Entries : r[1] # Torn => IsSegment(r[1], r[2])}

SegInv ==
  /\ RingInv
  /\ lastTs \in Nat \cup {Torn}
  /\ queue \in Seq(Segments) /\ files \subseteq Segments

(* The words of a group are between its first and the next one's.          *)
LEMMA InRun ==
  \A x, y \in Nat : \A z \in 1..(y - x) : x + z - 1 \in x..(y - 1) /\ x + z - 1 \in Nat
  OBVIOUS

(* A closed group has one name, but for a torn time stamp, and its payload *)
(* is the segment of that name.                                            *)
LEMMA ClosedAre ==
  ASSUME RingInv, NEW a \in Closed
  PROVE  \E n \in Nat : /\ RapTimestamp(a) \subseteq {n, Torn}
                        /\ IsSegment(n, Payload(a)) /\ Payload(a) \in Seq({"data"} \X Nat)
<1>1. PICK lo, hi, b, t : Filled(lo, hi, b, t)
  BY DEF RingInv
<1>2. /\ Ring(lo, hi, b, t, head, mem) /\ last = Place(lo, b, head, hi) /\ Bounds(lo, hi, b)
      /\ lo \in Nat /\ hi \in Nat /\ lo <= hi /\ t \in [Nat -> Nat]
  BY <1>1 DEF Filled, Ring, Bounds
<1>3. PICK k \in 1..(Len(Chain) - 1) : a = Chain[k]
  BY DEF Closed
<1>4. PICK i \in lo..hi : i < hi /\ a = Place(lo, b, head, i)
  <2>1. Chain = Line(lo, hi, b, head, lo)
    BY <1>2, ChainIs
  <2>2. hi - lo + 1 \in Nat
    BY <1>2
  <2>3. Len(Chain) = hi - lo + 1 /\ Chain[k] = Place(lo, b, head, lo + k - 1)
    <3>1. Len(Chain) = hi - lo + 1
      BY <2>1, <2>2 DEF Line
    <3>2. k \in 1..(hi - lo + 1)
      BY <1>2, <3>1
    <3> QED
      BY <2>1, <3>1, <3>2 DEF Line
  <2>4. lo + k - 1 \in lo..hi /\ lo + k - 1 < hi
    BY <1>2, <2>3
  <2> QED
    BY <1>3, <2>3, <2>4
<1>5. /\ a \in Addr /\ mem[a] = <<"ts", t[i]>> /\ GopSize(a) = b[i + 1] - b[i]
      /\ Filling(a, i, b)
  <2> DEFINE p == Place(lo, b, head, i)
  <2>1. /\ p \in Addr /\ mem[p] = <<"ts", t[i]>> /\ (i < hi => GopSize(p) = b[i + 1] - b[i])
        /\ Filling(p, i, b)
    <3>1. Ring(lo, hi, b, t, head, mem)
      BY <1>2
    <3> QED
      BY <3>1, GroupAt
  <2> HIDE DEF p
  <2>2. a = p
    BY <1>4 DEF p
  <2> QED
    BY <1>4, <2>1, <2>2
<1>6. /\ b[i] \in Nat /\ b[i + 1] \in Nat /\ b[i] <= b[i + 1] /\ t[i] \in Nat /\ i \in lo..(hi - 1)
  <2>1. Within(lo, hi, b, i)
    BY <1>2, Between
  <2> QED
    BY <1>2, <1>4, <2>1 DEF Within
<1>7. ASSUME NEW j \in 1..GopSize(a)
      PROVE  Payload(a)[j] = <<"data", b[i] + j - 1>> /\ b[i] + j - 1 \in Nat
  <2>1. PICK w \in b[i]..(b[i + 1] - 1) : w = b[i] + j - 1 /\ w \in Nat
    <3>1. PICK x \in Nat, y \in Nat : x = b[i] /\ y = b[i + 1] /\ j \in 1..(y - x)
      BY <1>5, <1>6
    <3>2. x + j - 1 \in x..(y - 1) /\ x + j - 1 \in Nat
      BY <3>1, InRun, Zenon
    <3> QED
      BY <3>1, <3>2
  <2>2. a + Header + j - 1 = a + Header + (w - b[i])
    <3>1. a \in Int /\ Header \in Int /\ b[i] \in Int /\ j \in Int
      BY <1>5, <1>6, CacheFacts DEF Addr, Header
    <3> QED
      BY <2>1, <3>1
  <2>3. Payload(a)[j] = mem[Wrap(a + Header + j - 1)]
    BY DEF Payload
  <2>4. mem[Wrap(a + Header + (w - b[i]))] = <<"data", w>>
    BY <1>5 DEF Filling
  <2> QED
    BY <2>1, <2>2, <2>3, <2>4
<1>8. Payload(a) \in Seq({"data"} \X Nat) /\ Len(Payload(a)) = GopSize(a) /\ DOMAIN Payload(a) = 1..GopSize(a)
  <2>1. GopSize(a) \in Nat
    BY <1>5, <1>6
  <2>2. Payload(a) = [j \in 1..GopSize(a) |-> Payload(a)[j]]
    BY DEF Payload
  <2>3. ASSUME NEW j \in 1..GopSize(a) PROVE Payload(a)[j] \in {"data"} \X Nat
    <3>1. PICK w \in Nat : Payload(a)[j] = <<"data", w>>
      BY <1>7
    <3> QED
      BY <3>1
  <2> QED
    BY <2>1, <2>2, <2>3
<1>9. IsSegment(t[i], Payload(a))
  <2>1. PICK g \in made : g[2] = t[i] /\ g[3] = b[i] /\ g[4] = b[i + 1] - 1
    BY <1>1, <1>6 DEF Filled, WasClosed
  <2>2. Len(Payload(a)) = g[4] - g[3] + 1
    <3>1. PICK x \in Nat, y \in Nat : x = b[i] /\ y = b[i + 1]
      BY <1>6
    <3>2. Len(Payload(a)) = y - x
      BY <1>5, <1>8, <3>1
    <3>3. g[4] = y - 1 /\ g[3] = x
      BY <2>1, <3>1
    <3> QED
      BY <3>2, <3>3
  <2>3. \A j \in DOMAIN Payload(a) : Payload(a)[j] = <<"data", g[3] + j - 1>>
    BY <1>7, <1>8, <2>1
  <2> QED
    BY <2>1, <2>2, <2>3 DEF IsSegment
<1>10. RapTimestamp(a) \subseteq {t[i], Torn}
  BY <1>5 DEF RapTimestamp
<1> QED
  BY <1>6, <1>8, <1>9, <1>10

(* encoder_output_gop_seek gives a closed group of the time stamp asked    *)
(* for, or nothing.                                                        *)
LEMMA SeekGives ==
  ASSUME RingInv, NEW n \in Nat \cup {Torn}, NEW a \in SeekIn(Closed, n), a # None
  PROVE  <<n, Payload(a)>> \in Segments
<1>1. a \in Closed /\ n \in RapTimestamp(a)
  BY DEF SeekIn
<1>2. PICK m \in Nat : /\ RapTimestamp(a) \subseteq {m, Torn}
                       /\ IsSegment(m, Payload(a)) /\ Payload(a) \in Seq({"data"} \X Nat)
  BY <1>1, ClosedAre
<1>3. n # Torn => n = m
  BY <1>1, <1>2
<1> DEFINE r == <<n, Payload(a)>>
<1>4. r \in Entries /\ r[1] = n /\ r[2] = Payload(a)
  BY <1>2 DEF Entries
<1> HIDE DEF r
<1>5. r \in Segments
  BY <1>2, <1>3, <1>4 DEF Segments
<1> QED
  BY <1>5 DEF r

(* The last group has the time stamp of the segment being written.         *)
LEMMA LastStamp ==
  ASSUME RingInv
  PROVE  RapTimestamp(last) \subseteq {ts, Torn} /\ ts \in Nat /\ last \in Addr /\ head \in Addr /\ tail \in Addr
<1>1. PICK lo, hi, b, t : Filled(lo, hi, b, t)
  BY DEF RingInv
<1>2. Ring(lo, hi, b, t, head, mem) /\ hi \in lo..hi /\ last = Place(lo, b, head, hi)
      /\ tail = Place(lo, b, head, hi + 1) /\ t[hi] = ts /\ head \in Addr
  BY <1>1 DEF Filled, Ring, Bounds
<1>3. mem[last] = <<"ts", ts>> /\ last \in Addr /\ tail \in Addr
  BY <1>2, GroupAt
<1> QED
  BY <1>2, <1>3 DEF RapTimestamp, RingInv, Numbers
(* What the ring depends on.                                               *)
cells == <<mem, head, tail, last, words, ts, begun, made>>

(* A step that changes none of the cells of the ring leaves it one.        *)
LEMMA RingQuiet ==
  ASSUME RingInv, UNCHANGED cells
  PROVE  RingInv'
<1>1. PICK lo, hi, b, t : Filled(lo, hi, b, t)
  BY DEF RingInv
<1>2. Filled(lo, hi, b, t)'
  BY <1>1 DEF cells, Filled, WasClosed
<1>3. Numbers'
  BY DEF RingInv, Numbers, cells
<1> QED
  BY <1>2, <1>3 DEF RingInv

(* The ring a worker is started with.                                      *)
LEMMA FilledFirst ==
  ASSUME Init, NEW b, Flat(b, 1), NEW t, Flat(t, 0)
  PROVE  Filled(0, 0, b, t)
<1> DEFINE m == [a \in Addr |-> <<"size", 0>>]
<1>1. 1 \in Nat
  OBVIOUS
<1>2. /\ Ring(0, 0, b, t, 0, Store(m, 0, HeaderOf(0)))
      /\ Place(0, b, 0, 0) = 0 /\ Place(0, b, 0, 1) = Header
      /\ b[0] = 1 /\ b[1] = 1 /\ t[0] = 0
  BY <1>1, Fresh
<1>3. /\ mem = Store(m, 0, HeaderOf(0)) /\ head = 0 /\ tail = Header /\ last = 0
      /\ words = 0 /\ begun = 1 /\ ts = 0
  BY DEF Init
<1>4. 0 + 1 = 1 /\ 0..(0 - 1) = {}
  OBVIOUS
<1> QED
  BY <1>2, <1>3, <1>4 DEF Filled

(* The ring invariant holds of the first state.                            *)
LEMMA RingInit ==
  ASSUME Init
  PROVE  RingInv
<1>1. PICK b : Flat(b, 1)
  BY DEF Flat
<1>2. PICK t : Flat(t, 0)
  BY DEF Flat
<1>3. Filled(0, 0, b, t)
  BY <1>1, <1>2, FilledFirst
<1>4. words = 0 /\ ts = 0
  BY DEF Init
<1> QED
  BY <1>3, <1>4 DEF RingInv, Numbers

(* Each step leaves a ring, and no closed group is forgotten.              *)
LEMMA RingNext ==
  ASSUME RingInv, [Next]_vars
  PROVE  RingInv' /\ made \subseteq made'
<1> USE DEF RingInv
<1>1. PICK lo, hi, b, t : Filled(lo, hi, b, t) /\ Numbers
  OBVIOUS
<1>2. CASE UNCHANGED cells
  BY <1>2, RingQuiet DEF cells
<1>3. ASSUME NEW size \in 1..MaxSize, Sample(size) PROVE RingInv' /\ made \subseteq made'
  <2>1. size \in Nat
    BY CacheFacts
  <2>2. \E d \in lo..hi : \E b2 :
          Filled(d, hi, b2, t)' /\ Longer(b, b2, hi + 1, size) /\ Fewest(lo, hi, b, d, size)
    BY <1>1, <1>3, <2>1, SampleStep
  <2>3. Numbers' /\ made' = made
    BY <1>1, <1>3, <2>1 DEF Numbers, Sample
  <2> QED
    BY <2>2, <2>3
<1>4. ASSUME NEW size \in 1..MaxSize, KeySample(size) PROVE RingInv' /\ made \subseteq made'
  <2>1. size \in Nat
    BY CacheFacts
  <2>2. \E d \in lo..hi : \E b1, b2, t2 :
           /\ Filled(d, hi + 1, b2, t2)'
           /\ Further(b, t, b1, t2, hi, ts') /\ Longer(b1, b2, hi + 2, size)
           /\ Fewest(lo, hi, b, d, size)
    BY <1>1, <1>4, <2>1, KeyStep
  <2>3. made \subseteq made' /\ words' = words + size /\ (ts' = ts \/ ts' = ts + 1 \/ ts' \in 1..MaxFirst)
    BY <1>4 DEF KeySample
  <2>4. Numbers'
    BY <1>1, <2>1, <2>3, OutputAssumption DEF Numbers
  <2> QED
    BY <2>2, <2>3, <2>4
<1>5. CASE OutputInitialize
  <2>1. PICK w \in Nat : w = words + 1
    BY <1>1 DEF Numbers
  <2>2. PICK c : Flat(c, w)
    BY DEF Flat
  <2>3. PICK u : Flat(u, 0)
    BY DEF Flat
  <2>4. /\ Ring(0, 0, c, u, 0, Store(mem, 0, HeaderOf(0)))
        /\ Place(0, c, 0, 0) = 0 /\ Place(0, c, 0, 1) = Header
        /\ c[0] = w /\ c[1] = w /\ u[0] = 0
    BY <2>1, <2>2, <2>3, Fresh
  <2>5. /\ mem' = Store(mem, 0, HeaderOf(0)) /\ head' = 0 /\ tail' = Header /\ last' = 0
        /\ words' = words /\ begun' = words + 1 /\ ts' = 0 /\ made' = made
    BY <1>5 DEF OutputInitialize
  <2>6. Filled(0, 0, c, u)'
    <3>1. 0 + 1 = 1 /\ 0..(0 - 1) = {}
      OBVIOUS
    <3> QED
      BY <2>1, <2>4, <2>5, <3>1 DEF Filled
  <2>7. Numbers'
    BY <1>1, <2>5 DEF Numbers
  <2> QED
    BY <2>5, <2>6, <2>7
<1>6. CASE ForceKey \/ SendMsg \/ Die \/ JobReset \/ Play \/ UNCHANGED vars
  BY <1>2, <1>6 DEF cells, ForceKey, SendMsg, Die, JobReset, Play, vars, ring, encoder
<1>7. CASE DropMsg \/ Handle \/ WriteSegment
  BY <1>2, <1>7 DEF cells, DropMsg, Handle, WriteSegment, ring, encoder
<1>8. CASE Request \/ Begin \/ Leave \/ NextChunk \/ SendData
  BY <1>2, <1>8 DEF cells, Request, Begin, Leave, NextChunk, SendData, ring, encoder
<1> QED
  BY <1>3, <1>4, <1>5, <1>6, <1>7, <1>8 DEF Next

(* A segment stays one, as the groups closed are never forgotten.          *)
LEMMA SegmentsStay ==
  ASSUME made \subseteq made'
  PROVE  Segments \subseteq Segments'
<1>1. ASSUME NEW r \in Entries, r[1] # Torn => IsSegment(r[1], r[2])
      PROVE  (r[1] # Torn => IsSegment(r[1], r[2]))'
  BY <1>1 DEF IsSegment
<1> QED
  BY <1>1 DEF Segments

(* A sequence over a set is one over a larger set, and stays it with an    *)
(* element appended or the first one taken.                                *)
LEMMA SeqGrows ==
  ASSUME NEW S, NEW T, S \subseteq T, NEW q \in Seq(S), NEW e \in T
  PROVE  /\ q \in Seq(T) /\ Append(q, e) \in Seq(T)
         /\ q # <<>> => Tail(q) \in Seq(T) /\ q[1] \in T
<1>1. q \in Seq(T)
  BY SeqMonotonic
<1>2. q # <<>> => q[1] \in T /\ Tail(q) \in Seq(T)
  BY <1>1, HeadTailProperties
<1> QED
  BY <1>1, <1>2

(* Each step keeps the queue and the files segments: only Handle and       *)
(* WriteSegment touch them.                                                *)
LEMMA SegNext ==
  ASSUME SegInv, [Next]_vars
  PROVE  SegInv'
<1>1. RingInv' /\ made \subseteq made' /\ RingInv
  BY RingNext DEF SegInv
<1>2. Segments \subseteq Segments'
  BY <1>1, SegmentsStay
<1>3. /\ lastTs \in Nat \cup {Torn} /\ queue \in Seq(Segments) /\ files \subseteq Segments
      /\ queue \in Seq(Segments')
  <2>1. queue \in Seq(Segments) /\ lastTs \in Nat \cup {Torn} /\ files \subseteq Segments
    BY DEF SegInv
  <2> QED
    BY <1>2, <2>1, SeqMonotonic
<1>4. CASE UNCHANGED <<queue, files>> /\ lastTs' \in {lastTs, 0}
  BY <1>1, <1>2, <1>3, <1>4 DEF SegInv
<1>5. CASE Handle
  <2>1. lastTs' \in RapTimestamp(last) /\ files' = files
    BY <1>5 DEF Handle
  <2>2. lastTs' \in Nat \cup {Torn}
    BY <1>1, <2>1, LastStamp
  <2>3. queue' \in Seq(Segments')
    <3>1. CASE lastTs = 0
      BY <1>3, <1>5, <3>1 DEF Handle
    <3>2. CASE lastTs # 0
      <4>1. PICK a \in SeekIn(Closed, lastTs) :
              queue' = IF a = None THEN queue ELSE Append(queue, <<lastTs, Payload(a)>>)
        BY <1>5, <3>2 DEF Handle, Record, Seek
      <4>2. a # None => <<lastTs, Payload(a)>> \in Segments
        BY <1>1, <1>3, SeekGives
      <4>3. a # None => Append(queue, <<lastTs, Payload(a)>>) \in Seq(Segments')
        BY <1>2, <1>3, <4>2, SeqGrows
      <4> QED
        BY <1>3, <4>1, <4>3
    <3> QED
      BY <3>1, <3>2
  <2> QED
    BY <1>1, <1>2, <1>3, <2>1, <2>2, <2>3 DEF SegInv
<1>6. CASE WriteSegment
  <2>1. /\ queue # <<>> /\ queue' = Tail(queue) /\ lastTs' = lastTs
        /\ files' \subseteq files \cup {queue[1]}
    BY <1>6 DEF WriteSegment
  <2>2. queue[1] \in Segments' /\ Tail(queue) \in Seq(Segments')
    BY <1>3, <2>1, HeadTailProperties
  <2> QED
    BY <1>1, <1>2, <1>3, <2>1, <2>2 DEF SegInv
<1>7. CASE ForceKey \/ SendMsg \/ Die \/ JobReset \/ OutputInitialize \/ Play \/ UNCHANGED vars
  BY <1>4, <1>7 DEF ForceKey, SendMsg, Die, JobReset, OutputInitialize, Play, vars, daemon
<1>8. ASSUME NEW size \in 1..MaxSize, Sample(size) \/ KeySample(size) PROVE SegInv'
  BY <1>4, <1>8 DEF Sample, KeySample, daemon
<1>9. CASE DropMsg \/ Request \/ Begin \/ Leave \/ NextChunk \/ SendData
  BY <1>4, <1>9 DEF DropMsg, Request, Begin, Leave, NextChunk, SendData, daemon
<1> QED
  BY <1>5, <1>6, <1>7, <1>8, <1>9 DEF Next

(* So they are in every state.                                             *)
LEMMA SegAlways == Spec => []SegInv
<1>1. Init => SegInv
  <2> SUFFICES ASSUME Init PROVE SegInv
    OBVIOUS
  <2>1. RingInv
    BY RingInit
  <2>2. lastTs = 0 /\ queue = <<>> /\ files = {}
    BY DEF Init
  <2> QED
    BY <2>1, <2>2 DEF SegInv
<1>2. SegInv /\ [Next]_vars => SegInv'
  BY SegNext
<1> QED
  BY <1>1, <1>2, PTL DEF Spec

(* Whatever segment is asked for, get_mpeg2ts_segment, the record queue    *)
(* and the recorded files give a whole group of its name, for every size   *)
(* of the cache and of the samples.                                        *)
THEOREM SegmentTheorem == Spec => []SegmentExact
<1>1. SegInv => SegmentExact
  <2> SUFFICES ASSUME SegInv PROVE SegmentExact
    OBVIOUS
  <2>1. RingInv /\ queue \in Seq(Segments) /\ files \subseteq Segments
    BY DEF SegInv
  <2>2. ASSUME NEW n \in 0..MaxTs, NEW a \in SeekIn(Closed, n) \ {None}
        PROVE  IsSegment(n, Payload(a))
    <3>1. n \in Nat \cup {Torn} /\ n # Torn
      BY DEF Torn
    <3> DEFINE r == <<n, Payload(a)>>
    <3>2. r \in Segments
      BY <2>1, <3>1, SeekGives
    <3>3. r[1] = n /\ r[2] = Payload(a)
      OBVIOUS
    <3> HIDE DEF r
    <3> QED
      BY <3>1, <3>2, <3>3 DEF Segments
  <2>3. ASSUME NEW r \in {queue[i] : i \in DOMAIN queue} \cup files, r[1] # Torn
        PROVE  IsSegment(r[1], r[2])
    <3>1. r \in Segments
      <4>1. \A i \in DOMAIN queue : queue[i] \in Segments
        BY <2>1
      <4> QED
        BY <2>1, <4>1
    <3> QED
      BY <2>3, <3>1 DEF Segments
  <2> QED
    BY <2>2, <2>3 DEF SegmentExact
<1> QED
  BY <1>1, SegAlways, PTL
-----------------------------------------------------------------------------
(* The messages and the playlist.                                          *)

(* Messages are of different segments, in order; one of the segment that   *)
(* is the last comes from its worker, and the worker about to send has sent *)
(* none of it.                                                             *)
Ascending(q) == \A i, j \in 1..Len(q) : i < j => q[i] < q[j]
UpTo(q, n) == \A i \in 1..Len(q) : q[i] <= n

MsgInv ==
  /\ msgs \in Seq(Nat) /\ words \in Nat /\ begun \in Nat /\ ts \in Nat
  /\ begun <= words + 1
  /\ UpTo(msgs, words) /\ UpTo(msgs, begun) /\ Ascending(msgs)
  /\ ts = 0 => UpTo(msgs, begun - 1)
  /\ worker = "send" => begun <= words /\ ts > 0 /\ m3u8 /\ UpTo(msgs, begun - 1)
  /\ worker = "reset" => state # "PLAYING" /\ lastTs = 0
  /\ ~m3u8 => lastTs = 0 /\ msgs = <<>>

(* What is up to a number is up to a larger one.                           *)
LEMMA UpToWeaker ==
  ASSUME NEW q \in Seq(Nat), NEW n \in Int, UpTo(q, n), NEW k \in Int, n <= k
  PROVE  UpTo(q, k)
<1>1. \A i \in 1..Len(q) : q[i] \in Nat /\ q[i] <= n
  BY DEF UpTo
<1>2. \A i \in 1..Len(q) : q[i] <= k
  BY <1>1
<1> QED
  BY <1>2 DEF UpTo

(* A queue of messages grows at its end and shrinks at its head.           *)
LEMMA Appended ==
  ASSUME NEW q \in Seq(Nat), NEW n \in Nat, UpTo(q, n - 1), Ascending(q)
  PROVE  Append(q, n) \in Seq(Nat) /\ UpTo(Append(q, n), n) /\ Ascending(Append(q, n))
<1> DEFINE s == Append(q, n)
<1>1. /\ s \in Seq(Nat) /\ Len(s) = Len(q) + 1 /\ Len(q) \in Nat
      /\ s[Len(q) + 1] = n /\ \A i \in 1..Len(q) : s[i] = q[i]
  OBVIOUS
<1>2. \A i \in 1..Len(q) : q[i] \in Nat /\ q[i] <= n - 1
  BY DEF UpTo
<1> HIDE DEF s
<1>3. \A i \in 1..Len(s) : i \in 1..Len(q) \/ i = Len(q) + 1
  BY <1>1
<1>4. UpTo(s, n)
  BY <1>1, <1>2, <1>3 DEF UpTo
<1>5. Ascending(s)
  <2> SUFFICES ASSUME NEW i \in 1..Len(s), NEW j \in 1..Len(s), i < j PROVE s[i] < s[j]
    BY DEF Ascending
  <2>1. i \in 1..Len(q)
    BY <1>1
  <2>2. CASE j \in 1..Len(q)
    BY <1>1, <2>1, <2>2 DEF Ascending
  <2>3. CASE j = Len(q) + 1
    BY <1>1, <1>2, <2>1, <2>3
  <2> QED
    BY <1>3, <2>2, <2>3
<1> QED
  BY <1>1, <1>4, <1>5 DEF s

(* The queue without its first message.                                    *)
LEMMA Taken ==
  ASSUME NEW q \in Seq(Nat), q # <<>>, Ascending(q)
  PROVE  /\ Tail(q) \in Seq(Nat) /\ Ascending(Tail(q)) /\ Len(q) > 0
         /\ \A n \in Int : UpTo(q, n) => UpTo(Tail(q), n)
         /\ \A n \in Nat : UpTo(q, n) /\ q[1] = n => Tail(q) = <<>> /\ Len(q) = 1
<1> DEFINE s == Tail(q)
<1>1. /\ s \in Seq(Nat) /\ Len(s) = Len(q) - 1 /\ Len(q) \in Nat \ {0}
      /\ \A i \in 1..Len(s) : s[i] = q[i + 1]
  BY HeadTailProperties, EmptySeq
<1> HIDE DEF s
<1>2. \A i \in 1..Len(s) : i + 1 \in 1..Len(q)
  BY <1>1
<1>3. Ascending(s)
  <2> SUFFICES ASSUME NEW i \in 1..Len(s), NEW j \in 1..Len(s), i < j PROVE s[i] < s[j]
    BY DEF Ascending
  <2>1. i + 1 \in 1..Len(q) /\ j + 1 \in 1..Len(q) /\ i + 1 < j + 1
    BY <1>2
  <2>2. q[i + 1] < q[j + 1]
    BY <2>1 DEF Ascending
  <2> QED
    BY <1>1, <2>2
<1>4. \A n \in Int : UpTo(q, n) => UpTo(s, n)
  BY <1>1, <1>2 DEF UpTo
<1>5. ASSUME NEW n \in Nat, UpTo(q, n), q[1] = n
      PROVE  s = <<>> /\ Len(q) = 1
  <2>1. \A i \in 1..Len(q) : q[i] \in Nat /\ q[i] <= n
    BY <1>5 DEF UpTo
  <2>2. \A i \in 1..Len(q) : 1 < i => q[1] < q[i]
    <3>1. 1 \in 1..Len(q)
      BY <1>1
    <3> QED
      BY <3>1 DEF Ascending
  <2>3. Len(q) = 1
    BY <1>1, <1>5, <2>1, <2>2
  <2> QED
    BY <1>1, <2>3
<1> QED
  BY <1>1, <1>3, <1>4, <1>5 DEF s

(* A message names the first word of a group that was begun, in order, in  *)
(* every state.                                                            *)
LEMMA MsgNext ==
  ASSUME MsgInv, [Next]_vars
  PROVE  MsgInv'
<1>1. /\ msgs \in Seq(Nat) /\ words \in Nat /\ begun \in Nat /\ ts \in Nat
      /\ begun <= words + 1
      /\ UpTo(msgs, words) /\ UpTo(msgs, begun) /\ Ascending(msgs)
      /\ ts = 0 => UpTo(msgs, begun - 1)
      /\ worker = "send" => begun <= words /\ ts > 0 /\ m3u8 /\ UpTo(msgs, begun - 1)
      /\ worker = "reset" => state # "PLAYING" /\ lastTs = 0
      /\ ~m3u8 => lastTs = 0 /\ msgs = <<>>
  BY DEF MsgInv
<1>2. CASE UNCHANGED <<m3u8, msgs, words, begun, ts, worker, state, lastTs>>
  BY <1>2, <1>1 DEF MsgInv
<1>3. ASSUME NEW size \in 1..MaxSize, Sample(size) PROVE MsgInv'
  <2>1. /\ words' = words + size /\ size \in Nat /\ UNCHANGED <<m3u8, msgs, begun, ts, worker, state, lastTs>>
        /\ worker = "run"
    BY <1>3, CacheFacts DEF Sample, daemon
  <2>2. UpTo(msgs, words + size)
    BY <1>1, <2>1, UpToWeaker
  <2> QED
    BY <1>1, <2>1, <2>2 DEF MsgInv
<1>4. ASSUME NEW size \in 1..MaxSize, KeySample(size) PROVE MsgInv'
  <2>1. /\ words' = words + size /\ size \in Nat \ {0} /\ begun' = words + 1 /\ UNCHANGED <<m3u8, msgs, state, lastTs>>
        /\ worker = "run" /\ worker' \in {"run", "send"} /\ ts' \in Nat
        /\ worker' = "send" => m3u8 /\ ts' > 0
    <3>1. /\ words' = words + size /\ begun' = words + 1 /\ UNCHANGED <<m3u8, msgs, state, lastTs>> /\ worker = "run"
      BY <1>4 DEF KeySample, daemon
    <3>2. \/ ts' = ts /\ worker' = worker
          \/ m3u8 /\ worker' = "send" /\ (ts' \in 1..MaxFirst \/ ts' = ts + 1)
      BY <1>4 DEF KeySample
    <3>3. ts' = ts \/ ts' = ts + 1 \/ ts' \in 1..MaxFirst => ts' \in Nat /\ (ts' = ts \/ ts' > 0)
      BY <1>1
    <3>4. size \in Nat \ {0}
      BY CacheFacts
    <3> QED
      BY <1>1, <3>1, <3>2, <3>3, <3>4
  <2>2. UpTo(msgs, words + size) /\ UpTo(msgs, words + 1) /\ words + 1 - 1 = words
    BY <1>1, <2>1, UpToWeaker
  <2> QED
    BY <1>1, <2>1, <2>2 DEF MsgInv
<1>5. CASE SendMsg
  <2>1. /\ worker = "send" /\ worker' = "run" /\ UNCHANGED <<m3u8, words, begun, ts, state, lastTs>>
        /\ msgs' \in {msgs, Append(msgs, begun)}
    BY <1>5 DEF SendMsg, ring
  <2>2. CASE msgs' = msgs
    BY <1>1, <2>1, <2>2 DEF MsgInv
  <2>3. CASE msgs' = Append(msgs, begun)
    <3>1. msgs' \in Seq(Nat) /\ UpTo(msgs', begun) /\ Ascending(msgs')
      BY <1>1, <2>1, <2>3, Appended
    <3>2. UpTo(msgs', words)
      BY <1>1, <2>1, <3>1, UpToWeaker
    <3> QED
      BY <1>1, <2>1, <3>1, <3>2 DEF MsgInv
  <2> QED
    BY <2>1, <2>2, <2>3
<1>6. CASE OutputInitialize
  <2>1. /\ worker' = "run" /\ UNCHANGED <<m3u8, words, msgs, lastTs>> /\ begun' = words + 1 /\ ts' = 0
    BY <1>6 DEF OutputInitialize, daemon
  <2>2. UpTo(msgs, words + 1) /\ words + 1 - 1 = words
    BY <1>1, UpToWeaker
  <2> QED
    BY <1>1, <2>1, <2>2 DEF MsgInv
<1>7. CASE DropMsg \/ Handle
  <2>1. /\ msgs # <<>> /\ msgs' = Tail(msgs) /\ UNCHANGED <<m3u8, words, begun, ts, state, worker>>
        /\ lastTs' = lastTs \/ (state = "PLAYING" /\ m3u8)
    BY <1>1, <1>7 DEF DropMsg, Handle, encoder
  <2>2. /\ msgs' \in Seq(Nat) /\ Ascending(msgs') /\ UpTo(msgs', words) /\ UpTo(msgs', begun)
        /\ (UpTo(msgs, begun - 1) => UpTo(msgs', begun - 1))
    BY <1>1, <2>1, Taken
  <2>3. m3u8
    BY <1>1, <2>1
  <2> QED
    BY <1>1, <2>1, <2>2, <2>3 DEF MsgInv
<1>8. CASE ForceKey \/ WriteSegment \/ UNCHANGED vars
  BY <1>2, <1>8 DEF ForceKey, WriteSegment, vars, encoder, daemon
<1>9. CASE Die \/ JobReset \/ Play
  BY <1>1, <1>9 DEF MsgInv, Die, JobReset, Play, encoder, daemon
<1>10. CASE Request \/ Begin \/ Leave \/ NextChunk \/ SendData
  BY <1>2, <1>10 DEF Request, Begin, Leave, NextChunk, SendData, encoder, daemon
<1> QED
  BY <1>3, <1>4, <1>5, <1>6, <1>7, <1>8, <1>9, <1>10 DEF Next
(* A segment that was closed by the worker of now.                         *)
Complete(n) == \E g \in made : g[1] = age /\ g[2] = n
AllComplete(q) == \A i \in DOMAIN q : q[i] # Torn => Complete(q[i])

Consecutive(q) == \A i \in 2..Len(q) : q[i - 1] # Torn /\ q[i] # Torn => q[i] = q[i - 1] + 1

(* The segment to be listed next is the one being written: everything that *)
(* was sent was handled.                                                   *)
Current == lastTs = ts /\ msgs = <<>> /\ worker # "send"

(* No message lost or late: each message there is of one more segment, and *)
(* the worker about to send, or dead before it did, is one ahead.          *)
Counted ==
  \/ lastTs + Len(msgs) = ts /\ worker # "send"
  \/ lastTs + Len(msgs) + 1 = ts /\ UpTo(msgs, begun - 1) /\ worker \in {"send", "dead"}

ListInv ==
  /\ lastTs \in Nat \cup {Torn} /\ playlist \in Seq(Int) /\ number \in Int
  /\ playlist # <<>> => number = playlist[Len(playlist)]
  /\ "late" \notin astray => /\ AllComplete(playlist)
                             /\ lastTs \notin {0, Torn} => Complete(lastTs) \/ Current
  /\ astray = {} => /\ lastTs = 0 => playlist = <<>>
                    /\ Consecutive(playlist)
                    /\ playlist # <<>> /\ number # Torn /\ lastTs # Torn => lastTs = number + 1
                    /\ lastTs \notin {0, Torn} => Counted

(* m3u8playlist_add_entry: the oldest entry goes when the window is full.  *)
WithEntry(q, n) == Append(IF Len(q) >= Window THEN Tail(q) ELSE q, n)
Shifted(q, s, k, n) ==
  /\ s \in Seq(Int) /\ Len(s) = Len(q) + 1 - k /\ Len(s) > 0 /\ s[Len(s)] = n
  /\ \A i \in 1..(Len(s) - 1) : i + k \in 1..Len(q) /\ s[i] = q[i + k]

(* m3u8playlist_add_entry: the playlist moves on by none or one entry and  *)
(* ends with the new one.                                                  *)
LEMMA EntryAdded ==
  ASSUME NEW q \in Seq(Int), NEW n \in Int
  PROVE  \E k \in {0, 1} : Shifted(q, WithEntry(q, n), k, n)
<1>1. Window \in Nat \ {0}
  BY OutputAssumption
<1>2. CASE Len(q) >= Window
  <2> DEFINE p == Tail(q)
  <2>1. q # <<>> /\ Len(q) > 0
    BY <1>1, <1>2
  <2>2. /\ p \in Seq(Int) /\ Len(p) = Len(q) - 1
        /\ \A i \in 1..Len(p) : p[i] = q[i + 1]
    BY <2>1, HeadTailProperties
  <2> HIDE DEF p
  <2> DEFINE s == Append(p, n)
  <2>3. /\ s \in Seq(Int) /\ Len(s) = Len(p) + 1 /\ s[Len(p) + 1] = n
        /\ \A i \in 1..Len(p) : s[i] = p[i]
    BY <2>2
  <2> HIDE DEF s
  <2>4. Shifted(q, s, 1, n)
    BY <2>1, <2>2, <2>3 DEF Shifted
  <2> QED
    BY <1>2, <2>4 DEF p, s, WithEntry
<1>3. CASE ~(Len(q) >= Window)
  <2> DEFINE s == Append(q, n)
  <2>1. /\ s \in Seq(Int) /\ Len(s) = Len(q) + 1 /\ s[Len(q) + 1] = n
        /\ \A i \in 1..Len(q) : s[i] = q[i]
    OBVIOUS
  <2> HIDE DEF s
  <2>2. Shifted(q, s, 0, n)
    BY <2>1 DEF Shifted
  <2> QED
    BY <1>3, <2>2 DEF s, WithEntry
<1> QED
  BY <1>2, <1>3

(* An entry that follows the last one keeps them consecutive.              *)
LEMMA EntryFollows ==
  ASSUME NEW q \in Seq(Int), NEW n \in Int, NEW s, NEW k \in {0, 1}, Shifted(q, s, k, n),
         Consecutive(q), q # <<>> /\ q[Len(q)] # Torn /\ n # Torn => n = q[Len(q)] + 1
  PROVE  Consecutive(s)
<1>1. /\ Len(s) = Len(q) + 1 - k /\ s[Len(s)] = n /\ Len(s) \in Nat /\ Len(q) \in Nat
      /\ \A j \in 1..(Len(s) - 1) : j + k \in 1..Len(q) /\ s[j] = q[j + k]
  <2>1. s \in Seq(Int) /\ Len(s) = Len(q) + 1 - k /\ s[Len(s)] = n
    BY DEF Shifted
  <2>2. \A j \in 1..(Len(s) - 1) : j + k \in 1..Len(q) /\ s[j] = q[j + k]
    BY DEF Shifted
  <2> HIDE DEF Shifted
  <2> QED
    BY <2>1, <2>2
<1> SUFFICES ASSUME NEW i \in 2..Len(s), s[i - 1] # Torn, s[i] # Torn
             PROVE  s[i] = s[i - 1] + 1
  BY DEF Consecutive
<1>2. s[i - 1] = q[i - 1 + k] /\ i - 1 + k \in 1..Len(q)
  BY <1>1
<1>3. CASE i = Len(s)
  <2>1. i - 1 + k = Len(q) /\ q # <<>>
    BY <1>1, <1>2, <1>3
  <2> QED
    BY <1>1, <1>2, <1>3, <2>1
<1>4. CASE i < Len(s)
  <2>1. s[i] = q[i + k] /\ i + k \in 2..Len(q) /\ i + k - 1 = i - 1 + k
    <3>1. i \in 1..(Len(s) - 1)
      BY <1>1, <1>4
    <3>2. s[i] = q[i + k] /\ i + k \in 1..Len(q)
      BY <1>1, <3>1
    <3> QED
      BY <3>2
  <2> QED
    BY <1>2, <2>1 DEF Consecutive
<1> QED
  BY <1>1, <1>3, <1>4

(* A segment closed stays closed as long as the worker is the same one.    *)
LEMMA CompleteStays ==
  ASSUME made \subseteq made', UNCHANGED age
  PROVE  /\ \A n : Complete(n) => Complete(n)'
         /\ playlist' = playlist /\ AllComplete(playlist) => AllComplete(playlist)'
<1>1. ASSUME NEW n, Complete(n) PROVE Complete(n)'
  BY <1>1 DEF Complete
<1>2. ASSUME playlist' = playlist, AllComplete(playlist) PROVE AllComplete(playlist)'
  <2> SUFFICES ASSUME NEW i \in DOMAIN playlist, playlist[i] # Torn PROVE Complete(playlist[i])'
    BY <1>2 DEF AllComplete
  <2>1. PICK n : n = playlist[i]
    OBVIOUS
  <2>2. Complete(n)'
    BY <1>1, <1>2, <2>1 DEF AllComplete
  <2>3. n = playlist[i]'
    BY <1>2, <2>1
  <2> QED
    BY <2>2, <2>3
<1> QED
  BY <1>1, <1>2
(* msg_thread: what it lists was complete, and what it will list is what   *)
(* is being written.                                                       *)
LEMMA ListHandle ==
  ASSUME RingInv, MsgInv, ListInv, Handle
  PROVE  ListInv'
<1>1. /\ msgs \in Seq(Nat) /\ begun \in Nat /\ ts \in Nat /\ Len(msgs) \in Nat
      /\ UpTo(msgs, begun) /\ Ascending(msgs)
      /\ ts = 0 => UpTo(msgs, begun - 1)
      /\ worker = "send" => UpTo(msgs, begun - 1)
  BY DEF MsgInv
<1>2. /\ lastTs \in Nat \cup {Torn} /\ playlist \in Seq(Int) /\ number \in Int
      /\ playlist # <<>> => number = playlist[Len(playlist)]
      /\ "late" \notin astray => /\ AllComplete(playlist)
                                 /\ lastTs \notin {0, Torn} => Complete(lastTs) \/ Current
      /\ astray = {} => /\ lastTs = 0 => playlist = <<>>
                        /\ Consecutive(playlist)
                        /\ playlist # <<>> /\ number # Torn /\ lastTs # Torn => lastTs = number + 1
                        /\ lastTs \notin {0, Torn} => Counted
  BY DEF ListInv
<1>3. /\ msgs # <<>> /\ msgs' = Tail(msgs) /\ lastTs' \in RapTimestamp(last)
      /\ astray' = IF msgs[1] = begun THEN astray ELSE astray \cup {"late"}
      /\ UNCHANGED <<age, made, ts, begun, worker>>
  BY DEF Handle, encoder
<1>4. lastTs' \in {ts, Torn} /\ lastTs' \in Nat \cup {Torn}
  BY <1>3, LastStamp
<1>5. "late" \notin astray' => msgs[1] = begun /\ "late" \notin astray /\ (astray' = {} => astray = {})
  BY <1>3
<1>6. ASSUME msgs[1] = begun
      PROVE  /\ msgs' = <<>> /\ Len(msgs) = 1 /\ Len(msgs') = 0
             /\ worker # "send" /\ ts # 0 /\ ~UpTo(msgs, begun - 1)
  <2>1. Tail(msgs) = <<>> /\ Len(msgs) = 1
    BY <1>1, <1>3, <1>6, Taken
  <2>2. ~UpTo(msgs, begun - 1)
    <3>1. 1 \in 1..Len(msgs) /\ ~(begun <= begun - 1)
      BY <1>1, <2>1
    <3> QED
      BY <1>6, <3>1 DEF UpTo
  <2> QED
    BY <1>1, <1>3, <2>1, <2>2
<1>7. "late" \notin astray' => (lastTs \notin {0, Torn} => Complete(lastTs))
  BY <1>2, <1>3, <1>5, <1>6 DEF Current
<1>8. astray' = {} => (lastTs \notin {0, Torn} => ts = lastTs + 1)
  <2> SUFFICES ASSUME astray' = {}, lastTs \notin {0, Torn} PROVE ts = lastTs + 1
    OBVIOUS
  <2>1. msgs[1] = begun /\ Counted
    BY <1>2, <1>5
  <2>2. Len(msgs) = 1 /\ ~UpTo(msgs, begun - 1) /\ lastTs \in Nat
    BY <1>2, <1>6, <2>1
  <2> QED
    BY <1>1, <2>1, <2>2 DEF Counted
<1>9. "late" \notin astray' /\ lastTs' # Torn => Current'
  BY <1>3, <1>4, <1>5, <1>6 DEF Current
<1>10. astray' = {} => /\ lastTs' # 0
                       /\ lastTs' # Torn => Counted'
  <2> SUFFICES ASSUME astray' = {} PROVE lastTs' # 0 /\ (lastTs' # Torn => Counted')
    OBVIOUS
  <2>1. msgs[1] = begun
    BY <1>5
  <2>2. Len(msgs') = 0 /\ ts # 0 /\ worker' # "send" /\ ts' = ts
    BY <1>3, <1>6, <2>1
  <2>3. lastTs' # 0
    BY <1>4, <2>2 DEF Torn
  <2>4. lastTs' # Torn => lastTs' + Len(msgs') = ts'
    <3>1. lastTs' # Torn => lastTs' = ts /\ ts \in Nat
      BY <1>1, <1>4
    <3> QED
      BY <2>2, <3>1
  <2> QED
    BY <2>2, <2>3, <2>4 DEF Counted
<1>11. CASE lastTs = 0
  <2>1. UNCHANGED <<playlist, number>>
    BY <1>11 DEF Handle
  <2>2. AllComplete(playlist) => AllComplete(playlist)'
    BY <1>3, <2>1, CompleteStays
  <2>3. astray' = {} => playlist' = <<>>
    BY <1>2, <1>5, <1>11, <2>1
  <2>4. Consecutive(<<>>)
    BY DEF Consecutive
  <2>5. astray' = {} => Consecutive(playlist')
    BY <2>3, <2>4
  <2> QED
    BY <1>2, <1>4, <1>5, <1>9, <1>10, <2>1, <2>2, <2>3, <2>5 DEF ListInv
<1>12. CASE lastTs # 0
  <2>1. playlist' = WithEntry(playlist, lastTs) /\ number' = lastTs
    BY <1>12 DEF Handle, AddEntry, WithEntry
  <2>2. lastTs \in Int
    BY <1>2 DEF Torn
  <2>3. PICK k \in {0, 1} : Shifted(playlist, playlist', k, lastTs)
    BY <1>2, <2>1, <2>2, EntryAdded
  <2>4. /\ playlist' \in Seq(Int) /\ Len(playlist') > 0 /\ playlist'[Len(playlist')] = lastTs
        /\ \A i \in 1..(Len(playlist') - 1) : i + k \in 1..Len(playlist) /\ playlist'[i] = playlist[i + k]
    BY <2>3 DEF Shifted
  <2>5. "late" \notin astray' => AllComplete(playlist)'
    <3> SUFFICES ASSUME "late" \notin astray', NEW i \in DOMAIN playlist', playlist'[i] # Torn
                 PROVE  Complete(playlist[i])'
      BY DEF AllComplete
    <3>1. PICK n : n = playlist'[i]
      OBVIOUS
    <3>2. Complete(n)
      <4>1. CASE i = Len(playlist')
        BY <1>7, <1>12, <2>4, <3>1, <4>1
      <4>2. CASE i # Len(playlist')
        <5>1. i \in 1..(Len(playlist') - 1)
          BY <2>4, <4>2
        <5>2. i + k \in DOMAIN playlist /\ n = playlist[i + k]
          <6>1. i + k \in 1..Len(playlist) /\ playlist'[i] = playlist[i + k]
            BY <2>4, <5>1
          <6>2. DOMAIN playlist = 1..Len(playlist)
            BY <1>2
          <6> QED
            BY <3>1, <6>1, <6>2
        <5> QED
          BY <1>2, <1>5, <3>1, <5>2 DEF AllComplete
      <4> QED
        BY <4>1, <4>2
    <3>3. Complete(n)'
      BY <1>3, <3>2, CompleteStays
    <3> QED
      BY <3>1, <3>3
  <2>6. astray' = {} => Consecutive(playlist')
    <3> SUFFICES ASSUME astray' = {} PROVE Consecutive(playlist')
      OBVIOUS
    <3>1. /\ Consecutive(playlist)
          /\ playlist # <<>> /\ number # Torn /\ lastTs # Torn => lastTs = number + 1
          /\ playlist # <<>> => number = playlist[Len(playlist)]
      BY <1>2, <1>5
    <3> QED
      BY <1>2, <2>2, <2>3, <3>1, EntryFollows
  <2>7. astray' = {} /\ number' # Torn /\ lastTs' # Torn => lastTs' = number' + 1
    BY <1>4, <1>8, <1>12, <2>1
  <2>8. playlist' # <<>> /\ number' = playlist'[Len(playlist')] /\ number' \in Int
    BY <2>1, <2>2, <2>4
  <2>9. "late" \notin astray' => /\ AllComplete(playlist)'
                                 /\ lastTs' \notin {0, Torn} => Complete(lastTs)' \/ Current'
    BY <1>9, <2>5
  <2>10. astray' = {} => /\ lastTs' # 0 /\ Consecutive(playlist')
                         /\ number' # Torn /\ lastTs' # Torn => lastTs' = number' + 1
                         /\ lastTs' # Torn => Counted'
    BY <1>10, <2>6, <2>7, Zenon
  <2>11. lastTs' \in Nat \cup {Torn} /\ playlist' \in Seq(Int) /\ number' \in Int
    BY <1>4, <2>4, <2>8
  <2> QED
    BY <2>8, <2>9, <2>10, <2>11, Zenon DEF ListInv
<1> QED
  BY <1>11, <1>12

(* Each step keeps the playlist in order: only Handle and JobReset change  *)
(* it.                                                                     *)
LEMMA ListNext ==
  ASSUME RingInv, MsgInv, ListInv, [Next]_vars
  PROVE  ListInv'
<1>1. /\ msgs \in Seq(Nat) /\ begun \in Nat /\ ts \in Nat /\ words \in Nat /\ Len(msgs) \in Nat
      /\ UpTo(msgs, words)
      /\ worker = "reset" => lastTs = 0
      /\ ~m3u8 => lastTs = 0
  BY DEF MsgInv
<1>2. /\ lastTs \in Nat \cup {Torn} /\ playlist \in Seq(Int) /\ number \in Int
      /\ playlist # <<>> => number = playlist[Len(playlist)]
      /\ "late" \notin astray => /\ AllComplete(playlist)
                                 /\ lastTs \notin {0, Torn} => Complete(lastTs) \/ Current
      /\ astray = {} => /\ lastTs = 0 => playlist = <<>>
                        /\ Consecutive(playlist)
                        /\ playlist # <<>> /\ number # Torn /\ lastTs # Torn => lastTs = number + 1
                        /\ lastTs \notin {0, Torn} => Counted
  BY DEF ListInv
<1>3. CASE UNCHANGED <<age, made, lastTs, playlist, number, astray, msgs, ts, begun, worker>>
  BY <1>3 DEF ListInv, AllComplete, Complete, Current, Counted
<1>4. ASSUME UNCHANGED <<age, lastTs, playlist, number>>, made \subseteq made', astray \subseteq astray',
             "late" \notin astray' => (lastTs \notin {0, Torn} => Complete(lastTs)' \/ Current'),
             astray' = {} => (lastTs \notin {0, Torn} => Counted')
      PROVE  ListInv'
  <2>1. AllComplete(playlist) => AllComplete(playlist)'
    BY <1>4, CompleteStays
  <2>2. (lastTs \notin {0, Torn}) = (lastTs' \notin {0, Torn})
    BY <1>4
  <2>3. astray' = {} => astray = {} /\ ("late" \notin astray' => "late" \notin astray)
    BY <1>4
  <2> QED
    BY <1>2, <1>4, <2>1, <2>2, <2>3 DEF ListInv
<1>5. ASSUME NEW size \in 1..MaxSize, Sample(size) PROVE ListInv'
  BY <1>3, <1>5 DEF Sample, daemon
<1>6. ASSUME NEW size \in 1..MaxSize, KeySample(size) PROVE ListInv'
  <2>1. /\ UNCHANGED <<age, lastTs, playlist, number, astray, msgs>>
        /\ made' = made \cup {<<age, ts, begun, words>>} /\ begun' = words + 1 /\ worker = "run"
    BY <1>6 DEF KeySample, daemon
  <2>2. m3u8 => worker' = "send" /\ (ts # 0 => ts' = ts + 1)
    BY <1>6 DEF KeySample
  <2>3. PICK n : n = lastTs
    OBVIOUS
  <2>4. "late" \notin astray' => (lastTs \notin {0, Torn} => Complete(lastTs)')
    <3>1. Complete(n) => Complete(n)'
      BY <2>1, CompleteStays
    <3>2. n = ts => Complete(n)'
      <4> DEFINE g == <<age, ts, begun, words>>
      <4>1. g \in made' /\ g[1] = age' /\ g[2] = ts
        BY <2>1
      <4> HIDE DEF g
      <4> QED
        BY <4>1 DEF Complete
    <3>3. Complete(n)' => Complete(lastTs)'
      BY <2>1, <2>3
    <3> QED
      BY <1>2, <2>1, <2>3, <3>1, <3>2, <3>3 DEF Current
  <2>5. astray' = {} => (lastTs \notin {0, Torn} => Counted')
    <3> SUFFICES ASSUME astray' = {}, lastTs \notin {0, Torn} PROVE Counted'
      OBVIOUS
    <3>1. lastTs + Len(msgs) = ts /\ lastTs \in Nat \ {0} /\ m3u8
      BY <1>1, <1>2, <2>1 DEF Counted
    <3>2. ts' = ts + 1 /\ worker' = "send"
      BY <1>1, <2>2, <3>1
    <3>3. UpTo(msgs', begun' - 1)
      <4>1. begun' - 1 = words /\ msgs' = msgs
        BY <1>1, <2>1
      <4> QED
        BY <1>1, <4>1
    <3>4. lastTs' + Len(msgs') + 1 = ts'
      BY <1>1, <2>1, <3>1, <3>2
    <3> QED
      BY <3>2, <3>3, <3>4 DEF Counted
  <2> QED
    BY <1>4, <2>1, <2>4, <2>5
<1>7. CASE SendMsg
  <2>1. /\ UNCHANGED <<age, lastTs, playlist, number, made, ts, begun>> /\ worker = "send" /\ worker' = "run"
        /\ \/ msgs' = Append(msgs, begun) /\ astray' = astray
           \/ astray' = astray \cup {"lost"}
    BY <1>7 DEF SendMsg
  <2>2. "late" \notin astray' => (lastTs \notin {0, Torn} => Complete(lastTs)')
    <3>1. "late" \notin astray' => (lastTs \notin {0, Torn} => Complete(lastTs))
      BY <1>2, <2>1 DEF Current
    <3>2. Complete(lastTs)' = Complete(lastTs)
      BY <2>1 DEF Complete
    <3> QED
      BY <3>1, <3>2
  <2>3. astray' = {} => (lastTs \notin {0, Torn} => Counted')
    <3> SUFFICES ASSUME astray' = {}, lastTs \notin {0, Torn} PROVE Counted'
      OBVIOUS
    <3>1. msgs' = Append(msgs, begun) /\ astray = {}
      BY <2>1
    <3>2. lastTs + Len(msgs) + 1 = ts /\ lastTs \in Nat
      BY <1>2, <2>1, <3>1 DEF Counted
    <3>3. Len(msgs') = Len(msgs) + 1
      BY <1>1, <3>1
    <3>4. lastTs' + Len(msgs') = ts'
      BY <1>1, <2>1, <3>2, <3>3
    <3> QED
      BY <2>1, <3>4 DEF Counted
  <2> QED
    BY <1>4, <2>1, <2>2, <2>3
<1>8. CASE Die
  <2>1. /\ UNCHANGED <<age, lastTs, playlist, number, made, ts, begun, msgs, astray>> /\ worker' = "dead"
    BY <1>8 DEF Die, daemon
  <2>2. Complete(lastTs)' = Complete(lastTs) /\ (Current => Current') /\ (Counted => Counted')
    BY <2>1 DEF Complete, Current, Counted
  <2> QED
    BY <1>2, <1>4, <2>1, <2>2
<1>9. CASE JobReset
  <2>1. lastTs' = 0 /\ playlist' = <<>> /\ number' = 0
    BY <1>9 DEF JobReset
  <2>2. AllComplete(playlist)' /\ Consecutive(playlist)'
    BY <2>1 DEF AllComplete, Consecutive
  <2> QED
    BY <2>1, <2>2 DEF ListInv
<1>10. CASE OutputInitialize
  <2>1. UNCHANGED <<age, lastTs, playlist, number, made, astray>> /\ lastTs = 0
    BY <1>1, <1>10 DEF OutputInitialize, daemon
  <2> QED
    BY <1>4, <2>1
<1>11. CASE DropMsg
  <2>1. UNCHANGED <<age, lastTs, playlist, number, made>> /\ msgs # <<>> /\ astray' = astray \cup {"lost"}
    BY <1>11 DEF DropMsg, encoder
  <2>2. Complete(lastTs)' = Complete(lastTs)
    BY <2>1 DEF Complete
  <2> QED
    BY <1>2, <1>4, <2>1, <2>2 DEF Current
<1>12. CASE Handle
  BY <1>12, ListHandle
<1>13. CASE ForceKey \/ Play \/ WriteSegment \/ UNCHANGED vars
  BY <1>3, <1>13 DEF ForceKey, Play, WriteSegment, vars, encoder, daemon
<1>14. CASE Request \/ Begin \/ Leave \/ NextChunk \/ SendData
  BY <1>3, <1>14 DEF Request, Begin, Leave, NextChunk, SendData, encoder, daemon
<1> QED
  BY <1>5, <1>6, <1>7, <1>8, <1>9, <1>10, <1>11, <1>12, <1>13, <1>14 DEF Next
OutputInv == RingInv /\ MsgInv /\ ListInv

(* The invariant of the output holds of the first state.                   *)
LEMMA OutputInit ==
  ASSUME Init
  PROVE  OutputInv
<1>1. RingInv
  BY RingInit
<1>2. /\ msgs = <<>> /\ words = 0 /\ begun = 1 /\ ts = 0 /\ worker = "run" /\ lastTs = 0
      /\ playlist = <<>> /\ number = 0 /\ astray = {}
  BY DEF Init
<1>3. MsgInv
  <2>1. UpTo(<<>>, 0) /\ UpTo(<<>>, 1) /\ UpTo(<<>>, 1 - 1) /\ Ascending(<<>>) /\ <<>> \in Seq(Nat)
    BY DEF UpTo, Ascending
  <2> QED
    BY <1>2, <2>1 DEF MsgInv
<1>4. ListInv
  <2>1. AllComplete(<<>>) /\ Consecutive(<<>>) /\ <<>> \in Seq(Int)
    BY DEF AllComplete, Consecutive
  <2> QED
    BY <1>2, <2>1 DEF ListInv
<1> QED
  BY <1>1, <1>3, <1>4 DEF OutputInv

(* And each step keeps it.                                                 *)
LEMMA OutputNext ==
  ASSUME OutputInv, [Next]_vars
  PROVE  OutputInv'
<1>1. RingInv' /\ MsgInv' /\ ListInv'
  BY RingNext, MsgNext, ListNext DEF OutputInv
<1> QED
  BY <1>1 DEF OutputInv

(* So it holds in every state.                                             *)
LEMMA OutputAlways == Spec => []OutputInv
<1>1. Init => OutputInv
  BY OutputInit
<1>2. OutputInv /\ [Next]_vars => OutputInv'
  BY OutputNext
<1> QED
  BY <1>1, <1>2, PTL DEF Spec

(* As long as no message was late, what the playlist names was closed by   *)
(* the worker of now: msg_thread lists, at each message, the segment before *)
(* the one the message announces.                                          *)
THEOREM ListedTheorem == Spec => []ListedComplete
<1>1. OutputInv => ListedComplete
  BY DEF OutputInv, ListInv, ListedComplete, AllComplete, Complete
<1> QED
  BY <1>1, OutputAlways, PTL

(* The media sequence number goes on by one with each entry taken off, and *)
(* the entries are consecutive, unless a message was lost or late or a     *)
(* time stamp torn: for any window, any limit of the queue and any number  *)
(* of deaths of the worker.                                                *)
THEOREM CountTheorem == Spec => SequenceCounts
<1> DEFINE Step ==
      lastTs' # 0 /\ playlist' # playlist /\ astray' = {}
       /\ Torn \notin {playlist[i] : i \in DOMAIN playlist} \cup {playlist'[i] : i \in DOMAIN playlist'}
       => /\ playlist # <<>> => (number' - Len(playlist')) - (number - Len(playlist))
                                   = Len(playlist) + 1 - Len(playlist')
          /\ \A i \in 2..Len(playlist') : playlist'[i] = playlist'[i - 1] + 1
<1>1. OutputInv /\ [Next]_vars => [Step]_vars
  <2> SUFFICES ASSUME OutputInv, Next, lastTs' # 0, playlist' # playlist, astray' = {},
                      Torn \notin {playlist[i] : i \in DOMAIN playlist} \cup {playlist'[i] : i \in DOMAIN playlist'}
               PROVE  /\ playlist # <<>> => (number' - Len(playlist')) - (number - Len(playlist))
                                              = Len(playlist) + 1 - Len(playlist')
                      /\ \A i \in 2..Len(playlist') : playlist'[i] = playlist'[i - 1] + 1
    OBVIOUS
  <2>1. OutputInv'
    BY OutputNext
  <2>2. CASE Handle
    <3>1. lastTs # 0 /\ playlist' = WithEntry(playlist, lastTs) /\ number' = lastTs
      BY <2>2 DEF Handle, AddEntry, WithEntry
    <3>2. /\ lastTs \in Int /\ playlist \in Seq(Int) /\ number \in Int
          /\ playlist' \in Seq(Int) /\ Consecutive(playlist')
      BY <2>1 DEF OutputInv, ListInv, Torn
    <3>3. astray = {}
      BY <2>2 DEF Handle
    <3>4. /\ playlist # <<>> => number = playlist[Len(playlist)]
          /\ playlist # <<>> /\ number # Torn /\ lastTs # Torn => lastTs = number + 1
      BY <3>3 DEF OutputInv, ListInv
    <3>5. \E k \in {0, 1} : Shifted(playlist, playlist', k, lastTs)
      BY <3>1, <3>2, EntryAdded
    <3>6. playlist'[Len(playlist')] = lastTs /\ Len(playlist') \in DOMAIN playlist'
      BY <3>2, <3>5 DEF Shifted
    <3>7. lastTs # Torn
      BY <3>6
    <3>8. playlist # <<>> => number # Torn
      <4>1. playlist # <<>> => Len(playlist) \in DOMAIN playlist
        BY <3>2
      <4> QED
        BY <3>4, <4>1
    <3>9. playlist # <<>> => (number' - Len(playlist')) - (number - Len(playlist)) = Len(playlist) + 1 - Len(playlist')
      <4>1. playlist # <<>> => number' = number + 1
        BY <3>1, <3>4, <3>7, <3>8
      <4>2. Len(playlist) \in Int /\ Len(playlist') \in Int
        BY <3>2
      <4> QED
        BY <3>2, <4>1, <4>2
    <3>10. ASSUME NEW i \in 2..Len(playlist') PROVE playlist'[i] = playlist'[i - 1] + 1
      <4>1. i \in DOMAIN playlist' /\ i - 1 \in DOMAIN playlist'
        BY <3>2
      <4>2. playlist'[i] # Torn /\ playlist'[i - 1] # Torn
        BY <4>1
      <4> QED
        BY <3>2, <4>2 DEF Consecutive
    <3> QED
      BY <3>9, <3>10
  <2>3. CASE JobReset
    BY <2>3 DEF JobReset
  <2>4. CASE ~Handle /\ ~JobReset
    <3>1. UNCHANGED playlist
      BY <2>4 DEF Next, ForceKey, SendMsg, Sample, KeySample, Die, OutputInitialize, Play, DropMsg,
                  WriteSegment, Request, Begin, Leave, NextChunk, SendData, daemon
    <3> QED
      BY <3>1
  <2> QED
    BY <2>2, <2>3, <2>4
<1> QED
  BY <1>1, OutputAlways, PTL DEF Spec, SequenceCounts
-----------------------------------------------------------------------------
(* The datagrams.                                                          *)

(* k numbers that follow each other, the last of them e.                   *)
Run(s, k, e) == s \in Seq(Int) /\ k \in Nat /\ e \in Int /\ Len(s) = k /\ \A i \in 1..k : s[i] = e - k + i

(* A run followed by one that goes on from it is a run.                    *)
LEMMA RunOn ==
  ASSUME NEW s, NEW k, NEW e, Run(s, k, e), NEW u, NEW l, NEW f, Run(u, l, f), f = e + l
  PROVE  Run(s \o u, k + l, f)
<1>1. /\ s \in Seq(Int) /\ k \in Nat /\ e \in Int /\ Len(s) = k
      /\ u \in Seq(Int) /\ l \in Nat /\ f \in Int /\ Len(u) = l
  BY DEF Run
<1>2. \A i \in 1..k : s[i] = e - k + i
  BY DEF Run
<1>3. \A i \in 1..l : u[i] = f - l + i
  BY DEF Run
<1>4. /\ s \o u \in Seq(Int) /\ Len(s \o u) = k + l
      /\ \A i \in 1..(k + l) : (s \o u)[i] = IF i <= k THEN s[i] ELSE u[i - k]
  BY <1>1, ConcatProperties
<1>5. ASSUME NEW i \in 1..(k + l) PROVE (s \o u)[i] = f - (k + l) + i
  <2>1. CASE i <= k
    <3>1. i \in 1..k
      BY <2>1
    <3>2. (s \o u)[i] = e - k + i
      BY <1>2, <1>4, <2>1, <3>1
    <3> QED
      BY <1>1, <3>2
  <2>2. CASE ~(i <= k)
    <3>1. i - k \in 1..l
      BY <1>1, <2>2
    <3>2. (s \o u)[i] = f - l + (i - k)
      BY <1>3, <1>4, <2>2, <3>1
    <3> QED
      BY <1>1, <3>2
  <2> QED
    BY <2>1, <2>2
<1> QED
  BY <1>1, <1>4, <1>5 DEF Run

(* A part of a run is one.                                                 *)
LEMMA RunPart ==
  ASSUME NEW s, NEW k, NEW e, Run(s, k, e), NEW m \in Int, NEW n \in Int, 0 <= m, m <= n, n <= k
  PROVE  Run(SubSeq(s, m + 1, n), n - m, e - k + n)
<1>1. /\ s \in Seq(Int) /\ k \in Nat /\ e \in Int /\ Len(s) = k
      /\ \A i \in 1..k : s[i] = e - k + i
  BY DEF Run
<1>2. \A i \in (m + 1)..n : i \in 1..k
  BY <1>1
<1>3. \A i \in (m + 1)..n : s[i] \in Int
  BY <1>1, <1>2
<1> DEFINE u == SubSeq(s, m + 1, n)
<1>4. /\ u \in Seq(Int) /\ Len(u) = IF m + 1 <= n THEN n - (m + 1) + 1 ELSE 0
      /\ \A i \in 1..(n - (m + 1) + 1) : u[i] = s[(m + 1) + i - 1]
  <2>1. m + 1 \in Int
    OBVIOUS
  <2> QED
    BY <1>3, <2>1, SubSeqProperties
<1> HIDE DEF u
<1>5. n - (m + 1) + 1 = n - m /\ Len(u) = n - m /\ n - m \in Nat
  BY <1>4
<1>6. ASSUME NEW i \in 1..(n - m) PROVE u[i] = (e - k + n) - (n - m) + i
  <2>1. (m + 1) + i - 1 \in 1..k
    BY <1>1
  <2> QED
    BY <1>1, <1>4, <1>5, <2>1
<1>7. Run(u, n - m, e - k + n)
  BY <1>1, <1>4, <1>5, <1>6 DEF Run
<1> QED
  BY <1>7 DEF u

(* No numbers are a run.                                                   *)
LEMMA RunNone == \A e \in Int : Run(<<>>, 0, e)
  BY DEF Run

(* What is held and what was sent last, at the end of the words up to w.   *)
Sending(r, h, s, w) ==
  /\ r \in [held : Seq(Int), sent : Seq(Int)]
  /\ h \in 0..(Datagram - 1) /\ s \in {0, Datagram}
  /\ Run(r.held, h, w) /\ Run(r.sent, s, w - h)

(* The recursion of Cut is one of a function that exists.                  *)
Slice(f, data, o) ==
  IF Len(data) - o < Datagram
  THEN [sent |-> <<>>, held |-> SubSeq(data, o + 1, Len(data))]
  ELSE [f[o + Datagram] EXCEPT !.sent = IF @ = <<>> THEN SubSeq(data, o + 1, o + Datagram) ELSE @]
Slices(f, data, n) == f = [o \in (Len(data) - n)..Len(data) |-> Slice(f, data, o)]

(* A datagram is not empty.                                                *)
LEMMA DatagramFacts == Datagram \in Nat \ {0}
  BY OutputAssumption

(* Cut, a recursive function, is one that exists: its values are slices of *)
(* one another.                                                            *)
LEMMA CutSlices ==
  ASSUME NEW data, Len(data) \in Nat
  PROVE  \A o \in 0..Len(data) : Cut(data)[o] = Slice(Cut(data), data, o)
<1> DEFINE l == Len(data)
<1>1. ASSUME NEW n \in Nat, NEW f, Slices(f, data, n)
      PROVE  \E g : Slices(g, data, n + 1)
  <2> DEFINE g == [o \in (l - (n + 1))..l |-> IF o = l - (n + 1) THEN Slice(f, data, o) ELSE f[o]]
  <2>1. \A o \in (l - (n + 1))..l : ~(l - o < Datagram) => g[o + Datagram] = f[o + Datagram]
    <3> SUFFICES ASSUME NEW o \in (l - (n + 1))..l, ~(l - o < Datagram)
                 PROVE  g[o + Datagram] = f[o + Datagram]
      OBVIOUS
    <3>1. o + Datagram \in (l - (n + 1))..l /\ o + Datagram # l - (n + 1)
      BY DatagramFacts
    <3> QED
      BY <3>1
  <2>2. \A o \in (l - (n + 1))..l : o = l - (n + 1) \/ o \in (l - n)..l
    OBVIOUS
  <2>3. \A o \in (l - n)..l : f[o] = Slice(f, data, o)
    BY <1>1 DEF Slices
  <2>4. \A o \in (l - (n + 1))..l : Slice(f, data, o) = Slice(g, data, o)
    <3> HIDE DEF g
    <3> QED
      BY <2>1 DEF Slice
  <2>5. \A o \in (l - (n + 1))..l : g[o] = Slice(g, data, o)
    BY <2>2, <2>3, <2>4
  <2>6. g = [o \in (l - (n + 1))..l |-> g[o]]
    OBVIOUS
  <2> HIDE DEF g
  <2> QED
    BY <2>5, <2>6 DEF Slices
<1>2. \E f : Slices(f, data, 0)
  <2> DEFINE g == [o \in (l - 0)..l |-> Slice(<<>>, data, o)]
  <2>1. \A o \in (l - 0)..l : l - o < Datagram
    BY DatagramFacts
  <2>2. \A o \in (l - 0)..l : g[o] = Slice(<<>>, data, o)
    OBVIOUS
  <2>3. g = [o \in (l - 0)..l |-> g[o]]
    OBVIOUS
  <2> HIDE DEF g
  <2>4. \A o \in (l - 0)..l : g[o] = Slice(g, data, o)
    BY <2>1, <2>2 DEF Slice
  <2> QED
    BY <2>3, <2>4 DEF Slices
<1>3. \A n \in Nat : \E f : Slices(f, data, n)
  <2>1. SUFFICES ASSUME NEW S, S = {n \in Nat : ~ \E f : Slices(f, data, n)}, S # {} PROVE FALSE
    <3>1. {n \in Nat : ~ \E f : Slices(f, data, n)} = {}
      BY <2>1
    <3> QED
      BY <3>1
  <2>2. PICK m \in S : \A y \in S : m <= y
    <3>1. S \in SUBSET Nat
      BY <2>1
    <3> QED
      BY <2>1, <3>1, Least
  <2>3. m \in Nat /\ m # 0
    BY <1>2, <2>1
  <2>4. m - 1 \in Nat /\ m - 1 \notin S
    BY <2>2, <2>3
  <2>5. PICK f : Slices(f, data, m - 1)
    BY <2>1, <2>4
  <2>6. (m - 1) + 1 = m
    BY <2>3
  <2> QED
    BY <1>1, <2>1, <2>4, <2>5, <2>6
<1> DEFINE Ok(f) == f = [o \in 0..l |-> Slice(f, data, o)]
<1>4. l - l = 0
  OBVIOUS
<1>5. Ok(CHOOSE f : Ok(f))
  <2>1. \E f : Ok(f)
    BY <1>3, <1>4 DEF Slices
  <2> QED
    BY <2>1
<1>6. Cut(data) = CHOOSE f : Ok(f)
  BY Zenon DEF Cut, Slice
<1>7. Ok(Cut(data))
  BY <1>5, <1>6
<1> QED
  BY <1>7
(* The rest of a buffer is cut into datagrams to its end.                  *)
Parted(r, o, n, w) == \E h, s : Sending(r, h, s, w) /\ (s = 0 => h = n - o)

(* What is cut from a run at an offset: the last full datagram and what is *)
(* held after it.                                                          *)
LEMMA CutParts ==
  ASSUME NEW data, NEW n, NEW w, Run(data, n, w)
  PROVE  \A o \in 0..n : Parted(Cut(data)[o], o, n, w)
<1>1. Len(data) = n /\ n \in Nat /\ w \in Int /\ data \in Seq(Int)
  BY DEF Run
<1>2. SUFFICES ASSUME NEW S, S = {k \in Nat : k <= n /\ ~Parted(Cut(data)[n - k], n - k, n, w)}, S # {} PROVE FALSE
  <2>1. {k \in Nat : k <= n /\ ~Parted(Cut(data)[n - k], n - k, n, w)} = {}
    BY <1>2
  <2> SUFFICES ASSUME NEW o \in 0..n PROVE Parted(Cut(data)[o], o, n, w)
    OBVIOUS
  <2>2. n - o \in Nat /\ n - o <= n /\ n - (n - o) = o
    BY <1>1
  <2> QED
    BY <2>1, <2>2
<1>3. PICK k \in S : \A y \in S : k <= y
  <2>1. S \in SUBSET Nat
    BY <1>2
  <2> QED
    BY <1>2, <2>1, Least
<1>4. k \in Nat /\ k <= n /\ ~Parted(Cut(data)[n - k], n - k, n, w)
  BY <1>2
<1>5. PICK o \in 0..n : o = n - k /\ k = n - o
  <2>1. n - k \in 0..n /\ k = n - (n - k)
    BY <1>1, <1>4
  <2> QED
    BY <2>1
<1>6. Cut(data)[o] = Slice(Cut(data), data, o)
  BY <1>1, CutSlices
<1>7. CASE n - o < Datagram
  <2> DEFINE u == SubSeq(data, o + 1, n)
  <2>1. Cut(data)[o] = [sent |-> <<>>, held |-> u]
    BY <1>1, <1>6, <1>7 DEF Slice
  <2>2. Run(u, n - o, w)
    <3>1. Run(u, n - o, w - n + n)
      BY <1>1, RunPart
    <3>2. w - n + n = w
      BY <1>1
    <3> QED
      BY <3>1, <3>2
  <2>3. Run(<<>>, 0, w - (n - o))
    <3>1. w - (n - o) \in Int
      BY <1>1
    <3> QED
      BY <3>1, RunNone
  <2> HIDE DEF u
  <2>4. u \in Seq(Int) /\ n - o \in 0..(Datagram - 1)
    <3>1. u \in Seq(Int) /\ n - o \in Nat
      BY <2>2 DEF Run
    <3> QED
      BY <1>7, <3>1, DatagramFacts
  <2>5. Sending([sent |-> <<>>, held |-> u], n - o, 0, w)
    <3> DEFINE r == [sent |-> <<>>, held |-> u]
    <3>1. r \in [held : Seq(Int), sent : Seq(Int)] /\ r.sent = <<>> /\ r.held = u
      BY <2>4
    <3> HIDE DEF r
    <3>2. Sending(r, n - o, 0, w)
      BY <2>2, <2>3, <2>4, <3>1 DEF Sending
    <3> QED
      BY <3>2 DEF r
  <2>6. Parted(Cut(data)[o], o, n, w)
    BY <2>1, <2>5 DEF Parted
  <2> QED
    BY <1>4, <1>5, <2>6
<1>8. CASE ~(n - o < Datagram)
  <2>1. PICK p \in 0..n : p = o + Datagram /\ n - p \in Nat /\ n - p < k
    <3>1. o + Datagram \in 0..n /\ n - (o + Datagram) \in Nat /\ n - (o + Datagram) < k
      BY <1>1, <1>5, <1>8, DatagramFacts
    <3> QED
      BY <3>1
  <2>2. Parted(Cut(data)[p], p, n, w)
    <3>1. n - p \notin S /\ n - p <= n /\ n - (n - p) = p
      <4>1. n - p <= n /\ n - (n - p) = p /\ ~(k <= n - p)
        BY <1>1, <1>4, <2>1
      <4> QED
        BY <1>3, <4>1
    <3> QED
      BY <1>2, <2>1, <3>1
  <2>3. PICK h, s : Sending(Cut(data)[p], h, s, w) /\ (s = 0 => h = n - p)
    BY <2>2 DEF Parted
  <2> DEFINE rest == Cut(data)[p]
             this == SubSeq(data, o + 1, p)
  <2>4. Cut(data)[o] = [rest EXCEPT !.sent = IF @ = <<>> THEN this ELSE @]
    BY <1>1, <1>6, <1>8, <2>1 DEF Slice
  <2>5. Run(this, Datagram, w - n + p)
    <3>1. o <= p /\ p - o = Datagram /\ o \in Int /\ p \in Int /\ 0 <= o /\ p <= n
      BY <2>1, DatagramFacts
    <3>2. Run(this, p - o, w - n + p)
      BY <3>1, RunPart
    <3> QED
      BY <3>1, <3>2
  <2> HIDE DEF rest, this
  <2>6. /\ rest \in [held : Seq(Int), sent : Seq(Int)] /\ h \in 0..(Datagram - 1) /\ s \in {0, Datagram}
        /\ Run(rest.held, h, w) /\ Run(rest.sent, s, w - h)
    BY <2>3 DEF rest, Sending
  <2>7. CASE rest.sent = <<>>
    <3>1. s = 0 /\ h = n - p
      BY <2>3, <2>6, <2>7, DatagramFacts DEF Run
    <3>2. w - n + p = w - h
      BY <1>1, <2>1, <3>1
    <3> DEFINE r == [rest EXCEPT !.sent = this]
    <3>3. this \in Seq(Int)
      BY <2>5 DEF Run
    <3>4. r \in [held : Seq(Int), sent : Seq(Int)] /\ r.held = rest.held /\ r.sent = this
      BY <2>6, <3>3
    <3>5. Cut(data)[o] = r
      BY <2>4, <2>7
    <3> HIDE DEF r
    <3>6. Run(r.sent, Datagram, w - h)
      BY <2>5, <3>2, <3>4
    <3>7. Sending(r, h, Datagram, w)
      BY <2>6, <3>4, <3>6 DEF Sending
    <3>8. Parted(r, o, n, w)
      BY <3>7, DatagramFacts DEF Parted
    <3> QED
      BY <1>4, <1>5, <3>5, <3>8
  <2>8. CASE rest.sent # <<>>
    <3>1. s # 0
      <4>1. rest.sent \in Seq(Int)
        BY <2>6
      <4>2. Len(rest.sent) = s
        BY <2>6 DEF Run
      <4> QED
        BY <2>8, <4>1, <4>2
    <3> DEFINE r == [rest EXCEPT !.sent = @]
    <3>2. Cut(data)[o] = r
      BY <2>4, <2>8
    <3>3. r = rest
      BY <2>6
    <3>4. Sending(rest, h, s, w)
      BY <2>6 DEF Sending
    <3>5. Parted(rest, o, n, w)
      BY <3>1, <3>4 DEF Parted
    <3> QED
      BY <1>4, <1>5, <3>2, <3>3, <3>5
  <2> QED
    BY <2>7, <2>8
<1> QED
  BY <1>7, <1>8

UdpInv == words \in Nat /\ \E h, s : Sending(udp, h, s, words)

(* A buffer fills what is held up to a datagram, the rest is cut.          *)
Ending(w, n) == w = words + n

(* udp_streaming: the datagrams and what is held reach the last word of    *)
(* the buffer.                                                             *)
LEMMA Streamed ==
  ASSUME UdpInv, NEW n \in Nat, NEW data, NEW w \in Int, Ending(w, n), Run(data, n, w), UdpStreaming(data)
  PROVE  \E h, s : Sending(udp', h, s, w)
<1>1. PICK h, s : Sending(udp, h, s, words)
  BY DEF UdpInv
<1>2. /\ udp \in [held : Seq(Int), sent : Seq(Int)] /\ h \in 0..(Datagram - 1) /\ s \in {0, Datagram}
      /\ Run(udp.held, h, words) /\ Run(udp.sent, s, words - h) /\ words \in Nat
      /\ Len(udp.held) = h
  BY <1>1 DEF Sending, UdpInv, Run
<1>3. Len(data) = n /\ data \in Seq(Int)
  BY DEF Run
<1> DEFINE room == Datagram - h
<1>4. room \in 1..Datagram
  BY <1>2, DatagramFacts
<1>5. CASE n < room
  <2> DEFINE u == udp.held \o data
             r == [udp EXCEPT !.held = u]
  <2>1. udp' = r
    BY <1>2, <1>3, <1>5 DEF UdpStreaming
  <2>2. Run(u, h + n, w)
    BY <1>2, RunOn DEF Ending
  <2> HIDE DEF u
  <2>3. u \in Seq(Int)
    BY <2>2 DEF Run
  <2>4. r \in [held : Seq(Int), sent : Seq(Int)] /\ r.held = u /\ r.sent = udp.sent
    BY <1>2, <2>3
  <2> HIDE DEF r
  <2>5. h + n \in 0..(Datagram - 1) /\ w - (h + n) = words - h
    BY <1>2, <1>5, DatagramFacts DEF Ending
  <2>6. Sending(r, h + n, s, w)
    BY <1>2, <2>2, <2>4, <2>5 DEF Sending
  <2> QED
    BY <2>1, <2>6
<1>6. CASE ~(n < room)
  <2> DEFINE this == udp.held \o SubSeq(data, 1, room)
             rest == Cut(data)[room]
  <2>1. udp' = [rest EXCEPT !.sent = IF @ = <<>> THEN this ELSE @]
    BY <1>2, <1>3, <1>6 DEF UdpStreaming
  <2>2. Run(this, Datagram, words + room)
    <3> DEFINE part == SubSeq(data, 1, room)
    <3>1. Run(part, room, words + room)
      <4>1. Run(SubSeq(data, 0 + 1, room), room - 0, w - n + room)
        <5>1. 0 \in Int /\ room \in Int /\ 0 <= 0 /\ 0 <= room /\ room <= n
          BY <1>4, <1>6
        <5> HIDE DEF room
        <5> QED
          BY <5>1, RunPart, Zenon
      <4>2. 0 + 1 = 1 /\ room - 0 = room /\ w - n + room = words + room
        BY <1>2, <1>4 DEF Ending
      <4> QED
        BY <4>1, <4>2
    <3> HIDE DEF part, room
    <3>2. Run(udp.held \o part, h + room, words + room)
      BY <1>2, <3>1, RunOn
    <3>3. h + room = Datagram
      BY <1>2, DatagramFacts DEF room
    <3> QED
      BY <3>2, <3>3 DEF part
  <2>3. PICK h2, s2 : Sending(rest, h2, s2, w) /\ (s2 = 0 => h2 = n - room)
    <3>1. room \in 0..n
      BY <1>4, <1>6
    <3> HIDE DEF room
    <3>2. Parted(Cut(data)[room], room, n, w)
      BY <3>1, CutParts
    <3> QED
      BY <3>2 DEF Parted
  <2> HIDE DEF this, rest
  <2>4. /\ rest \in [held : Seq(Int), sent : Seq(Int)] /\ h2 \in 0..(Datagram - 1) /\ s2 \in {0, Datagram}
        /\ Run(rest.held, h2, w) /\ Run(rest.sent, s2, w - h2)
    BY <2>3 DEF Sending
  <2>5. CASE rest.sent = <<>>
    <3>1. s2 = 0 /\ h2 = n - room
      BY <2>3, <2>4, <2>5, DatagramFacts DEF Run
    <3>2. words + room = w - h2
      BY <1>2, <1>4, <3>1 DEF Ending
    <3> DEFINE r == [rest EXCEPT !.sent = this]
    <3>3. this \in Seq(Int)
      BY <2>2 DEF Run
    <3>4. r \in [held : Seq(Int), sent : Seq(Int)] /\ r.held = rest.held /\ r.sent = this
      BY <2>4, <3>3
    <3>5. udp' = r
      BY <2>1, <2>5
    <3> HIDE DEF r, room
    <3>6. Run(r.sent, Datagram, w - h2)
      BY <2>2, <3>2, <3>4
    <3>7. Sending(r, h2, Datagram, w)
      BY <2>4, <3>4, <3>6 DEF Sending
    <3> QED
      BY <3>5, <3>7
  <2>6. CASE rest.sent # <<>>
    <3>1. udp' = [rest EXCEPT !.sent = @]
      BY <2>1, <2>6
    <3>2. udp' = rest
      BY <2>4, <3>1
    <3> QED
      BY <2>3, <3>2
  <2> QED
    BY <2>5, <2>6
<1> QED
  BY <1>5, <1>6

(* Each step keeps what is held and sent a run up to the last word.        *)
LEMMA UdpNext ==
  ASSUME UdpInv, [Next]_vars
  PROVE  UdpInv'
<1>1. CASE UNCHANGED <<udp, words>>
  BY <1>1 DEF UdpInv, Sending
<1>2. ASSUME NEW size \in 1..MaxSize, Sample(size) \/ KeySample(size) PROVE UdpInv'
  <2>1. words' = words + size /\ UdpStreaming([i \in 1..size |-> words + i]) /\ size \in Nat /\ words \in Nat
    <3>1. size \in Nat /\ words \in Nat
      BY CacheFacts DEF UdpInv
    <3> QED
      BY <1>2, <3>1 DEF Sample, KeySample
  <2>2. PICK data : data = [i \in 1..size |-> words + i]
    OBVIOUS
  <2>3. PICK w \in Int : Ending(w, size)
    BY <2>1 DEF Ending
  <2>4. Run(data, size, w)
    <3>1. data \in Seq(Int) /\ Len(data) = size
      BY <2>1, <2>2
    <3>2. \A i \in 1..size : data[i] = w - size + i
      BY <2>1, <2>2, <2>3 DEF Ending
    <3> QED
      BY <2>1, <3>1, <3>2 DEF Run
  <2>5. UdpStreaming(data)
    BY <2>1, <2>2
  <2>6. \E h, s : Sending(udp', h, s, w)
    BY <2>1, <2>3, <2>4, <2>5, Streamed
  <2>7. w = words' /\ words' \in Nat
    BY <2>1, <2>3 DEF Ending
  <2>8. \E h, s : Sending(udp', h, s, words')
    BY <2>6, <2>7
  <2> QED
    BY <2>7, <2>8 DEF UdpInv
<1>3. CASE OutputInitialize
  <2>1. udp' = NoData /\ words' = words /\ words \in Nat
    BY <1>3 DEF OutputInitialize, UdpInv
  <2>2. Sending(NoData, 0, 0, words)
    BY <2>1, RunNone, DatagramFacts DEF Sending, NoData
  <2> QED
    BY <2>1, <2>2 DEF UdpInv
<1>4. CASE ForceKey \/ SendMsg \/ Die \/ JobReset \/ Play \/ UNCHANGED vars
  BY <1>1, <1>4 DEF ForceKey, SendMsg, Die, JobReset, Play, vars, ring, encoder
<1>5. CASE DropMsg \/ Handle \/ WriteSegment
  BY <1>1, <1>5 DEF DropMsg, Handle, WriteSegment, ring, encoder
<1>6. CASE Request \/ Begin \/ Leave \/ NextChunk \/ SendData
  BY <1>1, <1>6 DEF Request, Begin, Leave, NextChunk, SendData, ring, encoder
<1> QED
  BY <1>2, <1>3, <1>4, <1>5, <1>6 DEF Next

(* Each datagram is full, and datagrams and what is held follow each other *)
(* to the last word given, for any size of the buffers and of a datagram.  *)
THEOREM DatagramsTheorem == Spec => []DatagramsExact
<1>1. Init => UdpInv
  <2> SUFFICES ASSUME Init PROVE UdpInv
    OBVIOUS
  <2>1. udp = NoData /\ words = 0
    BY DEF Init
  <2>2. Sending(NoData, 0, 0, 0)
    BY RunNone, DatagramFacts DEF Sending, NoData
  <2> QED
    BY <2>1, <2>2 DEF UdpInv
<1>2. UdpInv /\ [Next]_vars => UdpInv'
  BY UdpNext
<1>3. UdpInv => DatagramsExact
  <2> SUFFICES ASSUME UdpInv PROVE DatagramsExact
    OBVIOUS
  <2>1. PICK h, s : Sending(udp, h, s, words)
    BY DEF UdpInv
  <2>2. h \in 0..(Datagram - 1) /\ s \in {0, Datagram} /\ Run(udp.held, h, words) /\ Run(udp.sent, s, words - h)
    BY <2>1 DEF Sending
  <2>3. Len(udp.held) = h /\ Len(udp.sent) = s /\ words \in Int /\ h \in Nat /\ s \in Nat
    BY <2>2 DEF Run
  <2> DEFINE data == udp.sent \o udp.held
  <2>4. Run(data, s + h, words)
    <3>1. words = (words - h) + h
      BY <2>3
    <3> QED
      BY <2>2, <3>1, RunOn
  <2> HIDE DEF data
  <2>5. \A i \in DOMAIN data : data[i] = words - Len(data) + i
    <3>1. data \in Seq(Int) /\ Len(data) = s + h
      BY <2>4 DEF Run
    <3>2. \A i \in 1..(s + h) : data[i] = words - (s + h) + i
      BY <2>4 DEF Run
    <3> QED
      BY <3>1, <3>2
  <2> QED
    <3>1. Len(udp.sent) \in {0, Datagram} /\ Len(udp.held) < Datagram
      BY <2>2, <2>3, DatagramFacts
    <3> QED
      BY <2>5, <3>1, Zenon DEF DatagramsExact, data
<1> QED
  BY <1>1, <1>2, <1>3, PTL DEF Spec
-----------------------------------------------------------------------------
(* The queue of groups.                                                    *)

(* Group i of a ring, and the groups from lo to hi.                        *)
Gop(b, t, i) == [ts |-> t[i], data |-> [j \in 1..(b[i + 1] - b[i]) |-> b[i] + j - 1]]
Gops(lo, hi, b, t) == [k \in 1..(hi - lo + 1) |-> Gop(b, t, lo + k - 1)]

(* What Group makes of a group   is its time stamp and its words.          *)
LEMMA GroupIs ==
  ASSUME NEW lo, NEW hi, NEW b, NEW t, Filled(lo, hi, b, t), NEW i \in lo..hi,
         NEW a, a = Place(lo, b, head, i)
  PROVE  Group(a, IF a = last THEN CacheFree(tail, last) - Header ELSE GopSize(a)) = Gop(b, t, i)
<1>1. /\ Ring(lo, hi, b, t, head, mem) /\ Bounds(lo, hi, b) /\ head \in Addr
      /\ last = Place(lo, b, head, hi) /\ tail = Place(lo, b, head, hi + 1)
  BY DEF Filled, Ring
<1>2. Within(lo, hi, b, i) /\ hi \in lo..hi
  <2>1. hi \in lo..hi
    BY <1>1 DEF Bounds
  <2> QED
    BY <1>1, <2>1, Between
<1>3. PICK s \in Nat : s = b[i + 1] - b[i]
  BY <1>2 DEF Within
<1>4. /\ a \in Addr /\ mem[a] = <<"ts", t[i]>> /\ Filling(a, i, b)
      /\ i < hi => GopSize(a) = b[i + 1] - b[i]
      /\ CacheFree(Place(lo, b, head, hi + 1), a) = Pos(b, hi + 1) - Pos(b, i)
  <2> DEFINE p == Place(lo, b, head, i)
  <2>1. /\ p \in Addr /\ mem[p] = <<"ts", t[i]>> /\ Filling(p, i, b)
        /\ i < hi => GopSize(p) = b[i + 1] - b[i]
        /\ CacheFree(Place(lo, b, head, hi + 1), p) = Pos(b, hi + 1) - Pos(b, i)
    <3>1. Ring(lo, hi, b, t, head, mem)
      BY <1>1
    <3> QED
      BY <3>1, GroupAt
  <2> HIDE DEF p
  <2>2. a = p
    BY DEF p
  <2> QED
    BY <2>1, <2>2
<1>5. (IF a = last THEN CacheFree(tail, last) - Header ELSE GopSize(a)) = s
  <2>1. CASE i = hi
    <3>1. a = last
      BY <1>1, <2>1
    <3>2. CacheFree(tail, last) = Pos(b, i + 1) - Pos(b, i)
      BY <1>1, <1>4, <2>1, <3>1
    <3> QED
      BY <1>2, <1>3, <3>1, <3>2 DEF Within
  <2>2. CASE i < hi
    <3>1. a # last
      <4>1. i # hi
        BY <1>2, <2>2 DEF Within
      <4>2. \A x, y \in lo..hi : Place(lo, b, head, x) = Place(lo, b, head, y) => x = y
        BY <1>1, Apart
      <4> QED
        BY <1>1, <1>2, <4>1, <4>2
    <3> QED
      BY <1>3, <1>4, <2>2, <3>1
  <2> QED
    BY <1>2, <2>1, <2>2 DEF Within
<1>6. ASSUME NEW j \in 1..s PROVE mem[Wrap(a + Header + j - 1)][2] = b[i] + j - 1
  <2>1. PICK k \in b[i]..(b[i + 1] - 1) : k = b[i] + j - 1 /\ k \in Nat
    <3>1. b[i] + j - 1 \in b[i]..(b[i + 1] - 1) /\ b[i] + j - 1 \in Nat
      BY <1>2, <1>3 DEF Within
    <3> QED
      BY <3>1
  <2>2. a + Header + j - 1 = a + Header + (k - b[i])
    <3>1. a \in Int /\ Header \in Int /\ b[i] \in Int /\ j \in Int
      BY <1>2, <1>4, CacheFacts DEF Addr, Header, Within
    <3> QED
      BY <2>1, <3>1
  <2>3. mem[Wrap(a + Header + (k - b[i]))] = <<"data", k>>
    BY <1>4 DEF Filling
  <2> QED
    BY <2>1, <2>2, <2>3
<1>7. [j \in 1..s |-> mem[Wrap(a + Header + j - 1)][2]] = [j \in 1..s |-> b[i] + j - 1]
  BY <1>6
<1>8. Group(a, s) = [ts |-> t[i], data |-> [j \in 1..s |-> b[i] + j - 1]]
  <2>1. mem[a][2] = t[i]
    BY <1>4
  <2>2. Group(a, s) = [ts |-> mem[a][2], data |-> [j \in 1..s |-> mem[Wrap(a + Header + j - 1)][2]]]
    BY Zenon DEF Group
  <2> QED
    BY <1>7, <2>1, <2>2
<1> QED
  BY <1>3, <1>5, <1>8 DEF Gop

(* The groups the words in shared memory say are those of the ring.        *)
LEMMA GroupsAre ==
  \A lo, hi, b, t : Filled(lo, hi, b, t) => Groups = Gops(lo, hi, b, t)
<1> SUFFICES ASSUME NEW lo, NEW hi, NEW b, NEW t, Filled(lo, hi, b, t)
             PROVE  Groups = Gops(lo, hi, b, t)
  OBVIOUS
<1>1. Ring(lo, hi, b, t, head, mem) /\ last = Place(lo, b, head, hi) /\ lo \in Nat /\ hi \in Nat
  BY DEF Filled, Ring, Bounds
<1>2. Chain = Line(lo, hi, b, head, lo)
  BY <1>1, ChainIs
<1> DEFINE size(a) == IF a = last THEN CacheFree(tail, last) - Header ELSE GopSize(a)
<1>3. DOMAIN Chain = 1..(hi - lo + 1) /\ \A k \in 1..(hi - lo + 1) : Chain[k] = Place(lo, b, head, lo + k - 1)
  BY <1>2 DEF Line
<1>4. ASSUME NEW k \in 1..(hi - lo + 1) PROVE Group(Chain[k], size(Chain[k])) = Gop(b, t, lo + k - 1)
  <2>1. PICK i \in lo..hi : i = lo + k - 1
    BY <1>1
  <2>2. Chain[k] = Place(lo, b, head, i)
    BY <1>3, <2>1
  <2>3. Group(Chain[k], size(Chain[k])) = Gop(b, t, i)
    BY <2>2, GroupIs
  <2> QED
    BY <2>1, <2>3
<1>5. Groups = [k \in DOMAIN Chain |-> Group(Chain[k], size(Chain[k]))]
  BY Zenon DEF Groups
<1> QED
  BY <1>3, <1>4, <1>5 DEF Gops

(* And so they are after a step.                                           *)
LEMMA GroupsAreNext ==
  (\A lo, hi, b, t : Filled(lo, hi, b, t) => Groups = Gops(lo, hi, b, t))'
  BY GroupsAre, PTL

(* The memory some groups need.                                            *)
LEMMA UsedIs ==
  ASSUME NEW lo, NEW hi, NEW b, NEW t, Bounds(lo, hi, b)
  PROVE  Queue!Used(Gops(lo, hi, b, t)) = Pos(b, hi + 1) - Pos(b, lo)
<1>1. lo \in Nat /\ hi \in Nat /\ lo <= hi /\ b \in [Nat -> Nat]
  BY DEF Bounds
<1> DEFINE q == Gops(lo, hi, b, t)
           n == hi - lo + 1
           sum(m) == Pos(b, lo + m) - Pos(b, lo)
           Ok(f) == f = [m \in 0..Len(q) |-> IF m = 0 THEN 0 ELSE f[m - 1] + Header + Len(q[m].data)]
<1>2. Len(q) = n /\ n \in Nat
  BY <1>1 DEF Gops
<1>3. ASSUME NEW m \in 1..n PROVE sum(m) = sum(m - 1) + Header + Len(q[m].data)
  <2>1. PICK i \in lo..hi : i = lo + m - 1 /\ lo + m = i + 1 /\ lo + (m - 1) = i
    BY <1>1
  <2>2. Within(lo, hi, b, i)
    BY Between
  <2>3. q[m] = Gop(b, t, i)
    BY <2>1 DEF Gops
  <2>4. Len(Gop(b, t, i).data) = b[i + 1] - b[i]
    BY <2>2 DEF Gop, Within
  <2>5. sum(m) = Pos(b, i + 1) - Pos(b, lo) /\ sum(m - 1) = Pos(b, i) - Pos(b, lo)
    BY <2>1
  <2>6. Len(q[m].data) = b[i + 1] - b[i]
    BY <2>3, <2>4
  <2>7. PICK x \in Int, y \in Int, z \in Int, l \in Int :
           /\ x = Pos(b, i + 1) /\ y = Pos(b, i) /\ z = Pos(b, lo) /\ l = b[i + 1] - b[i]
           /\ x = y + Header + l
    <3>1. Pos(b, i + 1) \in Int /\ Pos(b, i) \in Int /\ Pos(b, lo) \in Int /\ b[i + 1] - b[i] \in Int
      BY <2>2 DEF Within
    <3>2. Pos(b, i + 1) = Pos(b, i) + Header + (b[i + 1] - b[i])
      BY <2>2 DEF Within
    <3> QED
      BY <3>1, <3>2, Zenon
  <2>8. x - z = (y - z) + Header + l /\ Header \in Int
    BY <2>2, <2>7 DEF Within
  <2>9. sum(m) = x - z /\ sum(m - 1) = y - z
    BY <2>5, <2>7
  <2> HIDE DEF q, sum
  <2> QED
    BY <2>6, <2>7, <2>8, <2>9, Zenon
<1>4. sum(0) = 0
  <2>1. lo \in lo..hi /\ lo + 0 = lo
    BY <1>1
  <2>2. Within(lo, hi, b, lo)
    BY <2>1, Between
  <2> QED
    BY <2>1, <2>2 DEF Within
<1>5. Queue!Used(q) = (CHOOSE f : Ok(f))[Len(q)]
  BY Zenon DEF Queue!Used
<1> HIDE DEF q, sum
<1>6. Ok(CHOOSE f : Ok(f))
  <2> DEFINE f == [m \in 0..n |-> sum(m)]
  <2>1. ASSUME NEW m \in 0..n PROVE f[m] = IF m = 0 THEN 0 ELSE f[m - 1] + Header + Len(q[m].data)
    <3>1. CASE m = 0
      BY <1>4, <3>1
    <3>2. CASE m # 0
      <4>1. m \in 1..n /\ m - 1 \in 0..n
        BY <1>2, <3>2
      <4> QED
        BY <1>3, <3>2, <4>1
    <3> QED
      BY <3>1, <3>2
  <2>2. f = [m \in 0..n |-> f[m]]
    OBVIOUS
  <2> HIDE DEF f, n
  <2>3. Ok(f)
    BY <1>2, <2>1, <2>2
  <2> HIDE DEF Ok
  <2> QED
    BY <2>3
<1>7. PICK f : f = (CHOOSE g : Ok(g)) /\ Ok(f)
  BY <1>6
<1>8. ASSUME f[n] # sum(n) PROVE FALSE
  <2>1. PICK S : S = {m \in 0..n : f[m] # sum(m)}
    OBVIOUS
  <2>2. S \in SUBSET Nat /\ n \in S
    BY <1>2, <1>8, <2>1
  <2>3. PICK m \in S : \A y \in S : m <= y
    BY <2>2, Least
  <2>4. m \in 0..n /\ f[m] # sum(m)
    BY <2>1
  <2>5. f[m] = IF m = 0 THEN 0 ELSE f[m - 1] + Header + Len(q[m].data)
    BY <1>2, <1>7, <2>4
  <2>6. CASE m = 0
    BY <1>4, <2>4, <2>5, <2>6
  <2>7. CASE m # 0
    <3>1. m \in 1..n /\ m - 1 \in 0..n /\ ~(m <= m - 1)
      BY <1>2, <2>4, <2>7
    <3>2. f[m - 1] = sum(m - 1)
      BY <2>1, <2>3, <3>1
    <3> QED
      BY <1>3, <2>4, <2>5, <2>7, <3>1, <3>2
  <2> QED
    BY <2>6, <2>7
<1>9. sum(n) = Pos(b, hi + 1) - Pos(b, lo)
  <2>1. lo + n = hi + 1
    BY <1>1
  <2> QED
    BY <2>1 DEF sum
<1> QED
  BY <1>2, <1>5, <1>7, <1>8, <1>9 DEF q

(* The groups from one of them on.                                         *)
LEMMA GopsFrom ==
  ASSUME NEW lo \in Nat, NEW hi \in Nat, NEW b, NEW t, NEW d \in lo..hi
  PROVE  SubSeq(Gops(lo, hi, b, t), d - lo + 1, Len(Gops(lo, hi, b, t))) = Gops(d, hi, b, t)
<1> DEFINE q == Gops(lo, hi, b, t)
           S == {Gop(b, t, i) : i \in lo..hi}
<1>1. ASSUME NEW e \in lo..hi
      PROVE  /\ Gops(e, hi, b, t) \in Seq(S) /\ Len(Gops(e, hi, b, t)) = hi - e + 1
             /\ \A k \in 1..(hi - e + 1) : Gops(e, hi, b, t)[k] = Gop(b, t, e + k - 1)
  <2>1. hi - e + 1 \in Nat /\ \A k \in 1..(hi - e + 1) : e + k - 1 \in lo..hi
    OBVIOUS
  <2>2. \A k \in 1..(hi - e + 1) : Gop(b, t, e + k - 1) \in S
    BY <2>1
  <2> HIDE DEF S
  <2> QED
    BY <2>1, <2>2 DEF Gops
<1>2. lo \in lo..hi
  OBVIOUS
<1>3. /\ q \in Seq(S) /\ Len(q) = hi - lo + 1
      /\ \A k \in 1..(hi - lo + 1) : q[k] = Gop(b, t, lo + k - 1)
  BY <1>1, <1>2
<1> HIDE DEF q, S
<1> DEFINE m == d - lo + 1
           s == SubSeq(q, m, Len(q))
<1>4. /\ s \in Seq(S) /\ Len(s) = IF m <= Len(q) THEN Len(q) - m + 1 ELSE 0
      /\ \A i \in 1..(Len(q) - m + 1) : s[i] = q[m + i - 1]
  <2>1. m \in Int /\ Len(q) \in Int
    BY <1>3
  <2>2. \A i \in m..Len(q) : q[i] \in S
    <3>1. \A i \in m..Len(q) : i \in 1..Len(q)
      BY <1>3
    <3> QED
      BY <1>3, <3>1
  <2> HIDE DEF m
  <2> QED
    BY <2>1, <2>2, SubSeqProperties
<1>5. Len(q) - m + 1 = hi - d + 1 /\ m <= Len(q)
  BY <1>3
<1>6. ASSUME NEW i \in 1..(hi - d + 1) PROVE s[i] = Gop(b, t, d + i - 1)
  <2>1. m + i - 1 \in 1..(hi - lo + 1) /\ lo + (m + i - 1) - 1 = d + i - 1
    OBVIOUS
  <2>2. s[i] = q[m + i - 1]
    BY <1>4, <1>5
  <2> QED
    BY <1>3, <2>1, <2>2
<1> HIDE DEF s
<1>7. s = Gops(d, hi, b, t)
  <2>1. Len(s) = hi - d + 1
    BY <1>4, <1>5
  <2>2. /\ Gops(d, hi, b, t) \in Seq(S) /\ Len(Gops(d, hi, b, t)) = hi - d + 1
        /\ \A i \in 1..(hi - d + 1) : Gops(d, hi, b, t)[i] = Gop(b, t, d + i - 1)
    BY <1>1
  <2>3. \A i \in 1..Len(s) : s[i] = Gops(d, hi, b, t)[i]
    BY <1>6, <2>1, <2>2
  <2> QED
    BY <1>4, <2>1, <2>2, <2>3, SeqEqual
<1> QED
  BY <1>7 DEF s, q
(* Of the groups of a ring from one of them on, the same.                  *)
LEMMA BoundsFrom ==
  ASSUME NEW lo, NEW hi, NEW b, Bounds(lo, hi, b), NEW d \in lo..hi
  PROVE  Bounds(d, hi, b)
<1>1. Within(lo, hi, b, d)
  BY Between
<1>2. \A i \in d..(hi + 1) : i \in lo..(hi + 1)
  BY <1>1 DEF Within
<1>3. Pos(b, hi + 1) - Pos(b, d) < Cache
  BY <1>1 DEF Within
<1> QED
  BY <1>1, <1>2, <1>3 DEF Bounds, Within

(* What the queue calls room for a sample is what new_sample_callback asks *)
(* of the ring.                                                            *)
LEMMA FitsIs ==
  ASSUME NEW lo, NEW hi, NEW b, NEW t, Bounds(lo, hi, b), NEW d \in lo..hi, NEW size \in Nat
  PROVE  Queue!Fits(SubSeq(Gops(lo, hi, b, t), d - lo + 1, Len(Gops(lo, hi, b, t))), size)
           <=> Room(b, hi, d, size)
<1>1. Within(lo, hi, b, d) /\ Bounds(d, hi, b)
  BY Between, BoundsFrom
<1>2. SubSeq(Gops(lo, hi, b, t), d - lo + 1, Len(Gops(lo, hi, b, t))) = Gops(d, hi, b, t)
  <2>1. lo \in Nat /\ hi \in Nat
    BY <1>1 DEF Within
  <2> QED
    BY <2>1, GopsFrom
<1>3. Queue!Used(Gops(d, hi, b, t)) = Pos(b, hi + 1) - Pos(b, d)
  BY <1>1, UsedIs
<1>4. Queue!Fits(Gops(d, hi, b, t), size) <=> Pos(b, hi + 1) - Pos(b, d) + size + Header < Cache
  BY <1>3, Zenon DEF Queue!Fits
<1>5. Pos(b, hi + 1) - Pos(b, d) + size + Header < Cache <=> Room(b, hi, d, size)
  BY <1>1 DEF Within, Room
<1> QED
  BY <1>2, <1>4, <1>5

(* No more groups are given up than a sample needs.                        *)
LEMMA KeptIs ==
  ASSUME NEW lo, NEW hi, NEW b, NEW t, Bounds(lo, hi, b), NEW d \in lo..hi, NEW size \in Nat,
         Fewest(lo, hi, b, d, size)
  PROVE  Gops(d, hi, b, t) \in Queue!Kept(Gops(lo, hi, b, t), size)
<1> DEFINE q == Gops(lo, hi, b, t)
           from(x) == SubSeq(q, x, Len(q))
<1>1. Within(lo, hi, b, d)
  BY Between
<1>2. lo \in Nat /\ hi \in Nat /\ d \in Nat /\ lo <= d /\ d <= hi
  BY <1>1 DEF Within
<1>3. PICK x \in Int : x = d - lo + 1
  BY <1>2
<1>4. from(x) = Gops(d, hi, b, t)
  BY <1>2, <1>3, GopsFrom
<1>5. x \in DOMAIN q
  BY <1>2, <1>3 DEF Gops
<1>6. Queue!Fits(from(x), size)
  <2>1. Room(b, hi, d, size)
    BY DEF Fewest
  <2> QED
    BY <1>3, <2>1, FitsIs
<1>7. ASSUME x > 1 PROVE ~Queue!Fits(from(x - 1), size)
  <2>1. PICK j \in lo..(d - 1) : j - lo + 1 = x - 1 /\ j \in lo..hi
    BY <1>2, <1>3, <1>7
  <2>2. ~Room(b, hi, j, size)
    BY DEF Fewest
  <2>3. ~Queue!Fits(from(j - lo + 1), size)
    BY <2>1, <2>2, FitsIs
  <2> QED
    BY <2>1, <2>3
<1> HIDE DEF q
<1>8. from(x) \in Queue!Kept(q, size)
  BY <1>5, <1>6, <1>7, Zenon DEF Queue!Kept
<1> QED
  BY <1>4, <1>8 DEF q

(* Two runs of as many numbers that end with the same one.                 *)
LEMMA RunOne ==
  ASSUME NEW s, NEW u, NEW k, NEW e, Run(s, k, e), Run(u, k, e)
  PROVE  s = u
<1>1. s \in Seq(Int) /\ u \in Seq(Int) /\ Len(s) = k /\ Len(u) = k
  BY DEF Run
<1>2. \A i \in 1..k : s[i] = e - k + i
  BY DEF Run
<1>3. \A i \in 1..k : u[i] = e - k + i
  BY DEF Run
<1> QED
  BY <1>1, <1>2, <1>3, SeqEqual

(* The words of a sample, and those of a group.                            *)
Given(w, size) == [i \in 1..size |-> w + i]

(* The words of a sample follow each other,                                *)
LEMMA GivenRun ==
  ASSUME NEW w \in Int, NEW size \in Nat
  PROVE  Run(Given(w, size), size, w + size)
<1>1. Given(w, size) \in Seq(Int) /\ Len(Given(w, size)) = size
  BY DEF Given
<1>2. \A i \in 1..size : Given(w, size)[i] = (w + size) - size + i
  BY DEF Given
<1> QED
  BY <1>1, <1>2 DEF Run

(* and so do those of a group.                                             *)
LEMMA GopRun ==
  ASSUME NEW b, NEW t, NEW i, b[i] \in Nat, b[i + 1] \in Nat, b[i] <= b[i + 1]
  PROVE  Run(Gop(b, t, i).data, b[i + 1] - b[i], b[i + 1] - 1)
<1>1. PICK x \in Nat : x = b[i]
  OBVIOUS
<1>2. PICK n \in Nat : n = b[i + 1] - b[i]
  OBVIOUS
<1>3. b[i + 1] - 1 = x + n - 1
  BY <1>1, <1>2
<1> DEFINE s == [j \in 1..n |-> x + j - 1]
<1>4. Gop(b, t, i).data = s
  BY <1>1, <1>2 DEF Gop
<1>5. s \in Seq(Int) /\ Len(s) = n /\ \A j \in 1..n : s[j] = (x + n - 1) - n + j
  OBVIOUS
<1> HIDE DEF s
<1>6. Run(s, n, x + n - 1)
  BY <1>5 DEF Run
<1> QED
  BY <1>2, <1>3, <1>4, <1>6

(* The last word of a ring is w.                                           *)
EndsWith(b, hi, w) == w \in Nat /\ b[hi + 1] = w + 1

(* A queue with more words in its last group.                              *)
Grown(q, p, w, size) == q = [p EXCEPT ![Len(p)].data = @ \o Given(w, size)]

(* A sample that enters the last group.                                    *)
LEMMA MoreIs ==
  ASSUME NEW d, NEW hi, NEW b, NEW t, Bounds(d, hi, b), t \in [Nat -> Nat], NEW size \in Nat,
         NEW w, EndsWith(b, hi, w), NEW b2, Longer(b, b2, hi + 1, size)
  PROVE  Grown(Gops(d, hi, b2, t), Gops(d, hi, b, t), w, size)
<1> DEFINE p == Gops(d, hi, b, t)
<1>1. d \in Nat /\ hi \in Nat /\ d <= hi /\ w \in Nat /\ b[hi + 1] = w + 1
  BY DEF Bounds, EndsWith
<1>2. Within(d, hi, b, hi)
  <2>1. hi \in d..hi
    BY <1>1
  <2> QED
    BY <2>1, Between
<1>3. PICK n \in Nat : n = hi - d + 1 /\ n > 0 /\ d + n - 1 = hi
  BY <1>1
<1>4. /\ p = [k \in 1..n |-> Gop(b, t, d + k - 1)] /\ Len(p) = n
      /\ Gops(d, hi, b2, t) = [k \in 1..n |-> Gop(b2, t, d + k - 1)]
  BY <1>3 DEF Gops
<1> HIDE DEF p
<1>5. ASSUME NEW k \in 1..n, k # n PROVE Gop(b2, t, d + k - 1) = Gop(b, t, d + k - 1)
  <2>1. PICK i \in Nat : i = d + k - 1 /\ i + 1 \in Nat /\ i # hi + 1 /\ i + 1 # hi + 1
    BY <1>1, <1>3, <1>5
  <2>2. b2[i] = b[i] /\ b2[i + 1] = b[i + 1]
    BY <2>1 DEF Longer
  <2> QED
    BY <2>1, <2>2, Zenon DEF Gop
<1>6. Gop(b2, t, hi) = [Gop(b, t, hi) EXCEPT !.data = @ \o Given(w, size)]
  <2>1. b2[hi] = b[hi] /\ b2[hi + 1] = b[hi + 1] + size
    <3>1. hi # hi + 1
      BY <1>1
    <3> QED
      BY <1>1, <3>1 DEF Longer
  <2>2. PICK x \in Nat, l \in Nat : x = b[hi] /\ l = b[hi + 1] - b[hi] /\ w = x + l - 1
    BY <1>1, <1>2 DEF Within
  <2>3. Run(Gop(b, t, hi).data, l, w)
    <3>1. Run(Gop(b, t, hi).data, b[hi + 1] - b[hi], b[hi + 1] - 1)
      BY <1>2, GopRun DEF Within
    <3>2. b[hi + 1] - 1 = w
      BY <1>1
    <3> QED
      BY <2>2, <3>1, <3>2
  <2>4. Run(Given(w, size), size, w + size)
    <3>1. w \in Int
      BY <1>1
    <3> QED
      BY <3>1, GivenRun
  <2>5. Run(Gop(b, t, hi).data \o Given(w, size), l + size, w + size)
    BY <2>3, <2>4, RunOn
  <2>6. Run(Gop(b2, t, hi).data, l + size, w + size)
    <3>1. b2[hi] \in Nat /\ b2[hi + 1] \in Nat /\ b2[hi] <= b2[hi + 1]
      BY <1>2, <2>1 DEF Within
    <3>2. Run(Gop(b2, t, hi).data, b2[hi + 1] - b2[hi], b2[hi + 1] - 1)
      BY <3>1, GopRun
    <3>3. b2[hi + 1] - b2[hi] = l + size /\ b2[hi + 1] - 1 = w + size
      BY <1>2, <2>1, <2>2 DEF Within
    <3> QED
      BY <3>2, <3>3
  <2>7. Gop(b2, t, hi).data = Gop(b, t, hi).data \o Given(w, size)
    BY <2>5, <2>6, RunOne
  <2>8. PICK g, h, u, v : /\ g = Gop(b2, t, hi) /\ h = Gop(b, t, hi)
                          /\ u = Gop(b, t, hi).data /\ v = u \o Given(w, size)
    OBVIOUS
  <2>9. u \in Seq(Int) /\ v \in Seq(Int) /\ v = Gop(b2, t, hi).data /\ t[hi] \in Nat
    BY <1>1, <2>3, <2>6, <2>7, <2>8 DEF Run
  <2>10. g = [ts |-> t[hi], data |-> v] /\ h = [ts |-> t[hi], data |-> u]
    BY <2>8, <2>9 DEF Gop
  <2>11. /\ g \in [ts : Nat, data : Seq(Int)] /\ h \in [ts : Nat, data : Seq(Int)]
         /\ g.ts = h.ts /\ g.data = v /\ h.data = u
    BY <2>9, <2>10
  <2>12. [h EXCEPT !.data = v] = g
    BY <2>9, <2>11
  <2>13. [h EXCEPT !.data = h.data \o Given(w, size)] = [h EXCEPT !.data = v]
    BY <2>8, <2>11
  <2> QED
    BY <2>8, <2>12, <2>13
<1>7. PICK g : g = Gop(b2, t, hi)
  OBVIOUS
<1>8. PICK r : r = [p EXCEPT ![n] = g]
  OBVIOUS
<1>9. n \in 1..n /\ p[n] = Gop(b, t, hi)
  <2>1. n \in 1..n
    BY <1>3
  <2>2. p[n] = Gop(b, t, d + n - 1)
    BY <1>4, <2>1, Zenon
  <2> QED
    BY <1>3, <2>1, <2>2
<1>10. r = [p EXCEPT ![Len(p)].data = @ \o Given(w, size)]
  <2>1. g = [p[n] EXCEPT !.data = p[n].data \o Given(w, size)]
    BY <1>6, <1>7, <1>9
  <2>2. Len(p) = n
    BY <1>4
  <2> QED
    BY <1>8, <2>1, <2>2
<1>11. r = [k \in 1..n |-> Gop(b2, t, d + k - 1)]
  <2>1. DOMAIN p = 1..n
    BY <1>4
  <2>2. r = [k \in 1..n |-> r[k]] /\ \A k \in 1..n : r[k] = IF k = n THEN g ELSE p[k]
    BY <1>3, <1>8, <2>1
  <2>3. ASSUME NEW k \in 1..n PROVE r[k] = Gop(b2, t, d + k - 1)
    <3>1. CASE k = n
      BY <1>3, <1>7, <2>2, <3>1
    <3>2. CASE k # n
      BY <1>4, <1>5, <2>2, <3>2
    <3> QED
      BY <3>1, <3>2
  <2> QED
    BY <2>2, <2>3
<1>12. Gops(d, hi, b2, t) = [p EXCEPT ![Len(p)].data = @ \o Given(w, size)]
  BY <1>4, <1>10, <1>11
<1> QED
  BY <1>12, Zenon DEF p, Grown

(* A sample that opens another group.                                      *)
LEMMA OpenedIs ==
  ASSUME NEW d, NEW hi, NEW b, NEW t, Bounds(d, hi, b), NEW size \in Nat, NEW w, EndsWith(b, hi, w),
         NEW x, NEW b1, NEW t2, Further(b, t, b1, t2, hi, x), NEW b2, Longer(b1, b2, hi + 2, size)
  PROVE  Gops(d, hi + 1, b2, t2) = Append(Gops(d, hi, b, t), [ts |-> x, data |-> Given(w, size)])
<1>1. d \in Nat /\ hi \in Nat /\ d <= hi /\ w \in Nat /\ b[hi + 1] = w + 1
  BY DEF Bounds, EndsWith
<1>2. PICK n \in Nat : n = hi - d + 1 /\ n > 0 /\ d + n - 1 = hi
  BY <1>1
<1>3. /\ Gops(d, hi, b, t) = [k \in 1..n |-> Gop(b, t, d + k - 1)]
      /\ Gops(d, hi + 1, b2, t2) = [k \in 1..(n + 1) |-> Gop(b2, t2, d + k - 1)]
  <2>1. hi - d + 1 = n /\ (hi + 1) - d + 1 = n + 1
    BY <1>1, <1>2
  <2> QED
    BY <2>1, Zenon DEF Gops
<1>4. ASSUME NEW k \in 1..n PROVE Gop(b2, t2, d + k - 1) = Gop(b, t, d + k - 1)
  <2>1. PICK i \in Nat : i = d + k - 1 /\ i \in 0..hi /\ i \in 0..(hi + 1) /\ i + 1 \in 0..(hi + 1)
    BY <1>1, <1>2
  <2>2. b1[i] = b[i] /\ b1[i + 1] = b[i + 1] /\ t2[i] = t[i]
    BY <2>1 DEF Further
  <2>3. i \in Nat \ {hi + 2} /\ i + 1 \in Nat \ {hi + 2}
    BY <1>1, <2>1
  <2>4. b2[i] = b1[i] /\ b2[i + 1] = b1[i + 1]
    BY <2>3 DEF Longer
  <2> QED
    BY <2>1, <2>2, <2>4, Zenon DEF Gop
<1>5. Gop(b2, t2, hi + 1) = [ts |-> x, data |-> Given(w, size)]
  <2>1. PICK i \in Nat : i = hi + 1 /\ i + 1 = hi + 2 /\ i # hi + 2 /\ i \in 0..(hi + 1)
    BY <1>1
  <2>2. b1[i] = w + 1 /\ b1[i + 1] = w + 1 /\ t2[i] = x
    BY <1>1, <2>1 DEF Further
  <2>3. b2[i] = w + 1 /\ b2[i + 1] = w + 1 + size
    BY <2>1, <2>2 DEF Longer
  <2>4. b2[i + 1] - b2[i] = size
    BY <1>1, <2>3
  <2>5. \A j \in 1..size : b2[i] + j - 1 = w + j
    BY <1>1, <2>3
  <2>6. [j \in 1..(b2[i + 1] - b2[i]) |-> b2[i] + j - 1] = Given(w, size)
    BY <2>4, <2>5 DEF Given
  <2> QED
    BY <2>1, <2>2, <2>6 DEF Gop
<1> DEFINE S == {Gop(b, t, d + k - 1) : k \in 1..n} \cup {[ts |-> x, data |-> Given(w, size)]}
<1>6. PICK p, g : p = Gops(d, hi, b, t) /\ g = [ts |-> x, data |-> Given(w, size)]
  OBVIOUS
<1>7. p \in Seq(S) /\ Len(p) = n /\ g \in S
  <2>1. \A k \in 1..n : Gop(b, t, d + k - 1) \in S
    OBVIOUS
  <2>2. g \in S
    BY <1>6
  <2> HIDE DEF S
  <2> QED
    BY <1>3, <1>6, <2>1, <2>2
<1> HIDE DEF S
<1>8. /\ Append(p, g) \in Seq(S) /\ Len(Append(p, g)) = n + 1
      /\ \A k \in 1..n : Append(p, g)[k] = p[k]
      /\ Append(p, g)[n + 1] = g
  BY <1>7, AppendProperties
<1>9. Append(p, g) = [k \in 1..(n + 1) |-> Append(p, g)[k]]
  <2>1. PICK r : r = Append(p, g)
    OBVIOUS
  <2>2. r \in Seq(S) /\ Len(r) = n + 1
    BY <1>8, <2>1
  <2>3. r = [k \in 1..(n + 1) |-> r[k]]
    BY <2>2
  <2> QED
    BY <2>1, <2>3
<1>10. ASSUME NEW k \in 1..(n + 1) PROVE Append(p, g)[k] = Gop(b2, t2, d + k - 1)
  <2>1. CASE k = n + 1
    <3>1. d + k - 1 = hi + 1
      BY <1>1, <1>2, <2>1
    <3> QED
      BY <1>5, <1>6, <1>8, <2>1, <3>1
  <2>2. CASE k # n + 1
    <3>1. k \in 1..n
      BY <2>2
    <3>2. p[k] = Gop(b, t, d + k - 1)
      BY <1>3, <1>6, <3>1
    <3> QED
      BY <1>4, <1>8, <3>1, <3>2
  <2> QED
    BY <2>1, <2>2
<1> QED
  BY <1>3, <1>6, <1>9, <1>10, Zenon

(* A step of the queue: what is kept of it, with the words of the sample.  *)
LEMMA PutIs ==
  ASSUME NEW size \in 1..MaxSize, words' = words + size, NEW p \in Queue!Kept(Groups, size),
         \/ Groups' = [p EXCEPT ![Len(p)].data = @ \o Given(words, size)]
         \/ \E x \in p[Len(p)].ts..MaxTs : Groups' = Append(p, [ts |-> x, data |-> Given(words, size)])
  PROVE  Queue!Next
<1>1. size \in 1..(Cache - Header)
  BY CacheFacts DEF Header
<1> DEFINE more(q) == [q EXCEPT ![Len(q)].data = @ \o Given(words, size)]
           opened(q) == {Append(q, [ts |-> x, data |-> Given(words, size)]) : x \in q[Len(q)].ts..MaxTs}
<1>2. Groups' \in {more(p)} \cup opened(p)
  OBVIOUS
<1>3. Groups' \in UNION {{more(q)} \cup opened(q) : q \in Queue!Kept(Groups, size)}
  BY <1>2, Zenon
<1>4. Queue!Put
  BY <1>1, <1>3, Zenon DEF Queue!Put, Given
<1> QED
  BY <1>4 DEF Queue!Next

(* The last segment begun is not far from the first one: each begins with a *)
(* word.                                                                   *)
BoundInv == words \in 0..MaxWords /\ ts \in 0..(MaxFirst + words)

(* Each step keeps the time stamps within their bound.                     *)
LEMMA BoundNext ==
  ASSUME BoundInv, [Next]_vars
  PROVE  BoundInv'
<1>1. words \in Nat /\ words <= MaxWords /\ ts \in Nat /\ ts <= MaxFirst + words
  BY OutputAssumption DEF BoundInv
<1>2. MaxWords \in Nat /\ MaxFirst \in Nat
  BY OutputAssumption
<1>3. ASSUME NEW size \in 1..MaxSize, Sample(size) PROVE BoundInv'
  <2>1. size \in Nat /\ words' = words + size /\ words' <= MaxWords /\ ts' = ts
    BY <1>3, CacheFacts DEF Sample
  <2> QED
    BY <1>1, <1>2, <2>1 DEF BoundInv
<1>4. ASSUME NEW size \in 1..MaxSize, KeySample(size) PROVE BoundInv'
  <2>1. size \in Nat /\ size >= 1 /\ words' = words + size /\ words' <= MaxWords
    BY <1>4, CacheFacts DEF KeySample
  <2>2. ts' = ts \/ ts' = ts + 1 \/ ts' \in 1..MaxFirst
    BY <1>4 DEF KeySample
  <2>3. words' \in 0..MaxWords
    BY <1>1, <1>2, <2>1
  <2>4. ts' \in 0..(MaxFirst + words')
    BY <1>1, <1>2, <2>1, <2>2
  <2> QED
    BY <2>3, <2>4 DEF BoundInv
<1>5. CASE OutputInitialize
  <2>1. words' = words /\ ts' = 0
    BY <1>5 DEF OutputInitialize
  <2> QED
    BY <1>1, <1>2, <2>1 DEF BoundInv
<1>6. CASE ForceKey \/ SendMsg \/ Die \/ JobReset \/ Play \/ UNCHANGED vars
  BY <1>6 DEF BoundInv, ForceKey, SendMsg, Die, JobReset, Play, vars, encoder
<1>7. CASE DropMsg \/ Handle \/ WriteSegment
  BY <1>7 DEF BoundInv, DropMsg, Handle, WriteSegment, encoder
<1>8. CASE Request \/ Begin \/ Leave \/ NextChunk \/ SendData
  BY <1>8 DEF BoundInv, Request, Begin, Leave, NextChunk, SendData, encoder
<1> QED
  BY <1>3, <1>4, <1>5, <1>6, <1>7, <1>8 DEF Next

(* A fresh ring is a fresh queue.                                          *)
LEMMA FreshIs ==
  ASSUME NEW w, NEW b, Flat(b, w), NEW t, Flat(t, 0), w \in Nat
  PROVE  Gops(0, 0, b, t) = Queue!Fresh
<1>1. b[0] = w /\ b[0 + 1] = w /\ t[0] = 0
  BY DEF Flat
<1>2. Gop(b, t, 0) = [ts |-> 0, data |-> <<>>]
  <2>1. [j \in 1..(b[0 + 1] - b[0]) |-> b[0] + j - 1] = <<>>
    BY <1>1
  <2> QED
    BY <1>1, <2>1 DEF Gop
<1>3. Gops(0, 0, b, t) = [k \in 1..1 |-> Gop(b, t, 0)]
  <2>1. 0 - 0 + 1 = 1 /\ \A k \in 1..1 : 0 + k - 1 = 0
    OBVIOUS
  <2> QED
    BY <2>1 DEF Gops
<1>4. [k \in 1..1 |-> Gop(b, t, 0)] = <<Gop(b, t, 0)>>
  <2>1. PICK g : g = Gop(b, t, 0)
    OBVIOUS
  <2>2. [k \in 1..1 |-> g] = <<g>>
    OBVIOUS
  <2> QED
    BY <2>1, <2>2
<1> QED
  BY <1>2, <1>3, <1>4 DEF Queue!Fresh

(* A step of the output as one of the queue, or none of it.                *)
LEMMA QueueStep ==
  ASSUME RingInv, BoundInv, [Next]_vars
  PROVE  Queue!Next \/ UNCHANGED <<Groups, words>>
<1>1. PICK lo, hi, b, t : Filled(lo, hi, b, t) /\ Numbers
  BY DEF RingInv
<1>2. Groups = Gops(lo, hi, b, t)
  BY <1>1, GroupsAre
<1>3. Bounds(lo, hi, b) /\ b[hi + 1] = words + 1 /\ t[hi] = ts /\ t \in [Nat -> Nat] /\ words \in Nat /\ ts \in Nat
  BY <1>1 DEF Filled, Ring, Numbers
<1>4. lo \in Nat /\ hi \in Nat /\ lo <= hi
  BY <1>3 DEF Bounds
<1>5. ASSUME UNCHANGED cells PROVE UNCHANGED <<Groups, words>>
  <2>1. Filled(lo, hi, b, t)'
    BY <1>1, <1>5 DEF cells, Filled, WasClosed
  <2>2. Groups' = Gops(lo, hi, b, t)
    BY <2>1, GroupsAreNext
  <2> QED
    BY <1>2, <1>5, <2>2 DEF cells
<1>6. ASSUME NEW size \in 1..MaxSize, Sample(size) PROVE Queue!Next
  <2>1. size \in Nat /\ words' = words + size
    BY <1>6, CacheFacts DEF Sample
  <2>2. PICK d \in lo..hi : \E b2 :
          Filled(d, hi, b2, t)' /\ Longer(b, b2, hi + 1, size) /\ Fewest(lo, hi, b, d, size)
    BY <1>1, <1>6, <2>1, SampleStep
  <2>3. PICK b2 : Filled(d, hi, b2, t)' /\ Longer(b, b2, hi + 1, size) /\ Fewest(lo, hi, b, d, size)
    BY <2>2
  <2>4. PICK p : p = Gops(d, hi, b, t)
    OBVIOUS
  <2>5. p \in Queue!Kept(Groups, size)
    BY <1>2, <1>3, <2>1, <2>3, <2>4, KeptIs
  <2>6. Groups' = Gops(d, hi, b2, t)
    BY <2>3, GroupsAreNext
  <2>7. Gops(d, hi, b2, t) = [p EXCEPT ![Len(p)].data = @ \o Given(words, size)]
    <3>1. Bounds(d, hi, b)
      BY <1>3, BoundsFrom
    <3>2. t \in [Nat -> Nat] /\ size \in Nat /\ EndsWith(b, hi, words)
      BY <1>3, <2>1 DEF EndsWith
    <3>3. Longer(b, b2, hi + 1, size)
      BY <2>3
    <3>4. Grown(Gops(d, hi, b2, t), Gops(d, hi, b, t), words, size)
      BY <3>1, <3>2, <3>3, MoreIs
    <3> QED
      BY <2>4, <3>4, Zenon DEF Grown
  <2> QED
    BY <2>1, <2>5, <2>6, <2>7, PutIs
<1>7. ASSUME NEW size \in 1..MaxSize, KeySample(size) PROVE Queue!Next
  <2>1. size \in Nat /\ size >= 1 /\ words' = words + size /\ words' <= MaxWords
    BY <1>7, CacheFacts DEF KeySample
  <2>2. PICK d \in lo..hi : \E b1, b2, t2 :
           /\ Filled(d, hi + 1, b2, t2)'
           /\ Further(b, t, b1, t2, hi, ts') /\ Longer(b1, b2, hi + 2, size)
           /\ Fewest(lo, hi, b, d, size)
    BY <1>1, <1>7, <2>1, KeyStep
  <2>3. PICK b1, b2, t2 :
           /\ Filled(d, hi + 1, b2, t2)'
           /\ Further(b, t, b1, t2, hi, ts') /\ Longer(b1, b2, hi + 2, size)
           /\ Fewest(lo, hi, b, d, size)
    BY <2>2
  <2>4. PICK p : p = Gops(d, hi, b, t)
    OBVIOUS
  <2>5. p \in Queue!Kept(Groups, size)
    BY <1>3, <1>2, <2>1, <2>3, <2>4, KeptIs
  <2>6. Groups' = Gops(d, hi + 1, b2, t2)
    BY <2>3, GroupsAreNext
  <2>7. PICK x : x = ts'
    OBVIOUS
  <2>8. Gops(d, hi + 1, b2, t2) = Append(p, [ts |-> x, data |-> Given(words, size)])
    <3>1. Bounds(d, hi, b)
      BY <1>3, BoundsFrom
    <3>2. Further(b, t, b1, t2, hi, x)
      BY <2>3, <2>7
    <3>3. size \in Nat /\ EndsWith(b, hi, words)
      BY <1>3, <2>1 DEF EndsWith
    <3>4. Longer(b1, b2, hi + 2, size)
      BY <2>3
    <3> QED
      BY <2>4, <3>1, <3>2, <3>3, <3>4, OpenedIs
  <2>9. p[Len(p)].ts = ts
    <3>1. PICK n \in Nat : n = hi - d + 1 /\ n \in 1..n /\ d + n - 1 = hi
      BY <1>4
    <3>2. p = [k \in 1..n |-> Gop(b, t, d + k - 1)] /\ Len(p) = n
      BY <2>4, <3>1 DEF Gops
    <3>3. p[n] = Gop(b, t, hi)
      BY <3>1, <3>2, Zenon
    <3>4. Gop(b, t, hi).ts = ts
      BY <1>3 DEF Gop
    <3> QED
      BY <3>2, <3>3, <3>4
  <2>10. x \in ts..MaxTs
    <3>1. ts' = ts \/ ts' = ts + 1 \/ (ts = 0 /\ ts' \in 1..MaxFirst)
      BY <1>7 DEF KeySample
    <3>2. ts <= MaxFirst + words /\ MaxFirst \in Nat /\ MaxWords \in Nat
      BY OutputAssumption DEF BoundInv
    <3> QED
      BY <1>3, <2>1, <2>7, <3>1, <3>2 DEF MaxTs
  <2> QED
    BY <2>1, <2>5, <2>6, <2>8, <2>9, <2>10, PutIs
<1>8. CASE OutputInitialize
  <2>1. PICK w \in Nat : w = words + 1
    BY <1>3
  <2>2. PICK c : Flat(c, w)
    BY DEF Flat
  <2>3. PICK u : Flat(u, 0)
    BY DEF Flat
  <2>4. /\ Ring(0, 0, c, u, 0, Store(mem, 0, HeaderOf(0)))
        /\ Place(0, c, 0, 0) = 0 /\ Place(0, c, 0, 1) = Header
        /\ c[0] = w /\ c[1] = w /\ u[0] = 0
    BY <2>1, <2>2, <2>3, Fresh
  <2>5. /\ mem' = Store(mem, 0, HeaderOf(0)) /\ head' = 0 /\ tail' = Header /\ last' = 0
        /\ words' = words /\ begun' = words + 1 /\ ts' = 0
    BY <1>8 DEF OutputInitialize
  <2>6. Filled(0, 0, c, u)'
    <3>1. 0 + 1 = 1 /\ 0..(0 - 1) = {}
      OBVIOUS
    <3> QED
      BY <2>1, <2>4, <2>5, <3>1 DEF Filled
  <2>7. Groups' = Gops(0, 0, c, u)
    BY <2>6, GroupsAreNext
  <2>8. Groups' = Queue!Fresh
    BY <2>2, <2>3, <2>7, FreshIs
  <2> QED
    BY <2>5, <2>8 DEF Queue!Next, Queue!Restart
<1>9. CASE ForceKey \/ SendMsg \/ Die \/ JobReset \/ Play \/ UNCHANGED vars
  BY <1>5, <1>9 DEF cells, ForceKey, SendMsg, Die, JobReset, Play, vars, ring, encoder
<1>10. CASE DropMsg \/ Handle \/ WriteSegment
  BY <1>5, <1>10 DEF cells, DropMsg, Handle, WriteSegment, ring, encoder
<1>11. CASE Request \/ Begin \/ Leave \/ NextChunk \/ SendData
  BY <1>5, <1>11 DEF cells, Request, Begin, Leave, NextChunk, SendData, ring, encoder
<1> QED
  BY <1>6, <1>7, <1>8, <1>9, <1>10, <1>11 DEF Next

(* The ring of the cache implements a queue of groups of pictures: what is *)
(* read from head_addr through the sizes in shared memory is what was given, *)
(* in groups, a sample enters the last one or opens another, and no more of *)
(* the oldest are given up than it needs.                                  *)
THEOREM QueueTheorem == Spec => QueueSpec
<1>1. Init => RingInv /\ BoundInv
  <2> SUFFICES ASSUME Init PROVE RingInv /\ BoundInv
    OBVIOUS
  <2>1. words = 0 /\ ts = 0
    BY DEF Init
  <2>2. BoundInv
    BY <2>1, OutputAssumption DEF BoundInv
  <2> QED
    BY <2>2, RingInit
<1>2. RingInv /\ BoundInv /\ [Next]_vars => (RingInv /\ BoundInv)'
  BY RingNext, BoundNext
<1>3. Init => Queue!Init
  <2> SUFFICES ASSUME Init PROVE Queue!Init
    OBVIOUS
  <2>1. PICK b : Flat(b, 1)
    BY DEF Flat
  <2>2. PICK t : Flat(t, 0)
    BY DEF Flat
  <2>3. Filled(0, 0, b, t)
    BY <2>1, <2>2, FilledFirst
  <2>4. Groups = Queue!Fresh
    <3>1. Groups = Gops(0, 0, b, t)
      BY <2>3, GroupsAre
    <3>2. 1 \in Nat
      OBVIOUS
    <3> QED
      BY <2>1, <2>2, <3>1, <3>2, FreshIs
  <2>5. words = 0
    BY DEF Init
  <2> QED
    BY <2>4, <2>5 DEF Queue!Init
<1>4. RingInv /\ BoundInv /\ [Next]_vars => [Queue!Next]_<<Groups, words>>
  BY QueueStep
<1> QED
  BY <1>1, <1>2, <1>3, <1>4, PTL DEF Spec, QueueSpec, Queue!Spec

-----------------------------------------------------------------------------
(* The player.                                                             *)

(* What a player holds.                                                      *)
Fields == {"at", "rap", "pos", "chunk", "sent", "age", "heard", "inOrder", "excused"}
IsPlayer(p) == p = [f \in Fields |-> p[f]] /\ p.excused \in BOOLEAN

(* A player that is to be sent the chunk that begins with word k of group g: *)
(* its addresses name these, what it heard last is the word before the     *)
(* next one to send.                                                       *)
InGroup(b, g, p, k) ==
  /\ k \in Nat /\ b[g] <= k /\ p.pos \in Nat /\ p.chunk \in Nat /\ p.sent \in Nat
  /\ \/ p.pos = Wrap(p.rap + Header + (k - b[g]))
     \/ p.pos = Cache /\ Wrap(p.rap + Header + (k - b[g])) = 0 /\ p.chunk = 0
  /\ p.sent <= p.chunk /\ (p.at = "send" => p.sent < p.chunk)
  /\ k + p.chunk <= b[g + 1] /\ p.pos + p.chunk <= Cache
  /\ p.heard # 0 => p.heard = k + p.sent - 1

(* The group a player plays.                                               *)
Plays(lo, b, h, p, g) ==
  /\ p.rap = Place(lo, b, h, g) /\ p.inOrder = TRUE
  /\ \/ p.at = "begin" /\ p.chunk = 0 /\ p.sent = 0 /\ p.heard = 0
     \/ p.at \in {"wait", "send"} /\ \E k : InGroup(b, g, p, k)

(* A player plays a group of the ring, unless it is excused.               *)
Playing(lo, hi, b, h, p) ==
  p.excused \/ p = Off \/ \E g \in lo..hi : Plays(lo, b, h, p, g)

(* The invariant of the player: with what RingInv says there is of groups,   *)
(* the one it plays is among them.                                           *)
PlayerInv ==
  /\ IsPlayer(player)
  /\ \E lo, hi, b, t : Filled(lo, hi, b, t) /\ Playing(lo, hi, b, head, player)

(* Addresses in a group: the words of it are at different ones, and those  *)
(* up to the end of the ring follow each other.                            *)
LEMMA Addresses ==
  ASSUME NEW a \in Addr, NEW s \in Nat, Header + s < Cache
  PROVE  /\ \A u \in 0..s : Wrap(a + Header + u) \in Addr
         /\ \A u, v \in 0..s : Wrap(a + Header + u) = Wrap(a + Header + v) => u = v
         /\ \A u, j \in Nat : u + j <= s /\ Wrap(a + Header + u) + j < Cache
               => Wrap(a + Header + (u + j)) = Wrap(a + Header + u) + j
         /\ \A u, j \in Nat : u + j <= s /\ Wrap(a + Header + u) + j = Cache
               => Wrap(a + Header + (u + j)) = 0
  BY CacheFacts DEF Addr, Wrap, Header

(* The size of a chunk of a group of which r words are left: it lies in the *)
(* group and does not go over the end of the ring.                         *)
Fits(pos, r, size) == size \in Nat /\ size <= r /\ pos + size <= Cache

(* So it is in the last group, whose end is the tail of the ring.            *)
LEMMA OpenChunk ==
  ASSUME NEW pos \in Addr, NEW r \in Nat, r < Cache, tail \in Addr, Wrap(pos + r) = tail
  PROVE  Fits(pos, r, ChunkSize(pos, None))
<1>1. Chunk \in Nat \ {0}
  BY OutputAssumption
<1> QED
  BY <1>1, CacheFacts DEF Fits, ChunkSize, None, Addr, Wrap

(* And so it is in a group that ends where the next one begins.              *)
LEMMA ClosedChunk ==
  ASSUME NEW pos \in Addr, NEW r \in Nat, r < Cache, NEW end \in 1..Cache,
         Wrap(pos + r) = Wrap(end), ~(end = Cache /\ pos = 0)
  PROVE  Fits(pos, r, ChunkSize(pos, end))
<1>1. Chunk \in Nat \ {0}
  BY OutputAssumption
<1>2. end # None /\ end \in Nat /\ end <= Cache /\ end >= 1
  BY CacheFacts DEF None
<1>3. pos + r = end \/ pos + r = end + Cache
  BY <1>2, CacheFacts DEF Addr, Wrap
<1>4. ChunkSize(pos, end) = IF end - pos > Chunk THEN Chunk ELSE IF end >= pos THEN end - pos ELSE Cache - pos
  BY <1>2 DEF ChunkSize
<1> QED
  BY <1>1, <1>2, <1>3, <1>4, CacheFacts DEF Fits, Addr

(* What the addresses and words of a group are.                            *)
Lies(a, next, n) == a \in Addr /\ n \in Nat /\ Header + n < Cache /\ next = Wrap(a + Header + n)

(* Each group of the ring lies so, and the last one up to the tail.          *)
LEMMA GroupLies ==
  ASSUME NEW lo, NEW hi, NEW b, NEW t, Filled(lo, hi, b, t), NEW g \in lo..hi
  PROVE  /\ b[g] \in Nat /\ b[g + 1] \in Nat /\ b[g] <= b[g + 1]
         /\ Lies(Place(lo, b, head, g), Place(lo, b, head, g + 1), b[g + 1] - b[g])
         /\ Filling(Place(lo, b, head, g), g, b)
         /\ GopSize(Place(lo, b, head, g)) = IF g = hi THEN 0 ELSE b[g + 1] - b[g]
         /\ Place(lo, b, head, g) = last <=> g = hi
         /\ last \in Addr /\ tail = Place(lo, b, head, hi + 1) /\ tail \in Addr
<1>1. /\ Ring(lo, hi, b, t, head, mem) /\ Bounds(lo, hi, b) /\ head \in Addr
      /\ last = Place(lo, b, head, hi) /\ tail = Place(lo, b, head, hi + 1)
  BY DEF Filled, Ring
<1>2. Within(lo, hi, b, g)
  BY <1>1, Between
<1>3. hi \in lo..hi
  BY <1>2 DEF Within
<1>4. /\ Place(lo, b, head, g) \in Addr /\ tail \in Addr /\ last \in Addr
      /\ Filling(Place(lo, b, head, g), g, b)
      /\ GopSize(Place(lo, b, head, g)) = IF g = hi THEN 0 ELSE b[g + 1] - b[g]
  <2>1. g < hi \/ g = hi
    BY <1>2 DEF Within
  <2> QED
    BY <1>1, <1>3, <2>1, GroupAt
<1>5. Place(lo, b, head, g) = last <=> g = hi
  BY <1>1, <1>3, Apart
<1>6. Place(lo, b, head, g + 1) = Wrap(Place(lo, b, head, g) + Header + (b[g + 1] - b[g]))
  <2>1. PICK D \in Nat, e \in Nat : /\ D = Pos(b, g) - Pos(b, lo) /\ e = Header + (b[g + 1] - b[g])
                                    /\ D + e = Pos(b, g + 1) - Pos(b, lo) /\ D < Cache /\ D + e <= Cache
    <3>1. /\ Pos(b, g) - Pos(b, lo) \in Nat /\ Header + (b[g + 1] - b[g]) \in Nat
          /\ (Pos(b, g) - Pos(b, lo)) + (Header + (b[g + 1] - b[g])) = Pos(b, g + 1) - Pos(b, lo)
          /\ Pos(b, g) - Pos(b, lo) < Cache /\ Pos(b, g + 1) - Pos(b, lo) <= Cache
      BY <1>2 DEF Within
    <3> QED
      BY <3>1
  <2>2. Wrap(At(head, D) + e) = At(head, D + e)
    BY <1>1, <2>1, AtAdds
  <2>3. Place(lo, b, head, g) = At(head, D) /\ Place(lo, b, head, g + 1) = At(head, D + e)
    BY <2>1 DEF Place
  <2>4. At(head, D) + e = At(head, D) + Header + (b[g + 1] - b[g])
    BY <1>2, <1>4, <2>1, <2>3 DEF Addr, Within
  <2> QED
    BY <2>2, <2>3, <2>4
<1>7. Header + (b[g + 1] - b[g]) < Cache /\ b[g + 1] - b[g] \in Nat
  BY <1>2 DEF Within
<1> QED
  BY <1>1, <1>2, <1>4, <1>5, <1>6, <1>7 DEF Lies, Within

(* What a request and its second look at the last group give.              *)
LEMMA RequestStep ==
  ASSUME NEW lo, NEW hi, NEW b, NEW t, Filled(lo, hi, b, t), IsPlayer(player), Request
  PROVE  IsPlayer(player') /\ Playing(lo, hi, b, head, player')
<1>1. player' = [Off EXCEPT !.at = "begin", !.rap = last, !.age = age]
  BY DEF Request
<1>2. /\ player'.at = "begin" /\ player'.rap = last /\ player'.chunk = 0 /\ player'.sent = 0
      /\ player'.heard = 0 /\ player'.inOrder = TRUE /\ player'.excused = FALSE
  BY <1>1 DEF Off
<1>3. IsPlayer(player')
  BY <1>1 DEF IsPlayer, Off, Fields
<1>4. hi \in lo..hi /\ last = Place(lo, b, head, hi)
  BY DEF Filled, Ring, Bounds
<1>5. Plays(lo, b, head, player', hi)
  BY <1>2, <1>4 DEF Plays
<1> QED
  BY <1>3, <1>4, <1>5 DEF Playing

(* Begin: the first position behind the header is word 0 of the group, unless *)
(* it is excused.                                                             *)
LEMMA BeginStep ==
  ASSUME NEW lo, NEW hi, NEW b, NEW t, Filled(lo, hi, b, t), IsPlayer(player),
         Playing(lo, hi, b, head, player), Begin
  PROVE  IsPlayer(player') /\ Playing(lo, hi, b, head, player')
<1> DEFINE behind == player.excused \/ last # player.rap \/ last + Header > Cache
<1>1. player' = [player EXCEPT !.at = "wait", !.pos = last + Header, !.excused = behind] /\ player.at = "begin"
  BY DEF Begin
<1>2. behind \in BOOLEAN
  OBVIOUS
<1> HIDE DEF behind
<1>3. IsPlayer(player')
  BY <1>1, <1>2 DEF IsPlayer, Fields
<1>4. /\ player'.at = "wait" /\ player'.pos = last + Header /\ player'.excused = behind
      /\ player'.rap = player.rap /\ player'.chunk = player.chunk /\ player'.sent = player.sent
      /\ player'.heard = player.heard /\ player'.inOrder = player.inOrder
  BY <1>1, <1>2 DEF IsPlayer, Fields
<1>5. ASSUME ~behind PROVE \E g \in lo..hi : Plays(lo, b, head, player', g)
  <2>1. ~player.excused /\ last = player.rap /\ last + Header <= Cache
    <3>1. last \in Addr
      <4>1. hi \in lo..hi
        BY DEF Filled, Ring, Bounds
      <4> QED
        BY <4>1, GroupLies
    <3>2. ~player.excused /\ last = player.rap /\ ~(last + Header > Cache)
      BY <1>5 DEF behind
    <3> QED
      BY <3>1, <3>2, CacheFacts DEF Addr, Header
  <2>2. player # Off
    BY <1>1 DEF Off
  <2>3. PICK g \in lo..hi : Plays(lo, b, head, player, g)
    BY <2>1, <2>2 DEF Playing
  <2>4. /\ player.rap = Place(lo, b, head, g) /\ player.inOrder = TRUE
        /\ player.chunk = 0 /\ player.sent = 0 /\ player.heard = 0
    BY <1>1, <2>3 DEF Plays
  <2>5. /\ b[g] \in Nat /\ b[g + 1] \in Nat /\ b[g] <= b[g + 1] /\ last \in Addr
    BY GroupLies
  <2>6. InGroup(b, g, player', b[g])
    <3>1. Wrap(player'.rap + Header + (b[g] - b[g])) = Wrap(last + Header)
      BY <1>4, <2>1, <2>5 DEF Addr, Header
    <3>2. Wrap(last + Header) = last + Header \/ (last + Header = Cache /\ Wrap(last + Header) = 0)
      BY <2>1, <2>5, CacheFacts DEF Addr, Header, Wrap
    <3> QED
      BY <1>4, <2>1, <2>4, <2>5, <3>1, <3>2, CacheFacts DEF InGroup, Addr, Header
  <2>7. Plays(lo, b, head, player', g)
    BY <1>4, <2>4, <2>6 DEF Plays
  <2> QED
    BY <2>7
<1> QED
  BY <1>2, <1>3, <1>4, <1>5 DEF Playing

(* A part of the chunk is sent: words of the group that follow the last one *)
(* heard.                                                                  *)
LEMMA SendStep ==
  ASSUME NEW lo, NEW hi, NEW b, NEW t, Filled(lo, hi, b, t), IsPlayer(player),
         Playing(lo, hi, b, head, player), SendData
  PROVE  IsPlayer(player') /\ Playing(lo, hi, b, head, player')
<1> DEFINE at(i) == player.pos + player.sent + i - 1
           word(i) == IF at(i) \in Addr THEN mem[at(i)] ELSE <<"other", 0>>
           first == IF player.heard = 0 THEN word(1)[2] ELSE player.heard + 1
           good(n) == player.inOrder /\ \A i \in 1..n : word(i) = <<"data", first + i - 1>>
           hears(n) == IF good(n) THEN first + n - 1 ELSE 0
<1>1. PICK n \in 1..(player.chunk - player.sent) :
        player' = [player EXCEPT !.at = "wait", !.sent = @ + n, !.inOrder = good(n), !.heard = hears(n)]
  BY DEF SendData
<1>2. player.at = "send"
  BY DEF SendData
<1>3. good(n) \in BOOLEAN
  OBVIOUS
<1> DEFINE ok == good(n)
           heard == hears(n)
<1> HIDE DEF ok, heard
<1>4. player' = [player EXCEPT !.at = "wait", !.sent = @ + n, !.inOrder = ok, !.heard = heard]
  BY <1>1 DEF ok, heard
<1>5. IsPlayer(player')
  BY <1>4 DEF IsPlayer, Fields
<1>6. /\ player'.at = "wait" /\ player'.sent = player.sent + n /\ player'.inOrder = ok /\ player'.heard = heard
      /\ player'.rap = player.rap /\ player'.chunk = player.chunk /\ player'.pos = player.pos
      /\ player'.excused = player.excused
  BY <1>4 DEF IsPlayer, Fields
<1>7. ASSUME ~player.excused PROVE \E g \in lo..hi : Plays(lo, b, head, player', g)
  <2>1. player # Off
    BY <1>2 DEF Off
  <2>2. PICK g \in lo..hi : Plays(lo, b, head, player, g)
    BY <1>7, <2>1 DEF Playing
  <2>3. PICK k : InGroup(b, g, player, k)
    BY <1>2, <2>2 DEF Plays
  <2> DEFINE a == player.rap
             s == b[g + 1] - b[g]
             p == player.pos
             c == player.chunk
             r == player.sent
  <2>4. /\ b[g] \in Nat /\ b[g + 1] \in Nat /\ a \in Addr /\ s \in Nat /\ Header + s < Cache
        /\ \A j \in b[g]..(b[g + 1] - 1) : mem[Wrap(a + Header + (j - b[g]))] = <<"data", j>>
    <3>1. a = Place(lo, b, head, g)
      BY <2>2 DEF Plays
    <3> HIDE DEF a
    <3>2. /\ b[g] \in Nat /\ b[g + 1] \in Nat /\ Lies(a, Place(lo, b, head, g + 1), s)
          /\ Filling(a, g, b)
      BY <3>1, GroupLies
    <3> HIDE DEF s
    <3> QED
      BY <3>2 DEF Lies, Filling
  <2>5. /\ k \in Nat /\ b[g] <= k /\ p \in Nat /\ c \in Nat /\ r \in Nat /\ r < c
        /\ p = Wrap(a + Header + (k - b[g])) /\ k + c <= b[g + 1] /\ p + c <= Cache
        /\ player.heard # 0 => player.heard = k + r - 1
    BY <1>2, <2>3 DEF InGroup
  <2>6. n \in Nat /\ n >= 1 /\ r + n <= c
    BY <2>5
  <2> HIDE DEF a, s, p, c, r
  <2>7. ASSUME NEW i \in 1..n PROVE word(i) = <<"data", k + r + i - 1>>
    <3>1. PICK j \in Nat : j = r + i - 1 /\ j < c
      BY <2>5, <2>6
    <3>2. k - b[g] \in Nat /\ (k - b[g]) + j <= s /\ p + j < Cache
      <4>1. PICK x \in Nat, y \in Nat : x = b[g] /\ y = b[g + 1]
        BY <2>4
      <4>2. s = y - x /\ x <= k /\ k + c <= y
        BY <2>5, <4>1 DEF s
      <4>3. k - x \in Nat /\ (k - x) + j <= s /\ p + j < Cache
        BY <2>5, <3>1, <4>2, CacheFacts
      <4> QED
        BY <4>1, <4>3
    <3>3. Wrap(a + Header + ((k - b[g]) + j)) = p + j
      <4>1. PICK u \in Nat : u = k - b[g]
        BY <3>2
      <4>2. u + j <= s /\ Wrap(a + Header + u) + j < Cache
        BY <2>5, <3>2, <4>1
      <4>3. Wrap(a + Header + (u + j)) = Wrap(a + Header + u) + j
        BY <2>4, <3>1, <4>2, Addresses
      <4> QED
        BY <2>5, <4>1, <4>3
    <3>4. (k - b[g]) + j = (k + j) - b[g] /\ k + j \in b[g]..(b[g + 1] - 1)
      BY <2>4, <2>5, <3>1
    <3>5. mem[p + j] = <<"data", k + j>>
      BY <2>4, <3>3, <3>4
    <3>6. p + j \in Addr /\ at(i) = p + j
      <4>1. at(i) = p + r + i - 1
        BY DEF p, r
      <4> HIDE DEF at
      <4> QED
        BY <2>5, <3>1, <3>2, <4>1, CacheFacts DEF Addr
    <3>7. word(i) = <<"data", k + j>>
      BY <3>5, <3>6
    <3> QED
      BY <2>5, <3>1, <3>7
  <2>8. first = k + r
    <3>1. 1 \in 1..n /\ k + r + 1 - 1 = k + r
      BY <2>5, <2>6
    <3>2. word(1) = <<"data", k + r>>
      BY <2>7, <3>1
    <3>3. player.heard # 0 => player.heard + 1 = k + r
      BY <2>5
    <3> HIDE DEF word
    <3> QED
      BY <3>2, <3>3
  <2>9. ok = TRUE
    <3>1. player.inOrder = TRUE
      BY <2>2 DEF Plays
    <3>2. \A i \in 1..n : word(i) = <<"data", first + i - 1>>
      BY <2>7, <2>8
    <3> HIDE DEF word, first
    <3> QED
      BY <3>1, <3>2 DEF ok
  <2>10. heard = k + (r + n) - 1
    BY <2>5, <2>6, <2>8, <2>9 DEF heard, ok
  <2>11. InGroup(b, g, player', k)
    BY <1>6, <2>3, <2>5, <2>6, <2>10 DEF InGroup, a, p, c, r
  <2> QED
    BY <1>6, <2>2, <2>9, <2>11 DEF Plays
<1> QED
  BY <1>5, <1>6, <1>7 DEF Playing

(* What the end of a group is for get_current_gop_end: None for the last   *)
(* and for one of nothing, otherwise where the next one begins, but that   *)
(* may be the end of the ring.                                             *)
Ended(a, next, size) ==
  IF size = 0 THEN GopEnd(a) = None ELSE GopEnd(a) \in 1..Cache /\ next = Wrap(GopEnd(a))

(* So it is, whatever the group.                                             *)
LEMMA EndIs ==
  ASSUME NEW a, NEW next, NEW n, Lies(a, next, n), NEW size, size = 0 \/ size = n, GopSize(a) = size
  PROVE  Ended(a, next, size)
<1>1. CASE size = 0
  BY <1>1 DEF GopEnd, Ended
<1>2. CASE size # 0
  BY <1>2, CacheFacts DEF GopEnd, Ended, Lies, Addr, Wrap, Header
<1> QED
  BY <1>1, <1>2

(* The next chunk of a group of which the words up to k are sent: pos is   *)
(* their end, and the player is not past the group.                        *)
LEMMA SizeFits ==
  ASSUME NEW lo, NEW hi, NEW b, NEW t, Filled(lo, hi, b, t), NEW g \in lo..hi,
         NEW k \in Nat, b[g] <= k, k <= b[g + 1], NEW a, a = Place(lo, b, head, g),
         NEW pos, pos = Wrap(a + Header + (k - b[g])),
         ~(GopEnd(a) = Cache /\ pos = 0), ~(a # last /\ GopSize(a) = 0)
  PROVE  Fits(pos, b[g + 1] - k, ChunkSize(pos, GopEnd(a)))
<1> DEFINE next == Place(lo, b, head, g + 1)
           n == b[g + 1] - b[g]
<1>1. /\ b[g] \in Nat /\ b[g + 1] \in Nat /\ Lies(a, next, n)
      /\ GopSize(a) = (IF g = hi THEN 0 ELSE n) /\ (a = last <=> g = hi)
      /\ tail = Place(lo, b, head, hi + 1) /\ tail \in Addr
  BY GroupLies
<1>2. PICK u \in Nat, r \in Nat : u = k - b[g] /\ r = b[g + 1] - k /\ u + r = n
  BY <1>1
<1> HIDE DEF n, next
<1>3. a \in Addr /\ n \in Nat /\ Header + n < Cache /\ next = Wrap(a + Header + n)
  BY <1>1 DEF Lies
<1>4. pos \in Addr /\ r < Cache /\ Wrap(pos + r) = next
  <2>1. pos = Wrap(a + Header + u) /\ u \in 0..n
    BY <1>2, <1>3
  <2>2. pos \in Addr
    BY <1>3, <2>1, Addresses
  <2> QED
    BY <1>2, <1>3, <2>1, <2>2, CacheFacts DEF Addr, Wrap, Header
<1>5. CASE g = hi
  <2>1. GopEnd(a) = None
    BY <1>1, <1>5 DEF GopEnd
  <2>2. Wrap(pos + r) = tail
    BY <1>1, <1>4, <1>5 DEF next
  <2> QED
    BY <1>1, <1>2, <1>4, <2>1, <2>2, OpenChunk
<1>6. CASE g # hi
  <2>1. GopSize(a) = n /\ n # 0
    BY <1>1, <1>6
  <2>2. Ended(a, next, n)
    BY <1>1, <2>1, EndIs
  <2>3. GopEnd(a) \in 1..Cache /\ next = Wrap(GopEnd(a))
    BY <2>1, <2>2 DEF Ended
  <2> QED
    BY <1>2, <1>4, <2>3, ClosedChunk
<1> QED
  BY <1>5, <1>6

(* A position in a group that is the end of the group is that of the next  *)
(* one, and all words of the group are sent.                               *)
LEMMA OverIs ==
  ASSUME NEW lo, NEW hi, NEW b, NEW t, Filled(lo, hi, b, t), NEW g \in lo..hi,
         NEW k \in Nat, b[g] <= k, k <= b[g + 1], NEW a, a = Place(lo, b, head, g),
         NEW pos, pos = Wrap(a + Header + (k - b[g])), pos = GopEnd(a)
  PROVE  g + 1 \in lo..hi /\ pos = Place(lo, b, head, g + 1) /\ k = b[g + 1]
<1> DEFINE next == Place(lo, b, head, g + 1)
           n == b[g + 1] - b[g]
<1>1. /\ b[g] \in Nat /\ b[g + 1] \in Nat /\ Lies(a, next, n)
      /\ GopSize(a) = (IF g = hi THEN 0 ELSE n)
  BY GroupLies
<1>2. PICK u \in Nat : u = k - b[g] /\ u <= n
  BY <1>1
<1> HIDE DEF n, next
<1>3. a \in Addr /\ n \in Nat /\ Header + n < Cache /\ next = Wrap(a + Header + n)
  BY <1>1 DEF Lies
<1>4. pos \in Addr /\ pos = Wrap(a + Header + u) /\ u \in 0..n /\ n \in 0..n
  <2>1. pos = Wrap(a + Header + u) /\ u \in 0..n /\ n \in 0..n
    BY <1>2, <1>3
  <2> QED
    BY <1>3, <2>1, Addresses
<1>5. GopEnd(a) # None
  BY <1>4, CacheFacts DEF None, Addr
<1>6. g # hi /\ n # 0
  BY <1>1, <1>5 DEF GopEnd
<1>7. GopEnd(a) \in 1..Cache /\ next = Wrap(GopEnd(a))
  <2>1. Ended(a, next, n)
    BY <1>1, <1>6, EndIs
  <2> QED
    BY <1>6, <2>1 DEF Ended
<1>8. pos = next
  <2>1. Wrap(pos) = pos
    BY <1>4, CacheFacts DEF Addr, Wrap
  <2> QED
    BY <1>7, <2>1
<1>9. u = n
  BY <1>3, <1>4, <1>8, Addresses
<1>10. k = b[g + 1]
  BY <1>1, <1>2, <1>9 DEF n
<1>11. g + 1 \in lo..hi
  <2>1. lo \in Nat /\ hi \in Nat
    BY DEF Filled, Ring, Bounds
  <2> QED
    BY <1>6, <2>1
<1> QED
  BY <1>8, <1>10, <1>11 DEF next

(* send_chunk finds the next chunk in the group, or in the next one.       *)
LEMMA ChunkStep ==
  ASSUME NEW lo, NEW hi, NEW b, NEW t, Filled(lo, hi, b, t), IsPlayer(player),
         Playing(lo, hi, b, head, player), NextChunk
  PROVE  IsPlayer(player') /\ Playing(lo, hi, b, head, player')
<1> DEFINE done == player.sent = player.chunk
           moved == player.pos + player.chunk
           pos == IF ~done THEN player.pos ELSE IF moved = Cache THEN 0 ELSE moved
           over == pos = GopEnd(player.rap)
           rap == IF over THEN pos ELSE player.rap
           from == IF over THEN Wrap(pos + Header) ELSE pos
           size == IF done THEN ChunkSize(from, GopEnd(rap)) ELSE player.chunk
           at == IF size = 0 THEN "wait" ELSE "send"
           sent == IF done THEN 0 ELSE player.sent
           excused == \/ player.excused
                      \/ (GopEnd(rap) = Cache /\ from = 0)
                      \/ (rap # last /\ GopSize(rap) = 0)
<1>1. /\ player' = [player EXCEPT !.at = at, !.rap = rap, !.pos = from, !.chunk = size,
                                  !.sent = sent, !.excused = excused]
      /\ player.at = "wait"
  BY DEF NextChunk
<1>2. excused \in BOOLEAN
  OBVIOUS
<1> HIDE DEF at, rap, from, size, sent, excused
<1>3. IsPlayer(player')
  BY <1>1, <1>2 DEF IsPlayer, Fields
<1>4. /\ player'.at = at /\ player'.rap = rap /\ player'.pos = from /\ player'.chunk = size
      /\ player'.sent = sent /\ player'.excused = excused
      /\ player'.heard = player.heard /\ player'.inOrder = player.inOrder
  BY <1>1, <1>2 DEF IsPlayer, Fields
<1>5. ASSUME ~excused PROVE \E g \in lo..hi : Plays(lo, b, head, player', g)
  <2>1. ~player.excused /\ ~(GopEnd(rap) = Cache /\ from = 0) /\ ~(rap # last /\ GopSize(rap) = 0)
    BY <1>5 DEF excused
  <2>2. player # Off
    BY <1>1 DEF Off
  <2>3. PICK g \in lo..hi : Plays(lo, b, head, player, g)
    BY <2>1, <2>2 DEF Playing
  <2>4. PICK k : InGroup(b, g, player, k)
    BY <1>1, <2>3 DEF Plays
  <2>5. /\ b[g] \in Nat /\ b[g + 1] \in Nat /\ player.rap \in Addr /\ player.rap = Place(lo, b, head, g)
        /\ Lies(player.rap, Place(lo, b, head, g + 1), b[g + 1] - b[g])
    BY <2>3, GroupLies DEF Plays, Lies
  <2> DEFINE c == player.chunk
             r == player.sent
             p == player.pos
             a == player.rap
             n == b[g + 1] - b[g]
  <2>6. /\ k \in Nat /\ b[g] <= k /\ p \in Nat /\ c \in Nat /\ r \in Nat /\ r <= c
        /\ p = Wrap(a + Header + (k - b[g])) \/ (p = Cache /\ Wrap(a + Header + (k - b[g])) = 0 /\ c = 0)
        /\ k + c <= b[g + 1] /\ p + c <= Cache
        /\ player.heard # 0 => player.heard = k + r - 1
    BY <2>4 DEF InGroup
  <2>7. PICK u \in Nat : u = k - b[g] /\ u + c <= n
    BY <2>5, <2>6
  <2>8. n \in Nat /\ Header + n < Cache /\ a \in Addr
    BY <2>5 DEF Lies
  <2> HIDE DEF c, r, p, a, n
  <2> DEFINE K == IF done THEN k + c ELSE k
  <2>9. K \in Nat /\ b[g] <= K /\ K <= b[g + 1] /\ K - b[g] = IF done THEN u + c ELSE u
    BY <2>5, <2>6, <2>7
  <2>10. pos = Wrap(a + Header + (K - b[g]))
    <3>1. CASE ~done
      <4>1. c # 0 /\ pos = p /\ K = k
        BY <2>6, <3>1 DEF p, c, r
      <4> QED
        BY <2>6, <4>1
    <3>2. CASE done
      <4>1. pos = (IF p + c = Cache THEN 0 ELSE p + c) /\ K = k + c /\ K - b[g] = u + c
        BY <2>9, <3>2 DEF p, c
      <4>2. CASE p = Cache
        <5>1. c = 0 /\ p + c = Cache /\ Wrap(a + Header + u) = 0
          BY <2>6, <2>7, <2>8, <4>2, CacheFacts DEF Addr, Wrap, Header
        <5> QED
          BY <2>7, <4>1, <5>1
      <4>3. CASE p # Cache
        <5>1. p = Wrap(a + Header + u)
          BY <2>6, <2>7, <4>3
        <5>2. p + c < Cache => Wrap(a + Header + (u + c)) = p + c
          BY <2>6, <2>7, <2>8, <5>1, Addresses
        <5>3. p + c = Cache => Wrap(a + Header + (u + c)) = 0
          BY <2>6, <2>7, <2>8, <5>1, Addresses
        <5> QED
          BY <2>6, <4>1, <5>2, <5>3, CacheFacts
      <4> QED
        BY <4>2, <4>3
    <3> QED
      BY <3>1, <3>2
  <2> HIDE DEF K, pos
  <2>11. CASE ~over
    <3>1. rap = a /\ from = pos
      BY <2>11 DEF rap, from, a
    <3>2. Fits(pos, b[g + 1] - K, ChunkSize(pos, GopEnd(a)))
      BY <2>1, <2>5, <2>9, <2>10, <3>1, SizeFits DEF a
    <3>3. /\ size \in Nat /\ K + size <= b[g + 1] /\ from + size <= Cache
          /\ sent \in Nat /\ sent <= size /\ (at = "send" => sent < size)
          /\ player.heard # 0 => player.heard = K + sent - 1
      <4>1. CASE done
        BY <2>5, <2>6, <2>9, <3>1, <3>2, <4>1 DEF Fits, size, sent, at, K, c, r
      <4>2. CASE ~done
        <5>1. size = c /\ sent = r /\ K = k /\ from = p
          BY <3>1, <4>2 DEF size, sent, K, c, r, p, pos
        <5> QED
          BY <2>6, <4>2, <5>1 DEF c, r
      <4> QED
        BY <4>1, <4>2
    <3>4. from \in Nat /\ from = Wrap(a + Header + (K - b[g]))
      <4>1. K - b[g] \in 0..n
        BY <2>5, <2>9 DEF n
      <4>2. Wrap(a + Header + (K - b[g])) \in Addr
        BY <2>8, <4>1, Addresses
      <4> QED
        BY <2>10, <3>1, <4>2 DEF Addr
    <3>5. InGroup(b, g, player', K)
      BY <1>4, <2>9, <3>1, <3>3, <3>4 DEF InGroup
    <3>6. Plays(lo, b, head, player', g)
      BY <1>4, <2>3, <3>1, <3>5 DEF Plays, at, a
    <3> QED
      BY <3>6
  <2>12. CASE over
    <3>1. g + 1 \in lo..hi /\ pos = Place(lo, b, head, g + 1) /\ K = b[g + 1]
      <4>1. pos = GopEnd(a)
        BY <2>12 DEF a
      <4> QED
        BY <2>5, <2>9, <2>10, <4>1, OverIs DEF a
    <3>2. done
      <4>1. ASSUME ~done PROVE FALSE
        <5>1. c # 0 /\ K = k
          BY <2>6, <4>1 DEF K, c, r
        <5> QED
          BY <2>5, <2>6, <3>1, <5>1
      <4> QED
        BY <4>1
    <3>3. rap = pos /\ from = Wrap(pos + Header)
      BY <2>12 DEF rap, from
    <3>4. /\ b[g + 1 + 1] \in Nat /\ b[g + 1] <= b[g + 1 + 1]
          /\ Lies(pos, Place(lo, b, head, g + 1 + 1), b[g + 1 + 1] - b[g + 1])
      BY <3>1, GroupLies
    <3>5. from \in Addr /\ from = Wrap(pos + Header + (K - b[g + 1]))
      <4>1. K - b[g + 1] = 0 /\ pos \in Addr /\ pos + Header + 0 = pos + Header
        BY <2>5, <3>1, <3>4 DEF Lies, Addr, Header
      <4>2. Wrap(pos + Header) \in Addr
        BY <4>1, CacheFacts DEF Addr, Wrap, Header
      <4> QED
        BY <3>3, <4>1, <4>2
    <3>6. Fits(from, b[g + 1 + 1] - K, ChunkSize(from, GopEnd(rap)))
      <4>1. b[g + 1] <= K /\ K <= b[g + 1 + 1]
        BY <2>5, <3>1, <3>4
      <4> QED
        BY <2>1, <2>9, <3>1, <3>3, <3>5, <4>1, SizeFits
    <3>7. /\ size \in Nat /\ K + size <= b[g + 1 + 1] /\ from + size <= Cache
          /\ sent = 0 /\ (at = "send" => sent < size)
      BY <2>9, <3>2, <3>4, <3>6 DEF Fits, size, sent, at
    <3>8. player.heard # 0 => player.heard = K + sent - 1
      <4>1. K = k + c /\ r = c
        BY <3>2 DEF K, c, r
      <4> QED
        BY <2>6, <3>7, <4>1
    <3>9. InGroup(b, g + 1, player', K)
      BY <1>4, <2>5, <2>9, <3>1, <3>3, <3>5, <3>7, <3>8 DEF InGroup, Addr
    <3>10. Plays(lo, b, head, player', g + 1)
      BY <1>4, <2>3, <3>1, <3>3, <3>9 DEF Plays, at
    <3> QED
      BY <3>1, <3>10
  <2> QED
    BY <2>11, <2>12
<1> QED
  BY <1>2, <1>3, <1>4, <1>5 DEF Playing

(* Groups given up: the places of the others are counted from the new head, *)
(* and a player that is not excused plays one of these.                    *)
LEMMA LeftBehind ==
  ASSUME NEW lo, NEW hi, NEW b, NEW t, Filled(lo, hi, b, t), IsPlayer(player),
         Playing(lo, hi, b, head, player), NEW size \in Nat, MoveHead(size),
         NEW d \in lo..hi, Fewest(lo, hi, b, d, size)
  PROVE  IsPlayer(player') /\ Playing(d, hi, b, head', player')
<1>1. /\ Ring(lo, hi, b, t, head, mem) /\ Bounds(lo, hi, b) /\ tail = Place(lo, b, head, hi + 1)
      /\ last = Place(lo, b, head, hi) /\ lo \in Nat /\ hi \in Nat /\ lo <= hi
  BY DEF Filled, Ring, Bounds
<1>2. /\ DOMAIN Chain = 1..(hi - lo + 1)
      /\ \A k \in 1..(hi - lo + 1) : Chain[k] = Place(lo, b, head, lo + k - 1)
  BY <1>1, ChainIs DEF Line
<1> DEFINE enough == {k \in DOMAIN Chain : CacheFree(Chain[k], tail) > size + Header}
<1>3. PICK i \in enough :
        /\ \A j \in enough : i <= j
        /\ head' = Chain[i]
        /\ player' = IF player.at # "off" /\ \E j \in 1..(i - 1) : Chain[j] = player.rap
                     THEN [player EXCEPT !.excused = TRUE] ELSE player
  BY DEF MoveHead
<1>4. \A k \in lo..hi : (CacheFree(Place(lo, b, head, k), tail) > size + Header) = Room(b, hi, k, size)
  BY <1>1, GroupAt DEF Room
<1>5. i \in 1..(hi - lo + 1) /\ \A k \in 1..(hi - lo + 1) : k \in enough <=> Room(b, hi, lo + k - 1, size)
  <2>1. \A k \in 1..(hi - lo + 1) : lo + k - 1 \in lo..hi
    BY <1>1
  <2>2. \A k \in 1..(hi - lo + 1) : k \in enough <=> Room(b, hi, lo + k - 1, size)
    BY <1>2, <1>4, <2>1
  <2> QED
    BY <1>2, <1>3, <2>2
<1> HIDE DEF enough
<1>6. i = d - lo + 1
  <2>1. PICK k \in 1..(hi - lo + 1) : k = d - lo + 1 /\ lo + k - 1 = d
    BY <1>1
  <2>2. k \in enough
    BY <1>5, <2>1 DEF Fewest
  <2>3. i <= k
    BY <1>3, <2>2
  <2>4. Room(b, hi, lo + i - 1, size)
    BY <1>3, <1>5
  <2>5. ~(lo + i - 1 \in lo..(d - 1))
    BY <2>4 DEF Fewest
  <2> QED
    BY <1>1, <1>5, <2>1, <2>3, <2>5
<1>7. head' = Place(lo, b, head, d)
  BY <1>1, <1>2, <1>3, <1>5, <1>6
<1>8. \A k \in d..(hi + 1) : Place(d, b, head', k) = Place(lo, b, head, k)
  BY <1>1, <1>7, Dropped
<1>9. IsPlayer(player')
  BY <1>3 DEF IsPlayer, Fields
<1>10. CASE player.at # "off" /\ \E j \in 1..(i - 1) : Chain[j] = player.rap
  <2>1. player'.excused = TRUE
    BY <1>3, <1>10 DEF IsPlayer, Fields
  <2> QED
    BY <1>9, <2>1 DEF Playing
<1>11. CASE ~(player.at # "off" /\ \E j \in 1..(i - 1) : Chain[j] = player.rap)
  <2>1. player' = player
    BY <1>3, <1>11
  <2>2. ASSUME NEW g \in lo..hi, Plays(lo, b, head, player, g)
        PROVE  g \in d..hi /\ Plays(d, b, head', player, g)
    <3>1. player.at # "off" /\ player.rap = Place(lo, b, head, g)
      BY <2>2 DEF Plays
    <3>2. g \in d..hi
      <4>1. ASSUME g < d PROVE FALSE
        <5>1. PICK j \in 1..(i - 1) : j = g - lo + 1 /\ lo + j - 1 = g /\ j \in 1..(hi - lo + 1)
          BY <1>1, <1>5, <1>6, <4>1
        <5>2. Chain[j] = player.rap
          BY <1>2, <3>1, <5>1
        <5> QED
          BY <1>11, <3>1, <5>2
      <4> QED
        BY <1>1, <4>1
    <3>3. g \in d..(hi + 1)
      BY <1>1, <3>2
    <3>4. player.rap = Place(d, b, head', g)
      BY <1>8, <3>1, <3>3
    <3> QED
      BY <2>2, <3>2, <3>4 DEF Plays
  <2> QED
    BY <1>9, <2>1, <2>2 DEF Playing
<1> QED
  BY <1>10, <1>11

(* A ring that grows keeps the groups it has where they are, and the words *)
(* of the last may become more.                                            *)
Grows(b, b2, d, hi) ==
  /\ \A i \in d..hi : b2[i] = b[i] /\ b[i + 1] \in Nat /\ b2[i + 1] \in Nat /\ b[i + 1] <= b2[i + 1]

(* A player stays in its group while the ring grows.                         *)
LEMMA StaysIn ==
  ASSUME NEW d, NEW hi, NEW b, NEW b2, Grows(b, b2, d, hi), d \in Nat, hi \in Nat, d <= hi,
         NEW h, NEW p, Playing(d, hi, b, h, p), NEW top \in {hi, hi + 1}
  PROVE  Playing(d, top, b2, h, p)
<1>1. ASSUME NEW g \in d..hi, Plays(d, b, h, p, g)
      PROVE  g \in d..top /\ Plays(d, b2, h, p, g)
  <2>1. b2[g] = b[g] /\ b2[d] = b[d] /\ b[g + 1] \in Nat /\ b2[g + 1] \in Nat /\ b[g + 1] <= b2[g + 1]
    BY DEF Grows
  <2>2. Place(d, b2, h, g) = Place(d, b, h, g)
    BY <2>1 DEF Place, Pos
  <2>3. ASSUME NEW k, InGroup(b, g, p, k) PROVE InGroup(b2, g, p, k)
    BY <2>1, <2>3 DEF InGroup
  <2> QED
    BY <1>1, <2>2, <2>3 DEF Plays
<1> QED
  BY <1>1 DEF Playing

(* The samples of the worker.                                              *)
LEMMA SamplePlayed ==
  ASSUME RingInv, PlayerInv, NEW size \in Nat, Sample(size) \/ KeySample(size)
  PROVE  PlayerInv'
<1>1. PICK lo, hi, b, t : Filled(lo, hi, b, t) /\ Playing(lo, hi, b, head, player)
  BY DEF PlayerInv
<1>2. IsPlayer(player) /\ Numbers /\ MoveHead(size)
  BY DEF PlayerInv, RingInv, Sample, KeySample
<1>3. lo \in Nat /\ hi \in Nat /\ lo <= hi /\ \A i \in lo..hi : b[i] \in Nat /\ b[i + 1] \in Nat
  BY <1>1 DEF Filled, Ring, Bounds
<1>4. CASE Sample(size)
  <2>1. PICK d \in lo..hi : \E b2 :
          Filled(d, hi, b2, t)' /\ Longer(b, b2, hi + 1, size) /\ Fewest(lo, hi, b, d, size)
    BY <1>1, <1>2, <1>4, SampleStep
  <2>2. PICK b2 : Filled(d, hi, b2, t)' /\ Longer(b, b2, hi + 1, size) /\ Fewest(lo, hi, b, d, size)
    BY <2>1
  <2>3. IsPlayer(player') /\ Playing(d, hi, b, head', player')
    BY <1>1, <1>2, <2>2, LeftBehind
  <2>4. Grows(b, b2, d, hi)
    BY <1>3, <2>2 DEF Grows, Longer
  <2>5. Playing(d, hi, b2, head', player')
    BY <1>3, <2>3, <2>4, StaysIn
  <2> QED
    BY <2>2, <2>3, <2>5 DEF PlayerInv
<1>5. CASE KeySample(size)
  <2>1. PICK d \in lo..hi : \E b1, b2, t2 :
           /\ Filled(d, hi + 1, b2, t2)'
           /\ Further(b, t, b1, t2, hi, ts') /\ Longer(b1, b2, hi + 2, size)
           /\ Fewest(lo, hi, b, d, size)
    BY <1>1, <1>2, <1>5, KeyStep
  <2>2. PICK b1, b2, t2 :
           /\ Filled(d, hi + 1, b2, t2)'
           /\ Further(b, t, b1, t2, hi, ts') /\ Longer(b1, b2, hi + 2, size)
           /\ Fewest(lo, hi, b, d, size)
    BY <2>1
  <2>3. IsPlayer(player') /\ Playing(d, hi, b, head', player')
    BY <1>1, <1>2, <2>2, LeftBehind
  <2>4. Grows(b, b2, d, hi)
    <3>1. \A i \in 0..(hi + 1) : b1[i] = b[i] /\ b2[i] = b1[i]
      BY <1>3, <2>2 DEF Further, Longer
    <3>2. \A i \in d..hi : i \in 0..(hi + 1) /\ i + 1 \in 0..(hi + 1) /\ i \in lo..hi
      BY <1>3
    <3> QED
      BY <1>3, <3>1, <3>2 DEF Grows
  <2>5. Playing(d, hi + 1, b2, head', player')
    BY <1>3, <2>3, <2>4, StaysIn
  <2> QED
    BY <2>2, <2>3, <2>5 DEF PlayerInv
<1> QED
  BY <1>4, <1>5

(* Each step leaves the player in order.                                   *)
LEMMA PlayerNext ==
  ASSUME RingInv, PlayerInv, RingInv', [Next]_vars
  PROVE  PlayerInv'
<1>1. PICK lo, hi, b, t : Filled(lo, hi, b, t) /\ Playing(lo, hi, b, head, player)
  BY DEF PlayerInv
<1>2. IsPlayer(player)
  BY DEF PlayerInv
<1>3. ASSUME UNCHANGED cells, IsPlayer(player') /\ Playing(lo, hi, b, head, player')
      PROVE  PlayerInv'
  <2>1. Filled(lo, hi, b, t)' /\ head' = head
    BY <1>1, <1>3 DEF cells, Filled, WasClosed
  <2> QED
    BY <1>3, <2>1 DEF PlayerInv
<1>4. CASE UNCHANGED <<cells, player>>
  BY <1>1, <1>2, <1>3, <1>4
<1>5. CASE ForceKey \/ SendMsg \/ Die \/ JobReset \/ Play \/ UNCHANGED vars
  BY <1>4, <1>5 DEF cells, ForceKey, SendMsg, Die, JobReset, Play, vars, ring, encoder
<1>6. CASE DropMsg \/ Handle \/ WriteSegment
  BY <1>4, <1>6 DEF cells, DropMsg, Handle, WriteSegment, ring, encoder
<1>7. ASSUME NEW size \in 1..MaxSize, Sample(size) \/ KeySample(size) PROVE PlayerInv'
  <2>1. size \in Nat
    BY CacheFacts
  <2> QED
    BY <1>7, <2>1, SamplePlayed
<1>8. CASE OutputInitialize
  <2>1. player' = IF player.at = "off" THEN player ELSE [player EXCEPT !.excused = TRUE]
    BY <1>8 DEF OutputInitialize
  <2>2. IsPlayer(player') /\ (player'.excused \/ player' = Off)
    <3>1. CASE player.at # "off"
      BY <1>2, <2>1, <3>1 DEF IsPlayer, Fields
    <3>2. CASE player.at = "off"
      <4>1. ~ \E g \in lo..hi : Plays(lo, b, head, player, g)
        BY <3>2 DEF Plays
      <4> QED
        BY <1>1, <1>2, <2>1, <3>2, <4>1 DEF Playing
    <3> QED
      BY <3>1, <3>2
  <2>3. PICK lo2, hi2, b2, t2 : Filled(lo2, hi2, b2, t2)'
    BY DEF RingInv
  <2>4. Playing(lo2, hi2, b2, head', player')
    BY <2>2 DEF Playing
  <2> QED
    BY <2>2, <2>3, <2>4 DEF PlayerInv
<1>9. CASE Leave
  <2>1. player' = Off /\ UNCHANGED cells
    BY <1>9 DEF Leave, cells, ring, encoder
  <2>2. IsPlayer(Off)
    BY DEF IsPlayer, Off, Fields
  <2> QED
    BY <1>3, <2>1, <2>2 DEF Playing
<1>10. CASE Request \/ Begin \/ NextChunk \/ SendData
  <2>1. UNCHANGED cells
    BY <1>10 DEF cells, Request, Begin, NextChunk, SendData, ring, encoder
  <2> QED
    BY <1>1, <1>2, <1>3, <1>10, <2>1, RequestStep, BeginStep, ChunkStep, SendStep
<1> QED
  BY <1>5, <1>6, <1>7, <1>8, <1>9, <1>10 DEF Next

(* A progressive player, which follows the ring with two addresses of its  *)
(* own and sends without the semaphore (httpstreaming.c:838), is sent the   *)
(* payload in order and nothing else, unless it is excused.                *)
THEOREM PlayerTheorem == Spec => []PlayerInOrder
<1>1. Init => RingInv /\ PlayerInv
  <2> SUFFICES ASSUME Init PROVE RingInv /\ PlayerInv
    OBVIOUS
  <2>1. RingInv
    BY RingInit
  <2>2. PICK lo, hi, b, t : Filled(lo, hi, b, t)
    BY <2>1 DEF RingInv
  <2>3. player = Off /\ IsPlayer(Off)
    BY DEF Init, IsPlayer, Off, Fields
  <2>4. Playing(lo, hi, b, head, player)
    BY <2>3 DEF Playing
  <2> QED
    BY <2>1, <2>2, <2>3, <2>4 DEF PlayerInv
<1>2. RingInv /\ PlayerInv /\ [Next]_vars => (RingInv /\ PlayerInv)'
  BY RingNext, PlayerNext
<1>3. PlayerInv => PlayerInOrder
  <2> SUFFICES ASSUME PlayerInv PROVE PlayerInOrder
    OBVIOUS
  <2>1. PICK lo, hi, b, t : Playing(lo, hi, b, head, player)
    BY DEF PlayerInv
  <2>2. player = Off => player.inOrder
    BY DEF Off
  <2> QED
    BY <2>1, <2>2 DEF Playing, Plays, PlayerInOrder
<1> QED
  BY <1>1, <1>2, <1>3, PTL DEF Spec
=============================================================================
