----------------------------- MODULE DVRProofs -----------------------------
(***************************************************************************)
(* For any length of an hour and of a segment, any archive and any window: *)
(* what time shift and call-back playlists name and downloads take, by     *)
(* computing on times alone, is what the record thread wrote and the        *)
(* remove thread left.                                                     *)
(***************************************************************************)
EXTENDS DVR, FiniteSetTheorems, TLAPS

-----------------------------------------------------------------------------
(* Quotients. Hour and Duration do not divide each other, so the facts are *)
(* stated for any divisor.                                                 *)

(* A number is its quotient times the divisor, and a remainder.            *)
LEMMA Division ==
  ASSUME NEW a \in Int, NEW d \in Nat \ {0}
  PROVE  /\ a \div d \in Int /\ a % d \in 0..(d - 1)
         /\ a = d * (a \div d) + (a % d)
  BY SMT

(* Different multiples of a divisor are at least the divisor apart.        *)
LEMMA Apart ==
  ASSUME NEW p \in Int, NEW q \in Int, NEW d \in Nat \ {0}, p < q
  PROVE  d * p \in Int /\ d * q \in Int /\ d * p + d <= d * q
<1> DEFINE k == q - p - 1
<1>1. k \in Nat /\ d * q = d * p + d + d * k
  BY SMT
<1>2. d * k \in Nat
  BY <1>1
<1> QED
  BY <1>1, <1>2

(* The quotient is the one multiple that is reached and not passed.        *)
LEMMA Quotient ==
  ASSUME NEW a \in Int, NEW d \in Nat \ {0}, NEW q \in Int, d * q <= a, a < d * q + d
  PROVE  a \div d = q
<1> DEFINE p == a \div d
<1>1. p \in Int /\ d * p \in Int /\ d * p <= a /\ a < d * p + d
  BY Division
<1> HIDE DEF p
<1>2. ~(p < q) /\ ~(q < p)
  BY <1>1, Apart
<1> QED
  BY <1>1, <1>2 DEF p

(* A later time has no smaller quotient: hours and numbers never go back.  *)
LEMMA Monotone ==
  ASSUME NEW a \in Int, NEW b \in Int, NEW d \in Nat \ {0}, a <= b
  PROVE  a \div d <= b \div d
<1> DEFINE p == a \div d
           q == b \div d
<1>1. /\ p \in Int /\ d * p \in Int /\ d * p <= a /\ a < d * p + d
      /\ q \in Int /\ d * q \in Int /\ d * q <= b /\ b < d * q + d
  BY Division
<1> HIDE DEF p, q
<1>2. ~(q < p)
  BY <1>1, Apart
<1> QED
  BY <1>1, <1>2 DEF p, q

-----------------------------------------------------------------------------
(* Names.                                                                  *)

(* Segments begin on the grid of their duration.                           *)
OnGrid(ts) == ts \in Nat /\ ts % Duration = 0

(* What the assumption says of each constant.                              *)
LEMMA Constants ==
  /\ Hour \in Nat \ {0} /\ Duration \in Nat \ {0} /\ WindowSize \in Nat \ {0}
  /\ DvrDuration \in Nat \ {0} /\ RingSegments \in Nat \ {0}
  /\ Start \in Nat /\ End \in Nat /\ DvrDuration <= Start
  BY DVRAssumption DEF DVRAssumption

(* The number in a name is the number of the segment on the grid, although *)
(* it is rounded; so the times inside a segment have its number.           *)
LEMMA NumberOf ==
  ASSUME NEW ts, OnGrid(ts), NEW t \in Int, ts <= t, t < ts + Duration
  PROVE  /\ t \div Duration = ts \div Duration
         /\ NameOf(ts).number = ts \div Duration
         /\ ts = Duration * (ts \div Duration)
<1> DEFINE q == ts \div Duration
<1>1. q \in Int /\ ts = Duration * q /\ ts \in Nat
  BY Division, Constants DEF OnGrid
<1> HIDE DEF q
<1>2. t \div Duration = q
  BY <1>1, Quotient, Constants
<1>3. /\ 2 * Duration \in Nat \ {0} /\ 2 * ts + 1 \in Int
      /\ (2 * Duration) * q <= 2 * ts + 1 /\ 2 * ts + 1 < (2 * Duration) * q + 2 * Duration
  <2>1. (2 * Duration) * q = 2 * (Duration * q)
    BY <1>1, Constants
  <2> QED
    BY <1>1, <2>1, Constants
<1>4. (2 * ts + 1) \div (2 * Duration) = q
  BY ONLY <1>1, <1>3, Quotient
<1> QED
  BY <1>1, <1>2, <1>4 DEF NameOf, q

(* Different segments have different names.                                *)
LEMMA NamesDiffer ==
  ASSUME NEW a, NEW b, OnGrid(a), OnGrid(b), NameOf(a) = NameOf(b)
  PROVE  a = b
<1>1. a \in Int /\ b \in Int /\ a < a + Duration /\ b < b + Duration
  BY Constants DEF OnGrid
<1>2. NameOf(a).number = a \div Duration /\ a = Duration * (a \div Duration)
  BY <1>1, NumberOf
<1>3. NameOf(b).number = b \div Duration /\ b = Duration * (b \div Duration)
  BY <1>1, NumberOf
<1> QED
  BY <1>2, <1>3

(* A time inside a segment that no hour splits is listed by its name.      *)
LEMMA EntryIsName ==
  ASSUME NEW ts, OnGrid(ts), ~Split(ts), NEW t \in Int, ts <= t, t < ts + Duration
  PROVE  Entry(t) = NameOf(ts) /\ HourOf(t) = HourOf(ts)
<1>1. ts \in Int /\ ts + Duration - 1 \in Int /\ t <= ts + Duration - 1
  BY Constants DEF OnGrid
<1>2. HourOf(ts) <= HourOf(t) /\ HourOf(t) <= HourOf(ts + Duration - 1)
  BY <1>1, Monotone, Constants DEF HourOf
<1>3. HourOf(ts) = HourOf(t)
  <2>1. HourOf(ts) \in Int /\ HourOf(t) \in Int
    BY <1>1, Division, Constants DEF HourOf
  <2> QED
    BY <1>2, <2>1 DEF Split
<1>4. t \div Duration = (2 * ts + 1) \div (2 * Duration)
  BY NumberOf DEF NameOf
<1> QED
  BY <1>3, <1>4 DEF Entry, NameOf

(* A span that holds a segment whole lists a time inside it.               *)
LEMMA SpanLists ==
  ASSUME NEW ts, OnGrid(ts), NEW start \in Int, NEW end \in Int, Inside(ts, start, end)
  PROVE  \E t \in SpanTimes(start, end) : Entry(t) = NameOf(ts)
<1> DEFINE n == ts - start + Duration - 1
           i == n \div Duration
           t == start + i * Duration
<1>1. ts \in Int /\ start <= ts /\ ts + Duration - 1 <= end /\ ~Split(ts)
  BY DEF OnGrid, Inside
<1>2. n \in Int /\ 0 <= n /\ n <= end - start
  BY <1>1, Constants
<1>3. i \in Int /\ n % Duration \in 0..(Duration - 1) /\ n = Duration * i + (n % Duration)
  BY <1>2, Division, Constants
<1>4. i * Duration = Duration * i /\ Duration * i \in Int
  BY <1>3, Constants
<1>5. t \in Int /\ ts <= t /\ t < ts + Duration
  <2> HIDE DEF i
  <2> QED BY <1>1, <1>3, <1>4, Constants
<1>6. 0 <= i
  <2>1. 0 \div Duration = 0
    BY Quotient, Constants
  <2> QED BY <1>2, <2>1, Monotone, Constants
<1>7. i <= (end - start) \div Duration
  <2>1. end - start \in Int /\ n <= end - start
    BY <1>2
  <2> HIDE DEF n
  <2> QED BY <1>2, <2>1, Monotone, Constants
<1>8. Entry(t) = NameOf(ts)
  BY <1>1, <1>5, EntryIsName
<1>9. (end - start) \div Duration \in Int
  BY Division, Constants
<1> QED
  BY <1>3, <1>6, <1>7, <1>8, <1>9 DEF SpanTimes

-----------------------------------------------------------------------------
(* Queues.                                                                 *)

(* What a queue holds after an element was put at its end.                 *)
LEMMA RangeAppend ==
  ASSUME NEW q \in Seq(Int), NEW e \in Int
  PROVE  Append(q, e) \in Seq(Int) /\ Range(Append(q, e)) = Range(q) \cup {e}
<1>1. /\ Append(q, e) \in Seq(Int) /\ DOMAIN Append(q, e) = 1..(Len(q) + 1)
      /\ \A i \in 1..Len(q) : Append(q, e)[i] = q[i]
      /\ Append(q, e)[Len(q) + 1] = e /\ DOMAIN q = 1..Len(q) /\ Len(q) \in Nat
  OBVIOUS
<1>2. 1..(Len(q) + 1) = (1..Len(q)) \cup {Len(q) + 1}
  BY <1>1
<1> QED
  BY <1>1, <1>2 DEF Range

(* What a queue holds after its first element was taken.                   *)
LEMMA RangeTail ==
  ASSUME NEW q \in Seq(Int), q # <<>>
  PROVE  /\ Head(q) \in Int /\ Tail(q) \in Seq(Int)
         /\ Range(q) = Range(Tail(q)) \cup {Head(q)}
<1>1. /\ Tail(q) \in Seq(Int) /\ DOMAIN Tail(q) = 1..(Len(q) - 1)
      /\ \A i \in 1..(Len(q) - 1) : Tail(q)[i] = q[i + 1]
      /\ Head(q) = q[1] /\ DOMAIN q = 1..Len(q) /\ Len(q) \in Nat /\ Len(q) >= 1
  OBVIOUS
<1>2. \A i \in 1..Len(q) : i = 1 \/ (i - 1 \in 1..(Len(q) - 1) /\ (i - 1) + 1 = i)
  BY <1>1
<1>3. \A i \in 1..(Len(q) - 1) : i + 1 \in 1..Len(q)
  BY <1>1
<1>4. \A i \in 1..Len(q) : i = 1 \/ \E k \in 1..(Len(q) - 1) : Tail(q)[k] = q[i]
  BY <1>1, <1>2
<1>5. 1 \in 1..Len(q) /\ q[1] \in Int
  BY <1>1
<1>6. Range(q) \subseteq Range(Tail(q)) \cup {q[1]}
  <2>1. \A k \in 1..(Len(q) - 1) : Tail(q)[k] \in Range(Tail(q))
    BY <1>1 DEF Range
  <2>2. \A i \in 1..Len(q) : q[i] \in Range(Tail(q)) \cup {q[1]}
    BY <1>4, <2>1
  <2>3. Range(q) = {q[i] : i \in 1..Len(q)}
    BY <1>1 DEF Range
  <2> QED
    BY <2>2, <2>3
<1>7. Range(Tail(q)) \subseteq Range(q) /\ q[1] \in Range(q)
  BY <1>1, <1>3, <1>5 DEF Range
<1> QED
  BY <1>1, <1>5, <1>6, <1>7

(* What a queue holds after another was put at its end.                    *)
LEMMA RangeConcat ==
  ASSUME NEW p \in Seq(Int), NEW q \in Seq(Int)
  PROVE  p \o q \in Seq(Int) /\ Range(p \o q) \subseteq Range(p) \cup Range(q)
<1>1. /\ p \o q \in Seq(Int) /\ DOMAIN (p \o q) = 1..(Len(p) + Len(q))
      /\ \A i \in 1..(Len(p) + Len(q)) : (p \o q)[i] = IF i <= Len(p) THEN p[i] ELSE q[i - Len(p)]
      /\ DOMAIN p = 1..Len(p) /\ DOMAIN q = 1..Len(q) /\ Len(p) \in Nat /\ Len(q) \in Nat
  OBVIOUS
<1>2. \A i \in 1..(Len(p) + Len(q)) : i \in 1..Len(p) \/ (i - Len(p) \in 1..Len(q) /\ ~(i <= Len(p)))
  BY <1>1
<1>3. \A i \in 1..Len(p) : i <= Len(p)
  OBVIOUS
<1>4. \A i \in 1..(Len(p) + Len(q)) : (p \o q)[i] \in Range(p) \cup Range(q)
  BY <1>1, <1>2, <1>3 DEF Range
<1> QED
  BY <1>1, <1>4 DEF Range

(* What glob gives are directories of the set.                              *)
LEMMA SortedOf ==
  ASSUME NEW set \in SUBSET Int, IsFiniteSet(set), NEW q \in Sorted(set)
  PROVE  q \in Seq(Int) /\ Range(q) \subseteq set
<1>1. Cardinality(set) \in Nat
  BY FS_CardinalityType
<1>2. q \in [1..Cardinality(set) -> set]
  BY DEF Sorted, SetToSeqs
<1>3. q \in [1..Cardinality(set) -> Int] /\ DOMAIN q = 1..Cardinality(set)
  BY <1>2
<1>4. q \in Seq(Int)
  BY <1>1, <1>3
<1> QED
  BY <1>2, <1>3, <1>4 DEF Range

-----------------------------------------------------------------------------
(* The inductive invariant.                                                *)

Types ==
  /\ now \in Nat /\ OnGrid(open) /\ OnGrid(last)
  /\ queue \in Seq(Int) /\ removals \in Seq(Int) /\ removing \in Int
  /\ dirs \in SUBSET Int /\ IsFiniteSet(dirs)

(* What is on its way to the disk was recorded; a recorded segment is on   *)
(* the grid; a file holds a recorded segment under its name.               *)
Recorded ==
  /\ \A ts \in recorded : OnGrid(ts) /\ ts # 0
  /\ Pending \subseteq recorded \cup {0}
  /\ \A f \in files : f.of \in recorded /\ f = FileOf(f.of)

(* Only expired hours are removed, and the record thread finds the         *)
(* directory it has made unless its hour has expired meanwhile.            *)
Removed ==
  /\ \A dir \in Range(removals) : Expired(dir)
  /\ removing # 0 => Expired(removing)
  /\ writing # 0 => HourOf(writing) \in dirs \/ Expired(HourOf(writing))

(* A recorded segment is on its way, on the disk, or of an expired hour.   *)
Kept == \A ts \in recorded : ts \in Pending \/ OnDisk(ts) \/ Expired(HourOf(ts))

IInv == Types /\ Recorded /\ Removed /\ Kept

(* Hours are integers.                                                     *)
LEMMA HourInt ==
  ASSUME NEW t \in Int
  PROVE  HourOf(t) \in Int
  BY Division, Constants DEF HourOf

(* The time before the first segment is on the grid.                       *)
LEMMA GridZero == OnGrid(0)
<1>1. 0 \div Duration = 0
  BY Quotient, Constants
<1> QED
  BY <1>1, Division, Constants DEF OnGrid

(* At the start nothing is recorded.                                       *)
LEMMA InitInv == Init => IInv
<1> SUFFICES ASSUME Init PROVE IInv
  OBVIOUS
<1>1. Range(<<>>) = {}
  BY DEF Range
<1>2. Types
  BY Constants, GridZero, FS_EmptySet DEF Init, Types
<1> QED
  BY <1>1, <1>2 DEF Init, IInv, Recorded, Removed, Kept, Pending

(* What has expired stays so.                                              *)
LEMMA ExpiredStays ==
  ASSUME now \in Nat, NEW n \in Nat, now <= n, NEW dir \in Int, Expired(dir)
  PROVE  dir < HourOf(n - DvrDuration)
<1>1. /\ now - DvrDuration \in Int /\ n - DvrDuration \in Int
      /\ now - DvrDuration <= n - DvrDuration
  BY Constants
<1>2. /\ HourOf(now - DvrDuration) \in Int /\ HourOf(n - DvrDuration) \in Int
      /\ HourOf(now - DvrDuration) <= HourOf(n - DvrDuration)
  BY <1>1, HourInt, Monotone, Constants DEF HourOf
<1> QED
  BY <1>2 DEF Expired

(* A multiple of the duration is on the grid.                              *)
LEMMA Multiple ==
  ASSUME NEW x \in Nat, NEW q \in Int, x = Duration * q
  PROVE  OnGrid(x)
<1>1. x \in Int /\ Duration * q <= x /\ x < Duration * q + Duration
  BY Constants
<1>2. x \div Duration = q
  BY <1>1, Quotient, Constants
<1>3. x = Duration * (x \div Duration) + (x % Duration) /\ x % Duration \in Int
  <2>1. x \in Int /\ Duration \in Nat \ {0}
    BY Constants
  <2> QED
    BY ONLY <2>1, Division
<1>4. x % Duration = 0
  BY <1>1, <1>2, <1>3
<1> QED
  BY <1>4 DEF OnGrid

(* The segment opened next is on the grid.                                 *)
LEMMA OpenedOnGrid ==
  ASSUME now \in Nat, OnGrid(open)
  PROVE  OnGrid(Opened)
<1>1. CASE open = 0
  <2> DEFINE q == now \div Duration
  <2>1. /\ q \in Int /\ now % Duration \in 0..(Duration - 1)
        /\ now = Duration * q + (now % Duration)
    BY Division, Constants
  <2>2. now % Duration <= now
    <3>1. 0 <= q
      <4>1. 0 \div Duration = 0
        BY Quotient, Constants
      <4> QED
        BY <4>1, Monotone, Constants
    <3>2. Duration * q \in Nat
      BY <2>1, <3>1, Constants
    <3> QED
      BY <2>1, <3>2, Constants
  <2>3. Opened = Duration * q /\ Duration * q \in Nat
    <3> HIDE DEF q
    <3>1. Duration * q \in Int
      BY <2>1, Constants
    <3> QED
      BY <1>1, <2>1, <2>2, <3>1, Constants DEF Opened
  <2> HIDE DEF q
  <2> QED
    BY <2>1, <2>3, Multiple
<1>2. CASE open # 0
  <2> DEFINE q == open \div Duration
  <2>1. q \in Int /\ open \in Nat /\ open = Duration * q
    BY Division, Constants DEF OnGrid
  <2> HIDE DEF q
  <2>2. Opened = Duration * (q + 1) /\ Duration * (q + 1) \in Nat /\ q + 1 \in Int
    BY <1>2, <2>1, Constants DEF Opened
  <2> QED
    BY <2>2, Multiple
<1> QED
  BY <1>1, <1>2

-----------------------------------------------------------------------------
(* The steps.                                                              *)

(* Time passes: what has expired stays expired, and more may be.           *)
LEMMA TickInv == IInv /\ Tick => IInv'
<1> SUFFICES ASSUME IInv, Tick PROVE IInv'
  OBVIOUS
<1> USE DEF IInv, Tick, workerVars, diskVars, removeVars
<1>1. now \in Nat /\ now' \in Nat /\ now <= now'
  BY DEF Types
<1>2. \A dir \in Int : Expired(dir) => Expired(dir)'
  BY <1>1, ExpiredStays DEF Expired
<1>3. Types'
  BY <1>1 DEF Types
<1>4. Recorded'
  BY DEF Recorded, Pending
<1>5. Removed'
  <2>1. \A dir \in Range(removals) : dir \in Int
    BY DEF Types, Range
  <2>2. HourOf(writing) \in Int
    <3>1. writing \in recorded \cup {0}
      BY DEF Recorded, Pending
    <3>2. writing \in Int
      BY <3>1 DEF Recorded, OnGrid
    <3> QED
      BY <3>2, HourInt
  <2> QED
    BY <1>2, <2>1, <2>2 DEF Removed, Types
<1>6. Kept'
  <2>1. \A ts \in recorded : HourOf(ts) \in Int
    BY HourInt DEF Recorded, OnGrid
  <2> QED
    BY <1>2, <2>1 DEF Kept, Pending, OnDisk
<1> QED
  BY <1>3, <1>4, <1>5, <1>6

(* The worker opens a segment, or starts again: only what is on the grid is*)
(* put into the record queue.                                              *)
LEMMA WorkerInv == IInv /\ (Segment \/ SegmentLost \/ Restart \/ Stop) => IInv'
<1> SUFFICES ASSUME IInv, Segment \/ SegmentLost \/ Restart \/ Stop PROVE IInv'
  OBVIOUS
<1> USE DEF IInv, workerVars, diskVars, removeVars
<1>1. OnGrid(Opened) /\ OnGrid(0)
  BY OpenedOnGrid, GridZero DEF Types
<1>2. CASE UNCHANGED <<queue, recorded>>
  <2>1. UNCHANGED <<now, queue, recorded, diskVars, removeVars>>
    BY <1>2 DEF Segment, SegmentLost, Restart, Stop
  <2>2. OnGrid(open') /\ OnGrid(last')
    BY <1>1 DEF Types, Segment, SegmentLost, Restart, Stop, Open
  <2>3. Types'
    BY <2>1, <2>2 DEF Types, OnGrid
  <2>4. Recorded' /\ Removed' /\ Kept'
    BY <2>1 DEF Recorded, Removed, Kept, Pending, OnDisk, Expired
  <2> QED
    BY <2>3, <2>4
<1>3. CASE Segment /\ last # 0 /\ queue' = Append(queue, last) /\ recorded' = recorded \cup {last}
  <2>1. last \in Int /\ OnGrid(last) /\ queue \in Seq(Int)
    BY DEF Types, OnGrid
  <2>2. queue' \in Seq(Int) /\ Range(queue') = Range(queue) \cup {last}
    BY <1>3, <2>1, RangeAppend
  <2>3. UNCHANGED <<now, diskVars, removeVars>> /\ open' = Opened /\ last' = Opened
    BY <1>3 DEF Segment, Open
  <2>4. Types'
    BY <1>1, <2>2, <2>3 DEF Types, OnGrid
  <2>5. Recorded'
    BY <1>3, <2>1, <2>2, <2>3 DEF Recorded, Pending, OnGrid
  <2>6. Removed' /\ Kept'
    BY <1>3, <2>2, <2>3 DEF Removed, Kept, Pending, OnDisk, Expired
  <2> QED
    BY <2>4, <2>5, <2>6
<1> QED
  BY <1>2, <1>3 DEF Segment, SegmentLost, Restart, Stop

(* The record thread: the name of the file is that of no other segment.    *)
LEMMA RecordInv == IInv /\ (MakeDir \/ WriteFile) => IInv'
<1> SUFFICES ASSUME IInv, MakeDir \/ WriteFile PROVE IInv'
  OBVIOUS
<1> USE DEF IInv, workerVars, diskVars, removeVars
<1>1. CASE MakeDir
  <2> USE <1>1 DEF MakeDir
  <2>1. /\ writing' \in Int /\ queue' \in Seq(Int)
        /\ Range(queue) = Range(queue') \cup {writing'}
    BY RangeTail DEF Types
  <2>2. HourOf(writing') \in Int
    BY <2>1, HourInt
  <2>3. Types'
    BY <2>1, <2>2, FS_AddElement DEF Types, OnGrid
  <2>4. Pending' \cup {0} = Pending \cup {0}
    BY <2>1 DEF Pending
  <2>5. Recorded'
    BY <2>4 DEF Recorded
  <2>6. Removed' /\ Kept'
    BY <2>4 DEF Removed, Kept, Recorded, OnDisk, Expired
  <2> QED
    BY <2>3, <2>5, <2>6
<1>2. CASE WriteFile
  <2> USE <1>2 DEF WriteFile
  <2>1. writing \in recorded /\ OnGrid(writing)
    BY DEF Recorded, Pending
  <2>2. Types'
    BY DEF Types, OnGrid
  <2>3. Pending \subseteq Pending' \cup {writing} /\ Pending' \subseteq Pending \cup {0}
    BY DEF Pending
  <2>4. FileOf(writing).of = writing
    BY DEF FileOf
  <2>5. Recorded'
    BY <2>1, <2>3, <2>4 DEF Recorded
  <2>6. Removed'
    BY DEF Removed, Expired
  <2>7. ASSUME NEW ts \in recorded
        PROVE  ts \in Pending' \/ OnDisk(ts)' \/ Expired(HourOf(ts))
    <3>1. OnGrid(ts)
      BY DEF Recorded
    <3>2. CASE ts = writing
      BY <3>2 DEF Removed, OnDisk
    <3>3. CASE ts # writing
      <4>1. FileOf(ts).name # NameOf(writing)
        BY <2>1, <3>1, <3>3, NamesDiffer DEF FileOf
      <4> QED
        BY <2>3, <3>3, <4>1 DEF Kept, OnDisk
    <3> QED
      BY <3>2, <3>3
  <2>8. Kept'
    BY <2>7 DEF Kept, Expired
  <2> QED
    BY <2>2, <2>5, <2>6, <2>8
<1> QED
  BY <1>1, <1>2

(* The monitor and the remove thread take what has expired only.           *)
LEMMA RemoveInv == IInv /\ (DvrClean \/ RemoveFiles \/ RemoveDir) => IInv'
<1> SUFFICES ASSUME IInv, DvrClean \/ RemoveFiles \/ RemoveDir PROVE IInv'
  OBVIOUS
<1> USE DEF IInv, workerVars, diskVars, removeVars
<1>1. CASE DvrClean
  <2> DEFINE old == {d \in dirs : Expired(d)}
  <2>1. PICK q \in Sorted(old) : removals' = IF listed THEN removals \o q ELSE removals
    BY <1>1 DEF DvrClean
  <2>2. old \in SUBSET Int /\ IsFiniteSet(old)
    BY FS_Subset DEF Types
  <2>3. q \in Seq(Int) /\ Range(q) \subseteq old
    BY <2>2, SortedOf
  <2>4. removals' \in Seq(Int) /\ Range(removals') \subseteq Range(removals) \cup old
    BY <2>1, <2>3, RangeConcat DEF Types
  <2>5. UNCHANGED <<now, workerVars, queue, diskVars, removing, recorded>>
    BY <1>1 DEF DvrClean
  <2>6. Types'
    BY <2>4, <2>5 DEF Types, OnGrid
  <2>7. Recorded' /\ Removed' /\ Kept'
    BY <2>4, <2>5 DEF Recorded, Removed, Kept, Pending, OnDisk, Expired
  <2> QED
    BY <2>6, <2>7
<1>2. CASE RemoveFiles
  <2> USE <1>2 DEF RemoveFiles
  <2>1. /\ removing' \in Int /\ removals' \in Seq(Int)
        /\ Range(removals) = Range(removals') \cup {removing'}
    BY RangeTail DEF Types
  <2>2. Expired(removing')
    BY <2>1 DEF Removed
  <2>3. Types'
    BY <2>1 DEF Types, OnGrid
  <2>4. Recorded'
    BY DEF Recorded, Pending
  <2>5. Removed'
    BY <2>1, <2>2 DEF Removed, Expired
  <2>6. ASSUME NEW ts \in recorded
        PROVE  ts \in Pending' \/ OnDisk(ts)' \/ Expired(HourOf(ts))
    <3>1. FileOf(ts).name.dir = HourOf(ts)
      BY DEF FileOf, NameOf
    <3> QED
      BY <2>2, <3>1 DEF Kept, OnDisk, Pending
  <2>7. Kept'
    BY <2>6 DEF Kept, Expired
  <2> QED
    BY <2>3, <2>4, <2>5, <2>7
<1>3. CASE RemoveDir
  <2> USE <1>3 DEF RemoveDir
  <2>1. dirs' \subseteq dirs /\ IsFiniteSet(dirs')
    BY FS_Subset DEF Types
  <2>2. Types'
    BY <2>1 DEF Types, OnGrid
  <2>3. Recorded' /\ Kept'
    BY DEF Recorded, Kept, Pending, OnDisk, Expired
  <2>4. Removed'
    BY DEF Removed, Expired
  <2> QED
    BY <2>2, <2>3, <2>4
<1> QED
  BY <1>1, <1>2, <1>3

(* Every step keeps the invariant.                                         *)
LEMMA StepInv == IInv /\ [Next]_vars => IInv'
<1>1. IInv /\ UNCHANGED vars => IInv'
  BY DEF vars, workerVars, diskVars, removeVars, IInv, Types, OnGrid, Recorded, Removed, Kept,
         Pending, OnDisk, Expired
<1> QED
  BY <1>1, TickInv, WorkerInv, RecordInv, RemoveInv DEF Next

(* The invariant holds in every state.                                     *)
LEMMA Inductive == Spec => []IInv
  BY InitInv, StepInv, PTL DEF Spec

-----------------------------------------------------------------------------
(* What is asked of the archive.                                           *)

(* A segment whose hour is not before that of some time the archive still  *)
(* keeps has not expired.                                                  *)
LEMMA NotExpired ==
  ASSUME now \in Nat, NEW t \in Int, now - DvrDuration <= t,
         NEW dir \in Int, HourOf(t) <= dir
  PROVE  ~Expired(dir)
<1>1. now - DvrDuration \in Int
  BY Constants
<1>2. HourOf(now - DvrDuration) <= HourOf(t)
  BY <1>1, Monotone, Constants DEF HourOf
<1> QED
  BY <1>1, <1>2, HourInt DEF Expired

(* In a state of the invariant time shift finds its files.                 *)
LEMMA TimeshiftKept == IInv => TimeshiftPlays
<1> SUFFICES ASSUME IInv,
                    NEW time \in 0..(last + Duration - 1), PositionBefore(time) >= 0,
                    NEW t \in TimeshiftTimes(PositionBefore(time))
             PROVE  LET ts == SegmentOf(t)
                    IN  /\ ts < last
                        /\ \/ ts \notin recorded \/ ts \in Pending \/ Split(ts)
                           \/ t < now - DvrDuration
                           \/ [name |-> Entry(t), of |-> ts] \in files
  BY DEF TimeshiftPlays
<1> DEFINE ts == SegmentOf(t)
<1>1. now \in Nat /\ last \in Nat
  BY DEF IInv, Types, OnGrid
<1>2. t \in Int /\ t < last
  <2>1. PICK i \in 0..(WindowSize - 1) : t = PositionBefore(time) + i * Duration
    BY DEF TimeshiftTimes
  <2>2. i \in Int /\ i < WindowSize /\ i * Duration = Duration * i
        /\ WindowSize * Duration = Duration * WindowSize
    BY <2>1, Constants
  <2>3. Duration * i \in Int /\ Duration * WindowSize \in Int
        /\ Duration * i + Duration <= Duration * WindowSize
    BY <2>2, Apart, Constants
  <2>4. time \in Int /\ time <= last + Duration - 1
    BY <1>1, Constants
  <2> QED
    BY <1>1, <2>1, <2>2, <2>3, <2>4, Constants DEF PositionBefore
<1>3. ts \in Int /\ ts <= t /\ t < ts + Duration
  BY <1>2, Division, Constants DEF SegmentOf
<1> HIDE DEF ts
<1>4. ASSUME ts \in recorded, ts \notin Pending, ~Split(ts), ~(t < now - DvrDuration)
      PROVE  [name |-> Entry(t), of |-> ts] \in files
  <2>1. OnGrid(ts)
    BY <1>4 DEF IInv, Recorded
  <2>2. Entry(t) = NameOf(ts) /\ HourOf(t) = HourOf(ts)
    BY <1>2, <1>3, <1>4, <2>1, EntryIsName
  <2>3. HourOf(ts) \in Int /\ HourOf(t) <= HourOf(ts)
    BY <1>3, <2>2, HourInt
  <2>4. now - DvrDuration <= t
    BY <1>1, <1>2, <1>4, Constants
  <2>5. ~Expired(HourOf(ts))
    BY <1>1, <1>2, <2>3, <2>4, NotExpired
  <2>6. OnDisk(ts)
    BY <1>4, <2>5 DEF IInv, Kept
  <2> QED
    BY <2>2, <2>6 DEF OnDisk, FileOf
<1> QED
  BY <1>1, <1>2, <1>3, <1>4 DEF ts

(* In a state of the invariant call-backs and downloads find their files.  *)
LEMMA SpanKept == IInv => SpanPlays
<1> SUFFICES ASSUME IInv, NEW start \in Start..now, NEW end \in start..now
             PROVE  /\ CallbackValid(start, end) =>
                          \A ts \in recorded :
                              Inside(ts, start, end) =>
                                  /\ ts \in Pending \/ OnDisk(ts)
                                  /\ \E t \in SpanTimes(start, end) : Entry(t) = NameOf(ts)
                    /\ \A f \in files : Inside(f.of, start, end) => f \in Downloaded(start, end)
  BY DEF SpanPlays
<1>1. now \in Nat /\ start \in Int /\ end \in Int
  BY Constants DEF IInv, Types
<1>2. ASSUME CallbackValid(start, end), NEW ts \in recorded, Inside(ts, start, end)
      PROVE  /\ ts \in Pending \/ OnDisk(ts)
             /\ \E t \in SpanTimes(start, end) : Entry(t) = NameOf(ts)
  <2>1. OnGrid(ts) /\ ts \in Int /\ start <= ts
    BY <1>2 DEF IInv, Recorded, OnGrid, Inside
  <2>2. HourOf(start) \in Int /\ HourOf(ts) \in Int /\ HourOf(start) <= HourOf(ts)
    BY <1>1, <2>1, HourInt, Monotone, Constants DEF HourOf
  <2> DEFINE first == start - (start % Hour)
  <2>3. first \in Int /\ now - DvrDuration <= first
    BY <1>1, <1>2, Division, Constants DEF CallbackValid, BoundValid
  <2>4. first <= start
    BY <1>1, Division, Constants
  <2>5. HourOf(first) <= HourOf(ts)
    <3>1. HourOf(first) <= HourOf(start) /\ HourOf(first) \in Int
      <4> HIDE DEF first
      <4> QED
        BY <1>1, <2>3, <2>4, HourInt, Monotone, Constants DEF HourOf
    <3> QED
      BY <2>2, <3>1
  <2>6. ~Expired(HourOf(ts))
    <3> HIDE DEF first
    <3> QED
      BY <1>1, <2>2, <2>3, <2>5, NotExpired
  <2> QED
    BY <1>1, <1>2, <2>1, <2>6, SpanLists DEF IInv, Kept
<1>3. ASSUME NEW f \in files, Inside(f.of, start, end)
      PROVE  f \in Downloaded(start, end)
  <2>1. OnGrid(f.of) /\ f = FileOf(f.of)
    BY DEF IInv, Recorded
  <2>2. \E t \in SpanTimes(start, end) : Entry(t) = NameOf(f.of)
    BY <1>1, <1>3, <2>1, SpanLists
  <2>3. f.name = NameOf(f.of)
    BY <2>1 DEF FileOf
  <2> QED
    BY <2>2, <2>3 DEF Downloaded
<1> QED
  BY <1>2, <1>3

(* Each entry of a time shift playlist for a time that has passed is a     *)
(* segment of the past, and its file is there by the name in the playlist  *)
(* (httpstreaming.c:602, m3u8playlist.c), for any hour and any window, but *)
(* for the segments TimeshiftPlays excepts.                                *)
THEOREM TimeshiftFound == Spec => []TimeshiftPlays
  BY Inductive, TimeshiftKept, PTL

(* A call-back that is not refused lists every segment in its span that    *)
(* was recorded, with its file, and a download takes every file in its     *)
(* span (httpstreaming.c, gstreamill.c:681): dvr_clean removes nothing     *)
(* that may still be asked for, for any hour and any archive.              *)
THEOREM SpansFound == Spec => []SpanPlays
  BY Inductive, SpanKept, PTL

=============================================================================
