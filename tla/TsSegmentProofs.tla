-------------------------- MODULE TsSegmentProofs --------------------------
(***************************************************************************)
(* For any streams, cut into buffers of any lengths and damaged anywhere:  *)
(* how much the segmenter holds back in its adapter between two buffers,   *)
(* which packets it passes over and sends, in which order, and the times   *)
(* and key flags of its buffers.                                           *)
(***************************************************************************)
EXTENDS TsSegment, FiniteSetTheorems, WellFoundedInduction, SequenceTheorems, TLAPS

(* A set of numbers has a least one: what induction rests on here.         *)
LEMMA Least ==
  ASSUME NEW S \in SUBSET Nat, S # {}
  PROVE  \E m \in S : \A y \in S : m <= y
<1> DEFINE R == OpToRel(<, Nat)
<1>1. PICK m \in S : \A y \in S : ~(<<y, m>> \in R)
  BY NatLessThanWellFounded, WFMin
<1>2. \A y, z \in Nat : y < z => <<y, z>> \in R
  BY DEF OpToRel
<1> HIDE DEF R
<1>3. \A y \in S : ~(y < m)
  BY <1>1, <1>2
<1> QED
  BY <1>3

(* The least of two numbers is one of them, and not above the other.       *)
LEMMA MinOfTwo ==
  ASSUME NEW a \in Int, NEW b \in Int
  PROVE  Min({a, b}) \in {a, b} /\ Min({a, b}) <= a /\ Min({a, b}) <= b
<1>1. \E x \in {a, b} : \A y \in {a, b} : x <= y
  OBVIOUS
<1>2. Min({a, b}) = CHOOSE x \in {a, b} : \A y \in {a, b} : x <= y
  BY DEF Min
<1>3. Min({a, b}) \in {a, b} /\ \A y \in {a, b} : Min({a, b}) <= y
  BY <1>1, <1>2
<1> QED
  BY <1>3

(* An interval has no set without a least element.                         *)
LEMMA MinOfMany ==
  ASSUME NEW a \in Int, NEW b \in Int, NEW S \in SUBSET (a..b), S # {}
  PROVE  Min(S) \in S /\ Min(S) \in Int /\ \A y \in S : Min(S) <= y
<1> DEFINE T == {x - a : x \in S}
<1>1. T \subseteq Nat /\ T # {}
  OBVIOUS
<1>2. PICK m \in T : \A y \in T : m <= y
  <2> HIDE DEF T
  <2> QED
    BY <1>1, Least
<1>3. PICK x \in S : m = x - a
  OBVIOUS
<1>4. \A y \in S : x <= y
  <2>1. \A y \in S : x - a <= y - a
    BY <1>2, <1>3
  <2> QED
    BY <2>1
<1>5. Min(S) \in S /\ \A y \in S : Min(S) <= y
  BY <1>3, <1>4 DEF Min
<1>6. S \subseteq Int
  OBVIOUS
<1> QED
  BY <1>5, <1>6, Zenon

(* What has been mapped reaches to the end of the adapter, or nothing is   *)
(* mapped: buffers come only between two runs of the chain function, which *)
(* begins and ends with nothing mapped. The next bytes are known to be in  *)
(* step only within a map, and as long as a packet is left of it.          *)
Mapping ==
  /\ stream \in Streams
  /\ fed \in 0..Cells /\ cur \in 0..fed /\ top \in cur..fed /\ valid \in 0..fed
  /\ pc \in {"idle", "loop", "parse"} /\ sized \in BOOLEAN /\ needSync \in BOOLEAN
  /\ top = cur \/ (pc # "idle" /\ top = fed)
  /\ ~needSync => pc # "idle" /\ sized /\ top = fed /\ top - cur >= 2
  /\ ~sized => top = cur
  /\ bounds \subseteq 0..fed
  /\ pc = "loop" /\ ~sized => fed \in bounds

(* What the map does not hold of the bytes up to its end counts as spoilt. *)
Unheld == top > cur => \A c \in valid..(fed - 1) : PacketOf(c) \in spoilt

(* A packet is passed over only near one that is damaged.                  *)
(* Each packet passed over, or one of the three that follow, is damaged.   *)
NearDamage == \A n \in lost : \E m \in n..(n + 3) : m \in Damaged \cup spoilt

(* What has been passed over or sent lies before cur.                      *)
Behind ==
  /\ lost \subseteq 1..Len(stream)
  /\ \A n \in lost : 2 * n < cur + 2

(* What was pended is parsed while the packet that ends it waits.           *)
Parsing ==
  pc = "parse" =>
    sized /\ ~needSync /\ SyncByte(cur, valid) /\ stream[PacketOf(cur)].k = "start" /\ codec # ""

(* The state of the synchronisation between two steps.                     *)
SyncInv == Mapping /\ Unheld /\ LittleHeldBack

(* A step that takes no packet passes over those between cur and cur'.     *)
Skips ==
  /\ UNCHANGED <<stream, tables, video>>
  /\ cur' \in cur..Cells
  /\ spoilt \subseteq spoilt'
  /\ lost' = lost \cup Passed(cur, cur')
  /\ \A n \in Passed(cur, cur') : \E m \in n..(n + 3) : m \in Damaged \cup spoilt'

(* A step of the parser takes none either.                                 *)
Parses ==
  /\ UNCHANGED <<input, sync, tables, pes, mem, size, seenIdr, data, PTS, out>>
  /\ pc' = "parse"

(* A step that takes a packet passes over none.                            *)
Takes ==
  /\ UNCHANGED <<stream, lost, spoilt>>
  /\ cur % 2 = 0 /\ cur' = cur + 2 /\ cur + 2 <= Cells
  /\ stream[PacketOf(cur)].k # "nosync"

(* Cells and packets: a packet begins with an even cell.                   *)
LEMMA Halves ==
  ASSUME NEW c \in Nat
  PROVE  /\ PacketOf(c) \in Nat \ {0}
         /\ 2 * PacketOf(c) <= c + 2 /\ c < 2 * PacketOf(c)
         /\ c % 2 = 0 => 2 * PacketOf(c) = c + 2
  BY DEF PacketOf

(* The first cell of a packet is the even one.                             *)
LEMMA FirstCell ==
  ASSUME NEW n \in Nat \ {0}
  PROVE  PacketOf(2 * n - 2) = n /\ (2 * n - 2) % 2 = 0
  BY DEF PacketOf

(* A stream has a whole number of packets.                                 *)
LEMMA StreamFacts ==
  ASSUME stream \in Streams
  PROVE  /\ Len(stream) \in Nat /\ DOMAIN stream = 1..Len(stream)
         /\ \A n \in 1..Len(stream) : stream[n] \in Packets
         /\ Cells = 2 * Len(stream) /\ Cells \in Nat
  BY SegmentAssumption DEF Cells

(* At the start nothing is mapped and nothing is held back.                *)
LEMMA InitSync == Init => SyncInv
<1> SUFFICES ASSUME Init PROVE SyncInv
  OBVIOUS
<1>1. stream \in Streams /\ cur \in {0, 1} /\ fed = cur /\ top = cur /\ valid = cur
      /\ pc = "idle" /\ sized = FALSE /\ needSync = TRUE /\ bounds = {}
  BY DEF Init
<1>2. Cells \in Nat /\ Cells >= 2
  BY <1>1, StreamFacts, SegmentAssumption
<1>3. fed \in 0..Cells /\ cur \in 0..fed /\ top \in cur..fed /\ valid \in 0..fed /\ top = cur
  BY <1>1, <1>2
<1>4. Mapping
  <2>1. pc \in {"idle", "loop", "parse"} /\ sized \in BOOLEAN /\ needSync \in BOOLEAN
    BY <1>1
  <2>2. bounds \subseteq 0..fed
    BY <1>1
  <2> QED
    BY <1>1, <1>3, <2>1, <2>2, Zenon DEF Mapping
<1>5. LittleHeldBack
  BY <1>1 DEF LittleHeldBack, Discover
<1>6. Unheld
  BY <1>1, <1>3 DEF Unheld
<1> QED
  BY <1>4, <1>5, <1>6 DEF SyncInv

(* Nothing is passed over between a cell and itself.                       *)
LEMMA NothingPassed ==
  ASSUME NEW a \in Nat
  PROVE  Passed(a, a) = {}
  BY DEF Passed

(* A step that leaves cur passes over nothing.                             *)
LEMMA StaySkips ==
  ASSUME Mapping, UNCHANGED <<stream, cur, lost, spoilt, tables, video>>
  PROVE  Skips
<1>1. cur \in Nat /\ cur \in cur..Cells /\ cur' = cur
  BY StreamFacts DEF Mapping
<1>2. Passed(cur, cur') = {}
  BY <1>1, NothingPassed
<1> QED
  BY <1>1, <1>2 DEF Skips

(* A buffer comes.                                                         *)
LEMMA ChainSync == SyncInv /\ Chain => SyncInv' /\ Skips
<1> SUFFICES ASSUME SyncInv, Chain PROVE SyncInv' /\ Skips
  OBVIOUS
<1>1. /\ pc = "idle" /\ fed < Cells /\ pc' = "loop"
      /\ UNCHANGED <<stream, cur, top, valid, sized, needSync, lost, spoilt, tables, video>>
      /\ bounds' = IF sized THEN {} ELSE {e \in bounds : e > cur} \cup {fed'}
  BY DEF Chain, sync
<1>2. Mapping
  BY DEF SyncInv
<1>3. PICK k \in Chunks : fed' = Min({fed + k, Cells})
  BY DEF Chain
<1>4. fed \in Nat /\ Cells \in Nat /\ k \in Nat /\ k > 0
  BY <1>2, SegmentAssumption, StreamFacts DEF Mapping
<1>5. fed' \in Nat /\ fed <= fed' /\ fed' <= Cells
  <2>1. fed + k \in Int /\ Cells \in Int
    BY <1>4
  <2>2. /\ Min({fed + k, Cells}) \in {fed + k, Cells}
        /\ Min({fed + k, Cells}) <= Cells
    BY <2>1, MinOfTwo
  <2> QED
    BY <1>1, <1>3, <1>4, <2>2
<1>6. Cells' = Cells
  BY <1>1 DEF Cells
<1>7. Mapping'
  <2>1. fed' \in 0..Cells' /\ cur' \in 0..fed' /\ top' \in cur'..fed' /\ valid' \in 0..fed'
    BY <1>1, <1>2, <1>4, <1>5, <1>6 DEF Mapping
  <2>2. bounds' \subseteq 0..fed' /\ (~sized => fed' \in bounds')
    <3>1. \A e \in bounds : e \in 0..fed'
      BY <1>2, <1>4, <1>5 DEF Mapping
    <3>2. bounds' \subseteq bounds \cup {fed'} /\ (~sized => fed' \in bounds')
      BY <1>1
    <3> QED
      BY <1>5, <3>1, <3>2
  <2>3. stream' \in Streams /\ pc' = "loop" /\ sized' \in BOOLEAN /\ needSync' = TRUE /\ top' = cur'
    BY <1>1, <1>2 DEF Mapping
  <2> QED
    BY <1>1, <2>1, <2>2, <2>3 DEF Mapping
<1>8. Unheld' /\ LittleHeldBack'
  <2>1. top' = cur' /\ cur' \in Int
    BY <1>1, <1>2 DEF Mapping
  <2> QED
    BY <1>1, <2>1 DEF Unheld, LittleHeldBack
<1>9. Skips
  BY <1>1, <1>2, StaySkips
<1> QED
  BY <1>7, <1>8, <1>9 DEF SyncInv

(* What is not found in step, within so many cells, is damaged there.      *)
LEMMA MissedNear ==
  ASSUME stream \in Streams, NEW c \in Nat, c % 2 = 0,
         NEW k \in 0..4, NEW end \in Nat, NEW held \in Nat, end <= Cells,
         c + 2 * k < end + 2, ~Syncs(c, k, held),
         NEW S, \A e \in held..(end - 1) : PacketOf(e) \in S
  PROVE  \E m \in PacketOf(c)..(PacketOf(c) + 3) : m \in Damaged \cup S
<1>1. PICK i \in 0..(k - 1) : ~SyncByte(c + 2 * i, held)
  BY DEF Syncs
<1>2. c + 2 * i \in Nat /\ c + 2 * i < end /\ (c + 2 * i) % 2 = 0 /\ i \in 0..3
  BY <1>1
<1>3. PacketOf(c + 2 * i) = PacketOf(c) + i
  <2>1. 2 * PacketOf(c + 2 * i) = c + 2 * i + 2 /\ 2 * PacketOf(c) = c + 2
        /\ PacketOf(c + 2 * i) \in Nat /\ PacketOf(c) \in Nat
    BY <1>2, Halves
  <2> QED
    BY <1>2, <2>1
<1>4. PacketOf(c + 2 * i) \in Damaged \cup S
  <2>1. CASE c + 2 * i < held
    <3>1. stream[PacketOf(c + 2 * i)].k = "nosync"
      BY <1>1, <1>2, <2>1 DEF SyncByte
    <3>2. PacketOf(c + 2 * i) \in 1..Len(stream)
      <4>1. 2 * PacketOf(c + 2 * i) = c + 2 * i + 2 /\ PacketOf(c + 2 * i) \in Nat \ {0}
        BY <1>2, Halves
      <4>2. Cells = 2 * Len(stream) /\ Len(stream) \in Nat
        BY StreamFacts
      <4>3. c + 2 * i < 2 * Len(stream)
        BY <1>2, <4>2
      <4> QED
        BY <1>2, <4>1, <4>2, <4>3
    <3> QED
      BY <3>1, <3>2, StreamFacts DEF Damaged
  <2>2. CASE ~(c + 2 * i < held)
    BY <1>2, <2>2
  <2> QED
    BY <2>1, <2>2
<1>5. PacketOf(c) \in Int
  BY Halves
<1>6. PacketOf(c) + i \in PacketOf(c)..(PacketOf(c) + 3)
  BY <1>2, <1>5
<1> QED
  BY <1>3, <1>4, <1>6

(* What is passed over because it is not found in step lies near a damage. *)
LEMMA ScanNear ==
  ASSUME stream \in Streams, NEW a \in Nat, NEW b \in Nat,
         NEW k \in 0..4, NEW end \in Nat, NEW held \in Nat, end <= Cells,
         \A c \in a..(b - 1) : c + 2 * k < end + 2 /\ ~Syncs(c, k, held),
         NEW S, \A e \in held..(end - 1) : PacketOf(e) \in S
  PROVE  \A n \in Passed(a, b) : \E m \in n..(n + 3) : m \in Damaged \cup S
<1> SUFFICES ASSUME NEW n \in Passed(a, b)
             PROVE  \E m \in n..(n + 3) : m \in Damaged \cup S
  OBVIOUS
<1>1. PICK c \in a..(b - 1) : c % 2 = 0 /\ n = PacketOf(c)
  BY DEF Passed
<1>2. c \in Nat /\ c + 2 * k < end + 2 /\ ~Syncs(c, k, held)
  BY <1>1
<1> QED
  BY <1>1, <1>2, MissedNear

(* The packet size is looked for.                                          *)
LEMMA DiscoverSync == SyncInv /\ DiscoverSize => SyncInv' /\ Skips
<1> SUFFICES ASSUME SyncInv, DiscoverSize PROVE SyncInv' /\ Skips
  OBVIOUS
<1> DEFINE found == {i \in cur..fed : SizeFound(i)}
           i == IF found = {} THEN fed - Beyond ELSE Min(found)
<1>1. /\ lost' = lost \cup Passed(cur, i)
      /\ spoilt' = spoilt \cup {PacketOf(c) : c \in Mapped..(fed - 1)}
      /\ IF found = {}
         THEN Flush(i) /\ Stop /\ UNCHANGED sized
         ELSE /\ cur' = i /\ top' = fed /\ valid' = Mapped /\ sized' = TRUE
              /\ UNCHANGED <<pc, needSync>>
      /\ UNCHANGED <<stream, fed, bounds, tables, video>>
      /\ pc = "loop" /\ ~sized /\ fed - cur >= 9
  BY DEF DiscoverSize, input, Discover
<1>2. /\ stream \in Streams /\ fed \in Nat /\ cur \in Nat /\ fed <= Cells /\ Cells \in Nat
      /\ top = cur /\ needSync = TRUE /\ bounds \in SUBSET (0..fed) /\ fed \in bounds
      /\ valid \in 0..fed
  BY <1>1, StreamFacts DEF SyncInv, Mapping
<1>3. Mapped \in 0..fed
  <2>1. Min(bounds) \in bounds /\ Min(bounds) \in Int
    <3>1. 0 \in Int /\ fed \in Int /\ bounds # {}
      BY <1>2
    <3> QED
      BY <1>2, <3>1, MinOfMany
  <2> QED
    BY <1>1, <1>2, <2>1 DEF Mapped, Discover
<1>4. found # {} => /\ Min(found) \in found /\ \A y \in found : Min(found) <= y
  <2>1. found \in SUBSET (cur..fed) /\ cur \in Int /\ fed \in Int
    BY <1>2
  <2> HIDE DEF found
  <2> QED
    BY <2>1, MinOfMany
<1>5. i \in cur..fed /\ i + 6 <= fed /\ \A c \in cur..(i - 1) : c \notin found
  <2>1. CASE found = {}
    BY <1>1, <1>2, <2>1 DEF Beyond
  <2>2. CASE found # {}
    <3>1. i \in found /\ \A y \in found : i <= y
      BY <1>4, <2>2
    <3>2. i \in cur..fed /\ i + 6 <= fed
      BY <1>2, <3>1 DEF SizeFound, Beyond
    <3> HIDE DEF found, i
    <3> QED
      BY <1>2, <3>1, <3>2
  <2> QED
    BY <2>1, <2>2
<1>6. \A c \in cur..(i - 1) : c + 2 * 4 < fed + 2 /\ ~Syncs(c, 4, Mapped)
  <2> SUFFICES ASSUME NEW c \in cur..(i - 1)
               PROVE  c + 2 * 4 < fed + 2 /\ ~Syncs(c, 4, Mapped)
    OBVIOUS
  <2>1. i \in Nat /\ c \in cur..fed /\ c < i
    <3> HIDE DEF i
    <3> QED
      BY <1>2, <1>5
  <2>2. c + 6 < fed /\ c \in Nat /\ c \notin found
    <3> HIDE DEF i, found
    <3> QED
      BY <1>2, <1>5, <2>1
  <2>3. ~SizeFound(c)
    BY <2>1, <2>2
  <2> QED
    BY <1>2, <2>2, <2>3 DEF SizeFound, Beyond
<1>7. i \in Nat
  <2> HIDE DEF i
  <2> QED
    BY <1>2, <1>5
<1> HIDE DEF i, found
<1>8. \A e \in Mapped..(fed - 1) : PacketOf(e) \in spoilt'
  BY <1>1
<1>9. \A n \in Passed(cur, i) : \E m \in n..(n + 3) : m \in Damaged \cup spoilt'
  <2>1. 4 \in 0..4 /\ Mapped \in Nat
    BY <1>2, <1>3
  <2> QED
    BY <1>2, <1>6, <1>7, <1>8, <2>1, ScanNear
<1>10. cur' = i /\ UNCHANGED <<stream, fed, bounds>> /\ Cells' = Cells
  BY <1>1 DEF Flush, Cells
<1>11. Skips
  <2>1. i \in cur..Cells
    BY <1>2, <1>5, <1>7
  <2> QED
    BY <1>1, <1>9, <1>10, <2>1 DEF Skips
<1>12. CASE found = {}
  <2>1. /\ top' = i /\ valid' = i /\ needSync' = TRUE /\ pc' = "idle" /\ sized' = FALSE
    BY <1>1, <1>2, <1>12 DEF Flush, Stop, SyncInv, Mapping
  <2>2. i = fed - 6
    BY <1>12 DEF i, Beyond
  <2>3. fed' \in 0..Cells' /\ cur' \in 0..fed' /\ top' \in cur'..fed' /\ valid' \in 0..fed'
    BY <1>2, <1>5, <1>7, <1>10, <2>1
  <2>4. Mapping'
    BY <1>2, <1>10, <2>1, <2>3 DEF Mapping
  <2>5. LittleHeldBack'
    BY <1>2, <1>10, <2>1, <2>2 DEF LittleHeldBack, Discover
  <2>6. Unheld'
    BY <1>7, <1>10, <2>1 DEF Unheld
  <2> QED
    BY <1>11, <2>4, <2>5, <2>6 DEF SyncInv
<1>13. CASE found # {}
  <2>1. /\ top' = fed /\ valid' = Mapped /\ needSync' = TRUE /\ pc' = "loop" /\ sized' = TRUE
    BY <1>1, <1>2, <1>13
  <2>2. fed' \in 0..Cells' /\ cur' \in 0..fed' /\ top' \in cur'..fed' /\ valid' \in 0..fed'
    BY <1>2, <1>3, <1>5, <1>7, <1>10, <2>1
  <2>3. Mapping'
    BY <1>2, <1>10, <2>1, <2>2 DEF Mapping
  <2>4. LittleHeldBack'
    BY <2>1 DEF LittleHeldBack
  <2>5. Unheld'
    BY <1>8, <1>10, <2>1 DEF Unheld, PacketOf
  <2> QED
    BY <1>11, <2>3, <2>4, <2>5 DEF SyncInv
<1> QED
  BY <1>12, <1>13

(* The next packet is looked for: in the old map, which reaches to the end, *)
(* or in a new one of all there is.                                        *)
LEMMA SynchroniseSync == SyncInv /\ Synchronise => SyncInv' /\ Skips
<1> SUFFICES ASSUME SyncInv, Synchronise PROVE SyncInv' /\ Skips
  OBVIOUS
<1> DEFINE old == top - cur >= 6
           end == IF old THEN top ELSE fed
           held == IF old THEN valid ELSE fed
           found == {i \in cur..end : i + 4 < end /\ Syncs(i, 3, held)}
           i == IF found = {} THEN end - 4 ELSE Min(found)
<1>1. /\ lost' = lost \cup Passed(cur, i)
      /\ IF found = {}
         THEN Flush(i) /\ Stop
         ELSE cur' = i /\ top' = end /\ valid' = held /\ needSync' = FALSE /\ UNCHANGED pc
      /\ UNCHANGED <<stream, fed, bounds, sized, spoilt, tables, video>>
      /\ pc = "loop" /\ sized /\ fed - cur >= 6
  BY DEF Synchronise, input
<1>2. /\ stream \in Streams /\ fed \in Nat /\ cur \in Nat /\ fed <= Cells /\ Cells \in Nat
      /\ top \in Nat /\ valid \in 0..fed /\ bounds \subseteq 0..fed /\ (top = cur \/ top = fed)
  BY <1>1, StreamFacts DEF SyncInv, Mapping
<1>3. end = fed /\ held \in 0..fed
  BY <1>2
<1>4. \A e \in held..(fed - 1) : PacketOf(e) \in spoilt
  <2>1. CASE old
    BY <1>2, <2>1 DEF SyncInv, Unheld
  <2>2. CASE ~old
    BY <1>2, <2>2
  <2> QED
    BY <2>1, <2>2
<1> HIDE DEF end, held
<1>5. found # {} => /\ Min(found) \in found /\ \A y \in found : Min(found) <= y
  <2>1. found \in SUBSET (cur..fed) /\ cur \in Int /\ fed \in Int
    BY <1>2, <1>3
  <2> HIDE DEF found
  <2> QED
    BY <2>1, MinOfMany
<1>6. i \in cur..fed /\ i + 4 <= fed /\ \A c \in cur..(i - 1) : c \notin found
  <2>1. CASE found = {}
    BY <1>1, <1>2, <1>3, <2>1
  <2>2. CASE found # {}
    <3>1. i \in found /\ \A y \in found : i <= y
      BY <1>5, <2>2
    <3>2. i \in cur..fed /\ i + 4 <= fed
      BY <1>2, <1>3, <3>1
    <3> HIDE DEF found, i
    <3> QED
      BY <1>2, <3>1, <3>2
  <2> QED
    BY <2>1, <2>2
<1>7. i \in Nat
  <2> HIDE DEF i
  <2> QED
    BY <1>2, <1>6
<1>8. \A c \in cur..(i - 1) : c + 2 * 3 < fed + 2 /\ ~Syncs(c, 3, held)
  <2> SUFFICES ASSUME NEW c \in cur..(i - 1)
               PROVE  c + 2 * 3 < fed + 2 /\ ~Syncs(c, 3, held)
    OBVIOUS
  <2>1. c \in Nat /\ c \in cur..fed /\ c + 4 < fed /\ c \notin found
    <3> HIDE DEF i, found
    <3> QED
      BY <1>2, <1>6, <1>7
  <2> QED
    BY <1>2, <1>3, <2>1
<1> HIDE DEF i, found
<1>9. \A n \in Passed(cur, i) : \E m \in n..(n + 3) : m \in Damaged \cup spoilt
  <2>1. 3 \in 0..4 /\ held \in Nat
    BY <1>2, <1>3
  <2> QED
    BY <1>2, <1>4, <1>7, <1>8, <2>1, ScanNear
<1>10. cur' = i /\ UNCHANGED <<stream, fed, bounds>> /\ Cells' = Cells
  BY <1>1 DEF Flush, Cells
<1>11. Skips
  <2>1. i \in cur..Cells
    BY <1>2, <1>6, <1>7
  <2> QED
    BY <1>1, <1>9, <1>10, <2>1 DEF Skips
<1>12. CASE found = {}
  <2>1. /\ top' = i /\ valid' = i /\ needSync' = TRUE /\ pc' = "idle" /\ sized' = TRUE
    BY <1>1, <1>12 DEF Flush, Stop, SyncInv, Mapping
  <2>2. i = fed - 4
    BY <1>3, <1>12 DEF i
  <2>3. fed' \in 0..Cells' /\ cur' \in 0..fed' /\ top' \in cur'..fed' /\ valid' \in 0..fed'
    BY <1>2, <1>6, <1>7, <1>10, <2>1
  <2>4. Mapping'
    BY <1>2, <1>10, <2>1, <2>3 DEF Mapping
  <2>5. LittleHeldBack'
    BY <1>2, <1>10, <2>1, <2>2 DEF LittleHeldBack
  <2>6. Unheld'
    BY <1>7, <1>10, <2>1 DEF Unheld
  <2> QED
    BY <1>11, <2>4, <2>5, <2>6 DEF SyncInv
<1>13. CASE found # {}
  <2>1. /\ top' = fed /\ valid' = held /\ needSync' = FALSE /\ pc' = "loop" /\ sized' = TRUE
    BY <1>1, <1>3, <1>13 DEF SyncInv, Mapping
  <2>2. fed' \in 0..Cells' /\ cur' \in 0..fed' /\ top' \in cur'..fed' /\ valid' \in 0..fed'
    BY <1>2, <1>3, <1>6, <1>7, <1>10, <2>1
  <2>3. top' - cur' >= 2
    BY <1>2, <1>6, <1>7, <1>10, <2>1
  <2>4. Mapping'
    BY <1>2, <1>10, <2>1, <2>2, <2>3 DEF Mapping
  <2>5. LittleHeldBack'
    BY <2>1 DEF LittleHeldBack
  <2>6. Unheld'
    BY <1>1, <1>4, <1>10, <2>1 DEF Unheld, PacketOf
  <2> QED
    BY <1>11, <2>4, <2>5, <2>6 DEF SyncInv
<1> QED
  BY <1>12, <1>13

(* The chain function returns for more.                                    *)
LEMMA NeedMoreSync == SyncInv /\ NeedMore => SyncInv' /\ Skips
<1> SUFFICES ASSUME SyncInv, NeedMore PROVE SyncInv' /\ Skips
  OBVIOUS
<1>1. /\ IF sized THEN needSync /\ fed - cur < 6 ELSE fed - cur < 9
      /\ cur' = cur /\ top' = cur /\ valid' = cur /\ needSync' = TRUE /\ pc' = "idle"
      /\ UNCHANGED <<stream, fed, bounds, sized, lost, spoilt, tables, video>>
  BY DEF NeedMore, Flush, Stop, Discover, input
<1>2. Mapping /\ Cells' = Cells
  BY <1>1 DEF SyncInv, Cells
<1>3. cur \in 0..fed /\ cur \in Nat /\ fed \in 0..Cells /\ fed \in Nat
  BY <1>2, StreamFacts DEF Mapping
<1>4. Mapping'
  BY <1>1, <1>2, <1>3 DEF Mapping
<1>5. LittleHeldBack' /\ Unheld'
  BY <1>1, <1>3 DEF LittleHeldBack, Unheld, Discover
<1> QED
  BY <1>1, <1>2, <1>4, <1>5, StaySkips DEF SyncInv

(* The next bytes are not in step.                                         *)
LEMMA LostSyncSync == SyncInv /\ LostSync => SyncInv' /\ Skips
<1> SUFFICES ASSUME SyncInv, LostSync PROVE SyncInv' /\ Skips
  OBVIOUS
<1>1. /\ needSync' = TRUE /\ pc = "loop" /\ sized /\ ~needSync
      /\ UNCHANGED <<stream, fed, bounds, pc, cur, top, valid, sized, lost, spoilt, tables, video>>
  BY DEF LostSync, input
<1>2. Mapping /\ Cells' = Cells
  BY <1>1 DEF SyncInv, Cells
<1>3. Mapping'
  BY <1>1, <1>2 DEF Mapping
<1>4. LittleHeldBack' /\ Unheld'
  BY <1>1 DEF LittleHeldBack, Unheld, SyncInv, PacketOf
<1> QED
  BY <1>1, <1>2, <1>3, <1>4, StaySkips DEF SyncInv

(* A packet is taken out of the map.                                       *)
LEMMA PacketSync == SyncInv /\ Parsing /\ NextPacket => SyncInv' /\ Takes
<1> SUFFICES ASSUME SyncInv, Parsing, NextPacket PROVE SyncInv' /\ Takes
  OBVIOUS
<1>1. /\ pc \in {"loop", "parse"} /\ sized /\ ~needSync /\ SyncByte(cur, valid)
      /\ ClearPacket /\ pc' = "loop"
  <2>1. ClearPacket
    BY DEF NextPacket, BadPacket, OtherPacket, Pat, Pmt, EarlyStart, ContPacket, EndOfPes
  <2>2. pc' = "loop"
    BY <2>1 DEF ClearPacket
  <2>3. CASE EndOfPes
    BY <2>1, <2>2, <2>3 DEF EndOfPes, Parsing
  <2>4. CASE ~EndOfPes
    BY <2>1, <2>2, <2>4 DEF NextPacket, BadPacket, OtherPacket, Pat, Pmt, EarlyStart, ContPacket,
                            HasPacket
  <2> QED
    BY <2>3, <2>4
<1>2. /\ UNCHANGED <<stream, fed, sized, bounds, lost, spoilt>> /\ cur' = cur + 2
      /\ \/ top' = cur + 2 /\ valid' = cur + 2 /\ needSync' = TRUE
         \/ top - cur >= 4 /\ top' = top /\ valid' = valid /\ needSync' = needSync
  <2>1. top - cur < 4 \/ top - cur >= 4
    BY DEF SyncInv, Mapping
  <2> QED
    BY <1>1, <2>1 DEF ClearPacket, Flush, input
<1>3. /\ stream \in Streams /\ top = fed /\ cur \in Nat /\ fed \in Nat /\ Cells \in Nat /\ fed <= Cells
      /\ valid \in 0..fed /\ top - cur >= 2 /\ bounds \subseteq 0..fed
  BY <1>1, StreamFacts DEF SyncInv, Mapping
<1>4. Cells' = Cells
  BY <1>2 DEF Cells
<1>5. Mapping'
  <2>1. fed' \in 0..Cells' /\ cur' \in 0..fed' /\ top' \in cur'..fed' /\ valid' \in 0..fed'
    BY <1>2, <1>3, <1>4
  <2>2. top' = cur' \/ (top' = fed' /\ top' - cur' >= 2)
    BY <1>2, <1>3
  <2>3. needSync' = TRUE \/ (needSync' = FALSE /\ top' = fed' /\ top' - cur' >= 2)
    BY <1>1, <1>2, <1>3 DEF SyncInv, Mapping
  <2>4. stream' \in Streams /\ pc' = "loop" /\ sized' = TRUE /\ bounds' \subseteq 0..fed'
    BY <1>1, <1>2, <1>3 DEF SyncInv, Mapping
  <2> QED
    BY <2>1, <2>2, <2>3, <2>4 DEF Mapping
<1>6. LittleHeldBack'
  BY <1>1, <1>2 DEF LittleHeldBack
<1>7. Unheld'
  <2>1. \A e \in valid..(fed - 1) : PacketOf(e) \in spoilt
    BY <1>3 DEF SyncInv, Unheld
  <2> QED
    BY <1>2, <1>3, <2>1 DEF Unheld, PacketOf
<1>8. Takes
  BY <1>1, <1>2, <1>3 DEF Takes, SyncByte
<1> QED
  BY <1>5, <1>6, <1>7, <1>8 DEF SyncInv

(* The parser leaves the map.                                              *)
LEMMA ParseSync ==
  ASSUME SyncInv, Parsing, StartPacket \/ ParseNal \/ ParseEnds
  PROVE  SyncInv' /\ Parsing' /\ Parses
<1>1. Parses
  BY DEF StartPacket, ParseNal, ParseEnds, Parses, parser
<1>2. /\ sized /\ ~needSync /\ SyncByte(cur, valid) /\ stream[PacketOf(cur)].k = "start" /\ codec # ""
      /\ pc \in {"loop", "parse"}
  BY DEF StartPacket, ParseNal, ParseEnds, HasPacket, Packet, Parsing
<1>3. /\ UNCHANGED <<stream, fed, bounds, cur, top, valid, sized, needSync, lost, spoilt, codec>>
      /\ pc' = "parse"
  BY <1>1 DEF Parses, input, sync, tables
<1>4. Parsing'
  BY <1>2, <1>3 DEF Parsing, SyncByte, PacketOf
<1>5. Mapping'
  BY <1>2, <1>3 DEF SyncInv, Mapping, Cells
<1>6. Unheld' /\ LittleHeldBack'
  BY <1>2, <1>3 DEF SyncInv, Unheld, LittleHeldBack, PacketOf
<1> QED
  BY <1>1, <1>4, <1>5, <1>6 DEF SyncInv

-----------------------------------------------------------------------------
(* Sequences of sequences.                                                 *)

(* The recursion of FlattenSeq over the first sequences.                   *)
Flat(f, s, i) == IF i = 1 THEN s[i] ELSE f[i - 1] \o s[i]
Flattens(f, s, m) == f = [i \in 1..m |-> Flat(f, s, i)]

(* It is the one of a function that exists.                                *)
LEMMA FlattensExists ==
  ASSUME NEW s
  PROVE  \A m \in Nat : \E f : Flattens(f, s, m)
<1>1. ASSUME NEW m \in Nat, NEW f, Flattens(f, s, m)
      PROVE  \E g : Flattens(g, s, m + 1)
  <2> DEFINE g == [i \in 1..(m + 1) |-> IF i = m + 1 THEN Flat(f, s, i) ELSE f[i]]
  <2>1. \A i \in 1..(m + 1) : i # 1 => g[i - 1] = f[i - 1]
    OBVIOUS
  <2>2. \A i \in 1..(m + 1) : i = m + 1 \/ i \in 1..m
    OBVIOUS
  <2>3. \A i \in 1..m : f[i] = Flat(f, s, i)
    BY <1>1 DEF Flattens
  <2>4. \A i \in 1..(m + 1) : Flat(f, s, i) = Flat(g, s, i)
    <3> HIDE DEF g
    <3> QED
      BY <2>1 DEF Flat
  <2>5. \A i \in 1..(m + 1) : g[i] = Flat(g, s, i)
    BY <2>2, <2>3, <2>4
  <2>6. g = [i \in 1..(m + 1) |-> g[i]]
    OBVIOUS
  <2> HIDE DEF g
  <2> QED
    BY <2>5, <2>6 DEF Flattens
<1>2. \E f : Flattens(f, s, 0)
  <2> DEFINE g == [i \in 1..0 |-> s[i]]
  <2>1. \A i \in 1..0 : g[i] = Flat(g, s, i)
    OBVIOUS
  <2>2. g = [i \in 1..0 |-> g[i]]
    OBVIOUS
  <2> HIDE DEF g
  <2> QED
    BY <2>1, <2>2 DEF Flattens
<1> SUFFICES ASSUME NEW S, S = {m \in Nat : ~ \E f : Flattens(f, s, m)}, S # {} PROVE FALSE
  OBVIOUS
<1>3. S \in SUBSET Nat
  OBVIOUS
<1>4. PICK m \in S : \A y \in S : m <= y
  BY <1>3, Least
<1>5. m \in Nat /\ m # 0
  BY <1>2
<1>6. m - 1 \in Nat /\ m - 1 \notin S
  BY <1>4, <1>5
<1>7. PICK f : Flattens(f, s, m - 1)
  BY <1>6
<1>8. (m - 1) + 1 = m
  BY <1>5
<1> QED
  BY <1>1, <1>6, <1>7, <1>8

(* FlattenSeq takes the last value of such a function.                     *)
LEMMA FlattenIs ==
  ASSUME NEW s, Len(s) \in Nat, Len(s) # 0
  PROVE  \E f : Flattens(f, s, Len(s)) /\ FlattenSeq(s) = f[Len(s)]
<1> DEFINE Ok(f) == f = [i \in 1..Len(s) |-> IF i = 1 THEN s[i] ELSE f[i - 1] \o s[i]]
<1>1. Ok(CHOOSE f : Ok(f))
  <2>1. \E f : Ok(f)
    BY FlattensExists DEF Flattens, Flat
  <2> QED
    BY <2>1
<1>2. FlattenSeq(s) = (CHOOSE f : Ok(f))[Len(s)]
  BY Zenon DEF FlattenSeq
<1>3. Flattens(CHOOSE f : Ok(f), s, Len(s))
  BY <1>1 DEF Flattens, Flat
<1> QED
  BY <1>2, <1>3

(* The values of such a function are sequences of the same elements.       *)
LEMMA FlattensType ==
  ASSUME NEW T, NEW s \in Seq(Seq(T)), NEW f, NEW m \in 0..Len(s), Flattens(f, s, m)
  PROVE  \A i \in 1..m : f[i] \in Seq(T)
<1> SUFFICES ASSUME NEW S, S = {i \in 1..m : f[i] \notin Seq(T)}, S # {} PROVE FALSE
  OBVIOUS
<1>1. S \in SUBSET Nat
  OBVIOUS
<1>2. PICK i \in S : \A y \in S : i <= y
  BY <1>1, Least
<1>3. i \in 1..m /\ f[i] = Flat(f, s, i) /\ s[i] \in Seq(T)
  <2>1. i \in 1..m /\ i \in 1..Len(s)
    OBVIOUS
  <2>2. f[i] = Flat(f, s, i)
    BY <2>1 DEF Flattens
  <2>3. s[i] \in Seq(T)
    BY <2>1
  <2> QED
    BY <2>1, <2>2, <2>3
<1>4. i # 1 => i - 1 \in 1..m /\ i - 1 \notin S
  BY <1>2, <1>3
<1>5. f[i] \in Seq(T)
  BY <1>3, <1>4 DEF Flat
<1> QED
  BY <1>5

(* A sequence more at the end is appended to the whole.                    *)
LEMMA FlattenAppend ==
  ASSUME NEW T, NEW s \in Seq(Seq(T)), NEW x \in Seq(T)
  PROVE  /\ FlattenSeq(s) \in Seq(T)
         /\ FlattenSeq(Append(s, x)) = FlattenSeq(s) \o x
<1> DEFINE t == Append(s, x)
           n == Len(s)
<1>1. t \in Seq(Seq(T)) /\ Len(t) = n + 1 /\ n \in Nat /\ t[n + 1] = x /\ \A i \in 1..n : t[i] = s[i]
  OBVIOUS
<1> HIDE DEF t
<1>2. PICK f : Flattens(f, t, n + 1) /\ FlattenSeq(t) = f[n + 1]
  BY <1>1, FlattenIs
<1>3. \A i \in 1..(n + 1) : f[i] = Flat(f, t, i)
  BY <1>2 DEF Flattens
<1>4. CASE n = 0
  <2>1. FlattenSeq(s) = s /\ s = <<>>
    BY <1>4 DEF FlattenSeq
  <2>2. f[1] = x
    BY <1>1, <1>3, <1>4 DEF Flat
  <2> QED
    BY <1>2, <1>4, <2>1, <2>2 DEF t
<1>5. CASE n # 0
  <2>1. PICK g : Flattens(g, s, n) /\ FlattenSeq(s) = g[n]
    BY <1>1, <1>5, FlattenIs
  <2>2. \A i \in 1..n : g[i] = Flat(g, s, i)
    BY <2>1 DEF Flattens
  <2>3. \A i \in 1..n : f[i] = g[i]
    <3> DEFINE S == {i \in 1..n : f[i] # g[i]}
    <3> SUFFICES ASSUME S # {} PROVE FALSE
      OBVIOUS
    <3>1. S \in SUBSET Nat
      BY <1>1
    <3>2. PICK i \in S : \A y \in S : i <= y
      BY <3>1, Least
    <3>3. i \in 1..n /\ f[i] = Flat(f, t, i) /\ g[i] = Flat(g, s, i) /\ t[i] = s[i] /\ f[i] # g[i]
      BY <1>1, <1>3, <2>2
    <3>4. i # 1 => f[i - 1] = g[i - 1]
      BY <1>1, <3>2, <3>3
    <3> QED
      BY <3>3, <3>4 DEF Flat
  <2>4. f[n + 1] = g[n] \o x
    <3>1. n + 1 \in 1..(n + 1) /\ n + 1 # 1 /\ (n + 1) - 1 = n /\ n \in 1..n
      BY <1>1, <1>5
    <3> QED
      BY <1>1, <1>3, <2>3, <3>1 DEF Flat
  <2>5. g[n] \in Seq(T)
    <3>1. n \in 0..Len(s) /\ n \in 1..n
      BY <1>1, <1>5
    <3> QED
      BY <2>1, <3>1, FlattensType
  <2> QED
    BY <1>2, <2>1, <2>4, <2>5 DEF t
<1> QED
  BY <1>4, <1>5


-----------------------------------------------------------------------------
(* What the parser counts.                                                 *)

(* What it may hold: the last parameter set, and counts.                   *)
ParameterSets == {x \in Nal : x.t = "sps"} \cup {NoSps}

Decoders == [sps : ParameterSets, pps : BOOLEAN, struct : Nat, pre : Nal, duration : Nat,
             frames : Nat, sum : Nat, frame : BOOLEAN, key : BOOLEAN]

(* Any picture of the stream lasts as long as any other.                   *)
OneRate == \A r, q \in Paces : r = q

(* What the headers of slices and the SEI say of how long a picture lasts. *)
Fields == {FALSE} \cup {x.field : x \in {x \in Nals : x.t = "slice"}}
Structs == {2} \cup {x.struct : x \in {x \in Nals : x.t = "sei"}}

(* What it holds it has read.                                              *)
Own(d) ==
  /\ d.sps.set => d.sps \in Nals /\ d.sps.t = "sps"
  /\ d.struct \in Structs
  /\ d.pps => d.sps.set

(* The frames counted so far last as long as p, the time of the next       *)
(* buffer, and the frames in it: all of them last as long as the last one, *)
(* or, when H.265 parameter sets do not say, as it was set at first.       *)
Timed(d, p) ==
  /\ d.frames * d.duration = p + d.sum
  /\ codec = "h264" /\ d.frames # 0 => d.duration \in Paces
  /\ codec # "h264" =>
       /\ d.frames # 0 => d.sps.set
       /\ d.duration = IF d.sps.set /\ d.sps.rate # 0 THEN Lasts(d.sps, FALSE, 2) ELSE 4

(* Products of counts and durations.                                       *)
LEMMA Distributes ==
  ASSUME NEW a \in Nat, NEW b \in Nat, NEW c \in Nat
  PROVE  (a + b) * c = a * c + b * c /\ a * c \in Nat /\ 0 * c = 0 /\ 1 * c = c
  OBVIOUS

(* A slice adds some number of frames.                                     *)
LEMMA Counted ==
  ASSUME NEW poc, NEW pre, NEW s
  PROVE  NewFrames(poc, pre, s) \in Nat
<1>1. \A b \in BOOLEAN : One(b) \in {0, 1}
  BY DEF One
<1>2. /\ One(s.bottom # pre.bottom /\ ~s.bottom) \in {0, 1}
      /\ One(s.poc1 # pre.poc1) \in {0, 1} /\ One(s.poc2 # pre.poc2) \in {0, 1}
      /\ One(s.idr # pre.idr \/ (s.idr /\ s.id # pre.id)) \in {0, 1}
  BY DEF One
<1> QED
  BY <1>2 DEF NewFrames

(* The kinds of NAL units.                                                 *)
LEMMA NalKinds ==
  ASSUME NEW x \in Nal
  PROVE  /\ x.t \in {"sps", "pps", "sei", "slice"}
         /\ x.t = "sps" => x \in ParameterSets /\ x.rate \in Nat /\ x.set = TRUE
         /\ x.t = "sei" => x.struct \in Nat
         /\ x.t = "slice" => x.field \in BOOLEAN /\ x.pic \in Nat /\ x.ref \in Int /\ x.idr \in BOOLEAN
                             /\ x.intra \in BOOLEAN /\ x.first \in BOOLEAN
  BY DEF Nal, ParameterSets

(* The kinds of units of a payload.                                        *)
LEMMA UnitKinds ==
  ASSUME NEW x \in Units
  PROVE  /\ x.t \in {"sps", "pps", "sei", "slice"} => x \in Nal
         /\ x.t \in {"cut", "tail"} => x.nal \in Nal
  BY DEF Units, Nal

(* The packets of the video stream have units.                             *)
LEMMA VideoUnits ==
  ASSUME stream \in Streams
  PROVE  /\ Video \subseteq 1..Len(stream) /\ Len(stream) \in Nat
         /\ \A n \in Video : stream[n].units \in Seq(Units)
<1>1. Video \subseteq 1..Len(stream) /\ Len(stream) \in Nat
  BY StreamFacts DEF Video
<1>2. ASSUME NEW n \in Video PROVE stream[n].units \in Seq(Units)
  <2>1. stream[n] \in Packets /\ stream[n].k \in {"start", "cont"}
    BY <1>1, StreamFacts DEF Video
  <2> QED
    BY <2>1 DEF Packets
<1> QED
  BY <1>1, <1>2

(* What the parser may read are NAL units.                                 *)
LEMMA NalsAre ==
  ASSUME stream \in Streams
  PROVE  Nals \subseteq Nal
<1>1. ASSUME NEW n \in Video, NEW x \in NalsOf(stream[n].units) PROVE x \in Nal
  <2>1. PICK y \in ToSet(stream[n].units) : x = Said(y) /\ x.t \in {"sps", "pps", "sei", "slice"}
    BY <1>1 DEF NalsOf
  <2>2. y \in Units
    <3>1. stream[n].units \in Seq(Units)
      BY VideoUnits
    <3> QED
      BY <3>1 DEF ToSet
  <2> QED
    BY <2>1, <2>2, UnitKinds DEF Said
<1> QED
  BY <1>1, SegmentAssumption DEF Nals

(* How long a picture may last.                                            *)
LEMMA PaceOf ==
  ASSUME stream \in Streams, NEW p \in Nals, p.t = "sps", NEW field \in Fields, NEW struct \in Structs
  PROVE  /\ Lasts(p, field, struct) \in Paces /\ Lasts(p, field, struct) \in Nat
         /\ Lasts(p, FALSE, 2) \in Paces /\ Lasts(p, FALSE, 2) \in Nat
         /\ Lasts(p, FALSE, 2) = 0 <=> p.rate = 0
<1>1. Nals \subseteq Nal /\ p.rate \in Nat
  BY NalsAre, NalKinds
<1>2. struct \in Nat /\ 2 \in Structs /\ FALSE \in Fields
  <2>1. \A x \in Nals : x.t = "sei" => x.struct \in Nat
    BY <1>1, NalKinds
  <2> QED
    BY <2>1 DEF Structs, Fields
<1>3. \A f \in Fields, s \in Structs : Lasts(p, f, s) \in Paces
  <2> DEFINE All == {Lasts(q, g, r) : q \in {x \in Nals : x.t = "sps"}, g \in Fields, r \in Structs}
  <2>1. \A f \in Fields, s \in Structs : Lasts(p, f, s) \in All
    OBVIOUS
  <2>2. Paces = All
    BY DEF Paces, Fields, Structs
  <2> HIDE DEF All
  <2> QED
    BY <2>1, <2>2, Zenon
<1>4. ASSUME NEW f \in Fields, NEW s \in Nat PROVE Lasts(p, f, s) \in Nat
  <2> DEFINE one == IF p.structs THEN s ELSE IF f THEN 1 ELSE 2
             two == IF f THEN 2 ELSE 1
  <2>1. one \in Nat /\ two \in Nat
    BY <1>4
  <2> HIDE DEF one, two
  <2>2. one * two \in Nat
    BY <2>1, Distributes
  <2>3. p.rate * (one * two) \in Nat
    BY <1>1, <2>2, Distributes
  <2> QED
    BY <2>3 DEF Lasts, one, two
<1>5. Lasts(p, FALSE, 2) = p.rate * 2
  BY DEF Lasts
<1>6. p.rate * 2 = 0 <=> p.rate = 0
  BY <1>1
<1> QED
  BY <1>1, <1>2, <1>3, <1>4, <1>5, <1>6

(* The types of what the parser holds.                                     *)
LEMMA DecoderFacts ==
  ASSUME NEW d \in Decoders
  PROVE  /\ d.duration \in Nat /\ d.frames \in Nat /\ d.sum \in Nat /\ d.struct \in Nat
         /\ d.frame \in BOOLEAN /\ d.key \in BOOLEAN /\ d.pps \in BOOLEAN
         /\ d.sps \in ParameterSets /\ (d.sps = NoSps \/ (d.sps \in Nal /\ d.sps.t = "sps")) /\ d.pre \in Nal
         /\ d.sps.rate \in Nat /\ d.sps.set \in BOOLEAN
<1>1. d.sps \in ParameterSets /\ (d.sps = NoSps \/ (d.sps \in Nal /\ d.sps.t = "sps"))
  BY DEF Decoders, ParameterSets
<1>2. NoSps.rate \in Nat /\ NoSps.set \in BOOLEAN
  BY DEF NoSps
<1>3. d.sps.rate \in Nat /\ d.sps.set \in BOOLEAN
  <2>1. CASE d.sps = NoSps
    BY <1>2, <2>1, Zenon
  <2>2. CASE d.sps # NoSps
    BY <1>1, <2>2, NalKinds
  <2> QED
    BY <2>1, <2>2
<1> QED
  BY <1>1, <1>3 DEF Decoders

(* A decoder that is of the right kind, has read what it holds, and is in  *)
(* time.                                                                   *)
Stepped(d, e, p) ==
  /\ e \in Decoders /\ Own(e)
  /\ OneRate /\ Timed(d, p) => Timed(e, p)

(* A parameter set of an H.264 stream.                                     *)
LEMMA H264Sps ==
  ASSUME stream \in Streams, NEW d \in Decoders, Own(d), NEW u \in Nals, NEW p \in Nat,
         codec = "h264", u.t = "sps"
  PROVE  Stepped(d, H264Nal(d, u), p)
<1> DEFINE e == H264Nal(d, u)
<1>1. e = [d EXCEPT !.sps = u]
  BY DEF H264Nal
<1>2. u \in ParameterSets /\ u.set = TRUE
  BY NalsAre, NalKinds
<1> HIDE DEF e
<1>3. e \in Decoders
  BY <1>1, <1>2 DEF Decoders
<1>4. /\ e.sps = u /\ e.frames = d.frames /\ e.sum = d.sum /\ e.duration = d.duration
      /\ e.struct = d.struct /\ e.pps = d.pps
  BY <1>1 DEF Decoders
<1>5. Own(e)
  BY <1>2, <1>4 DEF Own
<1>6. Timed(d, p) => Timed(e, p)
  BY <1>4 DEF Timed
<1> QED
  BY <1>3, <1>5, <1>6 DEF Stepped, e

(* A step that changes nothing of the times.                               *)
LEMMA OtherStep ==
  ASSUME NEW d \in Decoders, Own(d), NEW e \in Decoders, NEW p \in Nat,
         e.sps = d.sps, e.frames = d.frames, e.sum = d.sum, e.duration = d.duration,
         e.struct \in Structs, e.pps => d.sps.set
  PROVE  Stepped(d, e, p)
<1>1. Own(e)
  BY DEF Own
<1>2. Timed(d, p) => Timed(e, p)
  BY DEF Timed
<1> QED
  BY <1>1, <1>2 DEF Stepped

(* The other units of an H.264 stream that are no slices, and slices that   *)
(* are not parsed.                                                         *)
LEMMA H264Rest ==
  ASSUME stream \in Streams, NEW d \in Decoders, Own(d), NEW u \in Nals \cup {More}, NEW p \in Nat,
         u.t # "sps", ~(u.t = "slice" /\ d.sps.set /\ d.sps.rate > 0)
  PROVE  Stepped(d, H264Nal(d, u), p)
<1> DEFINE e == H264Nal(d, u)
<1>1. d.struct \in Structs /\ (d.pps => d.sps.set) /\ d.sps.set \in BOOLEAN /\ d.pps \in BOOLEAN
  BY DecoderFacts DEF Own
<1>2. CASE u.t = "pps"
  <2> DEFINE b == d.pps \/ d.sps.set
  <2>1. e = [d EXCEPT !.pps = b]
    BY <1>2 DEF H264Nal, Decoders
  <2>2. b \in BOOLEAN /\ (b => d.sps.set)
    BY <1>1
  <2> HIDE DEF e, b
  <2>3. e \in Decoders
    BY <2>1, <2>2 DEF Decoders
  <2>4. /\ e.sps = d.sps /\ e.frames = d.frames /\ e.sum = d.sum /\ e.duration = d.duration
        /\ e.struct = d.struct /\ e.pps = b
    BY <2>1 DEF Decoders
  <2> QED
    BY <1>1, <2>2, <2>3, <2>4, OtherStep DEF e
<1>3. CASE u.t = "sei" /\ d.sps.set
  <2> DEFINE s == IF d.sps.structs THEN u.struct ELSE 2
  <2>1. e = [d EXCEPT !.struct = s]
    BY <1>3 DEF H264Nal
  <2>2. u \in Nals
    BY <1>3 DEF More
  <2>3. s \in Structs /\ s \in Nat
    BY <1>3, <2>2, NalsAre, NalKinds DEF Structs
  <2> HIDE DEF e, s
  <2>4. e \in Decoders
    BY <2>1, <2>3 DEF Decoders
  <2>5. /\ e.sps = d.sps /\ e.frames = d.frames /\ e.sum = d.sum /\ e.duration = d.duration
        /\ e.struct = s /\ e.pps = d.pps
    BY <2>1 DEF Decoders
  <2> QED
    BY <1>1, <2>3, <2>4, <2>5, OtherStep DEF e
<1>4. CASE u.t # "pps" /\ ~(u.t = "sei" /\ d.sps.set)
  <2>1. e = d
    BY <1>4 DEF H264Nal
  <2> QED
    BY <1>1, <2>1, OtherStep
<1> QED
  BY <1>2, <1>3, <1>4

(* The header of a slice as it is read.                                    *)
LEMMA HdrIs ==
  ASSUME stream \in Streams, NEW d \in Decoders, NEW u \in Nals, u.t = "slice"
  PROVE  /\ Hdr(d, u) \in Nal /\ Hdr(d, u).t = "slice" /\ Hdr(d, u).field \in Fields
         /\ Hdr(d, u).intra = u.intra /\ Hdr(d, u).first = u.first
<1>1. u \in Nal
  BY NalsAre
<1>2. CASE d.pps
  <2>1. Hdr(d, u) = u
    BY <1>2 DEF Hdr
  <2> QED
    BY <1>1, <2>1 DEF Fields
<1>3. CASE ~d.pps
  <2> DEFINE h == Hdr(d, u)
  <2>1. h = [NoSlice EXCEPT !.pic = u.pic, !.ref = u.ref, !.idr = u.idr,
                            !.intra = u.intra, !.first = u.first]
    BY <1>3 DEF Hdr
  <2>2. u.pic \in Nat /\ u.ref \in Int /\ u.idr \in BOOLEAN /\ u.intra \in BOOLEAN /\ u.first \in BOOLEAN
    BY <1>1, NalKinds
  <2> HIDE DEF h
  <2>3. h = [t |-> "slice", pic |-> u.pic, num |-> 0, field |-> FALSE, bottom |-> FALSE,
             ref |-> u.ref, poc1 |-> 0, poc2 |-> 0, idr |-> u.idr, id |-> 0,
             intra |-> u.intra, first |-> u.first]
    BY <2>1 DEF NoSlice
  <2>4. h \in Nal
    <3>1. h \in [t : {"slice"}, pic : Nat, num : Int, field : BOOLEAN, bottom : BOOLEAN, ref : Int,
                 poc1 : Int, poc2 : Int, idr : BOOLEAN, id : Int, intra : BOOLEAN, first : BOOLEAN]
      BY <2>2, <2>3
    <3> QED
      BY <3>1, Zenon DEF Nal
  <2> QED
    BY <2>3, <2>4 DEF Fields, h
<1> QED
  BY <1>2, <1>3

(* A slice of an H.264 stream that is parsed.                              *)
LEMMA H264Slice ==
  ASSUME stream \in Streams, NEW d \in Decoders, Own(d), NEW u \in Nals, NEW p \in Nat,
         codec = "h264", u.t = "slice", d.sps.set, d.sps.rate > 0
  PROVE  Stepped(d, H264Nal(d, u), p)
<1> DEFINE e == H264Nal(d, u)
           s == Hdr(d, u)
           length == Lasts(d.sps, s.field, d.struct)
           n == NewFrames(d.sps.poc, d.pre, s)
           more == d.frames + n
           longer == d.sum + n * length
           new == d.frame \/ n > 0
           key == d.key \/ (s.intra /\ s.first)
<1>1. e = [d EXCEPT !.duration = length, !.frames = more, !.sum = longer,
                    !.frame = new, !.key = key, !.pre = s]
  BY DEF H264Nal, Slice264, Decoders
<1>2. s \in Nal /\ s.field \in Fields /\ d.sps \in Nals /\ d.sps.t = "sps" /\ d.struct \in Structs
  BY HdrIs DEF Own
<1>3. length \in Paces /\ length \in Nat /\ n \in Nat
  BY <1>2, PaceOf, Counted
<1>4. new \in BOOLEAN /\ key \in BOOLEAN
  OBVIOUS
<1> HIDE DEF s, length, n
<1>5. more \in Nat /\ longer \in Nat /\ n * length \in Nat
  <2>1. n * length \in Nat
    BY <1>3, Distributes
  <2> QED
    BY <1>3, <2>1, DecoderFacts
<1> HIDE DEF e, new, key
<1>6. e \in Decoders
  <2> HIDE DEF more, longer
  <2> QED
    BY <1>1, <1>2, <1>3, <1>4, <1>5 DEF Decoders
<1>7. /\ e.sps = d.sps /\ e.frames = more /\ e.sum = longer /\ e.duration = length
      /\ e.struct = d.struct /\ e.pps = d.pps
  <2> HIDE DEF more, longer
  <2> QED
    BY <1>1 DEF Decoders
<1>8. Own(e)
  BY <1>7 DEF Own
<1>9. ASSUME OneRate, Timed(d, p) PROVE Timed(e, p)
  <2>1. d.frames * length = p + d.sum
    <3>1. CASE d.frames = 0
      <4>1. 0 * length = 0 /\ 0 * d.duration = 0
        BY <1>3, DecoderFacts, Distributes
      <4> QED
        BY <1>9, <3>1, <4>1 DEF Timed
    <3>2. CASE d.frames # 0
      <4>1. d.duration = length
        BY <1>3, <1>9, <3>2 DEF Timed, OneRate
      <4> QED
        BY <1>9, <4>1 DEF Timed
    <3> QED
      BY <3>1, <3>2
  <2>2. (d.frames + n) * length = d.frames * length + n * length
    BY <1>3, DecoderFacts, Distributes
  <2>3. e.frames * e.duration = p + e.sum
    BY <1>5, <1>7, <2>1, <2>2, DecoderFacts
  <2> QED
    BY <1>3, <1>7, <2>3 DEF Timed
<1> QED
  BY <1>6, <1>8, <1>9 DEF Stepped, e

(* A parameter set of an H.265 stream.                                     *)
LEMMA H265Sps ==
  ASSUME stream \in Streams, NEW d \in Decoders, Own(d), NEW u \in Nals, NEW p \in Nat,
         codec # "h264", u.t = "sps"
  PROVE  Stepped(d, H265Nal(d, u), p)
<1> DEFINE e == H265Nal(d, u)
           length == IF u.rate = 0 THEN d.duration ELSE Lasts(u, FALSE, 2)
<1>1. e = [d EXCEPT !.sps = u, !.duration = length]
  BY DEF H265Nal, Decoders
<1>2. u \in ParameterSets /\ u.set = TRUE /\ u.rate \in Nat
  BY NalsAre, NalKinds
<1>3. d.duration \in Nat /\ d.frames \in Nat /\ d.sum \in Nat /\ d.sps.rate \in Nat
  BY DecoderFacts
<1>4. FALSE \in Fields /\ 2 \in Structs
  BY DEF Fields, Structs
<1>5. Lasts(u, FALSE, 2) \in Paces /\ Lasts(u, FALSE, 2) \in Nat /\ (Lasts(u, FALSE, 2) = 0 <=> u.rate = 0)
  BY <1>4, PaceOf
<1>6. d.sps.set => /\ Lasts(d.sps, FALSE, 2) \in Paces
                   /\ (Lasts(d.sps, FALSE, 2) = 0 <=> d.sps.rate = 0)
  BY <1>4, PaceOf DEF Own
<1>7. length \in Nat
  BY <1>3, <1>5
<1> HIDE DEF e
<1>8. e \in Decoders
  <2> HIDE DEF length
  <2> QED
    BY <1>1, <1>2, <1>7 DEF Decoders
<1>9. /\ e.sps = u /\ e.frames = d.frames /\ e.sum = d.sum /\ e.duration = length
      /\ e.struct = d.struct /\ e.pps = d.pps
  <2> HIDE DEF length
  <2> QED
    BY <1>1 DEF Decoders
<1>10. Own(e)
  BY <1>2, <1>9 DEF Own
<1>11. ASSUME OneRate, Timed(d, p) PROVE Timed(e, p)
  <2>1. d.sps.set => Lasts(d.sps, FALSE, 2) = Lasts(u, FALSE, 2)
    BY <1>5, <1>6, <1>11 DEF OneRate
  <2>2. /\ d.frames # 0 => d.sps.set
        /\ d.duration = IF d.sps.set /\ d.sps.rate # 0 THEN Lasts(d.sps, FALSE, 2) ELSE 4
    BY <1>11 DEF Timed
  <2>3. length = IF u.rate # 0 THEN Lasts(u, FALSE, 2) ELSE 4
    BY <1>5, <1>6, <2>1, <2>2
  <2>4. d.frames # 0 => length = d.duration
    BY <1>5, <1>6, <2>1, <2>2
  <2>5. e.frames * e.duration = p + e.sum
    <3>1. CASE d.frames = 0
      <4>1. 0 * length = 0 /\ 0 * d.duration = 0
        BY <1>3, <1>7, Distributes
      <4> QED
        BY <1>9, <1>11, <3>1, <4>1 DEF Timed
    <3>2. CASE d.frames # 0
      BY <1>9, <1>11, <2>4, <3>2 DEF Timed
    <3> QED
      BY <3>1, <3>2
  <2> QED
    BY <1>2, <1>9, <2>3, <2>5 DEF Timed
<1> QED
  BY <1>8, <1>10, <1>11 DEF Stepped, e

(* The other units of an H.265 stream.                                     *)
LEMMA H265Rest ==
  ASSUME stream \in Streams, NEW d \in Decoders, Own(d), NEW u \in Nals \cup {More}, NEW p \in Nat,
         codec # "h264", u.t # "sps"
  PROVE  Stepped(d, H265Nal(d, u), p)
<1> DEFINE e == H265Nal(d, u)
<1>1. d.struct \in Structs /\ (d.pps => d.sps.set) /\ d.sps.set \in BOOLEAN /\ d.pps \in BOOLEAN
  BY DecoderFacts DEF Own
<1>2. CASE u.t = "pps"
  <2> DEFINE b == d.pps \/ d.sps.set
  <2>1. e = [d EXCEPT !.pps = b]
    BY <1>2 DEF H265Nal, Decoders
  <2>2. b \in BOOLEAN /\ (b => d.sps.set)
    BY <1>1
  <2> HIDE DEF e, b
  <2>3. e \in Decoders
    BY <2>1, <2>2 DEF Decoders
  <2>4. /\ e.sps = d.sps /\ e.frames = d.frames /\ e.sum = d.sum /\ e.duration = d.duration
        /\ e.struct = d.struct /\ e.pps = b
    BY <2>1 DEF Decoders
  <2> QED
    BY <1>1, <2>2, <2>3, <2>4, OtherStep DEF e
<1>3. CASE u.t = "slice" /\ d.pps /\ u.first
  <2> DEFINE more == d.frames + 1
             longer == d.sum + d.duration
             key == d.key \/ u.intra
  <2>1. e = [d EXCEPT !.frames = more, !.sum = longer, !.frame = TRUE, !.key = key]
    BY <1>3 DEF H265Nal, Decoders
  <2>2. more \in Nat /\ longer \in Nat /\ key \in BOOLEAN
    BY DecoderFacts
  <2> HIDE DEF e, key
  <2>3. e \in Decoders
    <3> HIDE DEF more, longer
    <3> QED
      BY <2>1, <2>2 DEF Decoders
  <2>4. /\ e.sps = d.sps /\ e.frames = more /\ e.sum = longer /\ e.duration = d.duration
        /\ e.struct = d.struct /\ e.pps = d.pps
    <3> HIDE DEF more, longer
    <3> QED
      BY <2>1 DEF Decoders
  <2>5. Own(e)
    BY <2>4 DEF Own
  <2>6. ASSUME Timed(d, p) PROVE Timed(e, p)
    <3>1. (d.frames + 1) * d.duration = d.frames * d.duration + d.duration
      BY DecoderFacts, Distributes
    <3>2. e.frames * e.duration = p + e.sum
      BY <2>4, <2>6, <3>1, DecoderFacts DEF Timed
    <3> QED
      BY <1>1, <1>3, <2>4, <2>6, <3>2 DEF Timed
  <2> QED
    BY <2>3, <2>5, <2>6 DEF Stepped, e
<1>4. CASE u.t # "pps" /\ ~(u.t = "slice" /\ d.pps /\ u.first)
  <2>1. e = d
    BY <1>4 DEF H265Nal
  <2> QED
    BY <1>1, <2>1, OtherStep
<1> QED
  BY <1>2, <1>3, <1>4

(* A NAL unit, or what is no NAL unit.                                     *)
Parsed(d, u) == IF codec = "h264" THEN H264Nal(d, u) ELSE H265Nal(d, u)

LEMMA NalStep ==
  ASSUME stream \in Streams, NEW d \in Decoders, Own(d), NEW u \in Nals \cup {More}, NEW p \in Nat
  PROVE  Stepped(d, Parsed(d, u), p)
<1>1. More.t = "more"
  BY DEF More
<1>2. CASE codec = "h264"
  <2>1. Parsed(d, u) = H264Nal(d, u)
    BY <1>2 DEF Parsed
  <2> QED
    BY <1>1, <1>2, <2>1, H264Sps, H264Rest, H264Slice
<1>3. CASE codec # "h264"
  <2>1. Parsed(d, u) = H265Nal(d, u)
    BY <1>3 DEF Parsed
  <2> QED
    BY <1>1, <1>3, <2>1, H265Sps, H265Rest
<1> QED
  BY <1>2, <1>3

-----------------------------------------------------------------------------
(* pes_packet.                                                             *)

(* What its units may be.                                                  *)
Read == {Junk} \cup UNION {ToSet(stream[n].units) : n \in Video}

(* The units of the packets ns of a stream s.                              *)
UnitsIn(s, ns) == FlattenSeq([i \in DOMAIN ns |-> s[ns[i]].units])

(* Those of one packet more come behind.                                   *)
LEMMA UnitsAppend ==
  ASSUME stream \in Streams, NEW ns \in Seq(Video), NEW n \in Video
  PROVE  /\ UnitsIn(stream, ns) \in Seq(Units)
         /\ UnitsIn(stream, Append(ns, n)) = UnitsIn(stream, ns) \o stream[n].units
         /\ UnitsIn(stream, <<n>>) = stream[n].units
<1> DEFINE T == Seq(Units)
           Of(ks) == [i \in DOMAIN ks |-> stream[ks[i]].units]
<1>1. \A k \in Video : stream[k].units \in T
  BY VideoUnits
<1> HIDE DEF T
<1>2. Len(ns) \in Nat /\ DOMAIN ns = 1..Len(ns) /\ \A i \in 1..Len(ns) : ns[i] \in Video
  OBVIOUS
<1>3. Of(ns) \in Seq(T) /\ Len(Of(ns)) = Len(ns)
  BY <1>1, <1>2
<1>4. /\ Append(ns, n) \in Seq(Video) /\ DOMAIN Append(ns, n) = 1..(Len(ns) + 1)
      /\ \A i \in 1..(Len(ns) + 1) : Append(ns, n)[i] = IF i = Len(ns) + 1 THEN n ELSE ns[i]
  BY <1>2
<1>5. Of(Append(ns, n)) = Append(Of(ns), stream[n].units)
  <2>1. Append(Of(ns), stream[n].units) =
          [i \in 1..(Len(ns) + 1) |-> IF i = Len(ns) + 1 THEN stream[n].units ELSE Of(ns)[i]]
    BY <1>1, <1>2, <1>3
  <2>2. \A i \in 1..(Len(ns) + 1) : i # Len(ns) + 1 => i \in DOMAIN ns
    BY <1>2
  <2>3. Of(Append(ns, n)) =
          [i \in 1..(Len(ns) + 1) |-> IF i = Len(ns) + 1 THEN stream[n].units ELSE Of(ns)[i]]
    BY <1>4, <2>2
  <2> QED
    BY <2>1, <2>3
<1>6. /\ FlattenSeq(Of(ns)) \in Seq(Units)
      /\ FlattenSeq(Append(Of(ns), stream[n].units)) = FlattenSeq(Of(ns)) \o stream[n].units
  <2>1. Of(ns) \in Seq(Seq(Units)) /\ stream[n].units \in Seq(Units)
    BY <1>1, <1>3 DEF T
  <2> HIDE DEF Of
  <2> QED
    BY <2>1, FlattenAppend
<1>7. UnitsIn(stream, <<n>>) = stream[n].units
  <2>1. stream[n].units \in Seq(Units)
    BY <1>1 DEF T
  <2>2. Of(<<n>>) = Append(<<>>, stream[n].units)
    <3>1. DOMAIN <<n>> = 1..1 /\ <<n>>[1] = n
      OBVIOUS
    <3> QED
      BY <3>1
  <2>3. FlattenSeq(<<>>) = <<>>
    BY DEF FlattenSeq
  <2>4. FlattenSeq(Append(<<>>, stream[n].units)) = FlattenSeq(<<>>) \o stream[n].units
    <3>1. <<>> \in Seq(Seq(Units))
      OBVIOUS
    <3> QED
      BY <2>1, <3>1, FlattenAppend
  <2>5. <<>> \o stream[n].units = stream[n].units
    BY <2>1
  <2> QED
    BY <2>2, <2>3, <2>4, <2>5 DEF UnitsIn
<1> QED
  BY <1>5, <1>6, <1>7 DEF UnitsIn

(* The front of two sequences.                                             *)
LEMMA FrontIs ==
  ASSUME NEW T, NEW a \in Seq(T), NEW c \in Seq(T)
  PROVE  a \o c \in Seq(T) /\ Len(a \o c) = Len(a) + Len(c) /\ SubSeq(a \o c, 1, Len(a)) = a
<1>1. a \o c \in Seq(T) /\ Len(a \o c) = Len(a) + Len(c)
  OBVIOUS
<1>2. CASE Len(a) = 0
  <2>1. SubSeq(a \o c, 1, 0) = <<>>
    BY SubSeqEmpty
  <2>2. a = <<>>
    BY <1>2
  <2> QED
    BY <1>1, <1>2, <2>1, <2>2
<1>3. CASE Len(a) # 0
  <2>1. 1 \in 1..Len(a) /\ Len(a) \in 1..Len(a)
    BY <1>3
  <2>2. SubSeq(a \o c, 1, Len(a)) = SubSeq(a, 1, Len(a))
    BY <2>1, SubSeqOfConcat1
  <2> QED
    BY <1>1, <2>2, SubSeqFull
<1> QED
  BY <1>2, <1>3

(* What is written over a sequence from a place on.                        *)
Over(m, b, u) == SubSeq(m, 1, b) \o u \o SubSeq(m, b + Len(u) + 1, Len(m))

LEMMA OverIs ==
  ASSUME NEW T, NEW m \in Seq(T), NEW b \in 0..Len(m), NEW u \in Seq(T)
  PROVE  /\ Over(m, b, u) \in Seq(T) /\ Len(m) <= Len(Over(m, b, u))
         /\ b + Len(u) \in 0..Len(Over(m, b, u))
         /\ SubSeq(Over(m, b, u), 1, b + Len(u)) = SubSeq(m, 1, b) \o u
<1> DEFINE one == SubSeq(m, 1, b)
           end == SubSeq(m, b + Len(u) + 1, Len(m))
           two == one \o u
<1>1. one \in Seq(T) /\ Len(one) = b /\ b \in Nat /\ Len(u) \in Nat /\ Len(m) \in Nat
  OBVIOUS
<1>2. end \in Seq(T) /\ Len(end) = IF b + Len(u) <= Len(m) THEN Len(m) - (b + Len(u)) ELSE 0
  BY <1>1
<1> HIDE DEF one, end
<1>3. two \in Seq(T) /\ Len(two) = b + Len(u)
  BY <1>1
<1> HIDE DEF two
<1>4. /\ two \o end \in Seq(T) /\ Len(two \o end) = Len(two) + Len(end)
      /\ SubSeq(two \o end, 1, Len(two)) = two
  BY <1>2, <1>3, FrontIs
<1>5. Over(m, b, u) = two \o end
  BY DEF Over, one, end, two
<1> QED
  BY <1>1, <1>2, <1>3, <1>4, <1>5 DEF one, two

(* The payload of a packet, and what of it the map holds.                  *)
LEMMA PayloadIs ==
  ASSUME stream \in Streams, PacketOf(cur) \in Video, NEW u \in Payload
  PROVE  u \in Seq(Read) /\ (~InPart => u = stream[PacketOf(cur)].units)
<1> DEFINE all == stream[PacketOf(cur)].units
<1>1. all \in Seq(Units) /\ ToSet(all) \subseteq Read
  BY VideoUnits DEF Read
<1>2. all \in Seq(Read)
  <2>1. \A i \in 1..Len(all) : all[i] \in ToSet(all)
    BY <1>1 DEF ToSet
  <2>2. \A i \in 1..Len(all) : all[i] \in Read
    BY <1>1, <2>1
  <2>3. Len(all) \in Nat /\ all = [i \in 1..Len(all) |-> all[i]]
    BY <1>1
  <2> HIDE DEF all
  <2> QED
    BY <2>2, <2>3
<1>3. CASE ~InPart
  BY <1>2, <1>3 DEF Payload, Packet
<1>4. CASE InPart
  <2>1. PICK k \in 0..Len(all) :
          u = SubSeq(all, 1, k) \o [i \in 1..(Len(all) - k) |-> Junk]
    BY <1>4 DEF Payload, Packet
  <2> HIDE DEF all
  <2>2. Len(all) \in Nat /\ SubSeq(all, 1, k) \in Seq(Read)
    BY <1>2
  <2>3. Junk \in Read
    BY DEF Read
  <2>4. [i \in 1..(Len(all) - k) |-> Junk] \in Seq(Read)
    <3>1. Len(all) - k \in Nat
      BY <2>2
    <3> QED
      BY <2>3, <3>1
  <2> QED
    BY <1>4, <2>1, <2>2, <2>4
<1> QED
  BY <1>3, <1>4

(* What the map does not hold of a packet counts as spoilt.                *)
LEMMA TornSpoilt ==
  ASSUME SyncInv, ~needSync, cur % 2 = 0, InPart
  PROVE  PacketOf(cur) \in spoilt
<1>1. /\ valid <= cur + 1 /\ cur + 1 <= fed - 1 /\ top > cur /\ top = fed
      /\ valid \in Nat /\ fed \in Nat /\ cur \in Nat
  BY StreamFacts DEF InPart, SyncInv, Mapping
<1>2. cur + 1 \in valid..(fed - 1)
  BY <1>1
<1>3. PacketOf(cur + 1) \in spoilt
  BY <1>1, <1>2 DEF SyncInv, Unheld
<1>4. PacketOf(cur + 1) = PacketOf(cur)
  BY <1>1 DEF PacketOf
<1> QED
  BY <1>3, <1>4

(* The buffers pushed.                                                     *)
Buffers == [packets : Seq(1..Len(stream)), pes : Seq(Video), pts : Nat, duration : Nat, key : BOOLEAN]

(* The types of the parser's state; nothing is read behind what has been   *)
(* written into pes_packet.                                                *)
Typed ==
  /\ known \in BOOLEAN /\ seenPat \in BOOLEAN /\ seenPmt \in BOOLEAN
  /\ codec \in {"", "h264", "h265"}
  /\ pes \in Seq(Video)
  /\ mem \in Seq(Read) /\ size \in 0..Len(mem)
  /\ payload = 1 \/ payload \in 1..Len(mem)
  /\ at \in 1..payload
  /\ dec \in Decoders /\ Own(dec) /\ PTS \in Nat
  /\ seenIdr \in BOOLEAN /\ out \in Seq(Buffers) /\ data \in Seq(1..Len(stream))

(* Nothing is sent or pended before the first key picture.                 *)
Started == ~seenIdr => out = <<>> /\ data = <<>>

(* Before the codec is known, which is then not changed, nothing is parsed; *)
(* the next buffer begins when the last one ends.                          *)
Times ==
  /\ codec # "" => seenPmt
  /\ codec = "" => dec.sps = NoSps /\ dec.frames = 0 /\ dec.sum = 0 /\ dec.duration = 4 /\ PTS = 0
  /\ OneRate => Timed(dec, PTS)
  /\ OneRate /\ out # <<>> => PTS = out[Len(out)].pts + out[Len(out)].duration

(* What a write does of it.                                                *)
LEMMA WriteIs ==
  ASSUME stream \in Streams, mem \in Seq(Read), NEW b \in 0..Len(mem), PacketOf(cur) \in Video, Write(b)
  PROVE  /\ mem' \in Seq(Read) /\ size' \in 0..Len(mem') /\ Len(mem) <= Len(mem')
         /\ ~InPart => SubSeq(mem', 1, size') = SubSeq(mem, 1, b) \o stream[PacketOf(cur)].units
<1>1. PICK u \in Payload : mem' = Over(mem, b, u) /\ size' = b + Len(u)
  BY DEF Write, Over
<1>2. u \in Seq(Read) /\ (~InPart => u = stream[PacketOf(cur)].units)
  BY PayloadIs
<1>3. /\ Over(mem, b, u) \in Seq(Read) /\ Len(mem) <= Len(Over(mem, b, u))
      /\ b + Len(u) \in 0..Len(Over(mem, b, u))
      /\ SubSeq(Over(mem, b, u), 1, b + Len(u)) = SubSeq(mem, 1, b) \o u
  <2> DEFINE T == Read
  <2>1. mem \in Seq(T) /\ u \in Seq(T)
    BY <1>2
  <2> HIDE DEF T
  <2>2. /\ Over(mem, b, u) \in Seq(T) /\ Len(mem) <= Len(Over(mem, b, u))
        /\ b + Len(u) \in 0..Len(Over(mem, b, u))
        /\ SubSeq(Over(mem, b, u), 1, b + Len(u)) = SubSeq(mem, 1, b) \o u
    BY <2>1, OverIs
  <2> QED
    BY <2>2 DEF T
<1>4. ~InPart => SubSeq(mem', 1, size') = SubSeq(mem, 1, b) \o stream[PacketOf(cur)].units
  BY <1>1, <1>2, <1>3, Zenon
<1>5. mem' \in Seq(Read) /\ size' \in 0..Len(mem') /\ Len(mem) <= Len(mem')
  BY <1>1, <1>3, Zenon
<1> QED
  BY <1>4, <1>5

-----------------------------------------------------------------------------
(* The packets one by one.                                                 *)

(* A packet that does not end a PES packet is pended, or not, and goes on  *)
(* with the one that is collected, or not.                                 *)
Pends ==
  /\ UNCHANGED <<payload, at, dec, seenIdr, PTS, out>>
  /\ stream[PacketOf(cur)].k = "start" => codec = ""
  /\ \/ UNCHANGED <<pes, mem, size>> /\ (PacketOf(cur) \in Video => codec = "")
     \/ /\ PacketOf(cur) \in Video /\ codec # ""
        /\ Write(size) /\ pes' = Append(pes, PacketOf(cur))
  /\ codec' \in {"", "h264", "h265"} /\ (codec' = codec \/ (codec = "" /\ seenPmt'))
  /\ known' \in BOOLEAN /\ seenPat' \in BOOLEAN /\ seenPmt' \in BOOLEAN /\ (seenPmt => seenPmt')
  /\ data' = IF seenIdr /\ stream[PacketOf(cur)].k # "bad" THEN Append(data, PacketOf(cur)) ELSE data

(* One that does is, after what the parser has done.                       *)
Pushed == dec.frame /\ seenIdr
Ends ==
  /\ UNCHANGED <<tables, payload, at>>
  /\ pc = "parse" /\ at = payload
  /\ codec # "" /\ stream[PacketOf(cur)].k = "start" /\ PacketOf(cur) \in Video
  /\ Write(0) /\ pes' = <<PacketOf(cur)>>
  /\ out' = IF Pushed THEN Append(out, Buffer) ELSE out
  /\ seenIdr' = (seenIdr \/ (dec.frame /\ dec.key))
  /\ PTS' = IF dec.frame THEN dec.frames * dec.duration ELSE PTS
  /\ dec' = [dec EXCEPT !.sum = IF dec.frame THEN 0 ELSE @]
  /\ data' = IF seenIdr' THEN Append(IF dec.frame THEN <<>> ELSE data, PacketOf(cur))
             ELSE IF dec.frame THEN <<>> ELSE data

(* The kinds of packets of the video stream.                               *)
LEMMA VideoIs ==
  ASSUME stream \in Streams, NEW n \in 1..Len(stream)
  PROVE  n \in Video <=> stream[n].k \in {"start", "cont"}
  BY StreamFacts DEF Video

(* What the packets do.                                                    *)
LEMMA PacketDoes ==
  ASSUME stream \in Streams, Typed, Times, Parsing, PacketOf(cur) \in 1..Len(stream), NextPacket
  PROVE  Pends \/ Ends
<1>1. CASE BadPacket
  BY <1>1, VideoIs DEF BadPacket, HasPacket, Packet, Pends, Typed, Times, tables, video, parser
<1>2. CASE OtherPacket
  BY <1>2, VideoIs DEF OtherPacket, HasPacket, Packet, Pend, Pends, Typed, Times, tables, parser
<1>3. CASE Pat
  <2>1. known' \in BOOLEAN
    BY <1>3 DEF Pat, Typed
  <2> QED
    BY <1>3, <2>1, VideoIs DEF Pat, HasPacket, Packet, Pend, Pends, Typed, Times, parser
<1>4. CASE Pmt
  <2>1. /\ stream[PacketOf(cur)].k = "pmt"
        /\ seenPmt' = (seenPmt \/ known)
        /\ UNCHANGED <<known, seenPat, parser, seenIdr, PTS, out>>
        /\ data' = IF seenIdr THEN Append(data, PacketOf(cur)) ELSE data
    BY <1>4 DEF Pmt, HasPacket, Packet, Pend
  <2>2. stream[PacketOf(cur)].codec \in {"", "h264", "h265"}
    <3>1. stream[PacketOf(cur)] \in Packets
      BY StreamFacts
    <3> QED
      BY <2>1, <3>1 DEF Packets
  <2>3. codec' = codec \/ (known /\ ~seenPmt /\ codec' = stream[PacketOf(cur)].codec)
    BY <1>4 DEF Pmt, Packet
  <2>4. codec' = codec \/ (codec = "" /\ seenPmt')
    BY <2>1, <2>3 DEF Times
  <2>5. codec' \in {"", "h264", "h265"}
    BY <2>2, <2>3 DEF Typed
  <2>6. known' \in BOOLEAN /\ seenPat' \in BOOLEAN /\ seenPmt' \in BOOLEAN /\ (seenPmt => seenPmt')
    BY <2>1 DEF Typed
  <2>7. PacketOf(cur) \notin Video
    BY <2>1, VideoIs
  <2> QED
    BY <2>1, <2>4, <2>5, <2>6, <2>7 DEF Pends, parser
<1>5. CASE EarlyStart
  BY <1>5 DEF EarlyStart, HasPacket, Packet, Pend, Pends, Typed, Times, tables, parser
<1>6. CASE ContPacket
  <2>1. PacketOf(cur) \in Video /\ stream[PacketOf(cur)].k = "cont"
    BY <1>6, VideoIs DEF ContPacket, HasPacket, Packet
  <2> QED
    BY <1>6, <2>1 DEF ContPacket, Pend, Pends, Typed, Times, tables
<1>7. CASE EndOfPes
  <2>1. codec # "" /\ stream[PacketOf(cur)].k = "start" /\ pc = "parse"
    BY <1>7 DEF EndOfPes, Parsing
  <2>2. PacketOf(cur) \in Video
    BY <2>1, VideoIs
  <2> QED
    BY <1>7, <2>1, <2>2 DEF EndOfPes, Ends, Pend, Pushed
<1> QED
  BY <1>1, <1>2, <1>3, <1>4, <1>5, <1>6, <1>7 DEF NextPacket

(* What the end of a PES packet does of the state.                         *)
LEMMA EndDoes ==
  ASSUME stream \in Streams, Typed, Ends
  PROVE  /\ Buffer \in Buffers /\ Buffer.packets = data /\ Buffer.pes = pes
         /\ Buffer.pts = PTS /\ Buffer.duration = dec.sum /\ Buffer.key = dec.key
         /\ seenIdr' \in BOOLEAN /\ (seenIdr => seenIdr')
         /\ dec' \in Decoders /\ Own(dec') /\ dec'.sps = dec.sps /\ dec'.frames = dec.frames
         /\ dec'.duration = dec.duration /\ dec'.sum = IF dec.frame THEN 0 ELSE dec.sum
<1>1. dec \in Decoders /\ Own(dec)
  BY DEF Typed
<1>2. Buffer \in Buffers
  <2>1. data \in Seq(1..Len(stream)) /\ pes \in Seq(Video) /\ PTS \in Nat
        /\ dec.sum \in Nat /\ dec.key \in BOOLEAN
    BY <1>1, DecoderFacts DEF Typed
  <2> QED
    BY <2>1 DEF Buffer, Buffers
<1>3. Buffer.packets = data /\ Buffer.pes = pes /\ Buffer.pts = PTS
      /\ Buffer.duration = dec.sum /\ Buffer.key = dec.key
  BY DEF Buffer
<1>4. dec' \in Decoders /\ dec'.sps = dec.sps /\ dec'.frames = dec.frames
      /\ dec'.duration = dec.duration /\ dec'.sum = (IF dec.frame THEN 0 ELSE dec.sum)
      /\ dec'.struct = dec.struct /\ dec'.pps = dec.pps
  <2> DEFINE x == IF dec.frame THEN 0 ELSE dec.sum
  <2>1. x \in Nat
    BY <1>1, DecoderFacts
  <2>2. dec' = [dec EXCEPT !.sum = x]
    BY <1>1 DEF Ends, Decoders
  <2> HIDE DEF x
  <2>3. dec' \in Decoders /\ dec'.sps = dec.sps /\ dec'.frames = dec.frames
        /\ dec'.duration = dec.duration /\ dec'.sum = x
        /\ dec'.struct = dec.struct /\ dec'.pps = dec.pps
    BY <1>1, <2>1, <2>2 DEF Decoders
  <2> QED
    BY <2>3 DEF x
<1>5. Own(dec')
  BY <1>1, <1>4 DEF Own
<1>6. seenIdr' \in BOOLEAN /\ (seenIdr => seenIdr')
  BY <1>1, DecoderFacts DEF Ends, Typed
<1> QED
  BY <1>2, <1>3, <1>4, <1>5, <1>6

-----------------------------------------------------------------------------
(* The parser.                                                             *)

(* A unit of the video stream.                                             *)
LEMMA ReadIs ==
  ASSUME stream \in Streams, NEW x \in Read
  PROVE  /\ x \in Units
         /\ x.t = "junk" \/ \E n \in Video : x \in ToSet(stream[n].units)
<1>1. Junk \in Units /\ Junk.t = "junk"
  BY DEF Units, Junk
<1>2. ASSUME NEW n \in Video, x \in ToSet(stream[n].units) PROVE x \in Units
  <2>1. stream[n].units \in Seq(Units)
    BY VideoUnits
  <2> QED
    BY <1>2, <2>1 DEF ToSet
<1> QED
  BY <1>1, <1>2 DEF Read

(* What it is read as is a NAL unit that the stream may bring, or none.     *)
LEMMA ReadsAre ==
  ASSUME stream \in Streams, mem \in Seq(Read), NEW i \in 1..Len(mem), NEW u \in Reads(i)
  PROVE  u \in Nals \cup {More}
<1>1. mem[i] \in Read
  OBVIOUS
<1> DEFINE x == mem[i]
<1>2. x \in Units /\ (x.t = "junk" \/ \E n \in Video : x \in ToSet(stream[n].units))
  BY <1>1, ReadIs
<1>3. \A n \in Video : \A y \in ToSet(stream[n].units) :
         Said(y).t \in {"sps", "pps", "sei", "slice"} => Said(y) \in Nals
  BY DEF Nals, NalsOf
<1>4. Garbled \subseteq Nals
  BY DEF Nals
<1>5. CASE x.t \in {"sps", "pps", "sei", "slice"}
  <2>1. u = x
    BY <1>5 DEF Reads
  <2>2. Said(x) = x
    BY <1>5 DEF Said
  <2> QED
    BY <1>2, <1>3, <1>5, <2>1, <2>2
<1>6. CASE x.t = "tail" /\ Joined(i - 1)
  <2>1. u = x.nal
    BY <1>6 DEF Reads
  <2>2. Said(x) = x.nal
    BY <1>6 DEF Said
  <2>3. x.nal.t \in {"sps", "pps", "sei", "slice"}
    BY <1>2, <1>6, UnitKinds, NalKinds
  <2> QED
    BY <1>2, <1>3, <1>6, <2>1, <2>2, <2>3
<1>7. CASE x.t \notin {"sps", "pps", "sei", "slice"} /\ ~(x.t = "tail" /\ Joined(i - 1))
  <2>1. u \in {More} \cup Garbled
    BY <1>7 DEF Reads
  <2> QED
    BY <1>4, <2>1
<1> QED
  BY <1>5, <1>6, <1>7

(* A flag reset changes nothing of the times.                              *)
LEMMA Reset ==
  ASSUME NEW d \in Decoders, Own(d), NEW p \in Nat, NEW e, e = [d EXCEPT !.frame = FALSE, !.key = FALSE]
  PROVE  Stepped(d, e, p)
<1>1. e \in Decoders
  BY DEF Decoders
<1>2. /\ e.sps = d.sps /\ e.frames = d.frames /\ e.sum = d.sum /\ e.duration = d.duration
      /\ e.struct = d.struct /\ e.pps = d.pps
  BY DEF Decoders
<1> QED
  BY <1>1, <1>2, OtherStep DEF Own

(* The parser keeps types and times.                                       *)
LEMMA ParseKeeps ==
  ASSUME stream \in Streams, Parsing, Typed, Times, Parses, StartPacket \/ ParseNal \/ ParseEnds
  PROVE  Typed' /\ Times'
<1>1. /\ UNCHANGED <<stream, known, seenPat, seenPmt, codec, pes, mem, size, seenIdr, data, PTS, out>>
  BY DEF Parses, input, tables
<1>2. UNCHANGED <<Video, Read, Buffers, Decoders, Nals, Paces, Structs, OneRate>>
  BY <1>1 DEF Video, Read, Buffers, Decoders, Nals, Paces, Structs, OneRate
<1>3. dec \in Decoders /\ Own(dec) /\ PTS \in Nat /\ mem \in Seq(Read) /\ size \in 0..Len(mem)
      /\ (payload = 1 \/ payload \in 1..Len(mem)) /\ at \in 1..payload /\ Len(mem) \in Nat
      /\ payload \in Nat /\ at \in Nat
  <2>1. /\ dec \in Decoders /\ Own(dec) /\ PTS \in Nat /\ mem \in Seq(Read) /\ size \in 0..Len(mem)
        /\ (payload = 1 \/ payload \in 1..Len(mem)) /\ at \in 1..payload
    BY DEF Typed
  <2>2. Len(mem) \in Nat
    BY <2>1
  <2> QED
    BY <2>1, <2>2
<1>4. codec # ""
  BY DEF StartPacket, ParseNal, ParseEnds, Parsing
<1>5. /\ payload' = 1 \/ payload' \in 1..Len(mem)
      /\ at' \in 1..payload'
      /\ Stepped(dec, dec', PTS)
  <2>1. CASE StartPacket
    <3>1. /\ at' = 1 /\ payload' = IF Headed THEN size ELSE payload
          /\ dec' = [dec EXCEPT !.frame = FALSE, !.key = FALSE]
      BY <2>1 DEF StartPacket
    <3>2. Headed => size \in 1..Len(mem)
      BY <1>3 DEF Headed
    <3>3. Stepped(dec, dec', PTS)
      BY <1>3, <3>1, Reset
    <3>4. payload' = 1 \/ payload' \in 1..Len(mem)
      BY <1>3, <3>1, <3>2
    <3>5. payload' \in Nat /\ payload' >= 1
      BY <1>3, <3>4
    <3> QED
      BY <3>1, <3>3, <3>4, <3>5
  <2>2. CASE ParseNal
    <3>1. PICK u \in Reads(at + 1) : dec' = Parsed(dec, u)
      BY <2>2 DEF ParseNal, Parsed
    <3>2. at < payload /\ at' = at + 1 /\ payload' = payload
      BY <2>2 DEF ParseNal
    <3>3. at + 1 \in 1..Len(mem) /\ at' \in 1..payload'
      BY <1>3, <3>2
    <3>4. u \in Nals \cup {More}
      BY <1>3, <3>3, ReadsAre
    <3> QED
      BY <1>3, <3>1, <3>2, <3>3, <3>4, NalStep
  <2>3. CASE ParseEnds
    <3>1. at' = payload /\ payload' = payload /\ dec' = dec
      BY <2>3 DEF ParseEnds
    <3>2. at' \in 1..payload'
      BY <1>3, <3>1
    <3> QED
      BY <1>3, <3>1, <3>2 DEF Stepped
  <2> QED
    BY <2>1, <2>2, <2>3
<1>6. /\ dec' \in Decoders /\ Own(dec') /\ (OneRate /\ Timed(dec, PTS) => Timed(dec', PTS))
  BY <1>5 DEF Stepped
<1>7. Own(dec)' /\ (OneRate => Timed(dec, PTS)')
  BY <1>1, <1>2, <1>6 DEF Own, Timed, Times
<1>8. Typed'
  BY <1>1, <1>2, <1>5, <1>6, <1>7 DEF Typed
<1>9. Times'
  BY <1>1, <1>2, <1>4, <1>7 DEF Times
<1> QED
  BY <1>8, <1>9

(* A sequence appended to keeps its type.                                  *)
LEMMA AppendIn ==
  ASSUME NEW T, NEW s \in Seq(T), NEW x \in T
  PROVE  Append(s, x) \in Seq(T)
  OBVIOUS

(* Types are kept.                                                         *)
LEMMA TypedTakes ==
  ASSUME stream \in Streams, stream' = stream, Typed, PacketOf(cur) \in 1..Len(stream),
         Pends \/ Ends
  PROVE  Typed'
<1>1. UNCHANGED <<Video, Read, Buffers, Decoders, Nals, Structs>>
  BY DEF Video, Read, Buffers, Decoders, Nals, Structs
<1> DEFINE Numbers == 1..Len(stream)
<1>2. data \in Seq(Numbers) /\ Append(data, PacketOf(cur)) \in Seq(Numbers)
      /\ <<>> \in Seq(Numbers) /\ Append(<<>>, PacketOf(cur)) \in Seq(Numbers)
  <2>1. data \in Seq(Numbers) /\ PacketOf(cur) \in Numbers
    BY DEF Typed
  <2> HIDE DEF Numbers
  <2>2. <<>> \in Seq(Numbers)
    OBVIOUS
  <2> QED
    BY <2>1, <2>2, AppendIn
<1>3. /\ mem \in Seq(Read) /\ size \in 0..Len(mem) /\ Len(mem) \in Nat /\ pes \in Seq(Video)
      /\ (payload = 1 \/ payload \in 1..Len(mem)) /\ at \in 1..payload
  <2>1. /\ mem \in Seq(Read) /\ size \in 0..Len(mem) /\ pes \in Seq(Video)
        /\ (payload = 1 \/ payload \in 1..Len(mem)) /\ at \in 1..payload
    BY DEF Typed
  <2>2. Len(mem) \in Nat
    BY <2>1
  <2> QED
    BY <2>1, <2>2
<1>4. ASSUME NEW b \in 0..Len(mem), Write(b), PacketOf(cur) \in Video, UNCHANGED <<payload, at>>
      PROVE  /\ mem' \in Seq(Read) /\ size' \in 0..Len(mem')
             /\ (payload' = 1 \/ payload' \in 1..Len(mem')) /\ at' \in 1..payload'
  <2>1. mem' \in Seq(Read) /\ size' \in 0..Len(mem') /\ Len(mem) <= Len(mem')
    BY <1>3, <1>4, WriteIs
  <2>2. Len(mem') \in Nat
    BY <2>1
  <2> QED
    BY <1>3, <1>4, <2>1, <2>2
<1>5. CASE Pends
  <2>1. data' \in Seq(1..Len(stream))
    BY <1>5, <1>2 DEF Pends
  <2>2. UNCHANGED <<payload, at, dec, seenIdr, PTS, out>>
    BY <1>5 DEF Pends
  <2>3. /\ mem' \in Seq(Read) /\ size' \in 0..Len(mem')
        /\ (payload' = 1 \/ payload' \in 1..Len(mem')) /\ at' \in 1..payload'
        /\ pes' \in Seq(Video)
    <3>1. CASE UNCHANGED <<pes, mem, size>>
      BY <1>3, <2>2, <3>1
    <3>2. CASE PacketOf(cur) \in Video /\ Write(size) /\ pes' = Append(pes, PacketOf(cur))
      BY <1>3, <1>4, <2>2, <3>2, AppendIn
    <3> QED
      BY <1>5, <3>1, <3>2 DEF Pends
  <2>4. Own(dec)'
    BY <1>1, <2>2 DEF Own, Typed
  <2>5. /\ codec' \in {"", "h264", "h265"}
        /\ known' \in BOOLEAN /\ seenPat' \in BOOLEAN /\ seenPmt' \in BOOLEAN
    BY <1>5 DEF Pends
  <2> QED
    BY <1>1, <2>1, <2>2, <2>3, <2>4, <2>5 DEF Typed
<1>6. CASE Ends
  <2>1. UNCHANGED <<known, seenPat, seenPmt, codec, payload, at>> /\ pes' = <<PacketOf(cur)>>
        /\ PacketOf(cur) \in Video /\ Write(0)
    BY <1>6 DEF Ends, tables
  <2>2. out' \in Seq(Buffers) /\ seenIdr' \in BOOLEAN /\ dec' \in Decoders
    <3>1. out \in Seq(Buffers) /\ Buffer \in Buffers
      BY <1>6, EndDoes DEF Typed
    <3>2. Append(out, Buffer) \in Seq(Buffers)
      BY <3>1, AppendIn
    <3>3. out' = out \/ out' = Append(out, Buffer)
      BY <1>6 DEF Ends
    <3> QED
      BY <1>6, <3>1, <3>2, <3>3, EndDoes
  <2>3. data' \in Seq(1..Len(stream))
    BY <1>2, <1>6 DEF Ends
  <2>4. PTS' \in Nat
    <3>1. dec.frames * dec.duration \in Nat
      BY DecoderFacts, Distributes DEF Typed
    <3> QED
      BY <1>6, <3>1 DEF Ends, Typed
  <2>5. pes' \in Seq(Video)
    BY <2>1
  <2>6. Own(dec)'
    <3>1. Own(dec')
      BY <1>6, EndDoes
    <3> QED
      BY <1>1, <3>1 DEF Own
  <2>7. /\ mem' \in Seq(Read) /\ size' \in 0..Len(mem')
        /\ (payload' = 1 \/ payload' \in 1..Len(mem')) /\ at' \in 1..payload'
    <3>1. 0 \in 0..Len(mem)
      BY <1>3
    <3> QED
      BY <1>4, <2>1, <3>1
  <2>8. /\ known' \in BOOLEAN /\ seenPat' \in BOOLEAN /\ seenPmt' \in BOOLEAN
        /\ codec' \in {"", "h264", "h265"}
    BY <2>1 DEF Typed
  <2> QED
    BY <1>1, <2>2, <2>3, <2>4, <2>5, <2>6, <2>7, <2>8 DEF Typed
<1> QED
  BY <1>5, <1>6

(* The times follow one another.                                           *)
LEMMA TimesTakes ==
  ASSUME stream \in Streams, stream' = stream, Typed, Started, Times, PtsContinuous,
         PacketOf(cur) \in 1..Len(stream), Pends \/ Ends
  PROVE  Times' /\ PtsContinuous'
<1>1. Nals' = Nals /\ Paces' = Paces /\ OneRate' = OneRate
  BY DEF Nals, Paces, OneRate, Video
<1>2. CASE Pends
  <2>1. UNCHANGED <<dec, PTS, out>>
    BY <1>2 DEF Pends
  <2>2. codec' # "" => seenPmt'
    BY <1>2 DEF Pends, Times
  <2>3. codec' = "" => codec = ""
    BY <1>2 DEF Pends
  <2>4. OneRate => Timed(dec, PTS)'
    <3>1. CASE codec' = codec
      BY <1>1, <2>1, <3>1 DEF Times, Timed
    <3>2. CASE codec = ""
      <4>1. dec.sps = NoSps /\ dec.frames = 0 /\ dec.sum = 0 /\ dec.duration = 4 /\ PTS = 0
        BY <3>2 DEF Times
      <4> QED
        BY <2>1, <4>1 DEF Timed, NoSps
    <3> QED
      BY <1>2, <3>1, <3>2 DEF Pends
  <2>5. Times'
    BY <1>1, <2>1, <2>2, <2>3, <2>4 DEF Times
  <2>6. PtsContinuous'
    BY <1>1, <2>1 DEF PtsContinuous
  <2> QED
    BY <2>5, <2>6
<1>3. CASE Ends
  <2>1. UNCHANGED <<seenPmt, codec>> /\ codec # "" /\ dec \in Decoders
    BY <1>3 DEF Ends, tables, Typed
  <2>2. OneRate => Timed(dec, PTS)
    BY DEF Times
  <2>3. dec'.sps = dec.sps /\ dec'.frames = dec.frames /\ dec'.duration = dec.duration
        /\ dec'.sum = (IF dec.frame THEN 0 ELSE dec.sum)
        /\ PTS' = (IF dec.frame THEN dec.frames * dec.duration ELSE PTS)
    BY <1>3, EndDoes DEF Ends
  <2>4. dec.frames * dec.duration \in Nat /\ PTS \in Nat /\ dec.sum \in Nat /\ out \in Seq(Buffers)
    BY <2>1, DecoderFacts, Distributes DEF Typed
  <2>5. OneRate => Timed(dec, PTS)'
    <3>1. OneRate => dec'.frames * dec'.duration = PTS' + dec'.sum
      BY <2>2, <2>3, <2>4 DEF Timed
    <3> QED
      BY <1>1, <2>1, <2>2, <2>3, <3>1 DEF Timed
  <2>6. CASE ~Pushed
    <3>1. out' = out
      BY <1>3, <2>6 DEF Ends
    <3>2. OneRate /\ out # <<>> => PTS' = out[Len(out)].pts + out[Len(out)].duration
      <4>1. out # <<>> => PTS' = PTS
        BY <2>3, <2>6 DEF Pushed, Started
      <4> QED
        BY <4>1 DEF Times
    <3> QED
      BY <1>1, <2>1, <2>5, <3>1, <3>2 DEF Times, PtsContinuous
  <2>7. CASE Pushed
    <3> DEFINE b == Buffer
    <3>1. out' = Append(out, b) /\ b.pts = PTS /\ b.duration = dec.sum /\ b \in Buffers
      BY <1>3, <2>7, EndDoes DEF Ends
    <3> HIDE DEF b
    <3>2. Len(out') = Len(out) + 1 /\ out'[Len(out')] = b /\ \A i \in 1..Len(out) : out'[i] = out[i]
      BY <2>4, <3>1
    <3>3. OneRate => PTS' = b.pts + b.duration
      BY <2>2, <2>3, <2>4, <2>7, <3>1 DEF Timed, Pushed
    <3>4. Times'
      BY <1>1, <2>1, <2>5, <3>2, <3>3 DEF Times
    <3>5. PtsContinuous'
      <4> SUFFICES ASSUME OneRate, NEW i \in DOMAIN out', i > 1
                   PROVE  out'[i].pts = out'[i - 1].pts + out'[i - 1].duration
        BY <1>1 DEF PtsContinuous, OneRate
      <4>1. Len(out) \in Nat /\ DOMAIN out = 1..Len(out) /\ DOMAIN out' = 1..(Len(out) + 1)
        BY <2>4, <3>1
      <4>2. CASE i = Len(out) + 1
        <5>1. out # <<>> /\ i - 1 = Len(out) /\ Len(out) \in 1..Len(out)
          BY <2>4, <4>1, <4>2
        <5>2. PTS = out[Len(out)].pts + out[Len(out)].duration
          BY <5>1 DEF Times
        <5> QED
          BY <3>1, <3>2, <4>2, <5>1, <5>2
      <4>3. CASE i # Len(out) + 1
        <5>1. i \in DOMAIN out /\ i - 1 \in 1..Len(out) /\ i \in 1..Len(out)
          BY <4>1, <4>3
        <5> QED
          BY <3>2, <5>1 DEF PtsContinuous, OneRate
      <4> QED
        BY <4>2, <4>3
    <3> QED
      BY <3>4, <3>5
  <2> QED
    BY <2>6, <2>7
<1> QED
  BY <1>2, <1>3


-----------------------------------------------------------------------------
(* All the packets sent.                                                   *)

(* The packets of each buffer.                                             *)
Boxes(o) == [i \in DOMAIN o |-> o[i].packets]

(* Those of one buffer more are appended.                                  *)
LEMMA BoxesAre ==
  ASSUME stream \in Streams, NEW o \in Seq(Buffers), NEW b \in Buffers
  PROVE  /\ Boxes(o) \in Seq(Seq(1..Len(stream))) /\ b.packets \in Seq(1..Len(stream))
         /\ Boxes(Append(o, b)) = Append(Boxes(o), b.packets)
<1> DEFINE T == Seq(1..Len(stream))
<1>1. Len(o) \in Nat /\ DOMAIN o = 1..Len(o) /\ \A i \in 1..Len(o) : o[i] \in Buffers
  OBVIOUS
<1>2. \A x \in Buffers : x.packets \in T
  BY DEF Buffers
<1> HIDE DEF T
<1>3. Boxes(o) \in Seq(T) /\ Len(Boxes(o)) = Len(o)
  BY <1>1, <1>2 DEF Boxes
<1>4. Append(o, b) \in Seq(Buffers) /\ Len(Append(o, b)) = Len(o) + 1
      /\ DOMAIN Append(o, b) = 1..(Len(o) + 1)
      /\ \A i \in 1..(Len(o) + 1) : Append(o, b)[i] = IF i = Len(o) + 1 THEN b ELSE o[i]
  BY <1>1
<1>5. Append(Boxes(o), b.packets) = [i \in 1..(Len(o) + 1) |->
                                       IF i = Len(o) + 1 THEN b.packets ELSE Boxes(o)[i]]
  BY <1>1, <1>2, <1>3
<1>6. Boxes(Append(o, b)) = [i \in 1..(Len(o) + 1) |->
                               IF i = Len(o) + 1 THEN b.packets ELSE Boxes(o)[i]]
  <2>1. \A i \in 1..(Len(o) + 1) : i # Len(o) + 1 => i \in DOMAIN o
    BY <1>1
  <2> QED
    BY <1>4, <2>1 DEF Boxes
<1> QED
  BY <1>2, <1>3, <1>5, <1>6 DEF T

(* What is sent is in the buffers pushed, or pended.                       *)
LEMMA SentIs == Sent = FlattenSeq(Boxes(out)) \o data /\ Sent' = FlattenSeq(Boxes(out')) \o data'
  BY DEF Sent, Boxes

(* As long as no buffer is pushed none of it is in one.                    *)
LEMMA NoBoxes == out = <<>> => FlattenSeq(Boxes(out)) = <<>>
<1> SUFFICES ASSUME out = <<>> PROVE FlattenSeq(Boxes(out)) = <<>>
  OBVIOUS
<1>1. Boxes(out) = <<>>
  BY DEF Boxes
<1> QED
  BY <1>1 DEF FlattenSeq

(* Before the first key picture nothing is sent; from it on every packet   *)
(* that is not bad is sent next.                                           *)
Grows ==
  Sent' = IF seenIdr' /\ stream[PacketOf(cur)].k # "bad" THEN Append(Sent, PacketOf(cur)) ELSE Sent

(* A step that takes a packet sends it next, or nothing.                   *)
LEMMA SentTakes ==
  ASSUME stream \in Streams, Typed, Started, PacketOf(cur) \in 1..Len(stream),
         Pends \/ Ends
  PROVE  Grows /\ Started' /\ Sent \in Seq(1..Len(stream)) /\ (~seenIdr' => Sent = <<>>)
<1> DEFINE Numbers == 1..Len(stream)
           n == PacketOf(cur)
           Q == FlattenSeq(Boxes(out))
<1>1. out \in Seq(Buffers) /\ data \in Seq(Numbers) /\ n \in Numbers
  BY DEF Typed
<1>2. ASSUME NEW b \in Buffers
      PROVE  Q \in Seq(Numbers) /\ FlattenSeq(Boxes(Append(out, b))) = Q \o b.packets
  BY <1>1, <1>2, BoxesAre, FlattenAppend
<1>3. Q \in Seq(Numbers)
  <2>1. [packets |-> <<>>, pes |-> <<>>, pts |-> 0, duration |-> 0, key |-> FALSE] \in Buffers
    <3>1. <<>> \in Seq(Numbers) /\ <<>> \in Seq(Video)
      OBVIOUS
    <3> QED
      BY <3>1 DEF Buffers
  <2> QED
    BY <1>2, <2>1
<1>4. out = <<>> => Q = <<>>
  BY NoBoxes
<1>5. Sent = Q \o data /\ Sent \in Seq(Numbers)
  BY <1>1, <1>3, SentIs
<1>6. ~seenIdr => Sent = <<>>
  BY <1>4, <1>5 DEF Started
<1> HIDE DEF Q, Numbers
<1>7. /\ Q \o Append(data, n) = Append(Q \o data, n)
      /\ (Q \o data) \o Append(<<>>, n) = Append(Q \o data, n)
  BY <1>1, <1>3
<1>8. CASE Pends
  <2>1. UNCHANGED <<seenIdr, out>>
        /\ data' = IF seenIdr /\ stream[n].k # "bad" THEN Append(data, n) ELSE data
    BY <1>8 DEF Pends
  <2>2. Sent' = Q \o data'
    BY <2>1, SentIs DEF Q
  <2>3. Grows
    BY <1>5, <1>7, <2>1, <2>2 DEF Grows
  <2>4. Started'
    BY <2>1 DEF Started
  <2> QED
    BY <1>5, <1>6, <2>1, <2>3, <2>4 DEF Numbers
<1>9. CASE Ends
  <2>1. dec.frame \in BOOLEAN
    BY DecoderFacts DEF Typed
  <2>2. /\ Buffer \in Buffers /\ Buffer.packets = data
        /\ out' = IF Pushed THEN Append(out, Buffer) ELSE out
        /\ seenIdr' \in BOOLEAN /\ (seenIdr => seenIdr')
        /\ data' = IF seenIdr' THEN Append(IF dec.frame THEN <<>> ELSE data, n)
                   ELSE IF dec.frame THEN <<>> ELSE data
    BY <1>9, EndDoes DEF Ends
  <2>3. stream[n].k # "bad"
    BY <1>9 DEF Ends
  <2>4. CASE Pushed
    <3>1. data' = Append(<<>>, n) /\ seenIdr'
      BY <2>2, <2>4 DEF Pushed
    <3>2. FlattenSeq(Boxes(out')) = Q \o data
      BY <1>2, <2>2, <2>4
    <3>3. Sent' = Append(Sent, n)
      BY <1>5, <1>7, <3>1, <3>2, SentIs
    <3> QED
      BY <1>5, <2>3, <3>1, <3>3 DEF Grows, Started, Numbers
  <2>5. CASE ~Pushed
    <3>1. out' = out /\ Sent' = Q \o data'
      BY <2>2, <2>5, SentIs DEF Q
    <3>2. data' = IF seenIdr' THEN Append(data, n) ELSE data
      BY <2>2, <2>5 DEF Pushed, Started
    <3>3. Grows
      BY <1>5, <1>7, <2>3, <3>1, <3>2 DEF Grows
    <3>4. Started' /\ (~seenIdr' => Sent = <<>>)
      BY <1>6, <2>2, <3>1, <3>2 DEF Started
    <3> QED
      BY <1>5, <3>3, <3>4 DEF Numbers
  <2> QED
    BY <2>4, <2>5
<1> QED
  BY <1>8, <1>9

(* The packets sent are, from the first on, the good ones that are past, in *)
(* order.                                                                  *)
IsGood(n, l) == stream[n].k \notin {"bad", "nosync"} /\ n \notin l

Ordered(s, c, l) ==
  /\ s \in Seq(1..Len(stream))
  /\ \A i, j \in 1..Len(s) : i < j => s[i] < s[j]
  /\ \A i \in 1..Len(s) : 2 * s[i] <= c /\ IsGood(s[i], l)
  /\ s # <<>> => \A n \in s[1]..Len(stream) :
        2 * n < c + 2 /\ IsGood(n, l) => \E i \in 1..Len(s) : s[i] = n

(* What is sent is in order.                                               *)
InOrder == Ordered(Sent, cur, lost)

(* What is passed over.                                                    *)
LEMMA PassedAre ==
  ASSUME stream \in Streams, NEW a \in Nat, NEW e \in a..Cells
  PROVE  /\ e \in Nat /\ a <= e /\ Len(stream) \in Nat
         /\ \A n \in Passed(a, e) : n \in 1..Len(stream) /\ a + 2 <= 2 * n /\ 2 * n < e + 2
         /\ \A n \in 1..Len(stream) : a + 2 <= 2 * n /\ 2 * n < e + 2
               => n \in Passed(a, e) \/ stream[n].k = "nosync"
<1>1. e \in Nat /\ a <= e /\ e <= Cells /\ Cells = 2 * Len(stream) /\ Len(stream) \in Nat
  BY StreamFacts
<1>2. ASSUME NEW n \in Passed(a, e)
      PROVE  n \in 1..Len(stream) /\ a + 2 <= 2 * n /\ 2 * n < e + 2
  <2>1. PICK c \in a..(e - 1) : c % 2 = 0 /\ n = PacketOf(c)
    BY <1>2 DEF Passed
  <2>2. c \in Nat /\ a <= c /\ c < e
    BY <1>1, <2>1
  <2>3. n \in Nat \ {0} /\ 2 * n = c + 2
    BY <2>1, <2>2, Halves
  <2>4. n <= Len(stream)
    BY <1>1, <2>2, <2>3
  <2> QED
    BY <1>1, <2>2, <2>3, <2>4
<1>3. ASSUME NEW n \in 1..Len(stream), a + 2 <= 2 * n, 2 * n < e + 2
      PROVE  n \in Passed(a, e) \/ stream[n].k = "nosync"
  <2>1. 2 * n - 2 \in a..(e - 1) /\ PacketOf(2 * n - 2) = n /\ (2 * n - 2) % 2 = 0
    <3>1. n \in Nat \ {0}
      BY <1>1
    <3>2. 2 * n - 2 \in a..(e - 1)
      BY <1>1, <1>3, <3>1
    <3> QED
      BY <3>1, <3>2, FirstCell
  <2> QED
    BY <2>1, StreamFacts DEF Passed, Damaged
<1> QED
  BY <1>1, <1>2, <1>3

(* A step that passes packets over.                                        *)
LEMMA OrderSkips ==
  ASSUME stream \in Streams, NEW c \in Nat, NEW e \in c..Cells, NEW l, NEW s, Ordered(s, c, l)
  PROVE  Ordered(s, e, l \cup Passed(c, e))
<1> DEFINE k == l \cup Passed(c, e)
<1>1. e \in Nat /\ c <= e /\ Len(stream) \in Nat
  BY PassedAre
<1>2. s \in Seq(1..Len(stream)) /\ \A i, j \in 1..Len(s) : i < j => s[i] < s[j]
  BY DEF Ordered
<1>3. \A i \in 1..Len(s) : 2 * s[i] <= e /\ IsGood(s[i], k)
  <2> SUFFICES ASSUME NEW i \in 1..Len(s) PROVE 2 * s[i] <= e /\ IsGood(s[i], k)
    OBVIOUS
  <2>1. 2 * s[i] <= c /\ IsGood(s[i], l) /\ s[i] \in 1..Len(stream)
    BY <1>2 DEF Ordered
  <2>2. s[i] \notin Passed(c, e)
    <3>1. ~(c + 2 <= 2 * s[i])
      BY <1>1, <2>1
    <3> QED
      BY <3>1, PassedAre
  <2> QED
    BY <1>1, <2>1, <2>2 DEF IsGood
<1>4. s # <<>> => \A n \in s[1]..Len(stream) :
         2 * n < e + 2 /\ IsGood(n, k) => \E i \in 1..Len(s) : s[i] = n
  <2> SUFFICES ASSUME s # <<>>, NEW n \in s[1]..Len(stream), 2 * n < e + 2, IsGood(n, k)
               PROVE  \E i \in 1..Len(s) : s[i] = n
    OBVIOUS
  <2>1. s[1] \in 1..Len(stream)
    BY <1>2
  <2>2. n \in 1..Len(stream)
    BY <1>1, <2>1
  <2>3. IsGood(n, l) /\ n \notin Passed(c, e) /\ stream[n].k # "nosync"
    BY DEF IsGood
  <2>4. ~(c + 2 <= 2 * n)
    BY <2>2, <2>3, PassedAre
  <2>5. 2 * n < c + 2
    BY <1>1, <2>2, <2>4
  <2> QED
    BY <2>3, <2>5 DEF Ordered
<1> QED
  BY <1>2, <1>3, <1>4 DEF Ordered

(* A packet that is not sent: it is bad, or none has been sent.            *)
LEMMA OrderKeeps ==
  ASSUME stream \in Streams, NEW c \in Nat, c % 2 = 0, NEW l, NEW s, Ordered(s, c, l),
         s = <<>> \/ stream[PacketOf(c)].k = "bad"
  PROVE  Ordered(s, c + 2, l)
<1>1. s \in Seq(1..Len(stream)) /\ Len(stream) \in Nat /\ \A i, j \in 1..Len(s) : i < j => s[i] < s[j]
  BY StreamFacts DEF Ordered
<1>2. \A i \in 1..Len(s) : 2 * s[i] <= c + 2 /\ IsGood(s[i], l)
  BY <1>1 DEF Ordered
<1>3. s # <<>> => \A n \in s[1]..Len(stream) :
         2 * n < c + 4 /\ IsGood(n, l) => \E i \in 1..Len(s) : s[i] = n
  <2> SUFFICES ASSUME s # <<>>, NEW n \in s[1]..Len(stream), 2 * n < c + 4, IsGood(n, l)
               PROVE  \E i \in 1..Len(s) : s[i] = n
    OBVIOUS
  <2>1. s[1] \in 1..Len(stream)
    BY <1>1
  <2>2. n \in Nat
    BY <1>1, <2>1
  <2>3. PacketOf(c) \in Nat /\ 2 * PacketOf(c) = c + 2
    BY Halves
  <2>4. n # PacketOf(c)
    BY DEF IsGood
  <2>5. 2 * n < c + 2
    BY <2>2, <2>3, <2>4
  <2> QED
    BY <2>5 DEF Ordered
<1>4. (c + 2) + 2 = c + 4
  OBVIOUS
<1> QED
  BY <1>1, <1>2, <1>3, <1>4 DEF Ordered

(* A packet that is sent.                                                  *)
LEMMA OrderTakes ==
  ASSUME stream \in Streams, NEW c \in Nat, c % 2 = 0, NEW l, NEW s, Ordered(s, c, l),
         PacketOf(c) \in 1..Len(stream), IsGood(PacketOf(c), l)
  PROVE  Ordered(Append(s, PacketOf(c)), c + 2, l)
<1> DEFINE p == PacketOf(c)
           a == Append(s, p)
<1>1. s \in Seq(1..Len(stream)) /\ Len(stream) \in Nat /\ \A i, j \in 1..Len(s) : i < j => s[i] < s[j]
  BY StreamFacts DEF Ordered
<1>2. p \in Nat /\ 2 * p = c + 2 /\ p \in 1..Len(stream) /\ IsGood(p, l)
  BY Halves
<1> HIDE DEF p
<1>3. /\ a \in Seq(1..Len(stream)) /\ Len(a) = Len(s) + 1 /\ a[Len(s) + 1] = p /\ Len(s) \in Nat
      /\ \A i \in 1..Len(s) : a[i] = s[i]
  BY <1>1, <1>2
<1> HIDE DEF a
<1>4. \A i \in 1..Len(s) : s[i] \in 1..Len(stream) /\ 2 * s[i] <= c /\ IsGood(s[i], l) /\ s[i] < p
  <2> SUFFICES ASSUME NEW i \in 1..Len(s)
               PROVE  s[i] \in 1..Len(stream) /\ 2 * s[i] <= c /\ IsGood(s[i], l) /\ s[i] < p
    OBVIOUS
  <2>1. s[i] \in 1..Len(stream)
    BY <1>1
  <2>2. 2 * s[i] <= c /\ IsGood(s[i], l)
    BY DEF Ordered
  <2>3. \A x \in Nat : 2 * x <= c => x < p
    BY <1>2
  <2>4. s[i] \in Nat
    BY <1>1, <2>1
  <2> QED
    BY <2>1, <2>2, <2>3, <2>4
<1>5. \A i \in 1..Len(a) : i = Len(s) + 1 \/ i \in 1..Len(s)
  BY <1>3
<1>6. \A i, j \in 1..Len(a) : i < j => a[i] < a[j]
  <2> SUFFICES ASSUME NEW i \in 1..Len(a), NEW j \in 1..Len(a), i < j PROVE a[i] < a[j]
    OBVIOUS
  <2>1. i \in 1..Len(s)
    BY <1>3
  <2>2. CASE j = Len(s) + 1
    BY <1>3, <1>4, <2>1, <2>2
  <2>3. CASE j \in 1..Len(s)
    BY <1>1, <1>3, <2>1, <2>3
  <2> QED
    BY <1>5, <2>2, <2>3
<1>7. \A i \in 1..Len(a) : 2 * a[i] <= c + 2 /\ IsGood(a[i], l)
  <2> SUFFICES ASSUME NEW i \in 1..Len(a) PROVE 2 * a[i] <= c + 2 /\ IsGood(a[i], l)
    OBVIOUS
  <2>1. CASE i = Len(s) + 1
    BY <1>2, <1>3, <2>1
  <2>2. CASE i \in 1..Len(s)
    <3>1. \A x \in Nat : 2 * x <= c => 2 * x <= c + 2
      OBVIOUS
    <3>2. s[i] \in Nat
      BY <1>1, <1>4, <2>2
    <3>3. a[i] = s[i] /\ 2 * s[i] <= c /\ IsGood(s[i], l)
      BY <1>3, <1>4, <2>2
    <3> QED
      BY <3>1, <3>2, <3>3
  <2> QED
    BY <1>5, <2>1, <2>2
<1>8. \A n \in a[1]..Len(stream) :
         2 * n < c + 4 /\ IsGood(n, l) => \E i \in 1..Len(a) : a[i] = n
  <2> SUFFICES ASSUME NEW n \in a[1]..Len(stream), 2 * n < c + 4, IsGood(n, l)
               PROVE  \E i \in 1..Len(a) : a[i] = n
    OBVIOUS
  <2>1. Len(s) + 1 \in 1..Len(a) /\ \A i \in 1..Len(s) : i \in 1..Len(a)
    BY <1>3
  <2>2. CASE n = p
    BY <1>3, <2>1, <2>2
  <2>3. CASE n # p
    <3>1. a[1] \in 1..Len(stream) /\ n \in Nat
      BY <1>1, <1>3
    <3>2. 2 * n < c + 2
      BY <1>2, <2>3, <3>1
    <3>3. s # <<>>
      <4> SUFFICES ASSUME s = <<>> PROVE FALSE
        OBVIOUS
      <4>1. a[1] = p
        BY <1>3
      <4> QED
        BY <1>2, <2>3, <3>1, <3>2, <4>1
    <3>4. a[1] = s[1]
      BY <1>1, <1>3, <3>3
    <3>5. PICK i \in 1..Len(s) : s[i] = n
      BY <3>2, <3>3, <3>4 DEF Ordered
    <3> QED
      BY <1>3, <2>1, <3>5
  <2> QED
    BY <2>2, <2>3
<1>9. (c + 2) + 2 = c + 4
  OBVIOUS
<1>10. Ordered(a, c + 2, l)
  BY <1>3, <1>6, <1>7, <1>8, <1>9 DEF Ordered
<1> QED
  BY <1>10 DEF a, p

-----------------------------------------------------------------------------
(* The buffers.                                                            *)

(* What is said of a buffer, of a stream s and what of it is spoilt, z.     *)
InVideo(s) == {n \in DOMAIN s : s[n].k \in {"start", "cont"}}
ReadableIn(s, z, ns) ==
  LET u == UnitsIn(s, ns)
  IN /\ \A n \in ToSet(ns) : n \notin z
     /\ u # <<>> /\ u[1] = [t |-> "header", ok |-> TRUE]
     /\ \A i \in DOMAIN u :
           /\ u[i].t = "cut" => i < Len(u) /\ u[i + 1] = [t |-> "tail", nal |-> u[i].nal]
           /\ u[i].t = "tail" => u[i - 1] = [t |-> "cut", nal |-> u[i].nal]
           /\ u[i].t # "junk"
     /\ \A i, j \in DOMAIN u :
           i < j /\ Said(u[i]).t = "slice" => Said(u[j]).t \notin {"sps", "pps"}
Keyed(s, z, b) ==
  ReadableIn(s, z, b.pes) => b.key = \E x \in SlicesOf(UnitsIn(s, b.pes)) : x.intra /\ x.first

(* What is pended, d, begins with the first packet of a PES packet, and     *)
(* what pes_packet holds, p, are its video packets from the last one on.   *)
Begun(s, d, p) ==
  /\ d # <<>> /\ s[d[1]].k = "start"
  /\ s[p[1]].k = "start"
  /\ ToSet(p) = {n \in ToSet(d) \cap InVideo(s) : n >= p[1]}
  /\ \A n \in ToSet(d) : s[n].k = "start" => n <= p[1]

(* So it is once a key picture is found.                                   *)
Heads ==
  /\ codec = "" => ~seenIdr
  /\ \A i \in 1..Len(data) : 2 * data[i] <= cur
  /\ seenIdr => pes # <<>> /\ Begun(stream, data, pes)

AllFramed ==
  \A i \in DOMAIN out : Begun(stream, out[i].packets, out[i].pes) /\ Keyed(stream, spoilt, out[i])

(* Unless a packet is spoilt pes_packet holds what they brought.           *)
Whole == (\A n \in ToSet(pes) : n \notin spoilt) => SubSeq(mem, 1, size) = UnitsIn(stream, pes)

(* The flags of the parser d, of a stream of codec c, after a units of u.   *)
(* It counts slices or not until parameter sets come; once it has counted  *)
(* one no parameter set comes, and it counted them all.                    *)
KeySlice(x) == x.t = "slice" /\ x.intra /\ x.first
Active(c, d) == IF c = "h264" THEN d.sps.set /\ d.sps.rate > 0 ELSE d.pps
FlagsOf(c, d, u, a) ==
  /\ d.key => \E i \in 1..a : KeySlice(Said(u[i]))
  /\ d.frame => Active(c, d) /\ \E i \in 1..a : Said(u[i]).t = "slice"
  /\ Active(c, d) => \A i \in 1..a : KeySlice(Said(u[i])) => d.key
Flagged ==
  pc = "parse" /\ ReadableIn(stream, spoilt, pes) =>
    /\ payload = size
    /\ FlagsOf(codec, dec, UnitsIn(stream, pes), at)

(* The buffers stay framed when more is found spoilt.                      *)
LEMMA FramedNext ==
  ASSUME stream' = stream, spoilt \subseteq spoilt', AllFramed,
         \A i \in DOMAIN out' :
            \/ Begun(stream, out'[i].packets, out'[i].pes) /\ Keyed(stream, spoilt, out'[i])
            \/ i \in DOMAIN out /\ out'[i] = out[i]
  PROVE  AllFramed'
<1> SUFFICES ASSUME NEW i \in DOMAIN out'
             PROVE  Begun(stream, out'[i].packets, out'[i].pes) /\ Keyed(stream, spoilt', out'[i])
  BY DEF AllFramed
<1>1. Begun(stream, out'[i].packets, out'[i].pes) /\ Keyed(stream, spoilt, out'[i])
  BY DEF AllFramed
<1>2. ReadableIn(stream, spoilt', out'[i].pes) => ReadableIn(stream, spoilt, out'[i].pes)
  BY DEF ReadableIn
<1> QED
  BY <1>1, <1>2 DEF Keyed

(* Steps that take no packet leave the buffers.                            *)
LEMMA HeadsSkips ==
  ASSUME stream \in Streams, cur \in Nat, Typed, Heads, AllFramed, Whole, Skips
  PROVE  Heads' /\ AllFramed' /\ Whole'
<1>1. /\ UNCHANGED <<stream, tables, video>> /\ cur' \in cur..Cells /\ spoilt \subseteq spoilt'
  BY DEF Skips
<1>2. UNCHANGED <<stream, codec, pes, mem, size, seenIdr, data, out>>
  BY <1>1 DEF tables, video, parser
<1>3. AllFramed'
  BY <1>1, <1>2, FramedNext
<1>4. cur' \in Nat /\ cur <= cur'
  BY <1>1, PassedAre
<1>5. \A i \in 1..Len(data) : 2 * data[i] <= cur'
  <2>1. \A x \in Nat, e \in Nat : 2 * x <= cur /\ cur <= e => 2 * x <= e
    OBVIOUS
  <2>2. data \in Seq(1..Len(stream)) /\ Len(stream) \in Nat
    BY StreamFacts DEF Typed
  <2>3. \A i \in 1..Len(data) : data[i] \in Nat
    BY <2>2
  <2> QED
    BY <1>4, <2>1, <2>3 DEF Heads
<1>6. Heads'
  BY <1>1, <1>2, <1>5 DEF Heads
<1>7. Whole'
  BY <1>1, <1>2 DEF Whole
<1> QED
  BY <1>3, <1>6, <1>7

(* So do the steps of the parser.                                          *)
LEMMA HeadsParses ==
  ASSUME Heads, AllFramed, Whole, Parses
  PROVE  Heads' /\ AllFramed' /\ Whole'
<1>1. UNCHANGED <<stream, cur, spoilt, codec, pes, mem, size, seenIdr, data, out>>
  BY DEF Parses, input, sync, tables
<1> QED
  BY <1>1 DEF Heads, AllFramed, Whole

(* A packet appended to those pended.                                      *)
LEMMA ToSetAppend ==
  ASSUME NEW T, NEW s \in Seq(T), NEW x \in T
  PROVE  /\ ToSet(Append(s, x)) = ToSet(s) \cup {x} /\ Append(s, x) # <<>>
         /\ s # <<>> => Append(s, x)[1] = s[1]
         /\ Len(Append(s, x)) = Len(s) + 1 /\ Len(s) \in Nat
         /\ \A i \in 1..Len(s) : Append(s, x)[i] = s[i]
         /\ Append(s, x)[Len(s) + 1] = x
  BY DEF ToSet

(* One packet.                                                             *)
LEMMA ToSetOne ==
  ASSUME NEW x
  PROVE  /\ ToSet(<<x>>) = {x} /\ <<x>> # <<>> /\ <<x>>[1] = x
         /\ Append(<<>>, x) = <<x>>
<1>1. DOMAIN <<x>> = 1..1 /\ <<x>>[1] = x
  OBVIOUS
<1>2. ToSet(<<x>>) = {x}
  BY <1>1 DEF ToSet
<1> QED
  BY <1>1, <1>2

(* The numbers of packets.                                                 *)
LEMMA NumbersAre ==
  ASSUME stream \in Streams, Typed, PacketOf(cur) \in 1..Len(stream)
  PROVE  /\ data \in Seq(1..Len(stream)) /\ PacketOf(cur) \in Nat /\ Len(stream) \in Nat
         /\ Len(data) \in Nat /\ \A i \in 1..Len(data) : data[i] \in Nat
<1>1. data \in Seq(1..Len(stream))
  BY DEF Typed
<1>2. Len(stream) \in Nat
  BY StreamFacts
<1> QED
  BY <1>1, <1>2

(* What is pended lies before the packet that comes.                       *)
LEMMA DataBefore ==
  ASSUME stream \in Streams, cur \in Nat, Typed, Heads, PacketOf(cur) \in 1..Len(stream),
         2 * PacketOf(cur) = cur + 2
  PROVE  \A m \in ToSet(data) : m \in Nat /\ m < PacketOf(cur)
<1> DEFINE n == PacketOf(cur)
<1>1. data \in Seq(1..Len(stream)) /\ Len(stream) \in Nat /\ n \in Nat /\ 2 * n = cur + 2
  BY NumbersAre
<1> HIDE DEF n
<1>2. \A i \in 1..Len(data) : data[i] \in Nat /\ 2 * data[i] <= cur
  <2>1. \A i \in 1..Len(data) : data[i] \in Nat
    BY <1>1
  <2> QED
    BY <2>1 DEF Heads
<1>3. \A x \in Nat : 2 * x <= cur => x < n
  BY <1>1
<1>4. \A m \in ToSet(data) : \E i \in 1..Len(data) : data[i] = m
  BY <1>1 DEF ToSet
<1> QED
  BY <1>2, <1>3, <1>4 DEF n

(* A packet that is pended is behind those that are.                       *)
LEMMA DataStays ==
  ASSUME stream \in Streams, cur \in Nat, Typed, Heads, PacketOf(cur) \in 1..Len(stream),
         2 * PacketOf(cur) = cur + 2, cur' = cur + 2, Pends \/ Ends
  PROVE  \A i \in 1..Len(data') : 2 * data'[i] <= cur'
<1> DEFINE n == PacketOf(cur)
           T == 1..Len(stream)
<1>1. data \in Seq(T) /\ n \in T /\ n \in Nat /\ 2 * n = cur + 2
  BY NumbersAre
<1>2. \A i \in 1..Len(data) : data[i] \in Nat /\ 2 * data[i] <= cur
  <2>1. Len(stream) \in Nat
    BY StreamFacts
  <2>2. \A i \in 1..Len(data) : data[i] \in Nat
    BY <1>1, <2>1
  <2> QED
    BY <2>2 DEF Heads
<1>3. data' \in {data, Append(data, n), <<>>, Append(<<>>, n)}
  <2>1. dec.frame \in BOOLEAN /\ seenIdr \in BOOLEAN
    BY DecoderFacts DEF Typed
  <2>2. CASE Pends
    BY <2>2 DEF Pends
  <2>3. CASE Ends
    BY <2>1, <2>3 DEF Ends
  <2> QED
    BY <2>2, <2>3
<1> HIDE DEF n, T
<1>4. \A x \in Nat : 2 * x <= cur => 2 * x <= cur + 2
  OBVIOUS
<1>5. CASE data' = data
  BY <1>2, <1>4, <1>5
<1>6. CASE data' = Append(data, n)
  <2>1. \A i \in 1..Len(data') : i \in 1..Len(data) \/ i = Len(data) + 1
    BY <1>1, <1>6, ToSetAppend
  <2>2. /\ \A i \in 1..Len(data) : data'[i] = data[i]
        /\ data'[Len(data) + 1] = n
    BY <1>1, <1>6, ToSetAppend
  <2>3. \A i \in 1..Len(data) : 2 * data'[i] <= cur + 2
    BY <1>2, <1>4, <2>2
  <2>4. 2 * n <= cur + 2
    BY <1>1
  <2> QED
    BY <2>1, <2>2, <2>3, <2>4
<1>7. CASE data' = <<>>
  BY <1>7
<1>8. CASE data' = Append(<<>>, n)
  BY <1>1, <1>8
<1> QED
  BY <1>3, <1>5, <1>6, <1>7, <1>8

(* A packet that does not end a PES packet.                                *)
LEMMA HeadsPends ==
  ASSUME stream \in Streams, cur \in Nat, Typed, Heads, AllFramed, Takes,
         PacketOf(cur) \in 1..Len(stream), 2 * PacketOf(cur) = cur + 2, Pends
  PROVE  Heads' /\ AllFramed'
<1> DEFINE n == PacketOf(cur)
<1>1. UNCHANGED <<stream, spoilt>> /\ cur' = cur + 2
  BY DEF Takes
<1>2. /\ UNCHANGED <<seenIdr, out>> /\ (stream[n].k = "start" => codec = "") /\ (codec' = "" => codec = "")
      /\ data' = IF seenIdr /\ stream[n].k # "bad" THEN Append(data, n) ELSE data
      /\ \/ UNCHANGED pes /\ (n \in Video => codec = "")
         \/ n \in Video /\ codec # "" /\ pes' = Append(pes, n)
  BY DEF Pends
<1>3. AllFramed'
  BY <1>1, <1>2, FramedNext
<1>4. \A i \in 1..Len(data') : 2 * data'[i] <= cur'
  BY <1>1, DataStays
<1>5. codec' = "" => ~seenIdr'
  BY <1>2 DEF Heads
<1>6. Video = InVideo(stream)
  BY DEF Video, InVideo
<1>7. ASSUME seenIdr PROVE pes' # <<>> /\ Begun(stream, data', pes')
  <2>1. pes # <<>> /\ Begun(stream, data, pes) /\ codec # ""
    BY <1>7 DEF Heads
  <2>2. data \in Seq(1..Len(stream)) /\ n \in 1..Len(stream) /\ pes \in Seq(Video)
    BY DEF Typed
  <2>3. \A m \in ToSet(data) : m \in Nat /\ m < n
    BY DataBefore
  <2>4. pes[1] \in ToSet(pes) /\ pes[1] \in ToSet(data)
    <3>1. pes[1] \in ToSet(pes)
      <4>1. 1 \in 1..Len(pes)
        <5> HIDE DEF n
        <5>1. pes # <<>> /\ pes \in Seq(Video)
          BY <2>1, <2>2
        <5> QED
          BY <5>1
      <4> QED
        BY <2>2, <4>1 DEF ToSet
    <3> QED
      BY <2>1, <3>1 DEF Begun
  <2>5. pes[1] \in Nat /\ n \in Nat /\ n >= pes[1] /\ stream[n].k # "start"
    <3>1. Len(stream) \in Nat
      BY StreamFacts
    <3>2. n \in Nat
      BY <2>2, <3>1
    <3>3. pes[1] \in Nat /\ pes[1] < n
      BY <2>3, <2>4
    <3>4. stream[n].k # "start"
      BY <1>2, <2>1
    <3> QED
      BY <3>2, <3>3, <3>4
  <2>6. ToSet(Append(data, n)) = ToSet(data) \cup {n} /\ Append(data, n) # <<>>
        /\ Append(data, n)[1] = data[1]
    <3> DEFINE T == 1..Len(stream)
    <3>1. data \in Seq(T) /\ n \in T /\ data # <<>>
      BY <2>1, <2>2 DEF Begun
    <3> HIDE DEF T, n
    <3> QED
      BY <3>1, ToSetAppend
  <2> HIDE DEF n
  <2>7. CASE UNCHANGED pes
    <3>1. n \notin InVideo(stream)
      <4>1. pes' = Append(pes, n) => pes' # pes
        <5>1. pes \in Seq(Video)
          BY <2>2
        <5> QED
          BY <5>1
      <4> QED
        BY <1>2, <1>6, <2>1, <2>7, <4>1
    <3>2. CASE data' = data
      BY <2>1, <2>7, <3>2
    <3>3. CASE data' = Append(data, n)
      <4>1. ToSet(data') = ToSet(data) \cup {n} /\ data' # <<>> /\ data'[1] = data[1]
        BY <2>6, <3>3
      <4>2. {m \in ToSet(data') \cap InVideo(stream) : m >= pes[1]} =
              {m \in ToSet(data) \cap InVideo(stream) : m >= pes[1]}
        BY <3>1, <4>1
      <4>3. \A m \in ToSet(data') : stream[m].k = "start" => m <= pes[1]
        BY <2>1, <2>5, <4>1 DEF Begun
      <4> QED
        BY <2>1, <2>7, <4>1, <4>2, <4>3 DEF Begun
    <3> QED
      BY <1>2, <3>2, <3>3
  <2>8. CASE n \in Video /\ pes' = Append(pes, n)
    <3>1. data' = Append(data, n)
      <4>1. stream[n].k # "bad"
        BY <2>2, <2>8, VideoIs
      <4> QED
        BY <1>2, <1>7, <4>1
    <3>2. ToSet(pes') = ToSet(pes) \cup {n} /\ pes' # <<>> /\ pes'[1] = pes[1]
      <4>1. /\ ToSet(Append(pes, n)) = ToSet(pes) \cup {n} /\ Append(pes, n) # <<>>
            /\ Append(pes, n)[1] = pes[1]
        <5> DEFINE T == Video
        <5>1. pes \in Seq(T) /\ n \in T /\ pes # <<>>
          BY <2>1, <2>2, <2>8
        <5> HIDE DEF T
        <5> QED
          BY <5>1, ToSetAppend
      <4> QED
        BY <2>8, <4>1, Zenon
    <3>3. ToSet(data') = ToSet(data) \cup {n} /\ data' # <<>> /\ data'[1] = data[1]
      BY <2>6, <3>1
    <3>4. {m \in ToSet(data') \cap InVideo(stream) : m >= pes[1]} =
            {m \in ToSet(data) \cap InVideo(stream) : m >= pes[1]} \cup {n}
      BY <1>6, <2>5, <2>8, <3>3
    <3>5. \A m \in ToSet(data') : stream[m].k = "start" => m <= pes[1]
      BY <2>1, <2>5, <3>3 DEF Begun
    <3> QED
      BY <2>1, <3>2, <3>3, <3>4, <3>5 DEF Begun
  <2> QED
    BY <1>2, <2>7, <2>8
<1>8. Heads'
  BY <1>1, <1>2, <1>4, <1>5, <1>7 DEF Heads
<1> QED
  BY <1>3, <1>8

(* One that does, after the buffer is pushed.                              *)
LEMMA HeadsEnds ==
  ASSUME stream \in Streams, cur \in Nat, Typed, Started, Heads, AllFramed, Takes,
         PacketOf(cur) \in 1..Len(stream), 2 * PacketOf(cur) = cur + 2, Ends,
         Pushed => Keyed(stream, spoilt, Buffer)
  PROVE  Heads' /\ AllFramed'
<1> DEFINE n == PacketOf(cur)
<1>1. UNCHANGED <<stream, spoilt>> /\ cur' = cur + 2
  BY DEF Takes
<1>2. /\ codec' = codec /\ codec # "" /\ pes' = <<n>> /\ stream[n].k = "start" /\ n \in Video
      /\ out' = IF Pushed THEN Append(out, Buffer) ELSE out
      /\ seenIdr' = (seenIdr \/ (dec.frame /\ dec.key))
      /\ data' = IF seenIdr' THEN Append(IF dec.frame THEN <<>> ELSE data, n)
                 ELSE IF dec.frame THEN <<>> ELSE data
  BY DEF Ends, tables
<1>3. Video = InVideo(stream)
  BY DEF Video, InVideo
<1>4. AllFramed'
  <2>1. ASSUME Pushed, NEW i \in DOMAIN out'
        PROVE  \/ Begun(stream, out'[i].packets, out'[i].pes) /\ Keyed(stream, spoilt, out'[i])
               \/ i \in DOMAIN out /\ out'[i] = out[i]
    <3>1. out \in Seq(Buffers) /\ Buffer \in Buffers /\ Buffer.packets = data /\ Buffer.pes = pes
      BY EndDoes DEF Typed
    <3>2. out'[i] = Buffer \/ (i \in DOMAIN out /\ out'[i] = out[i])
      <4> DEFINE T == Buffers
                 b == Buffer
      <4>1. out \in Seq(T) /\ b \in T /\ out' = Append(out, b) /\ i \in DOMAIN out'
        BY <1>2, <2>1, <3>1
      <4> HIDE DEF T, b
      <4>2. out'[i] = b \/ (i \in DOMAIN out /\ out'[i] = out[i])
        BY <4>1
      <4> QED
        BY <4>2 DEF b
    <3>3. Begun(stream, data, pes)
      BY <2>1 DEF Pushed, Heads
    <3> QED
      BY <2>1, <3>1, <3>2, <3>3
  <2>2. CASE Pushed
    BY <1>1, <2>1, <2>2, FramedNext
  <2>3. CASE ~Pushed
    BY <1>1, <1>2, <2>3, FramedNext
  <2> QED
    BY <2>2, <2>3
<1>5. \A i \in 1..Len(data') : 2 * data'[i] <= cur'
  BY <1>1, DataStays
<1>6. ASSUME seenIdr' PROVE pes' # <<>> /\ Begun(stream, data', pes')
  <2>1. pes' # <<>> /\ pes'[1] = n /\ ToSet(pes') = {n}
    BY <1>2, ToSetOne, Zenon
  <2>2. n \in Nat /\ data \in Seq(1..Len(stream)) /\ n \in 1..Len(stream)
    BY NumbersAre
  <2>3. CASE data' = Append(<<>>, n)
    <3>1. ToSet(data') = {n} /\ data' # <<>> /\ data'[1] = n
      BY <2>3, ToSetOne, Zenon
    <3>2. n >= n /\ n <= n
      BY <2>2
    <3> QED
      BY <1>2, <1>3, <2>1, <3>1, <3>2 DEF Begun
  <2>4. CASE data' = Append(data, n) /\ data # <<>>
    <3>1. ToSet(data') = ToSet(data) \cup {n} /\ data' # <<>> /\ data'[1] = data[1]
      <4> DEFINE T == 1..Len(stream)
      <4>1. data \in Seq(T) /\ n \in T
        BY <2>2
      <4> HIDE DEF T, n
      <4> QED
        BY <2>4, <4>1, ToSetAppend
    <3>2. \A m \in ToSet(data) : m \in Nat /\ m < n
      BY DataBefore
    <3>3. stream[data[1]].k = "start"
      BY <2>4 DEF Heads, Started, Begun
    <3> HIDE DEF n
    <3>4. {m \in ToSet(data') \cap InVideo(stream) : m >= n} = {n}
      <4>1. n \in InVideo(stream) /\ n >= n /\ n \in ToSet(data')
        <5>1. n \in InVideo(stream)
          BY <1>2, <1>3, Zenon
        <5>2. n >= n
          BY <2>2
        <5>3. n \in ToSet(data')
          BY <3>1
        <5> QED
          BY <5>1, <5>2, <5>3
      <4>2. \A m \in ToSet(data') : m >= n => m = n
        BY <2>2, <3>1, <3>2
      <4> QED
        BY <4>1, <4>2
    <3>5. \A m \in ToSet(data') : m <= n
      BY <2>2, <3>1, <3>2
    <3> QED
      BY <1>2, <2>1, <3>1, <3>3, <3>4, <3>5 DEF Begun
  <2>5. dec.frame \/ (seenIdr /\ ~dec.frame)
    BY <1>2, <1>6
  <2>6. seenIdr => data # <<>>
    BY DEF Heads, Begun
  <2> QED
    BY <1>2, <1>6, <2>3, <2>4, <2>5, <2>6
<1>7. codec' = "" => ~seenIdr'
  BY <1>2
<1>8. Heads'
  BY <1>1, <1>5, <1>6, <1>7 DEF Heads
<1> QED
  BY <1>4, <1>8

(* pes_packet holds the PES packet, unless what is written was not held by *)
(* the map.                                                                *)
LEMMA WholeTakes ==
  ASSUME stream \in Streams, SyncInv, ~needSync, cur % 2 = 0, Typed, Whole,
         UNCHANGED <<stream, spoilt>>, PacketOf(cur) \in 1..Len(stream), Pends \/ Ends
  PROVE  Whole'
<1> DEFINE n == PacketOf(cur)
<1>1. InPart => n \in spoilt
  BY TornSpoilt
<1>2. mem \in Seq(Read) /\ size \in 0..Len(mem) /\ pes \in Seq(Video)
  BY DEF Typed
<1>3. CASE UNCHANGED <<pes, mem, size>>
  BY <1>3 DEF Whole
<1>4. CASE n \in Video /\ Write(size) /\ pes' = Append(pes, n)
  <2>1. ToSet(pes') = ToSet(pes) \cup {n}
    <3>1. ToSet(Append(pes, n)) = ToSet(pes) \cup {n}
      <4> DEFINE T == Video
      <4>1. pes \in Seq(T) /\ n \in T
        BY <1>2, <1>4
      <4> HIDE DEF T, n
      <4> QED
        BY <4>1, ToSetAppend
    <3> QED
      BY <1>4, <3>1, Zenon
  <2>2. ~InPart => SubSeq(mem', 1, size') = SubSeq(mem, 1, size) \o stream[n].units
    BY <1>2, <1>4, WriteIs
  <2>3. UnitsIn(stream, pes') = UnitsIn(stream, pes) \o stream[n].units
    BY <1>2, <1>4, UnitsAppend
  <2> HIDE DEF n
  <2> QED
    BY <1>1, <2>1, <2>2, <2>3 DEF Whole
<1>5. CASE n \in Video /\ Write(0) /\ pes' = <<n>>
  <2>1. ToSet(pes') = {n}
    BY <1>5, ToSetOne, Zenon
  <2>2. ~InPart => SubSeq(mem', 1, size') = SubSeq(mem, 1, 0) \o stream[n].units
    <3>1. 0 \in 0..Len(mem)
      BY <1>2
    <3> QED
      BY <1>2, <1>5, <3>1, WriteIs
  <2>3. SubSeq(mem, 1, 0) \o stream[n].units = stream[n].units
    <3>1. SubSeq(mem, 1, 0) = <<>>
      BY SubSeqEmpty
    <3>2. stream[n].units \in Seq(Units)
      BY <1>5, VideoUnits
    <3> QED
      BY <3>1, <3>2
  <2>4. UnitsIn(stream, pes') = stream[n].units
    <3>1. <<>> \in Seq(Video)
      OBVIOUS
    <3> QED
      BY <1>5, <3>1, UnitsAppend
  <2> HIDE DEF n
  <2> QED
    BY <1>1, <2>1, <2>2, <2>3, <2>4 DEF Whole
<1> QED
  BY <1>3, <1>4, <1>5 DEF Pends, Ends

-----------------------------------------------------------------------------
(* The flags of a PES packet.                                              *)

(* What the parser hears of a unit of a PES packet that it can read.       *)
Heard(x) == IF Said(x).t \in {"sps", "pps", "sei", "slice"} THEN Said(x) ELSE More

(* What is read of a PES packet that lies whole in pes_packet.             *)
LEMMA ReadsWhole ==
  ASSUME stream \in Streams, mem \in Seq(Read), size \in 0..Len(mem), payload = size,
         NEW u, SubSeq(mem, 1, size) = u, NEW i \in 1..size,
         u[1] = [t |-> "header", ok |-> TRUE],
         \A j \in DOMAIN u :
            /\ u[j].t = "cut" => j < Len(u) /\ u[j + 1] = [t |-> "tail", nal |-> u[j].nal]
            /\ u[j].t = "tail" => u[j - 1] = [t |-> "cut", nal |-> u[j].nal]
            /\ u[j].t # "junk"
  PROVE  ~Broken(i) /\ Reads(i) = {Heard(u[i])} /\ Heard(u[i]) \in Nals \cup {More}
<1>1. Len(mem) \in Nat /\ size \in Nat /\ Len(u) = size /\ DOMAIN u = 1..size
      /\ \A j \in 1..size : u[j] = mem[j] /\ j \in 1..Len(mem)
  OBVIOUS
<1>2. mem[i] = u[i] /\ i \in 1..Len(mem) /\ i \in Nat /\ mem[i] \in Units
  <2>1. mem[i] \in Read
    BY <1>1
  <2> QED
    BY <1>1, <2>1, ReadIs
<1>3. ~Broken(i)
  <2>1. mem[i].t # "junk"
    BY <1>1, <1>2
  <2>2. mem[i].t = "cut" => Joined(i)
    <3>1. SUFFICES ASSUME mem[i].t = "cut" PROVE Joined(i)
      OBVIOUS
    <3>2. i < size /\ u[i + 1] = [t |-> "tail", nal |-> u[i].nal]
      BY <1>1, <1>2, <3>1
    <3>3. mem[i + 1] = [t |-> "tail", nal |-> mem[i].nal]
      BY <1>1, <1>2, <3>2
    <3> QED
      BY <3>1, <3>2, <3>3 DEF Joined
  <2> QED
    BY <2>1, <2>2 DEF Broken
<1>4. ASSUME mem[i].t \in {"sps", "pps", "sei", "slice"} PROVE Reads(i) = {Heard(u[i])}
  <2>1. Said(u[i]) = u[i]
    BY <1>2, <1>4 DEF Said
  <2>2. Heard(u[i]) = mem[i]
    BY <1>2, <1>4, <2>1 DEF Heard
  <2>3. Reads(i) = {mem[i]}
    BY <1>4 DEF Reads
  <2> QED
    BY <2>2, <2>3
<1>5. ASSUME mem[i].t = "tail" PROVE Reads(i) = {Heard(u[i])}
  <2>1. u[i - 1] = [t |-> "cut", nal |-> u[i].nal] /\ u[i].t = "tail"
    BY <1>1, <1>2, <1>5
  <2>2. i # 1
    BY <2>1
  <2>3. i - 1 \in 1..size /\ i - 1 < size /\ (i - 1) + 1 = i
    BY <1>1, <2>2
  <2>4. mem[i - 1] = [t |-> "cut", nal |-> mem[i].nal]
    BY <1>1, <1>2, <2>1, <2>3
  <2>5. Joined(i - 1)
    <3>1. mem[i - 1].t = "cut" /\ mem[i - 1].nal = mem[i].nal
      BY <2>4
    <3> QED
      BY <1>5, <2>3, <3>1 DEF Joined
  <2>6. Reads(i) = {mem[i].nal}
    BY <1>5, <2>5 DEF Reads
  <2>7. mem[i].nal.t \in {"sps", "pps", "sei", "slice"}
    BY <1>2, <1>5, UnitKinds, NalKinds
  <2>8. Said(u[i]) = mem[i].nal
    BY <1>2, <1>5 DEF Said
  <2>9. Heard(u[i]) = mem[i].nal
    BY <2>7, <2>8 DEF Heard
  <2> QED
    BY <2>6, <2>9
<1>6. ASSUME mem[i].t \notin {"sps", "pps", "sei", "slice", "tail"} PROVE Reads(i) = {Heard(u[i])}
  <2>1. Said(u[i]) = mem[i]
    BY <1>2, <1>6 DEF Said
  <2>2. Heard(u[i]) = More
    BY <1>6, <2>1 DEF Heard
  <2>3. Reads(i) = {More}
    BY <1>3, <1>6 DEF Reads
  <2> QED
    BY <2>2, <2>3
<1>7. Reads(i) = {Heard(u[i])}
  BY <1>4, <1>5, <1>6
<1> QED
  BY <1>2, <1>3, <1>7, ReadsAre

(* What a NAL unit does of the flags.                                      *)
FlagsAfter(c, d, x, e) ==
  /\ x.t # "slice" => e.frame = d.frame /\ e.key = d.key
  /\ x.t \notin {"sps", "pps"} => e.sps = d.sps /\ e.pps = d.pps
  /\ x.t = "slice" =>
       IF Active(c, d) THEN e.key = (d.key \/ KeySlice(x)) ELSE e.frame = d.frame /\ e.key = d.key

LEMMA Flags264 ==
  ASSUME stream \in Streams, NEW d \in Decoders, NEW x \in Nals \cup {More}
  PROVE  FlagsAfter("h264", d, x, H264Nal(d, x))
<1> DEFINE e == H264Nal(d, x)
<1>1. CASE x.t = "sps"
  <2>1. e = [d EXCEPT !.sps = x]
    BY <1>1 DEF H264Nal
  <2> HIDE DEF e
  <2>2. e.frame = d.frame /\ e.key = d.key
    BY <2>1 DEF Decoders
  <2> QED
    BY <1>1, <2>2 DEF FlagsAfter, e
<1>2. CASE x.t = "pps"
  <2> DEFINE b == d.pps \/ d.sps.set
  <2>1. e = [d EXCEPT !.pps = b]
    BY <1>2 DEF H264Nal, Decoders
  <2> HIDE DEF e, b
  <2>2. e.frame = d.frame /\ e.key = d.key
    BY <2>1 DEF Decoders
  <2> QED
    BY <1>2, <2>2 DEF FlagsAfter, e
<1>3. CASE x.t = "sei" /\ d.sps.set
  <2> DEFINE s == IF d.sps.structs THEN x.struct ELSE 2
  <2>1. e = [d EXCEPT !.struct = s]
    BY <1>3 DEF H264Nal
  <2> HIDE DEF e, s
  <2>2. e.frame = d.frame /\ e.key = d.key /\ e.sps = d.sps /\ e.pps = d.pps
    BY <2>1 DEF Decoders
  <2> QED
    BY <1>3, <2>2 DEF FlagsAfter, e
<1>4. CASE x.t = "slice" /\ d.sps.set /\ d.sps.rate > 0
  <2> DEFINE s == Hdr(d, x)
             length == Lasts(d.sps, s.field, d.struct)
             n == NewFrames(d.sps.poc, d.pre, s)
             more == d.frames + n
             longer == d.sum + n * length
             new == d.frame \/ n > 0
             key == d.key \/ (s.intra /\ s.first)
  <2>1. e = [d EXCEPT !.duration = length, !.frames = more, !.sum = longer,
                      !.frame = new, !.key = key, !.pre = s]
    BY <1>4 DEF H264Nal, Slice264, Decoders
  <2>2. key = (d.key \/ KeySlice(x))
    <3>1. x \in Nals
      BY <1>4 DEF More
    <3>2. s.intra = x.intra /\ s.first = x.first
      BY <1>4, <3>1, HdrIs
    <3> QED
      BY <1>4, <3>2, Zenon DEF KeySlice, key
  <2> HIDE DEF e, s, length, n, more, longer, new, key
  <2>3. e.key = key /\ e.sps = d.sps /\ e.pps = d.pps
    BY <2>1 DEF Decoders
  <2>4. Active("h264", d)
    BY <1>4 DEF Active
  <2>5. e.key = (d.key \/ KeySlice(x))
    BY <2>2, <2>3, Zenon
  <2> QED
    BY <1>4, <2>3, <2>4, <2>5, Zenon DEF FlagsAfter, e
<1>5. CASE /\ x.t # "sps" /\ x.t # "pps" /\ ~(x.t = "sei" /\ d.sps.set)
           /\ ~(x.t = "slice" /\ d.sps.set /\ d.sps.rate > 0)
  <2>1. e = d
    BY <1>5 DEF H264Nal
  <2>2. x.t = "slice" => ~Active("h264", d)
    BY <1>5 DEF Active
  <2> QED
    BY <2>1, <2>2, Zenon DEF FlagsAfter
<1> QED
  BY <1>1, <1>2, <1>3, <1>4, <1>5

LEMMA Flags265 ==
  ASSUME NEW c, c # "h264", NEW d \in Decoders, NEW x
  PROVE  FlagsAfter(c, d, x, H265Nal(d, x))
<1> DEFINE e == H265Nal(d, x)
<1>1. CASE x.t = "sps"
  <2> DEFINE length == IF x.rate = 0 THEN d.duration ELSE Lasts(x, FALSE, 2)
  <2>1. e = [d EXCEPT !.sps = x, !.duration = length]
    BY <1>1 DEF H265Nal, Decoders
  <2> HIDE DEF e, length
  <2>2. e.frame = d.frame /\ e.key = d.key
    BY <2>1 DEF Decoders
  <2> QED
    BY <1>1, <2>2 DEF FlagsAfter, e
<1>2. CASE x.t = "pps"
  <2> DEFINE b == d.pps \/ d.sps.set
  <2>1. e = [d EXCEPT !.pps = b]
    BY <1>2 DEF H265Nal, Decoders
  <2> HIDE DEF e, b
  <2>2. e.frame = d.frame /\ e.key = d.key
    BY <2>1 DEF Decoders
  <2> QED
    BY <1>2, <2>2 DEF FlagsAfter, e
<1>3. CASE x.t = "slice" /\ d.pps /\ x.first
  <2> DEFINE more == d.frames + 1
             longer == d.sum + d.duration
             key == d.key \/ x.intra
  <2>1. e = [d EXCEPT !.frames = more, !.sum = longer, !.frame = TRUE, !.key = key]
    BY <1>3 DEF H265Nal, Decoders
  <2>2. key = (d.key \/ KeySlice(x))
    BY <1>3, Zenon DEF KeySlice, key
  <2> HIDE DEF e, more, longer, key
  <2>3. e.key = key /\ e.sps = d.sps /\ e.pps = d.pps
    BY <2>1 DEF Decoders
  <2>4. Active(c, d)
    BY <1>3 DEF Active
  <2>5. e.key = (d.key \/ KeySlice(x))
    BY <2>2, <2>3, Zenon
  <2> QED
    BY <1>3, <2>3, <2>4, <2>5, Zenon DEF FlagsAfter, e
<1>4. CASE x.t # "sps" /\ x.t # "pps" /\ ~(x.t = "slice" /\ d.pps /\ x.first)
  <2>1. e = d
    BY <1>4 DEF H265Nal
  <2>2. CASE x.t = "slice" /\ Active(c, d)
    <3>1. ~x.first
      BY <1>4, <2>2 DEF Active
    <3>2. ~KeySlice(x)
      BY <3>1 DEF KeySlice
    <3>3. d.key = (d.key \/ KeySlice(x))
      BY <3>2, DecoderFacts
    <3> QED
      BY <2>1, <2>2, <3>3, Zenon DEF FlagsAfter
  <2>3. CASE ~(x.t = "slice" /\ Active(c, d))
    BY <2>1, <2>3, Zenon DEF FlagsAfter
  <2> QED
    BY <2>2, <2>3
<1> QED
  BY <1>1, <1>2, <1>3, <1>4

(* One unit more of a PES packet in which no parameter set comes behind a  *)
(* slice.                                                                  *)
LEMMA FlagStep ==
  ASSUME NEW c, NEW d \in Decoders, NEW e \in Decoders, NEW u, NEW a \in Nat,
         FlagsOf(c, d, u, a), FlagsAfter(c, d, Heard(u[a + 1]), e),
         Said(u[a + 1]).t \in {"sps", "pps"} => \A i \in 1..a : Said(u[i]).t # "slice"
  PROVE  FlagsOf(c, e, u, a + 1)
<1> DEFINE x == Heard(u[a + 1])
           s(i) == Said(u[i])
           k(i) == KeySlice(Said(u[i]))
<1>1. d.key \in BOOLEAN /\ e.key \in BOOLEAN /\ d.frame \in BOOLEAN /\ e.frame \in BOOLEAN
  BY DecoderFacts
<1>2. /\ x.t \in {"sps", "pps", "slice"} \/ s(a + 1).t \in {"sps", "pps", "slice"} => x = s(a + 1)
      /\ (k(a + 1) <=> KeySlice(x))
  BY DEF Heard, More, KeySlice
<1>3. \A i \in 1..(a + 1) : i \in 1..a \/ i = a + 1
  OBVIOUS
<1>4. 1..a \subseteq 1..(a + 1) /\ a + 1 \in 1..(a + 1)
  OBVIOUS
<1>5. \A i \in 1..a : k(i) => s(i).t = "slice"
  BY DEF KeySlice
<1>6. /\ d.key => \E i \in 1..a : k(i)
      /\ d.frame => Active(c, d) /\ \E i \in 1..a : s(i).t = "slice"
      /\ Active(c, d) => \A i \in 1..a : k(i) => d.key
  BY DEF FlagsOf
<1>7. KeySlice(x) => x.t = "slice"
  BY DEF KeySlice
<1>8. x.t \in {"sps", "pps"} => \A i \in 1..a : s(i).t # "slice"
  BY <1>2
<1>9. x.t \notin {"sps", "pps"} => Active(c, e) = Active(c, d)
  BY DEF FlagsAfter, Active
<1>10. /\ x.t # "slice" => e.frame = d.frame /\ e.key = d.key
       /\ x.t = "slice" =>
            IF Active(c, d) THEN e.key = (d.key \/ KeySlice(x)) ELSE e.frame = d.frame /\ e.key = d.key
  BY DEF FlagsAfter
<1>11. x.t = "slice" => s(a + 1).t = "slice"
  BY <1>2
<1> HIDE DEF x, s, k
<1>12. e.key => \E i \in 1..(a + 1) : k(i)
  BY <1>1, <1>2, <1>4, <1>6, <1>10
<1>13. e.frame => Active(c, e) /\ \E i \in 1..(a + 1) : s(i).t = "slice"
  <2> SUFFICES ASSUME e.frame PROVE Active(c, e) /\ \E i \in 1..(a + 1) : s(i).t = "slice"
    OBVIOUS
  <2>1. CASE x.t = "slice"
    <3>1. Active(c, d)
      BY <1>6, <1>10, <2>1
    <3> QED
      BY <1>4, <1>9, <1>11, <2>1, <3>1
  <2>2. CASE x.t # "slice"
    <3>1. Active(c, d) /\ \E i \in 1..a : s(i).t = "slice"
      BY <1>6, <1>10, <2>2
    <3> QED
      BY <1>4, <1>8, <1>9, <3>1
  <2> QED
    BY <2>1, <2>2
<1>14. Active(c, e) => \A i \in 1..(a + 1) : k(i) => e.key
  <2> SUFFICES ASSUME Active(c, e), NEW i \in 1..(a + 1), k(i) PROVE e.key
    OBVIOUS
  <2>1. CASE x.t = "slice"
    <3>1. Active(c, d) /\ e.key = (d.key \/ KeySlice(x))
      BY <1>9, <1>10, <2>1
    <3> QED
      BY <1>2, <1>3, <1>6, <3>1
  <2>2. CASE x.t # "slice"
    <3>1. i \in 1..a
      BY <1>2, <1>3, <1>7, <2>2
    <3>2. Active(c, d)
      BY <1>5, <1>8, <1>9, <3>1
    <3> QED
      BY <1>6, <1>10, <2>2, <3>1, <3>2
  <2> QED
    BY <2>1, <2>2
<1> QED
  BY <1>12, <1>13, <1>14 DEF FlagsOf, s, k

(* A PES packet that can be read lies whole in pes_packet.                 *)
LEMMA WholeUnits ==
  ASSUME stream \in Streams, Typed, Whole, ReadableIn(stream, spoilt, pes)
  PROVE  /\ SubSeq(mem, 1, size) = UnitsIn(stream, pes)
         /\ Len(UnitsIn(stream, pes)) = size /\ DOMAIN UnitsIn(stream, pes) = 1..size
         /\ size \in Nat /\ size >= 1 /\ 1 \in 1..size
         /\ mem \in Seq(Read) /\ size \in 0..Len(mem)
         /\ UnitsIn(stream, pes)[1] = [t |-> "header", ok |-> TRUE]
         /\ mem[1] = UnitsIn(stream, pes)[1]
<1> DEFINE u == UnitsIn(stream, pes)
<1>1. u # <<>> /\ u[1] = [t |-> "header", ok |-> TRUE] /\ SubSeq(mem, 1, size) = u
  BY DEF ReadableIn, Whole
<1>2. mem \in Seq(Read) /\ size \in 0..Len(mem)
  BY DEF Typed
<1> HIDE DEF u
<1>3. Len(mem) \in Nat /\ size \in Nat
  BY <1>2
<1>4. Len(u) = size /\ DOMAIN u = 1..size /\ \A i \in 1..size : u[i] = mem[i]
  BY <1>1, <1>2, <1>3
<1>5. size # 0
  <2>1. size = 0 => SubSeq(mem, 1, size) = <<>>
    BY SubSeqEmpty
  <2> QED
    BY <1>1, <2>1
<1>6. size >= 1 /\ 1 \in 1..size
  BY <1>3, <1>5
<1> QED
  BY <1>1, <1>2, <1>3, <1>4, <1>6 DEF u

(* The flags are counted from the start of the PES packet on,              *)
LEMMA FlaggedStarts ==
  ASSUME stream \in Streams, Typed, Whole, StartPacket
  PROVE  Flagged'
<1>1. /\ UNCHANGED <<stream, spoilt, codec, pes, mem, size>> /\ at' = 1
      /\ payload' = (IF Headed THEN size ELSE payload)
      /\ dec' = [dec EXCEPT !.frame = FALSE, !.key = FALSE]
  BY DEF StartPacket, input, sync, tables
<1>2. SUFFICES ASSUME ReadableIn(stream, spoilt, pes)
               PROVE  payload' = size /\ FlagsOf(codec, dec', UnitsIn(stream, pes), 1)
  BY <1>1 DEF Flagged
<1>3. /\ size >= 1 /\ size \in Nat /\ UnitsIn(stream, pes)[1] = [t |-> "header", ok |-> TRUE]
      /\ mem[1] = UnitsIn(stream, pes)[1]
  BY <1>2, WholeUnits
<1>4. Headed
  BY <1>3 DEF Headed
<1>5. ~dec'.frame /\ ~dec'.key
  BY <1>1 DEF Typed, Decoders
<1>6. \A i \in 1..1 : ~KeySlice(Said(UnitsIn(stream, pes)[i]))
  BY <1>3 DEF KeySlice, Said
<1>7. FlagsOf(codec, dec', UnitsIn(stream, pes), 1)
  BY <1>5, <1>6 DEF FlagsOf
<1> QED
  BY <1>1, <1>4, <1>7

(* unit by unit,                                                           *)
LEMMA FlaggedParses ==
  ASSUME stream \in Streams, Typed, Whole, Flagged, Typed', ParseNal \/ ParseEnds
  PROVE  Flagged'
<1>1. /\ UNCHANGED <<stream, spoilt, codec, pes, mem, size, payload>> /\ pc = "parse"
      /\ at < payload
  BY DEF ParseNal, ParseEnds, input, sync, tables
<1> DEFINE u == UnitsIn(stream, pes)
<1>2. SUFFICES ASSUME ReadableIn(stream, spoilt, pes)
               PROVE  payload = size /\ FlagsOf(codec, dec', u, at')
  BY <1>1 DEF Flagged
<1>3. payload = size /\ FlagsOf(codec, dec, u, at)
  BY <1>1, <1>2 DEF Flagged
<1>4. /\ SubSeq(mem, 1, size) = u /\ Len(u) = size /\ DOMAIN u = 1..size /\ size \in Nat
      /\ mem \in Seq(Read) /\ size \in 0..Len(mem) /\ u[1] = [t |-> "header", ok |-> TRUE]
  BY <1>2, WholeUnits
<1>5. /\ \A j \in DOMAIN u :
            /\ u[j].t = "cut" => j < Len(u) /\ u[j + 1] = [t |-> "tail", nal |-> u[j].nal]
            /\ u[j].t = "tail" => u[j - 1] = [t |-> "cut", nal |-> u[j].nal]
            /\ u[j].t # "junk"
      /\ \A i, j \in DOMAIN u :
            i < j /\ Said(u[i]).t = "slice" => Said(u[j]).t \notin {"sps", "pps"}
  BY <1>2 DEF ReadableIn
<1> HIDE DEF u
<1>6. at \in Nat /\ at \in 1..payload
  <2>1. at \in 1..payload
    BY DEF Typed
  <2> QED
    BY <1>3, <1>4, <2>1
<1>7. at + 1 \in 1..size
  BY <1>1, <1>3, <1>4, <1>6
<1>8. ~Broken(at + 1) /\ Reads(at + 1) = {Heard(u[at + 1])} /\ Heard(u[at + 1]) \in Nals \cup {More}
  BY <1>3, <1>4, <1>5, <1>7, ReadsWhole
<1>9. ParseNal
  BY <1>8 DEF ParseEnds
<1>10. at' = at + 1 /\ dec' = IF codec = "h264" THEN H264Nal(dec, Heard(u[at + 1]))
                              ELSE H265Nal(dec, Heard(u[at + 1]))
  BY <1>8, <1>9 DEF ParseNal
<1>11. dec \in Decoders /\ dec' \in Decoders
  <2>1. Decoders' = Decoders
    BY DEF Decoders
  <2> QED
    BY <2>1 DEF Typed
<1>12. FlagsAfter(codec, dec, Heard(u[at + 1]), dec')
  <2>1. CASE codec = "h264"
    <3>1. dec' = H264Nal(dec, Heard(u[at + 1]))
      BY <1>10, <2>1
    <3> QED
      BY <1>8, <1>11, <2>1, <3>1, Flags264
  <2>2. CASE codec # "h264"
    <3>1. dec' = H265Nal(dec, Heard(u[at + 1]))
      BY <1>10, <2>2
    <3> QED
      BY <1>11, <2>2, <3>1, Flags265
  <2> QED
    BY <2>1, <2>2
<1>13. Said(u[at + 1]).t \in {"sps", "pps"} => \A i \in 1..at : Said(u[i]).t # "slice"
  <2>1. \A i \in 1..at : i \in 1..size /\ i < at + 1
    BY <1>4, <1>6, <1>7
  <2> QED
    BY <1>4, <1>5, <1>7, <2>1
<1>14. FlagsOf(codec, dec', u, at + 1)
  BY <1>3, <1>6, <1>11, <1>12, <1>13, FlagStep
<1> QED
  BY <1>3, <1>10, <1>14

(* and at its end the key flag is that of its slices.                      *)
LEMMA EndKeyed ==
  ASSUME stream \in Streams, Typed, Whole, Flagged, Pushed, pc = "parse", at = payload
  PROVE  Keyed(stream, spoilt, Buffer)
<1> DEFINE u == UnitsIn(stream, pes)
<1>1. Buffer.pes = pes /\ Buffer.key = dec.key
  BY DEF Buffer
<1>2. SUFFICES ASSUME ReadableIn(stream, spoilt, pes)
               PROVE  dec.key = \E x \in SlicesOf(u) : x.intra /\ x.first
  BY <1>1 DEF Keyed
<1>3. at = size /\ FlagsOf(codec, dec, u, size)
  BY <1>2 DEF Flagged
<1>4. DOMAIN u = 1..size
  BY <1>2, WholeUnits
<1> HIDE DEF u
<1>5. dec.frame /\ dec.key \in BOOLEAN
  BY DecoderFacts DEF Pushed, Typed
<1>6. dec.key <=> \E i \in 1..size : KeySlice(Said(u[i]))
  BY <1>3, <1>5 DEF FlagsOf
<1>7. ASSUME NEW i \in 1..size, KeySlice(Said(u[i]))
      PROVE  \E x \in SlicesOf(u) : x.intra /\ x.first
  <2>1. u[i] \in ToSet(u)
    BY <1>4 DEF ToSet
  <2>2. Said(u[i]) \in SlicesOf(u)
    BY <1>7, <2>1 DEF SlicesOf, NalsOf, KeySlice
  <2> QED
    BY <1>7, <2>2 DEF KeySlice
<1>8. ASSUME NEW x \in SlicesOf(u), x.intra, x.first
      PROVE  \E i \in 1..size : KeySlice(Said(u[i]))
  <2>1. PICK y \in ToSet(u) : x = Said(y) /\ x.t = "slice"
    BY DEF SlicesOf, NalsOf
  <2>2. PICK i \in 1..size : u[i] = y
    BY <1>4 DEF ToSet
  <2> QED
    BY <1>8, <2>1, <2>2 DEF KeySlice
<1>9. (\E i \in 1..size : KeySlice(Said(u[i]))) <=> \E x \in SlicesOf(u) : x.intra /\ x.first
  BY <1>7, <1>8
<1> QED
  BY <1>5, <1>6, <1>9

-----------------------------------------------------------------------------
(* The invariant.                                                          *)

(* The inductive invariant: the parts of it need one another.              *)
IInv ==
  /\ SyncInv
  /\ Parsing
  /\ NearDamage
  /\ Behind
  /\ Typed
  /\ Started
  /\ Times /\ PtsContinuous
  /\ InOrder
  /\ Heads /\ AllFramed /\ Whole
  /\ Flagged

(* The empty sequence is of every type.                                    *)
LEMMA EmptySeqIn ==
  ASSUME NEW T
  PROVE  <<>> \in Seq(T)
  OBVIOUS

(* It holds at the start.                                                  *)
LEMMA InitInv == Init => IInv
<1> SUFFICES ASSUME Init PROVE IInv
  OBVIOUS
<1>1. /\ stream \in Streams /\ cur \in {0, 1} /\ lost = {} /\ out = <<>> /\ data = <<>>
      /\ known = FALSE /\ seenPat = FALSE /\ seenPmt = FALSE /\ codec = ""
      /\ pes = <<>> /\ mem = <<>> /\ size = 0 /\ payload = 1 /\ at = 1
      /\ pc = "idle" /\ seenIdr = FALSE /\ PTS = 0
      /\ dec = [sps |-> NoSps, pps |-> FALSE, struct |-> 2, pre |-> NoSlice, duration |-> 4,
                frames |-> 0, sum |-> 0, frame |-> FALSE, key |-> FALSE]
  BY DEF Init
<1>2. SyncInv
  BY InitSync
<1>3. NearDamage /\ Behind /\ Started /\ Parsing /\ Flagged
  BY <1>1 DEF NearDamage, Behind, Started, Parsing, Flagged
<1>4. dec \in Decoders /\ Own(dec)
  <2>1. NoSps \in ParameterSets /\ NoSps.set = FALSE
    BY DEF ParameterSets, NoSps
  <2>2. NoSlice \in Nal
    <3>1. NoSlice \in [t : {"slice"}, pic : Nat, num : Int, field : BOOLEAN, bottom : BOOLEAN,
                       ref : Int, poc1 : Int, poc2 : Int, idr : BOOLEAN, id : Int,
                       intra : BOOLEAN, first : BOOLEAN]
      BY DEF NoSlice
    <3> QED
      BY <3>1, Zenon DEF Nal
  <2> HIDE DEF NoSps
  <2>3. dec \in Decoders
    BY <1>1, <2>1, <2>2 DEF Decoders
  <2>4. dec.sps.set = FALSE /\ dec.struct = 2 /\ dec.pps = FALSE
    <3>1. dec.sps = NoSps /\ dec.struct = 2 /\ dec.pps = FALSE
      BY <1>1
    <3> QED
      BY <2>1, <3>1, Zenon
  <2>5. Own(dec)
    BY <2>4 DEF Own, Structs
  <2> QED
    BY <2>3, <2>5
<1>5. Typed
  <2>1. out \in Seq(Buffers) /\ data \in Seq(1..Len(stream)) /\ pes \in Seq(Video) /\ mem \in Seq(Read)
    <3>1. out = <<>> /\ data = <<>> /\ pes = <<>> /\ mem = <<>>
      BY <1>1
    <3> QED
      BY <3>1, EmptySeqIn
  <2>2. Len(mem) = 0
    <3>1. Len(<<>>) = 0
      OBVIOUS
    <3> QED
      BY <1>1, <3>1, Zenon
  <2>3. size \in 0..Len(mem) /\ payload = 1 /\ at \in 1..payload
    <3>1. size = 0 /\ payload = 1 /\ at = 1
      BY <1>1
    <3> QED
      BY <2>2, <3>1
  <2> QED
    BY <1>1, <1>4, <2>1, <2>3 DEF Typed
<1>6. /\ dec.sps = NoSps /\ dec.frames = 0 /\ dec.sum = 0 /\ dec.duration = 4 /\ PTS = 0
      /\ codec = "" /\ out = <<>>
  BY <1>1
<1>7. Times /\ PtsContinuous
  <2>1. dec.sps.set = FALSE
    <3>1. NoSps.set = FALSE
      BY DEF NoSps
    <3> QED
      BY <1>6, <3>1, Zenon
  <2>2. dec.frames * dec.duration = PTS + dec.sum
    <3>1. 0 * 4 = 0 + 0
      OBVIOUS
    <3> QED
      BY <1>6, <3>1, Zenon
  <2>3. Timed(dec, PTS)
    BY <1>6, <2>1, <2>2 DEF Timed
  <2>4. Times
    BY <1>6, <2>3, Zenon DEF Times
  <2>5. PtsContinuous
    <3>1. DOMAIN <<>> = {}
      OBVIOUS
    <3>2. DOMAIN out = {}
      BY <1>6, <3>1, Zenon
    <3> QED
      BY <3>2 DEF PtsContinuous
  <2> QED
    BY <2>4, <2>5
<1>8. Sent = <<>>
  <2>1. FlattenSeq(Boxes(out)) = <<>> /\ data = <<>>
    BY <1>1, NoBoxes
  <2>2. Sent = <<>> \o <<>>
    BY <2>1, SentIs
  <2> QED
    BY <2>2
<1>9. InOrder
  BY <1>8 DEF InOrder, Ordered
<1>10. Heads /\ AllFramed /\ Whole
  <2>1. DOMAIN <<>> = {} /\ Len(<<>>) = 0 /\ 1..0 = {}
    OBVIOUS
  <2>2. DOMAIN out = {} /\ Len(data) = 0
    BY <1>1, <2>1, Zenon
  <2>3. AllFramed
    BY <2>2 DEF AllFramed
  <2>4. Heads
    BY <1>1, <2>1, <2>2 DEF Heads
  <2>5. Whole
    <3>1. SubSeq(<<>>, 1, 0) = <<>>
      BY SubSeqEmpty
    <3>2. UnitsIn(stream, <<>>) = <<>>
      <4>1. [i \in DOMAIN <<>> |-> stream[<<>>[i]].units] = <<>>
        OBVIOUS
      <4> QED
        BY <4>1 DEF UnitsIn, FlattenSeq
    <3>3. SubSeq(mem, 1, size) = UnitsIn(stream, pes)
      BY <1>1, <3>1, <3>2, Zenon
    <3> QED
      BY <3>3 DEF Whole
  <2> QED
    BY <2>3, <2>4, <2>5
<1> QED
  BY <1>2, <1>3, <1>5, <1>7, <1>9, <1>10 DEF IInv

(* A step that passes packets over.                                        *)
LEMMA SkipInv == IInv /\ Skips /\ SyncInv' /\ Parsing' /\ Flagged' => IInv'
<1> SUFFICES ASSUME IInv, Skips, SyncInv', Parsing', Flagged' PROVE IInv'
  OBVIOUS
<1>1. /\ UNCHANGED <<stream, tables, video>> /\ cur' \in cur..Cells /\ spoilt \subseteq spoilt'
      /\ lost' = lost \cup Passed(cur, cur')
      /\ \A n \in Passed(cur, cur') : \E m \in n..(n + 3) : m \in Damaged \cup spoilt'
  BY DEF Skips
<1>2. stream \in Streams /\ cur \in Nat
  BY StreamFacts DEF IInv, SyncInv, Mapping
<1>3. UNCHANGED <<Damaged, Video, Nals, Paces, Structs, Read, Buffers, Decoders, OneRate, Sent>>
  BY <1>1 DEF Damaged, Video, Nals, Paces, Structs, Read, Buffers, Decoders, OneRate, Sent, video
<1>4. NearDamage'
  BY <1>1, <1>3 DEF IInv, NearDamage
<1>5. Behind'
  <2> SUFFICES ASSUME NEW n \in lost' PROVE n \in 1..Len(stream) /\ 2 * n < cur' + 2
    BY <1>1 DEF Behind
  <2>1. CASE n \in lost
    <3>1. n \in 1..Len(stream) /\ 2 * n < cur + 2 /\ cur' \in Nat /\ cur <= cur'
      BY <1>1, <1>2, <2>1, PassedAre DEF IInv, Behind
    <3>2. n \in Nat
      BY <1>2, <3>1, StreamFacts
    <3>3. \A e \in Nat : cur <= e => 2 * n < e + 2
      BY <1>2, <3>1, <3>2
    <3> QED
      BY <3>1, <3>3
  <2>2. CASE n \in Passed(cur, cur')
    BY <1>1, <1>2, <2>2, PassedAre
  <2> QED
    BY <1>1, <2>1, <2>2
<1>6. Typed' /\ Started' /\ Times' /\ PtsContinuous'
  <2>1. UNCHANGED <<known, seenPat, seenPmt, codec, pes, mem, size, payload, at, dec, seenIdr, data,
                   PTS, out>>
    BY <1>1 DEF tables, video, parser
  <2>2. Typed'
    BY <1>1, <1>3, <2>1 DEF IInv, Typed, Own
  <2>3. Started'
    BY <2>1 DEF IInv, Started
  <2>4. Times'
    BY <1>3, <2>1 DEF IInv, Times, Timed
  <2>5. PtsContinuous'
    BY <1>3, <2>1 DEF IInv, PtsContinuous
  <2> QED
    BY <2>2, <2>3, <2>4, <2>5
<1>7. InOrder'
  <2>1. Ordered(Sent, cur', lost \cup Passed(cur, cur'))
    BY <1>1, <1>2, OrderSkips DEF IInv, InOrder
  <2>2. Ordered(Sent', cur', lost')
    BY <1>1, <1>3, <2>1
  <2> QED
    BY <1>1, <2>2 DEF InOrder, Ordered, IsGood
<1>8. Heads' /\ AllFramed' /\ Whole'
  BY <1>2, HeadsSkips DEF IInv
<1> QED
  BY <1>4, <1>5, <1>6, <1>7, <1>8 DEF IInv

(* A step of the parser.                                                   *)
LEMMA ParseInv == IInv /\ (StartPacket \/ ParseNal \/ ParseEnds) => IInv'
<1> SUFFICES ASSUME IInv, StartPacket \/ ParseNal \/ ParseEnds PROVE IInv'
  OBVIOUS
<1>1. SyncInv' /\ Parsing' /\ Parses
  BY ParseSync DEF IInv
<1>2. UNCHANGED <<stream, cur, lost, spoilt, codec, pes, mem, size, seenIdr, data, PTS, out>>
  BY <1>1 DEF Parses, input, sync, tables
<1>3. stream \in Streams
  BY DEF IInv, SyncInv, Mapping
<1>4. Typed' /\ Times'
  BY <1>1, <1>3, ParseKeeps DEF IInv
<1>5. NearDamage' /\ Behind' /\ Started'
  BY <1>2 DEF IInv, NearDamage, Damaged, Behind, Started
<1>6. PtsContinuous'
  <2>1. Paces' = Paces
    BY <1>2 DEF Paces, Nals, Video
  <2> QED
    BY <1>2, <2>1 DEF IInv, PtsContinuous
<1>7. InOrder'
  <2>1. Sent' = Sent
    BY <1>2 DEF Sent
  <2> QED
    BY <1>2, <2>1 DEF IInv, InOrder, Ordered, IsGood
<1>8. Heads' /\ AllFramed' /\ Whole'
  BY <1>1, HeadsParses DEF IInv
<1>9. Flagged'
  <2>1. CASE StartPacket
    BY <1>3, <2>1, FlaggedStarts DEF IInv
  <2>2. CASE ParseNal \/ ParseEnds
    BY <1>3, <1>4, <2>2, FlaggedParses DEF IInv
  <2> QED
    BY <2>1, <2>2
<1> QED
  BY <1>1, <1>4, <1>5, <1>6, <1>7, <1>8, <1>9 DEF IInv

(* No other step begins to parse.                                          *)
LEMMA NotParsing ==
  ASSUME Chain \/ DiscoverSize \/ Synchronise \/ NeedMore \/ LostSync \/ NextPacket
  PROVE  Parsing' /\ Flagged'
<1>1. pc' # "parse"
  <2>1. CASE NextPacket
    <3>1. ClearPacket
      BY <2>1 DEF NextPacket, BadPacket, OtherPacket, Pat, Pmt, EarlyStart, ContPacket, EndOfPes
    <3> QED
      BY <3>1 DEF ClearPacket
  <2>2. CASE Chain \/ DiscoverSize \/ Synchronise \/ NeedMore \/ LostSync
    BY <2>2 DEF Chain, DiscoverSize, Synchronise, NeedMore, LostSync, Stop
  <2> QED
    BY <2>1, <2>2
<1> QED
  BY <1>1 DEF Parsing, Flagged

(* A step that takes a packet.                                             *)
LEMMA TakeInv == IInv /\ NextPacket /\ Takes /\ SyncInv' => IInv'
<1> SUFFICES ASSUME IInv, NextPacket, Takes, SyncInv' PROVE IInv'
  OBVIOUS
<1>1. /\ UNCHANGED <<stream, lost, spoilt>> /\ cur % 2 = 0 /\ cur' = cur + 2 /\ cur + 2 <= Cells
      /\ stream[PacketOf(cur)].k # "nosync"
  BY DEF Takes
<1>2. stream \in Streams /\ cur \in Nat
  BY StreamFacts DEF IInv, SyncInv, Mapping
<1>3. PacketOf(cur) \in 1..Len(stream) /\ 2 * PacketOf(cur) = cur + 2
  <2>1. Len(stream) \in Nat /\ Cells = 2 * Len(stream)
    BY <1>2, StreamFacts
  <2>2. PacketOf(cur) \in Nat \ {0} /\ 2 * PacketOf(cur) = cur + 2
    BY <1>1, <1>2, Halves
  <2> QED
    BY <1>1, <1>2, <2>1, <2>2
<1>4. /\ Typed /\ Started /\ Times /\ PtsContinuous /\ Behind
      /\ SyncInv /\ Parsing /\ Heads /\ AllFramed /\ Whole /\ Flagged
  BY DEF IInv
<1>5. Pends \/ Ends
  BY <1>2, <1>3, <1>4, PacketDoes
<1>6. Typed'
  BY <1>1, <1>2, <1>3, <1>4, <1>5, TypedTakes
<1>7. Times' /\ PtsContinuous'
  BY <1>1, <1>2, <1>3, <1>4, <1>5, TimesTakes
<1>8. Grows /\ Started' /\ (~seenIdr' => Sent = <<>>)
  BY <1>2, <1>3, <1>4, <1>5, SentTakes
<1>9. NearDamage' /\ Behind'
  <2>1. Damaged' = Damaged
    BY <1>1 DEF Damaged
  <2>2. NearDamage'
    BY <1>1, <2>1 DEF IInv, NearDamage
  <2>3. \A n \in lost : n \in Nat /\ 2 * n < cur + 2
    BY <1>2, <1>4, StreamFacts DEF Behind
  <2>4. \A n \in lost : 2 * n < cur + 4
    BY <1>2, <2>3
  <2>5. (cur + 2) + 2 = cur + 4
    BY <1>2
  <2> QED
    BY <1>1, <1>4, <2>2, <2>4, <2>5 DEF Behind
<1>10. InOrder'
  <2>1. Ordered(Sent, cur, lost)
    BY DEF IInv, InOrder
  <2>2. Ordered(Sent', cur + 2, lost)
    <3>1. CASE seenIdr' /\ stream[PacketOf(cur)].k # "bad"
      <4>1. PacketOf(cur) \notin lost
        BY <1>2, <1>3, <1>4 DEF Behind
      <4>2. IsGood(PacketOf(cur), lost)
        BY <1>1, <3>1, <4>1 DEF IsGood
      <4> QED
        BY <1>1, <1>2, <1>3, <1>8, <2>1, <3>1, <4>2, OrderTakes DEF Grows
    <3>2. CASE ~(seenIdr' /\ stream[PacketOf(cur)].k # "bad")
      <4>1. Sent' = Sent /\ (Sent = <<>> \/ stream[PacketOf(cur)].k = "bad")
        BY <1>8, <3>2 DEF Grows
      <4> QED
        BY <1>1, <1>2, <2>1, <4>1, OrderKeeps
    <3> QED
      BY <3>1, <3>2
  <2> QED
    BY <1>1, <2>2 DEF InOrder, Ordered, IsGood
<1>11. ~needSync
  BY <1>4 DEF NextPacket, BadPacket, OtherPacket, Pat, Pmt, EarlyStart, ContPacket, EndOfPes,
              HasPacket, Parsing
<1>12. Heads' /\ AllFramed'
  <2>1. CASE Pends
    BY <1>2, <1>3, <1>4, <2>1, HeadsPends
  <2>2. CASE Ends
    <3>1. Pushed => Keyed(stream, spoilt, Buffer)
      BY <1>2, <1>4, <2>2, EndKeyed DEF Ends
    <3> QED
      BY <1>2, <1>3, <1>4, <2>2, <3>1, HeadsEnds
  <2> QED
    BY <1>5, <2>1, <2>2
<1>13. Whole'
  BY <1>1, <1>2, <1>3, <1>4, <1>5, <1>11, WholeTakes
<1>14. Parsing' /\ Flagged'
  BY NotParsing
<1> QED
  BY <1>4, <1>6, <1>7, <1>8, <1>9, <1>10, <1>12, <1>13, <1>14 DEF IInv

(* Every step keeps the invariant.                                         *)
LEMMA StepInv == IInv /\ [Next]_vars => IInv'
<1> SUFFICES ASSUME IInv, [Next]_vars PROVE IInv'
  OBVIOUS
<1>1. SyncInv
  BY DEF IInv
<1>2. CASE UNCHANGED vars
  <2>1. UNCHANGED <<stream, fed, bounds, pc, cur, top, valid, sized, needSync, lost, spoilt, tables, video>>
    BY <1>2 DEF vars, input, sync
  <2>2. SyncInv'
    BY <1>1, <2>1 DEF SyncInv, Mapping, Unheld, LittleHeldBack, Cells, PacketOf, Discover
  <2>3. Skips
    BY <1>1, <2>1, StaySkips DEF SyncInv
  <2>4. Parsing' /\ Flagged'
    <3>1. UNCHANGED <<codec, pes, mem, size, payload, at, dec>>
      BY <2>1 DEF tables, video, parser
    <3> QED
      BY <2>1, <3>1 DEF IInv, Parsing, Flagged, SyncByte, PacketOf
  <2> QED
    BY <2>2, <2>3, <2>4, SkipInv
<1>3. CASE Chain \/ DiscoverSize \/ Synchronise \/ NeedMore \/ LostSync
  <2>1. SyncInv' /\ Skips
    BY <1>1, <1>3, ChainSync, DiscoverSync, SynchroniseSync, NeedMoreSync, LostSyncSync
  <2>2. Parsing' /\ Flagged'
    BY <1>3, NotParsing
  <2> QED
    BY <2>1, <2>2, SkipInv
<1>4. CASE StartPacket \/ ParseNal \/ ParseEnds
  BY <1>4, ParseInv
<1>5. CASE NextPacket
  <2>1. Parsing
    BY DEF IInv
  <2> QED
    BY <1>1, <1>5, <2>1, PacketSync, TakeInv
<1> QED
  BY <1>2, <1>3, <1>4, <1>5 DEF Next

(* It holds always.                                                        *)
LEMMA Always == Spec => []IInv
  BY InitInv, StepInv, PTL DEF Spec

(* When the chain function returns (tssegment.c:273), less than three      *)
(* packets wait in the adapter, before the packet size is known less than  *)
(* five, whatever the stream, its damages and the lengths of its buffers.  *)
THEOREM HeldBackBounded == Spec => []LittleHeldBack
<1>1. IInv => LittleHeldBack
  BY DEF IInv, SyncInv
<1> QED
  BY <1>1, Always, PTL

(* From the first packet pended on, every packet that is not bad is pushed *)
(* or pended, once and in order, but for those near a damage               *)
(* (tssegment.c:264, 592, 1308).                                           *)
THEOREM LossTheorem == Spec => []NothingElseLost
<1>1. IInv => NothingElseLost
  <2> SUFFICES ASSUME IInv PROVE NothingElseLost
    OBVIOUS
  <2>1. stream \in Streams /\ cur \in Nat /\ Len(stream) \in Nat /\ cur <= 2 * Len(stream)
    BY StreamFacts DEF IInv, SyncInv, Mapping
  <2>2. Ordered(Sent, cur, lost)
    BY DEF IInv, InOrder
  <2>3. Sent \in Seq(1..Len(stream)) /\ DOMAIN Sent = 1..Len(Sent) /\ Len(Sent) \in Nat
    BY <2>2 DEF Ordered
  <2>4. \A i, j \in DOMAIN Sent : i < j => Sent[i] < Sent[j]
    BY <2>2, <2>3 DEF Ordered
  <2>5. PacketOf(cur) \in Nat /\ 2 * (PacketOf(cur) - 1) <= cur /\ cur < 2 * (PacketOf(cur) - 1) + 2
    <3>1. PacketOf(cur) \in Nat \ {0} /\ 2 * PacketOf(cur) <= cur + 2 /\ cur < 2 * PacketOf(cur)
      BY <2>1, Halves
    <3> QED
      BY <2>1, <3>1
  <2> DEFINE Past == {n \in Sent[1]..(PacketOf(cur) - 1) :
                        stream[n].k \notin {"bad", "nosync"} /\ n \notin lost}
  <2>6. ASSUME Sent # <<>> PROVE ToSet(Sent) = Past
    <3>1. 1 \in 1..Len(Sent) /\ Sent[1] \in 1..Len(stream)
      BY <2>3, <2>6
    <3>2. ASSUME NEW n \in ToSet(Sent) PROVE n \in Past
      <4>1. PICK i \in 1..Len(Sent) : n = Sent[i]
        BY <2>3, <3>2 DEF ToSet
      <4>2. n \in Nat /\ 2 * n <= cur /\ IsGood(n, lost)
        BY <2>1, <2>2, <2>3, <4>1 DEF Ordered
      <4>3. Sent[1] <= n
        BY <2>3, <2>4, <3>1, <4>1
      <4>4. n \in Sent[1]..(PacketOf(cur) - 1)
        BY <2>1, <2>5, <3>1, <4>2, <4>3
      <4> QED
        BY <4>2, <4>4 DEF IsGood
    <3>3. ASSUME NEW n \in Past PROVE n \in ToSet(Sent)
      <4>1. n \in Sent[1]..(PacketOf(cur) - 1) /\ IsGood(n, lost)
        BY <3>3 DEF IsGood
      <4>2. n \in Nat /\ Sent[1] <= n /\ 2 * n <= cur
        BY <2>1, <2>5, <3>1, <4>1
      <4>3. n \in Sent[1]..Len(stream) /\ 2 * n < cur + 2
        BY <2>1, <3>1, <4>2
      <4>4. \E i \in 1..Len(Sent) : Sent[i] = n
        BY <2>2, <2>6, <4>1, <4>3 DEF Ordered
      <4> QED
        BY <2>3, <4>4 DEF ToSet
    <3> QED
      BY <3>2, <3>3
  <2>7. NearDamage
    BY DEF IInv
  <2> QED
    BY <2>4, <2>6, <2>7 DEF NothingElseLost, NearDamage
<1> QED
  BY <1>1, Always, PTL

(* The buffers pushed follow one another in time without a gap or an       *)
(* overlap (tssegment.c:1302), whatever they hold, as long as every picture *)
(* of the stream lasts as long as any other, by what its parameter sets,   *)
(* SEI and slice headers say.                                              *)
THEOREM TimesTheorem == Spec => []PtsContinuous
<1>1. IInv => PtsContinuous
  BY DEF IInv
<1> QED
  BY <1>1, Always, PTL

(* What is framed is so in the words of the model.                         *)
LEMMA FramedIs ==
  ASSUME AllFramed, NEW i \in DOMAIN out
  PROVE  BeginsPes(out[i]) /\ KeyOfLast(out[i])
<1> DEFINE b == out[i]
<1>1. Begun(stream, b.packets, b.pes) /\ Keyed(stream, spoilt, b)
  BY DEF AllFramed
<1> HIDE DEF b
<1>2. Video = InVideo(stream) /\ UnitsOf(b.pes) = UnitsIn(stream, b.pes)
  BY DEF Video, InVideo, UnitsOf, UnitsIn
<1>3. BeginsPes(b)
  BY <1>1, <1>2 DEF Begun, BeginsPes
<1>4. Readable(b.pes) => ReadableIn(stream, spoilt, b.pes)
  BY <1>2 DEF Readable, ReadableIn
<1>5. KeyOfLast(b)
  BY <1>1, <1>2, <1>4 DEF KeyOfLast, Keyed
<1> QED
  BY <1>3, <1>5 DEF b

(* A buffer pushed begins with the first packet of a PES packet, the PES   *)
(* packet parsed for it is its video packets from the last first packet    *)
(* on, joined ones included, and its key flag is that of their slices when *)
(* they can be read (tssegment.c:1281): however the stream is cut and      *)
(* damaged and wherever its NAL units lie in the packets. This is the part *)
(* of FrameBuffers that holds whatever pictures the stream brings.         *)
THEOREM FlagTheorem == Spec => [](\A i \in DOMAIN out : BeginsPes(out[i]) /\ KeyOfLast(out[i]))
<1>1. IInv => \A i \in DOMAIN out : BeginsPes(out[i]) /\ KeyOfLast(out[i])
  BY FramedIs DEF IInv
<1> QED
  BY <1>1, Always, PTL

(* The adapter and its map agree, all that is kept has its type, and the   *)
(* parser reads nothing behind what pes_packet has held (tssegment.c:1216). *)
THEOREM TypeTheorem == Spec => []TypeOK
<1>1. IInv => TypeOK
  <2> SUFFICES ASSUME IInv PROVE TypeOK
    OBVIOUS
  <2>1. Mapping /\ Typed /\ Behind /\ stream \in Streams
    BY DEF IInv, SyncInv, Mapping
  <2>2. dec.frames \in Nat
    BY <2>1, DecoderFacts DEF Typed
  <2>3. data \in Seq(DOMAIN stream) /\ lost \subseteq DOMAIN stream
    BY <2>1, StreamFacts DEF Typed, Behind
  <2>4. pc = "idle" => needSync /\ top = cur
    BY <2>1 DEF Mapping
  <2>5. /\ mem \in Seq(Read) /\ size \in 0..Len(mem) /\ Len(mem) \in Nat
        /\ (payload = 1 \/ payload \in 1..Len(mem)) /\ at \in 1..payload
    <3>1. mem \in Seq(Read)
      BY <2>1 DEF Typed
    <3>2. Len(mem) \in Nat
      BY <3>1
    <3> QED
      BY <2>1, <3>2 DEF Typed
  <2>6. mem \in Seq(Units)
    <3>1. Read \subseteq Units
      BY <2>1, ReadIs
    <3> HIDE DEF Units
    <3>2. \A i \in 1..Len(mem) : mem[i] \in Units
      BY <2>5, <3>1
    <3>3. mem = [i \in 1..Len(mem) |-> mem[i]]
      BY <2>5
    <3> QED
      BY <2>5, <3>2, <3>3
  <2>7. payload \in 1..(1 + Len(mem)) /\ payload \in Nat /\ at \in Nat
    BY <2>5
  <2>8. at < payload => at + 1 \in DOMAIN mem
    BY <2>5, <2>7
  <2> QED
    BY <2>1, <2>2, <2>3, <2>4, <2>5, <2>6, <2>7, <2>8 DEF TypeOK, Mapping, Typed
<1> QED
  BY <1>1, Always, PTL

=============================================================================
