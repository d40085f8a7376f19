------------------------------ MODULE TsSegment ------------------------------
(***************************************************************************)
(* The element tssegment (tssegment.c), the source of a job that passes an *)
(* encoded stream on: it finds the packets in a transport stream that      *)
(* comes in buffers of any length, finds the video stream in the first PAT *)
(* and PMT, and cuts the stream before every new picture, one buffer with  *)
(* a time, a duration and a key flag for each.                             *)
(*                                                                         *)
(* A packet has two cells, the first begins with the sync byte; a buffer   *)
(* is a number of cells, so that it may end inside a packet. Cells are     *)
(* numbered from 0 and packets from 1. A packet is a record of kind        *)
(*   pat, pmt  the tables, intact or not (ok); a pat says whether its      *)
(*             first entry is the program (program), a pmt the codec       *)
(*   start     a packet of the video stream that begins a PES packet           *)
(*   cont      a packet of the video stream that does not                  *)
(*   other     any other packet, those without payload included            *)
(*   bad       one with the error indicator, scrambled, or with a bad      *)
(*             adaptation field                                            *)
(*   nosync    one whose sync byte is damaged                              *)
(* Packets are of 188 bytes. Three bytes of payload that look like sync    *)
(* bytes at the distance of packets are left out. The payload of a video   *)
(* packet is a sequence of units: the PES header, NAL units, each where its *)
(* own header lies, the halves of one whose header two packets share, and  *)
(* what follows a header. Headers of PES packets have one length, and      *)
(* pes_packet (4096000 bytes) is never full.                               *)
(***************************************************************************)
EXTENDS Integers, Sequences, SequencesExt, FiniteSetsExt

CONSTANTS
    Streams,    \* the streams of a run: sequences of packets
    Chunks,     \* the lengths of buffers, in cells
    Garbled     \* what a NAL unit whose bytes are not its own may be read as

(* NAL units: parameter sets, the pic_struct of a timing SEI, as the fields *)
(* it says a picture lasts, and slices with the fields of their header that *)
(* are compared.                                                           *)
Nal ==
    [t : {"sps"}, rate : Nat, structs : BOOLEAN, poc : Nat, set : {TRUE}]
    \cup [t : {"pps"}] \cup [t : {"sei"}, struct : Nat]
    \cup [t : {"slice"}, pic : Nat, num : Int, field : BOOLEAN, bottom : BOOLEAN, ref : Int,
          poc1 : Int, poc2 : Int, idr : BOOLEAN, id : Int, intra : BOOLEAN, first : BOOLEAN]

Units == Nal \cup [t : {"header"}, ok : BOOLEAN] \cup [t : {"cut", "tail"}, nal : Nal]
         \cup [t : {"more", "junk"}]
Packets ==
    [k : {"pat"}, ok : BOOLEAN, program : BOOLEAN]
    \cup [k : {"pmt"}, ok : BOOLEAN, codec : {"", "h264", "h265"}]
    \cup [k : {"start", "cont"}, units : Seq(Units)]
    \cup [k : {"other", "bad", "nosync"}]

ASSUME SegmentAssumption ==
    /\ Chunks \subseteq Nat \ {0}
    /\ Garbled \subseteq Nal
    /\ \A s \in Streams : s \in Seq(Packets) /\ s # <<>>

VARIABLES
    stream,     \* the stream that comes
    fed,        \* cells pushed into the adapter
    pc,         \* the chain function: idle, in its loop, or parsing a PES packet
    bounds,     \* ends of the buffers of the adapter, up to the first map
    cur,        \* cells flushed from the adapter plus map_offset
    top, valid, \* the map: its end by map_size, and the end of what is mapped
    sized, needSync,    \* packet_size # 0; need_sync
    known, seenPat, seenPmt, codec,     \* known_psi of the PMT; codec: "" as long
                                        \* as video_pid = 0
    pes,        \* the packets whose payload pes_packet holds, by number
    mem, size,  \* pes_packet, the bytes behind included that it held before;
                \* pes_packet_size
    payload, at,    \* the ends of what pes_payload_size says, and of what is parsed
    dec,        \* the parser: last_sps and whether there is a PPS, pic_struct,
                \* pre_slice_hdr with h264_pre_nalu, frame_duration,
                \* frames_accumulate, pes_packet_duration, nalu_parsing_result
    seenIdr, data, PTS, \* seen_idr; tssegment->data, numbers of packets; PTS
    out,        \* history: the buffers pushed
    lost,       \* history: packets with a sync byte that were passed over
    spoilt      \* history: packets the first maps did not hold

input == <<stream, fed, bounds>>
sync == <<cur, top, valid, sized, needSync, lost, spoilt>>
tables == <<known, seenPat, seenPmt, codec>>
parser == <<pes, mem, size, payload, at, dec>>
video == <<parser, seenIdr, data, PTS, out>>
vars == <<input, pc, sync, tables, video>>

Cells == 2 * Len(stream)
Damaged == {n \in DOMAIN stream : stream[n].k = "nosync"}
PacketOf(c) == c \div 2 + 1
Discover == 9   \* 4 * MPEGTS_MAX_PACKETSIZE (832 bytes), in cells of 94 bytes
Beyond == 6     \* 3 * MPEGTS_MAX_PACKETSIZE
More == [t |-> "more"]
Junk == [t |-> "junk"]
NoSps == [t |-> "sps", rate |-> 0, structs |-> FALSE, poc |-> 0, set |-> FALSE]
NoSlice == [t |-> "slice", pic |-> 0, num |-> 0, field |-> FALSE, bottom |-> FALSE, ref |-> 0,
            poc1 |-> 0, poc2 |-> 0, idr |-> FALSE, id |-> 0, intra |-> FALSE, first |-> FALSE]

-----------------------------------------------------------------------------
(* Parsing pictures.                                                       *)
One(b) == IF b THEN 1 ELSE 0

(* gst_h264_video_calculate_framerate: how long a picture lasts, from the   *)
(* time of a field.                                                        *)
Lasts(p, field, struct) ==
    p.rate * ((IF p.structs THEN struct ELSE IF field THEN 1 ELSE 2) * (IF field THEN 2 ELSE 1))

(* h264_parse_slice: the frames a slice adds to frames_accumulate. Each     *)
(* comparison hides the ones after it; the two of a picture order count are *)
(* counted both.                                                           *)
NewFrames(poc, pre, s) ==
    IF s.num # pre.num \/ s.field # pre.field THEN 1
    ELSE IF s.field THEN One(s.bottom # pre.bottom /\ ~s.bottom)
    ELSE IF s.ref # pre.ref /\ 0 \in {s.ref, pre.ref} THEN 1
    ELSE IF poc \in {0, 1} THEN One(s.poc1 # pre.poc1) + One(s.poc2 # pre.poc2)
    ELSE One(s.idr # pre.idr \/ (s.idr /\ s.id # pre.id))

(* One NAL unit of h264_parse_nalu. Without a PPS the header of a slice is  *)
(* read only up to its type; nobody asks.                                  *)
Hdr(d, s) == IF d.pps THEN s
             ELSE [NoSlice EXCEPT !.pic = s.pic, !.ref = s.ref, !.idr = s.idr,
                                  !.intra = s.intra, !.first = s.first]
Slice264(d, s) ==
    LET length == Lasts(d.sps, s.field, d.struct)
        n == NewFrames(d.sps.poc, d.pre, s)
    IN [d EXCEPT !.duration = length, !.frames = @ + n, !.sum = @ + n * length,
                 !.frame = @ \/ n > 0, !.key = @ \/ (s.intra /\ s.first), !.pre = s]
H264Nal(d, u) ==
    CASE u.t = "sps" -> [d EXCEPT !.sps = u]
      [] u.t = "pps" -> [d EXCEPT !.pps = @ \/ d.sps.set]
      [] u.t = "sei" /\ d.sps.set -> [d EXCEPT !.struct = IF d.sps.structs THEN u.struct ELSE 2]
      [] u.t = "slice" /\ d.sps.set /\ d.sps.rate > 0 -> Slice264(d, Hdr(d, u))
      [] OTHER -> d

(* One of h265_parse_nalu.                                                 *)
H265Nal(d, u) ==
    CASE u.t = "sps" ->
           [d EXCEPT !.sps = u, !.duration = IF u.rate = 0 THEN @ ELSE Lasts(u, FALSE, 2)]
      [] u.t = "pps" -> [d EXCEPT !.pps = @ \/ d.sps.set]
      [] u.t = "slice" /\ d.pps /\ u.first ->
           [d EXCEPT !.frames = @ + 1, !.sum = @ + d.duration,
                     !.frame = TRUE, !.key = @ \/ u.intra]
      [] OTHER -> d

(* What a unit of pes_packet is read as. The halves of a header that come   *)
(* together are a NAL unit; half of one, or bytes the map did not hold, may *)
(* be read as anything, and may end the parsing.                            *)
Joined(i) == /\ mem[i].t = "cut" /\ i < payload
             /\ mem[i + 1].t = "tail" /\ mem[i + 1].nal = mem[i].nal
Broken(i) == mem[i].t = "junk" \/ (mem[i].t = "cut" /\ ~Joined(i))
Reads(i) ==
    IF mem[i].t \in {"sps", "pps", "sei", "slice"} THEN {mem[i]}
    ELSE IF mem[i].t = "tail" /\ Joined(i - 1) THEN {mem[i].nal}
    ELSE IF Broken(i) THEN {More} \cup Garbled
    ELSE {More}

-----------------------------------------------------------------------------
(* The bytes.                                                              *)
(* A sync byte, as far as the map holds the stream; bytes it does not hold  *)
(* are taken for no sync bytes.                                            *)
SyncByte(c, end) == c < end /\ c % 2 = 0 /\ stream[PacketOf(c)].k # "nosync"
Syncs(c, n, end) == \A i \in 0..(n - 1) : SyncByte(c + 2 * i, end)

(* The packets whose sync byte lies in the cells that are passed over.     *)
Passed(a, b) == {PacketOf(c) : c \in {c \in a..(b - 1) : c % 2 = 0}} \ Damaged

Stop == pc' = "idle"
Flush(c) == cur' = c /\ top' = c /\ valid' = c /\ needSync' = TRUE

Init ==
    /\ stream \in Streams
    /\ cur \in {0, 1} /\ fed = cur /\ top = cur /\ valid = cur
    /\ pc = "idle" /\ bounds = {} /\ sized = FALSE /\ needSync = TRUE
    /\ known = FALSE /\ seenPat = FALSE /\ seenPmt = FALSE /\ codec = ""
    /\ pes = <<>> /\ mem = <<>> /\ size = 0 /\ payload = 1 /\ at = 1 /\ seenIdr = FALSE /\ data = <<>> /\ PTS = 0
    /\ dec = [sps |-> NoSps, pps |-> FALSE, struct |-> 2, pre |-> NoSlice, duration |-> 4,
              frames |-> 0, sum |-> 0, frame |-> FALSE, key |-> FALSE]
    /\ out = <<>> /\ lost = {} /\ spoilt = {}

(* A buffer arrives: ts_segment_chain begins.                              *)
Chain ==
    /\ pc = "idle" /\ fed < Cells
    /\ \E k \in Chunks :
        /\ fed' = Min({fed + k, Cells})
        /\ bounds' = IF sized THEN {} ELSE {e \in bounds : e > cur} \cup {fed'}
    /\ pc' = "loop"
    /\ UNCHANGED <<stream, sync, tables, video>>

(* try_discover_packet_size maps 832 bytes and takes the map for as long as *)
(* the adapter: it holds the first buffer if that is long enough, or 832    *)
(* bytes.                                                                  *)
Mapped == LET first == Min(bounds) IN IF first - cur >= Discover THEN first ELSE cur + Discover
SizeFound(i) == i + Beyond < fed /\ Syncs(i, 4, Mapped)

DiscoverSize ==
    /\ pc = "loop" /\ ~sized /\ fed - cur >= Discover
    /\ LET found == {i \in cur..fed : SizeFound(i)}
           i == IF found = {} THEN fed - Beyond ELSE Min(found)
       IN /\ lost' = lost \cup Passed(cur, i)
          /\ spoilt' = spoilt \cup {PacketOf(c) : c \in Mapped..(fed - 1)}
          /\ IF found = {}
             THEN Flush(i) /\ Stop /\ UNCHANGED sized
             ELSE /\ cur' = i /\ top' = fed /\ valid' = Mapped /\ sized' = TRUE
                  /\ UNCHANGED <<pc, needSync>>
    /\ UNCHANGED <<input, tables, video>>

(* ts_segment_sync, with the map it takes if less than three packets are    *)
(* left of the last one.                                                   *)
Synchronise ==
    /\ pc = "loop" /\ sized /\ needSync
    /\ fed - cur >= 6
    /\ LET old == top - cur >= 6
           end == IF old THEN top ELSE fed
           held == IF old THEN valid ELSE fed
           found == {i \in cur..end : i + 4 < end /\ Syncs(i, 3, held)}
           i == IF found = {} THEN end - 4 ELSE Min(found)
       IN /\ lost' = lost \cup Passed(cur, i)
          /\ IF found = {}
             THEN Flush(i) /\ Stop
             ELSE cur' = i /\ top' = end /\ valid' = held /\ needSync' = FALSE /\ UNCHANGED pc
    /\ UNCHANGED <<input, sized, spoilt, tables, video>>

(* Mutant: four packets are needed to synchronise, not three.             *)
NeedMoreEarly ==
    /\ pc = "loop"
    /\ IF sized THEN needSync /\ fed - cur < 8 ELSE fed - cur < Discover
    /\ Flush(cur) /\ Stop
    /\ UNCHANGED <<input, sized, lost, spoilt, tables, video>>

(* PACKET_NEED_MORE: the chain function returns.                           *)
NeedMore ==
    /\ pc = "loop"
    /\ IF sized THEN needSync /\ fed - cur < 6 ELSE fed - cur < Discover
    /\ Flush(cur) /\ Stop
    /\ UNCHANGED <<input, sized, lost, spoilt, tables, video>>

LostSync ==
    /\ pc = "loop" /\ sized /\ ~needSync /\ ~SyncByte(cur, valid)
    /\ needSync' = TRUE
    /\ UNCHANGED <<input, pc, cur, top, valid, sized, lost, spoilt, tables, video>>

-----------------------------------------------------------------------------
(* The packets.                                                            *)
Packet == stream[PacketOf(cur)]
InPart == cur + 1 >= valid
HasPacket(kind) == pc = "loop" /\ sized /\ ~needSync /\ SyncByte(cur, valid) /\ Packet.k = kind

(* Mutant: the rest of the map is flushed with the last packet.            *)
ClearMap ==
    /\ IF top - cur < 4 THEN Flush(top)
       ELSE cur' = cur + 2 /\ UNCHANGED <<top, valid, needSync>>
    /\ pc' = "loop"
    /\ UNCHANGED <<input, sized, lost, spoilt>>

(* clear_packet: what is left of the map if it is less than a packet is     *)
(* mapped again, and synchronised again.                                   *)
ClearPacket ==
    /\ IF top - cur < 4 THEN Flush(cur + 2)
       ELSE cur' = cur + 2 /\ UNCHANGED <<top, valid, needSync>>
    /\ pc' = "loop"
    /\ UNCHANGED <<input, sized, lost, spoilt>>

(* pending_tspacket, with the test of seen_idr.                            *)
Pend(now, before) == data' = IF now THEN Append(before, PacketOf(cur)) ELSE before

BadPacket == HasPacket("bad") /\ ClearPacket /\ UNCHANGED <<tables, video>>

OtherPacket ==
    /\ HasPacket("other") \/ (HasPacket("cont") /\ codec = "")
    /\ Pend(seenIdr, data) /\ ClearPacket
    /\ UNCHANGED <<tables, parser, seenIdr, PTS, out>>

(* The payload of a packet is appended to pes_packet, over what that held.  *)
Payload == IF InPart
           THEN {SubSeq(Packet.units, 1, k) \o [i \in 1..(Len(Packet.units) - k) |-> Junk] :
                   k \in 0..Len(Packet.units)}
           ELSE {Packet.units}
Write(behind) ==
    \E u \in Payload :
        /\ mem' = SubSeq(mem, 1, behind) \o u \o SubSeq(mem, behind + Len(u) + 1, Len(mem))
        /\ size' = behind + Len(u)

ContPacket ==
    /\ HasPacket("cont") /\ codec # ""
    /\ Write(size) /\ pes' = Append(pes, PacketOf(cur))
    /\ Pend(seenIdr, data) /\ ClearPacket
    /\ UNCHANGED <<tables, payload, at, dec, seenIdr, PTS, out>>

(* handle_psi with apply_pat: the first PAT counts, intact or not, and of   *)
(* it the first entry. A packet the map did not hold may be damaged.       *)
Pat ==
    /\ HasPacket("pat")
    /\ known' \in IF seenPat \/ ~Packet.ok \/ ~Packet.program THEN {known}
                  ELSE IF InPart THEN BOOLEAN ELSE {TRUE}
    /\ seenPat' = TRUE
    /\ Pend(seenIdr, data) /\ ClearPacket
    /\ UNCHANGED <<seenPmt, codec, parser, seenIdr, PTS, out>>

(* handle_psi with apply_pmt; before the PAT has named its PID the PMT is   *)
(* like any other packet.                                                  *)
Pmt ==
    /\ HasPacket("pmt")
    /\ codec' \in IF ~known \/ seenPmt \/ ~Packet.ok THEN {codec}
                  ELSE IF InPart THEN {codec, Packet.codec} ELSE {Packet.codec}
    /\ seenPmt' = (seenPmt \/ known)
    /\ Pend(seenIdr, data) /\ ClearPacket
    /\ UNCHANGED <<known, seenPat, parser, seenIdr, PTS, out>>

(* Mutant: every buffer lasts one frame.                                   *)
BufferOfOneFrame ==
    [packets |-> data, pes |-> pes, pts |-> PTS, duration |-> dec.duration, key |-> dec.key]

Buffer == [packets |-> data, pes |-> pes, pts |-> PTS, duration |-> dec.sum, key |-> dec.key]

(* The first packet of a PES packet ends the one before, which is parsed;   *)
(* if its header is bad, at the old pes_payload and for the old size.      *)
Headed == size > 0 /\ mem[1].t = "header" /\ mem[1].ok
StartPacket ==
    /\ HasPacket("start") /\ codec # ""
    /\ pc' = "parse" /\ at' = 1
    /\ payload' = IF Headed THEN size ELSE payload
    /\ dec' = [dec EXCEPT !.frame = FALSE, !.key = FALSE]
    /\ UNCHANGED <<input, sync, tables, pes, mem, size, seenIdr, data, PTS, out>>

(* Before the PMT has named the PID it is like any other packet.            *)
EarlyStart ==
    /\ HasPacket("start") /\ codec = ""
    /\ Pend(seenIdr, data) /\ ClearPacket
    /\ UNCHANGED <<tables, parser, seenIdr, PTS, out>>

ParseNal ==
    /\ pc = "parse" /\ at < payload
    /\ \E u \in Reads(at + 1) :
          dec' = IF codec = "h264" THEN H264Nal(dec, u) ELSE H265Nal(dec, u)
    /\ at' = at + 1
    /\ UNCHANGED <<input, pc, sync, tables, pes, mem, size, payload, seenIdr, data, PTS, out>>

ParseEnds ==
    /\ pc = "parse" /\ at < payload /\ Broken(at + 1)
    /\ at' = payload
    /\ UNCHANGED <<input, pc, sync, tables, pes, mem, size, payload, dec, seenIdr, data, PTS, out>>

(* Mutant: the new PES packet is written behind the old one.               *)
EndOfPesKept ==
    /\ pc = "parse" /\ at = payload
    /\ out' = IF dec.frame /\ seenIdr THEN Append(out, Buffer) ELSE out
    /\ seenIdr' = (seenIdr \/ (dec.frame /\ dec.key))
    /\ PTS' = IF dec.frame THEN dec.frames * dec.duration ELSE PTS
    /\ dec' = [dec EXCEPT !.sum = IF dec.frame THEN 0 ELSE @]
    /\ Write(size) /\ pes' = <<PacketOf(cur)>>
    /\ Pend(seenIdr', IF dec.frame THEN <<>> ELSE data) /\ ClearPacket
    /\ UNCHANGED <<tables, payload, at>>

(* If the PES packet held a new frame the packets since the last one are    *)
(* pushed; then the new PES packet begins.                                  *)
EndOfPes ==
    /\ pc = "parse" /\ at = payload
    /\ out' = IF dec.frame /\ seenIdr THEN Append(out, Buffer) ELSE out
    /\ seenIdr' = (seenIdr \/ (dec.frame /\ dec.key))
    /\ PTS' = IF dec.frame THEN dec.frames * dec.duration ELSE PTS
    /\ dec' = [dec EXCEPT !.sum = IF dec.frame THEN 0 ELSE @]
    /\ Write(0) /\ pes' = <<PacketOf(cur)>>
    /\ Pend(seenIdr', IF dec.frame THEN <<>> ELSE data) /\ ClearPacket
    /\ UNCHANGED <<tables, payload, at>>

NextPacket == BadPacket \/ OtherPacket \/ Pat \/ Pmt \/ EarlyStart \/ ContPacket \/ EndOfPes

Next ==
    \/ Chain
    \/ DiscoverSize
    \/ Synchronise
    \/ NeedMore
    \/ LostSync
    \/ StartPacket
    \/ ParseNal
    \/ ParseEnds
    \/ NextPacket

Spec == Init /\ [][Next]_vars

-----------------------------------------------------------------------------
(* Properties.                                                             *)
(* The map lies in the adapter, and between two buffers nothing is mapped  *)
(* and the next bytes have to be synchronised again (tssegment.c:161). The *)
(* parser reads nothing behind what pes_packet has held (tssegment.c:1216). *)
TypeOK ==
    /\ cur \in 0..fed /\ top \in cur..fed /\ valid \in 0..fed /\ fed \in 0..Cells
    /\ pc \in {"idle", "loop", "parse"} /\ sized \in BOOLEAN /\ needSync \in BOOLEAN
    /\ pc = "idle" => needSync /\ top = cur
    /\ known \in BOOLEAN /\ seenPat \in BOOLEAN /\ seenPmt \in BOOLEAN
    /\ codec \in {"", "h264", "h265"}
    /\ mem \in Seq(Units) /\ size \in 0..Len(mem)
    /\ payload \in 1..(1 + Len(mem)) /\ at \in 1..payload
    /\ pc = "parse" /\ at < payload => at + 1 \in DOMAIN mem
    /\ seenIdr \in BOOLEAN /\ PTS \in Nat /\ dec.frames \in Nat
    /\ data \in Seq(DOMAIN stream) /\ lost \subseteq DOMAIN stream

(* All the packets pushed and pended so far.                               *)
Sent == FlattenSeq([i \in DOMAIN out |-> out[i].packets]) \o data

(* However the stream is cut into buffers, and wherever a packet is damaged *)
(* (tssegment.c:264, 592, 1308): from the first packet pended the buffers   *)
(* pushed and what is pended are, in order and once each, all the packets   *)
(* of the stream that are not bad; and a packet is passed over only within  *)
(* three packets of one whose sync byte is damaged or which the first map   *)
(* did not hold.                                                           *)
NothingElseLost ==
    /\ \A i, j \in DOMAIN Sent : i < j => Sent[i] < Sent[j]
    /\ Sent # <<>> =>
          ToSet(Sent) = {n \in Sent[1]..(PacketOf(cur) - 1) :
                           stream[n].k \notin {"bad", "nosync"} /\ n \notin lost}
    /\ \A n \in lost : \E m \in n..(n + 3) : m \in Damaged \cup spoilt

(* The NAL units of a sequence of units whose halves have met.              *)
Said(x) == IF x.t = "tail" THEN x.nal ELSE x
NalsOf(u) == {x \in {Said(y) : y \in ToSet(u)} : x.t \in {"sps", "pps", "sei", "slice"}}
SlicesOf(u) == {x \in NalsOf(u) : x.t = "slice"}
Video == {n \in DOMAIN stream : stream[n].k \in {"start", "cont"}}
UnitsOf(ns) == FlattenSeq([i \in DOMAIN ns |-> stream[ns[i]].units])

(* The NAL units of a PES packet that the parser can read as they are: the  *)
(* map held its packets, its header is intact, the two halves of a NAL unit *)
(* come together, and no parameter set comes behind a slice.                *)
Readable(ns) ==
    LET u == UnitsOf(ns)
    IN /\ \A n \in ToSet(ns) : n \notin spoilt
       /\ u # <<>> /\ u[1] = [t |-> "header", ok |-> TRUE]
       /\ \A i \in DOMAIN u :
             /\ u[i].t = "cut" => i < Len(u) /\ u[i + 1] = [t |-> "tail", nal |-> u[i].nal]
             /\ u[i].t = "tail" => u[i - 1] = [t |-> "cut", nal |-> u[i].nal]
             /\ u[i].t # "junk"
       /\ \A i, j \in DOMAIN u :
             i < j /\ Said(u[i]).t = "slice" => Said(u[j]).t \notin {"sps", "pps"}

(* A buffer pushed begins with the first packet of a PES packet, and the    *)
(* last one parsed for it is the video packets from its last first packet   *)
(* on, those of a PES packet whose first packet was lost included.          *)
BeginsPes(b) ==
    /\ b.packets # <<>> /\ stream[b.packets[1]].k = "start"
    /\ stream[b.pes[1]].k = "start"
    /\ ToSet(b.pes) = {n \in ToSet(b.packets) \cap Video : n >= b.pes[1]}
    /\ \A n \in ToSet(b.packets) : stream[n].k = "start" => n <= b.pes[1]

(* The key flag is that of the NAL units in those packets.                  *)
KeyOfLast(b) ==
    Readable(b.pes) => b.key = \E x \in SlicesOf(UnitsOf(b.pes)) : x.intra /\ x.first

(* The stream from the picture before a buffer to its end came unharmed,    *)
(* and so did the parameter sets, which came before it.                    *)
FirstsBefore(n) == {m \in 1..(n - 1) : stream[m].k = "start"}
Unharmed(b) ==
    LET from == Max(FirstsBefore(b.packets[1]) \cup {0})
        to == Min({m \in DOMAIN stream : m > b.packets[Len(b.packets)] /\ stream[m].k = "start"})
        sets == {n \in Video : \E x \in NalsOf(stream[n].units) : x.t \in {"sps", "pps"}}
        harmed == {n \in DOMAIN stream : \/ stream[n].k \in {"bad", "nosync"} \/ n \in lost \cup spoilt
                                         \/ stream[n].k = "start" /\ ~stream[n].units[1].ok}
    IN /\ harmed \cap ((from..(to - 1)) \cup (1..Max(sets \cup {0}))) = {}
       /\ \E n \in sets : n <= from /\ [t |-> "pps"] \in NalsOf(stream[n].units)

(* How long the pictures of the stream last, as the parser may find.        *)
Nals == Garbled \cup UNION {NalsOf(stream[n].units) : n \in Video}
Paces == {Lasts(p, field, struct) :
            p \in {x \in Nals : x.t = "sps"},
            field \in {FALSE} \cup {x.field : x \in {x \in Nals : x.t = "slice"}},
            struct \in {2} \cup {x.struct : x \in {x \in Nals : x.t = "sei"}}}

(* It holds one picture, and lasts as long; but an IDR picture that follows *)
(* an IDR picture is not told from it when pictures have order counts      *)
(* (tssegment.c:659), a second field in a PES packet of its own goes with   *)
(* the next frame (tssegment.c:639), and a picture whose two order counts   *)
(* both differ is counted twice (tssegment.c:663).                          *)
OneFrame(b) ==
    LET slices == UNION {SlicesOf(stream[n].units) : n \in ToSet(b.packets) \cap Video}
    IN Unharmed(b) => \/ \E x \in slices : x.idr \/ x.field \/ x.poc2 # 0
                      \/ /\ Cardinality({x.pic : x \in slices}) = 1
                         /\ \A p \in Paces \ {0} : Paces = {p} => b.duration = p

(* However the stream is cut and damaged, a buffer is a frame with its flag *)
(* (tssegment.c:1281).                                                     *)
FrameBuffers == \A i \in DOMAIN out : BeginsPes(out[i]) /\ KeyOfLast(out[i]) /\ OneFrame(out[i])

(* The times of the buffers follow one another without a gap or an overlap *)
(* (tssegment.c:1302), as long as a picture of the stream lasts as long as  *)
(* any other: the time is the number of frames times the duration of the    *)
(* last one, whatever those before it lasted.                               *)
PtsContinuous ==
    (\A r, q \in Paces : r = q) =>
        \A i \in DOMAIN out : i > 1 => out[i].pts = out[i - 1].pts + out[i - 1].duration

(* Between two buffers less than three packets are held back in the adapter *)
(* (tssegment.c:273), before the packet size is known less than five.       *)
LittleHeldBack == pc = "idle" => fed - cur < (IF sized THEN 6 ELSE Discover)

=============================================================================
