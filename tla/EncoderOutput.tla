---------------------------- MODULE EncoderOutput ----------------------------
(***************************************************************************)
(* The way of the encoded stream of one live encoder output, with or       *)
(* without m3u8 streaming, from the worker process to the clients: the cache in shared  *)
(* memory, a ring of groups of pictures that the worker fills (encoder.c); *)
(* the message it sends when a segment begins; the thread of the daemon    *)
(* that lists and records the segment before (gstreamill.c, m3u8playlist.c); *)
(* the readers of the cache and of the records (httpstreaming.c); and the  *)
(* death and restart of the worker (job.c).                                *)
(*                                                                         *)
(* The unit of memory is a word of four bytes: what a transport stream     *)
(* muxer gives is a multiple of 188 bytes, the cache is 64 MB and a header *)
(* 12 bytes, so every address is a multiple of four. A step holds the      *)
(* semaphore as the code does, what happens when a process dies with it is *)
(* JobSemaphore's matter. A sample the worker drops because it did not get *)
(* the semaphore was never given.                                          *)
(***************************************************************************)
EXTENDS Integers, Sequences

CONSTANTS
    Cache,      \* cache_size, in words
    Chunk,      \* the largest chunk of progressive streaming, 16384 bytes
    Datagram,   \* what goes out by UDP, 1316 bytes
    Window,     \* playlist_window_size
    QueueLimit, \* messages the kernel keeps for the daemon's socket
    MaxSize,    \* bound: the largest sample, in words
    MaxWords,   \* bound: the words of payload of a run
    MaxFirst,   \* bound: the wall clock, in segments, when a worker starts
    MaxAge      \* bound: starts of the worker

ASSUME OutputAssumption ==
    /\ {Cache, Chunk, Datagram, Window, QueueLimit, MaxSize, MaxWords, MaxFirst, MaxAge} \subseteq Nat \ {0}
    /\ Cache > 6 + MaxSize

VARIABLES
    m3u8,       \* has_m3u8_output
    mem,        \* the cache: words <<kind, value>>, kind "ts" (half a time stamp),
                \* "size" or "data" (its value: the number of the payload word)
    head, tail, last,   \* head_addr, tail_addr, last_rap_addr
    udp,        \* held: cache_7x188, its payload words; sent: the last datagram
    state,      \* the job's state in shared memory
    age,        \* starts of the worker
    worker,     \* run, send (segment_found, after sem_post), dead, reset
    due,        \* last_running_time is not GST_CLOCK_TIME_NONE
    ts,         \* segment_timestamp in segments, 0 for is_first_key
    words,      \* payload words given so far
    begun,      \* number of the first payload word of the last group
    made,       \* history: the groups closed, <<age, time stamp, first, last word>>
    msgs,       \* the socket's queue; of a message, the value of begun
    lastTs,     \* last_timestamp of the output, in the daemon
    playlist,   \* its m3u8 playlist: names of segments
    number,     \* sequence_number of the playlist
    queue,      \* record_queue: names and contents
    files,      \* the files recorded
    astray,     \* history: the delays and losses of messages since the last reset
    player      \* a client of progressive streaming

ring == <<mem, head, tail, last, udp>>
encoder == <<worker, due, ts, words, begun, made>>
daemon == <<lastTs, playlist, number, queue, files, astray>>
vars == <<m3u8, ring, state, age, encoder, msgs, daemon, player>>

Header == 3     \* a header: a time stamp of two words, a size
Torn == 0 - 1   \* a time stamp with the wrong upper half
None == 0 - 2
Addr == 0..(Cache - 1)
Most == Cache \div Header   \* groups the ring can hold
MaxTs == MaxFirst + MaxWords
NoData == [held |-> <<>>, sent |-> <<>>]
Off == [at |-> "off", rap |-> 0, pos |-> 0, chunk |-> 0, sent |-> 0, age |-> 0,
        heard |-> 0, inOrder |-> TRUE, excused |-> FALSE]

-----------------------------------------------------------------------------
(* Arithmetic of the ring.                                                 *)
Wrap(a) == IF a < Cache THEN a ELSE a - Cache

CacheFree(h, t) == IF h >= t THEN h - t ELSE h + Cache - t

(* encoder_output_gop_size: 0 for the group that is not closed. *)
GopSize(a) == mem[Wrap(a + 2)][2]

RapNext(a) == Wrap(a + GopSize(a) + Header)

(* encoder_output_rap_timestamp: when only one word of the header is before *)
(* the end of the ring, the other one is written past the variable          *)
(* (encoder.c:920), and the upper half of the result is what the stack held. *)
RapTimestamp(a) == {mem[a][2]} \cup (IF a + 2 <= Cache THEN {} ELSE {Torn})

(* The addresses of the groups, from head_addr to last_rap_addr.           *)
Chain ==
    LET from[n \in 0..Most] ==
            [a \in Addr |-> IF a = last \/ n = 0 THEN <<a>> ELSE <<a>> \o from[n - 1][RapNext(a)]]
    IN from[Most][head]
Closed == LET c == Chain IN {c[i] : i \in 1..(Len(c) - 1)}

(* Mutant: a header over the end of the ring is not told from one that ends *)
(* with it.                                                                *)
PayloadFromStart(a) ==
    [i \in 1..GopSize(a) |-> mem[IF a + Header >= Cache THEN i - 1 ELSE Wrap(a + Header + i - 1)]]

(* The payload of a closed group, as get_mpeg2ts_segment and               *)
(* dvr_record_segment copy it.                                             *)
Payload(a) == [i \in 1..GopSize(a) |-> mem[Wrap(a + Header + i - 1)]]

(* encoder_output_gop_seek: the addresses it may return, None for          *)
(* G_MAXUINT64. It never looks at the last group.                          *)
SeekIn(closed, t) ==
    LET found == {a \in closed : t \in RapTimestamp(a)}
    IN IF \E a \in found : RapTimestamp(a) = {t} THEN found ELSE found \cup {None}
Seek(t) == SeekIn(Closed, t)

Store(m, a, ws) ==
    [b \in Addr |-> LET i == Wrap(b - a + Cache)
                    IN IF i < Len(ws) THEN ws[i + 1] ELSE m[b]]

HeaderOf(t) == <<<<"ts", t>>, <<"ts", t>>, <<"size", 0>>>>

-----------------------------------------------------------------------------
Init ==
    /\ m3u8 \in BOOLEAN
    /\ mem = Store([a \in Addr |-> <<"size", 0>>], 0, HeaderOf(0))
    /\ head = 0 /\ tail = Header /\ last = 0 /\ udp = NoData
    /\ state = "READY" /\ age = 1
    /\ worker = "run" /\ due = FALSE /\ ts = 0
    /\ words = 0 /\ begun = 1 /\ made = {}
    /\ msgs = <<>>
    /\ lastTs = 0 /\ playlist = <<>> /\ number = 0
    /\ queue = <<>> /\ files = {} /\ astray = {}
    /\ player = Off

(* need_data_callback meets the first sample of a segment and asks the     *)
(* encoder for a key frame: last_running_time is set.                      *)
ForceKey ==
    /\ m3u8 /\ worker \in {"run", "send"}
    /\ ~due /\ due' = TRUE
    /\ UNCHANGED <<m3u8, ring, state, age, worker, ts, words, begun, made, msgs, daemon, player>>

(* Mutant: the header of a new group is not counted.                       *)
MoveHeadTight(size) ==
    LET c == Chain
        enough == {i \in DOMAIN c : CacheFree(c[i], tail) > size}
    IN \E i \in enough :
          /\ \A j \in enough : i <= j
          /\ head' = c[i] /\ UNCHANGED player

(* new_sample_callback gives up groups until there is more room than the   *)
(* sample and a header need; the last group must stay. A player whose      *)
(* group is given up is behind by a ring.                                  *)
MoveHead(size) ==
    LET c == Chain
        enough == {i \in DOMAIN c : CacheFree(c[i], tail) > size + Header}
    IN \E i \in enough :
          /\ \A j \in enough : i <= j
          /\ head' = c[i]
          /\ player' = IF player.at # "off" /\ \E j \in 1..(i - 1) : c[j] = player.rap
                       THEN [player EXCEPT !.excused = TRUE] ELSE player

(* move_last_rap: closes the last group, begins one with a time stamp.     *)
MoveLastRap(t) ==
    LET room == IF tail >= last THEN tail - last ELSE Cache - last + tail
        closed == Store(mem, Wrap(last + 2), <<<<"size", room - Header>>>>)
    IN [mem |-> Store(closed, tail, HeaderOf(t)), last |-> tail, tail |-> Wrap(tail + Header)]

(* The datagrams cut from a buffer at an offset, with nothing held: the    *)
(* last one sent, and what is less than a datagram and held.               *)
Cut(data) ==
    LET from[o \in 0..Len(data)] ==
            IF Len(data) - o < Datagram
            THEN [sent |-> <<>>, held |-> SubSeq(data, o + 1, Len(data))]
            ELSE LET rest == from[o + Datagram]
                     this == SubSeq(data, o + 1, o + Datagram)
                 IN [rest EXCEPT !.sent = IF @ = <<>> THEN this ELSE @]
    IN from

(* Mutant: the offset into the buffer is not moved on.                     *)
UdpStreamingInPlace(data) ==
    LET room == Datagram - Len(udp.held)
        this == udp.held \o SubSeq(data, 1, room)
        rest == Cut(SubSeq(data, 1, Len(data) - room))[0]
    IN udp' = IF Len(data) < room THEN [udp EXCEPT !.held = @ \o data]
              ELSE [rest EXCEPT !.sent = IF @ = <<>> THEN this ELSE @]

(* udp_streaming: what is held is filled up to a datagram and sent, the    *)
(* rest of the buffer is cut.                                              *)
UdpStreaming(data) ==
    LET room == Datagram - Len(udp.held)
        this == udp.held \o SubSeq(data, 1, room)
        rest == Cut(data)[room]
    IN udp' = IF Len(data) < room THEN [udp EXCEPT !.held = @ \o data]
              ELSE [rest EXCEPT !.sent = IF @ = <<>> THEN this ELSE @]

CopyBuffer(r, size) ==
    /\ mem' = Store(r.mem, r.tail, [i \in 1..size |-> <<"data", words + i>>])
    /\ tail' = Wrap(r.tail + size)
    /\ last' = r.last

(* new_sample_callback with a sample that is not a key frame, or one nobody *)
(* has asked for since the last message.                                   *)
Sample(size) ==
    /\ worker = "run" /\ words + size <= MaxWords
    /\ MoveHead(size)
    /\ UdpStreaming([i \in 1..size |-> words + i])
    /\ CopyBuffer([mem |-> mem, last |-> last, tail |-> tail], size)
    /\ words' = words + size
    /\ UNCHANGED <<m3u8, state, age, worker, due, ts, begun, made, msgs, daemon>>

(* With a key frame: without m3u8 streaming each begins a group, otherwise *)
(* only one that was asked for, with the segment of the wall clock when it *)
(* is the first, the next segment after.                                   *)
KeySample(size) ==
    /\ worker = "run" /\ words + size <= MaxWords
    /\ MoveHead(size)
    /\ \/ ~m3u8 /\ UNCHANGED <<ts, worker>>
       \/ /\ m3u8 /\ due /\ worker' = "send"
          /\ IF ts = 0 THEN ts' \in 1..MaxFirst ELSE ts' = ts + 1
    /\ UdpStreaming([i \in 1..size |-> words + i])
    /\ CopyBuffer(MoveLastRap(ts'), size)
    /\ words' = words + size
    /\ made' = made \cup {<<age, ts, begun, words>>}
    /\ begun' = words + 1
    /\ UNCHANGED <<m3u8, state, age, due, msgs, daemon>>

(* send_msg, with the semaphore given back. A full queue is tried again,   *)
(* another error drops the message.                                        *)
SendMsg ==
    /\ worker = "send"
    /\ \/ /\ Len(msgs) < QueueLimit
          /\ msgs' = Append(msgs, begun)
          /\ UNCHANGED astray
       \/ astray' = astray \cup {"lost"} /\ UNCHANGED msgs
    /\ worker' = "run" /\ due' = FALSE
    /\ UNCHANGED <<m3u8, ring, state, age, ts, words, begun, made, lastTs, playlist, number, queue, files, player>>

-----------------------------------------------------------------------------
(* The worker dies; child_watch_cb resets the job and starts a worker, that *)
(* initializes its output and plays.                                       *)
Die ==
    /\ worker \in {"run", "send"} /\ state = "PLAYING" /\ age < MaxAge
    /\ worker' = "dead"
    /\ UNCHANGED <<m3u8, ring, state, age, due, ts, words, begun, made, msgs, daemon, player>>

(* Mutant: the last segment of the old worker is not forgotten.            *)
JobResetKeeps ==
    /\ worker = "dead" /\ worker' = "reset"
    /\ state' = "VOID_PENDING" /\ age' = age + 1
    /\ playlist' = <<>> /\ number' = 0 /\ astray' = {}
    /\ UNCHANGED <<m3u8, ring, due, ts, words, begun, made, msgs, lastTs, queue, files, player>>

JobReset ==
    /\ worker = "dead" /\ worker' = "reset"
    /\ state' = "VOID_PENDING" /\ age' = age + 1
    /\ playlist' = <<>> /\ number' = 0 /\ lastTs' = 0 /\ astray' = {}
    /\ UNCHANGED <<m3u8, ring, due, ts, words, begun, made, msgs, queue, files, player>>

OutputInitialize ==
    /\ worker = "reset" /\ worker' = "run"
    /\ state' = "READY"
    /\ mem' = Store(mem, 0, HeaderOf(0)) /\ head' = 0 /\ tail' = Header /\ last' = 0 /\ udp' = NoData
    /\ due' = FALSE /\ ts' = 0 /\ begun' = words + 1
    /\ player' = IF player.at = "off" THEN player ELSE [player EXCEPT !.excused = TRUE]
    /\ UNCHANGED <<m3u8, age, words, made, msgs, daemon>>

(* The end of job_start: the encoders may already have given samples.      *)
Play ==
    /\ worker \in {"run", "send"} /\ state = "READY"
    /\ state' = "PLAYING"
    /\ UNCHANGED <<m3u8, ring, age, encoder, msgs, daemon, player>>

-----------------------------------------------------------------------------
(* msg_thread takes a message and drops it: the job does not play, or the  *)
(* semaphore was not to be had in time.                                    *)
DropMsg ==
    /\ msgs # <<>> /\ msgs' = Tail(msgs)
    /\ astray' = astray \cup {"lost"}
    /\ UNCHANGED <<m3u8, ring, state, age, encoder, lastTs, playlist, number, queue, files, player>>

(* m3u8playlist_add_entry.                                                 *)
AddEntry(n) ==
    /\ playlist' = Append(IF Len(playlist) >= Window THEN Tail(playlist) ELSE playlist, n)
    /\ number' = n

(* dvr_record_segment.                                                     *)
Record(n) ==
    \E a \in Seek(n) :
        queue' = IF a = None THEN queue ELSE Append(queue, <<n, Payload(a)>>)

(* Mutant: lists the segment that begins.                                  *)
HandleBegun ==
    /\ msgs # <<>> /\ msgs' = Tail(msgs)
    /\ state = "PLAYING"
    /\ lastTs' \in RapTimestamp(last)
    /\ AddEntry(lastTs') /\ Record(lastTs')
    /\ astray' = IF msgs[1] = begun THEN astray ELSE astray \cup {"late"}
    /\ UNCHANGED <<m3u8, ring, state, age, encoder, files, player>>

(* msg_thread takes a message and lists and records the segment it knew to *)
(* be the last one.                                                        *)
Handle ==
    /\ msgs # <<>> /\ msgs' = Tail(msgs)
    /\ state = "PLAYING"
    /\ IF lastTs # 0 THEN AddEntry(lastTs) /\ Record(lastTs)
       ELSE UNCHANGED <<playlist, number, queue>>
    /\ lastTs' \in RapTimestamp(last)
    /\ astray' = IF msgs[1] = begun THEN astray ELSE astray \cup {"late"}
    /\ UNCHANGED <<m3u8, ring, state, age, encoder, files, player>>

(* write_segment on the record thread, that may fail.                      *)
WriteSegment ==
    /\ queue # <<>> /\ queue' = Tail(queue)
    /\ \/ files' = {f \in files : f[1] # queue[1][1]} \cup {queue[1]}
       \/ UNCHANGED files
    /\ UNCHANGED <<m3u8, ring, state, age, encoder, msgs, lastTs, playlist, number, astray, player>>

-----------------------------------------------------------------------------
(* A client of progressive streaming: http_request_process looks at the    *)
(* last group twice, without the semaphore. Bound: it plays an output       *)
(* without m3u8 streaming, which changes none of what a player reads.      *)
Request ==
    /\ ~m3u8 /\ player.at = "off" /\ state = "PLAYING" /\ head # tail
    /\ player' = [Off EXCEPT !.at = "begin", !.rap = last, !.age = age]
    /\ UNCHANGED <<m3u8, ring, state, age, encoder, msgs, daemon>>

Begin ==
    /\ player.at = "begin"
    /\ player' = [player EXCEPT !.at = "wait", !.pos = last + Header,
                      !.excused = @ \/ last # player.rap \/ last + Header > Cache]
    /\ UNCHANGED <<m3u8, ring, state, age, encoder, msgs, daemon>>

(* The client hangs up, or http_continue_process sees that the worker it    *)
(* plays from is gone.                                                     *)
Leave ==
    /\ player.at # "off" /\ player' = Off
    /\ UNCHANGED <<m3u8, ring, state, age, encoder, msgs, daemon>>

(* get_current_gop_end: None for a group that is not closed. A group that  *)
(* ends with the ring ends at Cache, not at 0.                             *)
GopEnd(a) ==
    LET end == a + GopSize(a) + Header
    IN IF GopSize(a) = 0 THEN None ELSE IF end > Cache THEN end - Cache ELSE end

(* Mutant: always up to tail_addr.                                         *)
ChunkSizeToTail(pos, end) ==
    IF tail - pos > Chunk THEN Chunk
    ELSE IF tail >= pos THEN tail - pos
    ELSE IF pos > Cache \/ Cache - pos > Chunk THEN Chunk
    ELSE Cache - pos

(* The size of the next chunk, 0 when there is none. Sizes are unsigned    *)
(* where cache_size takes part.                                            *)
ChunkSize(pos, end) ==
    LET stop == IF end = None THEN tail ELSE end
    IN IF stop - pos > Chunk THEN Chunk
       ELSE IF stop >= pos THEN stop - pos
       ELSE IF end # None THEN Cache - pos
       ELSE IF pos > Cache \/ Cache - pos > Chunk THEN Chunk
       ELSE Cache - pos

(* send_chunk up to the choice of a chunk: when the last one is sent, the  *)
(* position goes on, and from the end of a closed group to the next one.   *)
(* Bound: a player that got past the end of the ring is not followed on.   *)
NextChunk ==
    /\ player.at = "wait" /\ player.age = age /\ state = "PLAYING"
    /\ player.pos # tail /\ player.pos <= Cache + Header
    /\ LET done == player.sent = player.chunk
           moved == player.pos + player.chunk
           pos == IF ~done THEN player.pos ELSE IF moved = Cache THEN 0 ELSE moved
           over == pos = GopEnd(player.rap)
           rap == IF over THEN pos ELSE player.rap
           from == IF over THEN Wrap(pos + Header) ELSE pos
           size == IF done THEN ChunkSize(from, GopEnd(rap)) ELSE player.chunk
       IN player' = [player EXCEPT !.at = IF size = 0 THEN "wait" ELSE "send",
                        !.rap = rap, !.pos = from, !.chunk = size,
                        !.sent = IF done THEN 0 ELSE @,
                        !.excused = \/ @
                                      \/ (GopEnd(rap) = Cache /\ from = 0)
                                      \/ (rap # last /\ GopSize(rap) = 0)]
    /\ UNCHANGED <<m3u8, ring, state, age, encoder, msgs, daemon>>

(* send_data, without the semaphore: all that is left of the chunk, or a   *)
(* part. Past the ring there is other memory.                              *)
SendData ==
    /\ player.at = "send"
    /\ \E n \in 1..(player.chunk - player.sent) :
           LET at(i) == player.pos + player.sent + i - 1
               word(i) == IF at(i) \in Addr THEN mem[at(i)] ELSE <<"other", 0>>
               first == IF player.heard = 0 THEN word(1)[2] ELSE player.heard + 1
               inOrder == player.inOrder /\ \A i \in 1..n : word(i) = <<"data", first + i - 1>>
           IN player' = [player EXCEPT !.at = "wait", !.sent = @ + n, !.inOrder = inOrder,
                            !.heard = IF inOrder THEN first + n - 1 ELSE 0]
    /\ UNCHANGED <<m3u8, ring, state, age, encoder, msgs, daemon>>

Next ==
    \/ ForceKey \/ SendMsg
    \/ \E size \in 1..MaxSize : Sample(size) \/ KeySample(size)
    \/ Die \/ JobReset \/ OutputInitialize \/ Play
    \/ DropMsg \/ Handle \/ WriteSegment
    \/ Request \/ Begin \/ Leave \/ NextChunk \/ SendData

Spec == Init /\ [][Next]_vars

-----------------------------------------------------------------------------
Names == (0..MaxTs) \cup {Torn}

TypeOK ==
    /\ head \in Addr /\ tail \in Addr /\ last \in Addr
    /\ \A a \in Addr : mem[a][1] \in {"ts", "size", "data"}
    /\ state \in {"VOID_PENDING", "READY", "PLAYING"} /\ age \in 1..MaxAge
    /\ worker \in {"run", "send", "dead", "reset"} /\ due \in BOOLEAN
    /\ ts \in 0..MaxTs /\ words \in 0..MaxWords
    /\ lastTs \in Names /\ number \in Names
    /\ Len(playlist) <= Window /\ \A i \in DOMAIN playlist : playlist[i] \in Names
    /\ Len(msgs) <= QueueLimit
    /\ player.pos \in Nat /\ player.rap \in Addr

(* udp_streaming cuts buffers of any size into datagrams: each is full, the *)
(* last one and what is held follow each other, and nothing of the buffers *)
(* given so far comes after them.                                          *)
DatagramsExact ==
    LET data == udp.sent \o udp.held
    IN /\ Len(udp.sent) \in {0, Datagram} /\ Len(udp.held) < Datagram
       /\ \A i \in DOMAIN data : data[i] = words - Len(data) + i

(* The payload of a closed group.                                          *)
IsSegment(n, ws) ==
    \E g \in made : /\ g[2] = n /\ Len(ws) = g[4] - g[3] + 1
                    /\ \A i \in DOMAIN ws : ws[i] = <<"data", g[3] + i - 1>>

(* get_mpeg2ts_segment and dvr_record_segment copy by arithmetic on two     *)
(* addresses of a ring that wraps. Whatever segment is asked for, what the  *)
(* cache, the record queue or a recorded file gives under its name is a     *)
(* whole group of that name, from its first word to its last.               *)
SegmentExact ==
    /\ LET closed == Closed
       IN \A n \in 0..MaxTs : \A a \in SeekIn(closed, n) \ {None} : IsSegment(n, Payload(a))
    /\ \A r \in {queue[i] : i \in DOMAIN queue} \cup files : r[1] # Torn => IsSegment(r[1], r[2])

(* msg_thread names a segment by what it saw at the message before. As     *)
(* long as each message was handled before the next segment began, what    *)
(* the playlist names is complete; one late message, and the playlist      *)
(* names the segment that is being written.                                *)
ListedComplete ==
    "late" \notin astray =>
        \A i \in DOMAIN playlist : playlist[i] # Torn => \E g \in made : g[1] = age /\ g[2] = playlist[i]

(* The media sequence number is computed from the name of the last entry   *)
(* and not counted: it goes on by one with each entry taken off, and the   *)
(* entries are consecutive segments, unless a message was lost or late or  *)
(* a time stamp was torn.                                                  *)
SequenceCounts ==
    [][/\ lastTs' # 0 /\ playlist' # playlist /\ astray' = {}
       /\ Torn \notin {playlist[i] : i \in DOMAIN playlist} \cup {playlist'[i] : i \in DOMAIN playlist'}
       => /\ playlist # <<>> => (number' - Len(playlist')) - (number - Len(playlist))
                                   = Len(playlist) + 1 - Len(playlist')
          /\ \A i \in 2..Len(playlist') : playlist'[i] = playlist'[i - 1] + 1]_vars

(* A progressive player follows the ring with two addresses of its own,    *)
(* and sends without the semaphore. It is sent the payload in order and    *)
(* nothing else, unless the ring has run over its group, it came across a  *)
(* segment boundary or a header at the end of the ring (Begin), a group    *)
(* ends just with the ring, or the first group is empty (NextChunk).       *)
PlayerInOrder == player.inOrder \/ player.excused

(* The ring as a queue of groups of pictures.                              *)
Group(a, size) ==
    [ts |-> mem[a][2], data |-> [j \in 1..size |-> mem[Wrap(a + Header + j - 1)][2]]]
Groups ==
    LET c == Chain
        size(a) == IF a = last THEN CacheFree(tail, last) - Header ELSE GopSize(a)
    IN [i \in DOMAIN c |-> Group(c[i], size(c[i]))]

Queue == INSTANCE GopQueue WITH
    Capacity <- Cache,
    gops <- Groups,
    count <- words

(* What the words in shared memory say, followed from head_addr through    *)
(* the sizes, is a queue of groups of pictures: a group is closed with its *)
(* size, the oldest are given up and no more than is needed.               *)
QueueSpec == Queue!Spec
=============================================================================
