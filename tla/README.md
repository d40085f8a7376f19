# A TLA+ model of gstreamill

gstreamill is a streaming server: a *manager* process keeps a list of jobs, runs
one *worker* process per job (a GStreamer pipeline that decodes a source and
encodes it for HLS, UDP or HTTP output) and serves the result over HTTP.  Manager
and worker share a memory object and a semaphore per job.  This directory holds
TLA+ modules of the parts where several threads or processes meet or where
arithmetic on a ring, a clock or a stream has to come out right, TLC
configurations for them, and TLAPS proofs of the main safety properties.

Paths are relative to the repository; `src/src/x.c` is written `x.c` below.

## 1. Inventory

| component | state | operations | meets | module |
|---|---|---|---|---|
| Job scheduler, `gstreamill.c` | `job_list`, `job_list_mutex`, `stop`, `msg_sock`, the record and remove queues | `gstreamill_job_start`, `_job_stop`, `gstreamill_stop`, `create_job_process`, `child_watch_cb`, `gstreamill_monitor` (every 2 s), `msg_thread`, `dvr_record_thread`, `dvr_clean`, `gstreamill_unaccess` | every thread of the manager; the workers through signals, wait status and shared memory | JobLifecycle, HealthCheck, EncoderOutput, DVR, HTTPSession |
| Job, `job.c`, `job.h` | the Job object (`stoping`, `eos`, `age`, `worker_pid`, `access_mutex`, references, `current_access`) and the shared output (`state`, `semaphore`, heartbeats, per encoder the ring's addresses) | `job_initialize`, `job_reset`, `job_start`, `job_stop`, `job_output_initialize`, `job_encoders_output_initialize` | scheduler, worker, HTTP threads | JobLifecycle, JobSemaphore, EncoderOutput |
| Process entry, `main.c` | options, pid file, signal handlers | start as manager, as worker (`-n`) or with a single job; SIGTERM/SIGINT | scheduler, job | JobLifecycle |
| Source, `source.c` | per stream: ring of 512 samples, `current_position`, `eos`; segment clock | `source_initialize`, `new_sample_callback`, `eos_callback` | encoder streams through the ring, without a lock | SourceRing |
| Encoder, `encoder.c` | per stream a reading position; per encoder a cache ring in shared memory with head, tail, last random access point; datagram buffer | `need_data_callback`, `new_sample_callback`, key-frame index, segment messages, UDP, end of stream | source ring; manager through the semaphore and datagrams | SourceRing, EncoderOutput |
| m3u8 playlist, `m3u8playlist.c` | queue of segments, window, sequence number | add, adding, render; time shift and call-back playlists | `msg_thread` writes, HTTP threads read | EncoderOutput, DVR |
| HTTP server, `httpserver.c` | array of request slots, idle queue and tree, block queue, thread pool | listen thread, idle thread, block thread, workers | HTTP streaming and management callbacks | HTTPServer |
| HTTP streaming, `httpstreaming.c` | per request `priv_data`, a read position; access counts of clients | playlist, segment, MPEG-2 TS over HTTP, time shift, call-back, download | encoder cache, job list, DVR files | HTTPSession, EncoderOutput, DVR |
| HTTP management, `httpmgmt.c` | none of its own | REST calls on jobs, media, network | scheduler; single thread | (the management thread of JobLifecycle) |
| TS segmenter, `tssegment.c` | parser state of a stream | a GStreamer element | inside one streaming thread | TsSegment |
| Job description, media manager, log, utilities, parson | - | text, files | - | (hourly directories of `utils.c` in DVR) |

The hard behaviours are: objects used by one thread while another drops their
last reference; a pid used after its process has been reaped; state written by
both processes without a lock; a worker that dies inside a critical section; a
partial failure in the middle of a restart; shutdown against a start; a ring
without locks whose two sides stop each other by comparing positions; a ring of
groups of pictures whose records wrap; segment messages lost or late; a player
that reads a ring which a new worker is filling; request slots recycled while
epoll still reports on them; accesses counted on one object and given back to
another of the same name; playlists computed from times, with nobody asking the
disk; buffers, maps and packets whose boundaries differ.  `PROJECT.json` lists
them one by one under `hazards`, each with its source line and the properties
that cover it.

What makes each part correct:

- scheduler and job: every worker has exactly one owner that reaps it, signals
  go only to the job's own worker, an object is used only while referenced, a
  failed live worker is replaced, a stopped job is removed, shutdown waits;
- health checks: a worker is killed only for what it did, and one that hangs
  does not go on;
- output semaphore: exclusion, and no lock-out, also across worker deaths;
- source ring: no sample is read before it is stored or while it is replaced;
  a stream that is not live is a bounded queue up to its end; nobody waits for
  ever;
- encoder cache: what its words say is a queue of whole groups of pictures, and
  a segment asked for by name is that group, word for word;
- segments and playlist: what is listed is complete, entries are consecutive,
  and the media sequence number moves by the segments that left the window;
- archive: what a playlist names was recorded and is there, and what has
  expired goes;
- HTTP server: a slot is in one of free, pool, idle, blocked, working; its
  callback is called in order and the request ends;
- HTTP sessions: references cover every use of a job, a session finds its own
  private data, a player of an old worker ends;
- segmenter: no packet is lost but for a reason, a buffer is one picture, and
  times go on without a gap.

## 2. Modules

```
JobLifecycle            scheduler, Job object, worker process
  JobLifecycleProofs    its invariant and ten theorems
HealthCheck             when the monitor kills a worker
JobSemaphore            output semaphore, access_mutex, worker deaths
  WorkerProofs          of both of these, four theorems
StreamQueue             what a source stream promises an encoder (abstract)
  SourceRing            the ring, refines StreamQueue for streams not live
    SourceRingProofs    four theorems, the refinement among them
GopQueue                what the encoder cache promises its readers (abstract)
  EncoderOutput         cache, messages, playlist, records, a player; refines GopQueue
    EncoderOutputProofs six theorems, the refinement among them
DVR                     the archive of an output and what is asked of it
  DVRProofs             two theorems
CallbackProtocol        how the HTTP server calls its callback (abstract)
  HTTPServer            slots, queues, threads; refines CallbackProtocol
    HTTPServerProofs    four theorems, the refinement among them
  HTTPSession           the callback and job accounting, called by CallbackProtocol
    HTTPSessionProofs   four theorems
TsSegment               the segmenter element
  MCTsSegment           its streams for TLC
  TsSegmentProofs       five theorems
```

Two compositions: HTTPSession takes its calls from CallbackProtocol, which
HTTPServer is shown to implement; so what holds of a session under the protocol
holds of it under the server.  HealthCheck says when the step of JobLifecycle in
which the monitor kills a worker is taken.  EncoderOutput joins the worker, the
message thread, the record thread and the clients of one output in one state.

Each module with numeric or set CONSTANTS assumes what it needs of them in a
named ASSUME.  The `.cfg` files name the module they instantiate; constants are
numbers, Booleans or sets of model values, so only TsSegment, whose constant is a
set of streams, has an MC module.  An operator commented "Mutant:" is a broken
variant of the definition after it.  `Next` never uses one: `PROJECT.json` names
the property that fails when it replaces the original.

### JobLifecycle

One element of `Jobs` is one Job object from `job_new` to its last unref.

| variables | code |
|---|---|
| `mgr`, `stop`, `job_list` | the manager process, `gstreamill->stop`, `gstreamill->job_list` (as a set: order matters to no property) |
| `made`, `refs` | objects `job_new` has returned, GObject reference count |
| `state` | `*(job->output->state)` in shared memory |
| `stoping`, `eos`, `age`, `worker_pid`, `watch` | fields of Job (`worker_pid` reduced to set or not), and whether a GLib child watch is attached |
| `proc`, `sigterm` | the worker as the kernel sees it, a pending SIGTERM |
| `enc_eos`, `semLost` | all encoders at end of stream; the worker died holding the semaphore |
| `mgmt`, `main`, `mon`, `shut` | program counters of the management thread, main loop, monitor thread, and shutdown handler |

A step is one access to state that another thread or process may change; what a
thread does between two such accesses is folded into the step.  Actions are
prefixed with the thread that takes them: `Mgmt*` (`gstreamill_job_start`,
`get_job`, `gstreamill_job_stop`), `Main*` (`child_watch_cb`, `job_reset`,
`create_job_process` on a restart), `Mon*` (`gstreamill_monitor`,
`clean_job_list`, `job_check_func`), `Shut*` (`gstreamill_stop`), `Worker*`
(`main` with `-n`, `job_start`, `stop_job`, crashes).  `map` in `PROJECT.json`
gives the lines.

Four points that the code leaves implicit are explicit here:

- GLib reaps a worker before `child_watch_cb` runs, and the callback may wait for
  `access_mutex`: `MainReap` and `MainEnter` are two steps.
- `get_job` takes its reference after it has released `job_list_mutex`
  (`gstreamill.c:1299`): `MgmtStop` and `MgmtRef` are two steps and the object may be
  freed between them.  Use of a freed object sets `mgr` to "crashed", the likely
  outcome of touching shared memory that has been unmapped.  For live jobs
  `RestartsListedJob` shows that `child_watch_cb` does not do so before it has
  published STOPED; for `MgmtRef`, and for non-live jobs (the monitor sets `eos` while the worker is
  alive, `gstreamill.c:615`, and may free the job before its callback runs), it
  can happen, the run explores it, and nothing in the repository denies it.
- A job that is over gets the state STOPED and then `eos` (`gstreamill.c:1230`, `1231`),
  in two steps, `MainPublish` and `MainEos`.  On the first the monitor may free a live
  job, so that `child_watch_cb` sets `eos` and unlocks a mutex in memory that is
  free: `MainFault` is the crash, `MainEos` and `MainUnlock` go on as if nothing
  were.  `RestartsListedJob` excepts these two places by name.
- `g_spawn_async` may fail (`SpawnMayFail`): the start then leaves an object
  without a worker; on a restart nobody watches the job any more.

Simplifications: two listed objects never share a name (a start whose
predecessor of the same name has failed but is not reaped yet shares the memory
object and the semaphore with it); `job_check_func` is one step for each job,
since it runs under `access_mutex` and the semaphore, and it may find any
worker to kill (HealthCheck says which); single-job mode (`-j`) is not modelled.

### JobSemaphore

The semaphore of one live job, `access_mutex`, and the death of the worker at any
point.  `Encoders` are threads of the worker and vanish with it.  `Lockers` hold
`access_mutex` around their critical section (`msg_thread`, `job_check_func`,
`gstreamill_job_stat`); `Readers` do not (`clean_job_list`, the HTTP threads).
`child_watch_cb` holds `access_mutex` throughout; `job_reset` posts the semaphore
when it finds the value 0.  A timed wait either takes or times out.  `handed`
(history) remembers that `job_reset` found the value 0 because a reader, who is alive,
had the semaphore, and posts it: the one way in which exclusion is lost.

### SourceRing, StreamQueue

One source stream and its encoder streams inside a worker.  A step is one access
to `current_position` of either side, to `eos`, or to a slot.  Samples are numbered;
`ring[s]` is the number in slot `s`, 0 when it holds NULL or freed memory.
`is_live` is chosen initially, so one run covers both kinds.  `StreamQueue` is
the abstract promise: samples are taken in order, one by one, at most
`Capacity` wait.  `QueueSpec` is that specification with `written` the samples
stored, `taken` the last sample of each encoder and `closed` the `eos` flag;
a live stream, which promises nothing of the kind, maps to a queue where nothing
happens.

Nothing makes the encoders start with the source: `job_start` lets the source play
up to 5 s before it starts them (`job.c:766`), and the wait of `source.c:749` compares
with a position that is -1 until the first sample is taken.  So an encoder may take
its first sample at any time, and `adrift` (history) holds those that were out of step with
the source when they did.  There are two ways into it, each at a named step:

- `Passed`: the source goes on with a full ring while the encoder has not begun.
  Samples are overwritten that it has not taken, whatever `source.c:749` says
  ("avoid decoder too fast").
- `LookNone`: the four reads of `encoder.c:439` and `440` are four steps, `Look`,
  `LookNone`, `LookAgain` and `LookEos`.  When the first sample comes between the first
  two, the encoder goes on to `ring[0]` before anything is stored there.

An encoder in `adrift` may find any sample (`StreamQueue!Find`) or an empty slot (`Fault`).
`StreamQueue!Stray` says that an encoder can leave the queue only before its second sample,
and only while the source has delivered one sample, or as many as the ring holds.

The step `Fault` (an encoder uses a slot that holds nothing, or a sample that has been
freed) is left possible for a live stream too, where a slow encoder may be lapped
while it reads.

### HealthCheck

One job under `job_check_func`.  A tick is the two seconds between two checks.
`beat` is the age of each heartbeat in shared memory, `silent` (history) the time
since the last beat of *this* worker: the two differ because a restart does not
write the heartbeats of the encoder streams (`job.c:416`, `encoder.c:436`), so that
a fresh worker may be killed for the silence of the one before it.  `errors` is
`sync_error_times`, in the manager, which no restart sets back and which kills at
exactly 3 (`gstreamill.c:508`; `source.h:54` says 5).  `found` (history) counts the
same errors for this worker alone, so that `KilledForReason` can tell its third error from one
that was counted on from the worker before.  `Skip` is the check that did not get its locks.

### GopQueue, EncoderOutput

One live encoder output, from what the muxer gives to what clients get.  The
unit of memory is a word of four bytes, and `mem` holds words: half a time stamp,
a size, or a payload word with its number.  So a header of three words wraps
wherever it does in the code, and a reader that follows a wrong address gets
wrong words rather than a wrong flag.

| variables | code |
|---|---|
| `mem`, `head`, `tail`, `last` | the cache in shared memory, `head_addr`, `tail_addr`, `last_rap_addr` |
| `udp` | `cache_7x188` and the datagram sent last |
| `state`, `age`, `worker` | the job's state, starts, and where the worker is: between `sem_post` and the message a segment is open and not yet announced |
| `due`, `ts` | `last_running_time`, `segment_timestamp` |
| `msgs`, `lastTs` | the daemon's socket, `last_timestamp` of the output |
| `playlist`, `number` | the m3u8 playlist and its `sequence_number` |
| `queue`, `files` | `record_queue` and what the record thread wrote |
| `player` | a client of progressive streaming with its two addresses |

`Sample` and `KeySample` are the encoder's `new_sample_callback` with all it calls
(`move_head`, `move_last_rap`, the copy, the header, `udp_streaming`); `SendMsg`,
`DropMsg` and `Handle` the message and `msg_thread`; `WriteSegment` the record thread;
`Die`, `JobReset`, `OutputInitialize` and `Play` the restart; `Request` to `SendData`
the player.  `GopQueue` is the abstract promise: a queue of groups of pictures of
which the oldest are given up, no more of them than a new sample needs.
`QueueSpec` reads that queue out of the words of memory.

The unsigned arithmetic of the addresses is that of the code, with the wrap
spelled out.  A time stamp that wraps with one word before the end of the ring
is read wrongly (`encoder.c:919`) and shows as `Torn`.  A group of pictures longer
than the ring, for which the code's loop does not end while it holds the
semaphore, is kept out by the bounds.  The duration of a segment is the unit of
time, so segments of a fraction of a second are not modelled.

### DVR

The archive: `Segment` puts the segment before into the record queue (as
`EncoderOutput` does in detail), `MakeDir` and `WriteFile` are the record thread,
`DvrClean` runs from the monitor, `RemoveFiles` and `RemoveDir` are the remove thread.  A file has
a name (hour, number in the hour's count) and, as history, the time stamp of the
segment in it.  Playlists and downloads are operators on the state, which is
what they are in the code: they compute names from times and do not look at what
is there.  Time shift counts from the encoder's time (`last_timestamp`), cleaning
and call-backs from the wall clock, and `now` and `last` are apart for that reason: the time
stamps of segments may lag behind the clock or run ahead of it, which the encoder only
warns of (`encoder.c:222`), ahead by at most `MaxAhead`.

### CallbackProtocol, HTTPServer

CallbackProtocol is the promise to the callback: REQUEST once, then CONTINUE, one
FINISH at the end, never two calls for a slot at a time.  HTTPServer has the
threads.  A worker of the pool has no name, so `pc` and `seen` (the events it
loaded) are kept with its slot: `request`, `clear`, `callback` and `finish` are the
places in `thread_pool_func` between which another thread may change the slot.
`Network` is `listen_thread` with an event for a slot; the assignments it makes
outside the slot's mutex are interleaved with the worker's as the code has them.
`Late` is an event that `epoll_wait` returned for the connection the slot had
before.  `Idler` and `BlockScan` are the two threads that put slots back into the pool.
`client` is the other end: it sends its request in parts or whole, and may go
at any time.  The socket may become writable in any state of the slot (`HasRoom`), and
what a waiting client sends may fill the buffer, which ends its request while it is
still there (`ReadResults`, `httpserver.c:223`).

### HTTPSession

The callback on top of CallbackProtocol, and `gstreamill_get_encoder_output`,
`gstreamill_unaccess` and the management of the jobs of one name around it.
`priv` keeps every field that a later call reads, with `Wild` for one that was never
assigned.  The steps are where the job list may change: `dispatch`, `lookup`, `serve`,
`play`, `send`, `unaccess`, `unref`.  Each look-up by name has two: `Search` under the mutex
of the list gives `found`, and the reference is taken after the unlock (`Got`,
`gstreamill.c:1299`); of an object that was freed in between, GLib returns none, or its memory is
another job by then, or the process dies.  `misgiven` (history) holds the objects that were given
back an access which another object had given, or that was given back before.
`down` is the end of the process (`Fault`): a freed object is used, the second look-up of
`httpstreaming.c:380` finds nothing, or a player goes on after a 404 that was sent in two
parts, with no encoder output (`httpstreaming.c:1072`) or, its output not being ready, with no job
(`httpstreaming.c:706`, `1100`).  `Manage` starts a job of the name, stops it, removes it and restarts its
worker, as the scheduler does.

### TsSegment

The chain function of the element, from bytes to buffers.  A packet has two
cells and a buffer ends after any cell, so that buffers, maps of the adapter and
packets have different boundaries.  `Chain` pushes a buffer into the adapter;
`DiscoverSize`, `Synchronise`, `NeedMore`, `LostSync` and `NextPacket` are the turns of the
loop.  The payload of a video packet is a sequence of units: the PES header, NAL units, the halves
of a NAL unit whose header two packets share (`cut`, `tail`), and what follows a header (`more`).

| variables | code |
|---|---|
| `mem`, `size` | `pes_packet`, with what earlier PES packets left in it, and `pes_packet_size` |
| `payload`, `at` | the end of what `pes_payload_size` says, and how far the parser is |
| `dec` | the parser: parameter sets, `pic_struct`, the slice before, `frame_duration`, `frames_accumulate`, `pes_packet_duration`, the result of the NAL units so far |
| `data`, `PTS`, `seenIdr` | the packets pended, the time of the next buffer, `seen_idr` |
| `pes`, `out`, `lost`, `spoilt` | history: the packets in `pes_packet`, the buffers pushed, packets passed over, packets not held by the first map |

`ContPacket` appends a payload to `pes_packet` (`tssegment.c:1304`), so lost packets leave a hole
there and a lost first packet joins two PES packets.  The first packet of a PES packet has the one before parsed
(`StartPacket`, `ParseNal` for each unit, `ParseEnds` where the parser gives up) and pushed if there is a new
frame (`EndOfPes`).  If its header is bad the old `pes_payload_size` stays, and what the parser
then reads behind the new PES packet is what an older one left there.  Half of a header without the other, or
bytes the map did not hold (`Broken`), may be read as any NAL unit of `Garbled`, or end
the parsing.  How long a picture lasts is computed for each slice, from the parameter set, `field_pic_flag`
and the `pic_struct` of the last timing SEI (`Slice264`, `Lasts`); without a PPS the slice header is read only
in part, and the result of that is ignored as in the code (`Hdr`, `tssegment.c:822`).  A slice has the fields that
tell the first slice of a picture (`h264_parse_slice`, `h265_parse_slice`).  `Nal`, `Units` and `Packets` are
the types of these records; the proofs are about all sequences of them.

GStreamer's parsers are external.  Left out: a `pes_packet` that is full (4096000 bytes, which
`tssegment.c:1304` does not compare with), PES headers of different lengths, and three bytes of payload that look like sync bytes
at the distance of packets.  `spoilt` marks the packets
the discovery read behind the end of what it had mapped (`map_size` is set to what
is available, 832 bytes are mapped): a read of other memory, modelled as a packet
that is not found.

## 3. Runs

| run | instance | distinct states | shows |
|---|---|---|---|
| `two_jobs` | a live and a non-live job, 2 objects, worker failures below age 1, spawn failures, lost semaphores | 1.88 million | workers reaped once, pids current, restarts only of listed live jobs, removal only after the worker, order of reported states |
| `stop` | one object, live or not, ages up to 2, shutdown at any time, fair threads | 48,000 | a stop request, a failed worker and an end of stream lead to what they should; shutdown waits for the listed jobs |
| `spawn_failure` | one object | - | a disagreement (section 5) |
| `semaphore` | 2 encoders, 2 lockers, 1 reader, 3 restarts | 1,944 | exclusion until the semaphore is posted under a reader, and no lock-out |
| `semaphore_readers` | 2 encoders, 1 locker, 1 reader | - | a disagreement (section 5) |
| `source` | 2 encoders that start at any time, ring of 3, 7 samples, fair | 378,000 | queue refinement, loss at the end of stream, progress of both sides |
| `monitor` | thresholds 2, 4 and 3 ticks, 3 workers | 225,000 | kills have a reason; what hangs or drifts is replaced |
| `http_server` | 2 slots, 2 workers, a clock | 323,938 | one owner, hang-ups kept, requests end, the calls are those of the protocol |
| `http_session` | 2 slots, 2 objects of one name, 1 restart each, 2 requests | 469,809 | references, private data, accesses given back, old players end |
| `output` | ring of 13 words, 6 words of payload, 2 workers | 634,752 | segments, datagrams, playlist, player, the ring as a queue |
| `tssegment` | 71 streams, buffers of 1.5, 4 and 5 packets | 107,783 | what is lost, buffers, times, what is held back |
| `dvr` | segments of 2 s, up to 1 s ahead of the clock, hours of 5 s, 10 s | 192,841 | what playlists name can be played, what expired goes |

The properties:

- `two_jobs`: `EveryWorkerReaped`, `PidNamesWorker`, `RestartsListedJob` (invariants),
  `LiveRemovedAfterWorker`, `ReadyThenPlayingOrFailure` (steps).
- `stop`: `ShutdownWaitsForListed` (invariant), `StopHonoured`, `FailedWorkerReplaced`,
  `EosRemoved` (liveness).  `StopHonoured` ends with "or `stoping` was cleared":
  `job_reset` clears the flag, so a request that lands between the test in
  `child_watch_cb` and the reset is forgotten; the user has to ask again.
  `EosRemoved` asks for `eos`: a non-live job that is stopped by request becomes
  STOPED without it, `clean_job_list` removes non-live jobs on `eos` alone, and after
  a shutdown request the list never becomes empty.  `ShutdownWaitsForListed`
  excepts the job that is being started: `gstreamill_job_start` does not look at
  `gstreamill->stop`, and the manager may exit while that worker plays on.
- `semaphore`: `ExclusiveUntilHanded` (at most one thread uses the output until `job_reset`
  posts the semaphore while a reader has it; `semaphore_readers` shows what happens then),
  `WorkerNotLockedOut`, with readers as well.
- `source`: `EosLoss` (what the code loses at the end of stream: always the sample the
  source stopped at, and up to a ring of samples when the end comes between the
  reads of `need_data_callback`), `QueueSpec` (refinement), both of encoders that are not
  `adrift`; `SampleStored`, `EncodersEnd` (liveness; an encoder in `adrift` that meets an
  empty slot brings the worker down instead).
- `monitor`: `KilledForReason` (each kill: something of this worker was silent for too
  long, or the third check in a row found it out of sync; or, what the worker before it left is
  held against it: errors counted for that one, or its heartbeats as long as the
  encoders have not written theirs), `StalledReplaced`,
  `UnsyncedReplaced` (liveness; the second below three errors, since the counter
  that is past three never kills again).
- `http_server`: `OneOwner`, `StrandedByKeyClash` (a waiting request is lost by one
  step only, a FINISH that takes the idle node of the same wake-up time out of
  the tree, whoever's it is, `httpserver.c:961`), `HangupKept` (a recorded hang-up is
  dropped by the unlocked flip of the input event at `httpserver.c:922` and by
  nothing else), `RequestEnds` (liveness, of a request not stranded),
  `ImplementsProtocol` (refinement).
- `http_session`: `RefsCover` (but of an object that was given an access back
  wrongly), `PrivMatchesSession`, `GivenBackOnce`, `StalePlayEnds` (liveness).
- `output`: `SegmentExact`, `DatagramsExact`, `ListedComplete`, `PlayerInOrder`
  (invariants), `SequenceCounts` (steps), `QueueSpec` (refinement).
  `ListedComplete` and `SequenceCounts` say what a lost or late message costs by
  excepting it; `PlayerInOrder` excepts by name a ring that has run over the
  player's group, a chunk that starts at a segment boundary or at a header at the end of
  the ring, a group that ends with the ring, and an empty first group.
- `tssegment`: `NothingElseLost`; `FrameBuffers` (a buffer begins with the first packet of a PES packet,
  the PES packet parsed for it is its video packets from the last first packet on, its key flag is that of
  their slices if they are readable, and it holds one picture if the stream came unharmed; what the code
  does not tell apart is named); `PtsContinuous` (but for streams whose pictures
  last differently long); `LittleHeldBack`.
- `dvr`: `TimeshiftPlays`, `SpanPlays` (invariants), `ExpiredRemoved` (liveness).

Types are checked where nothing is proved about them: `TypeOK` of JobLifecycle,
SourceRing, HealthCheck and HTTPSession is a theorem; that of the other modules
can be added to a `.cfg` as an INVARIANT.

`CHECK_DEADLOCK FALSE` is set in all but `monitor`: the manager exits, a job is
over, a source or a stream ends, the clock reaches its bound.  Under the monitor
time always goes on.

### Bounds and why they suffice

- `MaxJobs` objects: jobs meet only through `job_list`, the single management
  thread, and the single main loop; two objects show every pair.
- `MaxAge`: a worker fails by itself only below this age, and stop requests come
  only up to it.  Age 0 is the first worker (started by the management thread),
  1 the first restart, 2 a restart of a restart; the code distinguishes only
  `age == 1` (`gstreamill.c:1221`).
- `MaxAge` in `JobSemaphore` counts restarts: three deaths reach every
  combination of lost and free semaphore over two generations.
- `Size` 3 and 7 samples in `SourceRing`: the ring is lapped twice; with two slots
  one position would be both the next and the previous one.
- `HealthCheck`: the thresholds differ, so that each heartbeat can be the only one
  past its own; three workers carry the counter of errors and the old heartbeats
  over two restarts, past three errors.
- `HTTPServer`: two slots clash over one key of the idle tree, recycle while the
  other is served, and share the pool; a third adds no new pair.  After
  `Horizon` the callback only finishes; before it two callbacks can ask for the
  same wake-up time, one gets the next key, and a node that was just taken leaves
  its key to another request.
- `HTTPSession`: two objects of one name (the second started while the first is
  still referenced), each restarted once, and two requests that may share a slot
  one after the other or run side by side.
- `EncoderOutput`: in 13 words a header wraps at each of its words, two groups fit
  and a third gives the oldest up; six payload words in samples of one or two
  go round the ring once with headers, in one worker or in two.  A window of two
  entries and a socket of two messages overflow.  A datagram of three words is
  never a multiple of every sample.
- `TsSegment`: the streams (MCTsSegment) have each order and damage of the tables,
  pictures of one or more slices and packets, NAL units whose header two packets share, fields,
  consecutive IDR pictures of each order type, a change of the frame rate and of the pictures' duration
  by SEI, slices before the PPS, bad PES headers with older NAL units behind them, a damaged or a bad
  packet added at each place of a plain stream, and put in the place of each packet of a stream whose pictures
  take several, so that parts are lost and PES packets joined; each is cut into buffers of 3, 8 or 10 cells in every
  order, shorter and longer than the discovery window of 9 cells.
- `DVR`: an hour of 5 s is no multiple of a segment of 2 s, so hours begin inside
  segments; the 10 s from `Start` to `End` reach over three hours and twice the 5 s the archive keeps;
  time stamps run one second ahead at most (`MaxAhead`), and one segment waits for the record
  thread (`MaxQueue`).

### Fairness

- JobLifecycle: every thread keeps running (WF on its steps); a SIGTERM sent is
  acted on (WF); those who wait for `job_list_mutex`, which the monitor leaves free
  for two seconds between ticks, get it (SF on `MgmtAppend` and `ShutLock`).  No
  request, crash or end of stream is fair.  A worker that has been started
  reports or ends: the spin of `create_job_process` has no timeout, so a worker
  that does neither blocks the main loop for ever, a hazard no liveness property
  here covers.  The fair runs set `MayLoseSemaphore` to FALSE: with a lost
  semaphore `clean_job_list` retries for ever with `job_list_mutex` held
  (`MonRetry`), since a worker that is being stopped is not reset.
  `spawn_failure` alone sets `SpawnMayFail` among the fair runs.
- SourceRing: the source's callback is fair, and so is an encoder of a stream that
  is not live; a live encoder may stall for ever, and `SampleStored` holds even
  then.
- HealthCheck: time passes, a worker gets through `job_start`, `child_watch_cb` runs
  (WF).  A check may be skipped because a lock is taken, but not for ever (SF):
  the locks are held for moments, the check comes every two seconds.
- HTTPServer: the workers, the two queue threads and the clock (WF).  Nothing is
  asked of clients or of epoll: `RequestEnds` holds for a request that came in
  whole, or whose hang-up was recorded.
- HTTPSession: a callback runs to its end, and a session that was kept is called
  again (WF): that is what `RequestEnds` shows of HTTPServer.
- DVR: the clock, the monitor's call of `dvr_clean`, and both threads (WF).
- EncoderOutput and TsSegment have safety properties only.

## 4. Proofs

TLAPS checks the eight proof modules for every value of the constants allowed by the
assumptions: any number of jobs, slots, threads, restarts and requests, rings and
caches of any size, any thresholds, any lengths of hours, segments and archives, any streams.

**JobLifecycle.**  The invariants that TLC checks are not inductive: that a live
job in a callback is listed depends on where its reference is, which depends on
whether its first worker has played.  `IInv` adds, for each job, eight named
facts: `Unmade` (nothing refers to an object nobody made), `Reported` (the state in
shared memory is what the worker wrote last), `Created` (a job being started is
known to its creator only), `Handled` (a job in a callback has no other worker),
`NotPlayed` (a job whose first worker has not played has one reference and no
list entry), `Counted` (the reference count is the list's or the creator's plus
the stop request's), `Listed` (a watched live job is in the list, unless it
failed to start) and `Once` (the one worker of a job that is not live is not
counted while it is being reaped), and for the threads `Idle` and `Walk`.  `StepInv`
has one step per action, grouped into a lemma per thread.  `Inductive` gives
`Spec => []IInv`; `TypesHold`, `WorkersReaped`, `PidsCurrent`, `PlayingTrue`,
`StopedTrue`, `RestartsSafe`, `RunsOnce` follow, and `RemovedAfterWorker` proves the step
property `LiveRemovedAfterWorker` from it.  `ShutdownWaits` adds that the manager exits
with an empty list only (`ExitEmpty`), so that a worker that is left would have to be
unlisted; `ReadyOrder` adds `Settled`, that a job whose worker is watched or in
its callback has left the states in which `create_job_process` spins.  `PlayingTrue`, `StopedTrue` and `RunsOnce` are properties of
their own, which no run repeats.

**JobSemaphore.**  Readers take the semaphore like everybody else, so nothing is assumed of
them.  Until `handed` (`Binary`) the semaphore is 0 or 1, and 1 only when nobody is inside; a
holder of `access_mutex` is unique (`Mutex`), encoders run only in a worker that is up (`Workers`), and where `job_reset`
is about to post under no reader nobody is inside (`Reset`): the lockers wait for `access_mutex` and the encoders
are dead.  `ExclusiveUntilReset` follows.  `NotLost` says, readers or not, posted under one or not, that somebody can still
post once `job_reset` has done its part: `NotLockedOut`.

**SourceRing.**  The code's positions are numbers modulo the ring size, and two
that are equal may be a lap apart; the invariant therefore counts samples.
`At(n)` is the position after `n` samples.  The lemmas `AtSucc`, `AtDiffers` and `AtLap`
(from the arithmetic of quotient and remainder) say that it moves by one, differs
fewer than `Size` samples apart, and repeats `Size` apart.  `IInv` says, for a stream that is not
live, that the source's position is `At(count)` (`Source`), that the last `Size` samples are in their
slots (`Filled`), and of each encoder that is not `adrift`: that its position is `At` of
what it has finished with and that it stays behind the source, with what each of its reads has
shown it (`Behind`), and that at most a ring of samples waits for it, less once the
source's wait for it is over (`Room`).  No assumption is made on when encoders start: an encoder that
would break `Room` or `Behind` is put into `adrift` by that very step.  `ReadsSafe` and `LossBounded` follow;
`ImplementsQueue` maps `Store` to `Write`, `Read` to `Take` or `Find`, `Passed` and `LookNone` to `Stray` where they
add to `adrift`, `Eos` to `Close` and every other step to a stutter.  `TypesHold` covers live streams.

**HealthCheck.**  The types (`TypesHold`) with two facts beside them are inductive; the
reason of a kill (`Reason`, for the theorem `KillsForReason`) is then a consequence of the guard of the check and of how `beat`
and `silent`, and `errors` and `found`, can differ.

**HTTPServer.**  `Apart(s)` (the places of a slot exclude each other) and `Placed(s)`
(what the status says of the place, with the two ways to be nowhere) are
inductive per slot.  `SlotsOwned` counts the places.  `HangupsKept` needs only the
shape of the events, and follows from a case for each step that writes them.
`ServerKeepsProtocol` reduces a step of the server to a move of one slot (`OneSlot`,
`StepMaps`).  `StrandedByClash` shows that a slot that is IDLE and somewhere becomes
nowhere only by the FINISH of another slot with its wake-up time.

**HTTPSession.**  `RefsCover` compares a counter with two cardinalities.  The references
a job owes are one for the list, one for each slot counted on it and one for each
player of it (`OwedSum`); each step changes at most one slot, so a cardinality moves by at
most one (`CardinalityFewer`, `CardinalityMore`, `CardinalityLess`), and the lemmas
`FewerCovered`, `MoreCovered` and `LessCovered` do the three cases once for all
steps.  What makes them apply is the invariant per slot: `Stands` relates the call, the
session, the step in the callback and `priv`; `Counts` says that a slot about to
give an access back has one, or was left a download by the connection before.
`Unborn` says that a new object is owed nothing.  `TypesHold`, `JobsOutliveSessions`,
`PrivKept` and `AccessGivenBack` follow.

**EncoderOutput.**  Nothing in the code says where the groups of the ring are: the
addresses come from following sizes from `head`, and TLC's bounds say nothing of a ring
of another size.  The proof therefore gives each group a number that never comes back and
a position that grows for ever: `b[i]` is the number of the first payload word of group `i`,
`Pos(b, i)` what all payload and headers before it need, and `Place` its address, the
distance of its position from that of the first group laid on the ring from `head`.
`Ring(lo, hi, b, t, h, m)` says that groups `lo` to `hi` need less than the cache
(`Bounds`) and that each is there (`Held`): time stamp, size if it is closed, payload, word
for word.  `Filled` adds that `last`, `tail`, `ts` and `begun` agree with the last
group and that each earlier one is in the history of closed groups; `RingInv` is that such
`lo`, `hi`, `b`, `t` exist.  `Extended`, `Opened` and `Dropped` show what a copied sample, a new
header and a moved `head` do to a ring; they rest on `StoreAt` (what a copy that may wrap leaves
at an address) and `Distance`.  `Chain`, a recursive function, gives the places of
the groups (`ChainIs`), proved by a least counterexample, since the library's induction cannot be
instantiated here; `Cut` of `udp_streaming` and `Used` of GopQueue are treated in the same way.

- `SegmentTheorem`: a closed group that `Seek` returns has the words the history says, so what is
  copied from the cache, waits in the record queue or is in a file is a segment (`SegInv`).
- `ListedTheorem` and `CountTheorem`: a message in the queue names a group that was begun, in
  ascending order, and one that names the last group is the only one left (`MsgInv`).  Then the
  segment listed next was closed by this worker unless a message came late, and follows the entry
  before unless one was lost (`ListInv`).
- `DatagramsTheorem`: what is held and what was sent last are runs of numbers that end with the last
  word given (`UdpInv`); `CutParts` carries this through the loop for a buffer of any size.
- `PlayerTheorem`: a player that is not excused plays a group that is still in the ring: its position
  is the address of word `k` of it, the first of its chunk, which lies in the group and does not cross
  the ring's end, and what it heard last is the word before the next (`InGroup`,
  `PlayerInv`).  `SizeFits`, `OverIs` and `ChunkStep` are the address arithmetic of
  `send_chunk` for the last group, for one that ends before the ring does, at its end, or behind it;
  `LeftBehind` says that a group the encoder gives up excuses the player in it, `StaysIn` that
  nothing else the encoder does moves the words of another.
- `QueueTheorem`: the groups read from memory are `Gops` of the ring (`GroupsAre`), the memory they need
  is a difference of positions (`UsedIs`), so what the code calls room is what the queue calls `Fits`
  (`FitsIs`); a sample is then `Put`, a restart `Restart` (`QueueStep`).  `BoundInv`
  keeps time stamps below the bound of the abstract queue.

**DVR.**  The record thread names a file by the hour and the rounded number of the
segment's time stamp, the HTTP threads by the hour and the number of the time they
compute: quotients by two divisors that do not divide each other.  `Division`, `Quotient`
and `Monotone` state once what a quotient is.  From them `NumberOf` and `NamesDiffer`
(on the grid of the duration the name tells the segment), `EntryIsName` (each time
inside a segment that no hour splits gives its name) and `SpanLists` (the times a span
steps through hit each segment that lies inside it).  `IInv` says that what waits for
the disk was recorded and is on the grid, and a file holds a recorded segment under its
name (`Recorded`), that only expired hours wait for removal and the record thread's directory
is there unless its hour expired (`Removed`), and that each recorded segment waits, is on
the disk, or is of an expired hour (`Kept`).  `Removed` is why `Kept` is inductive: what
`dvr_clean` has queued is removed later without another test, and hours do not
become unexpired.  `TimeshiftFound` and `SpansFound` follow: an hour that a request may
still name has not expired (`NotExpired`).

**TsSegment.**  For any streams, with any NAL units in any packets, tables and damages, cut into
buffers of any lengths.  A step passes packets over (`Skips`), parses (`Parses`) or takes one
(`Takes`), which then ends a PES packet (`Ends`) or does not (`Pends`); the
invariant `IInv` is kept by each of these, not by each action.

- `HeldBackBounded`: the map reaches to the end of the adapter, or nothing is mapped
  (`Mapping`, a part of `SyncInv`), so a run of the chain function that stops has looked at all there
  is.  `Parsing` is the same while a PES packet is parsed.
- `LossTheorem`: a packet is passed over only where one of four sync bytes in a row is missing
  (`NearDamage`), and before `cur` (`Behind`); nothing is pended before the first key picture (`Started`);
  then what was pushed and pended grows by every good packet and by nothing else
  (`SentTakes`), so it stays in order and complete (`InOrder`).  `FlattenAppend` is the lemma
  about the library's `FlattenSeq`, a recursive function: two of them agree up to a
  least number at which they do not.
- `TimesTheorem`: `Timed` is the invariant of the parser: the frames counted so far, times the
  duration of the last one, are the time of the next buffer and what the frames in it last.  When all
  pictures last as long as one another (`OneRate`) each NAL unit keeps it, whatever unit of `pes_packet`
  it was read from (`NalStep`, with `Distributes` for the products), hence it holds when a buffer is
  pushed (`Times`).
- `FlagTheorem`: what is pended begins with the first packet of a PES packet, and `pes_packet` holds
  the video packets from the last such on (`Heads`; `HeadsPends`, `HeadsEnds`).  `pes_packet` is then, unit for unit, what
  these packets brought, unless one of them is spoilt (`Whole`; `WriteIs` for the copy, `UnitsAppend` for the
  sequence of units, `WholeTakes`), and the parser reads each NAL unit of it as it is, once, also one whose
  header two packets share (`ReadsWhole`).  `Flagged` relates the result so far to the units read so far: the key flag
  is raised by the first slice of an intra picture and by nothing else, once parameter sets are in force
  (`FlagsAfter`, `FlagStep`, `FlaggedParses`); at the end of the PES packet this is `KeyOfLast` (`EndKeyed`).  A buffer pushed
  stays framed (`AllFramed`).
- `TypeTheorem`: `TypeOK`, with what the parser reads: never behind what `pes_packet` has held.

Only model-checked:

- that a buffer of `FrameBuffers` holds one picture (`OneFrame`).  It is as much about the stream
  as about the code, since two pictures whose slices have the same headers are one for it; TLC shows it for
  the streams of MCTsSegment.
- liveness, which under fairness is out of the prover's reach: `StopHonoured`,
  `FailedWorkerReplaced`, `EosRemoved`, `SampleStored`, `EncodersEnd`, `StalledReplaced`,
  `UnsyncedReplaced`, `RequestEnds`, `StalePlayEnds`, `ExpiredRemoved`.  Where a refinement is proved
  (`QueueSpec` of SourceRing and of EncoderOutput, `ImplementsProtocol`), the abstract
  specification is one of safety.

## 5. Findings

1. `spawn_failure`: when `g_spawn_async` fails on a restart the comment promises another
   restart (`gstreamill.c:1247`), but nothing watches the job any more
   (`FailedRestartRetried`).
2. `semaphore_readers`: `job_reset` posts a semaphore that an HTTP thread or
   `clean_job_list` may hold, and two threads use the output at once (`job.h:45`).

What else the code does and the properties except by name or do not ask for.  Two of
these contradict a comment and have no run of their own: the third sync error against the fifth of
`source.h:54`, and the samples lost in spite of `source.c:749`.

- *Scheduler.*  A non-live job stopped by request stays in the list; a start during a
  shutdown may be left running; `child_watch_cb` unlocks a mutex in an object it has
  just freed (`gstreamill.c:1223`); the monitor may free a live job between the two
  writes of `gstreamill.c:1230` and `1231`; a first spawn that fails leaks the object.
- *Source.*  Samples are overwritten unread when the encoders start after the ring
  is full, also those of a stream that is not live, which `source.c:749` means to hold back;
  the first sample between two reads of `encoder.c:439` makes an encoder use an empty slot;
  a non-live stream that ends before its first sample is never ended
  for its encoders; a live encoder that is lapped can go back to older samples.
- *Health checks.*  `sync_check` kills at 3 errors where `source.h:54` says 5, once per job
  and not once per worker; the encoder heartbeats of a new worker are those of the
  old one.
- *Encoder output.*  A time stamp that wraps after its first word is read wrongly; a
  late message makes the playlist name the open segment; a key frame asked for
  just after the semaphore was given back is forgotten (`encoder.c:336`); a player
  at a segment boundary may begin inside a group.
- *Archive.*  A segment in which an hour begins is looked for in the next hour's
  directory; the first segment after a restart is not recorded, nor one whose
  message was lost; a call-back whose first hour began before the archive
  is refused; the last segment that contains the end of a span may be missed; a
  position before the epoch is accepted and one in the future up to a window
  lists segments not yet made; recordings of a stopped job stay; a directory that waits
  for its removal is queued again.
- *HTTP.*  A FINISH takes the idle node of its own last wake-up time out of the tree,
  also when it is another request's; a hang-up that comes between two instructions
  of a worker is lost; events of a closed connection reach the slot's next one;
  a download never gives its access back, and one whose header could not be sent
  leaves its private data to the next connection; accesses are given back to
  whatever job bears the name then; `get_job` may hand out an object that was freed
  before the reference was taken, or use it; a player's 404 that is sent in parts ends the process.
- *Segmenter.*  A damaged first table counts as seen and the stream never starts; only the
  first entry of the PAT is used; consecutive IDR pictures with order counts are
  not told apart (`tssegment.c:659`); a second field in a PES packet of its own
  goes with the next frame; the key flag of merged pictures is that of the last;
  up to three good packets next to a damaged sync byte are lost; times jump when
  pictures last differently long (`tssegment.c:1299`); after a bad PES header NAL units of an older PES
  packet may be parsed again.

## 6. Not modelled

- Pipeline construction and option parsing, job description, media manager, log
  and its rotation, parson, the REST dispatch and the network and media pages of
  `httpmgmt.c`, status queries: text and files without shared state, or calls to
  GStreamer.
- The master playlist: rendered once, as text.  The reply of a cross-domain request.
- Segments whose duration is not a whole number of seconds, and DVR with a duration
  below one second, for which the code divides by zero.
- The parsing of H.264 and H.265 parameter sets, which is GStreamer's; tags.
- Reads of a download's files step by step: what it names is modelled, and
  that a session that is kept is called again.
- Two listed objects of one name at a time, which share memory and semaphore:
  HTTPSession has them one after the other.
- Single-job mode (`-j`), the pid file and daemonisation.
- A playlist that is freed by `job_reset` while a thread renders it, and a
  failing push of a datagram that is unreferenced twice: undefined behaviour of which the
  build's outcomes are not known; listed as hazards.

What could follow: the names of jobs as an object of their own in JobLifecycle
(two listed objects of one name).

## 7. Running

```
tlc -workers 2 -config JobLifecycle_two_jobs.cfg JobLifecycle.tla
tlapm HTTPSessionProofs.tla
```

`http_server` takes three minutes, `http_session` two, `output` and `dvr` one to two, the others
less than one.  The proofs take about twenty minutes from nothing, most of it in
EncoderOutputProofs, TsSegmentProofs and HTTPSessionProofs.
