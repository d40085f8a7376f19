-------------------------------- MODULE DVR --------------------------------
(***************************************************************************)
(* The recorded segments of one encoder output of a live job: the record    *)
(* thread that writes them into a directory for each hour, dvr_clean and    *)
(* the thread that removes the directories of the hours that expired, and   *)
(* the time shift and call-back playlists and the downloads that name       *)
(* segments by computing on times, without a look at what was written.      *)
(*                                                                         *)
(* Time is counted in seconds, the code's microseconds and nanoseconds are  *)
(* multiples of it: the duration of a segment is a whole number of seconds. *)
(* What a segment holds is told by its time stamp. Ring and live playlist   *)
(* are those of EncoderOutput, abridged to how many segments are kept.      *)
(***************************************************************************)
EXTENDS Integers, Sequences, SequencesExt

CONSTANTS
    Hour,           \* seconds of an hour
    Duration,       \* segment_duration, in seconds
    WindowSize,     \* playlist_window_size
    DvrDuration,    \* dvr_duration, in seconds
    CleanPeriod,    \* between two runs of dvr_clean, 600 s in the code
    RingSegments,   \* bound: complete segments the ring still holds
    MaxAhead,       \* bound: seconds a segment's time stamp is ahead of the clock
    MaxQueue,       \* bound: segments that wait for the record thread
    Start, End      \* bound: the clock runs from Start to End

ASSUME DVRAssumption ==
    /\ {Hour, Duration, WindowSize, DvrDuration, CleanPeriod, RingSegments, MaxQueue}
           \subseteq Nat \ {0}
    /\ MaxAhead \in Nat
    /\ Start \in Nat /\ End \in Nat /\ DvrDuration <= Start

VARIABLES
    now,        \* the wall clock
    listed,     \* the job is in job_list
    open,       \* time stamp of the segment its worker writes, 0 before the first
    last,       \* last_timestamp, 0 before the first message
    queue,      \* record_queue: time stamps of segments
    writing,    \* the segment the record thread has made a directory for, 0 for none
    files,      \* the files: directory, number, and whose segment it holds
    dirs,       \* the directories
    cleaned,    \* last_dvr_clean_time
    removals,   \* remove_dvr_queue
    removing,   \* the directory whose files were removed, 0 for none
    recorded    \* history: the segments put into the record queue

workerVars == <<listed, open, last>>
diskVars == <<writing, files, dirs>>
removeVars == <<cleaned, removals, removing>>
vars == <<now, workerVars, queue, diskVars, removeVars, recorded>>

Init ==
    /\ now = Start
    /\ listed = TRUE /\ open = 0 /\ last = 0
    /\ queue = <<>> /\ writing = 0
    /\ files = {} /\ dirs = {}
    /\ cleaned = Start /\ removals = <<>> /\ removing = 0
    /\ recorded = {}

(* timestamp_to_segment_dir: yyyymmddhh. *)
HourOf(time) == time \div Hour

(* The name a segment is recorded under; half a second is added.            *)
NameOf(ts) == [dir |-> HourOf(ts), number |-> (2 * ts + 1) \div (2 * Duration)]
FileOf(ts) == [name |-> NameOf(ts), of |-> ts]

-----------------------------------------------------------------------------
Tick ==
    /\ now < End
    /\ now' = now + 1
    /\ UNCHANGED <<workerVars, queue, diskVars, removeVars, recorded>>

(* The worker opens a segment: the first one on the grid of its duration,   *)
(* each other one a duration after the one before. The stream's time is not *)
(* the clock's: it may lag behind or run ahead, which is only warned of.    *)
Opened == IF open = 0 THEN now - (now % Duration) ELSE open + Duration

Open ==
    /\ listed /\ Opened <= now + MaxAhead
    /\ open' = Opened

(* msg_thread: the segment of the last message is complete by now, and      *)
(* recorded when the ring still has it.                                     *)
Segment ==
    /\ Open /\ Len(queue) < MaxQueue
    /\ IF last # 0 /\ Opened <= last + RingSegments * Duration
       THEN /\ queue' = Append(queue, last)
            /\ recorded' = recorded \cup {last}
       ELSE UNCHANGED <<queue, recorded>>
    /\ last' = Opened
    /\ UNCHANGED <<now, listed, diskVars, removeVars>>

(* The message is dropped: no semaphore, no socket buffer.                  *)
SegmentLost ==
    /\ Open
    /\ UNCHANGED <<now, listed, last, queue, diskVars, removeVars, recorded>>

(* The worker is started again, or the job is: no segment is open, and the  *)
(* time stamp of the last one is forgotten.                                 *)
Restart ==
    /\ listed' = TRUE
    /\ open' = 0 /\ last' = 0
    /\ UNCHANGED <<now, queue, diskVars, removeVars, recorded>>

Stop ==
    /\ listed' = FALSE
    /\ open' = 0 /\ last' = 0
    /\ UNCHANGED <<now, queue, diskVars, removeVars, recorded>>

-----------------------------------------------------------------------------
(* record_thread, write_segment: the directory is made when it is missing,  *)
(* then the file is written, unless the directory is gone again.            *)
MakeDir ==
    /\ writing = 0 /\ queue # <<>>
    /\ writing' = Head(queue) /\ queue' = Tail(queue)
    /\ dirs' = dirs \cup {HourOf(writing')}
    /\ UNCHANGED <<now, workerVars, files, removeVars, recorded>>

WriteFile ==
    /\ writing # 0
    /\ files' = IF HourOf(writing) \in dirs
                THEN {f \in files : f.name # NameOf(writing)} \cup {FileOf(writing)}
                ELSE files
    /\ writing' = 0
    /\ UNCHANGED <<now, workerVars, queue, dirs, removeVars, recorded>>

-----------------------------------------------------------------------------
(* Mutant: the hour that is just expiring is taken for expired.             *)
ExpiredEarly(dir) == dir <= HourOf(now - DvrDuration)

Expired(dir) == dir < HourOf(now - DvrDuration)

(* glob gives the directories in the order of their names.                  *)
Sorted(set) ==
    {q \in SetToSeqs(set) : \A i, j \in DOMAIN q : i < j => q[i] < q[j]}

(* Mutant: a directory is kept for one hour more.                          *)
DvrCleanLate ==
    /\ now - cleaned >= CleanPeriod
    /\ \E q \in Sorted({d \in dirs : Expired(d + 1)}) :
          removals' = IF listed THEN removals \o q ELSE removals
    /\ cleaned' = now
    /\ UNCHANGED <<now, workerVars, queue, diskVars, removing, recorded>>

(* dvr_clean, from the monitor: of the jobs that are listed. Directories    *)
(* that wait for their removal are queued again.                            *)
DvrClean ==
    /\ now - cleaned >= CleanPeriod
    /\ \E q \in Sorted({d \in dirs : Expired(d)}) :
          removals' = IF listed THEN removals \o q ELSE removals
    /\ cleaned' = now
    /\ UNCHANGED <<now, workerVars, queue, diskVars, removing, recorded>>

(* remove_dvr_thread, remove_dir: the files, and the directory when it is   *)
(* empty by then.                                                           *)
RemoveFiles ==
    /\ removing = 0 /\ removals # <<>>
    /\ removing' = Head(removals) /\ removals' = Tail(removals)
    /\ files' = {f \in files : f.name.dir # removing'}
    /\ UNCHANGED <<now, workerVars, queue, writing, dirs, cleaned, recorded>>

RemoveDir ==
    /\ removing # 0
    /\ dirs' = IF \E f \in files : f.name.dir = removing THEN dirs ELSE dirs \ {removing}
    /\ removing' = 0
    /\ UNCHANGED <<now, workerVars, queue, writing, files, cleaned, removals, recorded>>

Next ==
    \/ Tick \/ Segment \/ SegmentLost \/ Restart \/ Stop
    \/ MakeDir \/ WriteFile \/ DvrClean \/ RemoveFiles \/ RemoveDir

(* Time passes, the monitor is called every two seconds, and both threads   *)
(* run.                                                                     *)
Fairness ==
    /\ WF_vars(Tick) /\ WF_vars(DvrClean)
    /\ WF_vars(MakeDir \/ WriteFile) /\ WF_vars(RemoveFiles \/ RemoveDir)

Spec == Init /\ [][Next]_vars /\ Fairness

-----------------------------------------------------------------------------
(* What a request is answered, as an operator on the state.                 *)

(* An entry of a playlist: the directory and the number of a time.          *)
Entry(time) == [dir |-> HourOf(time), number |-> time \div Duration]

(* m3u8playlist_timeshift_get_playlist: a window from a time on.            *)
TimeshiftTimes(position) == {position + i * Duration : i \in 0..(WindowSize - 1)}

(* m3u8playlist_callback_get_playlist and is_dvr_download_request.          *)
SpanTimes(start, end) == {start + i * Duration : i \in 0..((end - start) \div Duration)}

(* The files a download sends, those that are there of the times it tries.  *)
Downloaded(start, end) == {f \in files : \E t \in SpanTimes(start, end) : f.name = Entry(t)}

(* Mutant: the window is not taken off.                                     *)
PositionAt(time) == time

(* The window ends a segment before the time that is asked for.             *)
PositionBefore(time) == time - WindowSize * Duration

(* get_m3u8playlist compares the position with the start of the archive     *)
(* without a sign: a negative one is above it.                              *)
Above(m, n) == IF m < 0 <=> n < 0 THEN m > n ELSE m < 0
PositionValid(position) == position < last /\ Above(position, last - DvrDuration)

(* A call-back is refused when the first hour or the last one of its span   *)
(* began before the archive, or when the span reaches into the future.      *)
BoundValid(time) == now - DvrDuration <= time - (time % Hour) /\ time <= now
CallbackValid(start, end) == BoundValid(start) /\ BoundValid(end)

-----------------------------------------------------------------------------
(* The times of the segments that are on their way to the disk.             *)
Pending == Range(queue) \cup {writing}

SegmentOf(time) == time - (time % Duration)

(* An hour begins inside the segment: listed by another time than its own,  *)
(* it is looked for in the directory of the next hour.                      *)
Split(ts) == HourOf(ts) # HourOf(ts + Duration - 1)

OnDisk(ts) == FileOf(ts) \in files

(* Each entry of a time shift playlist for a time that is not in the future *)
(* is a segment that was recorded in the past, and its file is there by the *)
(* name in the playlist, for as long as dvr_duration says by the wall clock.*)
(* But for a segment that was never recorded, is still to be written, or is *)
(* split by an hour; and a position before the epoch, which is not refused. *)
TimeshiftPlays ==
    \A time \in 0..(last + Duration - 1) :
        LET position == PositionBefore(time)
        IN  last # 0 /\ position >= 0 /\ PositionValid(position) =>
                \A t \in TimeshiftTimes(position) :
                    LET ts == SegmentOf(t)
                    IN  /\ ts < last
                        /\ \/ ts \notin recorded \/ ts \in Pending \/ Split(ts)
                           \/ t < now - DvrDuration
                           \/ [name |-> Entry(t), of |-> ts] \in files

(* A segment that a span holds whole, in one hour. *)
Inside(ts, start, end) == start <= ts /\ ts + Duration - 1 <= end /\ ~Split(ts)

(* A call-back that is not refused lists every segment recorded inside its  *)
(* span, and its file is there unless it is still to be written. A download *)
(* takes every file inside its span, however old.                           *)
SpanPlays ==
    \A start \in Start..now : \A end \in start..now :
        /\ CallbackValid(start, end) =>
              \A ts \in recorded :
                  Inside(ts, start, end) =>
                      /\ ts \in Pending \/ OnDisk(ts)
                      /\ \E t \in SpanTimes(start, end) : Entry(t) = NameOf(ts)
        /\ \A f \in files : Inside(f.of, start, end) => f \in Downloaded(start, end)

(* A directory whose hour has expired goes while the job is listed, once    *)
(* nothing is written to it any more, by a worker that is late.             *)
ExpiredRemoved ==
    \A dir \in HourOf(Start)..HourOf(End) :
        (/\ dir \in dirs /\ Expired(dir) /\ now <= End - CleanPeriod
         /\ \A ts \in Pending : HourOf(ts) # dir
         /\ \A ts \in {open, last} \ {0} : HourOf(ts) > dir)
            ~> (dir \notin dirs \/ ~listed)
=============================================================================
