------------------------------- MODULE HttpExporter -------------------------------
EXTENDS Naturals, Sequences, FiniteSets, SequencesExt

-----------------------------------------------------------------------------
(***************************************************************************)
(* The file exporter of IPFIX (emu/plugins/ipfix/ipfix_file_exporter.go):  *)
(* a goroutine takes write and rotate commands from a channel, appends to  *)
(* the file in progress and rotates it when it is full or too old.         *)
(*                                                                         *)
(* The state is one record:                                                *)
(*   chan      commands the main thread has queued                         *)
(*   thread    "select", "open" (between fileClose and openNew of          *)
(*             rotateInt), "returned" (a rotation failed) or "done"        *)
(*   hand      the write that rotateInt interrupts, <<>> if there is none  *)
(*   open, size, recs, index    p.file # nil, fileSize, the number of      *)
(*             records of the file, index                                  *)
(*   on, fired the interval timer runs, and its Go channel holds a tick:   *)
(*             Stop and Reset do not take the tick back                    *)
(*   last      disableMaxIntervalTimer                                     *)
(*   enabled                                                               *)
(*   exists, cur   the file in progress on the disk, with what is still in *)
(*             the bufio.Writer (flushed before the file is closed)        *)
(*   rot       the rotated files on the disk; a name is its index          *)
(*   events    EvFileCreated, delivered to the observer's queue            *)
(*   lost      records the exporter has given up: the write is longer than *)
(*             a file, the file is truncated because there are too many    *)
(*             files, the disk failed, or the exporter was closed          *)
(* A write is its record: a number and a length.                           *)
(***************************************************************************)
CONSTANTS
    FeMaxSize,   \* maxSize
    FeMaxFiles,  \* maxFiles, 0 for no limit
    FeCapacity,  \* of cmdChan
    FeQueue      \* of the observer's queue

Ids(data) == {data[i].id : i \in DOMAIN data}

\* a rotated file and its event
FileInfo(s) == [idx |-> s.index, data |-> s.cur, recs |-> s.recs]

\* the queue of the observer: an event that finds it full is dropped
Notified(q, ev) == IF Len(q) < FeQueue THEN Append(q, ev) ELSE q

TooMany(s) == FeMaxFiles > 0 /\ Cardinality(s.rot) >= FeMaxFiles

\* closing the file renames it
Renames(s) == s.open /\ s.exists /\ ~TooMany(s)

\* rotateExistingFile: too many files leave the file in progress in its place
RotateExisting(s) ==
    IF ~s.exists \/ TooMany(s) THEN s
    ELSE [s EXCEPT !.exists = FALSE, !.cur = <<>>, !.rot = @ \cup {FileInfo(s)},
                   !.events = Notified(@, FileInfo(s))]

\* mutation of FileClose: the counters are reset with the file still to be rotated
FileCloseResets(s) ==
    LET t == [s EXCEPT !.on = FALSE]
    IN  IF s.open THEN RotateExisting([t EXCEPT !.open = FALSE, !.size = 0, !.recs = 0]) ELSE t

\* fileClose: stop the timer, close and rotate
FileClose(s) ==
    LET t == [s EXCEPT !.on = FALSE]
    IN  IF s.open THEN RotateExisting([t EXCEPT !.open = FALSE]) ELSE t

\* openNew: what is still in place is rotated, or else truncated
OpenNew(s) ==
    LET r == RotateExisting(s)
    IN  [r EXCEPT !.exists = TRUE, !.cur = <<>>, !.lost = @ \cup Ids(r.cur), !.open = TRUE,
                  !.size = 0, !.recs = 0, !.index = @ + 1, !.on = TRUE]

\* fileWriter.Write and the counters of the file
Put(s, w) ==
    [s EXCEPT !.cur = Append(@, w), !.size = @ + w.len, !.recs = @ + 1, !.hand = <<>>]

\* a rename, a MkdirAll or an OpenFile fails: a write is counted in txWritesFailed,
\* while a rotation that was asked for ends the goroutine
DiskFails(s) ==
    [s EXCEPT !.hand = <<>>, !.lost = @ \cup Ids(s.hand),
              !.thread = IF s.hand = <<>> THEN "returned" ELSE "select"]

-----------------------------------------------------------------------------
(* the API, on the main thread *)

FeWrite(s, w) ==
    IF s.enabled /\ Len(s.chan) < FeCapacity
    THEN [s EXCEPT !.chan = Append(@, [op |-> "write", w |-> w])] ELSE s

FeRotate(s) ==
    IF s.enabled /\ Len(s.chan) < FeCapacity THEN [s EXCEPT !.chan = Append(@, [op |-> "rotate"])] ELSE s

\* close, once the goroutine has taken from done: commands still queued are dropped
FeClosed(s) ==
    FileClose([s EXCEPT !.thread = "done", !.chan = <<>>,
                 !.lost = @ \cup {c.w.id : c \in {d \in Range(s.chan) : d.op = "write"}}])

-----------------------------------------------------------------------------
(* cmdThread: the states after one turn of the select *)

\* rotateInt up to openNew
Rotating(s) ==
    {[FileClose(s) EXCEPT !.thread = "open"]}
      \cup IF Renames(s) THEN {DiskFails([s EXCEPT !.on = FALSE, !.open = FALSE])} ELSE {}

\* writeInt
WriteInt(s, w) ==
    LET t == IF s.open THEN s ELSE OpenNew(s)
    IN  IF w.len > FeMaxSize THEN {[s EXCEPT !.lost = @ \cup {w.id}]}
        ELSE IF t.size + w.len > FeMaxSize THEN Rotating([t EXCEPT !.hand = <<w>>])
        ELSE {Put(t, w)} \cup IF s.open THEN {} ELSE {DiskFails([s EXCEPT !.hand = <<w>>])}

TakeCmd(s) ==
    IF s.chan = <<>> THEN {}
    ELSE LET c == Head(s.chan)
             t == [s EXCEPT !.chan = Tail(@)]
         IN  IF c.op = "write" THEN WriteInt(t, c.w)
             ELSE Rotating(t)

\* a tick of the interval timer: one rotation after the exporter was disabled, then no more
TakeTick(s) ==
    IF ~s.fired THEN {}
    ELSE LET t == [s EXCEPT !.fired = FALSE]
         IN  IF s.last THEN {t}
             ELSE Rotating([t EXCEPT !.last = ~s.enabled /\ s.chan = <<>>])

\* the rest of rotateInt and, if a write asked for it, of writeInt
Reopen(s) ==
    LET t == [OpenNew(s) EXCEPT !.thread = "select"]
    IN  {DiskFails(s), IF s.hand = <<>> THEN t ELSE Put(t, s.hand[1])}

\* the steps of the goroutine
FeSteps(s) ==
    CASE s.thread = "select" -> TakeCmd(s) \cup TakeTick(s)
      [] s.thread = "open" -> Reopen(s)
      [] OTHER -> {}

\* maxInterval has passed
IntervalOver(s) == [s EXCEPT !.on = FALSE, !.fired = TRUE]

\* NewFileExporter; the directory may hold a file that an earlier process left
FeNew(left) ==
    [chan |-> <<>>, thread |-> "select", hand |-> <<>>, open |-> FALSE, size |-> 0, recs |-> 0,
     index |-> 0, on |-> FALSE, fired |-> FALSE, last |-> FALSE, enabled |-> TRUE,
     exists |-> left # <<>>, cur |-> left, rot |-> {}, events |-> <<>>, lost |-> {}]

-----------------------------------------------------------------------------
(***************************************************************************)
(* The HTTP exporter of IPFIX (emu/plugins/ipfix/ipfix_http_exporter.go):  *)
(* the writes go to a file exporter, and a second goroutine posts every    *)
(* file that it rotates, a number of times, and removes it.                *)
(*                                                                         *)
(* Three threads move: the main thread (writes, enables, closes), the      *)
(* goroutine of the file exporter and the one that posts.  The server      *)
(* answers in any way, or not before the request fails.  A 5xx answer is   *)
(* not tried again: repeatsNum is at least 1, so the state of the retry    *)
(* timer is never entered.                                                 *)
(***************************************************************************)
CONSTANTS
    Sizes,      \* lengths of the writes
    MaxWrites,  \* bound: writes of a behaviour
    MaxIndex,   \* bound: the interval is over only while index is below
    Repeats,    \* repeatsNum
    MaxPosts,   \* maxPosts, 0 for no limit
    StoreFiles  \* storeExportedFilesOnDisk

VARIABLES
    fex,   \* the file exporter
    http,  \* the goroutine that posts: pc "select", "send" or "wait", the file of the event (ev),
           \* currRepeat (rep), currPostsNum (posts), currFileToSend (file), whether there is a
           \* currCancelFunc (cancel), and how often each file went out (wire)
    ctl,   \* the main thread: "up", "fclose" (waits for the first goroutine), "hclose" (waits for
           \* the second), "closed" or "failed"
    wrote, \* the number of writes that were accepted
    seen   \* the records of the files whose event was taken from the queue

httpvars == <<fex, http, ctl, wrote, seen>>

NoFile == [idx |-> 0, data |-> <<>>, recs |-> 0]
OnDisk(idx) == \E f \in fex.rot : f.idx = idx
WithoutFile(idx) == [fex EXCEPT !.rot = {f \in @ : f.idx # idx}]

-----------------------------------------------------------------------------
(* the main thread *)

HxWrite ==
    /\ ctl = "up" /\ wrote < MaxWrites
    /\ \E n \in Sizes :
         LET t == FeWrite(fex, [id |-> wrote + 1, len |-> n])
         IN  t # fex /\ fex' = t /\ wrote' = wrote + 1
    /\ UNCHANGED <<http, ctl, seen>>

HxRotate ==
    /\ ctl = "up" /\ fex.index < MaxIndex
    /\ fex' = FeRotate(fex) /\ fex' # fex
    /\ UNCHANGED <<http, ctl, wrote, seen>>

HxEnable ==
    /\ ctl = "up"
    /\ fex' = [fex EXCEPT !.enabled = ~@]
    /\ UNCHANGED <<http, ctl, wrote, seen>>

\* Close: the observer is not removed from the list (the list is searched for the address of a
\* parameter), and the file exporter is closed first
HxClose ==
    /\ ctl = "up"
    /\ ctl' = "fclose"
    /\ UNCHANGED <<fex, http, wrote, seen>>

\* done was taken: the last file is rotated; then the directory is removed and a request that
\* waits for its answer is cancelled
HxFileClosed ==
    /\ ctl = "fclose" /\ fex.thread = "select"
    /\ \/ /\ fex' = IF StoreFiles THEN FeClosed(fex)
                    ELSE [FeClosed(fex) EXCEPT !.rot = {}, !.exists = FALSE, !.cur = <<>>]
          /\ ctl' = "hclose"
       \/ /\ Renames(fex)
          /\ fex' = [fex EXCEPT !.thread = "done", !.on = FALSE, !.open = FALSE]
          /\ ctl' = "failed"
    /\ UNCHANGED <<http, wrote, seen>>

HxClosed ==
    /\ ctl = "hclose" /\ http.pc = "select"
    /\ ctl' = "closed"
    /\ UNCHANGED <<fex, http, wrote, seen>>

-----------------------------------------------------------------------------
(* the goroutine of the file exporter, and its timer *)

HxFileStep ==
    /\ fex' \in FeSteps(fex)
    /\ UNCHANGED <<http, ctl, wrote, seen>>

HxInterval ==
    /\ fex.on /\ fex.index < MaxIndex
    /\ fex' = IntervalOver(fex)
    /\ UNCHANGED <<http, ctl, wrote, seen>>

-----------------------------------------------------------------------------
(* cmdThread of the HTTP exporter *)

\* an event; it is dropped once the exporter is being closed
HxTake ==
    /\ http.pc = "select" /\ fex.events # <<>> /\ ctl # "closed"
    /\ fex' = [fex EXCEPT !.events = Tail(@)]
    /\ http' = IF ctl = "up" THEN [http EXCEPT !.pc = "send", !.ev = Head(fex.events), !.rep = 0]
               ELSE http
    /\ seen' = IF ctl = "up" THEN seen \cup Ids(Head(fex.events).data) ELSE seen
    /\ UNCHANGED <<ctl, wrote>>

\* the end of sendFileRepeated removes currFileToSend
Finished(h) == [h EXCEPT !.pc = "select", !.ev = NoFile, !.cancel = FALSE]
AfterRemoval(idx) == IF StoreFiles THEN fex ELSE WithoutFile(idx)

\* sendFile, when maxPosts is reached: the exporter is disabled
HxMaxPosts ==
    /\ http.pc = "send" /\ MaxPosts > 0 /\ http.posts >= MaxPosts
    /\ http' = Finished(http)
    /\ fex' = [AfterRemoval(http.file) EXCEPT !.enabled = FALSE]
    /\ UNCHANGED <<ctl, wrote, seen>>

\* sendFile up to httpClient.Do; the request is not created when the file cannot be read
HxSend ==
    /\ http.pc = "send" /\ (MaxPosts > 0 => http.posts < MaxPosts)
    /\ LET h == [http EXCEPT !.posts = @ + 1, !.file = http.ev.idx]
       IN  IF OnDisk(http.ev.idx)
           THEN /\ http' = [h EXCEPT !.pc = "wait", !.cancel = TRUE, !.wire[http.ev.idx] = @ + 1]
                /\ UNCHANGED fex
           ELSE http' = Finished(h) /\ fex' = AfterRemoval(http.ev.idx)
    /\ UNCHANGED <<ctl, wrote, seen>>

\* Do fails: the server is away, too slow, or Close cancelled the request
HxNoAnswer ==
    /\ http.pc = "wait"
    /\ http' = Finished(http) /\ fex' = AfterRemoval(http.file)
    /\ UNCHANGED <<ctl, wrote, seen>>

\* any answer, success or not; the next repeat after repeatsWaitTime
HxAnswer ==
    /\ http.pc = "wait"
    /\ IF ~fex.enabled \/ http.rep + 1 = Repeats
       THEN http' = Finished(http) /\ fex' = AfterRemoval(http.file)
       ELSE http' = [http EXCEPT !.pc = "send", !.rep = @ + 1] /\ UNCHANGED fex
    /\ UNCHANGED <<ctl, wrote, seen>>

-----------------------------------------------------------------------------
HttpInit ==
    /\ \E left \in {<<>>, <<[id |-> 0, len |-> 1]>>} : fex = FeNew(left)
    /\ http = [pc |-> "select", ev |-> NoFile, rep |-> 0, posts |-> 0, file |-> 0,
               cancel |-> FALSE, wire |-> [i \in 0..MaxIndex + 2 * MaxWrites |-> 0]]
    /\ ctl = "up" /\ wrote = 0 /\ seen = {}

HttpNext ==
    \/ HxWrite \/ HxRotate \/ HxEnable \/ HxClose \/ HxFileClosed \/ HxClosed
    \/ HxFileStep \/ HxInterval
    \/ HxTake \/ HxMaxPosts \/ HxSend \/ HxNoAnswer \/ HxAnswer

-----------------------------------------------------------------------------
AllFiles == fex.rot \cup Range(fex.events) \cup (IF http.pc = "select" THEN {} ELSE {http.ev})

\* Every file that this process began is rotated with the number of its records, under a name
\* of its own, within max_size, and the records are in the order in which they were written.
FeFilesTrue ==
    /\ \A f \in AllFiles : f.idx > 0 =>
         /\ f.recs = Len(f.data)
         /\ FoldFunction(LAMBDA w, n : w.len + n, 0, f.data) <= FeMaxSize
         /\ \A i \in 2..Len(f.data) : f.data[i - 1].id < f.data[i].id
    /\ \A f, g \in AllFiles : f.idx = g.idx => f = g

\* No accepted record vanishes on the way through the channel, the file in progress and the
\* rotated files: until the exporter is closed it is in one of them, was posted, or was given
\* up for one of the reasons the counters name.
FeNothingLost ==
    ctl = "up" =>
        \A i \in 1..wrote :
            \/ \E c \in Range(fex.chan) : c.op = "write" /\ c.w.id = i
            \/ i \in Ids(fex.hand) \cup Ids(fex.cur) \cup fex.lost
            \/ \E f \in fex.rot : i \in Ids(f.data)
            \/ \E f \in Range(fex.events) : i \in Ids(f.data)
            \/ i \in seen

\* The age of a file is limited: while the goroutine waits with a file open, the interval timer
\* runs or its tick is there to be taken, until the exporter has been disabled.
FeIntervalArmed ==
    fex.thread = "select" /\ fex.open /\ ~fex.last => fex.on \/ fex.fired

\* A file whose event was taken is still there for each of its posts until Close removes the
\* directory; it goes out at most repeats_num times and the exporter posts at most max_posts.
HttpPostsWhole ==
    /\ http.pc = "send" /\ ctl \in {"up", "fclose"} => OnDisk(http.ev.idx)
    /\ \A i \in DOMAIN http.wire : http.wire[i] <= Repeats
    /\ MaxPosts > 0 => FoldFunction(LAMBDA n, m : n + m, 0, http.wire) <= MaxPosts

\* The temporary file is deleted once its transaction is completed, however it ended: no file
\* that went out is left when the goroutine waits for the next event.
HttpRemoved ==
    http.pc = "select" /\ ~StoreFiles => \A f \in fex.rot : http.wire[f.idx] = 0

\* Close comes to its end, unless a disk failure has ended the goroutine of the file exporter.
HttpCloseEnds == ctl = "fclose" ~> (ctl \in {"closed", "failed"} \/ fex.thread = "returned")

\* From Write to the HTTP server: a rotated file holds what its event says, no accepted record is
\* lost unless the limits of the configuration say so, every post is a whole file, and a file is
\* removed when its transaction is over.
FilesSound == FeFilesTrue /\ FeNothingLost /\ FeIntervalArmed /\ HttpPostsWhole /\ HttpRemoved
=============================================================================
