------------------------------- MODULE Downloads -------------------------------
(***************************************************************************)
(* DownloadsModel (Plazma/src/models/downloads_model.cpp): every "save     *)
(* this video to disk" job of the desktop client.  One list of rows, a cap *)
(* on concurrent transfers, automatic retry with a backoff timer, resume   *)
(* from a ".part" file, a download bar that follows one row, and two       *)
(* registries (completed, paused) that survive a restart.                  *)
(*                                                                         *)
(* The model runs on Qt's event loop, so one slot, signal handler or timer *)
(* callback is one step.  QNetworkReply::abort() emits finished() before   *)
(* it returns, so a handler that aborts is one step together with          *)
(* handleFinished().                                                       *)
(*                                                                         *)
(* The flags userPaused and userCanceled have no variable: outside a step  *)
(* they are TRUE exactly on Paused, respectively Canceled, rows (teardown  *)
(* disconnects the reply before it aborts it, so handleFinished() never    *)
(* runs with either set).                                                  *)
(***************************************************************************)
EXTENDS DownloadPaths, FiniteSets

CONSTANTS
    Videos,         \* content ids
    TitleOf,        \* the sanitized title of each video
    Mislabelled,    \* videos whose URL and feed MIME type give the wrong extension
    Size,           \* length of a video's body
    SizeHints,      \* sizes the feed gives for a video: the right one, or 0
    NoVideo,        \* the empty id
    MaxConcurrent,  \* kMaxConcurrent
    MaxRetries,     \* kMaxRetries
    MaxPersisted,   \* kMaxPersistedCompleted
    Faults,         \* what may go wrong outside the program (see FaultKinds)
    MaxTimers       \* bound: retry timers pending for one video at a time

(* The disk: no space for the download; opening, writing, wiping, renaming *)
(* the ".part" fails; the last write, or the buffered bytes, are lost      *)
(* unnoticed; the user deletes files.  The network: the connection drops,  *)
(* stays silent, fails for good; the server answers 4xx/5xx or 401.  The   *)
(* application quits or is killed.                                         *)
FaultKinds ==
    {"space", "open", "write", "truncate", "rename", "tail", "flush", "files", "parts",
     "dropped", "timeout", "fatal", "http", "auth", "quit"}

ASSUME SizeAssumption == Size \in Nat \ {0} /\ SizeHints \subseteq {0, Size}
ASSUME TitleAssumption == TitleOf \in [Videos -> Titles] /\ Mislabelled \subseteq Videos
ASSUME LimitsAssumption ==
    /\ MaxConcurrent \in Nat \ {0}
    /\ MaxRetries \in Nat
    /\ MaxPersisted \in Nat
    /\ MaxTimers \in Nat
    /\ Faults \subseteq FaultKinds
ASSUME NoVideoAssumption == NoVideo \notin Videos
(* Scope: no two handles are ever open on one ".part".  Two transfers can  *)
(* only share a name when they share a title, and only Downloading rows    *)
(* hold a handle.                                                          *)
ASSUME WriterAssumption ==
    \/ MaxConcurrent = 1
    \/ \A u, v \in Videos : u # v => TitleOf[u] # TitleOf[v]

VARIABLES
    entries,    \* entries_: the rows, in list order
    parts,      \* what is on disk under each name + ".part"
    files,      \* what is on disk under each name
    timers,     \* pending retry kicks of each video
    bar,        \* latestId_, latestVisible_, and whether hideTimer_ is running
    completed,  \* QSettings downloads/completed
    paused      \* QSettings downloads/paused

vars == <<entries, parts, files, timers, bar, completed, paused>>

Statuses == {"Queued", "Downloading", "Completed", "Failed", "Canceled", "Paused"}
InFlight == {"Queued", "Downloading"}
Active == InFlight \cup {"Paused"}
Terminal == {"Completed", "Failed", "Canceled"}
Reasons == {"None", "Network", "Timeout", "Http", "DiskSpace", "DiskWrite", "Auth"}

Cells == Videos \X (1 .. Size)
Body(v) == [k \in 1 .. Size |-> <<v, k>>]     \* the bytes of the video itself

(* One row.  reply: "none", "asked" (request sent) or "body" (response     *)
(* accepted, data flowing).  from is PartFile::resumeFrom(); next is the   *)
(* next cell of the response body.                                         *)
Entry ==
    [id : Videos, dest : Paths, total : 0 .. Size, status : Statuses,
     reason : Reasons, retries : 0 .. MaxRetries, file : {"none", "open"},
     reply : {"none", "asked", "body"}, from : Nat, next : 1 .. Size + 1]
Saved == [id : Videos, dest : Paths, total : 0 .. Size]

-------------------------------------------------------------------------------
(* The list.                                                               *)

(* find(id): the first row with that id.                                   *)
IsFirst(q, v, i) ==
    /\ i \in DOMAIN q
    /\ q[i].id = v
    /\ \A j \in 1 .. i - 1 : q[j].id # v

RowsIn(q, S) == {i \in DOMAIN q : q[i].status \in S}
Downloading(q) == RowsIn(q, {"Downloading"})
Queued(q) == RowsIn(q, {"Queued"})

(* The increasing enumeration of a set of row numbers, and the list with   *)
(* only those rows: erasing keeps the order of what is left.               *)
Enumerations(S) ==
    {f \in [1 .. Cardinality(S) -> S] :
        \A a, b \in 1 .. Cardinality(S) : a < b => f[a] < f[b]}
Keeping(q, S) == {[a \in 1 .. Cardinality(S) |-> q[f[a]]] : f \in Enumerations(S)}

(* A row without reply and file.                                           *)
Stopped(e, status, reason) ==
    [e EXCEPT !.status = status, !.reason = reason, !.file = "none",
              !.reply = "none", !.from = 0, !.next = 1]

(* teardownTransfer, and what handleFinished does with the row when the    *)
(* transfer failed: row i stops.                                           *)
Torn(q, i, status, reason) == [q EXCEPT ![i] = Stopped(@, status, reason)]
WithoutPart(ps, p) == [ps EXCEPT ![p] = NoFile]

-------------------------------------------------------------------------------
(* The download bar.                                                       *)

(* Mutant: the countdown goes on.                                          *)
FocusHiding(v) == [id |-> v, visible |-> TRUE, hiding |-> bar.hiding]

(* start() and resume(): the bar shows v, the countdown to hide it stops.  *)
Focus(v) == [id |-> v, visible |-> TRUE, hiding |-> FALSE]
(* A row the bar shows has ended: the countdown starts.                    *)
Ended(b, V) == IF b.id \in V THEN [b EXCEPT !.hiding = TRUE] ELSE b
(* Rows are erased: the bar lets go of them, the countdown is left alone.  *)
Dropped(b, V) ==
    IF b.id \in V THEN [b EXCEPT !.id = NoVideo, !.visible = FALSE] ELSE b

-------------------------------------------------------------------------------
(* The registries.                                                         *)

Record(e) == [id |-> e.id, dest |-> e.dest, total |-> e.total]
RecordsOf(q, status) == {Record(q[i]) : i \in RowsIn(q, {status})}

(* savePersisted(): the newest MaxPersisted completed rows.  Which rows    *)
(* finished last is not modelled: any choice of that many.                 *)
SavedCompleted(q) ==
    LET all == RecordsOf(q, "Completed")
    IN IF Cardinality(all) <= MaxPersisted THEN {all}
       ELSE {S \in SUBSET all : Cardinality(S) = MaxPersisted}

(* Mutant: only rows that have a ".part" are worth registering.            *)
SavedPausedWithPart(q) == {r \in RecordsOf(q, "Paused") : parts[r.dest] # NoFile}

(* savePaused().                                                           *)
SavedPaused(q) == RecordsOf(q, "Paused")

-------------------------------------------------------------------------------
(* Scheduling.                                                             *)

(* Mutant: one transfer too many.                                          *)
RoomForOneMore(running) == running <= MaxConcurrent

Room(running) == running < MaxConcurrent

(* processQueue() walks the rows in list order and stops at the first row  *)
(* it meets with every slot taken; each Queued row before that is kicked   *)
(* off.  out says how: "go" (reply attached), "space" (disk budget         *)
(* refused), "open" (the .part cannot be opened), "wait" (not reached).    *)
Outcomes(q) ==
    {out \in [Queued(q) -> {"go", "space", "open", "wait"}] :
        \A i \in Queued(q) :
            LET running == Cardinality(Downloading(q)) +
                           Cardinality({j \in Queued(q) : j < i /\ out[j] = "go"})
            IN /\ out[i] # "wait" <=> Room(running)
               /\ out[i] = "space" => q[i].total > 0 /\ "space" \in Faults
               /\ out[i] = "open" => "open" \in Faults}

(* kickOff() of one row, given its outcome.                                *)
KickedRow(e, how, ps) ==
    CASE how = "go" ->
            [e EXCEPT !.status = "Downloading", !.file = "open", !.reply = "asked",
                      !.from = Len(Opened(ps[e.dest], e.total)), !.next = 1]
      [] how = "space" -> Stopped(e, "Failed", "DiskSpace")
      [] how = "open" -> Stopped(e, "Failed", "DiskWrite")
      [] how = "wait" -> e

KickedRows(q, out, ps) ==
    [i \in DOMAIN q |-> IF i \in Queued(q) THEN KickedRow(q[i], out[i], ps) ELSE q[i]]

KickedParts(q, out, ps) ==
    LET tried(p, how) == {i \in Queued(q) : q[i].dest = p /\ out[i] = how}
    IN [p \in Paths |->
          IF tried(p, "go") # {}
            THEN Opened(ps[p], q[CHOOSE i \in tried(p, "go") : TRUE].total)
          ELSE IF tried(p, "open") # {}
            THEN OpenFailed(ps[p], q[CHOOSE i \in tried(p, "open") : TRUE].total)
          ELSE ps[p]]

(* A handler leaves rows q, parts ps and bar b and calls processQueue().   *)
ProcessQueue(q, ps, b) ==
    \E out \in Outcomes(q) :
        /\ entries' = KickedRows(q, out, ps)
        /\ parts' = KickedParts(q, out, ps)
        /\ bar' = Ended(b, {q[i].id : i \in {j \in Queued(q) : out[j] \in {"space", "open"}}})

-------------------------------------------------------------------------------
(* Slots the user interface calls.                                         *)

NewRow(v, x, hint) ==
    [id |-> v, dest |-> DestPath(files, parts, TitleOf[v], x), total |-> hint,
     status |-> "Queued", reason |-> "None", retries |-> MaxRetries,
     file |-> "none", reply |-> "none", from |-> 0, next |-> 1]

(* start() beyond its early returns: an ended row of the same id is        *)
(* dropped, a new row is appended.  Explored only while the title has a    *)
(* free name (the code gives up after MaxCollisionAttempts copies).        *)
Enqueue(v, x, hint) ==
    /\ FreeNumbers(files, parts, TitleOf[v], x) # {}
    /\ \E q \in Keeping(entries, {i \in DOMAIN entries : ~ IsFirst(entries, v, i)}) :
          ProcessQueue(Append(q, NewRow(v, x, hint)), parts, Focus(v))
    /\ UNCHANGED <<files, timers, completed, paused>>

(* start() on a row in flight only brings the bar back.                    *)
StartAgain(v) ==
    /\ \E i \in DOMAIN entries : IsFirst(entries, v, i) /\ entries[i].status \in InFlight
    /\ bar' = Focus(v)
    /\ UNCHANGED <<entries, parts, files, timers, completed, paused>>

(* start() with a feed payload.  On a Completed row every page calls       *)
(* openFile() instead; on a Paused row start() is resume().                *)
Start(v, hint) ==
    /\ \A i \in DOMAIN entries :
          IsFirst(entries, v, i) => entries[i].status \in {"Failed", "Canceled"}
    /\ Enqueue(v, IF v \in Mislabelled THEN "guess" ELSE "true", hint)

(* retry(): start() with what the row knows by now.                        *)
Retry(v) ==
    \E i \in DOMAIN entries :
        /\ IsFirst(entries, v, i)
        /\ entries[i].status \in {"Failed", "Canceled"}
        /\ Enqueue(v, entries[i].dest[2], entries[i].total)

Cancel(v) ==
    \E i \in DOMAIN entries :
        /\ IsFirst(entries, v, i)
        /\ entries[i].status \in Active
        /\ ProcessQueue(Torn(entries, i, "Canceled", "None"),
                        WithoutPart(parts, entries[i].dest), Ended(bar, {v}))
        /\ UNCHANGED <<files, timers, completed, paused>>

Pause(v) ==
    \E i \in DOMAIN entries :
        /\ IsFirst(entries, v, i)
        /\ entries[i].status \in InFlight
        /\ LET q == Torn(entries, i, "Paused", "None")
           IN paused' = SavedPaused(q) /\ ProcessQueue(q, parts, bar)
        /\ UNCHANGED <<files, timers, completed>>

(* resume(), also reached from start() on a Paused row.                    *)
Resume(v) ==
    \E i \in DOMAIN entries :
        /\ IsFirst(entries, v, i)
        /\ entries[i].status = "Paused"
        /\ LET q == Torn(entries, i, "Queued", "None")
           IN paused' = SavedPaused(q) /\ ProcessQueue(q, parts, Focus(v))
        /\ UNCHANGED <<files, timers, completed>>

(* All rows with a status in S get status s; the code does it row by row.  *)
AllTorn(q, S, s) ==
    [i \in DOMAIN q |-> IF q[i].status \in S THEN Stopped(q[i], s, "None") ELSE q[i]]

PauseAll ==
    /\ RowsIn(entries, InFlight) # {}
    /\ entries' = AllTorn(entries, InFlight, "Paused")
    /\ paused' = SavedPaused(entries')
    /\ UNCHANGED <<parts, files, timers, bar, completed>>

(* Scope of resumeAll(): explored only while find() reaches every row it   *)
(* would resume, see UniqueIds.                                            *)
ResumeAll ==
    /\ RowsIn(entries, {"Paused"}) # {}
    /\ \A i \in RowsIn(entries, {"Paused"}) : IsFirst(entries, entries[i].id, i)
    /\ LET q == AllTorn(entries, {"Paused"}, "Queued")
       IN paused' = SavedPaused(q) /\ ProcessQueue(q, parts, bar)
    /\ UNCHANGED <<files, timers, completed>>

(* remove(): on an active row it also cancels.                             *)
RemoveActive(v) ==
    \E i \in DOMAIN entries :
        /\ IsFirst(entries, v, i)
        /\ entries[i].status \in Active
        /\ \E q \in Keeping(Torn(entries, i, "Canceled", "None"), DOMAIN entries \ {i}) :
              ProcessQueue(q, WithoutPart(parts, entries[i].dest), Dropped(bar, {v}))
        /\ UNCHANGED <<files, timers, completed, paused>>

RemoveEnded(v) ==
    \E i \in DOMAIN entries :
        /\ IsFirst(entries, v, i)
        /\ entries[i].status \in Terminal
        /\ entries' \in Keeping(entries, DOMAIN entries \ {i})
        /\ bar' = Dropped(bar, {v})
        /\ IF entries[i].status = "Completed" THEN completed' \in SavedCompleted(entries')
                                              ELSE UNCHANGED completed
        /\ UNCHANGED <<parts, files, timers, paused>>

ClearCompleted ==
    /\ RowsIn(entries, Terminal) # {}
    /\ entries' \in Keeping(entries, RowsIn(entries, Active))
    /\ bar' = Dropped(bar, {entries[i].id : i \in RowsIn(entries, Terminal)})
    /\ IF RowsIn(entries, {"Completed"}) # {} THEN completed' \in SavedCompleted(entries')
                                              ELSE UNCHANGED completed
    /\ UNCHANGED <<parts, files, timers, paused>>

(* purgeStaleCompleted(), called from the user interface or by openFile()  *)
(* on a row whose file has disappeared.                                    *)
Stale(q) == {i \in RowsIn(q, {"Completed"}) : files[q[i].dest] = NoFile}

PurgeStaleCompleted ==
    /\ Stale(entries) # {}
    /\ entries' \in Keeping(entries, DOMAIN entries \ Stale(entries))
    /\ completed' \in SavedCompleted(entries')
    /\ UNCHANGED <<parts, files, timers, bar, paused>>

DismissLatest ==
    /\ bar.visible
    /\ bar' = [bar EXCEPT !.visible = FALSE, !.hiding = FALSE]
    /\ UNCHANGED <<entries, parts, files, timers, completed, paused>>

-------------------------------------------------------------------------------
(* Timers.                                                                 *)

HideTimeout ==
    /\ bar.hiding
    /\ bar' = [bar EXCEPT !.visible = FALSE, !.hiding = FALSE]
    /\ UNCHANGED <<entries, parts, files, timers, completed, paused>>

(* Mutant: a row on its last retry is not kicked.                          *)
WakesIfRetriesLeft(v) ==
    \E i \in DOMAIN entries : IsFirst(entries, v, i) /\ entries[i].status = "Queued"
                                /\ entries[i].retries > 0

(* The single-shot timer of scheduleRetryKick().                           *)
Wakes(v) ==
    \E i \in DOMAIN entries : IsFirst(entries, v, i) /\ entries[i].status = "Queued"

RetryKick(v) ==
    /\ timers[v] > 0
    /\ timers' = [timers EXCEPT ![v] = @ - 1]
    /\ IF Wakes(v)
         THEN ProcessQueue(entries, parts, bar)
         ELSE UNCHANGED <<entries, parts, bar>>
    /\ UNCHANGED <<files, completed, paused>>

-------------------------------------------------------------------------------
(* handleFinished(), by outcome.                                           *)

(* The signal handlers look their row up by id.                            *)
Transferring(i, phases) ==
    /\ i \in DOMAIN entries
    /\ IsFirst(entries, entries[i].id, i)
    /\ entries[i].status = "Downloading"
    /\ entries[i].reply \in phases

(* The transfer ended in status s: drop the ".part", arm the countdown,    *)
(* give the slot away.  fs is what is on disk under the final names.       *)
Dropping(e) == IF e.file = "none" THEN parts ELSE WithoutPart(parts, e.dest)

Fail(i, reason) ==
    /\ ProcessQueue(Torn(entries, i, "Failed", reason),
                    Dropping(entries[i]), Ended(bar, {entries[i].id}))
    /\ UNCHANGED <<files, timers, completed, paused>>

(* Mutant: the timer is never armed.                                       *)
NoRetryKick(v) == UNCHANGED timers

ScheduleRetryKick(v) == timers' = [timers EXCEPT ![v] = @ + 1]

(* A transient error with retries left: keep the ".part", go back to the   *)
(* queue and arm a backoff timer.  The slot is free and processQueue() is  *)
(* not called.                                                             *)
BackOff(i, ps) ==
    /\ timers[entries[i].id] < MaxTimers
    /\ entries' = [entries EXCEPT ![i] =
                     [Stopped(entries[i], "Queued", "None") EXCEPT !.retries = @ - 1]]
    /\ parts' = ps
    /\ ScheduleRetryKick(entries[i].id)
    /\ UNCHANGED <<files, bar, completed, paused>>

(* isTransientNetworkError() on the reply's error.  An abort by a handler  *)
(* reads as OperationCanceledError, which is one of the transient ones.    *)
NetErrors == {"canceled", "dropped", "timeout", "fatal"}
Transient(nerr) == nerr \in {"canceled", "dropped", "timeout"}

(* Mutant: retries are not counted.                                        *)
RetriesForever(e, nerr) == Transient(nerr)

MayRetry(e, nerr) == Transient(nerr) /\ e.retries > 0

NetFailure(i, nerr, ps) ==
    IF MayRetry(entries[i], nerr)
      THEN BackOff(i, ps)
      ELSE Fail(i, IF nerr = "timeout" THEN "Timeout" ELSE "Network")

(* The rename of PartFile::finalize() fails: whatever was under the final  *)
(* name has been removed before, the ".part" is removed after.             *)
FinalizeFailed(i) ==
    LET e == entries[i] IN
    /\ files' = [files EXCEPT ![e.dest] = IF e.file = "none" THEN @ ELSE NoFile]
    /\ ProcessQueue(Torn(entries, i, "Failed", "DiskWrite"), Dropping(e),
                    Ended(bar, {e.id}))
    /\ UNCHANGED <<timers, completed, paused>>

(* The rename works: c is what the file holds, received what was counted.  *)
Complete(i, c, received) ==
    LET e == entries[i]
        done == [Stopped(e, "Completed", "None") EXCEPT
                   !.total = IF @ = 0 THEN received ELSE @]
        q == [entries EXCEPT ![i] = done]
    IN /\ files' = [files EXCEPT ![e.dest] = c]
       /\ completed' \in SavedCompleted(q)
       /\ ProcessQueue(q, WithoutPart(parts, e.dest), Ended(bar, {e.id}))
       /\ UNCHANGED <<timers, paused>>

-------------------------------------------------------------------------------
(* Signals of the network reply.                                           *)

(* reconcileDestFromContentType(): the response says what the file really  *)
(* is before any byte landed; the row moves to a name with that extension, *)
(* and keeps no file at all if the ".part" cannot be opened there.         *)
(* Explored, like Enqueue, only while the title has a free name.           *)
Relocates(e, typed) ==
    typed /\ e.file # "none" /\ e.id \in Mislabelled /\ e.dest[2] = "guess"

Relocated(i, e, ps) ==
    /\ FreeNumbers(files, ps, TitleOf[e.id], "true") # {}
    /\ LET fresh == DestPath(files, ps, TitleOf[e.id], "true")
       IN \E file \in {"open"} \cup (IF "open" \in Faults THEN {"none"} ELSE {}) :
             /\ entries' = [entries EXCEPT ![i] =
                              [e EXCEPT !.dest = fresh, !.file = file, !.from = 0]]
             /\ parts' = [WithoutPart(ps, e.dest) EXCEPT ![fresh] =
                              IF file = "open" THEN <<>> ELSE NoFile]

(* metaDataChanged, 206: the body continues where the ".part" ends.  known *)
(* says whether Content-Range tells the full size.                         *)
PartialContent(i, known) ==
    /\ Transferring(i, {"asked"})
    /\ entries[i].from \in 1 .. Size - 1
    /\ entries' = [entries EXCEPT ![i].reply = "body", ![i].next = entries[i].from + 1,
                                  ![i].total = IF known THEN Size ELSE @]
    /\ UNCHANGED <<parts, files, timers, bar, completed, paused>>

(* Mutant: the whole body is appended to the leftover.                     *)
NotWiped(e) == parts

(* A resumed ".part" is wiped: truncate().                                 *)
Wiped(e) ==
    IF e.from > 0 /\ e.file = "open" THEN [parts EXCEPT ![e.dest] = Truncated(@)] ELSE parts

(* metaDataChanged, 200: the whole body follows, resumeFrom is 0 again.    *)
WholeBody(i, typed) ==
    /\ Transferring(i, {"asked"})
    /\ LET e == [entries[i] EXCEPT !.reply = "body", !.from = 0, !.next = 1]
           ps == Wiped(entries[i])
       IN IF Relocates(e, typed)
            THEN Relocated(i, e, ps)
            ELSE entries' = [entries EXCEPT ![i] = e] /\ parts' = ps
    /\ UNCHANGED <<files, timers, bar, completed, paused>>

(* ... and when the ".part" cannot be wiped, the handler aborts.           *)
TruncateFails(i) ==
    /\ "truncate" \in Faults
    /\ Transferring(i, {"asked"})
    /\ entries[i].from > 0
    /\ NetFailure(i, "canceled", parts)

(* metaDataChanged, 416: the server has nothing past the resume point.     *)
(* The handler aborts; the reply still says 416.                           *)
RangeRefused(i) ==
    /\ Transferring(i, {"asked"})
    /\ entries[i].from >= Size
    /\ Fail(i, "Http")

(* metaDataChanged, any other 4xx/5xx: aborted, reported as "HTTP <code>". *)
HttpError(i, kind) ==
    /\ kind \in Faults
    /\ Transferring(i, {"asked"})
    /\ Fail(i, IF kind = "auth" THEN "Auth" ELSE "Http")

(* readyRead: one cell of the body is drained into the ".part".            *)
Chunk(i) ==
    /\ Transferring(i, {"body"})
    /\ entries[i].file # "none"
    /\ entries[i].next <= Size
    /\ entries' = [entries EXCEPT ![i].next = @ + 1]
    /\ parts' = [parts EXCEPT ![entries[i].dest] =
                   Written(@, <<<<entries[i].id, entries[i].next>>>>)]
    /\ UNCHANGED <<files, timers, bar, completed, paused>>

(* readyRead: the write fails or is short, the handler aborts the reply.   *)
ChunkFails(i) ==
    /\ "write" \in Faults
    /\ Transferring(i, {"body"})
    /\ entries[i].file # "none"
    /\ entries[i].next <= Size
    /\ LET e == entries[i] IN
       \E c \in WriteFailed(parts[e.dest], <<<<e.id, e.next>>>>) :
          NetFailure(i, "canceled", [parts EXCEPT ![e.dest] = c])

(* downloadProgress: the response's length becomes the row's total, unless *)
(* the response is a continuation.                                         *)
LearnTotal(i) ==
    /\ Transferring(i, {"body"})
    /\ entries[i].file = "none" \/ entries[i].from = 0
    /\ entries[i].total # Size
    /\ entries' = [entries EXCEPT ![i].total = Size]
    /\ UNCHANGED <<parts, files, timers, bar, completed, paused>>

(* finished with an error before the body is complete.  A silent server    *)
(* is a "timeout" after 30 s (Api::startDownload).                         *)
Broken(i, nerr) ==
    /\ nerr \in Faults
    /\ Transferring(i, {"asked", "body"})
    /\ NetFailure(i, nerr, parts)

(* finished without an error: the rest of the body is in the reply's       *)
(* buffer.  Writing that tail is not checked, nor is the flush in          *)
(* finalize(): either can leave less on disk than was received.            *)
(* Mutant: what readyRead did not drain is forgotten.                      *)
TailForgotten(e) == <<>>

Buffered(e) == SubSeq(Body(e.id), e.next, Size)

OnDisk(e, written) ==
    UNION {IF "flush" \in Faults THEN LostTail(c) ELSE {c} :
             c \in IF written THEN {Written(parts[e.dest], Buffered(e))}
                              ELSE WriteFailed(parts[e.dest], Buffered(e))}

Finished(i) ==
    /\ Transferring(i, {"body"})
    /\ LET e == entries[i] IN
       \/ /\ e.file = "open" /\ parts[e.dest] # NoFile
          /\ \E written \in IF "tail" \in Faults THEN BOOLEAN ELSE {TRUE} :
             \E c \in OnDisk(e, written) :
                Complete(i, c, IF written THEN Size ELSE e.next - 1)
       \/ /\ e.file = "none" \/ parts[e.dest] = NoFile \/ "rename" \in Faults
          /\ FinalizeFailed(i)

-------------------------------------------------------------------------------
(* Outside the program.                                                    *)

(* The user deletes a file, or a ".part", in the file manager.             *)
FileDeleted(p) ==
    /\ "files" \in Faults
    /\ files[p] # NoFile
    /\ files' = [files EXCEPT ![p] = NoFile]
    /\ UNCHANGED <<entries, parts, timers, bar, completed, paused>>

PartDeleted(p) ==
    /\ "parts" \in Faults
    /\ parts[p] # NoFile
    /\ parts' = WithoutPart(parts, p)
    /\ UNCHANGED <<entries, files, timers, bar, completed, paused>>

(* Orders in which a set of rows can appear in the list.                   *)
Arrangements(S) ==
    {f \in [1 .. Cardinality(S) -> S] : \A a, b \in DOMAIN f : f[a] = f[b] => a = b}

Restored(r, status) ==
    [id |-> r.id, dest |-> r.dest, total |-> r.total, status |-> status,
     reason |-> "None", retries |-> IF status = "Paused" THEN MaxRetries ELSE 0,
     file |-> "none", reply |-> "none", from |-> 0, next |-> 1]

(* The application quits or is killed, and starts again: what was not      *)
(* flushed yet may be lost, the destructor saves nothing, loadPersisted()  *)
(* rebuilds the list, purgeStaleCompleted() drops and unregisters rows     *)
(* whose file is missing.  The order within each registry is not modelled: *)
(* any order.                                                              *)
Restart ==
    /\ "quit" \in Faults
    /\ LET writers == {i \in DOMAIN entries :
                         entries[i].file = "open" /\ parts[entries[i].dest] # NoFile}
           kept == {r \in completed : files[r.dest] # NoFile}
       IN /\ \E left \in [writers -> 0 .. Size] :
               /\ \A i \in writers : left[i] <= Len(parts[entries[i].dest])
               /\ parts' = [p \in Paths |->
                    IF \E i \in writers : entries[i].dest = p
                      THEN SubSeq(parts[p], 1,
                                  left[CHOOSE i \in writers : entries[i].dest = p])
                      ELSE parts[p]]
          /\ \E a \in Arrangements({Restored(r, "Completed") : r \in kept}),
                b \in Arrangements({Restored(r, "Paused") :
                                      r \in {x \in paused : parts[x.dest] # NoFile}}) :
               entries' = a \o b
          /\ completed' = kept
          /\ bar' = [id |-> NoVideo, visible |-> FALSE, hiding |-> FALSE]
          /\ timers' = [v \in Videos |-> 0]
          /\ UNCHANGED <<files, paused>>

-------------------------------------------------------------------------------
Init ==
    /\ entries = <<>>
    /\ parts = [p \in Paths |-> NoFile]
    /\ files = [p \in Paths |-> NoFile]
    /\ timers = [v \in Videos |-> 0]
    /\ bar = [id |-> NoVideo, visible |-> FALSE, hiding |-> FALSE]
    /\ completed = {}
    /\ paused = {}

UserStep ==
    \/ \E v \in Videos :
          \/ \E hint \in SizeHints : Start(v, hint)
          \/ StartAgain(v) \/ Retry(v) \/ Cancel(v) \/ Pause(v) \/ Resume(v)
          \/ RemoveActive(v) \/ RemoveEnded(v)
    \/ PauseAll \/ ResumeAll \/ ClearCompleted \/ PurgeStaleCompleted \/ DismissLatest

NetStep(i) ==
    \/ \E known \in BOOLEAN : PartialContent(i, known)
    \/ \E typed \in BOOLEAN : WholeBody(i, typed)
    \/ TruncateFails(i) \/ RangeRefused(i)
    \/ \E kind \in {"http", "auth"} : HttpError(i, kind)
    \/ Chunk(i) \/ ChunkFails(i) \/ LearnTotal(i)
    \/ \E nerr \in {"dropped", "timeout", "fatal"} : Broken(i, nerr)
    \/ Finished(i)

WorldStep == (\E p \in Paths : FileDeleted(p) \/ PartDeleted(p)) \/ Restart

Next ==
    \/ UserStep
    \/ \E i \in DOMAIN entries : NetStep(i)
    \/ \E v \in Videos : RetryKick(v)
    \/ HideTimeout
    \/ WorldStep

Spec == Init /\ [][Next]_vars

(* Nothing is asked of the user or of the world.  A retry timer fires.  A  *)
(* transfer does not stand still: Api::startDownload sets a 30 s transfer  *)
(* timeout, so a reply either delivers or finishes.                        *)
NetStepOf(v) == \E i \in DOMAIN entries : entries[i].id = v /\ NetStep(i)
Fairness == \A v \in Videos : WF_vars(RetryKick(v)) /\ WF_vars(NetStepOf(v))
FairSpec == Spec /\ Fairness

-------------------------------------------------------------------------------
(* Properties.                                                             *)

(* Every variable holds a value of its type.                               *)
TypeOK ==
    /\ entries \in Seq(Entry)
    /\ parts \in [Paths -> Seq(Cells) \cup {NoFile}]
    /\ files \in [Paths -> Seq(Cells) \cup {NoFile}]
    /\ timers \in [Videos -> 0 .. MaxTimers]
    /\ bar \in [id : Videos \cup {NoVideo}, visible : BOOLEAN, hiding : BOOLEAN]
    /\ completed \in SUBSET Saved
    /\ paused \in SUBSET Saved

(* At most kMaxConcurrent transfers run at once, whichever of the nine     *)
(* callers of processQueue() filled the slots (downloads_model.cpp:663).   *)
SlotCap == Cardinality(Downloading(entries)) <= MaxConcurrent

(* A row never waits with a slot free and nobody coming: when a slot is    *)
(* free and rows are Queued, a backoff timer is pending whose kick will    *)
(* call processQueue() (handleFinished returns early at line 1049 without  *)
(* calling it, so only that timer keeps the queue alive).                  *)
NoStall ==
    Cardinality(Downloading(entries)) < MaxConcurrent /\ Queued(entries) # {} =>
        \E v \in Videos, i \in DOMAIN entries :
            timers[v] > 0 /\ IsFirst(entries, v, i) /\ entries[i].status = "Queued"

(* "One authoritative list keyed by content id" (downloads_model.h:37):    *)
(* no video has two rows, across restarts with registries saved at         *)
(* different times.                                                        *)
UniqueIds ==
    \A i, j \in DOMAIN entries : entries[i].id = entries[j].id => i = j

(* A resumed ".part" is a prefix of its own video, and the bytes the       *)
(* response delivers next are exactly the ones that come after it: no      *)
(* retry, pause, truncation or restart skips or repeats a byte.            *)
ResumeInStep ==
    \A i \in RowsIn(entries, Active) :
        LET e == entries[i]
            c == parts[e.dest] IN
        c # NoFile =>
          /\ \E k \in 0 .. Size : c = SubSeq(Body(e.id), 1, k)
          /\ e.file = "open" /\ e.reply = "asked" => Len(c) = e.from
          /\ e.file = "open" /\ e.reply = "body" => Len(c) = e.next - 1

(* A row that says Completed, and the registry entry it leaves, stand for  *)
(* a file that holds the whole video, if the user has not deleted it.      *)
CompletedIsWhole ==
    /\ \A i \in RowsIn(entries, {"Completed"}) :
          files[entries[i].dest] \in {NoFile, Body(entries[i].id)}
    /\ \A r \in completed : files[r.dest] \in {NoFile, Body(r.id)}

(* Only the user deletes a file that is saved under a video's name: no     *)
(* transfer removes, overwrites or shortens it, although finalize()        *)
(* removes whatever is under the name before it renames                    *)
(* (part_file.cpp:115) and names are chosen long before they are used.     *)
NothingOverwritten ==
    [][\A p \in Paths : files[p] # NoFile /\ files'[p] # files[p] => FileDeleted(p)]_vars

(* "HTTP 416: assuming .part is already complete", "routes through         *)
(* handleFinished as success" (downloads_model.cpp:898-901): when the      *)
(* server has nothing past the resume point, the download is a success.    *)
RangeRefusedIsSuccess ==
    [][\A i \in DOMAIN entries : RangeRefused(i) => entries'[i].status = "Completed"]_vars

(* What a restart would find agrees with the list: every Completed row is  *)
(* registered (as long as the registry has room), every registered record  *)
(* is a Completed row, and every Paused row is registered as it is now.    *)
(* The other direction fails for paused rows: cancel() and remove() leave  *)
(* their record behind.                                                    *)
RegistriesAgree ==
    /\ completed \subseteq RecordsOf(entries, "Completed")
    /\ Cardinality(completed) < MaxPersisted =>
          RecordsOf(entries, "Completed") \subseteq completed
    /\ RecordsOf(entries, "Paused") \subseteq paused

(* A queued download gets its turn: whatever the user does to other rows   *)
(* and however often transfers ahead of it back off, its row leaves Queued *)
(* (under FairSpec).  Only retry timers and the ends of transfers bring    *)
(* processQueue() back (downloads_model.cpp:663).                          *)
WaitingFor(v) == \E i \in Queued(entries) : entries[i].id = v
EveryoneServed == \A v \in Videos : WaitingFor(v) ~> ~ WaitingFor(v)

(* The countdown that hides the bar never runs against a row that is       *)
(* still going: a retry, a resume or a new start always stopped it.        *)
HidesOnlyEnded ==
    bar.hiding /\ bar.visible =>
        \A i \in DOMAIN entries : entries[i].id = bar.id => entries[i].status \in Terminal
===============================================================================
