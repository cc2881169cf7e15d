# Plazma in TLA+

Plazma is a video client (Qt 6, `src/Plazma`) and its server (userver, ScyllaDB,
S3, `src/PlazmaServer`). These modules model the parts of it that carry state
several actors share, check them with TLC on small instances, and prove the
central invariants with TLAPS for instances of every size.

    tlc -workers 2 -config downloads_queue.cfg MCDownloadBar
    tlc -workers 2 -config downloads_disk.cfg MCDownloads
    tlc -workers 2 -config task_queue.cfg TaskQueue
    tlc -workers 2 -config playlists.cfg MCPlaylistParts
    tlc -workers 2 -config server.cfg MCServer
    tlc -workers 2 -config client.cfg MCClient
    tlapm DownloadsProofs.tla        # and DownloadBar-, TaskQueue-, PlaylistStore-,
                                     # VideoStore-, VideoFeed-, Client-, ServerProofs

## Inventory

| Component | State | Operations | Talks to | What makes it hard |
|---|---|---|---|---|
| Downloads: `DownloadsModel`, `PartFile`, `download_paths` | list of rows, one `.part` and one reply per running row, retry timers, the bar, two QSettings registries | start, retry, cancel, pause, resume, pauseAll, resumeAll, remove, clearCompleted, purgeStaleCompleted, dismissLatest; reply signals; timers; load at start | QML pages and bar, `Api::startDownload`, the disk | slots, backoff, resuming at the right byte, names chosen early, faults of disk and network, restart |
| `SignalThrottle` and the download bar | pending flag, timer; what the bar has read | request, flush, cancel, timeout | `DownloadsModel`, QML | an emission folded into another may be lost when rows end within the interval |
| `TaskQueue` | two queues, the id in process, two threads, posted signals | addTask(s), cancelTask, onTaskProcessed, stop, the worker's loop | `FileDialog` (adds), `Api::uploadFile` (called from finish) | two threads, two mutexes, signals that can be swallowed |
| `FileDialog` and upload | a task and a future per file | pick, check, read, extract a frame, send; the server takes the request apart | disk, ffmpeg, `TaskQueue`, `Api`, server | the file is looked at four times and may change in between; the GUI thread waits for a thread that waits for a program |
| Playlist handlers (server) | Scylla tables playlist_by_id, playlists_by_user, playlist_name_by_user, playlist_items, playlists_by_video | create, rename, delete, add item, remove item, reads page by page | the client's `Api`, Scylla | no transactions: each statement is a step, an UPDATE of a missing row creates it, conditional inserts on two tables only |
| `PlaylistsModel` (client) | the list, the open playlist, refresh flags | the same operations, optimistic, with rollback; refresh and reconciliation | `Api`, QML | answers in any order, rollbacks against a list that has been replaced |
| Video handlers (server) | tables videos, video_by_id, videos_by_day, the S3 bucket | create, derive media in the background, delete, list, search, get | Scylla, S3, ffmpeg, Elasticsearch | background updates after a delete, failure between tables, rows without a visibility |
| Search breaker (server) | a count of failures, the time of opening | load, half-open, success, failure | Elasticsearch, concurrent searches | two relaxed atomics, no lock |
| `VideoFeedModel` | items, request number, loading flag, last query, two timers | search as you type, Enter, refresh, refresh after an upload | `Api`, QML, upload | stale answers, debouncing, refreshes that are dropped |
| `TelegramClient`, `Session`, login | handler table, pages that wait, session | polling thread, queries, login at the server | TDLib, `Api` | two threads, order of registration and answer, errors on the way to a session |
| `MpvObject`, `MpvRenderer` | what mpv said last; handle, context, callback guard | load, stop, play, pause; events; construction and end | mpv's threads, scene graph | commands and events cross; three threads take the player apart |
| Who a request comes from (`auth.hpp`, `jwt.cpp`) | none | header to user | all handlers | expiry, forged and malformed tokens |
| `ProfileModel` | the user's own videos | delete, rename, optimistic | `Api` | cannot be reached today, see "Not modelled" |
| Settings, slugs, QML pages, navigation | none shared | conversions, painting | | not modelled |

### What makes each of them correct

* Downloads: never more than `kMaxConcurrent` transfers; a queued row is never
  forgotten; a `.part` is always a prefix of its video and the next byte
  written is the next byte of the video; a row or record that says Completed
  stands for a whole file; no file the user has is destroyed; a restart finds
  what the list said; the bar does not hide a running download.
* TaskQueue: one FIFO from the owner's point of view, cancel included; nothing
  processed is forgotten; when nobody is going to look at a queued task, it is
  for one of a few known reasons.
* Playlists: no two playlists of a user share a name; a deleted playlist stays
  deleted; membership, items and counters agree once requests are over; a
  retried request gives the answer of the first.
* Client mirrors: once every answer is in and a refresh has run, the list is
  the server's; no answer to an old request changes what a newer one did.
* Videos: what is shown can be played; the pages and lists of videos keep what
  is private to its owner (playlists do not, see finding 6); a settled video is the same in all tables; a deleted one does not come back.
* Lists read page by page: every row that was there all the time is shown once.
* The breaker: Elasticsearch is left alone while it is down, and asked only so
  often to find out.
* Uploads: what the server stores is what the user picked, and a file left
  alone that is within the server's limit gets there although ffmpeg hangs; a
  larger one is reported as failed.
* Login: once Telegram accepts the user there is a session or a message.
* The player: the spinner goes away; no callback reaches an object that has
  gone.

The hazards of the code, at their lines, are in `PROJECT.json`.

## Modules

| Module | Models | Abstracts |
|---|---|---|
| `PartFile` | `storage/part_file.cpp` | bytes are cells; a handle whose name was removed writes to nothing |
| `DownloadPaths` | `storage/download_paths.cpp` | a name is title, extension, collision number |
| `Downloads` | `models/downloads_model.cpp`, EXTENDS the two above | progress, speed, wording, notifications; order by finishing time |
| `DownloadBar` | `utils/signal_throttle.h`, every emission of `latestChanged()`, `ui/Controls/DownloadBar.qml`; EXTENDS `Downloads` | the instant within a handler at which it emits, unless it emits twice |
| `JobQueue` | abstract: what `TaskQueue` promises its owner | the second thread |
| `TaskQueue` | `storage/task_queue.cpp` | file contents, the upload |
| `Upload` | `platform/file_dialog.cpp`, `storage/prepare.cpp`, `FileLoadTask`, `Api::uploadFile`, the parsing half of `video_create.cpp` | content is an edition number, a name is letters or starts with a quote; the queues (see `TaskQueue`) |
| `Replies` | `RequestBuilder::send()`, `validators/json_guards` | a body is the JSON type of each field |
| `VideoFeed` | `models/video_feed_model.cpp`, the upload signal of `coreController.cpp` | what a list contains |
| `PlaylistsMirror` | `models/playlists_model.cpp`, `Api`'s playlist calls; the server as one step per call | item snapshots, counters, times |
| `Login` | `client.cpp`, `session.cpp`, the phone and code models, the login call, `auth_login.cpp` | TDLib is its authorization state and a queue (external) |
| `Player`, `PlayerTeardown` | `ui/mpv_object.cpp` | mpv is a file, data, pause, a command and an event queue (external); volume, seeking, tracks |
| `PlaylistStore` | `handlers/playlists/{create,rename,delete,item_add,item_remove,list,by_video,playlists_common}.cpp` | item snapshots, times shown, answers |
| `Pages` | `items_list.cpp`, `detail.cpp`, cursors of `utils/playlist.cpp`, search of `video_list.cpp` and its sorts | rows are rank, time and id |
| `VideoStore` | `handlers/videos/*.cpp`, `utils/thumbnail.cpp` | metadata other than visibility and the URLs |
| `Access` | `utils/auth.hpp`, `utils/jwt.cpp` | a signature is right or wrong |
| `SearchBreaker` | the breaker of `search/es_component.cpp` | queries |
| `MCDownloads`, `MCDownloadBar`, `MCPlaylistStore`, `MCPlaylistParts`, `MCServer`, `MCClient` | instances for the configurations | |
| `DownloadsProofs`, `DownloadBarProofs`, `TaskQueueProofs`, `PlaylistStoreProofs`, `VideoStoreProofs`, `VideoFeedProofs`, `ClientProofs`, `ServerProofs` | theorems | |

### Downloads

Everything in `DownloadsModel` runs on Qt's event loop, so a slot, a reply
signal or a timer callback is one action. `abort()` emits `finished` before it
returns: a handler that aborts contains `handleFinished()` in the same action
(`TruncateFails`, `RangeRefused`, `HttpError`, `ChunkFails`). Most handlers end
in `processQueue()` (nine call sites); it is the operator
`ProcessQueue(q, ps, b)`, which walks the rows in order and chooses for every
row it reaches how `kickOff()` ends: reply attached, disk budget refused, or
`.part` not opened.

`entries` is `entries_`; `parts` and `files` are the disk under `<name>.part`
and `<name>`; `timers[v]` counts pending `QTimer::singleShot` kicks; `bar` is
`latestId_`, `latestVisible_` and whether `hideTimer_` runs; `completed` and
`paused` are the QSettings groups. `userPaused` and `userCanceled` need no
variable (see the module's head). `Restart` is quit or crash followed by
`loadPersisted()` and `purgeStaleCompleted()`; unflushed bytes may be lost.

Faults are a constant set, so that each configuration says which it explores.

Scope. `kMaxCollisionAttempts` used up is not explored (the candidate the loop
ends with is then not looked at). `resumeAll()` is explored only while every
paused row is the first of its id. No two handles are open on one `.part`
(`WriterAssumption`: one slot, or titles all different). The lambda on
`Session::sessionChanged` is dead: no caller passes a session. So is the branch
of `kickOff()` for a null reply. `Canceled` rows after a restart do not exist:
neither registry holds them. An idle server is Qt's transfer timeout, which
some Qt versions report as a cancelled operation; both are transient errors.

### DownloadBar

The bar is QML bound to the `latest*` getters: it reads them when
`latestChanged()` is emitted and at no other time. Every step of `Downloads` is
taken together with what its handler emits: at once (`Flush`, the controller
cancels the throttle and emits), through the throttle (`Request`), or not at
all. `shown` is what was read last. `ShowsLatest` is about what lies between:
whatever is not shown yet has a trailing emission coming, except for one case
that the code has: `purgeStaleCompleted()` removes the row the bar refers to
and tells nobody; the bar is then hidden or about to be.

### TaskQueue

`main.at` and `worker.at` say where each thread is; an action is a critical
section, the posting of a queued signal or its delivery. `added` and
`processed` count posted signals. `EventsDelivered` is
`QCoreApplication::processEvents()`: every posted `taskAdded` runs into the
`_inTaskAdded` guard and is lost. Task ids are addresses and are reused as soon
as a task is destroyed. `JobQueue` has no worker: tasks are pending until they
are finished in order or cancelled. `IsJobQueue` maps the two queues and the
worker's hand to that one sequence.

The model confirms a weakness that no comment in the repository denies, so it
is stated as what the code does instead of being listed as a finding
(`LeftBehindOnlyBy`): a task added while the worker is between the hand-over of
its last task and `processEvents()`, or queued behind a task that is cancelled
while it is read, waits until somebody adds another one.

### PlaylistStore

The server's handlers are coroutines without locks over five Scylla tables that
share no transaction, so one step is one statement. `db` holds the tables;
`req` says for every request which statement comes next and what the handler
keeps in its locals: above all the metadata row it loaded at its start
(`meta`), which it trusts until its end. `Writes(r, d, q, c)` is a statement
that makes the tables `d`: it succeeds and the request goes on as `q`, or it
throws and the request goes on as `c`, and then the statement may have been
executed all the same. `c` is `Failed` where the handler's outer catch answers
500 and the next statement where the code has a try of its own ("best effort").
An `UPDATE` writes the columns it names and creates a row that is missing
(`Named`, `Counted`), `TryReserveName()` and the membership insert are
conditional. `Restart` loses all requests and keeps the tables.

Loading the playlist is part of the arrival. A request that ends before its
first write leaves nothing behind and has no step, except where the decision
depends on a later read. `Overlap` says which operations may run at the same
time on one playlist, `Faults` what goes wrong. `hit` is a history variable: it
records that a fault or an overlap concerned a playlist, because count and
covers are then allowed to be off (`Agree`); no guard reads it.

Left out: `updated_at` and `created_at`, item snapshots other than whether
there is a thumbnail, replicas and write timestamps (a statement takes effect
at once), two items added in the same millisecond, and `LIMIT 16` in
`RecomputeCoverThumbnails()`, above any number of items explored.

The limits on playlists and items are counted before they are acted upon
(create.cpp:107, item_add.cpp:195), so concurrent requests exceed them. The
model has both checks; docs/playlists.md:528 lists the limits as invariants, of
which only the answer on a breach is kept, and no run is spent on them.

Reads: `GET /v1/playlists` and the menu of a video are the operators the
properties are stated with; the items, which are read page by page, are in
`Pages`.

### VideoStore and Access

Built like `PlaylistStore`: one step is one statement of a request or of the
task that `ScheduleMediaDerivatives()` detaches from it. `run` has a slot for
each request served at a time and one for the task of each video, which outlives
its request. A row is what tells the properties apart: whether it was INSERTed
(`made`), its visibility, the URLs an UPDATE has set. An UPDATE of a row that is
gone makes one without title and visibility: the model has it, and the
properties say what may come of it (`ListsAnswer`: a list with such a row
answers 500; `PagesKeepPrivate`: it reads as public). `past` is a history variable no
guard reads, but for `Create`: an id is generated once. Whether ffmpeg exits
with an error when it seeks past the end of a short video is up to ffmpeg; the
retry of `thumbnail.cpp:137` relies on it and so does `Extract`.

The requests that read are operators (`Page`, `Listed`, `Mine`, `Feed`, `Hits`,
`Fallback`, and `AddItem` for what adding a video to a playlist reads of it)
over a header of `Access`: missing, of another scheme, garbled, or with a token
that is signed or not, expired or not. `PagesKeepPrivate` is about what the
video handlers show; `AddItem` asks for a login and no more, which is finding 6.

### Pages

A client sweeps through a list while rows are added, removed and viewed, with
the cursor it was given, one it was not, any limit, and a sort it may change.
The server keeps nothing; the cursor is the key of the last row. What a cursor
of the items does not carry is the playlist it is for, so one playlist's cursor
is accepted for another; `Pages` has one list and does not explore that.

### SearchBreaker

Each access to one of the two atomics is a step. `FewProbes` does not repeat the
comment "one probe goes through" (es_component.cpp:59), which several searches
at a time make false in a harmless way; it gives the number that do go through,
`n * Threshold + n(n-1)/2` for n searches at a time, and `Protects` that the
breaker opens again. Time is what a comparison with now finds.

### PlaylistsMirror and Replies

The server is one step per call (`PlaylistStore` has its statements), its
answer and every failure arrive in any order. `doubt` is a history variable: it
says which playlists the copy may have wrong and why, and `MirrorAgrees` is
about all others. So the property is also the list of what can go wrong: calls
that overlap on one playlist, a failure after the effect, another device, a list
cut at its limit. Names are numbers for their order; two spellings of one name
are one. A name that the client takes for short enough (100 UTF-16 units,
playlists_model.cpp:354) and the server for too long (100 bytes, create.cpp:61)
is a create the server refuses, which the model has. `Replies` is what
`api.cpp` makes of an answer: done, fail or, for a 2xx body without the expected
field, neither callback.

### VideoFeed, Login

`VideoFeed` has the timers as booleans that may fire at any time. `shown` is
the request whose answer is shown, with the number of uploads the server knew.

`Login` has two threads that take turns at every point where they share
something: registering a handler, sending, posting to the GUI's event queue.
TDLib serves a request at once and puts the update before or after its
response. The login at the server goes statement by statement (`server`), each
of which may fail; the row stays (`account`), and the client may have lost its
connection long before. After a login that failed the user may submit a number again; TDLib
answers that with an error, and the code does not try the server once more.
A wrong code cannot be corrected on the page of the code, because
`submitAuthCode()` ignores a second one until TDLib asks again
(auth_code_model.cpp:5); the model has this as a guard.

### Upload

The file is looked at when it is picked, measured by the worker, opened, read
in two halves; ffmpeg looks at it from a thread of its own. `Edit` changes it
between any two of these. `Finish` blocks the GUI thread (`gui`) until the
frame is there: `waitForStarted` and `waitForFinished` limit that, once per
try. `Parts`, `ParseMultipart` and `Accepted` are the request and what the
server makes of it, and `WithinLimit` the limit on a request that comes before
any handler: the client takes 2000 MiB (prepare.h:12), the server 100
(config.yaml:81, 90). A file between them (`large`) is read and sent in full and
refused; `PickedIsStored` says that it ends as a failed upload. A file that is
too large only together with its thumbnail counts as large, and may then arrive
without one. What was read is large or not when it was opened, or when the rest
was read. Two things a user meets and no text of the repository
denies: the dialog offers *.flv, *.wmv, *.m4v and *.ts (file_dialog.h:81),
which the server answers with 415, and a quote in a file name is not escaped,
so the name ends there, or the part is no file at all (400).

### Player, PlayerTeardown

mpv executes commands in their order, and returns events first, then the
properties that changed, as its documentation has it; a wake-up posts one call
to the GUI thread, which reads until there is nothing. After a seek mpv has no
data for a while, and a frame step pauses it. `SpinnerEnds` names the
cases in which the spinner does stay (see its comment). In `PlayerTeardown` a
callback may have been entered when it is unset. The guard object itself is
freed with the player; that no callback still runs by then is mpv's promise and
part of the model (a callback that was entered finds the guard).

### MCServer, MCClient, MCPlaylistParts

The parts of the server (videos, breaker, pages), and those of the client
(feed, playlists, login, uploads, player, its end) share no variable: a step of
one neither enables, disables nor changes a step of another, and each property
is about one of them. So a behaviour is one of one part, chosen at the start
(`part`), and the others stand still: their interleavings would only multiply
the states. Every part is explored completely within its bounds.

`MCPlaylistParts` chooses in the same way between two bounds of `PlaylistStore`:
the names of several users' playlists, or the items of one playlist. They do
share tables: what the split leaves to the proofs, which need no bounds, is the
rename of a playlist that has items, whose statements write other columns.

## Runs

| Run | Instance | Shows |
|---|---|---|
| `downloads_queue` | 2 videos, 1 slot, 1 retry, 1 timer each, registry of 1, the bar and its throttle; drop, deleted files, restart; `BarSpec` | `TypeOK`, `SlotCap`, `NoStall`, `RegistriesAgree`, `HidesOnlyEnded`, `ShowsLatest`, `EveryoneServed` |
| `downloads_disk` | 1 video of 2 cells with the wrong extension, unknown size, 2 names; open, write, truncate, rename failures, deletions, drop, 4xx/5xx, restart | `ResumeInStep`, `CompletedIsWhole`, `NothingOverwritten` |
| `task_queue` | 3 addresses, batches of 2, 2 signals; `FairSpec` | `FinishAnnounced`, `IsJobQueue`, `LeftBehindOnlyBy`, `EveryoneProcessed`, `EveryoneFinished` |
| `downloads_shared_title` | 3 videos of one title, no faults | `NothingOverwritten` violated |
| `downloads_two_rows` | 1 video; disk full, drop, restart | `UniqueIds` violated |
| `downloads_range_refused` | 1 video of unknown size; drop | `RangeRefusedIsSuccess` violated |
| `downloads_flush` | 1 video; the flush in `finalize()` fails | `CompletedIsWhole` violated |
| `playlists` | 2 users, 2 playlists, names a, A, b; create, rename, delete; or 1 playlist, 2 videos, 3 adds; create, delete, add, remove; adds overlap; in either failing statements, restart | `TypeOK`, `NameIsReserved`, `ItemsIndexed`, `Agree`, `NoGhosts` |
| `playlist_double_delete` | 1 user, 3 playlists, 1 name; create, delete; deletes overlap; no faults | `NamesUnique` violated |
| `server` | `VideoStore`: 1 video, 2 requests, 2 users, failing statements, restart; `SearchBreaker`: 2 searches, threshold 2; `Pages`: 3 ids, 2 instants, pages of 1 and 2 | `UrlsResolve`, `PagesKeepPrivate`, `SettledAgree`, `GoneStaysGone`, `ListsAnswer`, `ImagesArrive`; `FewProbes`, `Protects`; `EachOnce` |
| `server_private` | as `server`, no faults | `PrivateIsOwners` violated |
| `client` | `VideoFeed`: 3 texts, 3 requests, 1 upload; `PlaylistsMirror`: 3 playlists, 1 item, 2 calls at a time, 2 changes, lists of 2; `Login`: 4 submissions; `Upload`: 2 files, 1 edited once; `Player`: 4 commands; `PlayerTeardown` | `ShowsNewestAnswer`, `SearchesLastText`, `ShowsUploads`; `MirrorAgrees`, `RefreshServed`; `HandlersAwait`, `LoginEnds`; `StoredWasPicked`, `PickedIsStored`; `SpinnerEnds`; `TeardownSafe` |

Why the bounds are enough. Two rows and one slot already give every order of
"in the slot, waiting, backing off"; a second slot adds rows that do not
influence one another (the theorems hold for every number anyway). One retry
reaches both the backoff and its exhaustion. Two cells are the least length at
which a `.part` can be empty, partial or whole; `MinResume = 1` makes empty the
"too small" case. `MaxTimers` bounds the kicks pending for one video: a second
one needs the row to be paused, resumed and dropped within one backoff, and all
a kick does is call `processQueue()`. `downloads_disk` explores modulo
`DiskView`: the bar and a row's `reason` are written but read by no guard, and
its three properties do not mention them, so states that differ only there have
the same futures. Deadlock is not checked in the download
runs: with every row ended and no fault to come, nothing has to happen. It is
checked in `task_queue`.

The playlist runs serve two requests at a time: enough for a race on one name,
one video or one counter, and for one request to meet what another left half
done. Two playlists compete for a name under two spellings while a third name
is free, two users show that names are per user. One playlist suffices for
items, since nothing but the name is shared between playlists; two videos are
more than the one cover kept, and the third add finds a video that was removed.
The server may be idle for ever, so deadlock is not checked there. Symmetry is
in users, playlists and requests.

`server`: a video shares nothing with another one but the lists, which are read
row by row, so one is enough; two requests are an upload and a delete, or two
deletes, next to the detached task, and three of them at a time is what
`VideoStoreProofs` covers (any number). Two searches race on both atomics;
threshold 2 tells "the failure that reaches it" from "one beyond it". Three ids
at two instants give ties, and a page that ends in the middle of one; the limits
are absent, no number, below and above the range.

`client`: three requests are an answer overtaken by a newer one and a third that
finds the list in either state. `PlaylistsStart` picks the starting points:
a playlist that is made and changed, or is there and changed twice; two
playlists and one change; more playlists than a list returns. `NewNames` are
the names playlists are created with: one in the middle of the order, with
names before and after it for renames. With three changes the run takes
712 000 states and four minutes and finds nothing more. Four commands are load,
pause, play and another load or stop; four submissions a wrong and a right
number and code.

`UploadsStart`: next to a file nobody touches the edited one starts in any
state; alone it is of each kind, or has a quote in its name. A list with a file
that does not fit is refused whatever its kind and name.

In neither is deadlock checked: the user may do nothing for ever, and a part
comes to an end.

Fairness. `Downloads!FairSpec`: a retry timer fires, and a transfer delivers or
ends (`Api::startDownload` sets a 30 s idle timeout). Nothing is asked of the
user. `TaskQueue!FairSpec`: both threads run and functions return (weak); a
posted `taskProcessed` is delivered although the user keeps calling (strong: Qt
delivers posted events in every round of the loop, but the model's user may act
between any two rounds). `VideoStore`: a request and a detached task that were
started go on (coroutines of a server that runs). `SearchBreaker`: a search goes
on and time passes; that Elasticsearch stays down and users go on searching are
premises of `Protects`. `PlaylistsMirror`: a list call ends, answered or
not; unlike a download these calls have no idle timeout (api.cpp:267), so a
server that accepts the connection and stays silent is outside what
`RefreshServed`, `LoginEnds` and `PickedIsStored` say. `Login`: both threads run
and the login call ends. `Upload`:
the worker, the thread of each frame and the GUI thread run, the server answers
or the connection breaks; ffmpeg need not end, only its time limit does.
`Player`: the GUI thread runs, and mpv executes commands, opens files or gives
up, and gets data again: without the last the spinner rightly stays.
`MCClient` states these for the part that runs.

### Where the code contradicts its comments

1. `downloads_shared_title`. `finalize()` deletes what is under the destination
   name because "we own that filename for this transfer" (part_file.cpp:112).
   The name was only compared with the disk, and two queued rows of one title
   get the same one: the later transfer deletes the earlier one's file.
2. `downloads_two_rows`. "One authoritative list keyed by content id"
   (downloads_model.h:37), but `cancel()` and `remove()` of a paused row leave
   its record in `downloads/paused`; after a restart a video can have two rows.
3. `downloads_range_refused`. A 416 "routes through handleFinished as success"
   (downloads_model.cpp:901). It fails as "HTTP 416" and the complete `.part`
   is deleted, because `handleFinished()` reads the status from the reply again.
4. `downloads_flush`. A failed flush surfaces "on the next write or at
   finalize()" (part_file.cpp:70). `finalize()` ignores it. The run
   `downloads_disk` leaves out this fault and that of the tail write, whose
   result is ignored too (downloads_model.cpp:986), so that `CompletedIsWhole`
   says everything else is right.

5. `playlist_double_delete`. "Name uniqueness per user" (docs/playlists.md:531)
   and "the second delete from a duplicate-tap should succeed silently"
   (docs/playlists.md:217). A delete releases the name it read when it began,
   whoever holds it by then (delete.cpp:82): two deletes that overlap, with a
   create between their releases, give the name away twice.
6. `server_private`. "Private videos are only accessible to their owner"
   (video_get.cpp:56). Adding a video to a playlist loads it by its id and looks
   at neither visibility nor owner (item_add.cpp:201), and the playlist shows
   its title, URL and thumbnail to the playlist's owner from then on.

Other places where the code is not what is written beside it, met while
modelling. They are in the modules as the code has them; no run is spent on
them, because they harm nothing the properties are about or are plain to see:

* es_component.cpp:59, "one probe goes through": several do (`FewProbes`).
* video_delete.cpp:66, "re-runs are safe": they are refused. If the first DELETE
  of a row took effect, the second request finds no `video_by_id` row and is answered
  404, with the other rows left.
* item_add.cpp:190 speaks of a retry that puts a missing item row back; it loses
  the conditional insert again and answers 200.
* playlists_model.cpp:447 takes what the server did not return for deleted; the
  server returns 100 of up to 200 playlists.
* playlists_model.h:129 describes a lazy fetch of the items of a playlist;
  `reconcileItemsFor()` has no caller, so the items of a playlist made elsewhere
  never arrive.
* PagePlayer.qml:190-196 promises a nudge that its empty handlers do not give.
* `purgeStaleCompleted()` leaves `latestId_` at a row that is gone.
* coreController.cpp:93 keeps the profile's grid in sync after an upload, where
  `isMine()` finds none of the videos.

## Proofs

All 28 invariants the passing runs check are theorems, and so are the three
properties over steps (`IsJobQueue`, `LeftBehindOnlyBy`, `NothingOverwritten`);
liveness is under "Model-checked only". Every theorem holds for all values of
the constants that satisfy the assumptions named in the modules; where it needs
more, its statement says so.

### Downloads

`DownloadsProofs` proves that every reachable state of `Downloads` satisfies
`TypeOK` (`DownloadsTypes`), `SlotCap` (`DownloadsSlotCap`), `NoStall`
(`DownloadsNoStall`), `RegistriesAgree` (`DownloadsRegistriesAgree`) and
`HidesOnlyEnded` (`DownloadsHidesOnlyEnded`); and, for videos with titles of
their own, `ResumeInStep` (`DownloadsResumeInStep`), `NothingOverwritten`
(`DownloadsNothingOverwritten`) and `CompletedIsWhole`
(`DownloadsCompletedIsWhole`).

The first inductive invariant `IInv` is `TypeOK /\ SlotCap /\ NoStall` and that
both registries are finite. `NoStall` needs `SlotCap` (a full cap is what lets
`processQueue()` stop with rows waiting), both need the types, and the restart
needs finite registries to put in order. The argument:

* `OutcomesFillSlots`, `ProcessQueueRows`: after `processQueue()` either every
  slot is taken or no row is Queued, and the cap is never exceeded. Every
  handler that ends in it re-establishes both invariants at once.
* `KeepingRows`, `ErasingEnded`: erasing rows keeps types, the number of
  running rows and which row is first of its id among those that stay.
* `BackOffStep`: the one handler that frees a slot without `processQueue()`
  arms a timer for a row it has just queued, and that row is first of its id.
* one lemma per action, put together in `NextIInv`.

The second one, `Orderly`, is about what the list, the bar and the registries
know of each other. A handler that finishes a row takes the records of its id
out of a registry, which is right only if no other row needs them. So it needs
to be known how two rows of one video come about at all (`Doubles`: after a
restart, the earlier Completed and the later Paused, and in no other way; this
is the finding `downloads_two_rows`), that the bar never refers to such a video
(`BarFits`), and that a video is recorded as paused once (`OncePaused`).
`BarCounts` says when the bar's timer runs: the bar shows a video, and its
timer does not run, only if there is a row of it that has not ended; the proof
of `BarShowsLatest` needs it.

The third one, `DiskOK`, is about the disk, and `ResumeInStep`,
`NothingOverwritten` and `CompletedIsWhole` rest on it:
a name has a `.part` or a file and never both, a `.part` is a beginning of the
one video of that title and as long as the transfer that writes it believes
(`Attached`), a row that may still write finds no file under its name, and no
two such rows are of one video. The last part is where `Orderly` is needed: of
two rows of a video that a restart has brought back one is Completed. Two
hypotheses are in the statements and in no weaker form:

* `SoleTitles`, no two videos share a title. Two rows of one title can hold one
  name, and then the later one removes the file of the earlier one (the finding
  `downloads_shared_title`): the code compares a new name with what is on disk,
  never with the names of the other rows.
* for `CompletedIsWhole`, neither "tail" nor "flush" is in `Faults`: the result
  of both is ignored (the finding `downloads_flush`). Any other failure may
  happen, and `ResumeInStep` and `NothingOverwritten` hold with these two too.

`FilesMove` says which steps touch a file at all (the user's, and the end of a
transfer where there was no file), `BeginsOn` and `BeginsCut` what writes and
losses make of a beginning, `TailWhole` that the tail completes it.

`DownloadBarProofs` carries the first five to the composition that is checked:
`BarImplementsDownloads` is `BarSpec => FairSpec`, step by step (a timeout of
the throttle is a stutter), and `BarTypes`, `BarSlotCap`, `BarNoStall`,
`BarRegistriesAgree` and `BarHidesOnlyEnded` follow. `BarShowsLatest` is about
the composition itself. By `Doubles` and `BarFits` what the bar can read is a
function of the one row of its video (`LatestFaces`), so a step that emits
nothing must be shown to leave that row's face alone; any other step leaves an
emission pending (`ToldOfIt`).

### TaskQueue

`TaskQueueProofs` proves `TypeOK`, `FinishAnnounced`, the step property
`LeftBehindOnlyBy` and the refinement `IsJobQueue`, for any number of tasks,
batches and signals. The invariant adds to the first two what the threads know
of each other's tasks (`InStep`): the queue to finish, the worker's hand and
the queue to process, put one behind the other (`Pending`), hold no task twice,
and a task whose cancel has begun is past the point where the worker could pick
it up. `Pending` is also what the refinement maps to `JobQueue`: the lemmas
`AddTasksAdds`, `CancelTaskRemoves`, `CancelReturnsRemoves`, `DrainOneTakes`,
`TakeTaskMoves` and `ProcessedMoves` say what each critical section does to it
(append, remove one, take the head, or nothing), `JobsStep` puts them together.
They rest on lemmas about `RemoveFirst` in a sequence without repetitions and in
a concatenation.

### PlaylistStore

`PlaylistStoreProofs` proves `TypeOK` (`TypeCorrect`), `NameIsReserved`
(`NamesReserved`), `NamesUnique` (`NamesStayUnique`) and `NoGhosts`
(`ListsNoGhosts`) for any number of users, playlists, names and requests and
any faults, under `Overlap \subseteq ItemOps`: on one
playlist only adds and removals run at the same time. The code does not enforce
that, and `playlist_double_delete` shows that without it `NamesUnique` is
false; what the theorems say is that this is the only gap.

The properties are not inductive: that a playlist is still there when a rename
writes its row depends on what the rename read before. `Inv` adds to `TypeOK`

* `PlaylistOK`: a playlist's name is reserved for it, a listed row stands for
  one that exists, and the name it is listed under is reserved too (the two
  names differ after a rename that failed half way);
* `HandlerOK`: what each handler relies on before each of its statements, for
  example that a rename about to release the old name shows it in no row;
* `Alone`: requests on one playlist are adds and removals.

`LocalTo` says that a statement changes only what belongs to its playlist.
`HandlerFrame` and `PlaylistFrame` carry every other handler and playlist over
such a change, `Moves`, `ReadsStep` and `WritesStep` use them once for all
statements, and one lemma per action shows what is left: its own playlist and
its own next statement.

`PlaylistItemsIndexed` and `PlaylistAgree` are `ItemsIndexed` and `Agree`, under
`Overlap \subseteq {"add"}`, which is what the run `playlists` explores: a
removal that runs beside an add of the same video can take away the index entry
the add has just won. Their invariant is `Tidy`, on top of `Inv`:

* `TimesOK`, `StepOK`: an item has the time of some add, and which handler is at
  which statement;
* of a playlist no fault has hit, `IndexedOK` (each item is where the index
  says), `Deleted`, and what a request relies on for it (`WorkOK`: the index
  entry it is about to write an item for is its own);
* of a playlist that nothing has hit, `Fits` before every statement (how far
  rows, count, index and items are apart at that point, handler by handler) and
  `Rest` when nobody works on it;
* `AloneButAdds`: two requests on one playlist are adds, and its history says so.

That the covers after an add are again those of the newest items is
`CoversGrow`: the add's time is later than every other, so one video goes to the
front and the last may fall off the end. It is the one proof about the order of
a whole sequence.

### VideoStore

`VideoStoreProofs` proves `UrlsResolve` (`VideoUrlsResolve`),
`PagesKeepPrivate` (`VideoPagesKeepPrivate`), `SettledAgree` (`VideoSettledAgree`), `GoneStaysGone`
(`VideoGoneStaysGone`) and `ListsAnswer` (`VideoListsAnswer`) for any number of
users, videos and concurrent requests, and any faults, from `OwnerAssumption`,
`ProcessAssumption` and `NullAssumption`.
`Inv` relates the tables, the bucket and the history:

* `RowOK`: an inserted row has the visibility of its upload, and its object is
  there unless a delete was asked for; a row that only an UPDATE made has no
  visibility; each of its URLs names an object; the feed has public videos only;
* `ProcOK`: what a request or task relies on before its next statement, for
  example that the image whose URL it is about to write is in the bucket;
* `OneVisibility`: an id is uploaded once.

A delete and a task that overlap do not disturb each other's part of it: images
never leave the bucket, the history only grows, and the object goes only after
the delete was noted (`Kept`, `Grown`). `ProcLater` and `DbLater` carry all
other processes and rows over a step on this ground; `WritesOK` and
`WritesRowOK` use them once for every statement and its failure. `PagesKeepPrivate`
follows because a header is believed only if it has the token of a login
(`OnlyTheirToken`), and a row that lost its visibility is not in the global
feed's table unless the video was public.

The other three need what the tables hold at each statement (`Life`): while
nothing has failed and nobody deletes, the rows of a video are exactly those its
upload and task have come to (`InProgress`, `RowBefore`), and all of them once
both are through (`Finished`); a delete that is not beside the upload leaves of
every row it has passed nothing, or what a late UPDATE made of it (`Dropping`,
`Remnant`); a row that was never inserted is on record as "late". An upload is
the only one of its video (`OneCreate`), so every statement of a second process
is one of a task or a delete.

### VideoFeed

`VideoFeedProofs` proves `ShowsNewestAnswer`, `SearchesLastText` and
`ShowsUploads` for any texts and any number of requests and uploads. The
invariant adds what is known of the requests under way (the newest asks for the
active query and, unless an upload ended since, after all uploads) and which
text will be searched once the timer has fired.

### The rest of the client

`ClientProofs` is about the parts of `MCClient`, first each by itself and then
the whole (a step of the client is a step of one part and none of the others).

* `HandlersAwait` of `Login`, for any number of submissions: a request's id is
  its own and is in one place, with the thread that is about to send it or in
  TDLib's queue (`IdsUnique`); the table then has an entry for exactly these.
* `TeardownSafe` of `PlayerTeardown`: a callback that has looked at the guard
  has its mutex, which the destructor needs to clear it; the renderer holds a
  reference to the handle for longer than it has a context (`TeardownInv`).
* `StoredWasPicked` of `Upload`, for any number of files, each changed at any
  time: what a task has read of a file nobody has changed is nothing, its first
  half or all of it (`ReadInOrder`). A changed file may arrive as two halves of
  two editions, which is why the property says no more of it than that it is a
  video and not empty.
* `MirrorAgrees` of `PlaylistsMirror` (`MirrorShowsServer`), for any playlists,
  names, videos and calls, any number of changes and any limit of a list. Its
  invariant (`MirrorInv`) takes each playlist by itself (`PlaylistInv`). What the
  copy has of one that is not in doubt differs from the server by what the calls
  under way on it account for, and no more (`Fits`): a call that changes the row
  (create, rename, delete) is alone on its playlist; while a rename is under way
  the row has the new name, which the server has or will get, and the call keeps
  the old one; what a delete keeps to restore is what the server has until it
  serves the call; a video differs only if an item call is under way for it, and
  only one is. A list that was served is still right about every playlist nobody has
  touched since it was asked for (`ListFits`), and every call under way while it
  is out has marked its playlist (`InTouched`). The proof rests on a frame lemma
  (`SameFits`, `OnePlaylistSteps`): a step on one playlist leaves the others
  fitting as they did, although `sortByName()` may move their rows; so each
  action needs its argument for one playlist only. Sorting and erasing move rows
  and drop none (`ArrangedPermutes`, `SortKeeps`); for that they are defined by
  the place each element gets, since `SortSeq` and `SelectSeq` are recursive.
  TLC checked `MirrorInv` on small instances before the proof.
  `MirrorAssumption` has what the constants need: ids and names are naturals
  (for their order), the ids finitely many, null is neither a playlist nor a
  call.

### The rest of the server

`ServerProofs` proves `FewProbes` of `SearchBreaker` for any number n of
searches and any threshold, and carries it to `MCServer`. It is a counting
argument. `ProbesLeft` bounds the requests sent so far plus those that can still
be sent before the breaker is next open for good: a failure that does not trip
uses up one of `Threshold - 1`; a success that has yet to clear the count gives
as many again; a search that trips must wait for another to close the breaker,
and each of those that have not done so yet will do it once. Their number, and
how much each may still spend, gives the two terms of
`n * Threshold + n(n-1)/2`.

It proves `EachOnce` of `Pages` too (`PagesEachOnce`, `ServerEachOnce`), for any
rows, instants and page sizes. Its invariant (`PagesInv`) is that what a sweep
has shown is sorted, that its cursor is the last row shown, and that each row
that was there all the time was shown or is still to come, that is, lies behind
the cursor. A page keeps it because a sorted list of a set holds the rows of the
set, each once (`InOrderSorts`): the number of rows that precede a row is its
place, and no two rows have the same, so every place is taken. The proof needs
no induction for that, but the list has to be defined by what it is (`InOrder`)
and not with `SortSeq`, which the proof system cannot expand. It assumes that
the values for "no cursor" and "a cursor that does not decode" are not cursors.

### Model-checked only

* Liveness, because fairness is beyond the proof system: `EveryoneServed`,
  `EveryoneProcessed`, `EveryoneFinished`, `ImagesArrive`, `Protects`,
  `RefreshServed`, `LoginEnds`, `PickedIsStored`, `SpinnerEnds`.

## Plan

Done: every component above that keeps state several actors share.

1. `UserLibrary`, the abstract specification of the playlists (an operation is
   one step), and the conditions under which `PlaylistStore` implements it; it
   is what `PlaylistsMirror` has for a server today.
2. The progress of uploads, the other user of `SignalThrottle`.

## Not modelled

* `ProfileModel`: its list never holds a video today (the server sends no
  author, so `isMine()` fails for all), and the route its rename calls does not
  exist on the server. Its optimistic delete would be that of
  `PlaylistsMirror`.
* Two first logins of one phone at the same time (`auth_login.cpp`): `Login` has
  one device and the handler's statements for it.
* `video_view.cpp`, which counts nothing; the logout handler of `DownloadsModel`
  (downloads_model.cpp:123), which no caller connects.
* Pages and navigation in QML, painting, settings, slugs, Base64 and HMAC,
  queries to Elasticsearch, the S3 protocol, translations: conversions and I/O
  without state that actors share. Vendored code.
