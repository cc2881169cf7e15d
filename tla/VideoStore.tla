------------------------------ MODULE VideoStore ------------------------------
(***************************************************************************)
(* The video handlers of the server (PlazmaServer/src/handlers/videos):    *)
(* an upload writes an S3 object, three Scylla tables that share no        *)
(* transaction and, if the client sent a thumbnail, its columns; a task    *)
(* detached from the request then extracts a thumbnail and a storyboard    *)
(* and UPDATEs the same rows; a delete drops the object and the rows one   *)
(* by one.  Requests and tasks run concurrently, a statement may fail with *)
(* or without effect, the server may stop between any two.                 *)
(*                                                                         *)
(* One step is one statement.  A request that is refused (400, 401, 403,   *)
(* 404, 415) leaves no trace and has no step; the requests that only read  *)
(* are operators on the tables.                                            *)
(***************************************************************************)
EXTENDS Naturals, FiniteSets, Access

CONSTANTS
    Videos,
    Owner,          \* who uploads the video an id is generated for
    Slots,          \* bound: requests served at a time
    NoVideo, NoRow, \* null
    Faults          \* what may go wrong: "error", "crash"

ASSUME OwnerAssumption == Owner \in [Videos -> Users]
ASSUME ProcessAssumption == Slots \cap Videos = {}

Visibilities == {"public", "unlisted", "private"}
Columns == {"thumbnail_url", "storyboard_url"}
Objects == Columns \cup {"file"}    \* an image is named by the column that holds its URL

(* A row: whether the columns of an INSERT are there, and which URLs an    *)
(* UPDATE has set.                                                         *)
Row == [made : BOOLEAN, vis : Visibilities \cup {"null"}, urls : SUBSET Columns]
ASSUME NullAssumption == NoRow \notin Row /\ NoVideo \notin Videos

Tables == {"videos", "video_by_id", "videos_by_day"}

VARIABLES
    db,     \* the tables
    s3,     \* the objects in the bucket
    run,    \* the requests being served, and the detached task of each video
    past    \* history of a video: what was asked and what went wrong

vars == <<db, s3, run, past>>

StepsOf == [create |-> {"put", "insertUser", "insertById", "insertByDay", "seed", "lookup",
                        "setUser", "setById", "setByDay", "schedule"},
            derive |-> {"created", "image", "setUser", "setById", "setByDay"},
            delete |-> {"dropFile", "dropById", "dropByUser", "dropByDay"}]

(* A request or a task: the statement it is about to execute and what it   *)
(* holds in locals.  given: the client sent a thumbnail (create), it need  *)
(* not be extracted (derive); dated: the key of videos_by_day is known.    *)
Idle == [op |-> "none", at |-> "idle", v |-> NoVideo, vis |-> "null",
         given |-> FALSE, dated |-> FALSE, col |-> "thumbnail_url"]
Process(op) == [op : {op}, at : StepsOf[op], v : Videos, vis : Visibilities \cup {"null"},
                given : BOOLEAN, dated : BOOLEAN, col : Columns]

Events == Visibilities \cup {"stored", "late", "overlap", "delete", "gone", "fault"}

At(p, step) == run[p].at = step
To(p, step) == [run[p] EXCEPT !.at = step]
Busy(v, ops) == \E p \in Slots \cup Videos : run[p].v = v /\ run[p].op \in ops
Noted(v, events) == [past EXCEPT ![v] = @ \cup events]

(* A statement makes the tables d and the bucket o: the process becomes q, *)
(* or c when it throws; it may have been executed all the same.            *)
Writes(p, d, o, q, c) ==
    \/ /\ db' = d /\ s3' = o
       /\ run' = [run EXCEPT ![p] = q]
       /\ UNCHANGED past
    \/ /\ "error" \in Faults
       /\ \/ db' = d /\ s3' = o
          \/ UNCHANGED <<db, s3>>
       /\ run' = [run EXCEPT ![p] = c]
       /\ past' = Noted(run[p].v, {"fault"})

WritesRow(p, t, row, q, c) == Writes(p, [db EXCEPT ![t][run[p].v] = row], s3, q, c)

-------------------------------------------------------------------------------
(* video_create.cpp.                                                       *)

(* The body is whole, the format allowed, the id new.  A visibility that   *)
(* is missing or unknown is "public".                                      *)
Create(r, v, vis, thumb) ==
    /\ run[r] = Idle
    /\ past[v] = {}
    /\ run' = [run EXCEPT ![r] = [Idle EXCEPT !.op = "create", !.at = "put", !.v = v,
                                              !.vis = vis, !.given = thumb]]
    /\ past' = Noted(v, {vis})
    /\ UNCHANGED <<db, s3>>

(* Mutant: the object is uploaded after the rows are written.              *)
MetadataFirst(p) == s3

WithFile(p) == s3 \cup {<<run[p].v, "file">>}

(* 502 when the object cannot be stored: nothing is written.               *)
PutFile(p) ==
    /\ At(p, "put")
    /\ Writes(p, db, WithFile(p), To(p, "insertUser"), Idle)

Inserted(p) == [made |-> TRUE, vis |-> run[p].vis, urls |-> {}]

(* 500 when an INSERT throws: the object and the rows already written stay. *)
InsertUser(p) ==
    /\ At(p, "insertUser")
    /\ WritesRow(p, "videos", Inserted(p), To(p, "insertById"), Idle)

Seeding(p) == To(p, IF run[p].given THEN "seed" ELSE "schedule")

(* Mutant: every video goes into the global feed.                          *)
FeedAll(p) == TRUE

(* Mutant: the condition is the wrong way round.                           *)
FeedOthers(p) == run[p].vis # "public"

InFeed(p) == run[p].vis = "public"

InsertById(p) ==
    /\ At(p, "insertById")
    /\ WritesRow(p, "video_by_id", Inserted(p),
                 IF InFeed(p) THEN To(p, "insertByDay") ELSE Seeding(p), Idle)

InsertByDay(p) ==
    /\ At(p, "insertByDay")
    /\ WritesRow(p, "videos_by_day", Inserted(p), Seeding(p), Idle)

(* SeedOptimisticThumbnail().  Whatever throws, the request goes on, and   *)
(* the task will extract a frame.                                          *)
Unseeded(p) == [To(p, "schedule") EXCEPT !.given = FALSE]

Seed(p) ==
    /\ At(p, "seed")
    /\ Writes(p, db, s3 \cup {<<run[p].v, "thumbnail_url">>}, To(p, "lookup"), Unseeded(p))

(* The row that was just written; gone already: nothing to do.  A row that *)
(* has no user_id makes the driver throw.                                  *)
Lookup(p) ==
    LET row == db["video_by_id"][run[p].v]
        next == IF row = NoRow THEN To(p, "schedule")
                ELSE IF ~ row.made THEN Unseeded(p)
                ELSE [To(p, "setUser") EXCEPT !.dated = TRUE, !.vis = row.vis]
    IN /\ At(p, "lookup")
       /\ Writes(p, db, s3, next, Unseeded(p))

(* 201, and ScheduleMediaDerivatives(): a task detached from the request.  *)
Schedule(p) ==
    LET q == run[p] IN
    /\ At(p, "schedule")
    /\ run' = [run EXCEPT ![p] = Idle,
                 ![q.v] = [q EXCEPT !.op = "derive", !.at = "created", !.dated = FALSE]]
    /\ past' = Noted(q.v, {"stored"})
    /\ UNCHANGED <<db, s3>>

(* The task looks for created_at; it goes on without.                      *)
ReadCreated(p) ==
    LET row == db["video_by_id"][run[p].v]
        next == [To(p, "image") EXCEPT !.col = IF run[p].given THEN "storyboard_url" ELSE @]
    IN /\ At(p, "created")
       /\ Writes(p, db, s3, [next EXCEPT !.dated = row # NoRow /\ row.made], next)

(* Mutant: the task ends after its first image.                            *)
OneImage(p) == Idle

(* After one image the next; after the storyboard the task ends.           *)
NextImage(p) ==
    IF run[p].col = "thumbnail_url"
      THEN [To(p, "image") EXCEPT !.col = "storyboard_url"] ELSE Idle

(* RunFfmpeg() on the uploaded bytes.  A video may be shorter than         *)
(* seek_seconds, and is then taken to make ffmpeg exit with an error, as   *)
(* the code expects; or ffmpeg cannot be run, cannot read it, or leaves    *)
(* nothing to be read back.                                                *)
RunFfmpeg(seeking) ==
    {"image"} \cup (IF seeking THEN {"error"} ELSE {})
              \cup (IF "error" \in Faults THEN {"error", "throws"} ELSE {})

(* Extract(): a short video is tried again from its start.                 *)
Extract ==
    {IF sought = "error" THEN first ELSE sought :
        sought \in RunFfmpeg(TRUE), first \in RunFfmpeg(FALSE)}

ExtractStoryboard == RunFfmpeg(FALSE)

(* Of one image the extraction and the upload; without it the task goes on *)
(* with the next.                                                          *)
StoreImage(p) ==
    LET images == IF run[p].col = "thumbnail_url" THEN Extract ELSE ExtractStoryboard IN
    /\ At(p, "image")
    /\ \/ /\ "image" \in images
          /\ Writes(p, db, s3 \cup {<<run[p].v, run[p].col>>}, To(p, "setUser"), NextImage(p))
       \/ /\ images # {"image"}
          /\ run' = [run EXCEPT ![p] = NextImage(p)]
          /\ past' = Noted(run[p].v, {"fault"})
          /\ UNCHANGED <<db, s3>>

(* UPDATE makes a row where there is none.                                 *)
Updated(row, col) ==
    IF row = NoRow THEN [made |-> FALSE, vis |-> "null", urls |-> {col}]
                   ELSE [row EXCEPT !.urls = @ \cup {col}]

(* One UPDATE of SeedOptimisticThumbnail(), which gives up when it throws, *)
(* or of update_all(), which tries the other tables all the same.          *)
Update(p, t, next) ==
    WritesRow(p, t, Updated(db[t][run[p].v], run[p].col), next,
              IF run[p].op = "create" THEN Unseeded(p) ELSE next)

UpdatesEnd(p) == IF run[p].op = "create" THEN To(p, "schedule") ELSE NextImage(p)

SetUser(p) == At(p, "setUser") /\ Update(p, "videos", To(p, "setById"))

(* Mutant: the day of a video is always known.                             *)
PublicRow(p) == run[p].vis = "public" /\ run[p].op = "create"

HasDayRow(p) == run[p].vis = "public" /\ run[p].dated

SetById(p) ==
    /\ At(p, "setById")
    /\ Update(p, "video_by_id", IF HasDayRow(p) THEN To(p, "setByDay") ELSE UpdatesEnd(p))

SetByDay(p) == At(p, "setByDay") /\ Update(p, "videos_by_day", UpdatesEnd(p))

-------------------------------------------------------------------------------
(* video_delete.cpp, asked by the owner: the row is there and has its      *)
(* user_id and storage_url.                                                *)
Delete(r, v) ==
    /\ run[r] = Idle
    /\ db["video_by_id"][v] # NoRow
    /\ db["video_by_id"][v].made
    /\ run' = [run EXCEPT ![r] = [Idle EXCEPT !.op = "delete", !.at = "dropFile", !.v = v]]
    /\ past' = Noted(v, {"delete"}
                  \cup (IF Busy(v, {"create", "derive"}) THEN {"late"} ELSE {})
                  \cup (IF Busy(v, {"create"}) THEN {"overlap"} ELSE {}))
    /\ UNCHANGED <<db, s3>>

(* 502 when the object cannot be deleted.  The images stay in the bucket.  *)
DropFile(p) ==
    /\ At(p, "dropFile")
    /\ Writes(p, db, s3 \ {<<run[p].v, "file">>}, To(p, "dropById"), Idle)

DropById(p) ==
    /\ At(p, "dropById")
    /\ WritesRow(p, "video_by_id", NoRow, To(p, "dropByUser"), Idle)

DropByUser(p) ==
    /\ At(p, "dropByUser")
    /\ WritesRow(p, "videos", NoRow, To(p, "dropByDay"), Idle)

(* Mutant: the row of the global feed is forgotten.                        *)
KeptInFeed(v) == db

WithoutDayRow(v) == [db EXCEPT !["videos_by_day"][v] = NoRow]

(* 204.                                                                    *)
DropByDay(p) ==
    LET v == run[p].v IN
    /\ At(p, "dropByDay")
    /\ UNCHANGED s3
    /\ run' = [run EXCEPT ![p] = Idle]
    /\ \/ db' = WithoutDayRow(v) /\ past' = Noted(v, {"gone"})
       \/ /\ "error" \in Faults
          /\ db' \in {db, WithoutDayRow(v)}
          /\ past' = Noted(v, {"fault"})

-------------------------------------------------------------------------------
(* The requests that read, with a header h.  A row without its title      *)
(* makes the driver throw, and the request answers 500 whatever the other  *)
(* rows are.  401 shows nothing.                                           *)

Stored(t, v) == db[t][v] # NoRow
Vis(row) == IF row.vis = "null" THEN "public" ELSE row.vis

(* GET /v1/videos/:id.                                                     *)
Page(h, v) ==
    LET row == db["video_by_id"][v]
    IN IF Invalid(h) THEN "401"
       ELSE IF row = NoRow THEN "404"
       ELSE IF ~ row.made THEN "500"
       ELSE IF Vis(row) = "private" /\ ~ IsUser(h, Owner[v]) THEN "403" ELSE "200"

(* POST /v1/playlists/:id/items, to a playlist of the caller that has room *)
(* (LoadCanonicalVideo, item_add.cpp): the item has the title and the URLs *)
(* of the row, "" where there is none; the answer shows it, and so do the  *)
(* lists of the playlist from then on.  401, too, shows nothing.           *)
AddItem(h, v) ==
    IF ~ Authenticated(h) THEN "401"
    ELSE IF ~ Stored("video_by_id", v) THEN "404" ELSE "201"

(* GET /v1/videos?author=o.                                                *)
Listed(h, o) ==
    {v \in Videos : ~ Invalid(h) /\ Owner[v] = o /\ Stored("videos", v)
                    /\ (IsUser(h, o) \/ Vis(db["videos"][v]) = "public")}

(* GET /v1/users/me/videos.                                                *)
Mine(h) == {v \in Videos : IsUser(h, Owner[v]) /\ Stored("videos", v)}

(* GET /v1/videos: the days of the feed.                                   *)
Feed == {v \in Videos : Stored("videos_by_day", v)}

(* ElasticSearch knows a video as it was uploaded, if it knows it at all.  *)
Indexed(v) == "stored" \in past[v]
IndexedPublic(v) == "public" \in past[v]

(* The filters of GET /v1/videos?q=, of all authors (o = NoUser) or of one. *)
Hits(h, o) ==
    {v \in Videos : ~ Invalid(h) /\ Indexed(v)
                    /\ o \in {NoUser, Owner[v]}
                    /\ (IndexedPublic(v) \/ (o # NoUser /\ IsUser(h, o)))}

(* The same without ElasticSearch; the titles may match or not.            *)
Fallback(h, o) == IF o = NoUser THEN Feed ELSE Listed(h, o)

Answers(t, listed) == \A v \in listed : db[t][v].made

-------------------------------------------------------------------------------
(* The server stops; it starts again with the tables and the bucket as     *)
(* they are.  What a detached task had still to do is not done.            *)
Restart ==
    /\ "crash" \in Faults
    /\ \E p \in Slots \cup Videos : run[p] # Idle
    /\ run' = [p \in Slots \cup Videos |-> Idle]
    /\ past' = [v \in Videos |->
                  IF Busy(v, {"create", "delete", "derive"}) THEN past[v] \cup {"fault"} ELSE past[v]]
    /\ UNCHANGED <<db, s3>>

Init ==
    /\ db = [t \in Tables |-> [v \in Videos |-> NoRow]]
    /\ s3 = {}
    /\ run = [p \in Slots \cup Videos |-> Idle]
    /\ past = [v \in Videos |-> {}]

Arrival(r) ==
    \E v \in Videos :
        \/ Delete(r, v)
        \/ \E vis \in Visibilities, thumb \in BOOLEAN : Create(r, v, vis, thumb)

Statement(p) ==
    \/ PutFile(p) \/ InsertUser(p) \/ InsertById(p) \/ InsertByDay(p)
    \/ Seed(p) \/ Lookup(p) \/ Schedule(p) \/ ReadCreated(p) \/ StoreImage(p)
    \/ SetUser(p) \/ SetById(p) \/ SetByDay(p)
    \/ DropFile(p) \/ DropById(p) \/ DropByUser(p) \/ DropByDay(p)

Next ==
    \/ \E r \in Slots : Arrival(r)
    \/ \E p \in Slots \cup Videos : Statement(p)
    \/ Restart

Spec == Init /\ [][Next]_vars

(* A request and a detached task that have been started go on.             *)
FairSpec == Spec /\ \A p \in Slots \cup Videos : WF_vars(Statement(p))

-------------------------------------------------------------------------------
(* Properties.                                                             *)

(* Every variable holds a value of its type, and every process does only   *)
(* what its kind does: the seeding and the detached task share their       *)
(* updates, but not what they do next.                                     *)
TypeOK ==
    /\ db \in [Tables -> [Videos -> Row \cup {NoRow}]]
    /\ s3 \in SUBSET (Videos \X Objects)
    /\ DOMAIN run = Slots \cup Videos
    /\ \A r \in Slots : run[r] \in Process("create") \cup Process("delete") \cup {Idle}
    /\ \A v \in Videos : run[v] \in {q \in Process("derive") : q.v = v} \cup {Idle}
    /\ past \in [Videos -> SUBSET Events]

(* A URL a row shows names an object of the bucket, whatever failed and    *)
(* wherever the server stopped: an object is stored before the row is      *)
(* written (video_create.cpp:233, 485) and, for the video itself, until    *)
(* the owner deletes it.                                                   *)
UrlsResolve ==
    \A t \in Tables, v \in Videos : Stored(t, v) =>
        /\ \A c \in db[t][v].urls : <<v, c>> \in s3
        /\ db[t][v].made /\ "delete" \notin past[v] => <<v, "file">> \in s3

(* The page of a video that was uploaded as private is shown to its owner  *)
(* alone, and what was not uploaded as public is in no list of videos but  *)
(* the owner's, with whatever header another request comes: a token that   *)
(* expired, is of another user or was not signed by the server.  This      *)
(* through failures, late updates that make rows without a visibility      *)
(* (read as public, video_get.cpp:54), and deletes that overlap them.      *)
(* Playlists show what is in them to whoever has one, and may have been    *)
(* given any video by its id (PrivateIsOwners); who is not logged in sees  *)
(* nothing there.                                                          *)
PagesKeepPrivate ==
    \A v \in Videos : past[v] # {} /\ "public" \notin past[v] =>
        \A h \in Headers \ {[scheme |-> "bearer", token |-> Mint(Owner[v])]} :
            /\ "private" \in past[v] => Page(h, v) # "200"
            /\ v \notin Hits(h, NoUser) \cup Hits(h, Owner[v]) \cup Fallback(h, NoUser)
            /\ v \notin Mine(h)
            /\ v \in Listed(h, Owner[v]) \cup Fallback(h, Owner[v]) => ~ db["videos"][v].made
            /\ AddItem(h, v) = "201" => \E u \in Users \ {Owner[v]} : IsUser(h, u)

(* "Private videos are only accessible to their owner" (video_get.cpp:56): *)
(* once it is uploaded no request shows one to anybody else, the one that  *)
(* adds it to a playlist (item_add.cpp:201) included.                      *)
PrivateIsOwners ==
    \A v \in Videos : {"private", "stored"} \subseteq past[v] =>
        \A h \in Headers : Page(h, v) = "200" \/ AddItem(h, v) = "201" => IsUser(h, Owner[v])

(* A video nobody is working on and no fault or delete has hit is the same *)
(* in all its tables, those the seeding, the task and the upload each      *)
(* wrote for themselves, and in the feed exactly if it is public.          *)
SettledAgree ==
    \A v \in Videos :
        /\ "stored" \in past[v] /\ past[v] \cap {"fault", "delete"} = {}
        /\ ~ Busy(v, {"derive"})
        => /\ db["videos"][v] = [made |-> TRUE, vis |-> db["videos"][v].vis, urls |-> Columns]
           /\ db["video_by_id"][v] = db["videos"][v]
           /\ db["videos_by_day"][v] = IF "public" \in past[v] THEN db["videos"][v] ELSE NoRow

(* After a delete was answered 204 nothing brings the video back, whatever *)
(* failed before and after, unless the upload was still being written;     *)
(* rows without a title, made by late updates, are all that can appear,    *)
(* and only if the task was still running when the delete began.           *)
GoneStaysGone ==
    \A v \in Videos : "gone" \in past[v] /\ "overlap" \notin past[v] =>
        /\ <<v, "file">> \notin s3
        /\ \A t \in Tables :
              /\ Stored(t, v) => ~ db[t][v].made
              /\ "late" \notin past[v] => ~ Stored(t, v)

(* One row without a title makes a whole list answer 500.  Whatever fails, *)
(* the lists answer unless a video was deleted while it was being uploaded *)
(* or its images were being extracted.                                     *)
ListsAnswer ==
    /\ \A h \in Headers, o \in Users :
          (\A v \in Videos : Owner[v] = o => "late" \notin past[v]) =>
              Answers("videos", Listed(h, o) \cup (IF IsUser(h, o) THEN Mine(h) ELSE {}))
    /\ (\A v \in Videos : "late" \notin past[v]) => Answers("videos_by_day", Feed)

(* A video that was answered 201 gets its thumbnail and its storyboard in  *)
(* every table it is in, unless something fails or it is deleted (under    *)
(* FairSpec).                                                              *)
ImagesArrive ==
    \A v \in Videos :
        "stored" \in past[v] ~>
            \/ past[v] \cap {"fault", "delete"} # {}
            \/ \A t \in Tables : Stored(t, v) => db[t][v].urls = Columns
================================================================================
