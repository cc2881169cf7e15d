---------------------------- MODULE PlaylistsMirror ----------------------------
(***************************************************************************)
(* PlaylistsModel (Plazma/src/models/playlists_model.cpp): the client's    *)
(* copy of the playlists.  A change is made in the copy first and sent to  *)
(* the server; its answer reconciles the row or rolls it back.  refresh()  *)
(* replaces the rows by the server's list.  Calls run side by side, each   *)
(* on its connection, so the server may execute them, and the answers may  *)
(* come back, in any order; a call may fail with or without effect; a 2xx  *)
(* answer without the expected field reaches neither callback              *)
(* (json_guards.h:212).                                                    *)
(***************************************************************************)
EXTENDS Naturals, Sequences, FiniteSets, FiniteSetsExt

CONSTANTS
    Ids, Names,     \* naturals, for their order; two names that differ in case are one
    Items,
    Calls,          \* bound: calls under way at a time, refresh apart
    MaxChanges,     \* bound: changes, here and elsewhere
    NewNames,       \* bound: the names playlists are created with
    ListLimit,      \* kDefaultListLimit: the client asks for no more
    NoList, NoCall, \* null
    MirrorFaults    \* what may go wrong: "error", "garbled", "elsewhere"

VARIABLES
    mirror,         \* playlists_
    current,        \* currentId_
    listing,        \* refresh(): at # "idle" is refreshInFlight_
    queued,         \* refreshQueued_
    net,            \* the calls
    srv,            \* the server's playlists of this user
    changes,        \* how many more changes are made
    doubt           \* history: what of a playlist the copy may have wrong

mirrorVars == <<mirror, current, listing, queued, net, srv, changes, doubt>>

Playlist == [id : Ids, name : Names, videos : Seq(Items)]
OnServer == [name : Names, videos : SUBSET Items]

(* What was sent, and what its callbacks captured: prevName of a rename,   *)
(* the snapshot of a delete.                                               *)
Call == [op : {"create", "rename", "delete", "add", "remove"}, id : Ids,
         name : Names \cup {NoList}, item : Items \cup {NoList},
         undo : Names \cup Playlist \cup {NoList}, rollback : BOOLEAN,
         answer : {"none", "done", "failed", "garbled"}]

MirrorAssumption ==
    /\ Ids \subseteq Nat /\ IsFiniteSet(Ids)
    /\ Names \subseteq Nat /\ NewNames \subseteq Names
    /\ MaxChanges \in Nat
    /\ NoList \notin OnServer /\ NoCall \notin Call

Busy(c) == net[c] # NoCall
Doubt(id, kind) == [doubt EXCEPT ![id] = IF "row" \in {@, kind} THEN "row" ELSE kind]

-------------------------------------------------------------------------------
(* The rows.                                                               *)

(* Each element of D at the place that is the number of those before it.   *)
Arranged(D, before) ==
    [n \in 1 .. Cardinality(D) |-> CHOOSE i \in D : before[i] = n - 1]

Before(p, q) == p.name < q.name \/ (p.name = q.name /\ p.id < q.id)
SortByName(rows) ==
    LET D == DOMAIN rows
        before == [i \in D |-> Cardinality({k \in D :
                      \/ Before(rows[k], rows[i])
                      \/ k < i /\ ~ Before(rows[i], rows[k])})]
        order == Arranged(D, before)
    IN [n \in D |-> rows[order[n]]]

IndicesOf(rows, id) == {i \in DOMAIN rows : rows[i].id = id}
Has(rows, id) == IndicesOf(rows, id) # {}
IndexOf(rows, id) == Min(IndicesOf(rows, id))
Find(rows, id) == rows[IndexOf(rows, id)]

(* Without what is at i; without any v.                                    *)
Without(s, i) == SubSeq(s, 1, i - 1) \o SubSeq(s, i + 1, Len(s))
WithoutAll(s, v) ==
    LET D == {i \in DOMAIN s : s[i] # v}
        order == Arranged(D, [i \in D |-> Cardinality({k \in D : k < i})])
    IN [n \in DOMAIN order |-> s[order[n]]]
WithRow(id, p) == [mirror EXCEPT ![IndexOf(mirror, id)] = p]

IsNameTaken(name, except) ==
    \E i \in DOMAIN mirror : mirror[i].id # except /\ mirror[i].name = name

(* What the "save to playlist" menu of video v shows of each row.           *)
SummariesForVideo(v) ==
    [i \in DOMAIN mirror |->
        [name |-> mirror[i].name, videoCount |-> Len(mirror[i].videos),
         contains |-> \E j \in DOMAIN mirror[i].videos : mirror[i].videos[j] = v]]

(* reconcileSingleSummary(): the items stay as they are; a row that is not *)
(* there is made.                                                          *)
ReconcileSingle(rows, id, name) ==
    SortByName(IF Has(rows, id)
                 THEN [rows EXCEPT ![IndexOf(rows, id)] = [@ EXCEPT !.name = name]]
                 ELSE Append(rows, [id |-> id, name |-> name, videos |-> <<>>]))

(* reconcileSummariesFromServer(): the listed rows, with the items they    *)
(* had; the others are dropped.                                            *)
ReconcileAll(list) ==
    LET ids == DOMAIN list
        row(id) == [id |-> id, name |-> list[id],
                    videos |-> IF Has(mirror, id) THEN Find(mirror, id).videos ELSE <<>>]
    IN SortByName(CHOOSE s \in [1 .. Cardinality(ids) -> {row(id) : id \in ids}] :
                      {s[i].id : i \in DOMAIN s} = ids)

-------------------------------------------------------------------------------
(* The user's operations.                                                  *)

ItemOps == {"add", "remove"}

(* Two calls on one playlist may take effect in either order: item calls   *)
(* disturb each other on one item, any other pair leaves the row open.     *)
Overlap(op, id, item) ==
    LET others == {c \in Calls : Busy(c) /\ net[c].id = id}
    IN IF \E c \in others : op \notin ItemOps \/ net[c].op \notin ItemOps THEN Doubt(id, "row")
       ELSE IF \E c \in others : net[c].item = item THEN Doubt(id, "items") ELSE doubt

Part(op) == IF op \in ItemOps THEN "items" ELSE "row"

(* What a refresh that is under way may miss.                              *)
Touched(op, id) ==
    IF listing.at \in {"sent", "done"}
      THEN [listing EXCEPT !.touched = @ \cup {<<id, Part(op)>>}] ELSE listing

Send(c, call) ==
    /\ net' = [net EXCEPT ![c] = call]
    /\ listing' = Touched(call.op, call.id)
    /\ UNCHANGED <<queued, srv>>

(* What the API sends; the callbacks of a rename hold the name before, of  *)
(* a delete the row, of an add or a remove the video.                      *)
ACall(op, id) ==
    [op |-> op, id |-> id, name |-> NoList, item |-> NoList,
     undo |-> NoList, rollback |-> FALSE, answer |-> "none"]
CreatePlaylistRemote(id, name) == [ACall("create", id) EXCEPT !.name = name]
RenamePlaylistRemote(id, name, before) ==
    [ACall("rename", id) EXCEPT !.name = name, !.undo = before]
DeletePlaylistRemote(p, rollback) ==
    [ACall("delete", p.id) EXCEPT !.undo = p, !.rollback = rollback]
AddPlaylistItem(id, v) == [ACall("add", id) EXCEPT !.item = v]
RemovePlaylistItem(id, v) == [ACall("remove", id) EXCEPT !.item = v]

(* createPlaylist(): the id is a new UUID.                                 *)
Create(c, id, name) ==
    LET p == [id |-> id, name |-> name, videos |-> <<>>] IN
    /\ ~ Busy(c) /\ doubt[id] = "unused"
    /\ ~ IsNameTaken(name, NoList)
    /\ mirror' = SortByName(Append(mirror, p))
    /\ doubt' = [doubt EXCEPT ![id] = "none"]
    /\ Send(c, CreatePlaylistRemote(id, name))
    /\ UNCHANGED current

Rename(c, id, name) ==
    LET p == Find(mirror, id) IN
    /\ ~ Busy(c) /\ Has(mirror, id)
    /\ ~ IsNameTaken(name, id)
    /\ p.name # name
    /\ mirror' = SortByName(WithRow(id, [p EXCEPT !.name = name]))
    /\ doubt' = Overlap("rename", id, NoList)
    /\ Send(c, RenamePlaylistRemote(id, name, p.name))
    /\ UNCHANGED current

(* deletePlaylist(): the first row of that id.                             *)
Delete(c, id) ==
    /\ ~ Busy(c) /\ Has(mirror, id)
    /\ mirror' = Without(mirror, IndexOf(mirror, id))
    /\ current' = IF current = id THEN NoList ELSE current
    /\ doubt' = Overlap("delete", id, NoList)
    /\ Send(c, DeletePlaylistRemote(Find(mirror, id), FALSE))

(* addVideoToPlaylist(): a video has an id.                                *)
Add(c, id, v) ==
    LET p == Find(mirror, id) IN
    /\ ~ Busy(c) /\ Has(mirror, id)
    /\ \A i \in DOMAIN p.videos : p.videos[i] # v
    /\ mirror' = WithRow(id, [p EXCEPT !.videos = Append(@, v)])
    /\ doubt' = Overlap("add", id, v)
    /\ Send(c, AddPlaylistItem(id, v))
    /\ UNCHANGED current

Remove(c, id, v) ==
    LET p == Find(mirror, id)
        at == {i \in DOMAIN p.videos : p.videos[i] = v}
    IN /\ ~ Busy(c) /\ Has(mirror, id) /\ at # {}
       /\ mirror' = WithRow(id, [p EXCEPT !.videos = Without(@, Min(at))])
       /\ doubt' = Overlap("remove", id, v)
       /\ Send(c, RemovePlaylistItem(id, v))
       /\ UNCHANGED current

Open(id) ==
    /\ current # id /\ Has(mirror, id)
    /\ current' = id
    /\ UNCHANGED <<mirror, listing, queued, net, srv, doubt>>

Close ==
    /\ current # NoList
    /\ current' = NoList
    /\ UNCHANGED <<mirror, listing, queued, net, srv, doubt>>

(* listPlaylists().                                                        *)
IdleListing == [at |-> "idle", list |-> <<>>, touched |-> {}]
InFlight == {<<net[c].id, Part(net[c].op)>> : c \in {d \in Calls : Busy(d)}}
NewListing == [at |-> "sent", list |-> <<>>, touched |-> InFlight]

(* Also on every sessionChanged with a valid session.                      *)
Refresh ==
    /\ IF listing.at # "idle" THEN queued' = TRUE /\ UNCHANGED listing
                              ELSE listing' = NewListing /\ UNCHANGED queued
    /\ UNCHANGED <<mirror, current, net, srv, doubt>>

-------------------------------------------------------------------------------
(* The server (the handlers of PlaylistStore, each taken whole).           *)

NameTakenOnServer(c) ==
    \E id \in Ids \ {net[c].id} : srv[id] # NoList /\ srv[id].name = net[c].name

Refuses(c) ==
    CASE net[c].op = "create" -> NameTakenOnServer(c)
      [] net[c].op = "rename" -> srv[net[c].id] = NoList \/ NameTakenOnServer(c)
      [] net[c].op = "add" -> srv[net[c].id] = NoList
      [] OTHER -> FALSE

Executed(c) ==
    LET id == net[c].id
        p == srv[id]
    IN [srv EXCEPT ![id] =
          CASE net[c].op = "create" -> [name |-> net[c].name, videos |-> {}]
            [] net[c].op = "rename" -> [p EXCEPT !.name = net[c].name]
            [] net[c].op = "delete" -> NoList
            [] net[c].op = "add" -> [p EXCEPT !.videos = @ \cup {net[c].item}]
            [] OTHER -> IF p = NoList THEN p ELSE [p EXCEPT !.videos = @ \ {net[c].item}]]

(* The playlist an answer describes is the one of the moment it was served. *)
Answer(c, answer) ==
    net' = [net EXCEPT ![c].answer = answer,
                       ![c].name = IF answer = "done" /\ net[c].op = "add"
                                     THEN srv[net[c].id].name ELSE @]

(* Spoils: a call that fails after it was executed is rolled back all the  *)
(* same.  A create that fails is deleted on the server, too.               *)
Spoils(c) ==
    CASE net[c].op = "create" -> doubt
      [] net[c].op \in ItemOps -> Doubt(net[c].id, "items")
      [] OTHER -> Doubt(net[c].id, "row")

Serve(c) ==
    /\ Busy(c) /\ net[c].answer = "none"
    /\ \/ /\ ~ Refuses(c)
          /\ srv' = Executed(c)
          /\ \/ Answer(c, "done") /\ UNCHANGED doubt
             \/ /\ "garbled" \in MirrorFaults
                /\ net[c].op \notin {"delete", "remove"}
                /\ Answer(c, "garbled") /\ UNCHANGED doubt
             \/ /\ "error" \in MirrorFaults
                /\ Answer(c, "failed") /\ doubt' = Spoils(c)
       \/ /\ Refuses(c) \/ "error" \in MirrorFaults
          /\ Answer(c, "failed")
          /\ UNCHANGED <<srv, doubt>>
    /\ UNCHANGED <<mirror, current, listing, queued>>

(* GET /v1/playlists: the first ones by name; a user may have more than    *)
(* are returned, and there is no next page.                                *)
Existing == {id \in Ids : srv[id] # NoList}
Returned == {id \in Existing :
                Cardinality({i \in Existing : srv[i].name < srv[id].name}) < ListLimit}

ServeList ==
    /\ listing.at = "sent"
    /\ listing' \in
         {[listing EXCEPT !.at = "done",
             !.list = [id \in Returned |-> srv[id].name],
             !.touched = @ \cup ((Existing \ Returned) \X {"row"})]}
         \cup (IF "error" \in MirrorFaults THEN {[listing EXCEPT !.at = "failed"]} ELSE {})
         \cup (IF "garbled" \in MirrorFaults THEN {[listing EXCEPT !.at = "garbled"]} ELSE {})
    /\ UNCHANGED <<mirror, current, queued, net, srv, doubt>>

(* The playlist is deleted on another device.                              *)
Elsewhere(id) ==
    /\ "elsewhere" \in MirrorFaults
    /\ srv[id] # NoList
    /\ srv' = [srv EXCEPT ![id] = NoList]
    /\ doubt' = Doubt(id, "row")
    /\ listing' = Touched("delete", id)
    /\ UNCHANGED <<mirror, current, queued, net>>

-------------------------------------------------------------------------------
(* The answers.                                                            *)

Answered(c, op, answer) == Busy(c) /\ net[c].op = op /\ net[c].answer = answer
End(c) == net' = [net EXCEPT ![c] = NoCall] /\ UNCHANGED <<queued, srv>>

CreateOrRenameDone(c) ==
    /\ Answered(c, "create", "done") \/ Answered(c, "rename", "done")
    /\ mirror' = ReconcileSingle(mirror, net[c].id, net[c].name)
    /\ End(c)
    /\ UNCHANGED <<current, listing, doubt>>

(* deletePlaylist(newId), which calls the server again.                    *)
CreateFailed(c) ==
    LET id == net[c].id IN
    /\ Answered(c, "create", "failed")
    /\ IF Has(mirror, id)
         THEN /\ mirror' = Without(mirror, IndexOf(mirror, id))
              /\ current' = IF current = id THEN NoList ELSE current
              /\ Send(c, DeletePlaylistRemote(Find(mirror, id), TRUE))
              /\ UNCHANGED doubt
         ELSE /\ End(c)
              /\ doubt' = Doubt(id, "row")
              /\ UNCHANGED <<mirror, current, listing>>

RenameFailed(c) ==
    LET id == net[c].id IN
    /\ Answered(c, "rename", "failed")
    /\ mirror' = IF Has(mirror, id)
                   THEN SortByName(WithRow(id, [Find(mirror, id) EXCEPT !.name = net[c].undo]))
                   ELSE mirror
    /\ End(c)
    /\ UNCHANGED <<current, listing, doubt>>

(* Mutant: a row that cannot be deleted is not shown again.                *)
NotRestored(c) == mirror

Restored(c) == SortByName(Append(mirror, net[c].undo))

(* The row comes back as it was, whether or not there is one by now.       *)
DeleteFailed(c) ==
    /\ Answered(c, "delete", "failed")
    /\ mirror' = Restored(c)
    /\ doubt' = IF net[c].rollback THEN Doubt(net[c].id, "row") ELSE doubt
    /\ End(c)
    /\ UNCHANGED <<current, listing>>

(* The item is replaced by the server's; the summary reconciled.           *)
AddDone(c) ==
    /\ Answered(c, "add", "done")
    /\ mirror' = ReconcileSingle(mirror, net[c].id, net[c].name)
    /\ End(c)
    /\ UNCHANGED <<current, listing, doubt>>

AddFailed(c) ==
    LET id == net[c].id IN
    /\ Answered(c, "add", "failed")
    /\ mirror' =
         IF Has(mirror, id)
           THEN WithRow(id, [Find(mirror, id) EXCEPT !.videos = WithoutAll(@, net[c].item)])
           ELSE mirror
    /\ End(c)
    /\ UNCHANGED <<current, listing, doubt>>

RemoveFailed(c) ==
    LET id == net[c].id IN
    /\ Answered(c, "remove", "failed")
    /\ mirror' = IF Has(mirror, id)
                   THEN WithRow(id, [Find(mirror, id) EXCEPT !.videos = Append(@, net[c].item)])
                   ELSE mirror
    /\ End(c)
    /\ UNCHANGED <<current, listing, doubt>>

(* Nothing to do, or nothing is done.                                      *)
Ignored(c) ==
    /\ Busy(c)
    /\ \/ net[c].answer = "garbled"
       \/ net[c].answer = "done" /\ net[c].op \in {"delete", "remove"}
    /\ End(c)
    /\ UNCHANGED <<mirror, current, listing, doubt>>

OpenIn(rows) == IF Has(rows, current) THEN current ELSE NoList

(* Mutant: a refresh asked for meanwhile is forgotten.                     *)
Dropped == /\ listing' = IdleListing
           /\ UNCHANGED queued

(* A refresh asked for meanwhile is sent now.                              *)
NextRefresh ==
    /\ listing' = IF queued THEN NewListing ELSE IdleListing
    /\ queued' = FALSE

ListDone ==
    /\ listing.at = "done"
    /\ mirror' = ReconcileAll(listing.list)
    /\ current' = OpenIn(mirror')
    /\ doubt' = [id \in Ids |-> IF doubt[id] = "unused" THEN "unused"
                                ELSE IF <<id, "row">> \in listing.touched THEN "row"
                                ELSE IF doubt[id] = "row" /\ <<id, "items">> \notin listing.touched
                                  THEN "items" ELSE doubt[id]]
    /\ NextRefresh
    /\ UNCHANGED <<net, srv>>

ListFailed ==
    /\ listing.at = "failed"
    /\ NextRefresh
    /\ UNCHANGED <<mirror, current, net, srv, doubt>>

-------------------------------------------------------------------------------
(* Playlists that are there already, and ids that are spent.               *)
MirrorInit ==
    /\ mirror = <<>> /\ current = NoList /\ changes \in 0 .. MaxChanges
    /\ listing = IdleListing /\ queued = FALSE
    /\ net = [c \in Calls |-> NoCall]
    /\ doubt \in [Ids -> {"unused", "row"}]
    /\ \E old \in SUBSET {id \in Ids : doubt[id] = "row"} : \E name \in [old -> Names] :
         /\ \A a, b \in old : a # b => name[a] # name[b]
         /\ srv = [id \in Ids |-> IF id \in old THEN [name |-> name[id], videos |-> {}] ELSE NoList]

User(c) ==
    \E id \in Ids :
        \/ \E name \in NewNames : Create(c, id, name)
        \/ \E name \in Names : Rename(c, id, name)
        \/ Delete(c, id)
        \/ \E v \in Items : Add(c, id, v) \/ Remove(c, id, v)

Deliver(c) ==
    \/ CreateOrRenameDone(c) \/ CreateFailed(c) \/ RenameFailed(c) \/ DeleteFailed(c)
    \/ AddDone(c) \/ AddFailed(c) \/ RemoveFailed(c) \/ Ignored(c)

MirrorNext ==
    \/ /\ changes > 0 /\ changes' = changes - 1
       /\ \/ \E c \in Calls : User(c)
          \/ \E id \in Ids : Elsewhere(id)
    \/ /\ UNCHANGED changes
       /\ \/ \E c \in Calls : Serve(c) \/ Deliver(c)
          \/ \E id \in Ids : Open(id)
          \/ Close \/ Refresh \/ ServeList \/ ListDone \/ ListFailed

(* A call ends: the server answers or the connection fails.                *)
MirrorFairness ==
    /\ WF_mirrorVars(ServeList /\ UNCHANGED changes)
    /\ WF_mirrorVars((ListDone \/ ListFailed) /\ UNCHANGED changes)
MirrorSpec == MirrorInit /\ [][MirrorNext]_mirrorVars

-------------------------------------------------------------------------------
(* Properties.                                                             *)

(* What the client shows of a playlist is what the server has, whenever    *)
(* no call on it is under way: one row, with its name, and its videos.     *)
(* Roll-backs restore it.  Only calls that overlapped on the playlist, a   *)
(* failure of a call that had taken effect, or another device leave the    *)
(* row in doubt, until a refresh that overlaps none of these; the videos   *)
(* stay in doubt, nothing fetches them.  And a list that is cut off: what  *)
(* it lacks is not deleted, as playlists_model.cpp:447 has it, but dropped *)
(* all the same (100 are returned and 200 allowed, playlist.hpp:24, 28).   *)
(* The open playlist is one of those shown.                                *)
MirrorAgrees ==
    /\ current # NoList => Has(mirror, current)
    /\ \A id \in Ids :
        LET rows == IndicesOf(mirror, id) IN
        /\ doubt[id] \in {"none", "items"}
        /\ \A c \in Calls : Busy(c) => net[c].id # id
        => /\ Cardinality(rows) = IF srv[id] = NoList THEN 0 ELSE 1
           /\ \A i \in rows, v \in Items :
                LET shown == SummariesForVideo(v)[i] IN
                /\ shown.name = srv[id].name
                /\ doubt[id] = "none" =>
                     /\ shown.contains = (v \in srv[id].videos)
                     /\ shown.videoCount = Cardinality(srv[id].videos)

(* A refresh asked for while another one is under way is carried out,      *)
(* whether that one succeeds or fails; only an answer that is neither      *)
(* leaves the client loading for ever (playlists_model.cpp:385).           *)
RefreshServed == queued ~> (~ queued \/ listing.at = "garbled")
================================================================================
