----------------------------- MODULE PlaylistStore -----------------------------
(***************************************************************************)
(* The playlist handlers of the server (PlazmaServer/src/handlers/         *)
(* playlists): create, rename, delete, add an item, remove an item, each a *)
(* sequence of statements on five Scylla tables that share no transaction. *)
(* Handlers run concurrently; a statement may fail, with or without        *)
(* effect, and the server may stop between any two.                        *)
(*                                                                         *)
(* A request that arrives has passed the head of its handler: the user is  *)
(* authenticated, the id a UUID, the body JSON with the fields the handler *)
(* asks for, the trimmed name neither empty nor too long (400, 401, 404,   *)
(* 422 before any table is looked at).                                     *)
(*                                                                         *)
(* One step is one statement.  A request that ends before its first write  *)
(* with an answer that depends on nothing else (404, 409, the idempotent   *)
(* 200 and 204), or because a read failed, leaves no trace and has no step *)
(* of its own.                                                             *)
(***************************************************************************)
EXTENDS Integers, FiniteSets, SequencesExt

CONSTANTS
    Users, Playlists, Videos,
    Names,          \* playlist names, trimmed
    Fold,           \* CaseFold() of each name
    Thumbnailed,    \* the videos that have a thumbnail
    MaxPlaylists,   \* kMaxPlaylistsPerUser
    MaxItems,       \* kMaxItemsPerPlaylist
    MaxCovers,      \* kPreviewThumbs
    NoUser, NoName, NoRow, NoPlaylist,  \* null
    Slots,          \* bound: requests served at a time
    MaxStamp,       \* bound: items added in a run
    Ops,            \* the operations that are called
    Overlap,        \* those that may run at the same time on one playlist
    Faults          \* what may go wrong: "error", "crash"

ASSUME FoldAssumption == NoName \notin Names /\ DOMAIN Fold = Names
ASSUME LimitsAssumption ==
    /\ MaxPlaylists \in Nat \ {0} /\ MaxItems \in Nat \ {0} /\ MaxCovers \in Nat \ {0}
    /\ MaxStamp \in Nat
    /\ Thumbnailed \subseteq Videos
    /\ Overlap \subseteq Ops /\ Ops \subseteq {"create", "rename", "delete", "add", "remove"}

VARIABLES
    db,     \* the tables
    req,    \* the requests being served
    now,    \* the clock, advanced by every added item
    hit     \* history: whether a fault, or two overlapping requests, hit a playlist

vars == <<db, req, now, hit>>

Folded == {Fold[n] : n \in Names}
(* A metadata row.  Covers are named by the video they show.               *)
Row == [user : Users \cup {NoUser}, name : Names \cup {NoName}, count : Nat,
        covers : Seq(Videos)]
ASSUME NullAssumption == NoUser \notin Users /\ NoPlaylist \notin Playlists /\ NoRow \notin Row

(* A row of playlist_items; its key is the time it was added, and the      *)
(* video.  No two are added in the same millisecond.                       *)
Item == [at : Nat, video : Videos]

(* playlist_by_id, playlists_by_user, playlist_name_by_user,               *)
(* playlist_items and playlists_by_video (0: no row).                      *)
Tables ==
    [byId : [Playlists -> Row \cup {NoRow}],
     byUser : [Users \X Playlists -> Row \cup {NoRow}],
     names : [Users \X Folded -> Playlists \cup {NoPlaylist}],
     items : [Playlists -> SUBSET Item],
     members : [Users \X Videos \X Playlists -> Nat]]

Steps == {"idle", "count", "reserve", "insertById", "insertByUser",
          "nameById", "nameByUser", "release",
          "dropByUser", "dropById", "readMembers", "purge", "dropItems",
          "lookup", "existing", "member", "insertItem",
          "dropItem", "dropMember", "covers", "countById", "countByUser"}

(* A request: the handler, the statement it is about to execute, its       *)
(* arguments and what it holds in locals: the metadata row it loaded, a    *)
(* time, the members still to be purged.                                   *)
Idle == [op |-> "none", at |-> "idle", user |-> NoUser, pl |-> NoPlaylist,
         arg |-> NoName, meta |-> NoRow, stamp |-> 0, todo |-> {}]
Request ==
    [op : Ops, at : Steps \ {"idle"}, user : Users, pl : Playlists,
     arg : Names \cup Videos \cup {NoName}, meta : Row \cup {NoRow}, stamp : Nat,
     todo : SUBSET Videos]

-------------------------------------------------------------------------------
(* Serving a request.                                                      *)

(* A request arrives for playlist p.  Handlers take no lock: with Overlap  *)
(* = Ops anything may run at the same time.                                *)
Arrives(r, q) ==
    /\ q.op \in Ops
    /\ req[r] = Idle
    /\ LET others == {s \in Slots : req[s].pl = q.pl} IN
         /\ \A s \in others : {q.op, req[s].op} \subseteq Overlap
         /\ hit' = IF others = {} THEN hit ELSE [hit EXCEPT ![q.pl] = @ \cup {"overlap"}]
    /\ req' = [req EXCEPT ![r] = q]
    /\ UNCHANGED db

(* A handler looks at the row it was asked about: LoadPlaylistById().      *)
Mine(u, p) == db.byId[p] # NoRow /\ db.byId[p].user = u

Asked(op, at, u, p, x) ==
    [op |-> op, at |-> at, user |-> u, pl |-> p, arg |-> x, meta |-> db.byId[p],
     stamp |-> 0, todo |-> {}]

At(r, step) == req[r].at = step
To(r, step) == [req[r] EXCEPT !.at = step]

(* A statement that reads: the request becomes q.  If it fails before the  *)
(* first write, nothing has happened.                                      *)
Reads(r, q) ==
    /\ req' = [req EXCEPT ![r] = q]
    /\ UNCHANGED <<db, now, hit>>

(* A statement that makes the tables d: the request becomes q, or c when   *)
(* it throws; a statement that throws may have been executed all the same. *)
Writes(r, d, q, c) ==
    /\ UNCHANGED now
    /\ \/ db' = d /\ req' = [req EXCEPT ![r] = q] /\ UNCHANGED hit
       \/ /\ "error" \in Faults
          /\ db' \in {db, d}
          /\ req' = [req EXCEPT ![r] = c]
          /\ hit' = [hit EXCEPT ![req[r].pl] = @ \cup {"fault"}]

(* The catch around a handler answers 500.                                 *)
Failed == Idle

-------------------------------------------------------------------------------
(* The metadata tables and the reservation of names.                       *)

(* UPDATE writes the columns it names, and makes the row if there is none. *)
Named(row, u, n) ==
    IF row = NoRow THEN [user |-> u, name |-> n, count |-> 0, covers |-> <<>>]
                   ELSE [row EXCEPT !.name = n]
Counted(row, u, meta) ==
    IF row = NoRow THEN [user |-> u, name |-> NoName, count |-> meta.count,
                         covers |-> meta.covers]
                   ELSE [row EXCEPT !.count = meta.count, !.covers = meta.covers]

Listed(u) == {p \in Playlists : db.byUser[u, p] # NoRow}

(* create.cpp.  A playlist that exists is answered at once.                *)
Create(r, u, p, n) ==
    /\ db.byId[p] = NoRow
    /\ Arrives(r, Asked("create", "count", u, p, n))
    /\ UNCHANGED now

CountPlaylists(r) ==
    /\ At(r, "count")
    /\ Reads(r, IF Cardinality(Listed(req[r].user)) >= MaxPlaylists
                  THEN Idle ELSE To(r, "reserve"))

(* Mutant: INSERT without IF NOT EXISTS.                                   *)
NeverTaken(k) == TRUE

Free(k) == db.names[k] = NoPlaylist

(* TryReserveName(), of create and rename.  409 when the name is taken,    *)
(* whoever has it.                                                         *)
Reserve(r) ==
    LET q == req[r]
        k == <<q.user, Fold[q.arg]>>
    IN /\ At(r, "reserve")
       /\ IF Free(k)
            THEN Writes(r, [db EXCEPT !.names[k] = q.pl],
                        To(r, IF q.op = "create" THEN "insertById" ELSE "nameById"), Failed)
            ELSE Reads(r, Idle)

NewRow(q) == [user |-> q.user, name |-> q.arg, count |-> 0, covers |-> <<>>]

(* InsertMetadataBoth().                                                   *)
InsertById(r) ==
    /\ At(r, "insertById")
    /\ Writes(r, [db EXCEPT !.byId[req[r].pl] = NewRow(req[r])], To(r, "insertByUser"), Failed)

InsertByUser(r) ==
    LET q == req[r] IN
    /\ At(r, "insertByUser")
    /\ Writes(r, [db EXCEPT !.byUser[<<q.user, q.pl>>] = NewRow(q)], Idle, Failed)

(* rename.cpp.  The name it has already is answered at once; a change of   *)
(* case needs no reservation.                                              *)
Rename(r, u, p, n) ==
    /\ Mine(u, p)
    /\ db.byId[p].name # n
    /\ Arrives(r, Asked("rename", IF Fold[db.byId[p].name] = Fold[n] THEN "nameById"
                                                                      ELSE "reserve", u, p, n))
    /\ UNCHANGED now

(* UpdateName().                                                           *)
NameById(r) ==
    LET q == req[r] IN
    /\ At(r, "nameById")
    /\ Writes(r, [db EXCEPT !.byId[q.pl] = Named(@, NoUser, q.arg)], To(r, "nameByUser"), Failed)

NameByUser(r) ==
    LET q == req[r] IN
    /\ At(r, "nameByUser")
    /\ Writes(r, [db EXCEPT !.byUser[<<q.user, q.pl>>] = Named(@, q.user, q.arg)],
              IF Fold[q.meta.name] = Fold[q.arg] THEN Idle ELSE To(r, "release"), Failed)

(* ReleaseName(), best effort, of rename and delete: the name the playlist *)
(* had when the request loaded it.                                         *)
Release(r) ==
    LET q == req[r]
        next == IF q.op = "delete" THEN To(r, "readMembers") ELSE Idle
    IN /\ At(r, "release")
       /\ Writes(r, [db EXCEPT !.names[<<q.user, Fold[q.meta.name]>>] = NoPlaylist], next, next)

-------------------------------------------------------------------------------
(* delete.cpp.                                                             *)

Delete(r, u, p) ==
    /\ Mine(u, p)
    /\ Arrives(r, Asked("delete", "dropByUser", u, p, NoName))
    /\ UNCHANGED now

(* Mutant: best effort, like the statements that follow.                   *)
DropByUserBestEffort(r) ==
    /\ At(r, "dropByUser")
    /\ Writes(r, [db EXCEPT !.byUser[<<req[r].user, req[r].pl>>] = NoRow],
              To(r, "dropById"), To(r, "dropById"))

DropByUser(r) ==
    /\ At(r, "dropByUser")
    /\ Writes(r, [db EXCEPT !.byUser[<<req[r].user, req[r].pl>>] = NoRow], To(r, "dropById"), Failed)

DropById(r) ==
    /\ At(r, "dropById")
    /\ Writes(r, [db EXCEPT !.byId[req[r].pl] = NoRow], To(r, "release"), Failed)

(* The videos of the playlist; none when the statement fails.              *)
ReadMembers(r) ==
    /\ At(r, "readMembers")
    /\ Writes(r, db, [To(r, "purge") EXCEPT !.todo = {i.video : i \in db.items[req[r].pl]}],
              To(r, "dropItems"))

PurgeMember(r, v) ==
    LET q == req[r]
        rest == q.todo \ {v}
        next == [To(r, "purge") EXCEPT !.todo = rest]
    IN /\ At(r, "purge")
       /\ v \in q.todo
       /\ Writes(r, [db EXCEPT !.members[<<q.user, v, q.pl>>] = 0], next, next)

Purged(r) ==
    /\ At(r, "purge")
    /\ req[r].todo = {}
    /\ Reads(r, To(r, "dropItems"))

DropItems(r) ==
    /\ At(r, "dropItems")
    /\ Writes(r, [db EXCEPT !.items[req[r].pl] = {}], Idle, Idle)

-------------------------------------------------------------------------------
(* item_add.cpp.                                                           *)

AddItem(r, u, p, v) ==
    /\ now < MaxStamp
    /\ Mine(u, p)
    /\ Arrives(r, Asked("add", "lookup", u, p, v))
    /\ UNCHANGED now

(* LookupVideoMembership(), of add and remove.                             *)
Lookup(r) ==
    LET q == req[r]
        m == db.members[q.user, q.arg, q.pl]
    IN /\ At(r, "lookup")
       /\ CASE q.op = "add" -> Reads(r, [To(r, "existing") EXCEPT !.stamp = m])
            [] q.op = "remove" /\ m = 0 -> Reads(r, Idle)
            [] q.op = "remove" /\ m # 0 -> Reads(r, [To(r, "dropItem") EXCEPT !.stamp = m])

(* GET /v1/users/me/playlists/by_video/:id, which reads one table.         *)
ByVideo(u, v) == {p \in Playlists : db.members[u, v, p] # 0}

LoadExistingItem(p, at, v) == [at |-> at, video |-> v] \in db.items[p]

(* The row of the video, or none: other handlers delete it at any time.    *)
LoadCanonicalVideo(v) == {<<>>, <<v>>}

(* The item the membership stands for is there: 200.  Otherwise go on,     *)
(* unless the playlist is full (413) or the video is gone (404).           *)
Existing(r) ==
    LET q == req[r]
        added == LoadExistingItem(q.pl, q.stamp, q.arg)
    IN
    /\ At(r, "existing")
    /\ \E canonical \in LoadCanonicalVideo(q.arg) :
       \/ /\ added \/ q.meta.count >= MaxItems \/ canonical = <<>>
          /\ Reads(r, Idle)
       \/ /\ ~ added /\ q.meta.count < MaxItems /\ canonical # <<>>
          /\ now < MaxStamp
          /\ now' = now + 1
          /\ req' = [req EXCEPT ![r] = [To(r, "member") EXCEPT !.stamp = now']]
          /\ UNCHANGED <<db, hit>>

(* Mutant: the membership is written without IF NOT EXISTS.                *)
NeverAdded(q) == TRUE

FirstAdd(q) == db.members[q.user, q.arg, q.pl] = 0

(* The first add wins; the loser answers 200 with what it finds.           *)
Member(r) ==
    LET q == req[r] IN
    /\ At(r, "member")
    /\ IF FirstAdd(q)
         THEN Writes(r, [db EXCEPT !.members[<<q.user, q.arg, q.pl>>] = q.stamp],
                     To(r, "insertItem"), Failed)
         ELSE Reads(r, Idle)

(* Mutant: the new cover goes to the end.                                  *)
CoversThen(covers, v) ==
    IF v \in Thumbnailed /\ Len(covers) < MaxCovers THEN Append(covers, v) ELSE covers

(* The covers with v in front, if it has a thumbnail.                      *)
CoversWith(covers, v) ==
    LET all == IF v \in Thumbnailed THEN <<v>> \o RemoveFirst(covers, v) ELSE covers
    IN SubSeq(all, 1, IF Len(all) < MaxCovers THEN Len(all) ELSE MaxCovers)

InsertItem(r) ==
    LET q == req[r] IN
    /\ At(r, "insertItem")
    /\ Writes(r, [db EXCEPT !.items[q.pl] = @ \cup {[at |-> q.stamp, video |-> q.arg]}],
              [To(r, "countById") EXCEPT !.meta.count = @ + 1,
                                         !.meta.covers = CoversWith(@, q.arg)],
              Failed)

(* UpdateCountAndCovers(), of add and remove.  An exception ends either    *)
(* handler.                                                                *)
CountById(r) ==
    LET q == req[r] IN
    /\ At(r, "countById")
    /\ Writes(r, [db EXCEPT !.byId[q.pl] = Counted(@, NoUser, q.meta)],
              To(r, "countByUser"), Failed)

CountByUser(r) ==
    LET q == req[r] IN
    /\ At(r, "countByUser")
    /\ Writes(r, [db EXCEPT !.byUser[<<q.user, q.pl>>] = Counted(@, q.user, q.meta)], Idle, Failed)

-------------------------------------------------------------------------------
(* item_remove.cpp.  Every write is best effort.                           *)

RemoveItem(r, u, p, v) ==
    /\ Mine(u, p)
    /\ Arrives(r, Asked("remove", "lookup", u, p, v))
    /\ UNCHANGED now

DropItem(r) ==
    LET q == req[r] IN
    /\ At(r, "dropItem")
    /\ Writes(r, [db EXCEPT !.items[q.pl] = @ \ {[at |-> q.stamp, video |-> q.arg]}],
              To(r, "dropMember"), To(r, "dropMember"))

DropMember(r) ==
    LET q == req[r] IN
    /\ At(r, "dropMember")
    /\ Writes(r, [db EXCEPT !.members[<<q.user, q.arg, q.pl>>] = 0],
              To(r, "covers"), To(r, "covers"))

(* RecomputeCoverThumbnails(): the newest items that have a thumbnail,     *)
(* newest first.  (Its LIMIT 16 is above any number of items explored.)    *)
CoversOf(S) ==
    LET shown == {i \in S : i.video \in Thumbnailed}
    IN {c \in SeqOf(Videos, MaxCovers) :
          \E g \in [DOMAIN c -> shown] :
             /\ \A j \in DOMAIN c : c[j] = g[j].video
             /\ \A j, k \in DOMAIN c : j < k => g[j].at > g[k].at
             /\ \A i \in shown \ Range(g) :
                    Len(c) = MaxCovers /\ \A j \in DOMAIN c : g[j].at > i.at}

(* Mutant: the count the row should have by now is trusted.                *)
DecrementedAnyway(n) == n - 1

Decremented(n) == IF n > 0 THEN n - 1 ELSE 0

(* The count of the row as it was loaded, minus one; the old covers when   *)
(* the new ones cannot be read.                                            *)
Covers(r) ==
    LET q == req[r]
        next == [To(r, "countById") EXCEPT !.meta.count = Decremented(@)]
    IN /\ At(r, "covers")
       /\ \E c \in CoversOf(db.items[q.pl]) :
             Writes(r, db, [next EXCEPT !.meta.covers = c], next)

-------------------------------------------------------------------------------
(* The server stops; it starts again with the tables as they are.          *)
Restart ==
    /\ "crash" \in Faults
    /\ \E r \in Slots : req[r] # Idle
    /\ req' = [r \in Slots |-> Idle]
    /\ hit' = [p \in Playlists |->
                 IF \E r \in Slots : req[r].pl = p THEN hit[p] \cup {"fault"} ELSE hit[p]]
    /\ UNCHANGED <<db, now>>

Init ==
    /\ db = [byId |-> [p \in Playlists |-> NoRow],
             byUser |-> [k \in Users \X Playlists |-> NoRow],
             names |-> [k \in Users \X Folded |-> NoPlaylist],
             items |-> [p \in Playlists |-> {}],
             members |-> [k \in Users \X Videos \X Playlists |-> 0]]
    /\ req = [r \in Slots |-> Idle]
    /\ now = 0
    /\ hit = [p \in Playlists |-> {}]

Arrival(r) ==
    \E u \in Users, p \in Playlists :
        \/ Delete(r, u, p)
        \/ \E n \in Names : Create(r, u, p, n) \/ Rename(r, u, p, n)
        \/ \E v \in Videos : AddItem(r, u, p, v) \/ RemoveItem(r, u, p, v)

Statement(r) ==
    \/ CountPlaylists(r) \/ Reserve(r) \/ InsertById(r) \/ InsertByUser(r)
    \/ NameById(r) \/ NameByUser(r) \/ Release(r)
    \/ DropByUser(r) \/ DropById(r) \/ ReadMembers(r) \/ Purged(r) \/ DropItems(r)
    \/ \E v \in Videos : PurgeMember(r, v)
    \/ Lookup(r) \/ Existing(r) \/ Member(r) \/ InsertItem(r)
    \/ DropItem(r) \/ DropMember(r) \/ Covers(r) \/ CountById(r) \/ CountByUser(r)

Next == (\E r \in Slots : Arrival(r) \/ Statement(r)) \/ Restart

Spec == Init /\ [][Next]_vars

-------------------------------------------------------------------------------
(* Properties.                                                             *)

(* Every variable holds a value of its type, and a request waits only at a *)
(* statement its handler has.                                              *)
TypeOK ==
    /\ db \in Tables
    /\ req \in [Slots -> Request \cup {Idle}]
    /\ now \in Nat
    /\ hit \in [Playlists -> SUBSET {"fault", "overlap"}]

(* A name a playlist is shown under, in the list or on its own page, is    *)
(* reserved for that playlist, whatever statement failed and wherever the  *)
(* server stopped: it is reserved before it is shown and given back after  *)
(* it is not (create.cpp:115, rename.cpp:90, delete.cpp:82).  So no two    *)
(* playlists of a user ever share a name.  Requests on one playlist do not *)
(* overlap here (see NamesUnique).                                         *)
NameIsReserved ==
    \A u \in Users, p \in Playlists :
        /\ p \in Listed(u) /\ db.byUser[u, p].name # NoName =>
              db.names[u, Fold[db.byUser[u, p].name]] = p
        /\ Mine(u, p) => db.names[u, Fold[db.byId[p].name]] = p

(* "Name uniqueness per user: case-insensitive" (docs/playlists.md, 8).    *)
NamesUnique ==
    \A u \in Users : \A p, q \in Listed(u) :
        p # q /\ NoName \notin {db.byUser[u, p].name, db.byUser[u, q].name}
          => Fold[db.byUser[u, p].name] # Fold[db.byUser[u, q].name]

(* "disappeared beats ghost" (docs/playlists.md, 5.2): what the list shows *)
(* can be opened, renamed and deleted by the user it is listed for.        *)
NoGhosts == \A u \in Users : \A p \in Listed(u) : Mine(u, p)

(* In a playlist no fault has hit, a video appears once, however many adds *)
(* race (item_add.cpp:220-255), and every item it shows can be found       *)
(* again, and so removed, through the membership index.                    *)
ItemsIndexed ==
    \A u \in Users, p \in Playlists :
        Mine(u, p) /\ "fault" \notin hit[p] =>
            \A i \in db.items[p] : db.members[u, i.video, p] = i.at

(* A playlist that nothing has hit and nobody is working on agrees with    *)
(* itself: both metadata rows are the same, the count is the number of     *)
(* items, the covers are the newest ones whether they were prepended by    *)
(* adds or recomputed by a removal, and the membership index lists exactly *)
(* the items.                                                              *)
Agree ==
    \A u \in Users, p \in Playlists :
        Mine(u, p) /\ hit[p] = {} /\ (\A r \in Slots : req[r].pl # p) =>
            /\ db.byUser[u, p] = db.byId[p]
            /\ db.byId[p].count = Cardinality(db.items[p])
            /\ db.byId[p].covers \in CoversOf(db.items[p])
            /\ {v \in Videos : p \in ByVideo(u, v)} = {i.video : i \in db.items[p]}
================================================================================
