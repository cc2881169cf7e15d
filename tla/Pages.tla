--------------------------------- MODULE Pages ---------------------------------
(***************************************************************************)
(* Reading a list page by page while it changes: the items of a playlist   *)
(* (PlazmaServer/src/handlers/playlists/items_list.cpp, detail.cpp) and    *)
(* the videos a search finds (PlazmaServer/src/handlers/videos/            *)
(* video_list.cpp), newest first or by a rank that itself changes.  The    *)
(* server keeps nothing between two pages: the cursor it hands out is the  *)
(* key of the last row and, of a search, the query it was made for.        *)
(***************************************************************************)
EXTENDS Naturals, SequencesExt

CONSTANTS
    Ids,            \* video ids, in their order
    MaxTime,        \* bound: milliseconds in which rows are added
    MaxLimit,       \* rows on a page at most, and by default
    LimitArgs,      \* what ?limit= may be
    Absent, Garbled, NoCursor

(* A row.  rank is a score or a number of views, which recent lists and    *)
(* playlists do not sort by.                                               *)
Row == [rank : 0..1, at : 0..MaxTime, id : Ids]
Lists == {"items", "recent", "ranked"}

(* ?q= and ?sort=.  A search without ?sort= is ranked by relevance; the    *)
(* items have no query.                                                    *)
Queries(list) == IF list = "items" THEN {"items"} ELSE Lists \ {"items"}

(* What a cursor says, see below.                                          *)
Cursors == [v : {1}, k : Row, q : Lists]

PagesAssumption ==
    /\ Ids \subseteq Nat /\ IsFiniteSet(Ids)
    /\ MaxTime \in Nat /\ MaxLimit \in Nat \ {0}
    /\ LimitArgs \subseteq Nat \cup {Absent, Garbled}
    /\ NoCursor \notin Cursors /\ NoCursor # Garbled

VARIABLES
    rows,   \* the list
    clock,  \* NowMs()
    sweep   \* a client: where it is, what it asks for, its cursor, what it
            \* was shown, the ids that were there all the time
pagesVars == <<rows, clock, sweep>>

Earlier(k, l) == k.at < l.at \/ (k.at = l.at /\ k.id < l.id)

(* ORDER BY added_at ASC, video_id ASC, or body["sort"].                   *)
Precedes(list, k, l) ==
    CASE list = "items"  -> Earlier(k, l)
      [] list = "recent" -> Earlier(l, k)
      [] list = "ranked" -> l.rank < k.rank \/ (l.rank = k.rank /\ Earlier(l, k))

(* Mutant: the time alone.                                                 *)
LaterThan(list, key, k) == IF list = "items" THEN key.at < k.at ELSE k.at < key.at

(* WHERE (added_at, video_id) > (?, ?), or search_after.                   *)
Beyond(list, key, k) == Precedes(list, key, k)

(* EncodeItemCursor() has no query, EncodeCursor() the one it is for.      *)
ItemCursor(k) == [v |-> 1, k |-> k, q |-> "items"]
VideoCursor(list, k) == [v |-> 1, k |-> k, q |-> list]
Cursor(list, k) == IF list = "items" THEN ItemCursor(k) ELSE VideoCursor(list, k)

(* A token that cannot be decoded is none.                                 *)
DecodeItemCursor(token) == IF token = Garbled THEN {} ELSE {c \in {token} : c.v = 1}
DecodeCursor(token) == IF token = Garbled THEN {} ELSE {c \in {token} : c.v = 1}

(* "cursor/query mismatch".                                                *)
Matches(list, c) == c.q = list
Accepts(list, token) ==
    token # NoCursor =>
        IF list = "items" THEN DecodeItemCursor(token) # {}
                          ELSE \E c \in DecodeCursor(token) : Matches(list, c)

(* std::clamp(stoi(limit), 1, max).                                        *)
LimitOf(arg) ==
    IF arg = Absent THEN MaxLimit
    ELSE IF arg = 0 THEN 1
    ELSE IF arg > MaxLimit THEN MaxLimit ELSE arg

Following(list, cursor) == {k \in rows : cursor = NoCursor \/ Beyond(list, cursor.k, k)}

(* ORDER BY ... LIMIT ?  No two rows have one id, so there is one order.   *)
InOrder(S, list) ==
    CHOOSE s \in [1 .. Cardinality(S) -> S] :
        \A i, j \in DOMAIN s : i < j => Precedes(list, s[i], s[j])
UpTo(n, s) == SubSeq(s, 1, IF Len(s) < n THEN Len(s) ELSE n)
First(S, list, n) == UpTo(n, InOrder(S, list))

(* Whether there may be more: the items are asked for one too many, a      *)
(* search result that is a full page may have a successor.                 *)
More(list, found, limit) == IF list = "items" THEN Len(found) > limit ELSE Len(found) >= limit

Reading == sweep.at \in {"idle", "paging"}

(* GET .../items, GET /v1/playlists/:id or GET /v1/videos?q=, without a    *)
(* cursor or with the one the last page came with.                         *)
Page(list, cursor, arg) ==
    LET limit == LimitOf(arg)
        found == First(Following(list, cursor), list, limit + 1)
        page == UpTo(limit, found)
        seen == [sweep EXCEPT !.list = list, !.shown = @ \o page,
                              !.kept = IF sweep.at = "idle" THEN {k.id : k \in rows} ELSE @]
    IN /\ Reading /\ arg # Garbled /\ Accepts(list, cursor)
       /\ sweep' = IF More(list, found, limit)
            THEN [seen EXCEPT !.at = "paging", !.cursor = Cursor(list, Last(page))]
            ELSE [seen EXCEPT !.at = "done", !.cursor = NoCursor]
       /\ UNCHANGED <<rows, clock>>

(* 400: the cursor cannot be decoded or was made for another query, or the *)
(* limit is no number.                                                     *)
Refuse(list, cursor, arg) ==
    /\ Reading /\ (arg = Garbled \/ ~ Accepts(list, cursor))
    /\ sweep' = [sweep EXCEPT !.at = "refused"]
    /\ UNCHANGED <<rows, clock>>

(* ElasticSearch is not asked: the fallback looks through the newest rows, *)
(* whatever the cursor, and there is no next page.                         *)
DegradedPage(list, cursor, arg) ==
    /\ Reading /\ arg # Garbled /\ Accepts(list, cursor)
    /\ list # "items"
    /\ sweep' = [sweep EXCEPT !.at = "degraded", !.list = list, !.cursor = NoCursor,
                              !.shown = @ \o First(rows, "recent", LimitOf(arg))]
    /\ UNCHANGED <<rows, clock>>

(* A client asks with a cursor it was given, or one it was not; with the   *)
(* same ?q= and ?sort= as before, or not.                                  *)
Request ==
    \E list \in Queries(sweep.list), cursor \in {sweep.cursor, Garbled}, arg \in LimitArgs :
        Page(list, cursor, arg) \/ Refuse(list, cursor, arg) \/ DegradedPage(list, cursor, arg)

(* While the client reads, the list changes.                               *)

(* item_add.cpp of a video that is not in the playlist, or an upload.      *)
AddRow(id) ==
    /\ Reading
    /\ \A l \in rows : l.id # id
    /\ rows' = rows \cup {[rank |-> 0, at |-> clock, id |-> id]}
    /\ UNCHANGED <<clock, sweep>>

RemoveRow(k) ==
    /\ Reading /\ k \in rows
    /\ rows' = rows \ {k}
    /\ sweep' = [sweep EXCEPT !.kept = @ \ {k.id}]
    /\ UNCHANGED clock

(* A video is viewed (or the scores of the others decay with their age).   *)
Drift(k) ==
    /\ Reading /\ k \in rows
    /\ sweep.list # "items" /\ k.rank < 1
    /\ rows' = (rows \ {k}) \cup {[k EXCEPT !.rank = @ + 1]}
    /\ sweep' = [sweep EXCEPT !.drifted = @ \/ sweep.at = "paging"]
    /\ UNCHANGED clock

Tick ==
    /\ Reading /\ clock < MaxTime
    /\ clock' = clock + 1
    /\ UNCHANGED <<rows, sweep>>

PagesInit ==
    /\ rows = {} /\ clock = 0
    /\ sweep \in [at : {"idle"}, list : {"items", "recent"}, cursor : {NoCursor}, shown : {<<>>}, kept : {{}},
                  drifted : {FALSE}]

PagesNext ==
    \/ Request \/ Tick
    \/ \E id \in Ids : AddRow(id)
    \/ \E k \in Row : RemoveRow(k) \/ Drift(k)

PagesSpec == PagesInit /\ [][PagesNext]_pagesVars

-------------------------------------------------------------------------------
(* Properties.                                                             *)

(* A client that follows the cursors is shown no row twice, and when it    *)
(* has come to the end it was shown every row that was there all the time, *)
(* in order, whatever was added or removed between two pages, also in the  *)
(* same millisecond as the row a page ended with, and however it varies    *)
(* the size of its pages; one that changes its mind about the sort between *)
(* two pages is refused.  A search that falls back half way                *)
(* (video_list.cpp:294) is shown rows again, and so is one by a rank that  *)
(* changes meanwhile.                                                      *)
EachOnce ==
    /\ sweep.at # "degraded"
    /\ ~ (sweep.list = "ranked" /\ sweep.drifted)
    => /\ \A i, j \in DOMAIN sweep.shown :
             i < j => Precedes(sweep.list, sweep.shown[i], sweep.shown[j])
       /\ sweep.at = "done" => sweep.kept \subseteq {k.id : k \in ToSet(sweep.shown)}
================================================================================
