------------------------------- MODULE VideoFeed -------------------------------
(***************************************************************************)
(* VideoFeedModel (Plazma/src/models/video_feed_model.cpp) under the       *)
(* search field of the navigation bar: what is typed is searched when the  *)
(* user pauses (a timer of 250 ms), Enter searches at once, repeats of the *)
(* query that was fired last are dropped, and only the answer of the       *)
(* newest request is shown.  Answers arrive in any order, may be failures, *)
(* or reach no callback (json_guards.h:212).  A finished upload asks for   *)
(* the list again (coreController.cpp:86).                                 *)
(***************************************************************************)
EXTENDS Naturals, Replies

CONSTANTS
    Queries, Empty,     \* trimmed texts; the empty one asks for the feed
    MaxRequests,        \* bound: requests sent
    MaxUploads          \* bound: files uploaded

ASSUME EmptyAssumption == Empty \in Queries
ASSUME BoundsAssumption == MaxRequests \in Nat /\ MaxUploads \in Nat

VARIABLES
    pending,        \* pendingQuery_
    debounce,       \* searchDebounce_ is running
    lastFired,      \* lastFiredQuery_
    recent,         \* submitThrottle_ was started less than 400 ms ago
    active,         \* activeQuery_
    seq,            \* requestSeq_
    loading,        \* loading_
    failed,         \* errorMessage_ is not empty
    shown,          \* items_: the request they answer
    requests,       \* the requests under way
    uploaded,       \* how many uploads have been answered
    missed,         \* history: an upload ended while the feed was loading
    asked,          \* history: the text that was typed or submitted last
    swallowed       \* history: Enter did nothing while typed text was pending

feedVars == <<pending, debounce, lastFired, recent, active, seq, loading, failed, shown,
              requests, uploaded, missed, asked, swallowed>>

(* A request, and the uploads the server knows when it gets it, at least.  *)
Request == [seq : 1 .. MaxRequests, query : Queries, uploads : 0 .. MaxUploads]
NoRequest == [seq |-> 0, query |-> Empty, uploads |-> 0]

-------------------------------------------------------------------------------
(* fetchVideos().                                                          *)
NewRequest(q) == [seq |-> seq + 1, query |-> q, uploads |-> uploaded']

DoFetch(q) ==
    /\ seq < MaxRequests
    /\ seq' = seq + 1
    /\ active' = q
    /\ loading' = TRUE
    /\ failed' = FALSE
    /\ missed' = FALSE
    /\ requests' = requests \cup {NewRequest(q)}
    /\ UNCHANGED shown

NoFetch == UNCHANGED <<seq, active, loading, failed, missed, requests, shown>>

FireSearch(q) ==
    IF q = lastFired THEN NoFetch /\ UNCHANGED <<lastFired, recent>>
    ELSE DoFetch(q) /\ lastFired' = q /\ recent' = TRUE

OnSearchTyped(q) ==
    /\ pending' = q /\ debounce' = TRUE
    /\ asked' = q /\ swallowed' = FALSE
    /\ UNCHANGED <<lastFired, recent, uploaded>> /\ NoFetch

(* The user pauses.                                                        *)
DebounceTimeout ==
    /\ debounce
    /\ debounce' = FALSE
    /\ UNCHANGED <<pending, asked, swallowed, uploaded>>
    /\ FireSearch(pending)

(* Mutant: any repeated Enter is dropped, whatever it submits.             *)
ThrottledAny(q) == recent

Throttled(q) == recent /\ q = lastFired

OnSearchSubmitted(q) ==
    /\ UNCHANGED uploaded
    /\ IF Throttled(q)
         THEN /\ asked' = q /\ swallowed' = (swallowed \/ debounce)
              /\ UNCHANGED <<pending, debounce, lastFired, recent>> /\ NoFetch
         ELSE /\ debounce' = FALSE
              /\ pending' = q
              /\ FireSearch(q)
              /\ asked' = q /\ swallowed' = FALSE

(* 400 ms have passed since a query was fired.                             *)
ThrottleEnds ==
    /\ recent
    /\ recent' = FALSE
    /\ UNCHANGED <<pending, debounce, lastFired, asked, swallowed, uploaded>> /\ NoFetch

(* refresh() from the page that opens, the reload button, a shortcut.      *)
RefreshFeed ==
    /\ ~ loading
    /\ UNCHANGED <<pending, debounce, lastFired, recent, asked, swallowed, uploaded>>
    /\ DoFetch(active)

(* Mutant: the list is left to the next refresh.                           *)
NotRefreshed ==
    /\ uploaded < MaxUploads
    /\ uploaded' = uploaded + 1
    /\ NoFetch
    /\ UNCHANGED <<pending, debounce, lastFired, recent, asked, swallowed>>

(* refresh() after an upload: none while a request is under way.           *)
UploadFinished ==
    /\ uploaded < MaxUploads
    /\ uploaded' = uploaded + 1
    /\ \/ /\ loading
          /\ missed' = TRUE
          /\ UNCHANGED <<seq, active, loading, failed, requests, shown>>
       \/ ~ loading /\ DoFetch(active)
    /\ UNCHANGED <<pending, debounce, lastFired, recent, asked, swallowed>>

(* Mutant: every answer is shown.                                          *)
AnyAnswer(r) == TRUE

Current(r) == r.seq = seq

(* What fetchVideos() makes of a body.                                     *)
WholeList == [videos |-> "array"]
VideosDone(body) == ResolveArrayField(body, "videos")

(* The done and the fail callback; or neither.                             *)
FeedAnswer(r, outcome) ==
    /\ requests' = requests \ {r}
    /\ IF Current(r) /\ outcome # "garbled"
         THEN /\ loading' = FALSE
              /\ failed' = IF outcome = "failed" THEN TRUE ELSE failed
              /\ shown' = IF outcome = "done" THEN r ELSE shown
         ELSE UNCHANGED <<loading, failed, shown>>
    /\ UNCHANGED <<pending, debounce, lastFired, recent, active, seq, uploaded, missed, asked, swallowed>>

FeedInit ==
    /\ pending = Empty /\ debounce = FALSE /\ lastFired = Empty /\ recent = FALSE
    /\ active = Empty /\ seq = 0 /\ loading = FALSE /\ failed = FALSE
    /\ shown = NoRequest /\ requests = {}
    /\ uploaded = 0 /\ missed = FALSE /\ asked = Empty /\ swallowed = FALSE

FeedNext ==
    \/ \E q \in Queries : OnSearchTyped(q) \/ OnSearchSubmitted(q)
    \/ DebounceTimeout \/ ThrottleEnds \/ RefreshFeed \/ UploadFinished
    \/ \E r \in requests, reply \in Replies(WholeList) : FeedAnswer(r, Outcome(reply, VideosDone))

FeedSpec == FeedInit /\ [][FeedNext]_feedVars

-------------------------------------------------------------------------------
(* Properties.                                                             *)

(* Every variable holds a value of its type.                               *)
FeedTypeOK ==
    /\ pending \in Queries /\ lastFired \in Queries /\ active \in Queries /\ asked \in Queries
    /\ debounce \in BOOLEAN /\ recent \in BOOLEAN /\ swallowed \in BOOLEAN
    /\ seq \in 0 .. MaxRequests
    /\ loading \in BOOLEAN /\ failed \in BOOLEAN
    /\ shown \in Request \cup {NoRequest}
    /\ requests \subseteq Request
    /\ uploaded \in 0 .. MaxUploads /\ missed \in BOOLEAN

(* Without a spinner and without an error, the list is the answer of the   *)
(* newest request, which asked for the active query; an answer overtaken   *)
(* by a newer request changes nothing.  As long as the spinner is there,   *)
(* the newest request is under way or its answer reached no callback: an   *)
(* old failure does not end the loading of a newer query.                  *)
ShowsNewestAnswer ==
    /\ ~ loading /\ ~ failed /\ seq > 0 => shown.seq = seq /\ shown.query = active
    /\ loading /\ shown.seq > 0 => shown.seq < seq

(* When no typed text is pending, the query that was sent last is the text *)
(* the user typed or submitted last, whatever was dropped as a repeat.     *)
(* The exception: an Enter that repeats the last query within 400 ms does  *)
(* not stop the timer (video_feed_model.cpp:84), and what had been typed   *)
(* before is searched in spite of it.                                      *)
SearchesLastText == ~ debounce /\ ~ swallowed => active = asked

(* What has been uploaded is in the list that is shown next, for the list  *)
(* was asked for after the last upload, with one exception: the refresh of *)
(* an upload that ends while a request is under way is dropped, and the    *)
(* answer of that request may be older.                                    *)
ShowsUploads == ~ loading /\ ~ failed /\ ~ missed /\ seq > 0 => shown.uploads = uploaded
================================================================================
