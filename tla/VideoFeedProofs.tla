---------------------------- MODULE VideoFeedProofs ----------------------------
(***************************************************************************)
(* Proofs about VideoFeed, for any number of queries, requests and         *)
(* uploads: what the list shows, and what it was asked for, however the    *)
(* answers are reordered and however the user types, presses Enter and     *)
(* reloads.                                                                *)
(***************************************************************************)
EXTENDS VideoFeed, TLAPS

(* What is known of a request under way: the newest one asks for the       *)
(* active query and, unless an upload ended since, after all uploads.      *)
Known(r) ==
    /\ r.seq <= seq
    /\ r.seq = seq => r.query = active /\ (~ missed => r.uploads = uploaded)

(* The text that will be searched.                                         *)
WillSearch == IF debounce THEN pending ELSE active

FeedInv ==
    /\ FeedTypeOK
    /\ \A r \in requests : Known(r)
    /\ lastFired = active
    /\ shown.seq <= seq
    /\ ~ swallowed => WillSearch = asked
    /\ ShowsNewestAnswer
    /\ ShowsUploads

LEMMA InvInit == FeedInit => FeedInv
<1> SUFFICES ASSUME FeedInit PROVE FeedInv
  OBVIOUS
<1>1. FeedTypeOK
  <2>1. Empty \in Queries /\ 0 \in 0 .. MaxRequests /\ 0 \in 0 .. MaxUploads
    BY EmptyAssumption, BoundsAssumption
  <2>2. requests \subseteq Request /\ shown \in Request \cup {NoRequest}
    BY DEF FeedInit
  <2> QED
    BY <2>1, <2>2 DEF FeedInit, FeedTypeOK
<1>2. shown.seq = 0 /\ seq = 0 /\ requests = {} /\ lastFired = active /\ WillSearch = asked
  BY DEF FeedInit, NoRequest, WillSearch
<1>3. ShowsNewestAnswer /\ ShowsUploads
  BY <1>2 DEF FeedInit, ShowsNewestAnswer, ShowsUploads
<1> QED
  BY <1>1, <1>2, <1>3 DEF FeedInv

-------------------------------------------------------------------------------
(* A request is sent.                                                      *)
LEMMA FetchStep ==
  ASSUME FeedInv, NEW q \in Queries, DoFetch(q),
         lastFired' = q,
         uploaded' \in 0 .. MaxUploads,
         pending' \in Queries, asked' \in Queries,
         debounce' \in BOOLEAN, recent' \in BOOLEAN, swallowed' \in BOOLEAN,
         ~ swallowed' => WillSearch' = asked'
  PROVE  FeedInv'
<1> DEFINE new == NewRequest(q)
<1>1. seq \in Nat /\ seq + 1 \in 1 .. MaxRequests /\ seq' = seq + 1
  BY BoundsAssumption DEF FeedInv, FeedTypeOK, DoFetch
<1>2. /\ new \in Request
      /\ new.seq = seq + 1 /\ new.query = q /\ new.uploads = uploaded'
  BY <1>1 DEF NewRequest, Request
<1>3. requests' = requests \cup {new}
  BY DEF DoFetch
<1>4. \A r \in requests : r \in Request /\ r.seq <= seq
  BY DEF FeedInv, FeedTypeOK, Known
<1>5. shown' = shown /\ shown \in Request \cup {NoRequest} /\ shown.seq <= seq /\ shown.seq \in Nat
  BY DEF DoFetch, FeedInv, FeedTypeOK, Request, NoRequest
<1> HIDE DEF new
<1>6. FeedTypeOK'
  <2>1. requests' \subseteq Request /\ shown' \in Request \cup {NoRequest}
    BY <1>2, <1>3, <1>4, <1>5
  <2>2. seq' \in 0 .. MaxRequests
    BY <1>1, BoundsAssumption
  <2> QED
    BY <2>1, <2>2 DEF FeedTypeOK, FeedInv, DoFetch
<1>7. \A r \in requests' : Known(r)'
  <2> SUFFICES ASSUME NEW r \in requests' PROVE Known(r)'
    OBVIOUS
  <2>1. CASE r = new
    BY <2>1, <1>1, <1>2 DEF Known, DoFetch
  <2>2. CASE r \in requests
    <3>1. r.seq \in Nat /\ r.seq <= seq
      BY <2>2, <1>4 DEF Request
    <3> QED
      BY <3>1, <1>1 DEF Known
  <2> QED
    BY <2>1, <2>2, <1>3
<1>8. (lastFired = active)' /\ (shown.seq <= seq)'
  BY <1>1, <1>5 DEF DoFetch
<1>9. ShowsNewestAnswer' /\ ShowsUploads'
  BY <1>1, <1>5 DEF DoFetch, ShowsNewestAnswer, ShowsUploads
<1> QED
  BY <1>6, <1>7, <1>8, <1>9 DEF FeedInv

(* No request is sent, none ends, no upload does.                          *)
LEMMA NoFetchStep ==
  ASSUME FeedInv, NoFetch, UNCHANGED <<lastFired, uploaded>>,
         pending' \in Queries, asked' \in Queries,
         debounce' \in BOOLEAN, recent' \in BOOLEAN, swallowed' \in BOOLEAN,
         ~ swallowed' => WillSearch' = asked'
  PROVE  FeedInv'
<1>1. \A r \in requests' : Known(r)'
  BY DEF FeedInv, NoFetch, Known
<1> QED
  BY <1>1 DEF FeedInv, FeedTypeOK, NoFetch, ShowsNewestAnswer, ShowsUploads

LEMMA TypedStep == ASSUME FeedInv, NEW q \in Queries, OnSearchTyped(q) PROVE FeedInv'
BY NoFetchStep DEF OnSearchTyped, WillSearch, FeedInv, FeedTypeOK

(* fireSearch() of the text that is pending, or submitted.                 *)
LEMMA FireStep ==
  ASSUME FeedInv, NEW q \in Queries, FireSearch(q), debounce' = FALSE, UNCHANGED uploaded,
         pending' \in Queries, asked' \in Queries, swallowed' \in BOOLEAN,
         ~ swallowed' => asked' = q
  PROVE  FeedInv'
<1>1. CASE q = lastFired
  BY <1>1, NoFetchStep DEF FireSearch, NoFetch, WillSearch, FeedInv, FeedTypeOK
<1>2. CASE q # lastFired
  <2>1. WillSearch' = q
    BY <1>2 DEF FireSearch, DoFetch, WillSearch
  <2> QED
    BY <1>2, <2>1, FetchStep DEF FireSearch, FeedInv, FeedTypeOK
<1> QED
  BY <1>1, <1>2

LEMMA TimeoutStep == ASSUME FeedInv, DebounceTimeout PROVE FeedInv'
<1>1. /\ pending \in Queries /\ pending' = pending /\ asked' = asked /\ asked \in Queries
      /\ swallowed' = swallowed /\ swallowed \in BOOLEAN /\ debounce
  BY DEF DebounceTimeout, FeedInv, FeedTypeOK
<1>2. ~ swallowed' => asked' = pending
  BY <1>1 DEF FeedInv, WillSearch
<1> QED
  BY <1>1, <1>2, FireStep DEF DebounceTimeout

(* An Enter that is throttled repeats the active query; if something else  *)
(* was being typed, it is swallowed.                                       *)
LEMMA SubmittedStep == ASSUME FeedInv, NEW q \in Queries, OnSearchSubmitted(q) PROVE FeedInv'
<1>1. CASE Throttled(q)
  <2>1. q = active /\ asked' = q /\ swallowed' = (swallowed \/ debounce)
        /\ UNCHANGED <<pending, debounce, lastFired, recent, uploaded>> /\ NoFetch
    BY <1>1 DEF OnSearchSubmitted, Throttled, FeedInv
  <2>2. ~ swallowed' => WillSearch' = asked'
    BY <2>1 DEF WillSearch, NoFetch
  <2> QED
    BY <2>1, <2>2, NoFetchStep DEF FeedInv, FeedTypeOK
<1>2. CASE ~ Throttled(q)
  <2>1. FireSearch(q) /\ debounce' = FALSE /\ pending' = q /\ asked' = q /\ swallowed' = FALSE
        /\ UNCHANGED uploaded
    BY <1>2 DEF OnSearchSubmitted
  <2> QED
    BY <2>1, FireStep
<1> QED
  BY <1>1, <1>2

LEMMA ThrottleEndsStep == ASSUME FeedInv, ThrottleEnds PROVE FeedInv'
BY NoFetchStep DEF ThrottleEnds, NoFetch, WillSearch, FeedInv, FeedTypeOK

LEMMA RefreshStep == ASSUME FeedInv, RefreshFeed PROVE FeedInv'
<1>1. DoFetch(active) /\ active \in Queries /\ active' = active /\ lastFired' = active
      /\ UNCHANGED <<pending, debounce, recent, asked, swallowed, uploaded>>
  BY DEF RefreshFeed, DoFetch, FeedInv, FeedTypeOK
<1>2. ~ swallowed' => WillSearch' = asked'
  BY <1>1 DEF WillSearch, FeedInv
<1> QED
  BY <1>1, <1>2, FetchStep DEF FeedInv, FeedTypeOK

(* Either the list is asked for again, or the upload is known as missed.   *)
LEMMA UploadStep == ASSUME FeedInv, UploadFinished PROVE FeedInv'
<1>1. /\ uploaded' \in 0 .. MaxUploads
      /\ UNCHANGED <<pending, debounce, lastFired, recent, asked, swallowed>>
  BY BoundsAssumption DEF UploadFinished, FeedInv, FeedTypeOK
<1>2. CASE ~ loading /\ DoFetch(active)
  <2>1. active \in Queries /\ active' = active /\ lastFired' = active
    BY <1>1, <1>2 DEF DoFetch, FeedInv, FeedTypeOK
  <2>2. ~ swallowed' => WillSearch' = asked'
    BY <1>1, <2>1 DEF WillSearch, FeedInv
  <2> QED
    BY <1>1, <1>2, <2>1, <2>2, FetchStep DEF FeedInv, FeedTypeOK
<1>3. CASE loading /\ missed' = TRUE
           /\ UNCHANGED <<seq, active, loading, failed, requests, shown>>
  <2>1. \A r \in requests' : Known(r)'
    BY <1>3 DEF Known, FeedInv
  <2>2. ~ swallowed' => WillSearch' = asked'
    BY <1>1, <1>3 DEF WillSearch, FeedInv
  <2>3. ShowsNewestAnswer' /\ ShowsUploads'
    BY <1>3 DEF FeedInv, ShowsNewestAnswer, ShowsUploads
  <2> QED
    BY <1>1, <1>3, <2>1, <2>2, <2>3 DEF FeedInv, FeedTypeOK
<1> QED
  BY <1>2, <1>3 DEF UploadFinished

(* Whatever comes for a request.                                           *)
LEMMA AnswerStep ==
  ASSUME FeedInv, NEW r \in requests, NEW outcome \in {"done", "failed", "garbled"},
         FeedAnswer(r, outcome)
  PROVE  FeedInv'
<1>1. /\ requests' = requests \ {r}
      /\ UNCHANGED <<pending, debounce, lastFired, recent, active, seq, uploaded, missed,
                     asked, swallowed>>
  BY DEF FeedAnswer
<1>2. r \in Request /\ Known(r)
  BY DEF FeedInv, FeedTypeOK
<1>3. \A s \in requests' : Known(s)'
  BY <1>1 DEF Known, FeedInv
<1>4. ~ swallowed' => WillSearch' = asked'
  BY <1>1 DEF WillSearch, FeedInv
<1>5. CASE r.seq = seq /\ outcome # "garbled"
  <2>1. /\ loading' = FALSE
        /\ failed' = IF outcome = "failed" THEN TRUE ELSE failed
        /\ shown' = IF outcome = "done" THEN r ELSE shown
    BY <1>5 DEF FeedAnswer, Current
  <2>2. FeedTypeOK'
    BY <1>1, <1>2, <2>1 DEF FeedInv, FeedTypeOK
  <2>3. (shown.seq <= seq)'
    BY <1>1, <1>2, <2>1 DEF Known, FeedInv
  <2>4. CASE outcome = "done"
    BY <1>1, <1>2, <1>3, <1>4, <1>5, <2>1, <2>2, <2>3, <2>4
       DEF FeedInv, Known, ShowsNewestAnswer, ShowsUploads
  <2>5. CASE outcome = "failed"
    BY <1>1, <1>3, <1>4, <2>1, <2>2, <2>3, <2>5 DEF FeedInv, ShowsNewestAnswer, ShowsUploads
  <2> QED
    BY <1>5, <2>4, <2>5
<1>6. CASE ~ (r.seq = seq /\ outcome # "garbled")
  <2>1. UNCHANGED <<loading, failed, shown>>
    BY <1>6 DEF FeedAnswer, Current
  <2>2. FeedTypeOK'
    BY <1>1, <2>1 DEF FeedInv, FeedTypeOK
  <2> QED
    BY <1>1, <1>3, <1>4, <2>1, <2>2 DEF FeedInv, ShowsNewestAnswer, ShowsUploads
<1> QED
  BY <1>5, <1>6

LEMMA OutcomeType ==
  ASSUME NEW reply
  PROVE  Outcome(reply, VideosDone) \in {"done", "failed", "garbled"}
BY DEF Outcome, VideosDone, ResolveArrayField, ResolveField

LEMMA InvNext == FeedInv /\ [FeedNext]_feedVars => FeedInv'
<1> SUFFICES ASSUME FeedInv, [FeedNext]_feedVars PROVE FeedInv'
  OBVIOUS
<1>1. CASE \E q \in Queries : OnSearchTyped(q) \/ OnSearchSubmitted(q)
  BY <1>1, TypedStep, SubmittedStep
<1>2. CASE DebounceTimeout \/ ThrottleEnds \/ RefreshFeed \/ UploadFinished
  BY <1>2, TimeoutStep, ThrottleEndsStep, RefreshStep, UploadStep
<1>3. CASE \E r \in requests, reply \in Replies(WholeList) :
             FeedAnswer(r, Outcome(reply, VideosDone))
  BY <1>3, OutcomeType, AnswerStep
<1>4. CASE UNCHANGED feedVars
  <2>1. \A r \in requests' : Known(r)'
    BY <1>4 DEF feedVars, Known, FeedInv
  <2> QED
    BY <1>4, <2>1 DEF feedVars, FeedInv, FeedTypeOK, WillSearch, ShowsNewestAnswer, ShowsUploads
<1> QED
  BY <1>1, <1>2, <1>3, <1>4 DEF FeedNext

THEOREM FeedInvariant == FeedSpec => []FeedInv
BY InvInit, InvNext, PTL DEF FeedSpec

(* Every variable of the model keeps its type; above all, a row of the     *)
(* list always comes from one request that was sent.                       *)
THEOREM FeedTypes == FeedSpec => []FeedTypeOK
<1>1. FeedInv => FeedTypeOK
  BY DEF FeedInv
<1> QED
  BY <1>1, FeedInvariant, PTL

(* For any number of requests, answered in any order or not at all, the    *)
(* list that is shown without a spinner and without an error answers the   *)
(* newest one: the check of requestSeq_ (video_feed_model.cpp:113) is      *)
(* enough.                                                                 *)
THEOREM FeedShowsNewestAnswer == FeedSpec => []ShowsNewestAnswer
<1>1. FeedInv => ShowsNewestAnswer
  BY DEF FeedInv
<1> QED
  BY <1>1, FeedInvariant, PTL

(* No order of typing, pauses and Enter leaves the feed on another text    *)
(* than the last one, but for a throttled Enter (video_feed_model.cpp:84). *)
THEOREM FeedSearchesLastText == FeedSpec => []SearchesLastText
<1>1. FeedInv => SearchesLastText
  BY DEF FeedInv, WillSearch, SearchesLastText
<1> QED
  BY <1>1, FeedInvariant, PTL

(* A list without a dropped refresh is as new as the last upload, for any  *)
(* number of uploads (coreController.cpp:92).                              *)
THEOREM FeedShowsUploads == FeedSpec => []ShowsUploads
<1>1. FeedInv => ShowsUploads
  BY DEF FeedInv
<1> QED
  BY <1>1, FeedInvariant, PTL
================================================================================
