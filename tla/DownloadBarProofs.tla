--------------------------- MODULE DownloadBarProofs ---------------------------
(***************************************************************************)
(* Proofs about DownloadBar, for every value of its constants: what the    *)
(* user interface reads is an observation and nothing else.  Every         *)
(* behaviour of BarSpec is one of Downloads, with its fairness, so the     *)
(* theorems about Downloads hold with the bar and its throttle attached.   *)
(* And it misses nothing: behind the throttle the bar shows the latest     *)
(* row, or will be told of it.                                             *)
(***************************************************************************)
EXTENDS DownloadBar, DownloadsProofs

LEMMA BarUserStepImplements == BarUserStep => UserStep
BY DEF BarUserStep, UserStep

LEMMA BarRowStepImplements ==
  ASSUME NEW i \in DOMAIN entries, BarProgress(i) \/ BarEnd(i)
  PROVE  NetStep(i)
<1>1. CASE BarProgress(i)
  BY <1>1 DEF BarProgress, NetStep
<1>2. CASE BarEnd(i)
  BY <1>2 DEF BarEnd, NetStep
<1> QED
  BY <1>1, <1>2

LEMMA BarNextImplements == [BarNext]_barVars => [Next]_vars
<1> SUFFICES ASSUME [BarNext]_barVars PROVE [Next]_vars
  OBVIOUS
<1>1. CASE BarUserStep
  BY <1>1, BarUserStepImplements DEF Next
<1>2. CASE \E i \in DOMAIN entries : BarProgress(i) \/ BarEnd(i)
  BY <1>2, BarRowStepImplements DEF Next
<1>3. CASE \E v \in Videos : RetryKick(v) /\ FlushIf(FALSE)
  BY <1>3 DEF Next
<1>4. CASE BarHideTimeout
  BY <1>4 DEF BarHideTimeout, Next
<1>5. CASE ThrottleTimeout
  BY <1>5 DEF ThrottleTimeout
<1>6. CASE ((\E p \in Paths : FileDeleted(p) \/ PartDeleted(p)) /\ Quiet) \/ (Restart /\ Flush)
  BY <1>6 DEF Next, WorldStep
<1>7. CASE UNCHANGED barVars
  BY <1>7 DEF barVars
<1> QED
  BY <1>1, <1>2, <1>3, <1>4, <1>5, <1>6, <1>7 DEF BarNext

(* With the bar and the throttle in the picture the rows, the files and    *)
(* the registries still do only what Downloads says: neither the order in  *)
(* which a handler emits nor what the throttle holds back (signal_throttle *)
(* .h:43) feeds back into a download.                                      *)
THEOREM BarImplementsDownloads == BarSpec => FairSpec
<1>1. BarInit => Init
  BY DEF BarInit
<1> QED
  BY <1>1, BarNextImplements, PTL DEF BarSpec, Spec, FairSpec

(* What is proved of Downloads, in the composition that is checked.        *)
THEOREM BarTypes == BarSpec => []TypeOK
BY BarImplementsDownloads, DownloadsTypes, PTL DEF FairSpec

(* The bar may retry, resume and start whatever it shows: the cap on       *)
(* concurrent transfers stays (downloads_model.cpp:663).                   *)
THEOREM BarSlotCap == BarSpec => []SlotCap
BY BarImplementsDownloads, DownloadsSlotCap, PTL DEF FairSpec

(* Nor does the bar strand a queued row.                                   *)
THEOREM BarNoStall == BarSpec => []NoStall
BY BarImplementsDownloads, DownloadsNoStall, PTL DEF FairSpec

(* The rows and the bar survive a restart in order (downloads_model.cpp:   *)
(* 1084), with the bar attached.                                           *)
THEOREM BarRegistriesAgree == BarSpec => []RegistriesAgree
BY BarImplementsDownloads, DownloadsRegistriesAgree, PTL DEF FairSpec

(* And the bar itself: its countdown never runs against a row that is      *)
(* still going.                                                            *)
THEOREM BarHidesOnlyEnded == BarSpec => []HidesOnlyEnded
BY BarImplementsDownloads, DownloadsHidesOnlyEnded, PTL DEF FairSpec

-------------------------------------------------------------------------------
(* ShowsLatest.  Of the video the bar shows there is at most one row       *)
(* (BarFits), so its face is that of the rows with its id, and steps that  *)
(* emit nothing leave those alone.                                         *)
FacesOf(q, v) == {Face(q[i]) : i \in {j \in DOMAIN q : q[j].id = v}}

Fine == IInv /\ Orderly /\ BarCounts

LEMMA LatestFaces == Fine => LatestFace = FacesOf(entries, bar.id)
<1> SUFFICES ASSUME Fine PROVE LatestFace = FacesOf(entries, bar.id)
  OBVIOUS
<1>1. entries \in Seq(Entry) /\ DOMAIN entries \subseteq Nat \ {0}
  BY Facts DEF Fine
<1>2. \A i, j \in DOMAIN entries : i < j /\ entries[i].id = entries[j].id => bar.id # entries[i].id
  BY DEF Fine, Orderly, BarFits
<1>3. ASSUME NEW j \in DOMAIN entries, entries[j].id = bar.id
      PROVE  IsFirst(entries, bar.id, j)
  <2>1. \A k \in 1 .. j - 1 : k \in DOMAIN entries /\ k < j
    BY <1>1
  <2> QED
    BY <1>2, <1>3, <2>1 DEF IsFirst
<1>4. {j \in DOMAIN entries : IsFirst(entries, bar.id, j)}
        = {j \in DOMAIN entries : entries[j].id = bar.id}
  BY <1>3 DEF IsFirst
<1> QED
  BY <1>4 DEF LatestFace, FacesOf

(* Somebody told the bar, or will.                                         *)
LEMMA ToldOfIt ==
  ASSUME Flush \/ EmitOnly \/ \E n : Request(n)
  PROVE  ShowsLatest'
<1>1. CASE Emit
  BY <1>1 DEF Emit, ShowsLatest
<1>2. ASSUME NEW n, Request(n), ~ Emit PROVE ShowsLatest'
  <2>1. throttle # "idle"
    BY <1>2 DEF Request
  <2>2. throttle' = "pending"
    BY <1>2, <2>1 DEF Request, Requested
  <2> QED
    BY <2>2 DEF ShowsLatest
<1> QED
  BY <1>1, <1>2 DEF Flush, EmitOnly

(* Nothing to tell: neither the bar's row nor the bar has changed.         *)
LEMMA NothingToTell ==
  ASSUME Fine, Fine', ShowsLatest, Quiet,
         bar'.id = bar.id, bar'.visible = bar.visible,
         bar.visible /\ bar.hiding => bar'.hiding,
         FacesOf(entries', bar.id) = FacesOf(entries, bar.id)
  PROVE  ShowsLatest'
<1>1. LatestFace = FacesOf(entries, bar.id)
  BY LatestFaces
<1>2. LatestFace' = FacesOf(entries', bar'.id)
  <2>1. (LatestFace = FacesOf(entries, bar.id))'
    BY LatestFaces, PTL
  <2> QED
    BY <2>1
<1>3. LatestFace' = LatestFace
  BY <1>1, <1>2
<1>4. Latest' = Latest
  BY <1>3 DEF Latest
<1> QED
  BY <1>3, <1>4 DEF ShowsLatest, Quiet

LEMMA SameRowsFaces ==
  ASSUME NEW q, NEW r, NEW v, DOMAIN r = DOMAIN q,
         \A j \in DOMAIN q : /\ r[j].id = q[j].id
                             /\ q[j].id = v => Face(r[j]) = Face(q[j])
  PROVE  FacesOf(r, v) = FacesOf(q, v)
<1>1. {j \in DOMAIN r : r[j].id = v} = {j \in DOMAIN q : q[j].id = v}
  OBVIOUS
<1>2. \A j \in {k \in DOMAIN q : q[k].id = v} : Face(r[j]) = Face(q[j])
  OBVIOUS
<1> QED
  BY <1>1, <1>2 DEF FacesOf

(* One row is rewritten: the face of the row "v" stays when this is another *)
(* row, or when the new row has the old one's face.                        *)
LEMMA OneRowFaces ==
  ASSUME NEW q \in Seq(Entry), NEW i \in DOMAIN q, NEW f, NEW v, f.id = q[i].id,
         q[i].id = v => Face(f) = Face(q[i])
  PROVE  FacesOf([q EXCEPT ![i] = f], v) = FacesOf(q, v)
<1> DEFINE r == [q EXCEPT ![i] = f]
<1>1. /\ DOMAIN r = DOMAIN q
      /\ \A j \in DOMAIN q : r[j] = IF j = i THEN f ELSE q[j]
  OBVIOUS
<1> HIDE DEF r
<1>2. \A j \in DOMAIN q : /\ r[j].id = q[j].id
                          /\ q[j].id = v => Face(r[j]) = Face(q[j])
  BY <1>1
<1>3. FacesOf(r, v) = FacesOf(q, v)
  BY <1>1, <1>2, SameRowsFaces
<1> QED
  BY <1>3 DEF r

LEMMA KeepingFaces ==
  ASSUME NEW q \in Seq(Entry), NEW S \in SUBSET DOMAIN q, NEW r \in Keeping(q, S), NEW v
  PROVE  /\ \A a \in DOMAIN r : \E i \in DOMAIN q : r[a] = q[i]
         /\ (\A i \in DOMAIN q \ S : q[i].id # v) => FacesOf(r, v) = FacesOf(q, v)
<1>1. PICK f \in Bijection(DOMAIN r, S) : \A a \in DOMAIN r : r[a] = q[f[a]]
  BY KeepingRows
<1>2. /\ f \in [DOMAIN r -> S]
      /\ \A i \in S : \E a \in DOMAIN r : f[a] = i
  BY <1>1 DEF Bijection, Surjection
<1>3. \A a \in DOMAIN r : \E i \in DOMAIN q : r[a] = q[i]
  BY <1>1, <1>2
<1>4. ASSUME \A i \in DOMAIN q \ S : q[i].id # v PROVE FacesOf(r, v) = FacesOf(q, v)
  <2>1. \A a \in DOMAIN r : r[a].id = v => \E i \in DOMAIN q : q[i].id = v /\ q[i] = r[a]
    BY <1>3
  <2>2. ASSUME NEW i \in DOMAIN q, q[i].id = v
        PROVE  \E a \in DOMAIN r : r[a].id = v /\ r[a] = q[i]
    <3>1. i \in S
      BY <1>4, <2>2
    <3>2. PICK a \in DOMAIN r : f[a] = i
      BY <1>2, <3>1
    <3> QED
      BY <1>1, <2>2, <3>2
  <2>3. FacesOf(r, v) \subseteq FacesOf(q, v)
    BY <2>1 DEF FacesOf
  <2>4. FacesOf(q, v) \subseteq FacesOf(r, v)
    BY <2>2 DEF FacesOf
  <2> QED
    BY <2>3, <2>4
<1> QED
  BY <1>3, <1>4

(* processQueue() tells the bar when it kicks its row off.                 *)
LEMMA KickedTold ==
  ASSUME Fine, Fine', ShowsLatest, Flush \/ (~ LatestKicked /\ Quiet),
         NEW q \in Seq(Entry), NEW ps, NEW b, ProcessQueue(q, ps, b),
         FacesOf(q, bar.id) = FacesOf(entries, bar.id),
         \A k \in DOMAIN q : q[k].id = bar.id => \E j \in DOMAIN entries : entries[j] = q[k],
         b = bar \/ \E V : b = Ended(bar, V)
  PROVE  ShowsLatest'
<1>1. CASE Flush
  BY <1>1, ToldOfIt
<1>2. CASE ~ LatestKicked /\ Quiet
  <2>1. bar \in BarType /\ b \in BarType
    BY Facts, EndedType DEF Fine
  <2>2. /\ b.id = bar.id /\ b.visible = bar.visible
        /\ bar.hiding => b.hiding
    BY <2>1 DEF Ended, BarType
  <2>3. PICK V : bar' = Ended(b, V)
    BY ProcessQueueMoves
  <2>4. /\ bar'.id = bar.id /\ bar'.visible = bar.visible
        /\ bar.hiding => bar'.hiding
    BY <2>1, <2>2, <2>3 DEF Ended, BarType
  <2>5. /\ DOMAIN entries' = DOMAIN q
        /\ \A i \in DOMAIN q :
              /\ entries'[i].id = q[i].id
              /\ q[i].status # "Queued" => entries'[i] = q[i]
              /\ entries'[i].status = "Queued" => entries'[i] = q[i]
    BY ProcessQueueMoves
  <2>6. \A i \in DOMAIN q : q[i].id = bar.id => entries'[i] = q[i]
    <3>1. CASE \A k \in Queued(entries) : entries[k].id # bar.id
      <4>1. \A k \in DOMAIN q : q[k].id = bar.id => q[k].status # "Queued"
        BY <3>1 DEF Queued, RowsIn
      <4> QED
        BY <2>5, <4>1
    <3>2. CASE \E k \in Queued(entries') : entries'[k].id = bar.id
      <4>1. PICK k \in DOMAIN entries' : entries'[k].id = bar.id /\ entries'[k].status = "Queued"
        BY <3>2 DEF Queued, RowsIn
      <4>2. ASSUME NEW i \in DOMAIN q, q[i].id = bar.id PROVE i = k
        <5>1. i \in DOMAIN entries' /\ entries'[i].id = bar.id
          BY <2>5, <4>2
        <5>2. i \in Nat /\ k \in Nat
          BY <2>5, <4>1
        <5>3. ~ (i < k) /\ ~ (k < i)
          BY <2>4, <4>1, <5>1 DEF Fine, Orderly, BarFits
        <5> QED
          BY <5>2, <5>3
      <4> QED
        BY <2>5, <4>1, <4>2
    <3> QED
      BY <1>2, <3>1, <3>2 DEF LatestKicked, IsLatest
  <2>7. FacesOf(entries', bar.id) = FacesOf(q, bar.id)
    <3>1. {j \in DOMAIN entries' : entries'[j].id = bar.id} = {j \in DOMAIN q : q[j].id = bar.id}
      BY <2>5
    <3> QED
      BY <2>6, <3>1 DEF FacesOf
  <2> QED
    BY <1>2, <2>4, <2>7, NothingToTell
<1> QED
  BY <1>1, <1>2

(* A handler replaces a row the bar does not show.                         *)
LEMMA OtherRowTold ==
  ASSUME Fine, Fine', ShowsLatest, Flush \/ (~ LatestKicked /\ Quiet),
         NEW i \in DOMAIN entries, NEW e, e.id = entries[i].id, entries[i].id # bar.id,
         \/ entries' = [entries EXCEPT ![i] = e] /\ UNCHANGED bar
         \/ \E ps, b : /\ ProcessQueue([entries EXCEPT ![i] = e], ps, b)
                       /\ b = bar \/ \E V : b = Ended(bar, V)
                       /\ e \in Entry
  PROVE  ShowsLatest'
<1> DEFINE q == [entries EXCEPT ![i] = e]
<1>1. DOMAIN q = DOMAIN entries /\ \A k \in DOMAIN q : q[k] = IF k = i THEN e ELSE entries[k]
  OBVIOUS
<1>2. ASSUME e \in Entry PROVE q \in Seq(Entry)
  <2>1. entries \in Seq(Entry)
    BY Facts DEF Fine
  <2> QED
    BY <1>2, <2>1
<1> HIDE DEF q
<1>3. /\ FacesOf(q, bar.id) = FacesOf(entries, bar.id)
      /\ \A k \in DOMAIN q : q[k].id = bar.id => \E j \in DOMAIN entries : entries[j] = q[k]
  BY <1>1, SameRowsFaces
<1>4. CASE entries' = q /\ UNCHANGED bar
  <2>1. CASE Flush
    BY <2>1, ToldOfIt
  <2>2. CASE Quiet
    BY <1>3, <1>4, <2>2, NothingToTell
  <2> QED
    BY <2>1, <2>2
<1>5. ASSUME NEW ps, NEW b, ProcessQueue(q, ps, b), b = bar \/ \E V : b = Ended(bar, V), e \in Entry
      PROVE  ShowsLatest'
  BY <1>3, <1>2, <1>5, KickedTold
<1> QED
  BY <1>4, <1>5 DEF q

(* What each kind of step owes the bar.                                    *)
LEMMA UserTold ==
  ASSUME Fine, Fine', ShowsLatest, BarUserStep
  PROVE  ShowsLatest'
<1>0. entries \in Seq(Entry) /\ \A i \in DOMAIN entries : entries[i] \in Entry
  BY Facts DEF Fine
<1>1. CASE Flush \/ EmitOnly
  BY <1>1, ToldOfIt
<1>2. ASSUME NEW v \in Videos, Cancel(v) \/ Pause(v), v # bar.id, ~ LatestKicked, Quiet
      PROVE  ShowsLatest'
  <2>0. PICK i \in DOMAIN entries, s \in {"Canceled", "Paused"} :
          \E ps, b :
            /\ entries[i].id = v
            /\ ProcessQueue(Torn(entries, i, s, "None"), ps, b)
            /\ b = bar \/ b = Ended(bar, {v})
    <3>1. CASE Cancel(v)
      <4>1. PICK i \in DOMAIN entries :
              /\ entries[i].id = v
              /\ ProcessQueue(Torn(entries, i, "Canceled", "None"),
                              WithoutPart(parts, entries[i].dest), Ended(bar, {v}))
        BY <3>1 DEF Cancel, IsFirst
      <4> QED
        BY <4>1
    <3>2. CASE Pause(v)
      <4>1. PICK i \in DOMAIN entries :
              /\ entries[i].id = v
              /\ ProcessQueue(Torn(entries, i, "Paused", "None"), parts, bar)
        BY <3>2 DEF Pause, IsFirst
      <4> QED
        BY <4>1
    <3> QED
      BY <1>2, <3>1, <3>2
  <2>1. PICK ps, b :
          /\ entries[i].id = v
          /\ ProcessQueue(Torn(entries, i, s, "None"), ps, b)
          /\ b = bar \/ b = Ended(bar, {v})
    BY <2>0
  <2> DEFINE e == Stopped(entries[i], s, "None")
  <2>2. e \in Entry /\ e.id = entries[i].id
    <3>1. s \in Statuses /\ "None" \in Reasons
      BY DEF Statuses, Reasons
    <3> QED
      BY <1>0, <3>1, StoppedType
  <2>3. ProcessQueue([entries EXCEPT ![i] = e], ps, b)
    BY <2>1 DEF Torn
  <2> HIDE DEF e
  <2> QED
    BY <1>2, <2>1, <2>2, <2>3, OtherRowTold
<1>3. ASSUME NEW v \in Videos, v # bar.id PROVE Dropped(bar, {v}) = bar
  BY <1>3 DEF Dropped
<1>4. ASSUME NEW v \in Videos, RemoveActive(v), v # bar.id, ~ LatestKicked, Quiet
      PROVE  ShowsLatest'
  <2>0. PICK i \in DOMAIN entries :
          /\ entries[i].id = v
          /\ \E q \in Keeping(Torn(entries, i, "Canceled", "None"), DOMAIN entries \ {i}) :
                ProcessQueue(q, WithoutPart(parts, entries[i].dest), Dropped(bar, {v}))
    BY <1>4 DEF RemoveActive, IsFirst
  <2> DEFINE t == Torn(entries, i, "Canceled", "None")
             S == DOMAIN entries \ {i}
  <2>1. PICK q \in Keeping(t, S) : ProcessQueue(q, WithoutPart(parts, entries[i].dest), bar)
    BY <1>3, <1>4, <2>0
  <2>2. /\ t \in Seq(Entry) /\ DOMAIN t = DOMAIN entries
        /\ t[i].id = v /\ \A j \in DOMAIN t : j # i => t[j] = entries[j]
    <3>1. "Canceled" \in Statuses \ {"Downloading"} /\ "None" \in Reasons
      BY DEF Statuses, Reasons
    <3>2. Stopped(entries[i], "Canceled", "None").id = v
      BY <1>0, <2>0, <3>1, StoppedType
    <3> QED
      BY <1>0, <3>1, <3>2, TornRows DEF Torn
  <2> HIDE DEF t
  <2>3. FacesOf(t, bar.id) = FacesOf(entries, bar.id)
    BY <1>4, <2>0, <2>2, SameRowsFaces
  <2>4. S \in SUBSET DOMAIN t /\ \A j \in DOMAIN t \ S : t[j].id # bar.id
    BY <1>4, <2>2
  <2> HIDE DEF S
  <2>5. /\ FacesOf(q, bar.id) = FacesOf(t, bar.id)
        /\ \A a \in DOMAIN q : \E j \in DOMAIN t : q[a] = t[j]
        /\ q \in Seq(Entry)
    BY <2>1, <2>2, <2>4, KeepingFaces, KeepingRows
  <2>6. \A k \in DOMAIN q : q[k].id = bar.id => \E j \in DOMAIN entries : entries[j] = q[k]
    BY <1>4, <2>2, <2>5
  <2> QED
    BY <1>4, <2>1, <2>3, <2>5, <2>6, KickedTold
<1>5. ASSUME NEW v \in Videos, RemoveEnded(v), v # bar.id, Quiet
      PROVE  ShowsLatest'
  <2>1. PICK i \in DOMAIN entries :
          /\ entries[i].id = v
          /\ entries' \in Keeping(entries, DOMAIN entries \ {i})
          /\ bar' = Dropped(bar, {v})
    BY <1>5 DEF RemoveEnded, IsFirst
  <2> DEFINE S == DOMAIN entries \ {i}
  <2>2. S \in SUBSET DOMAIN entries /\ \A j \in DOMAIN entries \ S : entries[j].id # bar.id
    BY <1>5, <2>1
  <2>3. entries' \in Keeping(entries, S)
    BY <2>1
  <2> HIDE DEF S
  <2>4. FacesOf(entries', bar.id) = FacesOf(entries, bar.id)
    BY <1>0, <2>2, <2>3, KeepingFaces
  <2> QED
    BY <1>3, <1>5, <2>1, <2>4, NothingToTell
<1>6. ASSUME PurgeStaleCompleted, Quiet PROVE ShowsLatest'
  <2> DEFINE S == DOMAIN entries \ Stale(entries)
  <2>1. /\ entries' \in Keeping(entries, S) /\ S \in SUBSET DOMAIN entries
        /\ UNCHANGED bar
        /\ \A j \in DOMAIN entries \ S : entries[j].status = "Completed"
    BY <1>6 DEF PurgeStaleCompleted, Stale, RowsIn
  <2> HIDE DEF S
  <2>2. CASE \A j \in DOMAIN entries \ S : entries[j].id # bar.id
    BY <1>0, <1>6, <2>1, <2>2, KeepingFaces, NothingToTell
  <2>3. ASSUME NEW j \in DOMAIN entries \ S, entries[j].id = bar.id PROVE ShowsLatest'
    <3>1. \A i \in DOMAIN entries : entries[i].id = bar.id => i = j
      <4> SUFFICES ASSUME NEW i \in DOMAIN entries, entries[i].id = bar.id PROVE i = j
        OBVIOUS
      <4>1. ~ (i < j) /\ ~ (j < i)
        BY <2>3 DEF Fine, Orderly, BarFits
      <4>2. i \in Nat /\ j \in Nat
        BY <1>0
      <4> QED
        BY <4>1, <4>2
    <3>2. \A a \in DOMAIN entries' : entries'[a].id # bar.id
      <4> SUFFICES ASSUME NEW a \in DOMAIN entries', entries'[a].id = bar.id PROVE FALSE
        OBVIOUS
      <4>1. PICK f \in Bijection(DOMAIN entries', S) :
              \A c \in DOMAIN entries' : entries'[c] = entries[f[c]]
        BY <1>0, <2>1, KeepingRows
      <4>2. f[a] \in S
        BY <4>1 DEF Bijection, Injection
      <4> QED
        BY <2>1, <3>1, <4>1, <4>2
    <3>3. LatestFace' = {}
      <4>1. (LatestFace = FacesOf(entries, bar.id))'
        BY LatestFaces, PTL
      <4> QED
        BY <2>1, <3>2, <4>1 DEF FacesOf
    <3>4. bar.id # NoVideo
      BY <1>0, <2>3, NoVideoAssumption DEF Entry
    <3>5. bar.visible => bar.hiding
      <4>1. entries[j].status \in Terminal
        BY <2>1 DEF Terminal
      <4> QED
        BY <3>1, <4>1 DEF Fine, BarCounts, Counting
    <3> QED
      BY <2>1, <3>3, <3>4, <3>5 DEF ShowsLatest
  <2> QED
    BY <2>2, <2>3
<1> QED
  BY <1>1, <1>2, <1>4, <1>5, <1>6 DEF BarUserStep, FlushIf

(* The end of a transfer: its row is replaced, and what the bar shows is   *)
(* told unless it is another row.                                          *)
LEMMA EndTold ==
  ASSUME Fine, Fine', ShowsLatest, NEW i \in DOMAIN entries, BarEnd(i)
  PROVE  ShowsLatest'
<1>1. CASE Flush
  BY <1>1, ToldOfIt
<1>2. CASE ~ LatestKicked /\ Quiet /\ entries[i].id # bar.id
  <2>1. entries[i] \in Entry /\ entries \in Seq(Entry)
    BY Facts DEF Fine
  <2>2. ASSUME NEW reason \in Reasons, NEW ps,
               ProcessQueue(Torn(entries, i, "Failed", reason), ps, Ended(bar, {entries[i].id}))
        PROVE  ShowsLatest'
    <3> DEFINE e == Stopped(entries[i], "Failed", reason)
    <3>1. e \in Entry /\ e.id = entries[i].id
      <4>1. "Failed" \in Statuses
        BY DEF Statuses
      <4> QED
        BY <2>1, <4>1, StoppedType
    <3>2. ProcessQueue([entries EXCEPT ![i] = e], ps, Ended(bar, {entries[i].id}))
      BY <2>2 DEF Torn
    <3> HIDE DEF e
    <3> QED
      BY <1>2, <3>1, <3>2, OtherRowTold
  <2>3. ASSUME NEW ps, NEW nerr, NetFailure(i, nerr, ps) PROVE ShowsLatest'
    <3>1. CASE MayRetry(entries[i], nerr)
      <4> DEFINE e == [Stopped(entries[i], "Queued", "None") EXCEPT !.retries = @ - 1]
      <4>1. e.id = entries[i].id
        <5>1. "Queued" \in Statuses /\ "None" \in Reasons
          BY DEF Statuses, Reasons
        <5>2. /\ Stopped(entries[i], "Queued", "None") \in Entry
              /\ Stopped(entries[i], "Queued", "None").id = entries[i].id
          BY <2>1, <5>1, StoppedType
        <5> QED
          BY <5>2 DEF Entry
      <4>2. entries' = [entries EXCEPT ![i] = e] /\ UNCHANGED bar
        BY <2>1, <2>3, <3>1 DEF NetFailure, BackOff
      <4> HIDE DEF e
      <4> QED
        BY <1>2, <4>1, <4>2, OtherRowTold
    <3>2. CASE ~ MayRetry(entries[i], nerr)
      <4>1. PICK reason \in {"Timeout", "Network"} : Fail(i, reason)
        BY <2>3, <3>2 DEF NetFailure
      <4>2. reason \in Reasons
        BY DEF Reasons
      <4> QED
        BY <2>2, <4>1, <4>2 DEF Fail
    <3> QED
      BY <3>1, <3>2
  <2>4. CASE TruncateFails(i) \/ \E nerr \in {"dropped", "timeout", "fatal"} : Broken(i, nerr)
    BY <2>3, <2>4 DEF TruncateFails, Broken
  <2>5. CASE RangeRefused(i) \/ \E kind \in {"http", "auth"} : HttpError(i, kind)
    <3>1. PICK reason \in {"Http", "Auth"} : Fail(i, reason)
      BY <2>5 DEF RangeRefused, HttpError
    <3>2. reason \in Reasons
      BY DEF Reasons
    <3> QED
      BY <2>2, <3>1, <3>2 DEF Fail
  <2>6. CASE ChunkFails(i)
    <3>1. PICK ps : NetFailure(i, "canceled", ps)
      BY <2>6 DEF ChunkFails
    <3> QED
      BY <2>3, <3>1
  <2>7. CASE Finished(i)
    <3>1. CASE FinalizeFailed(i)
      <4>1. ProcessQueue(Torn(entries, i, "Failed", "DiskWrite"), Dropping(entries[i]),
                         Ended(bar, {entries[i].id}))
        BY <3>1 DEF FinalizeFailed
      <4>2. "DiskWrite" \in Reasons
        BY DEF Reasons
      <4> QED
        BY <2>2, <4>1, <4>2
    <3>2. CASE ~ FinalizeFailed(i)
      <4>1. PICK written \in BOOLEAN :
              \E c \in OnDisk(entries[i], written) :
                 Complete(i, c, IF written THEN Size ELSE entries[i].next - 1)
        BY <2>7, <3>2 DEF Finished
      <4>2. PICK c : Complete(i, c, IF written THEN Size ELSE entries[i].next - 1)
        BY <4>1
      <4> DEFINE received == IF written THEN Size ELSE entries[i].next - 1
                 e == [Stopped(entries[i], "Completed", "None") EXCEPT
                         !.total = IF @ = 0 THEN received ELSE @]
      <4>3. received \in 0 .. Size
        BY <2>1, SizeAssumption DEF Entry
      <4>4. ProcessQueue([entries EXCEPT ![i] = e], WithoutPart(parts, entries[i].dest),
                         Ended(bar, {entries[i].id}))
        BY <4>2 DEF Complete
      <4> HIDE DEF received
      <4>5. e \in Entry /\ e.id = entries[i].id
        <5>1. "Completed" \in Statuses /\ "None" \in Reasons
          BY DEF Statuses, Reasons
        <5>2. /\ Stopped(entries[i], "Completed", "None") \in Entry
              /\ Stopped(entries[i], "Completed", "None").id = entries[i].id
          BY <2>1, <5>1, StoppedType
        <5> QED
          BY <4>3, <5>2 DEF Entry
      <4> HIDE DEF e
      <4> QED
        BY <1>2, <4>4, <4>5, OtherRowTold
    <3> QED
      BY <3>1, <3>2
  <2> QED
    BY <2>4, <2>5, <2>6, <2>7 DEF BarEnd
<1> QED
  BY <1>1, <1>2 DEF BarEnd, FlushIf, IsLatest

(* The response's headers change the row the bar shows without telling it  *)
(* only when its face stays: a continuation starts where the ".part" ends, *)
(* a fresh body at zero.                                                   *)
LEMMA ProgressTold ==
  ASSUME Fine, Fine', ShowsLatest, NEW i \in DOMAIN entries, BarProgress(i)
  PROVE  ShowsLatest'
<1> DEFINE e == entries[i]
<1>1. CASE \E n : Request(n)
  BY <1>1, ToldOfIt
<1>2. e \in Entry /\ entries \in Seq(Entry) /\ e.from \in Nat
  BY Facts DEF Fine, Entry
<1>3. UNCHANGED bar
  BY DEF BarProgress, Chunk, LearnTotal, PartialContent, WholeBody
<1>4. CASE Quiet /\ entries[i].id # bar.id
  <2>1. NetStep(i) /\ IInv
    BY BarRowStepImplements DEF Fine
  <2>2. PICK f : /\ entries' = [entries EXCEPT ![i] = f]
                 /\ f.id = entries[i].id /\ f.status = entries[i].status
    BY <2>1, RowSignal DEF BarProgress
  <2>3. FacesOf(entries', bar.id) = FacesOf(entries, bar.id)
    <3> HIDE DEF e
    <3>1. FacesOf([entries EXCEPT ![i] = f], bar.id) = FacesOf(entries, bar.id)
      BY <1>2, <1>4, <2>2, OneRowFaces
    <3> QED
      BY <2>2, <3>1
  <2> QED
    BY <1>3, <1>4, <2>3, NothingToTell
<1>5. ASSUME NEW known \in BOOLEAN, PartialContent(i, known), Quiet,
             entries'[i].total = entries[i].total
      PROVE  ShowsLatest'
  <2>1. /\ e.status = "Downloading" /\ e.reply = "asked"
        /\ entries' = [entries EXCEPT ![i] =
             [e EXCEPT !.reply = "body", !.next = e.from + 1,
                       !.total = IF known THEN Size ELSE e.total]]
    BY <1>2, <1>5 DEF PartialContent, Transferring, Entry
  <2> DEFINE f == [e EXCEPT !.reply = "body", !.next = e.from + 1,
                            !.total = IF known THEN Size ELSE e.total]
  <2>2. entries' = [entries EXCEPT ![i] = f]
    BY <2>1
  <2>3. /\ f.id = e.id /\ f.status = e.status /\ f.reason = e.reason
        /\ f.reply = "body" /\ f.next = e.from + 1
    BY <1>2 DEF Entry
  <2> HIDE DEF f
  <2>4. f.total = e.total
    BY <1>5, <2>2
  <2>5. Received(f) = Received(e)
    BY <1>2, <2>1, <2>3 DEF Received
  <2>6. Face(f) = Face(e)
    BY <2>3, <2>4, <2>5 DEF Face
  <2>7. FacesOf(entries', bar.id) = FacesOf(entries, bar.id)
    <3>1. FacesOf([entries EXCEPT ![i] = f], bar.id) = FacesOf(entries, bar.id)
      BY <1>2, <2>3, <2>6, OneRowFaces
    <3> QED
      BY <2>2, <3>1
  <2> QED
    BY <1>3, <1>5, <2>7, NothingToTell
<1>6. ASSUME NEW typed \in BOOLEAN, WholeBody(i, typed), Quiet, ~ (e.from > 0)
      PROVE  ShowsLatest'
  <2> DEFINE g == [e EXCEPT !.reply = "body", !.from = 0, !.next = 1]
             ps == Wiped(e)
  <2>1. /\ e.status = "Downloading" /\ e.reply = "asked" /\ e.from = 0
        /\ IF Relocates(g, typed) THEN Relocated(i, g, ps)
           ELSE entries' = [entries EXCEPT ![i] = g]
    BY <1>2, <1>6 DEF WholeBody, Transferring
  <2>2. /\ g.id = e.id /\ g.status = e.status /\ g.reason = e.reason /\ g.total = e.total
        /\ g.reply = "body" /\ g.next = 1 /\ g \in Entry
    <3>1. 1 \in 1 .. Size + 1
      BY SizeAssumption
    <3> QED
      BY <1>2, <3>1 DEF Entry
  <2> HIDE DEF g, ps
  <2>3. PICK f : /\ entries' = [entries EXCEPT ![i] = f]
                 /\ f.id = g.id /\ f.status = g.status /\ f.reason = g.reason
                 /\ f.total = g.total /\ f.reply = g.reply /\ f.next = g.next
    <3>1. CASE ~ Relocates(g, typed)
      BY <2>1, <3>1
    <3>2. CASE Relocates(g, typed)
      <4>1. PICK dest, file :
              entries' = [entries EXCEPT ![i] =
                            [g EXCEPT !.dest = dest, !.file = file, !.from = 0]]
        BY <2>1, <3>2 DEF Relocated
      <4> DEFINE f == [g EXCEPT !.dest = dest, !.file = file, !.from = 0]
      <4>2. /\ f.id = g.id /\ f.status = g.status /\ f.reason = g.reason
            /\ f.total = g.total /\ f.reply = g.reply /\ f.next = g.next
        BY <2>2 DEF Entry
      <4>3. entries' = [entries EXCEPT ![i] = f]
        BY <4>1
      <4> HIDE DEF f
      <4> QED
        BY <4>2, <4>3
    <3> QED
      BY <3>1, <3>2
  <2>4. Received(f) = Received(e)
    BY <2>1, <2>2, <2>3 DEF Received
  <2>5. Face(f) = Face(e)
    BY <2>2, <2>3, <2>4 DEF Face
  <2>6. FacesOf(entries', bar.id) = FacesOf(entries, bar.id)
    <3>1. FacesOf([entries EXCEPT ![i] = f], bar.id) = FacesOf(entries, bar.id)
      <4>1. f.id = entries[i].id /\ Face(f) = Face(entries[i])
        BY <2>2, <2>3, <2>5
      <4>2. entries \in Seq(Entry)
        BY <1>2
      <4> QED
        BY <4>1, <4>2, OneRowFaces
    <3> QED
      BY <2>3, <3>1
  <2> QED
    BY <1>3, <1>6, <2>6, NothingToTell
<1> QED
  BY <1>1, <1>4, <1>5, <1>6 DEF BarProgress, RequestIf, IsLatest

LEMMA BarNextTold ==
  ASSUME Fine, Fine', ShowsLatest, [BarNext]_barVars
  PROVE  ShowsLatest'
<1>1. ASSUME NEW v \in Videos, RetryKick(v), FlushIf(FALSE) PROVE ShowsLatest'
  <2>1. Flush \/ (~ LatestKicked /\ Quiet)
    BY <1>1 DEF FlushIf
  <2>2. CASE ProcessQueue(entries, parts, bar)
    <3>1. entries \in Seq(Entry)
      BY Facts DEF Fine
    <3> QED
      BY <2>1, <2>2, <3>1, KickedTold
  <2>3. CASE UNCHANGED <<entries, bar>>
    BY <2>1, <2>3, ToldOfIt, NothingToTell
  <2> QED
    BY <1>1, <2>2, <2>3 DEF RetryKick
<1>2. CASE BarHideTimeout
  <2>1. CASE EmitOnly
    BY <2>1, ToldOfIt
  <2>2. CASE ~ bar.visible /\ Quiet
    <3>1. UNCHANGED entries /\ bar' = [bar EXCEPT !.visible = FALSE, !.hiding = FALSE]
      BY <1>2 DEF BarHideTimeout, HideTimeout
    <3>2. bar'.id = bar.id /\ bar'.visible = bar.visible
      BY <2>2, <3>1, Facts DEF Fine, BarType
    <3> QED
      BY <2>2, <3>1, <3>2, NothingToTell
  <2> QED
    BY <1>2, <2>1, <2>2 DEF BarHideTimeout
<1>3. CASE ThrottleTimeout
  <2>1. CASE Emit
    BY <2>1 DEF Emit, ShowsLatest
  <2>2. CASE ~ Emit
    <3>1. throttle # "pending" /\ UNCHANGED <<vars, shown>>
      BY <1>3, <2>2 DEF ThrottleTimeout
    <3>2. Latest' = Latest /\ LatestFace' = LatestFace /\ bar' = bar
      BY <3>1 DEF vars, Latest, LatestFace
    <3> QED
      BY <3>1, <3>2 DEF ShowsLatest
  <2> QED
    BY <2>1, <2>2
<1>4. CASE (\E p \in Paths : FileDeleted(p) \/ PartDeleted(p)) /\ Quiet
  <2>1. UNCHANGED <<entries, bar>>
    BY <1>4 DEF FileDeleted, PartDeleted
  <2> QED
    BY <1>4, <2>1, NothingToTell
<1>5. CASE Restart /\ Flush
  BY <1>5, ToldOfIt
<1>6. CASE UNCHANGED barVars
  <2>1. UNCHANGED <<vars, throttle, shown>>
    BY <1>6 DEF barVars
  <2> QED
    BY <2>1 DEF vars, ShowsLatest, Latest, LatestFace
<1> QED
  BY <1>1, <1>2, <1>3, <1>4, <1>5, <1>6, UserTold, EndTold, ProgressTold DEF BarNext

(* No change is lost to the throttle (signal_throttle.h:43): what the bar  *)
(* shows is what the row is, or somebody will tell it, or the row has      *)
(* vanished and the bar hides.  For any number of rows, retries and        *)
(* restarts, and whatever falls into the throttle's interval.              *)
THEOREM BarShowsLatest == BarSpec => []ShowsLatest
<1>1. BarInit => ShowsLatest
  BY DEF BarInit, ShowsLatest
<1>2. BarSpec => []Fine
  BY BarImplementsDownloads, DownloadsCounting, PTL DEF FairSpec, Fine
<1>3. Fine /\ Fine' /\ ShowsLatest /\ [BarNext]_barVars => ShowsLatest'
  BY BarNextTold
<1> QED
  BY <1>1, <1>2, <1>3, PTL DEF BarSpec
================================================================================
