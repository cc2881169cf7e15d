------------------------------ MODULE DownloadBar ------------------------------
(***************************************************************************)
(* Downloads, with what the user interface sees of it: the download bar    *)
(* reads the row latestId_ when latestChanged() is emitted and at no other *)
(* time, and SignalThrottle (Plazma/src/utils/signal_throttle.h) lets the  *)
(* emissions for single chunks through at most once per interval.          *)
(***************************************************************************)
EXTENDS Downloads

VARIABLES
    throttle,   \* latestThrottle_: "idle", "armed" (its timer runs), or
                \* "pending" (and something is to be emitted at its end)
    shown       \* what the user interface read last

barVars == <<vars, throttle, shown>>

(* The latest*() getters.  Of a row that has stopped nobody changes the    *)
(* bytes received.                                                         *)
Received(e) ==
    CASE e.status # "Downloading" -> 0
      [] e.status = "Downloading" /\ e.reply = "asked" -> e.from
      [] OTHER -> e.next - 1
Face(e) == [status |-> e.status, reason |-> e.reason, total |-> e.total, received |-> Received(e)]
LatestFace == {Face(entries[i]) : i \in {j \in DOMAIN entries : IsFirst(entries, bar.id, j)}}
Latest == [id |-> bar.id, visible |-> bar.visible, face |-> LatestFace]

-------------------------------------------------------------------------------
(* SignalThrottle.  A step of the model below comes first, then one of     *)
(* these: the emission is read when the handler is through.                *)

Quiet == UNCHANGED <<throttle, shown>>
Emit == shown' = Latest'

(* Mutant: what is requested while the timer runs is dropped.              *)
Forgets(n) == IF throttle = "idle" /\ n > 1 THEN "pending" ELSE "armed"

(* request(), n times: the first is emitted, unless the timer runs.        *)
Requested(n) == IF throttle = "idle" /\ n = 1 THEN "armed" ELSE "pending"
Request(n) ==
    /\ throttle' = Requested(n)
    /\ IF throttle = "idle" THEN Emit ELSE UNCHANGED shown

(* flush(), and cancel() where the caller emits itself.                    *)
Flush == throttle' = "idle" /\ Emit
EmitOnly == UNCHANGED throttle /\ Emit

ThrottleTimeout ==
    /\ throttle # "idle"
    /\ UNCHANGED vars
    /\ IF throttle = "pending" THEN throttle' = "armed" /\ Emit
                               ELSE throttle' = "idle" /\ UNCHANGED shown

-------------------------------------------------------------------------------
(* The steps of the model, with what they emit.                            *)

IsLatest(i) == entries[i].id = bar.id

(* kickOff() of the row that the bar shows.                                *)
LatestKicked ==
    /\ \E i \in Queued(entries) : IsLatest(i)
    /\ \A i \in Queued(entries') : entries'[i].id # bar.id
FlushIf(latest) == IF latest \/ LatestKicked THEN Flush ELSE Quiet
RequestIf(latest, n) == IF latest THEN Request(n) ELSE Quiet

BarUserStep ==
    \/ \E v \in Videos :
          \/ \E hint \in SizeHints : Start(v, hint) /\ Flush
          \/ (StartAgain(v) \/ Retry(v) \/ Resume(v)) /\ Flush
          \/ (Cancel(v) \/ Pause(v) \/ RemoveActive(v) \/ RemoveEnded(v)) /\ FlushIf(v = bar.id)
    \/ (PauseAll \/ ResumeAll \/ DismissLatest) /\ Flush
    \/ ClearCompleted /\ EmitOnly
    \/ PurgeStaleCompleted /\ Quiet

(* notifyRowChanged() is one request; the response's headers, and the      *)
(* total they tell, are worth a second one.                                *)
BarProgress(i) ==
    \/ Chunk(i) /\ RequestIf(IsLatest(i), 1)
    \/ LearnTotal(i) /\ RequestIf(IsLatest(i), 2)
    \/ \E known \in BOOLEAN :
          PartialContent(i, known)
          /\ RequestIf(IsLatest(i) /\ entries'[i].total # entries[i].total, 2)
    \/ \E typed \in BOOLEAN :
          WholeBody(i, typed) /\ RequestIf(IsLatest(i) /\ entries[i].from > 0, 2)

BarEnd(i) ==
    /\ \/ TruncateFails(i) \/ RangeRefused(i) \/ ChunkFails(i) \/ Finished(i)
       \/ \E kind \in {"http", "auth"} : HttpError(i, kind)
       \/ \E nerr \in {"dropped", "timeout", "fatal"} : Broken(i, nerr)
    /\ FlushIf(IsLatest(i))

BarHideTimeout == HideTimeout /\ IF bar.visible THEN EmitOnly ELSE Quiet

BarInit == Init /\ throttle = "idle" /\ shown = Latest

BarNext ==
    \/ BarUserStep
    \/ \E i \in DOMAIN entries : BarProgress(i) \/ BarEnd(i)
    \/ \E v \in Videos : RetryKick(v) /\ FlushIf(FALSE)
    \/ BarHideTimeout
    \/ ThrottleTimeout
    \/ (\E p \in Paths : FileDeleted(p) \/ PartDeleted(p)) /\ Quiet
    \/ Restart /\ Flush

BarSpec == BarInit /\ [][BarNext]_barVars /\ Fairness

-------------------------------------------------------------------------------
(* Property.                                                               *)

(* The bar may show what the row no longer is only as long as somebody     *)
(* will tell it: a trailing emission is pending, or a row that vanished    *)
(* with its file (purgeStaleCompleted(), which does not tell the bar) is   *)
(* hidden or about to be.  No change is lost to the throttle, although     *)
(* rows end, are removed and are replaced in the middle of its interval.   *)
ShowsLatest ==
    shown # Latest =>
        \/ throttle = "pending"
        \/ LatestFace = {} /\ bar.id # NoVideo /\ (bar.visible => bar.hiding)
================================================================================
