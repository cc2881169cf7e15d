--------------------------------- MODULE Player --------------------------------
(***************************************************************************)
(* MpvObject (Plazma/src/ui/mpv_object.cpp): the player.  It sends its     *)
(* commands to mpv asynchronously and learns what became of them from      *)
(* mpv's events: mpv wakes it from a thread of its own, the wake-up posts  *)
(* a call to the GUI thread, and that takes events until there are none.   *)
(*                                                                         *)
(* mpv is external: it executes commands in order, opens a file or fails   *)
(* to, runs out of data and gets more, has none at once after a seek, and  *)
(* pauses at the end of the file (keep-open).  receive returns queued events first, then the observed    *)
(* properties whose value is not the one it returned last.                 *)
(***************************************************************************)
EXTENDS Naturals, Sequences, FiniteSets

CONSTANTS MaxCommands   \* bound: commands the user gives

VARIABLES
    file, stalled, mpvPaused,   \* mpv: "none", "opening" or "playing"; no data; pause
    commands,       \* mpv: commands accepted and not executed
    queue,          \* mpv: events
    told,           \* mpv: the values of the properties it returned last
    posted,         \* handleMpvEvents() is in the queue of the GUI thread
    paused, loading, hasMedia,  \* paused_, loading_, hasMedia_
    given           \* how many commands the user has given

mpvVars == <<file, stalled, mpvPaused, commands, queue, told>>
playerVars == <<file, stalled, mpvPaused, commands, queue, told, posted,
                paused, loading, hasMedia, given>>

(* core-idle: nothing is being played right now.                           *)
CoreIdle == file # "playing" \/ stalled \/ mpvPaused
Now == [pause |-> mpvPaused, idle |-> CoreIdle]

-------------------------------------------------------------------------------
(* The user.                                                               *)

Give(command) ==
    /\ given < MaxCommands /\ given' = given + 1
    /\ commands' = Append(commands, command)
    /\ UNCHANGED <<file, stalled, mpvPaused, queue, told, posted>>

(* setSource(), load(): the spinner is on until mpv says otherwise.        *)
Load ==
    /\ Give("load")
    /\ loading' = TRUE
    /\ UNCHANGED <<paused, hasMedia>>

Stop ==
    /\ Give("stop")
    /\ hasMedia' = FALSE
    /\ UNCHANGED <<paused, loading>>

(* playPause(): by what mpv said last.                                     *)
PlayPause ==
    /\ Give(IF paused THEN "play" ELSE "pause")
    /\ UNCHANGED <<paused, loading, hasMedia>>

(* Another position, in seconds, from here or as a share; or the next or   *)
(* previous frame, at which mpv pauses.                                    *)
Seek == Give("seek") /\ UNCHANGED <<paused, loading, hasMedia>>
FrameStep == Give("step") /\ UNCHANGED <<paused, loading, hasMedia>>

-------------------------------------------------------------------------------
(* mpv, external.  onMpvWakeup() finds the object alive and posts a call   *)
(* when there is something new.                                            *)

Wakes ==
    /\ posted' = (posted \/ queue' # queue \/ Now' # told)
    /\ UNCHANGED <<told, paused, loading, hasMedia, given>>

Ended == IF file = "none" THEN <<>> ELSE <<"endFile">>

Execute ==
    /\ commands # <<>>
    /\ commands' = Tail(commands)
    /\ LET c == Head(commands) IN
         /\ file' = CASE c = "load" -> "opening" [] c = "stop" -> "none" [] OTHER -> file
         /\ stalled' = CASE c \in {"load", "stop"} -> FALSE
                          [] c = "seek" -> file = "playing"
                          [] OTHER -> stalled
         /\ mpvPaused' = CASE c = "play" -> FALSE
                            [] c = "pause" -> TRUE
                            [] c = "step" -> mpvPaused \/ file = "playing"
                            [] OTHER -> mpvPaused
         /\ queue' = IF c \in {"load", "stop"} THEN queue \o Ended ELSE queue
    /\ Wakes

Opened ==
    /\ file = "opening"
    /\ \/ file' = "playing" /\ queue' = Append(queue, "fileLoaded")
       \/ file' = "none" /\ queue' = Append(queue, "endFile")
    /\ UNCHANGED <<stalled, mpvPaused, commands>>
    /\ Wakes

Stall ==
    /\ file = "playing" /\ ~ stalled
    /\ stalled' = TRUE
    /\ UNCHANGED <<file, mpvPaused, commands, queue>>
    /\ Wakes

Resume ==
    /\ stalled
    /\ stalled' = FALSE
    /\ UNCHANGED <<file, mpvPaused, commands, queue>>
    /\ Wakes

EndOfFile ==
    /\ file = "playing" /\ ~ stalled /\ ~ mpvPaused
    /\ mpvPaused' = TRUE
    /\ UNCHANGED <<file, stalled, commands, queue>>
    /\ Wakes

MpvStep == Execute \/ Opened \/ Stall \/ Resume \/ EndOfFile

-------------------------------------------------------------------------------
(* handleMpvEvents().                                                      *)

Drained == queue = <<>> /\ told = Now

(* Mutant: one event per wake-up.                                          *)
OneEvent == FALSE

KeepsReading == posted

(* MPV_EVENT_NONE.                                                         *)
NoEvent ==
    /\ posted /\ Drained
    /\ posted' = FALSE
    /\ UNCHANGED <<mpvVars, paused, loading, hasMedia, given>>

FileLoaded ==
    /\ posted /\ queue # <<>> /\ Head(queue) = "fileLoaded"
    /\ queue' = Tail(queue)
    /\ hasMedia' = TRUE
    /\ loading' = FALSE
    /\ posted' = KeepsReading
    /\ UNCHANGED <<file, stalled, mpvPaused, commands, told, paused, given>>

(* Whatever the reason.                                                    *)
FileEnded ==
    /\ posted /\ queue # <<>> /\ Head(queue) = "endFile"
    /\ queue' = Tail(queue)
    /\ loading' = FALSE
    /\ posted' = KeepsReading
    /\ UNCHANGED <<file, stalled, mpvPaused, commands, told, paused, hasMedia, given>>

PauseChanged ==
    /\ posted /\ queue = <<>> /\ told.pause # mpvPaused
    /\ told' = [told EXCEPT !.pause = mpvPaused]
    /\ paused' = mpvPaused
    /\ posted' = KeepsReading
    /\ UNCHANGED <<file, stalled, mpvPaused, commands, queue, loading, hasMedia, given>>

(* The spinner is for a player that should play and does not.              *)
CoreIdleChanged ==
    /\ posted /\ queue = <<>> /\ told.pause = mpvPaused /\ told.idle # CoreIdle
    /\ told' = [told EXCEPT !.idle = CoreIdle]
    /\ loading' = (CoreIdle /\ ~ paused /\ hasMedia)
    /\ posted' = KeepsReading
    /\ UNCHANGED <<file, stalled, mpvPaused, commands, queue, paused, hasMedia, given>>

PlayerInit ==
    /\ file = "none" /\ stalled = FALSE /\ mpvPaused = FALSE
    /\ commands = <<>> /\ queue = <<>>
    /\ told = [pause |-> TRUE, idle |-> FALSE] /\ posted = TRUE
    /\ paused = TRUE /\ loading = FALSE /\ hasMedia = FALSE
    /\ given = 0

Reads == NoEvent \/ FileLoaded \/ FileEnded \/ PauseChanged \/ CoreIdleChanged

PlayerNext == Load \/ Stop \/ PlayPause \/ Seek \/ FrameStep \/ MpvStep \/ Reads

(* The GUI thread runs; mpv executes what it was given and, sooner or      *)
(* later, opens a file or gives up, and gets data again.                   *)
PlayerFairness ==
    /\ WF_playerVars(Reads)
    /\ WF_playerVars(Execute) /\ WF_playerVars(Opened) /\ WF_playerVars(Resume)
PlayerSpec == PlayerInit /\ [][PlayerNext]_playerVars

-------------------------------------------------------------------------------
(* Properties.                                                             *)

(* The spinner does not stay over a file that plays, once its data comes   *)
(* to stay: whatever else the user asks for, in whatever order mpv's news  *)
(* and the commands cross, and however the events are bundled into         *)
(* wake-ups.  It may stay over a player that was paused before the news of *)
(* its going on was read, and over one without a file: EndFile leaves      *)
(* hasMedia_, so the core-idle after it puts the spinner up, and stop()    *)
(* does not take it down (mpv_object.cpp:209, 380).                        *)
SpinnerEnds ==
    loading /\ file = "playing" /\ ~ stalled
        ~> ~ loading \/ file # "playing" \/ stalled \/ mpvPaused
================================================================================
