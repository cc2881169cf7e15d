------------------------------- MODULE MCClient -------------------------------
(***************************************************************************)
(* An instance for TLC of the parts of the client that share no state: the *)
(* feed under the search field, the playlists, the login, uploads, the     *)
(* player and its end.  They run side by side, but no step of one enables, *)
(* disables or changes a step of another, so their interleavings say       *)
(* nothing new: a behaviour is one of one part, chosen at the start.        *)
(***************************************************************************)
EXTENDS VideoFeed, Sequences

CONSTANTS
    Ids, Names, NewNames, Items, Calls, MaxChanges, ListLimit, NoList, NoCall, MirrorFaults,
    MaxSubmits,
    MaxCommands,
    Files, Edited, MaxEdits, UploadFaults

VARIABLES
    part,
    mirror, current, listing, queued, net, srv, changes, doubt,
    td, inbox, handlers, lastId, sending, events, waiting, posts, server, account, valid, message, submits,
    file, stalled, mpvPaused, commands, queue, told, posted, paused, mpvLoading, hasMedia, given,
    object, renderer, hooks, callback, guarded, holder, owners, context,
    disk, tasks, frames, gui, stored, upset

Playlists == INSTANCE PlaylistsMirror
Client == INSTANCE Login
Mpv == INSTANCE Player WITH loading <- mpvLoading
Teardown == INSTANCE PlayerTeardown
Uploads == INSTANCE Upload

ASSUME ClientPlaylists == Playlists!MirrorAssumption

mirrorVars == <<mirror, current, listing, queued, net, srv, changes, doubt>>
loginVars == <<td, inbox, handlers, lastId, sending, events, waiting, posts, server, account, valid, message, submits>>
playerVars == <<file, stalled, mpvPaused, commands, queue, told, posted, paused, mpvLoading,
                hasMedia, given>>
teardownVars == <<object, renderer, hooks, callback, guarded, holder, owners, context>>
uploadVars == <<disk, tasks, frames, gui, stored, upset>>
clientVars == <<part, feedVars, mirrorVars, loginVars, playerVars, teardownVars, uploadVars>>

(* A playlist that is made and changed, or is there already and is changed *)
(* twice, the other ids being spent; two playlists and one change; or more *)
(* than are listed, and none.  Only the order of the names matters.        *)
Spent(ids) == \A id \in ids : doubt[id] = "row" /\ srv[id] = NoList
There(ids) == \A id \in ids : srv[id] # NoList
PlaylistsStart ==
    \/ /\ doubt[1] = "unused" \/ (There({1}) /\ srv[1].name = 2)
       /\ Spent(Ids \ {1}) /\ changes = MaxChanges
    \/ /\ There({1, 2}) /\ srv[1].name + srv[2].name = 4
       /\ Spent(Ids \ {1, 2}) /\ changes = 1
    \/ There(Ids) /\ changes = 0

(* A file nobody touches, in good order, next to those that are edited,    *)
(* which fit or do not; or one of those alone, which is not quite like it  *)
(* in another respect.                                                     *)
Good == [is |-> "fits", data |-> 0, mime |-> "video/mp4", name |-> <<"letters">>]
Absent == [Good EXCEPT !.is = "absent"]
Misnamed == [Good EXCEPT !.name = <<"quote", "letters">>]
UploadsStart ==
    \/ \A f \in Files :
         IF f \in Edited THEN \E s \in Uploads!States : disk[f] = [Good EXCEPT !.is = s]
                        ELSE disk[f] = Good
    \/ \A f \in Files :
         IF f \in Edited THEN \/ disk[f] = Misnamed
                             \/ \E m \in Uploads!Mimes : disk[f] = [Good EXCEPT !.mime = m]
                        ELSE disk[f] = Absent

ClientInit ==
    /\ part \in {"feed", "playlists", "login", "uploads", "player", "teardown"}
    /\ part # "playlists" => changes = 0 /\ doubt = [id \in Ids |-> "unused"]
    /\ part # "uploads" => disk = [f \in Files |-> Good]
    /\ FeedInit /\ Playlists!MirrorInit /\ Client!LoginInit
    /\ Mpv!PlayerInit /\ Teardown!TeardownInit /\ Uploads!UploadInit
    /\ part = "playlists" => PlaylistsStart
    /\ part # "login" => inbox[1].id = 0 /\ account
    /\ part = "uploads" => UploadsStart

ClientNext ==
    /\ UNCHANGED part
    /\ \/ /\ part = "feed" /\ FeedNext
          /\ UNCHANGED <<mirrorVars, loginVars, playerVars, teardownVars, uploadVars>>
       \/ /\ part = "playlists" /\ Playlists!MirrorNext
          /\ UNCHANGED <<feedVars, loginVars, playerVars, teardownVars, uploadVars>>
       \/ /\ part = "login" /\ Client!LoginNext
          /\ UNCHANGED <<feedVars, mirrorVars, playerVars, teardownVars, uploadVars>>
       \/ /\ part = "player" /\ Mpv!PlayerNext
          /\ UNCHANGED <<feedVars, mirrorVars, loginVars, teardownVars, uploadVars>>
       \/ /\ part = "teardown" /\ Teardown!TeardownNext
          /\ UNCHANGED <<feedVars, mirrorVars, loginVars, playerVars, uploadVars>>
       \/ /\ part = "uploads" /\ Uploads!UploadNext
          /\ UNCHANGED <<feedVars, mirrorVars, loginVars, playerVars, teardownVars>>

(* MirrorFairness, LoginFairness, UploadFairness and PlayerFairness, for   *)
(* the part that runs: TLC need not ask which steps of the others are      *)
(* enabled.                                                                *)
ClientFairness ==
    /\ WF_mirrorVars(part = "playlists" /\ Playlists!ServeList /\ UNCHANGED changes)
    /\ WF_mirrorVars(part = "playlists" /\ (Playlists!ListDone \/ Playlists!ListFailed) /\ UNCHANGED changes)
    /\ WF_loginVars(part = "login" /\ Client!Polling)
    /\ WF_loginVars(part = "login" /\ Client!Gui)
    /\ WF_loginVars(part = "login" /\ \E reply \in Client!Replies(Client!WholeLogin) :
                                           Client!LoginAnswered(reply))
    /\ WF_playerVars(part = "player" /\ Mpv!Reads)
    /\ WF_playerVars(part = "player" /\ Mpv!Execute)
    /\ WF_playerVars(part = "player" /\ Mpv!Opened)
    /\ WF_playerVars(part = "player" /\ Mpv!Resume)
    /\ WF_uploadVars(part = "uploads" /\ \E f \in Files : Uploads!Load(f))
    /\ WF_uploadVars(part = "uploads" /\ \E f \in Files : Uploads!Extract(f))
    /\ WF_uploadVars(part = "uploads" /\ \E f \in Files : Uploads!Gui(f))
    /\ WF_uploadVars(part = "uploads" /\ \E f \in Files : Uploads!Serve(f))

ClientSpec == ClientInit /\ [][ClientNext]_clientVars /\ ClientFairness

(* See PlaylistsMirror, Login, Upload, Player and PlayerTeardown.          *)
MirrorAgrees == Playlists!MirrorAgrees
RefreshServed == Playlists!RefreshServed
HandlersAwait == Client!HandlersAwait
LoginEnds == Client!LoginEnds
StoredWasPicked == Uploads!StoredWasPicked
PickedIsStored == Uploads!PickedIsStored
SpinnerEnds == Mpv!SpinnerEnds
TeardownSafe == Teardown!TeardownSafe
================================================================================
