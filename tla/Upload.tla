-------------------------------- MODULE Upload --------------------------------
(***************************************************************************)
(* Uploading files the user picks: the list is checked                     *)
(* (Plazma/src/storage/prepare.cpp), every file becomes a task of the      *)
(* worker that reads it (storage/task_queue.cpp), while a thread of its    *)
(* own has ffmpeg extract a frame (platform/file_dialog.cpp); when the     *)
(* task is finished the GUI thread waits for the frame and sends both      *)
(* (api.cpp), and the server takes the request apart                       *)
(* (PlazmaServer/src/handlers/videos/video_create.cpp).  Meanwhile other   *)
(* programs go on writing, replacing and removing the files.               *)
(*                                                                         *)
(* TaskQueue has the hand-over between the threads; here it is a step.     *)
(***************************************************************************)
EXTENDS Naturals, Sequences, FiniteSetsExt

CONSTANTS
    Files,
    Edited,         \* bound: the files other programs change, and
    MaxEdits,       \* how often
    UploadFaults    \* what may go wrong besides: "net", "server"

(* What is at a path.  A file has a size, which fits the limits of the     *)
(* client and the server (2000 and 100 MiB), that of the client only       *)
(* (large: a request of its own or with a thumbnail is over the server's)  *)
(* or none (huge), and data, an edition of its content; a locked one       *)
(* cannot be opened.                                                       *)
States == {"absent", "dir", "empty", "fits", "large", "huge", "locked"}
Mimes == {"video/mp4", "video/x-flv", "text/plain"}

(* A file name, as far as the headers of a part are concerned.             *)
FileNames == {<<"letters">>, <<"quote", "letters">>}

VARIABLES
    disk,   \* what is at the path of each file
    tasks,  \* the task of each file
    frames, \* what the thread that extracts its frame is doing
    gui,    \* the files whose frame the GUI thread waits for: none or one
    stored, \* what the server stored for each upload
    upset   \* history: the files changed since they were picked, and those
            \* whose upload the network or the server broke
uploadVars == <<disk, tasks, frames, gui, stored, upset>>

Readable(f) == disk[f].is \in {"fits", "large", "huge"}
Large(f) == disk[f].is \in {"large", "huge"}
Video(f) == disk[f].mime \in {"video/mp4", "video/x-flv"}
OneOf(f, step) == tasks[f].at = step
To(f, step) == tasks' = [tasks EXCEPT ![f].at = step]

-------------------------------------------------------------------------------
(* FileDialog::attachFiles() and prepareFileTasks().                       *)

(* Of a path that does not exist the size is 0.                            *)
Fit(f) == disk[f].is \in {"fits", "large", "locked"}

(* ValidateMediaList(): one file that does not fit spoils them all.        *)
ValidateMediaList(picked) == \A f \in picked : Fit(f)

(* A dialog that is cancelled, or accepted without a file, calls nobody.   *)
GetOpenPaths == SUBSET Files \ {{}}

(* The user picks files in the dialog; each once (bound).  For a video the *)
(* thread is started before the file is read.                              *)
AttachFiles(picked) ==
    /\ gui = {}
    /\ \A f \in picked : OneOf(f, "none")
    /\ ValidateMediaList(picked)
    /\ tasks' = [f \in Files |->
                   IF f \in picked THEN [tasks[f] EXCEPT !.at = "queued"] ELSE tasks[f]]
    /\ frames' = [f \in Files |->
                    IF f \in picked /\ Video(f) THEN [frames[f] EXCEPT !.at = "check"]
                    ELSE frames[f]]
    /\ UNCHANGED <<disk, gui, stored, upset>>

-------------------------------------------------------------------------------
(* FileLoadTask::process(), in the worker, one task at a time.             *)

WorkerFree == \A f \in Files : tasks[f].at \notin {"measured", "half"}

(* A size of -1 or 0 and one over the limit end the task; the latter is    *)
(* still a size.                                                           *)
Measure(f) ==
    /\ OneOf(f, "queued") /\ WorkerFree
    /\ tasks' = [tasks EXCEPT ![f].at = IF Fit(f) THEN "measured" ELSE "processed",
                              ![f].sized = Readable(f) \/ disk[f].is = "locked"]
    /\ UNCHANGED <<disk, frames, gui, stored, upset>>

(* The file is opened and read, in two halves: what a file that is written *)
(* in place shows in between is a mixture.                                 *)
Open(f) ==
    /\ OneOf(f, "measured")
    /\ IF Readable(f)
         THEN tasks' = [tasks EXCEPT ![f].at = "half", ![f].data = <<disk[f].data>>,
                                     ![f].large = Large(f)]
         ELSE To(f, "processed")
    /\ UNCHANGED <<disk, frames, gui, stored, upset>>

(* One that was replaced or removed is read to its end; the size of a      *)
(* mixture is that of either.                                              *)
ReadRest(f, rest, large) ==
    tasks' = [tasks EXCEPT ![f].at = "processed", ![f].data = @ \o rest, ![f].large = large]

Read(f) ==
    /\ OneOf(f, "half")
    /\ \/ ReadRest(f, tasks[f].data, tasks[f].large)
       \/ \E large \in {tasks[f].large, Large(f)} :
             ReadRest(f, IF disk[f].is = "empty" THEN <<>> ELSE <<disk[f].data>>, large)
    /\ UNCHANGED <<disk, frames, gui, stored, upset>>

-------------------------------------------------------------------------------
(* ExtractClientThumbnail(), in a thread per file.                         *)

Frame(f, step) == frames' = [frames EXCEPT ![f].at = step]

CheckFile(f) ==
    /\ frames[f].at = "check"
    /\ \/ disk[f].is # "absent" /\ Frame(f, "seek")
       \/ Frame(f, "done")    \* absent, or no temporary file can be made
    /\ UNCHANGED <<disk, tasks, gui, stored, upset>>

Extracting(f) == frames[f].at \in {"seek", "again"}

(* ffmpeg cannot be started, ends, or (a second try, from the start of a   *)
(* video too short to seek in) ends again.                                 *)
FfmpegEnds(f) ==
    /\ Extracting(f)
    /\ \/ Frame(f, "done")      \* FfmpegResult::NotStarted, or Failed twice
       \/ frames[f].at = "seek" /\ Frame(f, "again")
       \/ Readable(f) /\ Frame(f, "frame")
    /\ UNCHANGED <<disk, tasks, gui, stored, upset>>

(* Mutant: the second try has no time limit.                               *)
FirstOnly(f) == frames[f].at = "seek"

(* waitForStarted(2000), waitForFinished(5000).                            *)
Limited(f) == Extracting(f)

FfmpegTimeout(f) ==
    /\ Limited(f)
    /\ Frame(f, "done")
    /\ UNCHANGED <<disk, tasks, gui, stored, upset>>

(* The frame is of the edition there is, and is read or not.               *)
ReadFrame(f) ==
    /\ frames[f].at = "frame"
    /\ \E jpg \in {<<>>, <<"frame">>} :
          frames' = [frames EXCEPT ![f] = [at |-> "done", jpg |-> jpg]]
    /\ UNCHANGED <<disk, tasks, gui, stored, upset>>

-------------------------------------------------------------------------------
(* FileLoadTask::finish() in the GUI thread, and Api::uploadFile().        *)

(* Without a size nothing happens.  The future of a video's frame is       *)
(* waited for, and the GUI thread with it.                                 *)
Finish(f) ==
    /\ gui = {} /\ OneOf(f, "processed")
    /\ \/ ~ tasks[f].sized /\ To(f, "skipped") /\ UNCHANGED gui
       \/ tasks[f].sized /\ frames[f].at = "none" /\ To(f, "sent") /\ UNCHANGED gui
       \/ tasks[f].sized /\ frames[f].at # "none" /\ To(f, "waiting") /\ gui' = {f}
    /\ UNCHANGED <<disk, frames, stored, upset>>

SendUpload(f) ==
    /\ OneOf(f, "waiting") /\ frames[f].at = "done"
    /\ To(f, "sent")
    /\ gui' = {}
    /\ UNCHANGED <<disk, frames, stored, upset>>

(* The parts; a thumbnail that is empty has none.                          *)
Parts(f) ==
    <<[name |-> "video", filename |-> disk[f].name, type |-> disk[f].mime, data |-> tasks[f].data]>>
    \o IF frames[f].jpg = <<>> THEN <<>>
       ELSE <<[name |-> "thumbnail", filename |-> <<"letters">>, type |-> "image/jpeg",
               data |-> frames[f].jpg]>>

-------------------------------------------------------------------------------
(* video_create.cpp, up to the object it stores.                           *)

(* max_request_size (configs/config.yaml): a request over it is answered   *)
(* 413, or its connection is closed, before a handler sees it.  Whether a  *)
(* large file without a thumbnail is over it depends on its size.          *)
WithinLimit(f) ==
    CASE ~ tasks[f].large -> {TRUE}
      [] tasks[f].large /\ frames[f].jpg = <<>> -> BOOLEAN
      [] tasks[f].large /\ frames[f].jpg # <<>> -> {FALSE}

(* ExtractDispositionParam(): a quote in the name, which the client does   *)
(* not escape, ends it.                                                    *)
UpToQuote(name) ==
    IF Head(name) = "quote" THEN <<>> ELSE <<Head(name)>>

ParseMultipart(parts) ==
    [i \in DOMAIN parts |-> [parts[i] EXCEPT !.filename = UpToQuote(@)]]

IsThumbnail(part) == part.name = "thumbnail" /\ part.data # <<>>

(* The first part with a filename that is no thumbnail.                    *)
FileParts(parts) ==
    {i \in DOMAIN parts : parts[i].name # "thumbnail" /\ parts[i].filename # <<>>}
FilePart(parts) == parts[Min(FileParts(parts))]

AllowedMimes == {"video/mp4"}

(* Mutant: a file part is taken whatever is in it.                         *)
EvenEmpty(parts) == FileParts(parts) # {} /\ FilePart(parts).type \in AllowedMimes

(* 400, 415, 400.                                                          *)
Accepted(parts) ==
    /\ FileParts(parts) # {}
    /\ FilePart(parts).type \in AllowedMimes
    /\ FilePart(parts).data # <<>>

Serve(f) ==
    LET parts == ParseMultipart(Parts(f)) IN
    /\ OneOf(f, "sent")
    /\ \E within \in WithinLimit(f) :
          IF within /\ Accepted(parts)
            THEN /\ stored' = [stored EXCEPT ![f] =
                      [data |-> FilePart(parts).data,
                       thumbnail |-> \E i \in DOMAIN parts : IsThumbnail(parts[i])]]
                 /\ To(f, "taken")
            ELSE To(f, "refused") /\ UNCHANGED stored
    /\ UNCHANGED <<disk, frames, gui, upset>>

(* The server cannot store it (502, 500), or the connection breaks, before *)
(* or after it did.                                                        *)
Break(f) ==
    /\ tasks[f].at = "sent" \/ ("net" \in UploadFaults /\ tasks[f].at \in {"taken", "refused"})
    /\ UploadFaults # {}
    /\ To(f, "broken")
    /\ upset' = [upset EXCEPT !.broken = @ \cup {f}]
    /\ UNCHANGED <<disk, frames, gui, stored>>

(* uploadFinished() or uploadFailed().                                     *)
Answer(f) ==
    /\ gui = {} /\ tasks[f].at \in {"taken", "refused", "broken"}
    /\ To(f, IF OneOf(f, "taken") THEN "finished" ELSE "failed")
    /\ UNCHANGED <<disk, frames, gui, stored, upset>>

-------------------------------------------------------------------------------
(* Another program changes a file that is in use here.                     *)
Edit(f, to) ==
    /\ f \in Edited /\ disk[f].data < MaxEdits /\ to # disk[f].is
    /\ tasks[f].at \in {"queued", "measured", "half"} \/ frames[f].at \in {"check", "seek", "again"}
    /\ disk' = [disk EXCEPT ![f].is = to, ![f].data = @ + 1]
    /\ upset' = [upset EXCEPT !.edited = @ \cup {f}]
    /\ UNCHANGED <<tasks, frames, gui, stored>>

NotStored == [data |-> <<>>, thumbnail |-> FALSE]

UploadInit ==
    /\ disk \in [Files -> [is : States, data : {0}, mime : Mimes, name : FileNames]]
    /\ tasks = [f \in Files |-> [at |-> "none", sized |-> FALSE, data |-> <<>>, large |-> FALSE]]
    /\ frames = [f \in Files |-> [at |-> "none", jpg |-> <<>>]]
    /\ gui = {}
    /\ stored = [f \in Files |-> NotStored]
    /\ upset = [edited |-> {}, broken |-> {}]

Load(f) == Measure(f) \/ Open(f) \/ Read(f)
Extract(f) == CheckFile(f) \/ FfmpegTimeout(f) \/ ReadFrame(f)
Gui(f) == Finish(f) \/ SendUpload(f) \/ Answer(f)

UploadNext ==
    \/ \E picked \in GetOpenPaths : AttachFiles(picked)
    \/ \E f \in Files :
          \/ Load(f) \/ Extract(f) \/ FfmpegEnds(f) \/ Gui(f)
          \/ Serve(f) \/ Break(f)
          \/ \E to \in States : Edit(f, to)

(* The threads run and the server answers or the connection breaks; ffmpeg *)
(* need not end by itself.                                                 *)
UploadFairness ==
    /\ WF_uploadVars(\E f \in Files : Load(f))
    /\ WF_uploadVars(\E f \in Files : Extract(f))
    /\ WF_uploadVars(\E f \in Files : Gui(f))
    /\ WF_uploadVars(\E f \in Files : Serve(f))

UploadSpec == UploadInit /\ [][UploadNext]_uploadVars /\ UploadFairness

-------------------------------------------------------------------------------
(* Properties.                                                             *)

(* What the server stores was read from the file that was picked: a video, *)
(* not empty, and whole and as it was picked unless the file was changed   *)
(* in the meantime.  The size is checked twice, when the file is picked    *)
(* and when it is read (task_queue.cpp:178), and the data of a file that   *)
(* grew or was locked since is empty: only the server keeps it out         *)
(* (video_create.cpp:210).                                                 *)
StoredWasPicked ==
    \A f \in Files : stored[f] # NotStored =>
        /\ stored[f].data # <<>> /\ Video(f)
        /\ f \notin upset.edited => stored[f].data = <<0, 0>>

(* A video that is picked with a list that is accepted and left alone      *)
(* reaches the server, whatever happens to its thumbnail ("a failure here  *)
(* just means the feed shows a thumbnail slightly later",                  *)
(* file_dialog.cpp:96): also if ffmpeg hangs, while the GUI thread waits   *)
(* for it.  One that the client takes (prepare.h:12) and the server finds  *)
(* too large (config.yaml:81) may end as an upload that failed, and does   *)
(* end.                                                                    *)
PickedIsStored ==
    \A f \in Files :
        OneOf(f, "queued") /\ disk[f].is \in {"fits", "large"}
        /\ disk[f].mime \in AllowedMimes /\ Head(disk[f].name) # "quote"
        ~> \/ stored[f] # NotStored \/ f \in upset.edited \cup upset.broken
           \/ disk[f].is = "large" /\ OneOf(f, "failed")
================================================================================
