------------------------------ MODULE MCDownloads ------------------------------
(* Instances of Downloads for TLC. *)
EXTENDS Downloads

OwnTitles == [v \in Videos |-> v]         \* every video has a title of its own
OneTitle == [v \in Videos |-> CHOOSE u \in Videos : TRUE]  \* all are called the same

(* No guard reads the bar or a row's reason, and no property of the runs   *)
(* about the disk mentions them: states that differ only there are one.    *)
WithoutReason(e) == [e EXCEPT !.reason = "None"]
DiskView ==
    <<[i \in DOMAIN entries |-> WithoutReason(entries[i])],
      parts, files, timers, completed, paused>>
================================================================================
