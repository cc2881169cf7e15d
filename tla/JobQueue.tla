------------------------------- MODULE JobQueue --------------------------------
(***************************************************************************)
(* What TaskQueue (Plazma/src/storage/task_queue.h) promises the thread    *)
(* that owns it: tasks are finished on that thread, one at a time, each    *)
(* once, in the order they were added, and only a task the owner cancels   *)
(* leaves without being finished.  There is no second thread here.         *)
(***************************************************************************)
EXTENDS SequencesExt

CONSTANTS
    Tasks,      \* task ids
    NoTask      \* kEmptyTaskId

VARIABLES
    pending,    \* tasks added and neither finished nor canceled, oldest first
    finishing,  \* the task whose finish() is running
    canceling   \* the argument of the cancelTask() that is running

vars == <<pending, finishing, canceling>>

OwnerIsFree == finishing = NoTask /\ canceling = NoTask

Init == pending = <<>> /\ finishing = NoTask /\ canceling = NoTask

(* Any number of tasks not pending are added at the end.                   *)
Add ==
    /\ OwnerIsFree
    /\ pending' \in Seq(Tasks)
    /\ IsPrefix(pending, pending')
    /\ IsInjective(pending')
    /\ UNCHANGED <<finishing, canceling>>

(* A canceled task is gone when cancelTask() returns, not before it is     *)
(* called.                                                                 *)
Cancel(t) ==
    /\ OwnerIsFree
    /\ canceling' = t
    /\ pending' \in {pending, RemoveFirst(pending, t)}
    /\ UNCHANGED finishing

CancelReturns ==
    /\ canceling # NoTask
    /\ pending' = RemoveFirst(pending, canceling)
    /\ canceling' = NoTask
    /\ UNCHANGED finishing

(* The oldest task is finished.                                            *)
Finish ==
    /\ OwnerIsFree
    /\ pending # <<>>
    /\ finishing' = Head(pending)
    /\ pending' = Tail(pending)
    /\ UNCHANGED canceling

FinishReturns ==
    /\ finishing # NoTask
    /\ finishing' = NoTask
    /\ UNCHANGED <<pending, canceling>>

Next == Add \/ (\E t \in Tasks : Cancel(t)) \/ CancelReturns \/ Finish \/ FinishReturns

Spec == Init /\ [][Next]_vars
================================================================================
