------------------------------- MODULE TaskQueue -------------------------------
(***************************************************************************)
(* TaskQueue and TaskQueueWorker (Plazma/src/storage/task_queue.cpp): the  *)
(* files picked for upload are read on a worker thread and handed back to  *)
(* the main thread.                                                        *)
(*                                                                         *)
(* Two threads.  A step of either one is a critical section, the posting   *)
(* of a queued signal, or the handling of one; everything else a thread    *)
(* does is local to it.  The worker never holds a mutex while it waits for *)
(* anything but the second mutex, and nobody takes the two in the other    *)
(* order, so a critical section is atomic.                                 *)
(*                                                                         *)
(* A task id is the task's address: it can name a new task as soon as the  *)
(* old one is destroyed.                                                   *)
(***************************************************************************)
EXTENDS SequencesExt

CONSTANTS
    Tasks,       \* addresses
    NoTask,      \* kEmptyTaskId
    MaxBatch,    \* bound: tasks handed over in one addTasks()
    MaxSignals   \* bound: nothing is added while that many signals are posted

ASSUME NoTaskAssumption == NoTask \notin Tasks
ASSUME BoundsAssumption == IsFiniteSet(Tasks) /\ MaxBatch \in Nat /\ MaxSignals \in Nat

VARIABLES
    toProcess,  \* _tasksToProcess
    toFinish,   \* _tasksToFinish
    inProcess,  \* _taskInProcessId
    main,       \* where the main thread is, and the task it has in hand
    worker,     \* where the worker is, the task it has in hand, someTasksLeft
    added,      \* taskAdded signals posted to the worker
    processed   \* taskProcessed signals posted to the main thread

vars == <<toProcess, toFinish, inProcess, main, worker, added, processed>>

(* "loop" is the event loop.                                               *)
MainAt == {"loop", "wake", "cancel", "drain", "finish", "stop"}
(* "none" before the thread is created, "idle" is its event loop.          *)
WorkerAt == {"none", "idle", "take", "process", "emit", "events", "dead"}

AtLoop == [at |-> "loop", task |-> NoTask]

(* Tasks not destroyed yet.                                                *)
Live == ToSet(toProcess) \cup ToSet(toFinish) \cup {worker.task}
          \cup (IF main.at = "finish" THEN {main.task} ELSE {})

-------------------------------------------------------------------------------
(* The main thread.                                                        *)

(* addTask(), addTasks(): under the mutex ...                              *)
AddTasks ==
    /\ main.at = "loop"
    /\ added < MaxSignals /\ processed < MaxSignals
    /\ \E batch \in SeqOf(Tasks \ Live, MaxBatch) :
          /\ batch # <<>> /\ IsInjective(batch)
          /\ toProcess' = toProcess \o batch
    /\ main' = [main EXCEPT !.at = "wake"]
    /\ UNCHANGED <<toFinish, inProcess, worker, added, processed>>

(* ... and wakeThread(), which creates the thread the first time.          *)
WakeThread ==
    /\ main.at = "wake"
    /\ main' = AtLoop
    /\ added' = added + 1
    /\ worker' = [worker EXCEPT !.at = IF @ = "none" THEN "idle" ELSE @]
    /\ UNCHANGED <<toProcess, toFinish, inProcess, processed>>

(* Mutant: a task the worker has in hand is not canceled.                  *)
StillInProcess(t) == inProcess

(* What _taskInProcessId is once t is canceled.                            *)
InProcessWithout(t) == IF inProcess = t THEN NoTask ELSE inProcess

(* cancelTask(), first critical section.  Any id, stale ones included.     *)
CancelTask(t) ==
    /\ main.at = "loop"
    /\ toProcess' = RemoveFirst(toProcess, t)
    /\ inProcess' = InProcessWithout(t)
    /\ main' = [at |-> "cancel", task |-> t]
    /\ UNCHANGED <<toFinish, worker, added, processed>>

(* ... and the second.                                                     *)
CancelReturns ==
    /\ main.at = "cancel"
    /\ toFinish' = RemoveFirst(toFinish, main.task)
    /\ main' = AtLoop
    /\ UNCHANGED <<toProcess, inProcess, worker, added, processed>>

(* onTaskProcessed().                                                      *)
OnTaskProcessed ==
    /\ main.at = "loop"
    /\ processed > 0
    /\ processed' = processed - 1
    /\ main' = [main EXCEPT !.at = "drain"]
    /\ UNCHANGED <<toProcess, toFinish, inProcess, worker, added>>

DrainOne ==
    /\ main.at = "drain"
    /\ toFinish # <<>>
    /\ main' = [at |-> "finish", task |-> Head(toFinish)]
    /\ toFinish' = Tail(toFinish)
    /\ UNCHANGED <<toProcess, inProcess, worker, added, processed>>

DrainDone ==
    /\ main.at = "drain"
    /\ toFinish = <<>>
    /\ main' = AtLoop
    /\ UNCHANGED <<toProcess, toFinish, inProcess, worker, added, processed>>

(* Mutant: one task per signal.                                            *)
BackToLoop == AtLoop

BackToDrain == [at |-> "drain", task |-> NoTask]

(* finish() has uploaded the file (or skipped it), the task is destroyed.  *)
FinishReturns ==
    /\ main.at = "finish"
    /\ main' = BackToDrain
    /\ UNCHANGED <<toProcess, toFinish, inProcess, worker, added, processed>>

(* stop() and the destructor: interrupt, quit, wait for the thread.        *)
Stop ==
    /\ main.at = "loop"
    /\ worker.at \notin {"none", "dead"}
    /\ main' = [main EXCEPT !.at = "stop"]
    /\ UNCHANGED <<toProcess, toFinish, inProcess, worker, added, processed>>

StopReturns ==
    /\ main.at = "stop"
    /\ worker.at = "dead"
    /\ main' = AtLoop
    /\ UNCHANGED <<toProcess, toFinish, inProcess, worker, added, processed>>

-------------------------------------------------------------------------------
(* The worker thread.                                                      *)

(* A posted taskAdded reaches onTaskAdded().                               *)
OnTaskAdded ==
    /\ worker.at = "idle"
    /\ added > 0
    /\ added' = added - 1
    /\ worker' = [worker EXCEPT !.at = "take", !.left = FALSE]
    /\ UNCHANGED <<toProcess, toFinish, inProcess, main, processed>>

(* Mutant: the newest task first.                                          *)
TakenLast(q) == [task |-> Last(q), rest |-> Front(q)]

Taken(q) == [task |-> Head(q), rest |-> Tail(q)]

TakeTask ==
    /\ worker.at = "take"
    /\ toProcess # <<>>
    /\ inProcess' = Taken(toProcess).task
    /\ worker' = [worker EXCEPT !.at = "process", !.task = Taken(toProcess).task]
    /\ toProcess' = Taken(toProcess).rest
    /\ UNCHANGED <<toFinish, main, added, processed>>

TakeNothing ==
    /\ worker.at = "take"
    /\ toProcess = <<>>
    /\ worker' = [worker EXCEPT !.at = "events"]
    /\ UNCHANGED <<toProcess, toFinish, inProcess, main, added, processed>>

(* Mutant: looked at after the push.                                       *)
AnnouncesLate == FALSE

(* Whether the main thread must be told: not when it has been told before  *)
(* and has not emptied the queue since.                                    *)
Announces == toFinish = <<>>

(* Mutant: one task per wakeup.                                            *)
LeavesTasks == FALSE

TasksLeft == toProcess # <<>>

(* Mutant: the id of the task that was handed over stays behind.           *)
ProcessedKeepsId ==
    /\ worker.at = "process"
    /\ inProcess = worker.task
    /\ toFinish' = Append(toFinish, worker.task)
    /\ worker' = [at |-> "emit", task |-> NoTask, left |-> TasksLeft]
    /\ UNCHANGED <<toProcess, inProcess, main, added, processed>>

(* process() has read the file: the task is handed over.                   *)
Processed ==
    /\ worker.at = "process"
    /\ inProcess = worker.task
    /\ inProcess' = NoTask
    /\ toFinish' = Append(toFinish, worker.task)
    /\ worker' = [at |-> IF Announces THEN "emit" ELSE "events",
                  task |-> NoTask, left |-> TasksLeft]
    /\ UNCHANGED <<toProcess, main, added, processed>>

(* ... or, canceled meanwhile, dropped.  someTasksLeft keeps its value.    *)
ProcessedForNothing ==
    /\ worker.at = "process"
    /\ inProcess # worker.task
    /\ worker' = [worker EXCEPT !.at = "events"]
    /\ UNCHANGED <<toProcess, toFinish, inProcess, main, added, processed>>

EmitTaskProcessed ==
    /\ worker.at = "emit"
    /\ processed' = processed + 1
    /\ worker' = [worker EXCEPT !.at = "events"]
    /\ UNCHANGED <<toProcess, toFinish, inProcess, main, added>>

(* processEvents() delivers every posted taskAdded to onTaskAdded(), which *)
(* returns at once because _inTaskAdded is set.  Then the loop goes round  *)
(* or onTaskAdded() returns.                                               *)
EventsDelivered ==
    /\ worker.at = "events"
    /\ added' = 0
    /\ worker' = [worker EXCEPT !.task = NoTask,
                    !.at = IF worker.left /\ main.at # "stop" THEN "take" ELSE "idle"]
    /\ UNCHANGED <<toProcess, toFinish, inProcess, main, processed>>

ThreadExits ==
    /\ worker.at = "idle"
    /\ main.at = "stop"
    /\ worker' = [worker EXCEPT !.at = "dead"]
    /\ UNCHANGED <<toProcess, toFinish, inProcess, main, added, processed>>

-------------------------------------------------------------------------------
Init ==
    /\ toProcess = <<>> /\ toFinish = <<>> /\ inProcess = NoTask
    /\ main = AtLoop
    /\ worker = [at |-> "none", task |-> NoTask, left |-> FALSE]
    /\ added = 0 /\ processed = 0

MainStep == WakeThread \/ CancelReturns \/ DrainOne \/ DrainDone \/ FinishReturns \/ StopReturns
WorkerStep ==
    \/ OnTaskAdded \/ TakeTask \/ TakeNothing \/ Processed \/ ProcessedForNothing
    \/ EmitTaskProcessed \/ EventsDelivered \/ ThreadExits

Next ==
    \/ AddTasks \/ Stop \/ \E t \in Tasks : CancelTask(t)
    \/ OnTaskProcessed \/ MainStep \/ WorkerStep

Spec == Init /\ [][Next]_vars

(* Both threads run; a function that has been entered returns; Qt delivers *)
(* a posted signal on one of the next rounds of the event loop, however    *)
(* many calls the user makes in between.                                   *)
FairSpec ==
    Spec /\ WF_vars(MainStep) /\ WF_vars(WorkerStep) /\ SF_vars(OnTaskProcessed)

-------------------------------------------------------------------------------
(* Properties.                                                             *)

(* Every variable holds a value of its type, and the worker has a task in  *)
(* hand exactly while the code does.                                       *)
TypeOK ==
    /\ toProcess \in Seq(Tasks) /\ toFinish \in Seq(Tasks)
    /\ inProcess \in {NoTask, worker.task}
    /\ main \in [at : MainAt, task : Tasks \cup {NoTask}]
    /\ worker \in [at : WorkerAt, task : Tasks \cup {NoTask}, left : BOOLEAN]
    /\ added \in Nat /\ processed \in Nat

(* The two queues and the worker's hand are one FIFO to the main thread:   *)
(* every task is finished once, in the order it was added, whichever       *)
(* thread is ahead, and one that is canceled, wherever it is by then       *)
(* (task_queue.cpp:63-82), is gone when cancelTask() returns.              *)
Held == IF inProcess = NoTask THEN <<>> ELSE <<inProcess>>
Jobs == INSTANCE JobQueue WITH
            pending <- toFinish \o Held \o toProcess,
            finishing <- IF main.at = "finish" THEN main.task ELSE NoTask,
            canceling <- IF main.at = "cancel" THEN main.task ELSE NoTask
IsJobQueue == Jobs!Spec

(* A task that is ready to finish is never forgotten: a signal is on its   *)
(* way, or the main thread is in the loop that will find it, although the  *)
(* worker only signals when the queue was empty (task_queue.cpp:135).      *)
FinishAnnounced ==
    toFinish # <<>> =>
        processed > 0 \/ main.at \in {"drain", "finish"} \/ worker.at = "emit"

(* Whether anybody is going to look at the tasks still to be processed.    *)
Attended ==
    \/ toProcess = <<>>
    \/ /\ worker.at # "dead"
       /\ \/ main.at = "wake" \/ added > 0 \/ worker.at = "take"
          \/ worker.at = "process" /\ inProcess = worker.task
          \/ worker.at \in {"process", "emit", "events"} /\ worker.left

(* The worker's loop is left with tasks still queued, and nobody coming,   *)
(* only if a signal was swallowed by the loop it was meant to start        *)
(* (task_queue.cpp:108, 145), the task in hand was canceled (130), or the  *)
(* thread is being or has been stopped.                                    *)
LeftBehindOnlyBy ==
    [][Attended /\ ~ Attended' =>
          \/ EventsDelivered /\ added > 0
          \/ \E t \in Tasks : CancelTask(t) /\ t = worker.task
          \/ main.at = "stop" \/ worker.at = "dead"]_vars

(* A queued task gets to the worker as long as somebody looks at the       *)
(* queue: no stream of newer tasks or of cancels keeps it waiting.         *)
EveryoneProcessed ==
    \A t \in Tasks :
        t \in ToSet(toProcess) /\ Attended ~> t \notin ToSet(toProcess) \/ ~ Attended

(* A processed task leaves the queue to the main thread: finish() runs or  *)
(* it is canceled (under FairSpec).                                        *)
EveryoneFinished == \A t \in Tasks : t \in ToSet(toFinish) ~> t \notin ToSet(toFinish)
================================================================================
