----------------------------- MODULE TaskManager -----------------------------
(***************************************************************************)
(* The task manager of codirigent-core (task_manager.rs), which owns the   *)
(* queue, the assignment manager (assignment.rs) and the storage service   *)
(* (storage.rs, one JSON file per task).  Unlike the queue's operations,   *)
(* several of the manager's write a task's status in place (get_task_mut)  *)
(* and leave the order alone.                                              *)
(*                                                                         *)
(* Every public call runs to its end under the lock of the manager, so a   *)
(* call is one step.  A crash in the middle of a call is the crash before  *)
(* or after it: each call touches at most one file, the memory is lost,    *)
(* and save_task replaces a file by a rename.  `disk` holds the files.     *)
(*                                                                         *)
(* Left out: prompts, context usage, timestamps, the idle threshold (a     *)
(* call of on_session_idle before it changes nothing here) and bus events. *)
(***************************************************************************)
EXTENDS VecOps

CONSTANTS Tasks, Sessions, NoSession, MaxRetries, DepChoices,
          Compatible,     \* <<task, session>>: project_dir matches working_directory
          SchedulerMode,  \* "Fifo" or "Scored" (priority, dependency, smart)
          Modes,          \* the auto-assign modes the user switches between
          MaxPending,     \* MAX_PENDING_ASSIGNMENTS
          LoadOrder,      \* the task ids sorted, as list_task_ids returns them
          Faults          \* a subset of {"storage", "duplicate", "restart"}

VARIABLES tasks, order, blocked,  \* the queue
          pending,                \* AssignmentManager::pending
          mode,                   \* the auto-assign mode: auto_assign, confirm_before_assign
          disk                    \* the task files

Queue == INSTANCE TaskQueue

ASSUME ManagerAssumption ==
  /\ NoSession \notin Sessions /\ MaxRetries \in Nat
  /\ DepChoices \subseteq SUBSET Tasks
  /\ Compatible \subseteq Tasks \X Sessions
  /\ SchedulerMode \in {"Fifo", "Scored"}
  /\ "Auto" \in Modes /\ Modes \subseteq {"Off", "Confirm", "Auto"}
  /\ MaxPending \in Nat \ {0}
  /\ LoadOrder \in Seq(Tasks) /\ \A t \in Tasks : Occurrences(LoadOrder, t) = 1
  /\ Faults \subseteq {"storage", "duplicate", "restart"}

queueVars == <<tasks, order, blocked>>

vars == <<tasks, order, blocked, pending, mode, disk>>

SessionStatus == {"Idle", "Working", "NeedsAttention", "ResponseReady", "Error"}

Proposal == [task : Tasks, session : Sessions]

TypeOK ==
  /\ Queue!TypeOK
  /\ pending \in Seq(Proposal) /\ Len(pending) <= MaxPending
  /\ mode \in Modes
  /\ disk \in [Tasks -> Queue!Task]

Known == Queue!Known

OnDisk == {t \in Tasks : disk[t].status # "Absent"}

(***************************************************************************)
(* Storage.                                                                *)
(***************************************************************************)

(* save_task: the record replaces the file, or the write fails; the caller *)
(* has already changed the memory and returns the error.                   *)
Save(t, task) ==
  \/ disk' = [disk EXCEPT ![t] = task]
  \/ "storage" \in Faults /\ UNCHANGED disk

(* delete_task removes the file, or fails and leaves it.                   *)
Unlink(t) == Save(t, Queue!Absent)

(***************************************************************************)
(* Task operations.                                                        *)
(***************************************************************************)

(* Mutant of CreateTask: the queue first, whatever the write does.         *)
CreateSavingLast(t, deps) ==
  LET task == Queue!NewTask(deps) IN
  /\ Queue!Enqueue(t, task)
  /\ Save(t, task)
  /\ UNCHANGED <<pending, mode>>

(* create_task: the file is written before enqueue looks for a duplicate,  *)
(* so a second create of an id fails with its file already replaced.       *)
CreateTask(t, deps) ==
  LET task == Queue!NewTask(deps) IN
  /\ disk' = [disk EXCEPT ![t] = task]
  /\ \/ Queue!Enqueue(t, task)
     \/ "duplicate" \in Faults /\ t \in Known /\ UNCHANGED queueVars
  /\ UNCHANGED <<pending, mode>>

(* delete_task: a proposal for the task stays pending.                     *)
DeleteTask(t) ==
  /\ Queue!Dequeue(t)
  /\ Unlink(t)
  /\ UNCHANGED <<pending, mode>>

(* update_task: title, priority and the like; the whole record is saved.   *)
UpdateTask(t) ==
  /\ t \in Known
  /\ Save(t, tasks[t])
  /\ UNCHANGED <<queueVars, pending, mode>>

(* save: every task in turn, until a write fails.                          *)
SaveAll ==
  /\ \E saved \in SUBSET Known :
       /\ saved = Known \/ "storage" \in Faults
       /\ disk' = [t \in Tasks |-> IF t \in saved THEN tasks[t] ELSE disk[t]]
  /\ UNCHANGED <<queueVars, pending, mode>>

(* A status written in place and saved; the order and the blocked index    *)
(* are not told.                                                           *)
WriteStatus(t, status) ==
  /\ tasks' = [tasks EXCEPT ![t].status = status]
  /\ Save(t, tasks'[t])
  /\ UNCHANGED <<order, blocked, pending, mode>>

StartTask(t) ==
  \/ /\ tasks[t].status \in {"Queued", "Blocked", "Assigned"}
     /\ WriteStatus(t, "Working")
  \/ /\ tasks[t].status \in {"Working", "Verifying", "Review"}
     /\ WriteStatus(t, tasks[t].status)

(* move_to_review takes a task of any status.                              *)
MoveToReview(t) ==
  /\ t \in Known
  /\ WriteStatus(t, "Review")

ApproveTask(t) ==
  /\ Queue!CompleteTask(t)
  /\ Save(t, tasks'[t])
  /\ UNCHANGED <<pending, mode>>

(* on_task_complete when the verification ran and failed: requeue while    *)
(* retries are left.  Every other outcome is only reported to the caller.  *)
OnTaskComplete(t) ==
  /\ Queue!RequeueTask(t)
  /\ UNCHANGED <<pending, mode, disk>>

(***************************************************************************)
(* Assignment.                                                             *)
(***************************************************************************)

(* What next_task_for_session may return for s.                            *)
NextTaskForSession(s) ==
  Queue!NextTasks(SchedulerMode, {t \in Queue!Eligible : <<t, s>> \in Compatible})

PendingFor(t) == {i \in 1 .. Len(pending) : pending[i].task = t}

HasPendingForSession(s) == \E i \in 1 .. Len(pending) : pending[i].session = s

(* Mutant of Propose: the session's own pending proposal is not looked at. *)
ProposeAgain(s, t) ==
  /\ mode = "Confirm"
  /\ t \in NextTaskForSession(s)
  /\ PendingFor(t) = {}
  /\ Len(pending) < MaxPending
  /\ pending' = Append(pending, [task |-> t, session |-> s])
  /\ UNCHANGED <<queueVars, mode, disk>>

(* on_session_idle with confirm_before_assign: propose the next task of s, *)
(* unless the task or the session already waits for an answer.             *)
Propose(s, t) ==
  /\ mode = "Confirm"
  /\ t \in NextTaskForSession(s)
  /\ PendingFor(t) = {} /\ ~ HasPendingForSession(s)
  /\ Len(pending) < MaxPending
  /\ pending' = Append(pending, [task |-> t, session |-> s])
  /\ UNCHANGED <<queueVars, mode, disk>>

(* on_session_idle without confirmation returns AssignNow, and the caller  *)
(* hands the task to assign_task.                                          *)
AssignNow(s, t) ==
  /\ mode = "Auto"
  /\ t \in NextTaskForSession(s)
  /\ Queue!AssignTask(t, s)
  /\ UNCHANGED <<pending, mode, disk>>

(* pending.remove of the first proposal for t.                             *)
RemovePending(t) ==
  \E i \in PendingFor(t) :
    /\ \A j \in PendingFor(t) : i <= j
    /\ pending' = SubSeq(pending, 1, i - 1) \o SubSeq(pending, i + 1, Len(pending))

(* confirm_assignment: the proposal is gone even when assign_task refuses  *)
(* the task because it is no longer queued.                                *)
ConfirmAssignment(t, s) ==
  /\ RemovePending(t)
  /\ \/ Queue!AssignTask(t, s)
     \/ t \notin Queue!Queued /\ UNCHANGED queueVars
  /\ UNCHANGED <<mode, disk>>

(* reject_assignment, and clear_expired for a proposal that got too old.   *)
RejectAssignment(t) ==
  /\ RemovePending(t)
  /\ UNCHANGED <<queueVars, mode, disk>>

DirectAssign(t, s) ==
  /\ Queue!AssignTask(t, s)
  /\ UNCHANGED <<pending, mode, disk>>

(* set_auto_assign and set_confirm_before_assign, as to_config maps the    *)
(* three modes: leaving "Confirm" forgets the proposals.                   *)
SetMode(m) ==
  /\ m # mode
  /\ mode' = m
  /\ pending' = IF m = "Confirm" THEN pending ELSE << >>
  /\ UNCHANGED <<queueVars, disk>>

(***************************************************************************)
(* Session status.                                                         *)
(***************************************************************************)

(* map_session_to_task_status; the current status stands for None.         *)
MapSessionToTaskStatus(old, new, current) ==
  CASE old \in {"Idle", "NeedsAttention"} /\ new = "Working" /\ current = "Assigned" -> "Working"
    [] old = "Working" /\ new = "Idle" /\ current = "Working"      -> "Review"
    [] new = "Error" /\ current \in {"Working", "Verifying"}       -> "Blocked"
    [] OTHER                                                       -> current

(* find_task_by_session: some entry of a hash map whose assigned_session   *)
(* is s, finished tasks included.                                          *)
TasksOf(s) == {t \in Known : tasks[t].session = s}

(* transition_task_status writes and saves only a status that changes.     *)
TransitionTaskStatus(t, status) ==
  /\ status # tasks[t].status
  /\ WriteStatus(t, status)

OnSessionStatusChanged(s, old, new) ==
  \E t \in TasksOf(s) :
    TransitionTaskStatus(t, MapSessionToTaskStatus(old, new, tasks[t].status))

(***************************************************************************)
(* Restart.                                                                *)
(***************************************************************************)

(* Mutant of Reloaded: finished work is queued again.                      *)
ReloadedAgain(task) ==
  IF task.status = "Absent" THEN task ELSE [task EXCEPT !.status = "Queued"]

(* load: every file is enqueued in the order of the ids, tasks that were   *)
(* under way as queued ones that keep their session.                       *)
Reloaded(task) ==
  IF task.status \in {"Absent", "Done"} THEN task ELSE [task EXCEPT !.status = "Queued"]

LoadedBefore(t) ==
  LET at(u) == CHOOSE i \in 1 .. Len(LoadOrder) : LoadOrder[i] = u
  IN  {u \in Tasks : at(u) <= at(t)}

(* Mutant of Restart: only the files of queued tasks enter the order.      *)
RestartListingQueued ==
  /\ "restart" \in Faults
  /\ tasks' = [t \in Tasks |-> Reloaded(disk[t])]
  /\ order' = RetainAll(LoadOrder, {t \in Tasks : disk[t].status = "Queued"})
  /\ blocked' = [t \in Tasks |-> Queue!Blocking(tasks', t) \cap LoadedBefore(t)]
  /\ pending' = << >>
  /\ mode' = "Auto"
  /\ UNCHANGED disk

(* The process dies and starts again: new with the default configuration,  *)
(* then load.  Proposals and unsaved assignments are lost.                 *)
Restart ==
  /\ "restart" \in Faults
  /\ tasks' = [t \in Tasks |-> Reloaded(disk[t])]
  /\ order' = RetainAll(LoadOrder, OnDisk)
  /\ blocked' = [t \in Tasks |-> Queue!Blocking(tasks', t) \cap LoadedBefore(t)]
  /\ pending' = << >>
  /\ mode' = "Auto"
  /\ UNCHANGED disk

Init ==
  /\ Queue!Init
  /\ pending = << >>
  /\ mode = "Auto"  \* AssignmentConfig::default
  /\ disk = [t \in Tasks |-> Queue!Absent]

TaskStep(t) ==
  \/ \E deps \in DepChoices : CreateTask(t, deps)
  \/ DeleteTask(t)
  \/ UpdateTask(t)
  \/ StartTask(t)
  \/ MoveToReview(t)
  \/ ApproveTask(t)
  \/ OnTaskComplete(t)
  \/ RejectAssignment(t)

SessionStep(s) ==
  \/ \E t \in Tasks : Propose(s, t) \/ AssignNow(s, t) \/ DirectAssign(t, s) \/ ConfirmAssignment(t, s)
  \/ \E old, new \in SessionStatus : OnSessionStatusChanged(s, old, new)

Next ==
  \/ \E t \in Tasks : TaskStep(t)
  \/ \E s \in Sessions : SessionStep(s)
  \/ \E m \in Modes : SetMode(m)
  \/ SaveAll
  \/ Restart

Spec == Init /\ [][Next]_vars

(***************************************************************************)
(* Properties.                                                             *)
(***************************************************************************)

(* Every queued task can be found by the scheduler, although start_task,   *)
(* move_to_review and the status changes write statuses behind the queue's *)
(* back and load rebuilds the order from the files.                        *)
QueuedIsInOrder ==
  \A t \in Queue!Queued : Positions(order, t) # {}

(* start_task leaves the id of a queued task in the order, so a requeue    *)
(* lists it once more: the copies are bounded by the retries spent.        *)
CopiesAreRetries ==
  \A t \in Known : Occurrences(order, t) <= tasks[t].retries + 1

(* No runnable task is hidden from next_task_for_session by the order or   *)
(* by the blocked index, whatever wrote the statuses and after any load.   *)
RunnableIsEligible == Queue!RunnableIsEligible

(* The polling loop proposes again and again, yet no task and no session   *)
(* ever waits for two answers, so confirm and reject are unambiguous.      *)
OneProposalEach ==
  \A i, j \in 1 .. Len(pending) :
    i # j => pending[i].task # pending[j].task /\ pending[i].session # pending[j].session

(* A task the user sees survives a restart even when any write fails:      *)
(* create_task writes the file first, delete_task removes it last.         *)
KnownIsOnDisk == Known \subseteq OnDisk

(* The board as a user sees it: the abstract life of each task, in which a *)
(* restart sends unfinished work back to the queue, keeps finished work    *)
(* finished, and neither loses a task nor brings a deleted one back.       *)
Column(task) ==
  CASE task.status \in {"Assigned", "Working", "Verifying", "Blocked"} -> "Active"
    [] OTHER -> task.status

Lifecycle == INSTANCE TaskLifecycle WITH column <- [t \in Tasks |-> Column(tasks[t])]

ImplementsLifecycle == Lifecycle!Spec
==============================================================================
