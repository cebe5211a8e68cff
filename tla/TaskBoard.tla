------------------------------ MODULE TaskBoard ------------------------------
(***************************************************************************)
(* The task board of codirigent-ui: how the workspace, on the UI thread,   *)
(* ties the tasks of the task manager to the sessions it shows.  The user  *)
(* acts on the board (impl_task_board.rs), the status of a session follows *)
(* its CLI (status_reconcile.rs), the maintenance timer ends compactions   *)
(* and drops old proposals (terminal_input.rs, impl_output_polling.rs),    *)
(* and an idle session is given the next task.                             *)
(*                                                                         *)
(* A handler runs to its end before the next one starts.                   *)
(* sync_session_status may change a task, and then assign another: it is   *)
(* two steps, and `syncing` keeps every other handler out in between.      *)
(*                                                                         *)
(* Every session runs a known CLI; context usage decides nothing but       *)
(* whether try_compact compacts, and so is a free choice.  The board never *)
(* retries a task, never gives one dependencies and never loads files, and *)
(* new ids are fresh: an id is used again here only once all is forgotten. *)
(***************************************************************************)
EXTENDS Integers, Sequences

CONSTANTS Tasks, Sessions, NoSession, MaxRetries, DepChoices, Compatible, SchedulerMode,
          Modes, MaxPending, LoadOrder, Faults,
          NoTask,    \* current_task = None
          Statuses   \* the statuses the reconciler may give a session

VARIABLES tasks, order, blocked, pending, mode, disk,  \* the task manager
          open,        \* the sessions of the workspace
          status,      \* Session::status
          current,     \* Session::current_task
          manual,      \* manually_assigned_sessions
          compacting,  \* compacting_sessions, and the keys of compaction_start_times
          enter,       \* pending_enters: "none", "unsent" or "sent"
          syncing      \* the session whose sync has its idle half to run, or NoSession

Manager == INSTANCE TaskManager

ASSUME BoardAssumption ==
  /\ Manager!ManagerAssumption
  /\ {} \in DepChoices
  /\ NoTask \notin Tasks
  /\ "Idle" \in Statuses
  /\ Statuses \subseteq Manager!SessionStatus \ {"Error"}  \* nothing in the app reports Error

managerVars == <<tasks, order, blocked, pending, mode, disk>>

boardVars == <<open, status, current, manual, compacting, enter>>

vars == <<managerVars, boardVars, syncing>>

TypeOK ==
  /\ Manager!TypeOK
  /\ open \subseteq Sessions
  /\ status \in [Sessions -> Statuses]
  /\ current \in [Sessions -> Tasks \cup {NoTask}]
  /\ \A s \in Sessions \ open : current[s] = NoTask
  /\ manual \subseteq Sessions
  /\ compacting \subseteq open
  /\ enter \in [Sessions -> {"none", "unsent", "sent"}]
  /\ syncing \in Sessions \cup {NoSession}

(***************************************************************************)
(* Shared steps.                                                           *)
(***************************************************************************)

(* send_task_to_session: the prompt is typed, its Enter comes later.       *)
SendTaskToSession(t, s) ==
  /\ current' = [current EXCEPT ![s] = IF s \in open THEN t ELSE @]
  /\ enter' = [enter EXCEPT ![s] = "unsent"]

(* session_with_task and clear_task_from_session, once the manager's call  *)
(* has succeeded: an error of the storage leaves the session its task.     *)
ReleaseTask(t) ==
  LET saved == disk'[t] = tasks'[t]
      holders == {s \in open : current[s] = t}
  IN  \/ /\ saved
         /\ \E s \in holders : current' = [current EXCEPT ![s] = NoTask]
      \/ /\ ~ saved \/ holders = {}
         /\ UNCHANGED current

(***************************************************************************)
(* The user's actions, as the buttons of each column offer them.  Reopen   *)
(* of a done task calls start_task, which refuses it.                      *)
(***************************************************************************)

AddTask(t) ==
  /\ Manager!PendingFor(t) = {}
  /\ t \notin Manager!Known
  /\ \A s \in Sessions : current[s] # t
  /\ Manager!CreateTask(t, {})
  /\ UNCHANGED boardVars

EditTask(t) ==
  /\ Manager!UpdateTask(t)
  /\ UNCHANGED boardVars

(* Mutant of Review: the session keeps the task.                           *)
ReviewHolding(t) ==
  /\ tasks[t].status \in {"Assigned", "Working"}
  /\ Manager!MoveToReview(t)
  /\ UNCHANGED boardVars

Review(t) ==
  /\ tasks[t].status \in {"Assigned", "Working"}
  /\ Manager!MoveToReview(t)
  /\ ReleaseTask(t)
  /\ UNCHANGED <<open, status, manual, compacting, enter>>

Complete(t) ==
  /\ tasks[t].status \in {"Verifying", "Review"}
  /\ Manager!ApproveTask(t)
  /\ ReleaseTask(t)
  /\ UNCHANGED <<open, status, manual, compacting, enter>>

(* Delete of a queued or a done task, Reject of one in review.             *)
Delete(t) ==
  /\ tasks[t].status \in {"Queued", "Blocked", "Verifying", "Review", "Done"}
  /\ Manager!DeleteTask(t)
  /\ ReleaseTask(t)
  /\ UNCHANGED <<open, status, manual, compacting, enter>>

(* Mutant of AssignableSessions: an idle session that holds a task.        *)
IdleSessions(t) == {s \in open : status[s] = "Idle" /\ <<t, s>> \in Compatible}

(* find_assignable_session_for_task: the focused session, else the one     *)
(* with the least context used, of these.                                  *)
AssignableSessions(t) ==
  {s \in open : status[s] = "Idle" /\ current[s] = NoTask /\ <<t, s>> \in Compatible}

Assign(t, s) ==
  /\ s \in AssignableSessions(t)
  /\ Manager!DirectAssign(t, s)
  /\ SendTaskToSession(t, s)
  /\ manual' = manual \cup {s}
  /\ UNCHANGED <<open, status, compacting>>

(* The session is the one of the proposal; nothing asks whether it is      *)
(* still free, or still there.                                             *)
Confirm(t, s) ==
  /\ \E i \in Manager!PendingFor(t) : pending[i].session = s
  /\ Manager!ConfirmAssignment(t, s)
  /\ \/ tasks' # tasks /\ SendTaskToSession(t, s)
     \/ tasks' = tasks /\ UNCHANGED <<current, enter>>
  /\ UNCHANGED <<open, status, manual, compacting>>

Reject(t) ==
  /\ Manager!RejectAssignment(t)
  /\ UNCHANGED boardVars

AutoAssignModeChanged(m) ==
  /\ Manager!SetMode(m)
  /\ UNCHANGED boardVars

(* Mutant of CloseSession: the compaction guard is not ended.              *)
CloseCompacting(s) ==
  /\ s \in open
  /\ open' = open \ {s}
  /\ status' = [status EXCEPT ![s] = "Idle"]
  /\ current' = [current EXCEPT ![s] = NoTask]
  /\ UNCHANGED <<managerVars, manual, compacting, enter>>

(* close_session: tasks, proposals, pending Enters and manual assignments  *)
(* of the session are left as they are.                                    *)
CloseSession(s) ==
  /\ s \in open
  /\ open' = open \ {s}
  /\ status' = [status EXCEPT ![s] = "Idle"]
  /\ current' = [current EXCEPT ![s] = NoTask]
  /\ compacting' = compacting \ {s}
  /\ UNCHANGED <<managerVars, manual, enter>>

(***************************************************************************)
(* The timers.                                                             *)
(***************************************************************************)

(* Mutant of ProcessDeferredEnter: a sent Enter is never dropped.          *)
EnterForever(s) ==
  /\ enter[s] # "none"
  /\ enter' = [enter EXCEPT ![s] = "sent"]
  /\ UNCHANGED <<managerVars, open, status, current, manual, compacting>>

(* process_deferred_enters: the Enter after 100 ms; the session is left    *)
(* alone for another 500 ms.                                               *)
ProcessDeferredEnter(s) ==
  /\ enter[s] # "none"
  /\ enter' = [enter EXCEPT ![s] = IF @ = "unsent" THEN "sent" ELSE "none"]
  /\ UNCHANGED <<managerVars, open, status, current, manual, compacting>>

(* cleanup_compaction_timeouts.                                            *)
CompactionTimeout(s) ==
  /\ s \in compacting
  /\ compacting' = compacting \ {s}
  /\ UNCHANGED <<managerVars, open, status, current, manual, enter>>

(* cleanup_stale_proposals: those of a busy or closed session go, and then *)
(* the oldest ones that are more than five minutes old.                    *)
CleanupStaleProposals ==
  LET free == {p \in Manager!Proposal : p.session \in open /\ current[p.session] = NoTask}
      fresh == Manager!RetainAll(pending, free)
  IN  /\ \E k \in 1 .. Len(fresh) + 1 : pending' = SubSeq(fresh, k, Len(fresh))
      /\ UNCHANGED <<tasks, order, blocked, mode, disk, boardVars>>

(***************************************************************************)
(* sync_session_status.                                                    *)
(***************************************************************************)

(* The idle half comes next for an idle session that is not about to run   *)
(* /clear and has no text waiting for its Enter.                           *)
GoOn(s, new, justStarted) ==
  syncing' = IF new = "Idle" /\ ~ justStarted /\ enter[s] = "none" THEN s ELSE NoSession

(* The session's task went to review: the session loses its task and is    *)
(* sent /clear, unless a compaction is under way already.                  *)
ClearSession(s) ==
  /\ current' = [current EXCEPT ![s] = NoTask]
  /\ compacting' = compacting \cup {s}
  /\ enter' = IF s \in compacting THEN enter ELSE [enter EXCEPT ![s] = "unsent"]

(* The status changes, and the task manager is told.                       *)
StatusChange(s, new) ==
  LET mapped(t) == Manager!MapSessionToTaskStatus(status[s], new, tasks[t].status)
  IN  /\ new # status[s]
      /\ status' = [status EXCEPT ![s] = new]
      /\ \/ \E t \in Manager!TasksOf(s) :
              /\ Manager!TransitionTaskStatus(t, mapped(t))
              /\ \/ /\ mapped(t) = "Review" /\ disk'[t] = tasks'[t]
                    /\ ClearSession(s)
                    /\ GoOn(s, new, s \notin compacting)
                 \/ /\ ~ (mapped(t) = "Review" /\ disk'[t] = tasks'[t])
                    /\ GoOn(s, new, FALSE)
                    /\ UNCHANGED <<current, compacting, enter>>
         \/ /\ \/ Manager!TasksOf(s) = {}
               \/ \E t \in Manager!TasksOf(s) : mapped(t) = tasks[t].status
            /\ GoOn(s, new, FALSE)
            /\ UNCHANGED <<managerVars, current, compacting, enter>>
      /\ UNCHANGED <<open, manual>>

(* A poll that finds the status unchanged.                                 *)
Poll(s) ==
  /\ GoOn(s, status[s], FALSE)
  /\ UNCHANGED <<managerVars, boardVars>>

SyncSessionStatus(s, new) ==
  /\ s \in open
  /\ StatusChange(s, new) \/ (new = status[s] /\ Poll(s))

(* try_auto_assign of a task: the session is free and the user has given   *)
(* it one by hand before.                                                  *)
AutoAssigned(s) ==
  /\ current[s] = NoTask /\ s \in manual
  /\ \E t \in Tasks : Manager!AssignNow(s, t) /\ SendTaskToSession(t, s)

(* try_auto_assign: no task for the session, or not idle for long enough.  *)
TryAutoAssign(s) ==
  \/ AutoAssigned(s)
  \/ /\ current[s] = NoTask /\ s \in manual
     /\ \E t \in Tasks : Manager!Propose(s, t)
     /\ UNCHANGED <<current, enter>>
  \/ UNCHANGED <<managerVars, current, enter>>

(* A session found idle has ended its compaction; one that holds a task    *)
(* may be sent /compact.                                                   *)
IdleHalf(s) ==
  /\ syncing = s
  /\ syncing' = NoSession
  /\ \/ compacting' = compacting \ {s} /\ TryAutoAssign(s)
     \/ /\ s \notin compacting /\ current[s] # NoTask
        /\ compacting' = compacting \cup {s}
        /\ UNCHANGED <<managerVars, current, enter>>
  /\ UNCHANGED <<open, status, manual>>

Init ==
  /\ Manager!Init
  /\ open = Sessions
  /\ status = [s \in Sessions |-> "Idle"]
  /\ current = [s \in Sessions |-> NoTask]
  /\ manual = {}
  /\ compacting = {}
  /\ enter = [s \in Sessions |-> "none"]
  /\ syncing = NoSession

UserStep ==
  \/ \E t \in Tasks :
       \/ AddTask(t) \/ EditTask(t) \/ Review(t) \/ Complete(t) \/ Delete(t) \/ Reject(t)
       \/ \E s \in Sessions : Assign(t, s) \/ Confirm(t, s)
  \/ \E m \in Modes : AutoAssignModeChanged(m)
  \/ \E s \in Sessions : CloseSession(s)

TimerStep ==
  \/ \E s \in Sessions : ProcessDeferredEnter(s) \/ CompactionTimeout(s)
  \/ CleanupStaleProposals

Next ==
  \/ /\ syncing = NoSession
     /\ \/ (UserStep \/ TimerStep) /\ UNCHANGED syncing
        \/ \E s \in Sessions, new \in Statuses : SyncSessionStatus(s, new)
  \/ \E s \in Sessions : IdleHalf(s)

Spec == Init /\ [][Next]_vars

(***************************************************************************)
(* Fairness: sessions whose status is cached are polled by the maintenance *)
(* timer, the deferred Enters by the output loop; both fire again and      *)
(* again between other handlers.  A session polled again and again while   *)
(* idle passes the idle threshold, which on_session_idle counts from its   *)
(* first call.                                                             *)
(***************************************************************************)

Fairness ==
  \A s \in Sessions :
    /\ SF_vars(syncing = NoSession /\ s \in open /\ Poll(s))
    /\ SF_vars(syncing = NoSession /\ ProcessDeferredEnter(s) /\ UNCHANGED syncing)
    /\ WF_vars(IdleHalf(s))
    /\ SF_vars(IdleHalf(s) /\ AutoAssigned(s))

FairSpec == Spec /\ Fairness

(***************************************************************************)
(* Properties.                                                             *)
(***************************************************************************)

Active == {"Assigned", "Working", "Verifying", "Blocked"}

(* While nothing is proposed, a task under way in an open session is that  *)
(* session's current task, so no session works on two tasks: statuses,     *)
(* session fields and the manager's assignment are written by different    *)
(* handlers and find_task_by_session may pick any task of the session.     *)
ActiveTaskIsCurrent ==
  \A t \in Tasks :
    tasks[t].status \in Active /\ tasks[t].session \in open => current[tasks[t].session] = t

(* A session is released with its task: what it holds is still under way   *)
(* and assigned to it, never a deleted, reviewed or finished task.         *)
CurrentTaskIsActive ==
  \A s \in open :
    current[s] # NoTask =>
      /\ tasks[current[s]].status \in Active
      /\ tasks[current[s]].session = s

Starving(s) ==
  /\ s \in open /\ status[s] = "Idle" /\ current[s] = NoTask /\ s \in manual
  /\ mode = "Auto"
  /\ Manager!NextTaskForSession(s) # {}

(* In mode Auto an idle session the user has introduced does not wait for  *)
(* ever beside a queued task: compaction, deferred Enters and the idle     *)
(* threshold hold it back only for a while.                                *)
IdleSessionsAreServed ==
  \A s \in Sessions : Starving(s) ~> ~ Starving(s)

(***************************************************************************)
(* What comments of the code say, and the code does not do.                *)
(***************************************************************************)

(* cleanup_stale_proposals: "Reject pending task assignments whose target  *)
(* session became busy".  A confirmation that comes before the next tick   *)
(* still goes through, and the session's task is replaced.                 *)
BusySessionKeepsItsTask ==
  [][\A s \in Sessions : current[s] # NoTask => current'[s] \in {current[s], NoTask}]_vars

(* map_session_to_task_status: "Session Idle/NeedsAttention -> Working     *)
(* (task Assigned) -> Task Working".  find_task_by_session may return an   *)
(* older task of the session, in review or done.                           *)
AssignedTaskStarts ==
  [][\A s \in open :
       /\ status[s] \in {"Idle", "NeedsAttention"} /\ status'[s] = "Working"
       /\ current[s] # NoTask
       /\ tasks[current[s]].status = "Assigned"
       => tasks'[current[s]].status = "Working"]_vars
==============================================================================
