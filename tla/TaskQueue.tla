------------------------------ MODULE TaskQueue ------------------------------
(***************************************************************************)
(* The task queue of codirigent-core (scheduler/queue.rs and               *)
(* scheduler/selection.rs): the map of known tasks, the list of queued     *)
(* task ids and the index of blocked tasks.  The queue is a plain struct   *)
(* owned by the task manager: one operation runs at a time, and each       *)
(* operation that returns Err leaves the state alone.                      *)
(*                                                                         *)
(* The Rust maps are total functions here: a task that is not a key of     *)
(* `tasks` has status "Absent", and a task that is not a key of            *)
(* `state.blocked` has the empty set of blockers (the code never keeps a   *)
(* key with an empty list).  Names, prompts, tags, priorities, timestamps  *)
(* and the bus events are left out.                                        *)
(***************************************************************************)
EXTENDS VecOps

CONSTANTS Tasks,       \* the task ids a client may use
          Sessions,    \* the sessions a task may be assigned to
          NoSession,   \* assigned_session = None
          MaxRetries,  \* RetryConfig::max_retries
          DepChoices   \* the dependency lists a created task may have

ASSUME QueueAssumption ==
  /\ NoSession \notin Sessions
  /\ MaxRetries \in Nat
  /\ DepChoices \subseteq SUBSET Tasks

VARIABLES tasks,    \* TaskQueue::tasks
          order,    \* QueueState::order
          blocked   \* QueueState::blocked

queueVars == <<tasks, order, blocked>>

TaskStatus == {"Queued", "Assigned", "Working", "Verifying", "Review", "Done", "Blocked"}

Task == [status  : TaskStatus \cup {"Absent"},
         session : Sessions \cup {NoSession},
         retries : 0 .. MaxRetries,
         deps    : SUBSET Tasks]

(* Task::new: queued, unassigned, never retried.                           *)
NewTask(deps) == [status |-> "Queued", session |-> NoSession, retries |-> 0, deps |-> deps]

Absent == [status |-> "Absent", session |-> NoSession, retries |-> 0, deps |-> {}]

Known == {t \in Tasks : tasks[t].status # "Absent"}

Done == {t \in Tasks : tasks[t].status = "Done"}

Queued == {t \in Tasks : tasks[t].status = "Queued"}

TypeOK ==
  /\ tasks \in [Tasks -> Task]
  /\ order \in Seq(Tasks)
  /\ blocked \in [Tasks -> SUBSET Tasks]

(***************************************************************************)
(* Helpers.                                                                *)
(***************************************************************************)

(* The dependencies of t that are in the map tm and not done: the others,  *)
(* unknown ids included, do not block.                                     *)
Blocking(tm, t) == {d \in tm[t].deps : tm[d].status \notin {"Absent", "Done"}}

(* The filter of next_task: taken from the order, so a queued task missing *)
(* from it is never seen, and hidden by an entry of the blocked index.     *)
IsEligible(t) ==
  /\ Positions(order, t) # {}
  /\ t \in Queued
  /\ blocked[t] = {}
  /\ tasks[t].deps \subseteq Done

Eligible == {t \in Tasks : IsEligible(t)}

(* SchedulerMode::Fifo takes the first eligible id of the order; the other *)
(* modes take the best score, which depends on priority, age and tags and  *)
(* so may be any eligible task.                                            *)
NextTasks(mode, candidates) ==
  IF mode = "Fifo"
  THEN {t \in candidates :
          \E i \in DOMAIN order : /\ order[i] = t
                                  /\ \A j \in 1 .. i - 1 : order[j] \notin candidates}
  ELSE candidates

(***************************************************************************)
(* Operations.                                                             *)
(***************************************************************************)

Init ==
  /\ tasks = [t \in Tasks |-> Absent]
  /\ order = << >>
  /\ blocked = [t \in Tasks |-> {}]

(* enqueue: every task goes to the end of the order, whatever its status;  *)
(* only the new task's own entry of the blocked index is computed.         *)
Enqueue(t, task) ==
  /\ t \notin Known
  /\ tasks' = [tasks EXCEPT ![t] = task]
  /\ order' = Append(order, t)
  /\ blocked' = [blocked EXCEPT ![t] = Blocking(tasks', t)]

(* Mutant of Dequeue: the id stays in the order.                           *)
DequeueKeepingOrder(t) ==
  /\ tasks' = [tasks EXCEPT ![t] = Absent]
  /\ blocked' = [blocked EXCEPT ![t] = {}]
  /\ UNCHANGED order

(* dequeue: the entries of other tasks that name t stay as they are.       *)
Dequeue(t) ==
  /\ tasks' = [tasks EXCEPT ![t] = Absent]
  /\ order' = Retain(order, t)
  /\ blocked' = [blocked EXCEPT ![t] = {}]

(* Mutant of AssignTask: the id stays in the order.                        *)
AssignKeepingOrder(t, s) ==
  /\ t \in Queued
  /\ tasks' = [tasks EXCEPT ![t].status = "Assigned", ![t].session = s]
  /\ UNCHANGED <<order, blocked>>

(* assign_task: neither the blocked index nor the dependencies are asked.  *)
AssignTask(t, s) ==
  /\ t \in Queued
  /\ tasks' = [tasks EXCEPT ![t].status = "Assigned", ![t].session = s]
  /\ order' = Retain(order, t)
  /\ UNCHANGED blocked

(* Mutant of CompleteTask: the blocked index is not told.                  *)
CompleteQuietly(t) ==
  /\ tasks[t].status \in {"Assigned", "Working", "Verifying", "Review"}
  /\ tasks' = [tasks EXCEPT ![t].status = "Done"]
  /\ UNCHANGED <<order, blocked>>

(* complete_task: the task keeps its session and leaves every blocker set. *)
CompleteTask(t) ==
  /\ tasks[t].status \in {"Assigned", "Working", "Verifying", "Review"}
  /\ tasks' = [tasks EXCEPT ![t].status = "Done"]
  /\ blocked' = [u \in Tasks |-> blocked[u] \ {t}]
  /\ UNCHANGED order

(* Mutant of CanRetry: one retry too many.                                 *)
CanRetryAtLimit(task) == task.retries <= MaxRetries

CanRetry(task) == task.retries < MaxRetries

(* Mutant of RequeueTask: the id is not put back into the order.           *)
RequeueUnlisted(t) ==
  /\ tasks[t].status \in {"Assigned", "Working", "Verifying", "Review", "Blocked"}
  /\ CanRetry(tasks[t])
  /\ tasks' = [tasks EXCEPT ![t].status = "Queued", ![t].session = NoSession,
                            ![t].retries = @ + 1]
  /\ UNCHANGED <<order, blocked>>

(* requeue_task: the id is pushed without a look at what the order holds.  *)
RequeueTask(t) ==
  /\ tasks[t].status \in {"Assigned", "Working", "Verifying", "Review", "Blocked"}
  /\ CanRetry(tasks[t])
  /\ tasks' = [tasks EXCEPT ![t].status = "Queued", ![t].session = NoSession,
                            ![t].retries = @ + 1]
  /\ order' = Append(order, t)
  /\ UNCHANGED blocked

(* update_blocked_status: update_blocked_for_task on every key of the map. *)
UpdateBlockedStatus ==
  /\ blocked' = [t \in Tasks |-> IF t \in Known THEN Blocking(tasks, t) ELSE blocked[t]]
  /\ UNCHANGED <<tasks, order>>

Next ==
  \/ \E t \in Tasks, deps \in DepChoices : Enqueue(t, NewTask(deps))
  \/ \E t \in Tasks : Dequeue(t)
  \/ \E t \in Tasks, s \in Sessions : AssignTask(t, s)
  \/ \E t \in Tasks : CompleteTask(t)
  \/ \E t \in Tasks : RequeueTask(t)
  \/ UpdateBlockedStatus

Spec == Init /\ [][Next]_queueVars

(***************************************************************************)
(* Properties of the queue used through its own operations only.           *)
(***************************************************************************)

(* The order lists each queued task exactly once and nothing else: enqueue *)
(* and requeue_task push without looking, assign_task and dequeue remove.  *)
OrderIsQueued ==
  \A t \in Tasks : Occurrences(order, t) = IF t \in Queued THEN 1 ELSE 0

(* The blocked index is sound: a task is held back only by dependencies of *)
(* its own that are not done, although complete_task, dequeue and enqueue  *)
(* update it one entry at a time.                                          *)
BlockedIsSound ==
  \A t \in Tasks : blocked[t] \subseteq tasks[t].deps \ Done

(* No runnable task is hidden from the scheduler: a queued task with every *)
(* dependency done passes the filter of next_task, so neither a lost id in *)
(* the order nor a stale entry of the blocked index can starve it.         *)
RunnableIsEligible ==
  \A t \in Queued : tasks[t].deps \subseteq Done => t \in Eligible
==============================================================================
