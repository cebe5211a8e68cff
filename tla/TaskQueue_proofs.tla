-------------------------- MODULE TaskQueue_proofs --------------------------
(***************************************************************************)
(* The queue's invariants for any set of tasks and sessions, any           *)
(* dependency lists (cyclic ones included) and any retry limit.            *)
(***************************************************************************)
EXTENDS TaskQueue, VecOps_proofs

(* What the induction carries: OrderIsQueued says what each push and       *)
(* retain does to the order, BlockedIsSound what each status change does   *)
(* to the index.  RunnableIsEligible alone is not inductive.               *)
IInv == TypeOK /\ OrderIsQueued /\ BlockedIsSound

LEMMA InitIInv == Init => IInv
<1> SUFFICES ASSUME Init PROVE IInv
  OBVIOUS
<1> USE DEF Init
<1>1. << >> \in Seq(Tasks) /\ Len(<< >>) = 0 OBVIOUS
<1>2. Absent \in Task
  BY QueueAssumption DEF Absent, Task, QueueAssumption
<1>3. TypeOK BY <1>1, <1>2 DEF TypeOK
<1>4. ASSUME NEW t \in Tasks PROVE Occurrences(order, t) = 0 /\ t \notin Queued
  <2>1. \A i \in 1 .. 0 : << >>[i] # t OBVIOUS
  <2> QED BY <1>1, <2>1, OccursIff DEF Absent, Queued
<1>5. OrderIsQueued BY <1>4 DEF OrderIsQueued
<1>6. BlockedIsSound BY DEF BlockedIsSound
<1> QED BY <1>3, <1>5, <1>6 DEF IInv

(* A record keeps its shape when its status, and its session, are written. *)
LEMMA RecordUpdate ==
  ASSUME NEW r \in Task, NEW st \in TaskStatus, NEW s \in Sessions \cup {NoSession}
  PROVE  /\ [r EXCEPT !.status = st] \in Task
         /\ [r EXCEPT !.status = st, !.session = s] \in Task
<1>1. st \in TaskStatus \cup {"Absent"} OBVIOUS
<1> QED BY <1>1 DEF Task

(* Each operation writes records of the right shape.                       *)
LEMMA TypePreserved == TypeOK /\ [Next]_queueVars => TypeOK'
<1> SUFFICES ASSUME TypeOK, [Next]_queueVars PROVE TypeOK'
  OBVIOUS
<1> USE QueueAssumption DEF TypeOK, QueueAssumption, TaskStatus
<1>1. CASE UNCHANGED queueVars BY <1>1 DEF queueVars
<1>2. ASSUME NEW t \in Tasks, NEW deps \in DepChoices, Enqueue(t, NewTask(deps)) PROVE TypeOK'
  <2>1. NewTask(deps) \in Task BY DEF NewTask, Task
  <2>2. tasks' \in [Tasks -> Task] BY <1>2, <2>1 DEF Enqueue
  <2>3. order' \in Seq(Tasks) BY <1>2 DEF Enqueue
  <2>4. Blocking(tasks', t) \in SUBSET Tasks BY <2>2 DEF Blocking, Task
  <2>5. blocked' \in [Tasks -> SUBSET Tasks] BY <1>2, <2>4 DEF Enqueue
  <2> QED BY <2>2, <2>3, <2>5
<1>3. ASSUME NEW t \in Tasks, Dequeue(t) PROVE TypeOK'
  <2>1. Absent \in Task BY DEF Absent, Task
  <2>2. order' \in Seq(Tasks) BY <1>3, RetainOccurrences DEF Dequeue
  <2> QED BY <1>3, <2>1, <2>2 DEF Dequeue
<1>4. ASSUME NEW t \in Tasks, NEW s \in Sessions, AssignTask(t, s) PROVE TypeOK'
  <2>1. order' \in Seq(Tasks) BY <1>4, RetainOccurrences DEF AssignTask
  <2>2. tasks' = [tasks EXCEPT ![t] = [tasks[t] EXCEPT !.status = "Assigned", !.session = s]]
    BY <1>4 DEF AssignTask
  <2>3. [tasks[t] EXCEPT !.status = "Assigned", !.session = s] \in Task
    BY tasks[t] \in Task, RecordUpdate
  <2>4. tasks' \in [Tasks -> Task] BY <2>2, <2>3
  <2> QED BY <1>4, <2>1, <2>4 DEF AssignTask
<1>5. ASSUME NEW t \in Tasks, CompleteTask(t) PROVE TypeOK'
  <2>1. tasks' \in [Tasks -> Task]
    <3>1. [tasks[t] EXCEPT !.status = "Done"] \in Task
      BY tasks[t] \in Task, RecordUpdate
    <3> QED BY <1>5, <3>1 DEF CompleteTask
  <2>2. blocked' \in [Tasks -> SUBSET Tasks] BY <1>5 DEF CompleteTask
  <2> QED BY <1>5, <2>1, <2>2 DEF CompleteTask
<1>6. ASSUME NEW t \in Tasks, RequeueTask(t) PROVE TypeOK'
  <2>1. tasks[t].retries + 1 \in 0 .. MaxRetries
    BY <1>6 DEF RequeueTask, CanRetry, Task
  <2>2. tasks' \in [Tasks -> Task] BY <1>6, <2>1 DEF RequeueTask, Task
  <2> QED BY <1>6, <2>2 DEF RequeueTask
<1>7. ASSUME UpdateBlockedStatus PROVE TypeOK'
  <2>1. \A t \in Tasks : Blocking(tasks, t) \in SUBSET Tasks BY DEF Blocking, Task
  <2> QED BY <1>7, <2>1 DEF UpdateBlockedStatus
<1> QED BY <1>1, <1>2, <1>3, <1>4, <1>5, <1>6, <1>7 DEF Next

(* The order follows the queued tasks: a push happens exactly when a task  *)
(* becomes queued, and a retain exactly when it stops being queued.        *)
LEMMA OrderPreserved == IInv /\ [Next]_queueVars => OrderIsQueued'
<1> SUFFICES ASSUME IInv, [Next]_queueVars, NEW u \in Tasks
             PROVE  Occurrences(order', u) = IF u \in Queued' THEN 1 ELSE 0
  BY DEF OrderIsQueued
<1> USE DEF IInv, TypeOK
<1>0. Occurrences(order, u) = IF u \in Queued THEN 1 ELSE 0
  BY DEF OrderIsQueued
<1>1. CASE UNCHANGED queueVars BY <1>0, <1>1 DEF queueVars, Queued
<1>2. ASSUME NEW t \in Tasks, NEW deps \in DepChoices, Enqueue(t, NewTask(deps))
      PROVE  Occurrences(order', u) = IF u \in Queued' THEN 1 ELSE 0
  <2>1. Occurrences(order', u) = Occurrences(order, u) + (IF u = t THEN 1 ELSE 0)
    BY <1>2, OccurrencesAppend DEF Enqueue
  <2>2. t \notin Queued /\ Queued' = Queued \cup {t}
    BY <1>2 DEF Enqueue, Queued, Known, NewTask
  <2> QED BY <1>0, <2>1, <2>2
<1>3. ASSUME NEW t \in Tasks, Dequeue(t)
      PROVE  Occurrences(order', u) = IF u \in Queued' THEN 1 ELSE 0
  <2>1. Occurrences(order', u) = IF u = t THEN 0 ELSE Occurrences(order, u)
    BY <1>3, RetainOccurrences DEF Dequeue
  <2>2. Queued' = Queued \ {t} BY <1>3 DEF Dequeue, Queued, Absent
  <2> QED BY <1>0, <2>1, <2>2
<1>4. ASSUME NEW t \in Tasks, NEW s \in Sessions, AssignTask(t, s)
      PROVE  Occurrences(order', u) = IF u \in Queued' THEN 1 ELSE 0
  <2>1. Occurrences(order', u) = IF u = t THEN 0 ELSE Occurrences(order, u)
    BY <1>4, RetainOccurrences DEF AssignTask
  <2>2. Queued' = Queued \ {t} BY <1>4 DEF AssignTask, Queued, Task
  <2> QED BY <1>0, <2>1, <2>2
<1>5. ASSUME NEW t \in Tasks, CompleteTask(t)
      PROVE  Occurrences(order', u) = IF u \in Queued' THEN 1 ELSE 0
  <2>1. Queued' = Queued BY <1>5 DEF CompleteTask, Queued, Task
  <2> QED BY <1>0, <1>5, <2>1 DEF CompleteTask
<1>6. ASSUME NEW t \in Tasks, RequeueTask(t)
      PROVE  Occurrences(order', u) = IF u \in Queued' THEN 1 ELSE 0
  <2>1. Occurrences(order', u) = Occurrences(order, u) + (IF u = t THEN 1 ELSE 0)
    BY <1>6, OccurrencesAppend DEF RequeueTask
  <2>2. t \notin Queued /\ Queued' = Queued \cup {t}
    BY <1>6 DEF RequeueTask, Queued, Task
  <2> QED BY <1>0, <2>1, <2>2
<1>7. ASSUME UpdateBlockedStatus
      PROVE  Occurrences(order', u) = IF u \in Queued' THEN 1 ELSE 0
  BY <1>0, <1>7 DEF UpdateBlockedStatus, Queued
<1> QED BY <1>1, <1>2, <1>3, <1>4, <1>5, <1>6, <1>7 DEF Next

(* The index stays sound: the only operation that makes a task done takes  *)
(* it out of every blocker set, and no operation gives an unfinished task  *)
(* a blocker that is not one of its dependencies.                          *)
LEMMA BlockedPreserved == IInv /\ [Next]_queueVars => BlockedIsSound'
<1> SUFFICES ASSUME IInv, [Next]_queueVars, NEW u \in Tasks
             PROVE  blocked'[u] \subseteq tasks'[u].deps \ Done'
  BY DEF BlockedIsSound
<1> USE DEF IInv, TypeOK
<1>0. blocked[u] \subseteq tasks[u].deps \ Done
  BY DEF BlockedIsSound
<1>1. CASE UNCHANGED queueVars BY <1>0, <1>1 DEF queueVars, Done
<1>2. ASSUME NEW t \in Tasks, NEW deps \in DepChoices, Enqueue(t, NewTask(deps))
      PROVE  blocked'[u] \subseteq tasks'[u].deps \ Done'
  <2>1. Done' = Done \ {t} BY <1>2 DEF Enqueue, Done, Known, NewTask
  <2>2. CASE u = t
    <3>1. blocked'[u] = Blocking(tasks', u) BY <1>2, <2>2 DEF Enqueue
    <3> QED BY <3>1 DEF Blocking, Done
  <2>3. CASE u # t BY <1>0, <1>2, <2>1, <2>3 DEF Enqueue
  <2> QED BY <2>2, <2>3
<1>3. ASSUME NEW t \in Tasks, Dequeue(t)
      PROVE  blocked'[u] \subseteq tasks'[u].deps \ Done'
  <2>1. Done' = Done \ {t} BY <1>3 DEF Dequeue, Done, Absent
  <2> QED BY <1>0, <1>3, <2>1 DEF Dequeue
<1>4. ASSUME NEW t \in Tasks, NEW s \in Sessions, AssignTask(t, s)
      PROVE  blocked'[u] \subseteq tasks'[u].deps \ Done'
  <2>1. Done' = Done BY <1>4 DEF AssignTask, Queued, Done, Task
  <2>2. tasks'[u].deps = tasks[u].deps BY <1>4 DEF AssignTask, Task
  <2> QED BY <1>0, <1>4, <2>1, <2>2 DEF AssignTask
<1>5. ASSUME NEW t \in Tasks, CompleteTask(t)
      PROVE  blocked'[u] \subseteq tasks'[u].deps \ Done'
  <2>1. Done' = Done \cup {t} BY <1>5 DEF CompleteTask, Done, Task
  <2>2. tasks'[u].deps = tasks[u].deps BY <1>5 DEF CompleteTask, Task
  <2> QED BY <1>0, <1>5, <2>1, <2>2 DEF CompleteTask
<1>6. ASSUME NEW t \in Tasks, RequeueTask(t)
      PROVE  blocked'[u] \subseteq tasks'[u].deps \ Done'
  <2>1. Done' = Done BY <1>6 DEF RequeueTask, Done, Task
  <2>2. tasks'[u].deps = tasks[u].deps BY <1>6 DEF RequeueTask, Task
  <2> QED BY <1>0, <1>6, <2>1, <2>2 DEF RequeueTask
<1>7. ASSUME UpdateBlockedStatus
      PROVE  blocked'[u] \subseteq tasks'[u].deps \ Done'
  BY <1>0, <1>7 DEF UpdateBlockedStatus, Blocking, Done
<1> QED BY <1>1, <1>2, <1>3, <1>4, <1>5, <1>6, <1>7 DEF Next

(* Every reachable state of the queue satisfies the inductive invariant.   *)
THEOREM Invariance == Spec => []IInv
<1>1. Init => IInv BY InitIInv
<1>2. IInv /\ [Next]_queueVars => IInv'
  BY TypePreserved, OrderPreserved, BlockedPreserved DEF IInv
<1> QED BY <1>1, <1>2, PTL DEF Spec

(* The queue's variables keep their types.                                 *)
THEOREM TypeCorrect == Spec => []TypeOK
<1>1. IInv => TypeOK BY DEF IInv
<1> QED BY <1>1, Invariance, PTL

(* The order lists each queued task exactly once and nothing else, through *)
(* enqueue, requeue_task, assign_task, complete_task and dequeue.          *)
THEOREM OrderTracksQueued == Spec => []OrderIsQueued
<1>1. IInv => OrderIsQueued BY DEF IInv
<1> QED BY <1>1, Invariance, PTL

(* A task is held back only by unfinished dependencies of its own.         *)
THEOREM BlockedSoundness == Spec => []BlockedIsSound
<1>1. IInv => BlockedIsSound BY DEF IInv
<1> QED BY <1>1, Invariance, PTL

(* next_task sees every queued task whose dependencies are done: by the    *)
(* order it occurs, and by the soundness of the index nothing blocks it.   *)
THEOREM NoRunnableTaskHidden == Spec => []RunnableIsEligible
<1>1. ASSUME IInv PROVE RunnableIsEligible
  <2> SUFFICES ASSUME NEW t \in Queued, tasks[t].deps \subseteq Done PROVE t \in Eligible
    BY DEF RunnableIsEligible
  <2>1. t \in Tasks BY DEF Queued
  <2>2. Occurrences(order, t) = 1 BY <1>1, <2>1 DEF IInv, OrderIsQueued
  <2>3. Positions(order, t) # {}
    BY <2>2, FS_EmptySet DEF Occurrences
  <2>4. blocked[t] = {} BY <1>1, <2>1 DEF IInv, BlockedIsSound
  <2> QED BY <2>1, <2>3, <2>4 DEF Eligible, IsEligible
<1> QED BY <1>1, Invariance, PTL
=============================================================================
