---------------------------- MODULE TaskBoard_proofs ----------------------------
(***************************************************************************)
(* What the task board promises for any tasks, sessions, modes and retry   *)
(* limit.  Two handlers in a row may belong to the user, to a session's    *)
(* status or to a timer, and each writes the manager's tasks, the session  *)
(* fields, or both.                                                        *)
(*                                                                         *)
(* The argument has two halves.  Every handler calls the manager at most   *)
(* once (BoardCallsManager), so the manager's own invariants carry over;   *)
(* and of the tasks and the sessions' current tasks it makes one of seven  *)
(* moves (BoardMoves), on which the two properties that relate tasks and   *)
(* sessions rest.  Those two need what the code does not give in general:  *)
(* a failed write leaves a session a task that is no longer under way, and *)
(* a confirmation replaces the task of a session that is busy by now.      *)
(***************************************************************************)
EXTENDS TaskBoard, TLAPS

P == INSTANCE TaskManager_proofs

(***************************************************************************)
(* The manager of the board is the manager of TaskManager_proofs: the two  *)
(* instances define the same operators under two names.                    *)
(***************************************************************************)

LEMMA SameConstants == P!ManagerAssumption /\ {} \in DepChoices
BY BoardAssumption
   DEF Manager!Occurrences, P!Occurrences, Manager!Positions, P!Positions,
       Manager!Cardinality, P!Cardinality

LEMMA SameQueue ==
  /\ Manager!Queue!Absent = P!Queue!Absent
  /\ Manager!Queue!Task = P!Queue!Task
  /\ \A t, s : Manager!Queue!AssignTask(t, s) = P!Queue!AssignTask(t, s)
BY Zenon
   DEF Manager!Queue!Absent, P!Queue!Absent, Manager!Queue!Task, P!Queue!Task,
       Manager!Queue!TaskStatus, P!Queue!TaskStatus,
       Manager!Queue!AssignTask, P!Queue!AssignTask, Manager!Queue!Queued, P!Queue!Queued,
       Manager!Queue!Retain, P!Queue!Retain, Manager!Queue!RetainAll, P!Queue!RetainAll

LEMMA SameTaskOperations ==
  /\ \A t, deps : Manager!CreateTask(t, deps) = P!CreateTask(t, deps)
  /\ \A t : Manager!DeleteTask(t) = P!DeleteTask(t)
  /\ \A t : Manager!UpdateTask(t) = P!UpdateTask(t)
  /\ \A t : Manager!MoveToReview(t) = P!MoveToReview(t)
  /\ \A t : Manager!ApproveTask(t) = P!ApproveTask(t)
  /\ \A t : Manager!RejectAssignment(t) = P!RejectAssignment(t)
  /\ \A m : Manager!SetMode(m) = P!SetMode(m)
BY Zenon
   DEF Manager!CreateTask, P!CreateTask, Manager!DeleteTask, P!DeleteTask,
       Manager!UpdateTask, P!UpdateTask, Manager!MoveToReview, P!MoveToReview,
       Manager!ApproveTask, P!ApproveTask, Manager!RejectAssignment, P!RejectAssignment,
       Manager!SetMode, P!SetMode, Manager!RemovePending, P!RemovePending,
       Manager!PendingFor, P!PendingFor, Manager!WriteStatus, P!WriteStatus,
       Manager!Save, P!Save, Manager!Unlink, P!Unlink, Manager!queueVars, P!queueVars,
       Manager!Known, P!Known, Manager!Queue!Known, P!Queue!Known,
       Manager!Queue!NewTask, P!Queue!NewTask, Manager!Queue!Absent, P!Queue!Absent,
       Manager!Queue!Enqueue, P!Queue!Enqueue, Manager!Queue!Blocking, P!Queue!Blocking,
       Manager!Queue!Dequeue, P!Queue!Dequeue, Manager!Queue!Retain, P!Queue!Retain,
       Manager!Queue!RetainAll, P!Queue!RetainAll,
       Manager!Queue!CompleteTask, P!Queue!CompleteTask

LEMMA SameSessionOperations ==
  /\ \A t, s : Manager!Propose(s, t) = P!Propose(s, t)
  /\ \A t, s : Manager!AssignNow(s, t) = P!AssignNow(s, t)
  /\ \A t, s : Manager!DirectAssign(t, s) = P!DirectAssign(t, s)
  /\ \A t, s : Manager!ConfirmAssignment(t, s) = P!ConfirmAssignment(t, s)
  /\ \A t, st : Manager!TransitionTaskStatus(t, st) = P!TransitionTaskStatus(t, st)
  /\ \A s : Manager!TasksOf(s) = P!TasksOf(s)
  /\ \A old, new, st : Manager!MapSessionToTaskStatus(old, new, st) = P!MapSessionToTaskStatus(old, new, st)
  /\ Manager!SessionStatus = P!SessionStatus
BY Zenon
   DEF Manager!Propose, P!Propose, Manager!AssignNow, P!AssignNow,
       Manager!DirectAssign, P!DirectAssign, Manager!ConfirmAssignment, P!ConfirmAssignment,
       Manager!TransitionTaskStatus, P!TransitionTaskStatus, Manager!TasksOf, P!TasksOf,
       Manager!MapSessionToTaskStatus, P!MapSessionToTaskStatus,
       Manager!SessionStatus, P!SessionStatus, Manager!WriteStatus, P!WriteStatus,
       Manager!Save, P!Save, Manager!RemovePending, P!RemovePending,
       Manager!PendingFor, P!PendingFor, Manager!HasPendingForSession, P!HasPendingForSession,
       Manager!NextTaskForSession, P!NextTaskForSession, Manager!queueVars, P!queueVars,
       Manager!Known, P!Known, Manager!Queue!Known, P!Queue!Known,
       Manager!Queue!NextTasks, P!Queue!NextTasks, Manager!Queue!Eligible, P!Queue!Eligible,
       Manager!Queue!IsEligible, P!Queue!IsEligible, Manager!Queue!Positions, P!Queue!Positions,
       Manager!Queue!Done, P!Queue!Done, Manager!Queue!AssignTask, P!Queue!AssignTask,
       Manager!Queue!Queued, P!Queue!Queued, Manager!Queue!Retain, P!Queue!Retain,
       Manager!Queue!RetainAll, P!Queue!RetainAll

LEMMA SamePromises ==
  /\ Manager!Init = P!Init
  /\ Manager!TypeOK = P!TypeOK
  /\ Manager!Proposal = P!Proposal
  /\ Manager!KnownIsOnDisk = P!KnownIsOnDisk
  /\ Manager!OneProposalEach = P!OneProposalEach
  /\ Manager!QueuedIsInOrder = P!QueuedIsInOrder
  /\ Manager!CopiesAreRetries = P!CopiesAreRetries
  /\ Manager!RunnableIsEligible = P!RunnableIsEligible
  /\ \A v, S : Manager!RetainAll(v, S) = P!RetainAll(v, S)
BY Zenon
   DEF Manager!Init, P!Init, Manager!TypeOK, P!TypeOK, Manager!Proposal, P!Proposal,
       Manager!KnownIsOnDisk, P!KnownIsOnDisk, Manager!OneProposalEach, P!OneProposalEach,
       Manager!QueuedIsInOrder, P!QueuedIsInOrder, Manager!CopiesAreRetries, P!CopiesAreRetries,
       Manager!RunnableIsEligible, P!RunnableIsEligible, Manager!RetainAll, P!RetainAll,
       Manager!Known, P!Known, Manager!OnDisk, P!OnDisk,
       Manager!Positions, P!Positions, Manager!Occurrences, P!Occurrences,
       Manager!Cardinality, P!Cardinality,
       Manager!Queue!Init, P!Queue!Init, Manager!Queue!Absent, P!Queue!Absent,
       Manager!Queue!TypeOK, P!Queue!TypeOK, Manager!Queue!Task, P!Queue!Task,
       Manager!Queue!TaskStatus, P!Queue!TaskStatus, Manager!Queue!Known, P!Queue!Known,
       Manager!Queue!RunnableIsEligible, P!Queue!RunnableIsEligible,
       Manager!Queue!Eligible, P!Queue!Eligible, Manager!Queue!IsEligible, P!Queue!IsEligible,
       Manager!Queue!Positions, P!Queue!Positions,
       Manager!Queue!Done, P!Queue!Done, Manager!Queue!Queued, P!Queue!Queued

(***************************************************************************)
(* Every handler of the board is one call of the manager, or leaves it     *)
(* alone; dropping proposals is a call of its own.                         *)
(***************************************************************************)

ManagerInv == P!FileInv /\ P!QueueInv /\ P!ProposalInv /\ P!PendingInv

(* The variables of the board, apart from the manager's.                   *)
BoardTypes ==
  /\ open \subseteq Sessions
  /\ status \in [Sessions -> Statuses]
  /\ current \in [Sessions -> Tasks \cup {NoTask}]
  /\ \A s \in Sessions \ open : current[s] = NoTask
  /\ manual \subseteq Sessions
  /\ compacting \subseteq open
  /\ enter \in [Sessions -> {"none", "unsent", "sent"}]
  /\ syncing \in Sessions \cup {NoSession}

Inv == ManagerInv /\ BoardTypes

LEMMA StatusCall ==
  ASSUME NEW s \in Sessions, NEW old \in P!SessionStatus, NEW new \in P!SessionStatus,
         NEW t \in Manager!TasksOf(s),
         Manager!TransitionTaskStatus(t, Manager!MapSessionToTaskStatus(old, new, tasks[t].status))
  PROVE  P!Next
<1>1. t \in P!TasksOf(s) /\ P!TransitionTaskStatus(t, P!MapSessionToTaskStatus(old, new, tasks[t].status))
  BY SameSessionOperations
<1>2. P!OnSessionStatusChanged(s, old, new)
  BY <1>1 DEF P!OnSessionStatusChanged
<1>3. P!SessionStep(s)
  BY <1>2 DEF P!SessionStep
<1> QED BY <1>3 DEF P!Next

LEMMA UserCalls ==
  ASSUME UserStep
  PROVE  P!Next \/ UNCHANGED managerVars
<1>1. ASSUME NEW t \in Tasks,
             AddTask(t) \/ EditTask(t) \/ Review(t) \/ Complete(t) \/ Delete(t) \/ Reject(t)
      PROVE  P!Next
  <2>1. \/ P!CreateTask(t, {}) \/ P!UpdateTask(t) \/ P!MoveToReview(t)
        \/ P!ApproveTask(t) \/ P!DeleteTask(t) \/ P!RejectAssignment(t)
    BY <1>1, SameTaskOperations DEF AddTask, EditTask, Review, Complete, Delete, Reject
  <2>2. P!TaskStep(t)
    BY <2>1, SameConstants DEF P!TaskStep
  <2> QED BY <2>2 DEF P!Next
<1>2. ASSUME NEW t \in Tasks, NEW s \in Sessions, Assign(t, s) \/ Confirm(t, s)
      PROVE  P!Next
  <2>1. P!DirectAssign(t, s) \/ P!ConfirmAssignment(t, s)
    BY <1>2, SameSessionOperations DEF Assign, Confirm
  <2>2. P!SessionStep(s)
    BY <2>1 DEF P!SessionStep
  <2> QED BY <2>2 DEF P!Next
<1>3. ASSUME NEW m \in Modes, AutoAssignModeChanged(m) PROVE P!Next
  BY <1>3, SameTaskOperations DEF AutoAssignModeChanged, P!Next
<1>4. ASSUME NEW s \in Sessions, CloseSession(s) PROVE UNCHANGED managerVars
  BY <1>4 DEF CloseSession
<1> QED BY <1>1, <1>2, <1>3, <1>4 DEF UserStep

LEMMA BoardCallsManager ==
  ASSUME status \in [Sessions -> Statuses], [Next]_vars
  PROVE  P!Next \/ CleanupStaleProposals \/ UNCHANGED managerVars
<1>1. ASSUME NEW s \in Sessions, NEW new \in Statuses, SyncSessionStatus(s, new)
      PROVE  P!Next \/ UNCHANGED managerVars
  <2>1. CASE new = status[s] /\ Poll(s)
    BY <2>1 DEF Poll
  <2>2. CASE StatusChange(s, new)
    <3>1. status[s] \in P!SessionStatus /\ new \in P!SessionStatus
      BY BoardAssumption, SameSessionOperations DEF BoardAssumption
    <3>2. \/ \E t \in Manager!TasksOf(s) :
               Manager!TransitionTaskStatus(t, Manager!MapSessionToTaskStatus(status[s], new, tasks[t].status))
          \/ UNCHANGED managerVars
      BY <2>2 DEF StatusChange
    <3> QED BY <3>1, <3>2, StatusCall
  <2> QED BY <1>1, <2>1, <2>2 DEF SyncSessionStatus
<1>2. ASSUME NEW s \in Sessions, IdleHalf(s)
      PROVE  P!Next \/ UNCHANGED managerVars
  <2>1. \/ \E t \in Tasks : P!AssignNow(s, t) \/ P!Propose(s, t)
        \/ UNCHANGED managerVars
    BY <1>2, SameSessionOperations DEF IdleHalf, TryAutoAssign, AutoAssigned
  <2>2. ASSUME NEW t \in Tasks, P!AssignNow(s, t) \/ P!Propose(s, t) PROVE P!Next
    <3>1. P!SessionStep(s)
      BY <2>2 DEF P!SessionStep
    <3> QED BY <3>1 DEF P!Next
  <2> QED BY <2>1, <2>2
<1>3. CASE TimerStep
  BY <1>3 DEF TimerStep, ProcessDeferredEnter, CompactionTimeout
<1>4. CASE UNCHANGED vars
  BY <1>4 DEF vars
<1> QED BY <1>1, <1>2, <1>3, <1>4, UserCalls DEF Next

(* Dropping proposals leaves the others in place and in their order.       *)
LEMMA CleanupKeepsProposals ==
  ASSUME P!ProposalInv, P!PendingInv, CleanupStaleProposals
  PROVE  P!ProposalInv' /\ P!PendingInv' /\ Len(pending') <= Len(pending)
<1> DEFINE free == {p \in Manager!Proposal : p.session \in open /\ current[p.session] = NoTask}
           fresh == P!RetainAll(pending, free)
<1>1. PICK k \in 1 .. Len(fresh) + 1 : pending' = SubSeq(fresh, k, Len(fresh))
  <2>1. Manager!RetainAll(pending, free) = fresh
    BY SamePromises
  <2> QED BY <2>1 DEF CleanupStaleProposals
<1>2. pending \in Seq(P!Proposal) /\ Len(pending) \in Nat
  BY DEF P!ProposalInv
<1> HIDE DEF free
<1>3. /\ fresh \in Seq(P!Proposal) /\ Len(fresh) <= Len(pending)
      /\ \E at \in [1 .. Len(fresh) -> 1 .. Len(pending)] :
           /\ \A i \in 1 .. Len(fresh) : fresh[i] = pending[at[i]]
           /\ \A i, j \in 1 .. Len(fresh) : i < j => at[i] < at[j]
  BY <1>2, P!RetainAllEmbeds, SameConstants
<1> HIDE DEF fresh
<1>4. PICK at \in [1 .. Len(fresh) -> 1 .. Len(pending)] :
           /\ \A i \in 1 .. Len(fresh) : fresh[i] = pending[at[i]]
           /\ \A i, j \in 1 .. Len(fresh) : i < j => at[i] < at[j]
  BY <1>3
<1>5. Len(fresh) \in Nat /\ \A i \in 1 .. Len(fresh) : fresh[i] \in P!Proposal
  BY <1>3
<1>6. /\ pending' \in Seq(P!Proposal) /\ Len(pending') = Len(fresh) - k + 1
      /\ \A i \in 1 .. Len(pending') : pending'[i] = fresh[k + i - 1] /\ k + i - 1 \in 1 .. Len(fresh)
  BY <1>1, <1>5, P!SubSeqProperties, SameConstants
<1>7. ASSUME NEW i \in 1 .. Len(pending'), NEW j \in 1 .. Len(pending'), i # j
      PROVE  pending'[i].task # pending'[j].task /\ pending'[i].session # pending'[j].session
  <2>1. PICK a \in 1 .. Len(fresh), b \in 1 .. Len(fresh) : a = k + i - 1 /\ b = k + j - 1
    BY <1>6
  <2>2. pending'[i] = pending[at[a]] /\ pending'[j] = pending[at[b]]
    BY <1>4, <1>6, <2>1
  <2>3. a < b \/ b < a
    BY <1>5, <1>6, <1>7, <2>1
  <2>4. at[a] < at[b] \/ at[b] < at[a]
    BY <1>4, <2>3
  <2>5. at[a] \in 1 .. Len(pending) /\ at[b] \in 1 .. Len(pending)
    BY <1>4
  <2>6. at[a] # at[b]
    BY <1>2, <2>4, <2>5
  <2> QED BY <2>2, <2>5, <2>6 DEF P!ProposalInv, P!OneProposalEach
<1>8. P!ProposalInv'
  BY <1>6, <1>7 DEF P!ProposalInv, P!OneProposalEach
<1>9. Len(pending') <= MaxPending /\ UNCHANGED mode
  <2>1. Len(pending) <= MaxPending /\ MaxPending \in Nat
    BY SameConstants DEF P!PendingInv
  <2>2. UNCHANGED mode
    BY DEF CleanupStaleProposals
  <2> QED BY <1>2, <1>3, <1>5, <1>6, <2>1, <2>2
<1>10. Len(pending') <= Len(pending)
  BY <1>2, <1>3, <1>5, <1>6
<1> QED BY <1>8, <1>9, <1>10 DEF P!PendingInv

LEMMA ManagerInvStep ==
  ASSUME ManagerInv, status \in [Sessions -> Statuses], [Next]_vars
  PROVE  ManagerInv'
<1> USE DEF ManagerInv
<1>1. CASE P!Next
  <2>1. [P!Next]_P!vars
    BY <1>1
  <2>2. P!FileInv'
    BY <2>1, P!FileInvStep, SameConstants
  <2>3. P!QueueInv'
    BY <2>1, P!QueueInvStep, SameConstants
  <2>4. P!ProposalInv'
    BY <2>1, P!ProposalInvStep, SameConstants
  <2>5. P!PendingInv'
    BY <2>1, P!PendingInvStep, SameConstants
  <2> QED BY <2>2, <2>3, <2>4, <2>5
<1>2. CASE UNCHANGED managerVars
  <2>1. [P!Next]_P!vars
    BY <1>2 DEF managerVars, P!vars
  <2>2. P!FileInv'
    BY <2>1, P!FileInvStep, SameConstants
  <2>3. P!QueueInv'
    BY <2>1, P!QueueInvStep, SameConstants
  <2>4. P!ProposalInv'
    BY <2>1, P!ProposalInvStep, SameConstants
  <2>5. P!PendingInv'
    BY <2>1, P!PendingInvStep, SameConstants
  <2> QED BY <2>2, <2>3, <2>4, <2>5
<1>3. CASE CleanupStaleProposals
  <2>1. UNCHANGED <<tasks, order, blocked, disk>>
    BY <1>3 DEF CleanupStaleProposals
  <2>2. P!FileInv'
    BY <2>1 DEF P!FileInv, P!MemoryTypes
  <2>3. P!QueueInv'
    BY <2>1 DEF P!QueueInv, P!RecordTypes, P!Listed, P!Sound
  <2> QED BY <1>3, <2>2, <2>3, CleanupKeepsProposals
<1> QED BY <1>1, <1>2, <1>3, BoardCallsManager

LEMMA InvInit == Init => Inv
<1> SUFFICES ASSUME Init PROVE Inv
  OBVIOUS
<1>1. P!Init
  BY SamePromises DEF Init
<1>2. ManagerInv
  BY <1>1, P!FileInvInit, P!QueueInvInit, P!PendingInvInit, SameConstants DEF ManagerInv
<1>3. BoardTypes
  BY BoardAssumption DEF Init, BoardTypes, BoardAssumption
<1> QED BY <1>2, <1>3 DEF Inv

LEMMA UserTypes ==
  ASSUME BoardTypes, UserStep, UNCHANGED syncing
  PROVE  BoardTypes'
<1> USE DEF BoardTypes
<1>1. ASSUME NEW t \in Tasks, ReleaseTask(t), UNCHANGED <<open, status, manual, compacting, enter>>
      PROVE  BoardTypes'
  BY <1>1 DEF ReleaseTask
<1>2. CASE UNCHANGED boardVars
  BY <1>2 DEF boardVars
<1>3. ASSUME NEW t \in Tasks, NEW s \in Sessions, SendTaskToSession(t, s),
             manual' \subseteq Sessions, UNCHANGED <<open, status, compacting>>
      PROVE  BoardTypes'
  <2>1. current' = [current EXCEPT ![s] = IF s \in open THEN t ELSE current[s]]
    BY <1>3 DEF SendTaskToSession
  <2>2. /\ current' \in [Sessions -> Tasks \cup {NoTask}]
        /\ \A u \in Sessions \ open : current'[u] = NoTask
    BY <2>1
  <2>3. enter' \in [Sessions -> {"none", "unsent", "sent"}]
    BY <1>3 DEF SendTaskToSession
  <2> QED BY <1>3, <2>2, <2>3
<1>4. ASSUME NEW t \in Tasks,
             AddTask(t) \/ EditTask(t) \/ Review(t) \/ Complete(t) \/ Delete(t) \/ Reject(t)
      PROVE  BoardTypes'
  BY <1>1, <1>2, <1>4 DEF AddTask, EditTask, Review, Complete, Delete, Reject
<1>5. ASSUME NEW t \in Tasks, NEW s \in Sessions, Assign(t, s)
      PROVE  BoardTypes'
  BY <1>3, <1>5 DEF Assign
<1>6. ASSUME NEW t \in Tasks, NEW s \in Sessions, Confirm(t, s)
      PROVE  BoardTypes'
  <2>1. CASE SendTaskToSession(t, s)
    BY <1>3, <1>6, <2>1 DEF Confirm
  <2>2. CASE UNCHANGED <<current, enter>>
    BY <1>2, <1>6, <2>2 DEF Confirm, boardVars
  <2> QED BY <1>6, <2>1, <2>2 DEF Confirm
<1>7. ASSUME NEW s \in Sessions, CloseSession(s) PROVE BoardTypes'
  <2>1. /\ open' = open \ {s} /\ compacting' = compacting \ {s}
        /\ status' = [status EXCEPT ![s] = "Idle"] /\ current' = [current EXCEPT ![s] = NoTask]
        /\ UNCHANGED <<manual, enter>>
    BY <1>7 DEF CloseSession
  <2>2. status' \in [Sessions -> Statuses]
    BY <2>1, BoardAssumption DEF BoardAssumption
  <2>3. /\ current' \in [Sessions -> Tasks \cup {NoTask}]
        /\ \A u \in Sessions \ open' : current'[u] = NoTask
    BY <2>1
  <2> QED BY <2>1, <2>2, <2>3
<1>8. ASSUME NEW m \in Modes, AutoAssignModeChanged(m) PROVE BoardTypes'
  BY <1>2, <1>8 DEF AutoAssignModeChanged
<1> QED BY <1>4, <1>5, <1>6, <1>7, <1>8 DEF UserStep

LEMMA TimerTypes ==
  ASSUME BoardTypes, TimerStep, UNCHANGED syncing
  PROVE  BoardTypes'
<1>1. UNCHANGED <<open, status, current, manual>> /\ compacting' \subseteq compacting
  BY DEF TimerStep, ProcessDeferredEnter, CompactionTimeout, CleanupStaleProposals, boardVars
<1>2. enter' \in [Sessions -> {"none", "unsent", "sent"}]
  BY DEF BoardTypes, TimerStep, ProcessDeferredEnter, CompactionTimeout, CleanupStaleProposals, boardVars
<1> QED BY <1>1, <1>2 DEF BoardTypes

LEMMA SyncTypes ==
  ASSUME BoardTypes, NEW s \in Sessions, NEW new \in Statuses, SyncSessionStatus(s, new)
  PROVE  BoardTypes'
<1> USE DEF BoardTypes
<1>0. s \in open
  BY DEF SyncSessionStatus
<1>1. CASE Poll(s)
  BY <1>1 DEF Poll, GoOn, boardVars
<1>2. CASE StatusChange(s, new)
  <2>1. status' \in [Sessions -> Statuses] /\ UNCHANGED <<open, manual>>
    BY <1>2 DEF StatusChange
  <2>2. syncing' \in Sessions \cup {NoSession}
    BY <1>2 DEF StatusChange, GoOn
  <2>3. CASE ClearSession(s)
    <3>1. current' = [current EXCEPT ![s] = NoTask] /\ compacting' = compacting \cup {s}
      BY <2>3 DEF ClearSession
    <3>2. enter' \in [Sessions -> {"none", "unsent", "sent"}]
      BY <2>3 DEF ClearSession
    <3> QED BY <1>0, <2>1, <2>2, <3>1, <3>2
  <2>4. CASE UNCHANGED <<current, compacting, enter>>
    BY <2>1, <2>2, <2>4
  <2> QED BY <1>2, <2>3, <2>4 DEF StatusChange
<1> QED BY <1>1, <1>2 DEF SyncSessionStatus

LEMMA IdleTypes ==
  ASSUME BoardTypes, NEW s \in Sessions, IdleHalf(s)
  PROVE  BoardTypes'
<1> USE DEF BoardTypes
<1>1. syncing' = NoSession /\ UNCHANGED <<open, status, manual>>
  BY DEF IdleHalf
<1>2. compacting' \subseteq open
  BY DEF IdleHalf
<1>3. CASE UNCHANGED <<current, enter>>
  BY <1>1, <1>2, <1>3
<1>4. ASSUME NEW t \in Tasks, SendTaskToSession(t, s) PROVE BoardTypes'
  <2>1. current' = [current EXCEPT ![s] = IF s \in open THEN t ELSE current[s]]
    BY <1>4 DEF SendTaskToSession
  <2>2. /\ current' \in [Sessions -> Tasks \cup {NoTask}]
        /\ \A u \in Sessions \ open : current'[u] = NoTask
    BY <2>1
  <2>3. enter' \in [Sessions -> {"none", "unsent", "sent"}]
    BY <1>4 DEF SendTaskToSession
  <2> QED BY <1>1, <1>2, <2>2, <2>3
<1> QED BY <1>3, <1>4 DEF IdleHalf, TryAutoAssign, AutoAssigned

LEMMA InvStep == Inv /\ [Next]_vars => Inv'
<1> SUFFICES ASSUME Inv, [Next]_vars PROVE Inv'
  OBVIOUS
<1>1. BoardTypes /\ ManagerInv /\ status \in [Sessions -> Statuses]
  BY DEF Inv, BoardTypes
<1>2. ManagerInv'
  BY <1>1, ManagerInvStep
<1>3. CASE UNCHANGED vars
  <2>1. BoardTypes'
    BY <1>1, <1>3 DEF vars, boardVars, BoardTypes
  <2> QED BY <1>2, <2>1 DEF Inv
<1>4. CASE Next
  <2>1. BoardTypes'
    BY <1>1, <1>4, UserTypes, TimerTypes, SyncTypes, IdleTypes DEF Next
  <2> QED BY <1>2, <2>1 DEF Inv
<1> QED BY <1>3, <1>4

LEMMA Invariance == Spec => []Inv
BY InvInit, InvStep, PTL DEF Spec

(* Whatever the handlers do to each other's fields, a closed session holds *)
(* no task and no compaction, and the manager keeps its types and bounds.  *)
THEOREM BoardTypesHold == Spec => []TypeOK
<1>1. Inv => TypeOK
  <2>1. ManagerInv => Manager!TypeOK
    BY P!TypesFollow, SamePromises, SameConstants DEF ManagerInv
  <2> QED BY <2>1 DEF Inv, BoardTypes, TypeOK
<1> QED BY <1>1, Invariance, PTL

(* The board calls the manager only as the manager's own theorems allow,   *)
(* and drops proposals beside it: what the manager promises still holds.   *)
THEOREM BoardKeepsTheManagersPromises ==
  Spec => [](/\ Manager!KnownIsOnDisk /\ Manager!OneProposalEach /\ Manager!QueuedIsInOrder
             /\ Manager!CopiesAreRetries /\ Manager!RunnableIsEligible)
<1>1. ManagerInv => /\ Manager!KnownIsOnDisk /\ Manager!OneProposalEach /\ Manager!QueuedIsInOrder
                    /\ Manager!CopiesAreRetries /\ Manager!RunnableIsEligible
  <2> SUFFICES ASSUME ManagerInv
               PROVE  /\ P!KnownIsOnDisk /\ P!OneProposalEach /\ P!QueuedIsInOrder
                      /\ P!CopiesAreRetries /\ P!RunnableIsEligible
    BY SamePromises
  <2>1. P!FileInv /\ P!QueueInv /\ P!ProposalInv
    BY DEF ManagerInv
  <2>2. P!KnownIsOnDisk
    BY <2>1, P!KnownAreStored, SameConstants
  <2>3. P!OneProposalEach
    BY <2>1 DEF P!ProposalInv
  <2>4. P!QueuedIsInOrder
    BY <2>1, P!QueuedAreListed, SameConstants
  <2>5. P!CopiesAreRetries
    BY <2>1, P!CopiesAreCounted, SameConstants
  <2>6. P!RunnableIsEligible
    BY <2>1, P!RunnableAreEligible, SameConstants
  <2> QED BY <2>2, <2>3, <2>4, <2>5, <2>6
<1> QED BY <1>1, Invariance, PTL DEF Inv

(***************************************************************************)
(* What a handler does to the tasks and to the sessions' current tasks.    *)
(***************************************************************************)

Only(t) == \A u \in Tasks : u # t => tasks'[u] = tasks[u]

Enters(t) ==
  /\ Only(t) /\ tasks'[t].status = "Queued"
  /\ \A s \in Sessions : current[s] # t
  /\ UNCHANGED <<current, open>>

(* Only a confirmation does not look at what the session holds.            *)
Gives(t, s) ==
  /\ Only(t) /\ tasks[t].status = "Queued"
  /\ tasks'[t].status = "Assigned" /\ tasks'[t].session = s
  /\ current[s] = NoTask \/ Len(pending) # 0
  /\ current' = [current EXCEPT ![s] = IF s \in open THEN t ELSE @]
  /\ UNCHANGED open

Starts(t) ==
  /\ Only(t) /\ tasks[t].status = "Assigned" /\ tasks'[t].status = "Working"
  /\ tasks'[t].session = tasks[t].session
  /\ UNCHANGED <<current, open>>

(* The session that worked on t is cleared, whatever it holds.             *)
Submits(t, s) ==
  /\ Only(t) /\ s \in open
  /\ tasks[t].status = "Working" /\ tasks[t].session = s /\ tasks'[t].status = "Review"
  /\ \/ current' = [current EXCEPT ![s] = NoTask]
     \/ "storage" \in Faults /\ UNCHANGED current
  /\ UNCHANGED open

(* The session that holds t is released, unless the file was not written.  *)
Ends(t) ==
  /\ Only(t) /\ tasks'[t].status \in {"Review", "Done", "Absent"}
  /\ \/ \E s \in open : current[s] = t /\ current' = [current EXCEPT ![s] = NoTask]
     \/ /\ "storage" \in Faults \/ \A s \in open : current[s] # t
        /\ UNCHANGED current
  /\ UNCHANGED open

Closes(s) ==
  /\ open' = open \ {s}
  /\ current' = [current EXCEPT ![s] = NoTask]
  /\ UNCHANGED tasks

Rests == UNCHANGED <<tasks, current, open>>

Moves ==
  \/ \E t \in Tasks : Enters(t) \/ Starts(t) \/ Ends(t)
  \/ \E t \in Tasks, s \in Sessions : Gives(t, s) \/ Submits(t, s)
  \/ \E s \in Sessions : Closes(s)
  \/ Rests

Records ==
  /\ tasks \in [Tasks -> Manager!Queue!Task] /\ disk \in [Tasks -> Manager!Queue!Task]
  /\ current \in [Sessions -> Tasks \cup {NoTask}] /\ open \subseteq Sessions
  /\ status \in [Sessions -> Statuses]

LEMMA InvRecords == Inv => Records
BY SameQueue DEF Inv, ManagerInv, P!QueueInv, P!RecordTypes, BoardTypes, Records

LEMMA StatusWritten ==
  ASSUME Records, NEW t \in Tasks, NEW st, Manager!WriteStatus(t, st)
  PROVE  /\ Only(t) /\ tasks'[t].status = st /\ tasks'[t].session = tasks[t].session
         /\ "storage" \in Faults \/ disk'[t] = tasks'[t]
BY DEF Records, Manager!WriteStatus, Manager!Save, Manager!Queue!Task, Only

LEMMA TaskAssigned ==
  ASSUME Records, NEW t \in Tasks, NEW s \in Sessions, Manager!Queue!AssignTask(t, s)
  PROVE  /\ Only(t) /\ tasks[t].status = "Queued"
         /\ tasks'[t].status = "Assigned" /\ tasks'[t].session = s
BY DEF Records, Manager!Queue!AssignTask, Manager!Queue!Queued, Manager!Queue!Task, Only

LEMMA Released ==
  ASSUME NEW t \in Tasks, ReleaseTask(t), UNCHANGED open, Only(t),
         tasks'[t].status \in {"Review", "Done", "Absent"},
         "storage" \in Faults \/ disk'[t] = tasks'[t]
  PROVE  Ends(t)
BY DEF ReleaseTask, Ends

LEMMA TaskMoves ==
  ASSUME Records, NEW t \in Tasks,
         AddTask(t) \/ EditTask(t) \/ Review(t) \/ Complete(t) \/ Delete(t) \/ Reject(t)
  PROVE  Moves
<1>1. CASE AddTask(t)
  <2>1. Manager!Queue!Enqueue(t, Manager!Queue!NewTask({}))
    BY <1>1 DEF AddTask, Manager!CreateTask
  <2>2. Only(t) /\ tasks'[t].status = "Queued"
    BY <2>1 DEF Records, Manager!Queue!Enqueue, Manager!Queue!NewTask, Only
  <2>3. Enters(t)
    BY <1>1, <2>2 DEF AddTask, Enters, boardVars
  <2> QED BY <2>3 DEF Moves
<1>2. CASE EditTask(t) \/ Reject(t)
  BY <1>2 DEF EditTask, Reject, Manager!UpdateTask, Manager!RejectAssignment, Manager!queueVars,
              boardVars, Rests, Moves
<1>3. CASE Review(t)
  <2>1. Manager!WriteStatus(t, "Review") /\ ReleaseTask(t) /\ UNCHANGED open
    BY <1>3 DEF Review, Manager!MoveToReview
  <2>2. Ends(t)
    BY <2>1, StatusWritten, Released
  <2> QED BY <2>2 DEF Moves
<1>4. CASE Complete(t)
  <2>1. /\ tasks' = [tasks EXCEPT ![t].status = "Done"] /\ Manager!Save(t, tasks'[t])
        /\ ReleaseTask(t) /\ UNCHANGED open
    BY <1>4 DEF Complete, Manager!ApproveTask, Manager!Queue!CompleteTask
  <2>2. Only(t) /\ tasks'[t].status = "Done" /\ ("storage" \in Faults \/ disk'[t] = tasks'[t])
    BY <2>1 DEF Records, Manager!Save, Manager!Queue!Task, Only
  <2>3. Ends(t)
    BY <2>1, <2>2, Released
  <2> QED BY <2>3 DEF Moves
<1>5. CASE Delete(t)
  <2>1. /\ tasks' = [tasks EXCEPT ![t] = Manager!Queue!Absent]
        /\ Manager!Save(t, Manager!Queue!Absent)
        /\ ReleaseTask(t) /\ UNCHANGED open
    BY <1>5 DEF Delete, Manager!DeleteTask, Manager!Queue!Dequeue, Manager!Unlink
  <2>2. Only(t) /\ tasks'[t].status = "Absent" /\ ("storage" \in Faults \/ disk'[t] = tasks'[t])
    BY <2>1 DEF Records, Manager!Save, Manager!Queue!Absent, Only
  <2>3. Ends(t)
    BY <2>1, <2>2, Released
  <2> QED BY <2>3 DEF Moves
<1> QED BY <1>1, <1>2, <1>3, <1>4, <1>5

LEMMA HandOver ==
  ASSUME Records, NEW t \in Tasks, NEW s \in Sessions, Manager!Queue!AssignTask(t, s),
         SendTaskToSession(t, s), current[s] = NoTask \/ Len(pending) # 0, UNCHANGED open
  PROVE  Gives(t, s)
BY TaskAssigned DEF SendTaskToSession, Gives

LEMMA UserMoves == ASSUME Records, UserStep PROVE Moves
<1>1. ASSUME NEW t \in Tasks, NEW s \in Sessions, Assign(t, s) PROVE Moves
  <2>1. Manager!Queue!AssignTask(t, s) /\ SendTaskToSession(t, s) /\ UNCHANGED open /\ current[s] = NoTask
    BY <1>1 DEF Assign, Manager!DirectAssign, AssignableSessions
  <2> QED BY <2>1, HandOver DEF Moves
<1>2. ASSUME NEW t \in Tasks, NEW s \in Sessions, Confirm(t, s) PROVE Moves
  <2>1. Len(pending) # 0 /\ UNCHANGED open
    <3>1. PICK i \in 1 .. Len(pending) : TRUE
      BY <1>2 DEF Confirm, Manager!PendingFor
    <3> QED BY <1>2, <3>1 DEF Confirm
  <2>2. \/ Manager!Queue!AssignTask(t, s) /\ SendTaskToSession(t, s)
        \/ UNCHANGED <<tasks, current>>
    BY <1>2 DEF Confirm, Manager!ConfirmAssignment, Manager!queueVars
  <2> QED BY <2>1, <2>2, HandOver DEF Moves, Rests
<1>3. ASSUME NEW m \in Modes, AutoAssignModeChanged(m) PROVE Moves
  BY <1>3 DEF AutoAssignModeChanged, Manager!SetMode, Manager!queueVars, boardVars, Rests, Moves
<1>4. ASSUME NEW s \in Sessions, CloseSession(s) PROVE Moves
  BY <1>4 DEF CloseSession, managerVars, Closes, Moves
<1> QED BY <1>1, <1>2, <1>3, <1>4, TaskMoves DEF UserStep

LEMMA SyncMoves ==
  ASSUME Records, NEW s \in Sessions, NEW new \in Statuses, SyncSessionStatus(s, new)
  PROVE  Moves
<1>1. CASE Poll(s)
  BY <1>1 DEF Poll, managerVars, boardVars, Rests, Moves
<1>2. CASE StatusChange(s, new)
  <2> DEFINE mapped(t) == Manager!MapSessionToTaskStatus(status[s], new, tasks[t].status)
  <2>1. UNCHANGED open /\ s \in open
    BY <1>2 DEF StatusChange, SyncSessionStatus
  <2>2. CASE UNCHANGED <<managerVars, current>>
    BY <2>1, <2>2 DEF managerVars, Rests, Moves
  <2>3. ASSUME NEW t \in Manager!TasksOf(s), Manager!TransitionTaskStatus(t, mapped(t)),
               \/ mapped(t) = "Review" /\ ClearSession(s)
               \/ ~ (mapped(t) = "Review" /\ disk'[t] = tasks'[t]) /\ UNCHANGED current
        PROVE  Moves
    <3>1. t \in Tasks /\ tasks[t].session = s
      BY DEF Manager!TasksOf, Manager!Known, Manager!Queue!Known
    <3>2. mapped(t) # tasks[t].status /\ Manager!WriteStatus(t, mapped(t))
      BY <2>3 DEF Manager!TransitionTaskStatus
    <3>3. new # "Error"
      BY BoardAssumption DEF BoardAssumption
    <3>4. \/ mapped(t) = "Working" /\ tasks[t].status = "Assigned"
          \/ mapped(t) = "Review" /\ tasks[t].status = "Working"
      BY <3>2, <3>3 DEF Manager!MapSessionToTaskStatus
    <3> HIDE DEF mapped
    <3>5. /\ Only(t) /\ tasks'[t].status = mapped(t) /\ tasks'[t].session = tasks[t].session
          /\ "storage" \in Faults \/ disk'[t] = tasks'[t]
      BY <3>1, <3>2, StatusWritten
    <3>6. CASE mapped(t) = "Working"
      <4>1. Starts(t)
        BY <2>1, <2>3, <3>4, <3>5, <3>6 DEF Starts
      <4> QED BY <3>1, <4>1 DEF Moves
    <3>7. CASE mapped(t) = "Review"
      <4>1. \/ current' = [current EXCEPT ![s] = NoTask]
            \/ "storage" \in Faults /\ UNCHANGED current
        BY <2>3, <3>5, <3>7 DEF ClearSession
      <4>2. Submits(t, s)
        BY <2>1, <3>1, <3>4, <3>5, <3>7, <4>1 DEF Submits
      <4> QED BY <3>1, <4>2 DEF Moves
    <3> QED BY <3>4, <3>6, <3>7
  <2> QED BY <1>2, <2>2, <2>3 DEF StatusChange
<1> QED BY <1>1, <1>2 DEF SyncSessionStatus

LEMMA BoardMoves == ASSUME Records, [Next]_vars PROVE Moves
<1>1. ASSUME NEW s \in Sessions, IdleHalf(s) PROVE Moves
  <2>1. UNCHANGED open
    BY <1>1 DEF IdleHalf
  <2>2. \/ UNCHANGED <<tasks, current>>
        \/ \E t \in Tasks : /\ Manager!Queue!AssignTask(t, s) /\ SendTaskToSession(t, s)
                            /\ current[s] = NoTask
    BY <1>1 DEF IdleHalf, TryAutoAssign, AutoAssigned, Manager!AssignNow, Manager!Propose,
                Manager!queueVars, managerVars
  <2> QED BY <2>1, <2>2, HandOver DEF Moves, Rests
<1>2. CASE TimerStep \/ UNCHANGED vars
  BY <1>2 DEF TimerStep, ProcessDeferredEnter, CompactionTimeout, CleanupStaleProposals,
              vars, managerVars, boardVars, Rests, Moves
<1> QED BY <1>1, <1>2, UserMoves, SyncMoves DEF Next

(***************************************************************************)
(* Sessions and their tasks.                                               *)
(***************************************************************************)

LEMMA CurrentTaskStep ==
  ASSUME "storage" \notin Faults, Records, CurrentTaskIsActive, Moves
  PROVE  CurrentTaskIsActive'
<1> USE DEF Records, CurrentTaskIsActive, Active
<1>1. ASSUME NEW t \in Tasks, Enters(t) PROVE CurrentTaskIsActive'
  BY <1>1 DEF Enters, Only
<1>2. ASSUME NEW t \in Tasks, Starts(t) PROVE CurrentTaskIsActive'
  BY <1>2 DEF Starts, Only
<1>3. ASSUME NEW t \in Tasks, Ends(t) PROVE CurrentTaskIsActive'
  <2>1. ASSUME NEW s \in open PROVE current'[s] # t /\ (current'[s] # NoTask => current'[s] = current[s])
    BY <1>3, BoardAssumption DEF Ends, BoardAssumption
  <2> QED BY <1>3, <2>1 DEF Ends, Only
<1>4. ASSUME NEW t \in Tasks, NEW s \in Sessions, Gives(t, s) PROVE CurrentTaskIsActive'
  BY <1>4 DEF Gives, Only
<1>5. ASSUME NEW t \in Tasks, NEW s \in Sessions, Submits(t, s) PROVE CurrentTaskIsActive'
  BY <1>5 DEF Submits, Only
<1>6. ASSUME NEW s \in Sessions, Closes(s) PROVE CurrentTaskIsActive'
  BY <1>6 DEF Closes
<1>7. CASE Rests
  BY <1>7 DEF Rests
<1> QED BY <1>1, <1>2, <1>3, <1>4, <1>5, <1>6, <1>7 DEF Moves

(* When writes succeed, what a session holds is under way and assigned to  *)
(* it: every handler that takes a task from its column finds the session   *)
(* that holds it, and no two sessions hold one task.                       *)
THEOREM SessionsHoldActiveTasks ==
  ASSUME "storage" \notin Faults
  PROVE  Spec => []CurrentTaskIsActive
<1>1. Init => CurrentTaskIsActive
  BY DEF Init, CurrentTaskIsActive
<1>2. Inv /\ CurrentTaskIsActive /\ [Next]_vars => CurrentTaskIsActive'
  BY InvRecords, BoardMoves, CurrentTaskStep
<1> QED BY <1>1, <1>2, Invariance, PTL DEF Spec

LEMMA NothingProposedStep ==
  ASSUME "Confirm" \notin Modes, Inv, P!NothingProposed, [Next]_vars
  PROVE  P!NothingProposed'
<1>1. CASE P!Next
  BY <1>1, P!NothingProposedStep, SameConstants
<1>2. CASE UNCHANGED managerVars
  BY <1>2 DEF managerVars, P!NothingProposed
<1>3. CASE CleanupStaleProposals
  <2>1. Len(pending') <= Len(pending) /\ pending' \in Seq(P!Proposal)
    BY <1>3, CleanupKeepsProposals DEF Inv, ManagerInv, P!ProposalInv
  <2>2. UNCHANGED mode
    BY <1>3 DEF CleanupStaleProposals
  <2> QED BY <2>1, <2>2 DEF P!NothingProposed
<1> QED BY <1>1, <1>2, <1>3, BoardCallsManager DEF Inv, BoardTypes

LEMMA ActiveTaskStep ==
  ASSUME Records, P!NothingProposed, ActiveTaskIsCurrent, Moves
  PROVE  ActiveTaskIsCurrent'
<1> USE DEF Records, ActiveTaskIsCurrent, Active
<1>1. ASSUME NEW t \in Tasks, Enters(t) PROVE ActiveTaskIsCurrent'
  BY <1>1 DEF Enters, Only
<1>2. ASSUME NEW t \in Tasks, Starts(t) PROVE ActiveTaskIsCurrent'
  BY <1>2 DEF Starts, Only
<1>3. ASSUME NEW t \in Tasks, Ends(t) PROVE ActiveTaskIsCurrent'
  <2>1. ASSUME NEW s \in open, current[s] # t PROVE current'[s] = current[s]
    BY <1>3, <2>1 DEF Ends
  <2> QED BY <1>3, <2>1 DEF Ends, Only
<1>4. ASSUME NEW t \in Tasks, NEW s \in Sessions, Gives(t, s) PROVE ActiveTaskIsCurrent'
  <2>1. current[s] = NoTask
    BY <1>4 DEF Gives, P!NothingProposed
  <2>2. \A u \in Tasks : tasks[u].status \in Active /\ tasks[u].session \in open => tasks[u].session # s
    BY <2>1, BoardAssumption DEF BoardAssumption
  <2> QED BY <1>4, <2>2 DEF Gives, Only
<1>5. ASSUME NEW t \in Tasks, NEW s \in Sessions, Submits(t, s) PROVE ActiveTaskIsCurrent'
  <2>1. current[s] = t
    BY <1>5 DEF Submits
  <2> QED BY <1>5, <2>1 DEF Submits, Only
<1>6. ASSUME NEW s \in Sessions, Closes(s) PROVE ActiveTaskIsCurrent'
  BY <1>6 DEF Closes
<1>7. CASE Rests
  BY <1>7 DEF Rests
<1> QED BY <1>1, <1>2, <1>3, <1>4, <1>5, <1>6, <1>7 DEF Moves

(* Without confirmations, no session works on two tasks: a task under way  *)
(* in an open session is its current task, even when the storage fails.    *)
THEOREM ActiveTasksAreHeld ==
  ASSUME "Confirm" \notin Modes
  PROVE  Spec => []ActiveTaskIsCurrent
<1>1. Init => P!NothingProposed /\ ActiveTaskIsCurrent
  <2> SUFFICES ASSUME Init PROVE P!NothingProposed /\ ActiveTaskIsCurrent
    OBVIOUS
  <2>1. mode = "Auto" /\ pending = << >> /\ Manager!Queue!Init
    BY DEF Init, Manager!Init
  <2>2. \A t \in Tasks : tasks[t].status = "Absent"
    BY <2>1 DEF Manager!Queue!Init, Manager!Queue!Absent
  <2> QED BY <2>1, <2>2 DEF P!NothingProposed, ActiveTaskIsCurrent, Active
<1>2. Inv /\ P!NothingProposed /\ ActiveTaskIsCurrent /\ [Next]_vars
        => P!NothingProposed' /\ ActiveTaskIsCurrent'
  BY InvRecords, BoardMoves, NothingProposedStep, ActiveTaskStep
<1> QED BY <1>1, <1>2, Invariance, PTL DEF Spec

(***************************************************************************)
(* The columns.                                                            *)
(***************************************************************************)

LEMMA SameLifecycle ==
  /\ Manager!Lifecycle!Init = P!Lifecycle!Init
  /\ Manager!Lifecycle!Next = P!Lifecycle!Next
  /\ \A task : Manager!Column(task) = P!Column(task)
BY Zenon
   DEF Manager!Lifecycle!Init, P!Lifecycle!Init, Manager!Lifecycle!Next, P!Lifecycle!Next,
       Manager!Lifecycle!Create, P!Lifecycle!Create, Manager!Lifecycle!Delete, P!Lifecycle!Delete,
       Manager!Lifecycle!Begin, P!Lifecycle!Begin, Manager!Lifecycle!Submit, P!Lifecycle!Submit,
       Manager!Lifecycle!Approve, P!Lifecycle!Approve, Manager!Lifecycle!SendBack, P!Lifecycle!SendBack,
       Manager!Lifecycle!Restart, P!Lifecycle!Restart,
       Manager!Lifecycle!Move, P!Lifecycle!Move, Manager!Lifecycle!Columns, P!Lifecycle!Columns,
       Manager!Column, P!Column

(* When writes succeed, the columns the user sees go through the abstract  *)
(* life of a task, whichever of the user, the sessions' statuses and the   *)
(* timers moves them.                                                      *)
THEOREM BoardIsLifecycle ==
  ASSUME Faults \cap {"storage", "duplicate"} = {}
  PROVE  Spec => Manager!ImplementsLifecycle
<1>0. P!NoFileFaults
  BY DEF P!NoFileFaults
<1>1. Init => P!BoardInv /\ Manager!Lifecycle!Init
  <2> SUFFICES ASSUME Init PROVE P!BoardInv /\ P!Lifecycle!Init
    BY SameLifecycle
  <2>1. P!Init
    BY SamePromises DEF Init
  <2> QED BY <2>1, P!BoardInvInit, P!LifecycleInit, SameConstants
<1>2. ASSUME Inv, P!BoardInv, [Next]_vars
      PROVE  P!BoardInv' /\ [P!Lifecycle!Next]_P!board
  <2>1. CASE [P!Next]_P!vars
    BY <1>0, <1>2, <2>1, P!BoardInvStep, P!BoardStep, SameConstants
  <2>2. CASE UNCHANGED managerVars
    BY <2>1, <2>2 DEF managerVars, P!vars
  <2>3. CASE CleanupStaleProposals
    BY <1>2, <2>3 DEF CleanupStaleProposals, P!BoardInv, P!MemoryTypes, P!Agrees, P!board
  <2> QED BY <1>2, <2>1, <2>2, <2>3, BoardCallsManager DEF Inv, BoardTypes
<1>3. Inv /\ P!BoardInv /\ [Next]_vars
        => [Manager!Lifecycle!Next]_([t \in Tasks |-> Manager!Column(tasks[t])])
  BY <1>2, SameLifecycle DEF P!board
<1>4. Inv /\ P!BoardInv /\ [Next]_vars => P!BoardInv'
  BY <1>2
<1> QED BY <1>1, <1>3, <1>4, Invariance, PTL DEF Spec, Manager!ImplementsLifecycle, Manager!Lifecycle!Spec
=============================================================================
