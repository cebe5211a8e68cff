--------------------------- MODULE TaskManager_proofs ---------------------------
(***************************************************************************)
(* What the task manager promises for any tasks, sessions and retry limit: *)
(* a known task has a file, whatever writes fail; no task and no session   *)
(* waits for two answers; the order lists every queued task, with a copy   *)
(* for each retry at most, and hides none that can run; and, when no write *)
(* fails and no id is created twice, the board as the user sees it,        *)
(* restarts included.                                                      *)
(*                                                                         *)
(* Most operations write the record of one task, and differ in the status  *)
(* they write and in whether the file follows.  MemoryStep says so once;   *)
(* the theorems about the files and the board rest on it.                  *)
(***************************************************************************)
EXTENDS TaskManager, VecOps_proofs, SequenceTheorems

Unfinished == {"Queued", "Assigned", "Working", "Verifying", "Review", "Blocked"}

Statuses == Unfinished \cup {"Absent", "Done"}

Record == [status : Statuses, session : Sessions \cup {NoSession}, retries : Int, deps : SUBSET Tasks]

MemoryTypes == tasks \in [Tasks -> Record] /\ disk \in [Tasks -> Record]

(* The moves of the abstract board, on the statuses of a task.             *)
Col(st) == IF st \in {"Assigned", "Working", "Verifying", "Blocked"} THEN "Active" ELSE st

Goes(a, b) ==
  \/ Col(a) = Col(b)
  \/ a = "Absent" /\ b = "Queued"
  \/ b = "Absent"
  \/ a = "Queued" /\ Col(b) = "Active"
  \/ a # "Absent" /\ b = "Review"
  \/ (Col(a) = "Active" \/ a = "Review") /\ b \in {"Done", "Queued"}

(* A step that writes the record of one task.  Its file follows, unless    *)
(* the write fails or the task goes from one unfinished status to another. *)
Writes(t, r) ==
  /\ tasks' = [tasks EXCEPT ![t] = r]
  /\ Goes(tasks[t].status, r.status)
  /\ \/ disk' = [disk EXCEPT ![t] = r]
     \/ /\ UNCHANGED disk
        /\ \/ "storage" \in Faults /\ (tasks[t].status = "Absent" => r.status = "Absent")
           \/ tasks[t].status \in Unfinished /\ r.status \in Unfinished

(* A second create of a known id, which replaces its file.                 *)
Replaces(t, r) ==
  /\ "duplicate" \in Faults /\ r.status = "Queued"
  /\ UNCHANGED tasks /\ disk' = [disk EXCEPT ![t] = r]

LEMMA ColumnIsCol == \A task : Column(task) = Col(task.status)
BY DEF Column, Col

LEMMA NewRecords ==
  ASSUME NEW deps \in DepChoices
  PROVE  /\ Queue!NewTask(deps) \in Record /\ Queue!NewTask(deps).status = "Queued"
         /\ Queue!Absent \in Record /\ Queue!Absent.status = "Absent"
BY ManagerAssumption DEF Queue!NewTask, Queue!Absent, Record, Statuses, Unfinished

(* A record keeps its shape when its status and its session, and the       *)
(* number of its retries, are written.                                     *)
LEMMA RecordAssigned ==
  ASSUME NEW r \in Record, NEW st \in Statuses, NEW s \in Sessions \cup {NoSession}
  PROVE  /\ [r EXCEPT !.status = st, !.session = s] \in Record
         /\ [r EXCEPT !.status = st, !.session = s].status = st
BY DEF Record

LEMMA RecordRetried ==
  ASSUME NEW r \in Record, NEW n \in Int
  PROVE  [r EXCEPT !.retries = n] \in Record /\ [r EXCEPT !.retries = n].status = r.status
BY DEF Record

LEMMA StatusIsWritten ==
  ASSUME MemoryTypes, NEW t \in Tasks, NEW st \in Unfinished, WriteStatus(t, st),
         tasks[t].status # "Absent", Goes(tasks[t].status, st)
  PROVE  \E r \in Record : Writes(t, r)
<1> DEFINE r == [tasks[t] EXCEPT !.status = st]
<1>1. r \in Record /\ r.status = st
  BY DEF MemoryTypes, Record, Statuses
<1>2. tasks' = [tasks EXCEPT ![t] = r] /\ tasks'[t] = r
  BY DEF MemoryTypes, WriteStatus
<1>3. disk' = [disk EXCEPT ![t] = r] \/ ("storage" \in Faults /\ UNCHANGED disk)
  BY <1>2 DEF WriteStatus, Save
<1> HIDE DEF r
<1> QED BY <1>1, <1>2, <1>3 DEF Writes

LEMMA TaskMemory ==
  ASSUME MemoryTypes, NEW t \in Tasks, TaskStep(t)
  PROVE  \/ \E r \in Record : Writes(t, r) \/ Replaces(t, r)
         \/ UNCHANGED <<tasks, disk>>
<1>0. tasks[t] \in Record
  BY DEF MemoryTypes
<1>1. ASSUME NEW deps \in DepChoices, CreateTask(t, deps)
      PROVE  \E r \in Record : Writes(t, r) \/ Replaces(t, r)
  <2>1. CASE Queue!Enqueue(t, Queue!NewTask(deps))
    <3>1. tasks[t].status = "Absent"
      BY <2>1 DEF Queue!Enqueue, Queue!Known
    <3>2. Writes(t, Queue!NewTask(deps))
      BY <1>1, <2>1, <3>1, NewRecords DEF CreateTask, Queue!Enqueue, Writes, Goes
    <3> QED BY <3>2, NewRecords
  <2>2. CASE ~ Queue!Enqueue(t, Queue!NewTask(deps))
    <3>1. Replaces(t, Queue!NewTask(deps))
      BY <1>1, <2>2, NewRecords DEF CreateTask, Replaces, queueVars
    <3> QED BY <3>1, NewRecords
  <2> QED BY <2>1, <2>2
<1>2. CASE DeleteTask(t)
  <2>1. Queue!Absent \in Record /\ Queue!Absent.status = "Absent"
    BY DEF Queue!Absent, Record, Statuses
  <2>2. Writes(t, Queue!Absent)
    BY <1>2, <2>1 DEF DeleteTask, Queue!Dequeue, Unlink, Save, Writes, Goes
  <2> QED BY <2>1, <2>2
<1>3. CASE UpdateTask(t)
  <2>1. tasks' = [tasks EXCEPT ![t] = tasks[t]]
    BY <1>3 DEF UpdateTask, queueVars, MemoryTypes
  <2>2. Writes(t, tasks[t])
    BY <1>3, <2>1 DEF UpdateTask, Save, Writes, Goes
  <2> QED BY <1>0, <2>2
<1>4. CASE StartTask(t)
  <2>1. CASE tasks[t].status \in {"Queued", "Blocked", "Assigned"} /\ WriteStatus(t, "Working")
    <3>1. Goes(tasks[t].status, "Working")
      BY <2>1 DEF Goes, Col
    <3> QED BY <2>1, <3>1, StatusIsWritten DEF Unfinished
  <2>2. CASE tasks[t].status \in {"Working", "Verifying", "Review"} /\ WriteStatus(t, tasks[t].status)
    <3>1. Goes(tasks[t].status, tasks[t].status)
      BY DEF Goes
    <3> QED BY <2>2, <3>1, StatusIsWritten DEF Unfinished
  <2> QED BY <1>4, <2>1, <2>2 DEF StartTask
<1>5. CASE MoveToReview(t)
  <2>1. tasks[t].status # "Absent" /\ WriteStatus(t, "Review") /\ Goes(tasks[t].status, "Review")
    BY <1>5 DEF MoveToReview, Known, Queue!Known, Goes
  <2> QED BY <2>1, StatusIsWritten DEF Unfinished
<1>6. CASE ApproveTask(t)
  <2> DEFINE r == [tasks[t] EXCEPT !.status = "Done"]
  <2>1. r \in Record /\ r.status = "Done"
    BY <1>0 DEF Record, Statuses
  <2>2. tasks' = [tasks EXCEPT ![t] = r] /\ tasks'[t] = r
    BY <1>6 DEF ApproveTask, Queue!CompleteTask, MemoryTypes
  <2>3. Goes(tasks[t].status, "Done") /\ tasks[t].status # "Absent"
    BY <1>6 DEF ApproveTask, Queue!CompleteTask, Goes, Col
  <2>4. disk' = [disk EXCEPT ![t] = r] \/ ("storage" \in Faults /\ UNCHANGED disk)
    BY <1>6, <2>2 DEF ApproveTask, Save
  <2> HIDE DEF r
  <2> QED BY <2>1, <2>2, <2>3, <2>4 DEF Writes
<1>7. CASE OnTaskComplete(t)
  <2>1. PICK n \in Int : n = tasks[t].retries + 1
    BY <1>0 DEF Record
  <2> DEFINE q == [tasks[t] EXCEPT !.status = "Queued", !.session = NoSession]
             r == [q EXCEPT !.retries = n]
  <2>2. r \in Record /\ r.status = "Queued"
    <3>1. "Queued" \in Statuses /\ NoSession \in Sessions \cup {NoSession}
      BY DEF Statuses, Unfinished
    <3>2. q \in Record /\ q.status = "Queued"
      BY <1>0, <3>1, RecordAssigned
    <3> HIDE DEF q
    <3> QED BY <3>2, RecordRetried
  <2>3. tasks' = [tasks EXCEPT ![t] = r] /\ UNCHANGED disk
    BY <1>7, <2>1 DEF OnTaskComplete, Queue!RequeueTask
  <2>4. Goes(tasks[t].status, "Queued") /\ tasks[t].status \in Unfinished
    BY <1>7 DEF OnTaskComplete, Queue!RequeueTask, Goes, Col, Unfinished
  <2> HIDE DEF r
  <2> QED BY <2>2, <2>3, <2>4 DEF Writes, Unfinished
<1>8. CASE RejectAssignment(t)
  BY <1>8 DEF RejectAssignment, queueVars
<1> QED BY <1>1, <1>2, <1>3, <1>4, <1>5, <1>6, <1>7, <1>8 DEF TaskStep

LEMMA SessionMemory ==
  ASSUME MemoryTypes, NEW s \in Sessions, SessionStep(s)
  PROVE  \/ \E t \in Tasks, r \in Record : Writes(t, r)
         \/ UNCHANGED <<tasks, disk>>
<1>1. ASSUME NEW t \in Tasks, Queue!AssignTask(t, s), UNCHANGED disk
      PROVE  \E r \in Record : Writes(t, r)
  <2> DEFINE r == [tasks[t] EXCEPT !.status = "Assigned", !.session = s]
  <2>1. r \in Record /\ r.status = "Assigned"
    <3>1. tasks[t] \in Record
      BY DEF MemoryTypes
    <3>2. "Assigned" \in Statuses /\ s \in Sessions \cup {NoSession}
      BY DEF Statuses, Unfinished
    <3> QED BY <3>1, <3>2, RecordAssigned
  <2>2. tasks' = [tasks EXCEPT ![t] = r] /\ tasks[t].status = "Queued"
    BY <1>1 DEF Queue!AssignTask, Queue!Queued
  <2> HIDE DEF r
  <2> QED BY <1>1, <2>1, <2>2 DEF Writes, Goes, Col, Unfinished
<1>2. ASSUME NEW t \in Tasks,
             Propose(s, t) \/ AssignNow(s, t) \/ DirectAssign(t, s) \/ ConfirmAssignment(t, s)
      PROVE  (Queue!AssignTask(t, s) /\ UNCHANGED disk) \/ UNCHANGED <<tasks, disk>>
  BY <1>2 DEF Propose, AssignNow, DirectAssign, ConfirmAssignment, queueVars
<1>3. ASSUME NEW old \in SessionStatus, NEW new \in SessionStatus, OnSessionStatusChanged(s, old, new)
      PROVE  \E t \in Tasks, r \in Record : Writes(t, r)
  <2>1. PICK t \in TasksOf(s) :
          TransitionTaskStatus(t, MapSessionToTaskStatus(old, new, tasks[t].status))
    BY <1>3 DEF OnSessionStatusChanged
  <2> DEFINE st == MapSessionToTaskStatus(old, new, tasks[t].status)
  <2>2. t \in Tasks /\ tasks[t].status # "Absent" /\ st # tasks[t].status /\ WriteStatus(t, st)
    BY <2>1 DEF TasksOf, Known, Queue!Known, TransitionTaskStatus
  <2>3. st \in Unfinished /\ Goes(tasks[t].status, st)
    BY <2>2 DEF MapSessionToTaskStatus, Unfinished, Goes, Col
  <2> HIDE DEF st
  <2> QED BY <2>2, <2>3, StatusIsWritten
<1> QED BY <1>1, <1>2, <1>3 DEF SessionStep

(* What a step does to the records in memory and on disk.                  *)
LEMMA MemoryStep ==
  ASSUME MemoryTypes, [Next]_vars
  PROVE  \/ \E t \in Tasks, r \in Record : Writes(t, r) \/ Replaces(t, r)
         \/ SaveAll \/ Restart
         \/ UNCHANGED <<tasks, disk>>
<1>1. ASSUME NEW m \in Modes, SetMode(m) PROVE UNCHANGED <<tasks, disk>>
  BY <1>1 DEF SetMode, queueVars
<1>2. CASE UNCHANGED vars
  BY <1>2 DEF vars
<1> QED BY <1>1, <1>2, TaskMemory, SessionMemory DEF Next

(***************************************************************************)
(* The files.                                                              *)
(***************************************************************************)

FileInv == MemoryTypes /\ \A t \in Tasks : tasks[t].status # "Absent" => disk[t].status # "Absent"

LEMMA FileInvInit == Init => FileInv
<1>1. Queue!Absent \in Record /\ Queue!Absent.status = "Absent"
  BY DEF Queue!Absent, Record, Statuses
<1> QED BY <1>1 DEF Init, Queue!Init, FileInv, MemoryTypes

LEMMA FileInvStep == FileInv /\ [Next]_vars => FileInv'
<1> SUFFICES ASSUME FileInv, [Next]_vars PROVE FileInv'
  OBVIOUS
<1> USE DEF FileInv, MemoryTypes
<1>1. ASSUME NEW t \in Tasks, NEW r \in Record, Writes(t, r) PROVE FileInv'
  <2>1. tasks' = [tasks EXCEPT ![t] = r]
    BY <1>1 DEF Writes
  <2>2. CASE disk' = [disk EXCEPT ![t] = r]
    BY <2>1, <2>2
  <2>3. CASE disk' = disk
    <3>1. r.status # "Absent" => tasks[t].status # "Absent" \/ disk' = [disk EXCEPT ![t] = r]
      BY <1>1 DEF Writes, Unfinished
    <3>2. r.status # "Absent" => disk'[t].status # "Absent"
      BY <2>3, <3>1
    <3> QED BY <2>1, <2>3, <3>2
  <2> QED BY <1>1, <2>2, <2>3 DEF Writes
<1>2. ASSUME NEW t \in Tasks, NEW r \in Record, Replaces(t, r) PROVE FileInv'
  BY <1>2 DEF Replaces
<1>3. CASE SaveAll
  <2>1. PICK saved \in SUBSET Known : disk' = [t \in Tasks |-> IF t \in saved THEN tasks[t] ELSE disk[t]]
    BY <1>3 DEF SaveAll
  <2>2. tasks' = tasks /\ \A t \in saved : tasks[t].status # "Absent"
    BY <1>3 DEF SaveAll, queueVars, Known, Queue!Known
  <2> QED BY <2>1, <2>2
<1>4. CASE Restart
  <2>1. \A r \in Record : Reloaded(r) \in Record /\ (r.status = "Absent" => Reloaded(r) = r)
    BY DEF Reloaded, Record, Statuses, Unfinished
  <2>2. tasks' = [t \in Tasks |-> Reloaded(disk[t])] /\ disk' = disk
    BY <1>4 DEF Restart
  <2> QED BY <2>1, <2>2
<1>5. CASE UNCHANGED <<tasks, disk>>
  BY <1>5
<1> QED BY <1>1, <1>2, <1>3, <1>4, <1>5, MemoryStep

LEMMA KnownAreStored == FileInv => KnownIsOnDisk
BY DEF FileInv, KnownIsOnDisk, Known, Queue!Known, OnDisk

(* A task the user sees has a file and so survives a restart, whatever     *)
(* writes fail: create_task writes the file first, delete_task removes it  *)
(* last, and a failed save leaves the older file.                          *)
THEOREM KnownTasksAreStored == Spec => []KnownIsOnDisk
BY FileInvInit, FileInvStep, KnownAreStored, PTL DEF Spec

(***************************************************************************)
(* The board.                                                              *)
(***************************************************************************)

NoFileFaults == Faults \cap {"storage", "duplicate"} = {}

(* The file says of a task whether it is there and whether it is done; a   *)
(* restart goes by nothing else.                                           *)
Agrees(t) ==
  /\ tasks[t].status = "Absent" <=> disk[t].status = "Absent"
  /\ tasks[t].status = "Done" <=> disk[t].status = "Done"

BoardInv == MemoryTypes /\ \A t \in Tasks : Agrees(t)

LEMMA BoardInvInit == Init => BoardInv
<1> SUFFICES ASSUME Init PROVE BoardInv
  OBVIOUS
<1>1. MemoryTypes
  BY FileInvInit DEF FileInv
<1>2. \A t \in Tasks : tasks[t] = Queue!Absent /\ disk[t] = Queue!Absent
  BY DEF Init, Queue!Init
<1> QED BY <1>1, <1>2 DEF BoardInv, Agrees

LEMMA BoardInvStep == NoFileFaults /\ BoardInv /\ [Next]_vars => BoardInv'
<1> SUFFICES ASSUME NoFileFaults, BoardInv, [Next]_vars PROVE BoardInv'
  OBVIOUS
<1> USE DEF BoardInv, MemoryTypes, Agrees
<1>1. ASSUME NEW t \in Tasks, NEW r \in Record, Writes(t, r) PROVE BoardInv'
  <2>1. /\ tasks' = [tasks EXCEPT ![t] = r]
        /\ \/ disk' = [disk EXCEPT ![t] = r]
           \/ disk' = disk /\ tasks[t].status \in Unfinished /\ r.status \in Unfinished
    BY <1>1 DEF Writes, NoFileFaults
  <2>2. MemoryTypes'
    BY <2>1
  <2>3. ASSUME NEW u \in Tasks, u # t PROVE tasks'[u] = tasks[u] /\ disk'[u] = disk[u]
    BY <2>1, <2>3
  <2>4. Agrees(t)'
    BY <2>1 DEF Unfinished
  <2> QED BY <2>2, <2>3, <2>4
<1>2. ASSUME NEW t \in Tasks, NEW r \in Record, Replaces(t, r) PROVE FALSE
  BY <1>2 DEF Replaces, NoFileFaults
<1>3. CASE SaveAll
  <2>1. disk' = [t \in Tasks |-> IF t \in Known THEN tasks[t] ELSE disk[t]] /\ tasks' = tasks
    BY <1>3 DEF SaveAll, NoFileFaults, queueVars
  <2> QED BY <2>1
<1>4. CASE Restart
  <2>1. \A r \in Record : /\ Reloaded(r) \in Record
                          /\ Reloaded(r).status = "Absent" <=> r.status = "Absent"
                          /\ Reloaded(r).status = "Done" <=> r.status = "Done"
    BY DEF Reloaded, Record, Statuses, Unfinished
  <2>2. tasks' = [t \in Tasks |-> Reloaded(disk[t])] /\ disk' = disk
    BY <1>4 DEF Restart
  <2> QED BY <2>1, <2>2
<1>5. CASE UNCHANGED <<tasks, disk>>
  BY <1>5
<1> QED BY <1>1, <1>2, <1>3, <1>4, <1>5, MemoryStep

(* The abstract column of every task.                                      *)
board == [t \in Tasks |-> Column(tasks[t])]

(* One task goes from one column to another.                               *)
LEMMA OneColumn ==
  ASSUME MemoryTypes, NEW t \in Tasks, NEW r \in Record, Writes(t, r)
  PROVE  Lifecycle!Next \/ board' = board
<1>1. /\ board \in [Tasks -> {"Absent", "Queued", "Active", "Review", "Done"}]
      /\ board[t] = Col(tasks[t].status)
  BY ColumnIsCol DEF MemoryTypes, board, Record, Statuses, Unfinished, Col
<1>2. tasks' = [tasks EXCEPT ![t] = r] /\ Goes(tasks[t].status, r.status)
  BY DEF Writes
<1>3. board' = [board EXCEPT ![t] = Col(r.status)]
  BY <1>2, ColumnIsCol DEF MemoryTypes, board
<1>4. r.status \in Statuses /\ tasks[t].status \in Statuses
  BY DEF MemoryTypes, Record
<1>5. \/ Col(r.status) = board[t]
      \/ board[t] = "Absent" /\ Col(r.status) = "Queued"
      \/ Col(r.status) = "Absent"
      \/ board[t] = "Queued" /\ Col(r.status) = "Active"
      \/ board[t] # "Absent" /\ Col(r.status) = "Review"
      \/ board[t] \in {"Active", "Review"} /\ Col(r.status) \in {"Done", "Queued"}
  BY <1>1, <1>2, <1>4 DEF Goes, Col, Statuses, Unfinished
<1>6. CASE Col(r.status) = board[t]
  BY <1>1, <1>3, <1>6
<1>7. CASE Col(r.status) # board[t]
  <2>1. \/ Lifecycle!Create(t) \/ Lifecycle!Delete(t) \/ Lifecycle!Begin(t)
        \/ Lifecycle!Submit(t) \/ Lifecycle!Approve(t) \/ Lifecycle!SendBack(t)
    BY <1>1, <1>3, <1>5, <1>7
    DEF board, Lifecycle!Create, Lifecycle!Delete, Lifecycle!Begin, Lifecycle!Submit,
        Lifecycle!Approve, Lifecycle!SendBack, Lifecycle!Move, Lifecycle!Columns
  <2> QED BY <2>1 DEF Lifecycle!Next
<1> QED BY <1>6, <1>7

LEMMA BoardStep ==
  NoFileFaults /\ BoardInv /\ [Next]_vars => [Lifecycle!Next]_board
<1> SUFFICES ASSUME NoFileFaults, BoardInv, [Next]_vars PROVE Lifecycle!Next \/ board' = board
  OBVIOUS
<1>0. MemoryTypes
  BY DEF BoardInv
<1>1. ASSUME NEW t \in Tasks, NEW r \in Record, Writes(t, r)
      PROVE  Lifecycle!Next \/ board' = board
  BY <1>0, <1>1, OneColumn
<1>2. ASSUME NEW t \in Tasks, NEW r \in Record, Replaces(t, r) PROVE FALSE
  BY <1>2 DEF Replaces, NoFileFaults
<1>3. CASE SaveAll
  BY <1>3 DEF SaveAll, queueVars, board
<1>4. CASE Restart
  <2>1. ASSUME NEW t \in Tasks
        PROVE  Column(Reloaded(disk[t])) =
                 IF board[t] \in {"Absent", "Done"} THEN board[t] ELSE "Queued"
    <3>1. tasks[t] \in Record /\ disk[t] \in Record /\ Agrees(t)
      BY DEF BoardInv, MemoryTypes
    <3>2. board[t] = Col(tasks[t].status)
      BY ColumnIsCol DEF board
    <3>3. CASE disk[t].status \in {"Absent", "Done"}
      <4>1. Reloaded(disk[t]) = disk[t] /\ tasks[t].status = disk[t].status
        BY <3>1, <3>3 DEF Reloaded, Agrees
      <4> QED BY <3>2, <3>3, <4>1, ColumnIsCol DEF Col
    <3>4. CASE disk[t].status \notin {"Absent", "Done"}
      <4>1. Reloaded(disk[t]).status = "Queued"
        BY <3>1, <3>4 DEF Reloaded, Record
      <4>2. board[t] \notin {"Absent", "Done"}
        BY <3>1, <3>2, <3>4 DEF Agrees, Col
      <4> QED BY <4>1, <4>2, ColumnIsCol DEF Col
    <3> QED BY <3>3, <3>4
  <2>2. tasks' = [t \in Tasks |-> Reloaded(disk[t])]
    BY <1>4 DEF Restart
  <2>3. board' = [t \in Tasks |-> Column(Reloaded(disk[t]))]
    BY <2>2 DEF board
  <2>4. board' = [t \in Tasks |-> IF board[t] \in {"Absent", "Done"} THEN board[t] ELSE "Queued"]
    BY <2>1, <2>3
  <2>5. Lifecycle!Restart
    BY <2>4 DEF board, Lifecycle!Restart
  <2> QED BY <2>5 DEF Lifecycle!Next
<1>5. CASE UNCHANGED <<tasks, disk>>
  BY <1>5 DEF board
<1> QED BY <1>0, <1>1, <1>2, <1>3, <1>4, <1>5, MemoryStep

LEMMA LifecycleInit == Init => Lifecycle!Init
<1>1. Queue!Absent.status = "Absent"
  BY DEF Queue!Absent
<1> QED BY <1>1, ColumnIsCol DEF Init, Queue!Init, Lifecycle!Init, Col

(* When writes succeed and no id is created twice, the task manager is the *)
(* abstract board: a restart sends unfinished work back to the queue,      *)
(* keeps finished work finished, and neither loses a task nor brings a     *)
(* deleted one back, although assignments and requeues are never saved.    *)
THEOREM ManagerIsBoard ==
  ASSUME NoFileFaults
  PROVE  Spec => ImplementsLifecycle
<1>1. BoardInv /\ [Next]_vars => BoardInv'
  BY BoardInvStep
<1>2. BoardInv /\ [Next]_vars => [Lifecycle!Next]_([t \in Tasks |-> Column(tasks[t])])
  BY BoardStep DEF board
<1> QED BY <1>1, <1>2, BoardInvInit, LifecycleInit, PTL DEF Spec, ImplementsLifecycle, Lifecycle!Spec

(***************************************************************************)
(* The proposals.                                                          *)
(***************************************************************************)

ProposalInv == pending \in Seq(Proposal) /\ OneProposalEach

(* pending.remove: the rest moves up.                                      *)
LEMMA Removed ==
  ASSUME NEW q \in Seq(Proposal), NEW i \in 1 .. Len(q)
  PROVE  LET r == SubSeq(q, 1, i - 1) \o SubSeq(q, i + 1, Len(q)) IN
         /\ r \in Seq(Proposal) /\ Len(r) = Len(q) - 1
         /\ \A k \in 1 .. Len(r) : r[k] = q[IF k < i THEN k ELSE k + 1]
<1> DEFINE a == SubSeq(q, 1, i - 1)
           z == SubSeq(q, i + 1, Len(q))
<1>0. Len(q) \in Nat /\ \A k \in 1 .. Len(q) : q[k] \in Proposal
  OBVIOUS
<1>1. a \in Seq(Proposal) /\ Len(a) = i - 1 /\ \A k \in 1 .. i - 1 : a[k] = q[k]
  BY <1>0, SubSeqProperties
<1>2. z \in Seq(Proposal) /\ Len(z) = Len(q) - i /\ \A k \in 1 .. Len(q) - i : z[k] = q[i + k]
  BY <1>0, SubSeqProperties
<1> HIDE DEF a, z
<1>3. /\ a \o z \in Seq(Proposal) /\ Len(a \o z) = Len(q) - 1
      /\ \A k \in 1 .. Len(q) - 1 : (a \o z)[k] = IF k <= i - 1 THEN a[k] ELSE z[k - (i - 1)]
  BY <1>0, <1>1, <1>2, ConcatProperties
<1>4. ASSUME NEW k \in 1 .. Len(q) - 1
      PROVE  (a \o z)[k] = q[IF k < i THEN k ELSE k + 1]
  BY <1>0, <1>1, <1>2, <1>3
<1> QED BY <1>3, <1>4 DEF a, z

LEMMA ProposalInvStep == ProposalInv /\ [Next]_vars => ProposalInv'
<1> SUFFICES ASSUME ProposalInv, [Next]_vars PROVE ProposalInv'
  OBVIOUS
<1>0. pending \in Seq(Proposal) /\ Len(pending) \in Nat
  BY DEF ProposalInv
<1>1. ASSUME pending' = pending PROVE ProposalInv'
  BY <1>1 DEF ProposalInv, OneProposalEach
<1>2. ASSUME NEW t \in Tasks, RemovePending(t) PROVE ProposalInv'
  <2>1. PICK i \in 1 .. Len(pending) :
          pending' = SubSeq(pending, 1, i - 1) \o SubSeq(pending, i + 1, Len(pending))
    BY <1>2 DEF RemovePending, PendingFor
  <2>2. /\ pending' \in Seq(Proposal) /\ Len(pending') = Len(pending) - 1
        /\ \A k \in 1 .. Len(pending') : pending'[k] = pending[IF k < i THEN k ELSE k + 1]
    BY <1>0, <2>1, Removed
  <2>3. ASSUME NEW j \in 1 .. Len(pending'), NEW k \in 1 .. Len(pending'), j # k
        PROVE  pending'[j].task # pending'[k].task /\ pending'[j].session # pending'[k].session
    <3>1. PICK m \in 1 .. Len(pending), n \in 1 .. Len(pending) :
            m # n /\ pending'[j] = pending[m] /\ pending'[k] = pending[n]
      <4>1. /\ (IF j < i THEN j ELSE j + 1) \in 1 .. Len(pending)
            /\ (IF k < i THEN k ELSE k + 1) \in 1 .. Len(pending)
            /\ (IF j < i THEN j ELSE j + 1) # (IF k < i THEN k ELSE k + 1)
        BY <1>0, <2>2, <2>3
      <4> QED BY <2>2, <4>1
    <3> QED BY <3>1 DEF ProposalInv, OneProposalEach
  <2> QED BY <2>2, <2>3 DEF ProposalInv, OneProposalEach
<1>3. ASSUME NEW s \in Sessions, NEW t \in Tasks, Propose(s, t) PROVE ProposalInv'
  <2> DEFINE new == [task |-> t, session |-> s]
  <2>1. new \in Proposal /\ new.task = t /\ new.session = s
    BY DEF Proposal
  <2>2. pending' = Append(pending, new)
    BY <1>3 DEF Propose
  <2>3. \A i \in 1 .. Len(pending) : pending[i].task # t /\ pending[i].session # s
    BY <1>3 DEF Propose, PendingFor, HasPendingForSession
  <2> HIDE DEF new
  <2>4. /\ pending' \in Seq(Proposal) /\ Len(pending') = Len(pending) + 1
        /\ pending'[Len(pending) + 1] = new
        /\ \A i \in 1 .. Len(pending) : pending'[i] = pending[i]
    BY <1>0, <2>1, <2>2
  <2> QED BY <1>0, <2>1, <2>3, <2>4 DEF ProposalInv, OneProposalEach
<1>4. ASSUME NEW m \in Modes, SetMode(m) PROVE ProposalInv'
  <2>1. CASE m = "Confirm"
    BY <1>1, <1>4, <2>1 DEF SetMode
  <2>2. CASE m # "Confirm"
    <3>1. pending' = << >>
      BY <1>4, <2>2 DEF SetMode
    <3> QED BY <3>1 DEF ProposalInv, OneProposalEach
  <2> QED BY <2>1, <2>2
<1>5. CASE Restart
  <2>1. pending' = << >>
    BY <1>5 DEF Restart
  <2> QED BY <2>1 DEF ProposalInv, OneProposalEach
<1>6. ASSUME NEW t \in Tasks, TaskStep(t) PROVE ProposalInv'
  <2>1. CASE RejectAssignment(t)
    BY <1>2, <2>1 DEF RejectAssignment
  <2>2. CASE ~ RejectAssignment(t)
    <3>1. pending' = pending
      BY <1>6, <2>2 DEF TaskStep, CreateTask, DeleteTask, UpdateTask, StartTask, MoveToReview,
                        ApproveTask, OnTaskComplete, WriteStatus
    <3> QED BY <1>1, <3>1
  <2> QED BY <2>1, <2>2
<1>7. ASSUME NEW s \in Sessions, SessionStep(s) PROVE ProposalInv'
  <2>1. ASSUME NEW t \in Tasks, ConfirmAssignment(t, s) PROVE ProposalInv'
    BY <1>2, <2>1 DEF ConfirmAssignment
  <2>2. ASSUME NEW t \in Tasks, AssignNow(s, t) \/ DirectAssign(t, s) PROVE ProposalInv'
    BY <1>1, <2>2 DEF AssignNow, DirectAssign
  <2>3. ASSUME NEW old \in SessionStatus, NEW new \in SessionStatus, OnSessionStatusChanged(s, old, new)
        PROVE  ProposalInv'
    BY <1>1, <2>3 DEF OnSessionStatusChanged, TransitionTaskStatus, WriteStatus
  <2> QED BY <1>3, <1>7, <2>1, <2>2, <2>3 DEF SessionStep
<1>8. CASE SaveAll \/ UNCHANGED vars
  BY <1>1, <1>8 DEF SaveAll, vars
<1> QED BY <1>4, <1>5, <1>6, <1>7, <1>8 DEF Next

(* No task and no session ever waits for two answers, however often the    *)
(* polling loop proposes and in whatever order proposals are confirmed,    *)
(* rejected, expire or are forgotten.                                      *)
THEOREM ProposalsAreUnambiguous == Spec => []OneProposalEach
<1>1. Init => ProposalInv
  BY DEF Init, ProposalInv, OneProposalEach
<1>2. ProposalInv => OneProposalEach
  BY DEF ProposalInv
<1> QED BY <1>1, <1>2, ProposalInvStep, PTL DEF Spec

(***************************************************************************)
(* The order and the blocked index.                                        *)
(***************************************************************************)

(* An operation replaces the record of one task, and its file or not.  It  *)
(* is one of six kinds by what it does to the order and the index.         *)
Enqueues(t, r) ==
  /\ tasks[t].status = "Absent" /\ r.status = "Queued"
  /\ order' = Append(order, t)
  /\ blocked' = [blocked EXCEPT ![t] = Queue!Blocking(tasks', t)]

Dequeues(t, r) ==
  /\ r.status = "Absent"
  /\ order' = Retain(order, t)
  /\ blocked' = [blocked EXCEPT ![t] = {}]

Assigns(t, r) ==
  /\ r.status = "Assigned" /\ r.deps = tasks[t].deps
  /\ order' = Retain(order, t) /\ UNCHANGED blocked

Marks(t, r) ==
  /\ tasks[t].status # "Absent" /\ r.status \notin {"Absent", "Queued", "Done"}
  /\ r.deps = tasks[t].deps /\ r.retries = tasks[t].retries
  /\ UNCHANGED <<order, blocked>>

Completes(t, r) ==
  /\ tasks[t].status # "Absent" /\ r.status = "Done"
  /\ r.deps = tasks[t].deps /\ r.retries = tasks[t].retries
  /\ blocked' = [u \in Tasks |-> blocked[u] \ {t}]
  /\ UNCHANGED order

Requeues(t, r) ==
  /\ tasks[t].status # "Absent" /\ r.status = "Queued"
  /\ r.deps = tasks[t].deps /\ r.retries = tasks[t].retries + 1
  /\ order' = Append(order, t) /\ UNCHANGED blocked

Replaced(t, r) ==
  /\ r \in Queue!Task
  /\ tasks' = [tasks EXCEPT ![t] = r]
  /\ disk' = disk \/ disk' = [disk EXCEPT ![t] = r]

Operates(t, r) ==
  /\ Replaced(t, r)
  /\ \/ Enqueues(t, r) \/ Dequeues(t, r) \/ Assigns(t, r)
     \/ Marks(t, r) \/ Completes(t, r) \/ Requeues(t, r)

(* The operation leaves the queue alone.  A file may be written.           *)
OnlyFiles == UNCHANGED queueVars /\ disk' \in [Tasks -> Queue!Task]

RecordTypes == tasks \in [Tasks -> Queue!Task] /\ disk \in [Tasks -> Queue!Task]

(* The instance of the queue has vector operations of its own.             *)
LEMMA QueueVectors ==
  ASSUME NEW v, NEW e
  PROVE  Queue!Retain(v, e) = Retain(v, e) /\ Queue!Positions(v, e) = Positions(v, e)
BY Zenon DEF Queue!Retain, Queue!RetainAll, Retain, RetainAll, Queue!Positions, Positions

LEMMA TaskRecords ==
  /\ \A deps \in DepChoices : Queue!NewTask(deps) \in Queue!Task /\ Queue!NewTask(deps).status = "Queued"
  /\ Queue!Absent \in Queue!Task /\ Queue!Absent.status = "Absent"
BY ManagerAssumption
   DEF ManagerAssumption, Queue!NewTask, Queue!Absent, Queue!Task, Queue!TaskStatus

LEMMA MarkIsOperation ==
  ASSUME RecordTypes, NEW t \in Tasks, NEW st \in Queue!TaskStatus \ {"Queued", "Done"},
         tasks[t].status # "Absent", WriteStatus(t, st)
  PROVE  \E r \in Queue!Task : Operates(t, r)
<1> DEFINE r == [tasks[t] EXCEPT !.status = st]
<1>1. /\ r \in Queue!Task /\ r.status = st
      /\ r.deps = tasks[t].deps /\ r.retries = tasks[t].retries
  BY DEF RecordTypes, Queue!Task
<1>2. tasks' = [tasks EXCEPT ![t] = r] /\ tasks'[t] = r
  BY DEF RecordTypes, WriteStatus
<1>3. (disk' = disk \/ disk' = [disk EXCEPT ![t] = r]) /\ UNCHANGED <<order, blocked>>
  BY <1>2 DEF WriteStatus, Save
<1>4. st \notin {"Absent", "Queued", "Done"}
  BY DEF Queue!TaskStatus
<1> HIDE DEF r
<1> QED BY <1>1, <1>2, <1>3, <1>4 DEF Operates, Replaced, Marks

LEMMA TaskOperates ==
  ASSUME RecordTypes, NEW t \in Tasks, TaskStep(t)
  PROVE  (\E r \in Queue!Task : Operates(t, r)) \/ OnlyFiles
<1>0. tasks[t] \in Queue!Task
  BY DEF RecordTypes
<1>1. ASSUME NEW deps \in DepChoices, CreateTask(t, deps)
      PROVE  (\E r \in Queue!Task : Operates(t, r)) \/ OnlyFiles
  <2> DEFINE r == Queue!NewTask(deps)
  <2>1. r \in Queue!Task /\ r.status = "Queued"
    BY TaskRecords
  <2>2. disk' = [disk EXCEPT ![t] = r]
    BY <1>1 DEF CreateTask
  <2>3. CASE Queue!Enqueue(t, r)
    <3>1. tasks[t].status = "Absent"
      BY <2>3 DEF Queue!Enqueue, Queue!Known
    <3> QED BY <2>1, <2>2, <2>3, <3>1 DEF Queue!Enqueue, Operates, Replaced, Enqueues
  <2>4. CASE ~ Queue!Enqueue(t, r)
    <3>1. UNCHANGED queueVars
      BY <1>1, <2>4 DEF CreateTask
    <3> QED BY <2>1, <2>2, <3>1 DEF OnlyFiles, RecordTypes
  <2> QED BY <2>3, <2>4
<1>2. CASE DeleteTask(t)
  BY <1>2, TaskRecords, QueueVectors DEF DeleteTask, Queue!Dequeue, Unlink, Save, Operates, Replaced, Dequeues
<1>3. CASE UpdateTask(t)
  BY <1>0, <1>3 DEF UpdateTask, Save, OnlyFiles, RecordTypes
<1>4. CASE StartTask(t)
  BY <1>4, MarkIsOperation DEF StartTask, Queue!TaskStatus
<1>5. CASE MoveToReview(t)
  <2>1. tasks[t].status # "Absent" /\ WriteStatus(t, "Review")
    BY <1>5 DEF MoveToReview, Known, Queue!Known
  <2> QED BY <2>1, MarkIsOperation DEF Queue!TaskStatus
<1>6. CASE ApproveTask(t)
  <2> DEFINE r == [tasks[t] EXCEPT !.status = "Done"]
  <2>1. /\ r \in Queue!Task /\ r.status = "Done"
        /\ r.deps = tasks[t].deps /\ r.retries = tasks[t].retries
    BY <1>0 DEF Queue!Task, Queue!TaskStatus
  <2>2. tasks' = [tasks EXCEPT ![t] = r] /\ tasks'[t] = r
    BY <1>6 DEF ApproveTask, Queue!CompleteTask, RecordTypes
  <2>3. disk' = disk \/ disk' = [disk EXCEPT ![t] = r]
    BY <1>6, <2>2 DEF ApproveTask, Save
  <2>4. /\ tasks[t].status # "Absent" /\ UNCHANGED order
        /\ blocked' = [u \in Tasks |-> blocked[u] \ {t}]
    BY <1>6 DEF ApproveTask, Queue!CompleteTask
  <2> HIDE DEF r
  <2> QED BY <2>1, <2>2, <2>3, <2>4 DEF Operates, Replaced, Completes
<1>7. CASE OnTaskComplete(t)
  <2> DEFINE r == [tasks[t] EXCEPT !.status = "Queued", !.session = NoSession, !.retries = @ + 1]
  <2>1. tasks[t].retries \in 0 .. MaxRetries /\ tasks[t].retries + 1 \in 0 .. MaxRetries
    BY <1>0, <1>7, ManagerAssumption
       DEF OnTaskComplete, Queue!RequeueTask, Queue!CanRetry, Queue!Task, ManagerAssumption
  <2>2. /\ r \in Queue!Task /\ r.status = "Queued"
        /\ r.deps = tasks[t].deps /\ r.retries = tasks[t].retries + 1
    BY <1>0, <2>1 DEF Queue!Task, Queue!TaskStatus
  <2>3. tasks' = [tasks EXCEPT ![t] = r] /\ UNCHANGED disk
    BY <1>7 DEF OnTaskComplete, Queue!RequeueTask
  <2>4. /\ tasks[t].status # "Absent"
        /\ order' = Append(order, t) /\ UNCHANGED blocked
    BY <1>7 DEF OnTaskComplete, Queue!RequeueTask
  <2> HIDE DEF r
  <2> QED BY <2>2, <2>3, <2>4 DEF Operates, Replaced, Requeues
<1>8. CASE RejectAssignment(t)
  BY <1>8 DEF RejectAssignment, OnlyFiles, RecordTypes
<1> QED BY <1>1, <1>2, <1>3, <1>4, <1>5, <1>6, <1>7, <1>8 DEF TaskStep

LEMMA SessionOperates ==
  ASSUME RecordTypes, NEW s \in Sessions, SessionStep(s)
  PROVE  (\E t \in Tasks, r \in Queue!Task : Operates(t, r)) \/ OnlyFiles
<1>1. ASSUME NEW t \in Tasks, Queue!AssignTask(t, s), UNCHANGED disk
      PROVE  \E r \in Queue!Task : Operates(t, r)
  <2> DEFINE r == [tasks[t] EXCEPT !.status = "Assigned", !.session = s]
  <2>1. r \in Queue!Task /\ r.status = "Assigned" /\ r.deps = tasks[t].deps
    <3>1. tasks[t] \in Queue!Task
      BY DEF RecordTypes
    <3> QED BY <3>1 DEF Queue!Task, Queue!TaskStatus
  <2>2. tasks' = [tasks EXCEPT ![t] = r]
    BY <1>1 DEF Queue!AssignTask
  <2>3. order' = Retain(order, t) /\ UNCHANGED blocked
    BY <1>1, QueueVectors DEF Queue!AssignTask
  <2> HIDE DEF r
  <2> QED BY <1>1, <2>1, <2>2, <2>3 DEF Operates, Replaced, Assigns
<1>2. ASSUME NEW t \in Tasks,
             Propose(s, t) \/ AssignNow(s, t) \/ DirectAssign(t, s) \/ ConfirmAssignment(t, s)
      PROVE  (Queue!AssignTask(t, s) /\ UNCHANGED disk) \/ OnlyFiles
  BY <1>2 DEF Propose, AssignNow, DirectAssign, ConfirmAssignment, OnlyFiles, RecordTypes
<1>3. ASSUME NEW old \in SessionStatus, NEW new \in SessionStatus, OnSessionStatusChanged(s, old, new)
      PROVE  \E t \in Tasks, r \in Queue!Task : Operates(t, r)
  <2>1. PICK t \in TasksOf(s) :
          TransitionTaskStatus(t, MapSessionToTaskStatus(old, new, tasks[t].status))
    BY <1>3 DEF OnSessionStatusChanged
  <2> DEFINE st == MapSessionToTaskStatus(old, new, tasks[t].status)
  <2>2. t \in Tasks /\ tasks[t].status # "Absent" /\ st # tasks[t].status /\ WriteStatus(t, st)
    BY <2>1 DEF TasksOf, Known, Queue!Known, TransitionTaskStatus
  <2>3. st \in Queue!TaskStatus \ {"Queued", "Done"}
    BY <2>2 DEF MapSessionToTaskStatus, Queue!TaskStatus
  <2> HIDE DEF st
  <2> QED BY <2>2, <2>3, MarkIsOperation
<1> QED BY <1>1, <1>2, <1>3 DEF SessionStep

LEMMA OperationStep ==
  ASSUME RecordTypes, [Next]_vars
  PROVE  (\E t \in Tasks, r \in Queue!Task : Operates(t, r)) \/ OnlyFiles \/ Restart
<1>1. ASSUME NEW m \in Modes, SetMode(m) PROVE OnlyFiles
  BY <1>1 DEF SetMode, OnlyFiles, RecordTypes
<1>2. CASE SaveAll
  <2>1. PICK saved \in SUBSET Known : disk' = [t \in Tasks |-> IF t \in saved THEN tasks[t] ELSE disk[t]]
    BY <1>2 DEF SaveAll
  <2> QED BY <1>2, <2>1 DEF SaveAll, OnlyFiles, RecordTypes
<1>3. CASE UNCHANGED vars
  BY <1>3 DEF vars, queueVars, OnlyFiles, RecordTypes
<1> QED BY <1>1, <1>2, <1>3, TaskOperates, SessionOperates DEF Next

(* How often the order lists a task, by the kind of record it has.         *)
Listed(t) ==
  /\ tasks[t].status = "Absent" => Occurrences(order, t) = 0
  /\ tasks[t].status = "Queued" => Occurrences(order, t) > 0
  /\ Occurrences(order, t) <= tasks[t].retries + 1

Sound(t) == blocked[t] \subseteq tasks[t].deps /\ \A d \in blocked[t] : tasks[d].status # "Done"

QueueInv ==
  /\ RecordTypes
  /\ order \in Seq(Tasks)
  /\ blocked \in [Tasks -> SUBSET Tasks]
  /\ \A t \in Tasks : Listed(t) /\ Sound(t)

LEMMA QueueInvInit == Init => QueueInv
<1> SUFFICES ASSUME Init PROVE QueueInv
  OBVIOUS
<1>1. /\ tasks = [t \in Tasks |-> Queue!Absent] /\ disk = [t \in Tasks |-> Queue!Absent]
      /\ order = << >> /\ blocked = [t \in Tasks |-> {}]
  BY DEF Init, Queue!Init
<1>2. RecordTypes /\ Queue!Absent.status = "Absent" /\ Queue!Absent.retries = 0
  BY <1>1, TaskRecords DEF RecordTypes, Queue!Absent
<1>3. order \in Seq(Tasks) /\ Len(order) = 0
  BY <1>1
<1>4. ASSUME NEW t \in Tasks PROVE Occurrences(order, t) = 0
  <2>1. \A i \in 1 .. Len(order) : order[i] # t
    BY <1>3
  <2> QED BY <1>3, <2>1, OccursIff
<1> QED BY <1>1, <1>2, <1>3, <1>4 DEF QueueInv, Listed, Sound

(* What an operation does to the order, told by occurrences.               *)
LEMMA OrderStep ==
  ASSUME QueueInv, NEW t \in Tasks, NEW r \in Queue!Task, Operates(t, r)
  PROVE  order' \in Seq(Tasks) /\ \A u \in Tasks : Listed(u)'
<1> USE DEF QueueInv, RecordTypes
<1>1. /\ tasks'[t] = r
      /\ \A u \in Tasks : u # t => tasks'[u] = tasks[u]
  BY DEF Operates, Replaced
<1>2. \A u \in Tasks : Occurrences(order, u) \in Nat
  BY PositionsFinite
<1>3. r.retries \in Nat /\ tasks[t].retries \in Nat
  BY ManagerAssumption DEF ManagerAssumption, Queue!Task
<1>4. CASE order' = Retain(order, t) /\ r.status # "Queued"
  <2>1. order' \in Seq(Tasks) /\ \A u : Occurrences(order', u) = IF u = t THEN 0 ELSE Occurrences(order, u)
    BY <1>4, RetainOccurrences
  <2> QED BY <1>1, <1>3, <1>4, <2>1 DEF Listed
<1>5. CASE /\ order' = Append(order, t) /\ r.status = "Queued"
           /\ tasks[t].status = "Absent" \/ r.retries = tasks[t].retries + 1
  <2>1. order' \in Seq(Tasks)
    BY <1>5
  <2>2. \A u \in Tasks : Occurrences(order', u) = Occurrences(order, u) + (IF u = t THEN 1 ELSE 0)
    BY <1>5, OccurrencesAppend
  <2>3. Listed(t)'
    BY <1>1, <1>2, <1>3, <1>5, <2>2 DEF Listed
  <2>4. ASSUME NEW u \in Tasks, u # t PROVE Listed(u)'
    BY <1>1, <1>2, <2>2, <2>4 DEF Listed
  <2> QED BY <2>1, <2>3, <2>4
<1>6. CASE /\ UNCHANGED order /\ tasks[t].status # "Absent"
           /\ r.status \notin {"Absent", "Queued"} /\ r.retries = tasks[t].retries
  BY <1>1, <1>6 DEF Listed
<1> QED BY <1>4, <1>5, <1>6 DEF Operates, Enqueues, Dequeues, Assigns, Marks, Completes, Requeues

(* Only approve_task makes a task done, and it tells the index.            *)
LEMMA IndexStep ==
  ASSUME QueueInv, NEW t \in Tasks, NEW r \in Queue!Task, Operates(t, r)
  PROVE  blocked' \in [Tasks -> SUBSET Tasks] /\ \A u \in Tasks : Sound(u)'
<1> USE DEF QueueInv, RecordTypes
<1>1. /\ tasks'[t] = r
      /\ \A u \in Tasks : u # t => tasks'[u] = tasks[u]
  BY DEF Operates, Replaced
<1>2. \A u \in Tasks : tasks[u].deps \subseteq Tasks
  BY DEF Queue!Task
<1>3. CASE Enqueues(t, r)
  <2>1. /\ blocked'[t] \subseteq r.deps /\ \A d \in blocked'[t] : tasks'[d].status # "Done"
        /\ \A u \in Tasks : u # t => blocked'[u] = blocked[u]
    BY <1>1, <1>3 DEF Enqueues, Queue!Blocking
  <2>2. r.deps \subseteq Tasks
    BY DEF Queue!Task
  <2>3. blocked' \in [Tasks -> SUBSET Tasks]
    BY <1>1, <1>3, <2>2 DEF Enqueues, Queue!Blocking
  <2>4. \A u \in Tasks : tasks'[u].status = "Done" => tasks[u].status = "Done"
    BY <1>1, <1>3 DEF Enqueues
  <2>5. ASSUME NEW u \in Tasks, u # t PROVE Sound(u)'
    BY <1>1, <1>2, <2>1, <2>4, <2>5 DEF Sound
  <2>6. Sound(t)'
    BY <1>1, <2>1 DEF Sound
  <2> QED BY <2>3, <2>5, <2>6
<1>4. CASE Dequeues(t, r)
  <2>1. \A u \in Tasks : tasks'[u].status = "Done" => tasks[u].status = "Done"
    BY <1>1, <1>4 DEF Dequeues
  <2> QED BY <1>1, <1>2, <1>4, <2>1 DEF Dequeues, Sound
<1>5. CASE Completes(t, r)
  <2>1. \A u \in Tasks : u # t => (tasks'[u].status = "Done" <=> tasks[u].status = "Done")
    BY <1>1
  <2>2. \A u \in Tasks : tasks'[u].deps = tasks[u].deps
    BY <1>1, <1>5 DEF Completes
  <2> QED BY <1>2, <1>5, <2>1, <2>2 DEF Completes, Sound
<1>6. CASE UNCHANGED blocked /\ r.deps = tasks[t].deps /\ r.status # "Done"
  <2>1. \A u \in Tasks : tasks'[u].status = "Done" => tasks[u].status = "Done"
    BY <1>1, <1>6
  <2>2. \A u \in Tasks : tasks'[u].deps = tasks[u].deps
    BY <1>1, <1>6
  <2> QED BY <1>2, <1>6, <2>1, <2>2 DEF Sound
<1> QED BY <1>3, <1>4, <1>5, <1>6 DEF Operates, Assigns, Marks, Requeues

(* load puts every task that has a file into the order, once.              *)
LEMMA RestartStep == ASSUME QueueInv, Restart PROVE QueueInv'
<1> USE DEF QueueInv, RecordTypes
<1>1. /\ tasks' = [t \in Tasks |-> Reloaded(disk[t])] /\ disk' = disk
      /\ order' = RetainAll(LoadOrder, OnDisk)
      /\ blocked' = [t \in Tasks |-> Queue!Blocking(tasks', t) \cap LoadedBefore(t)]
  BY DEF Restart
<1>2. \A r \in Queue!Task :
        /\ Reloaded(r) \in Queue!Task /\ Reloaded(r).retries = r.retries
        /\ Reloaded(r).status = "Absent" <=> r.status = "Absent"
  BY DEF Reloaded, Queue!Task, Queue!TaskStatus
<1>3. RecordTypes'
  BY <1>1, <1>2
<1>4. LoadOrder \in Seq(Tasks) /\ \A t \in Tasks : Occurrences(LoadOrder, t) = 1
  BY ManagerAssumption DEF ManagerAssumption
<1>5. order' \in Seq(Tasks) /\ \A t \in Tasks : Occurrences(order', t) = IF t \in OnDisk THEN 1 ELSE 0
  BY <1>1, <1>4, RetainAllOccurrences
<1>6. ASSUME NEW t \in Tasks PROVE Listed(t)'
  <2>1. disk[t] \in Queue!Task /\ disk[t].retries \in Nat
    BY ManagerAssumption DEF ManagerAssumption, Queue!Task
  <2>2. tasks'[t] = Reloaded(disk[t]) /\ (t \in OnDisk <=> disk[t].status # "Absent")
    BY <1>1 DEF OnDisk
  <2>3. tasks'[t].retries \in Nat /\ (tasks'[t].status = "Absent" <=> t \notin OnDisk)
    BY <1>2, <2>1, <2>2
  <2> QED BY <1>5, <2>3 DEF Listed
<1>7. \A t \in Tasks : tasks'[t].deps \subseteq Tasks
  BY <1>3 DEF Queue!Task
<1>8. blocked' \in [Tasks -> SUBSET Tasks] /\ \A t \in Tasks : Sound(t)'
  BY <1>1, <1>7 DEF Queue!Blocking, Sound
<1> QED BY <1>3, <1>5, <1>6, <1>8

LEMMA QueueInvStep == QueueInv /\ [Next]_vars => QueueInv'
<1> SUFFICES ASSUME QueueInv, [Next]_vars PROVE QueueInv'
  OBVIOUS
<1>1. ASSUME NEW t \in Tasks, NEW r \in Queue!Task, Operates(t, r) PROVE QueueInv'
  <2>1. RecordTypes'
    BY <1>1 DEF QueueInv, RecordTypes, Operates, Replaced
  <2> QED BY <1>1, <2>1, OrderStep, IndexStep DEF QueueInv
<1>2. CASE OnlyFiles
  BY <1>2 DEF OnlyFiles, queueVars, QueueInv, RecordTypes, Listed, Sound
<1> QED BY <1>1, <1>2, OperationStep, RestartStep DEF QueueInv

LEMMA QueueInvariance == Spec => []QueueInv
BY QueueInvInit, QueueInvStep, PTL DEF Spec

LEMMA QueuedAreListed == QueueInv => QueuedIsInOrder
<1> SUFFICES ASSUME QueueInv, NEW t \in Queue!Queued PROVE Positions(order, t) # {}
  BY DEF QueuedIsInOrder
<1>1. Occurrences(order, t) # 0
  BY PositionsFinite DEF QueueInv, Listed, Queue!Queued
<1> QED BY <1>1, FS_EmptySet DEF Occurrences

LEMMA CopiesAreCounted == QueueInv => CopiesAreRetries
BY DEF QueueInv, Listed, CopiesAreRetries, Known, Queue!Known

LEMMA RunnableAreEligible == QueueInv => RunnableIsEligible
<1> SUFFICES ASSUME QueueInv, NEW t \in Queue!Queued, tasks[t].deps \subseteq Queue!Done
             PROVE  t \in Queue!Eligible
  BY DEF RunnableIsEligible, Queue!RunnableIsEligible
<1>1. t \in Tasks
  BY DEF Queue!Queued
<1>2. blocked[t] = {}
  BY <1>1 DEF QueueInv, Sound, Queue!Done
<1>3. Positions(order, t) # {}
  BY QueuedAreListed DEF QueuedIsInOrder
<1> QED BY <1>1, <1>2, <1>3, QueueVectors DEF Queue!Eligible, Queue!IsEligible

(* No queued task is missing from the order, although start_task, reviews  *)
(* and status changes write statuses behind the queue's back, whatever     *)
(* writes fail and after any restart.                                      *)
THEOREM QueuedTasksAreListed == Spec => []QueuedIsInOrder
BY QueuedAreListed, QueueInvariance, PTL

(* The copies of an id that requeues leave in the order never outnumber    *)
(* the retries spent on the task.                                          *)
THEOREM CopiesAreBounded == Spec => []CopiesAreRetries
BY CopiesAreCounted, QueueInvariance, PTL

(* A queued task whose dependencies are done can be given to a session:    *)
(* the order lists it, and the index names only dependencies that are not  *)
(* done, although it is updated one entry at a time.                       *)
THEOREM NoRunnableTaskHidden == Spec => []RunnableIsEligible
BY RunnableAreEligible, QueueInvariance, PTL

(* The bounds of the proposal list and the modes.                          *)
PendingInv == Len(pending) <= MaxPending /\ mode \in Modes

LEMMA PendingInvInit == Init => ProposalInv /\ PendingInv
BY ManagerAssumption DEF Init, ProposalInv, OneProposalEach, PendingInv, ManagerAssumption

LEMMA PendingInvStep == ProposalInv /\ PendingInv /\ [Next]_vars => PendingInv'
<1> SUFFICES ASSUME ProposalInv, PendingInv, [Next]_vars PROVE PendingInv'
  OBVIOUS
<1>0. /\ pending \in Seq(Proposal) /\ Len(pending) \in Nat
      /\ MaxPending \in Nat \ {0} /\ "Auto" \in Modes /\ Len(<< >>) = 0
  BY ManagerAssumption DEF ProposalInv, ManagerAssumption
<1> USE DEF PendingInv
<1>1. ASSUME NEW t \in Tasks, RemovePending(t), UNCHANGED mode PROVE PendingInv'
  <2>1. PICK i \in 1 .. Len(pending) :
          pending' = SubSeq(pending, 1, i - 1) \o SubSeq(pending, i + 1, Len(pending))
    BY <1>1 DEF RemovePending, PendingFor
  <2>2. Len(pending') = Len(pending) - 1
    BY <1>0, <2>1, Removed
  <2> QED BY <1>0, <1>1, <2>2
<1>2. CASE UNCHANGED <<pending, mode>>
  BY <1>2
<1>3. ASSUME NEW s \in Sessions, NEW t \in Tasks, Propose(s, t) PROVE PendingInv'
  <2>1. [task |-> t, session |-> s] \in Proposal
    BY DEF Proposal
  <2> QED BY <1>0, <1>3, <2>1 DEF Propose
<1>4. ASSUME NEW m \in Modes, SetMode(m) PROVE PendingInv'
  BY <1>0, <1>4 DEF SetMode
<1>5. CASE Restart
  BY <1>0, <1>5 DEF Restart
<1>6. ASSUME NEW t \in Tasks, TaskStep(t) PROVE PendingInv'
  <2>1. CASE RejectAssignment(t)
    BY <1>1, <2>1 DEF RejectAssignment
  <2>2. CASE ~ RejectAssignment(t)
    BY <1>2, <1>6, <2>2 DEF TaskStep, CreateTask, DeleteTask, UpdateTask, StartTask, MoveToReview,
                            ApproveTask, OnTaskComplete, WriteStatus
  <2> QED BY <2>1, <2>2
<1>7. ASSUME NEW s \in Sessions, SessionStep(s) PROVE PendingInv'
  <2>1. ASSUME NEW t \in Tasks, ConfirmAssignment(t, s) PROVE PendingInv'
    BY <1>1, <2>1 DEF ConfirmAssignment
  <2>2. ASSUME NEW t \in Tasks, AssignNow(s, t) \/ DirectAssign(t, s) PROVE PendingInv'
    BY <1>2, <2>2 DEF AssignNow, DirectAssign
  <2>3. ASSUME NEW old \in SessionStatus, NEW new \in SessionStatus, OnSessionStatusChanged(s, old, new)
        PROVE  PendingInv'
    BY <1>2, <2>3 DEF OnSessionStatusChanged, TransitionTaskStatus, WriteStatus
  <2> QED BY <1>3, <1>7, <2>1, <2>2, <2>3 DEF SessionStep
<1>8. CASE SaveAll \/ UNCHANGED vars
  BY <1>2, <1>8 DEF SaveAll, vars
<1> QED BY <1>4, <1>5, <1>6, <1>7, <1>8 DEF Next

(* Without the mode "Confirm" nothing is ever proposed.                    *)
NothingProposed == mode # "Confirm" /\ Len(pending) = 0

LEMMA NothingProposedStep ==
  ASSUME "Confirm" \notin Modes, NothingProposed, [Next]_vars
  PROVE  NothingProposed'
<1> USE DEF NothingProposed
<1>1. CASE UNCHANGED <<pending, mode>>
  BY <1>1
<1>2. ASSUME NEW t \in Tasks, RemovePending(t) PROVE FALSE
  BY <1>2 DEF RemovePending, PendingFor
<1>3. ASSUME NEW m \in Modes, SetMode(m) PROVE NothingProposed'
  <2>1. Len(<< >>) = 0
    OBVIOUS
  <2> QED BY <1>3, <2>1 DEF SetMode
<1>4. CASE Restart
  <2>1. Len(<< >>) = 0
    OBVIOUS
  <2> QED BY <1>4, <2>1 DEF Restart
<1>5. ASSUME NEW t \in Tasks, TaskStep(t) PROVE NothingProposed'
  BY <1>1, <1>2, <1>5
     DEF TaskStep, CreateTask, DeleteTask, UpdateTask, StartTask, MoveToReview, ApproveTask,
         OnTaskComplete, RejectAssignment, WriteStatus
<1>6. ASSUME NEW s \in Sessions, SessionStep(s) PROVE NothingProposed'
  BY <1>1, <1>2, <1>6
     DEF SessionStep, Propose, AssignNow, DirectAssign, ConfirmAssignment, OnSessionStatusChanged,
         TransitionTaskStatus, WriteStatus
<1>7. CASE SaveAll \/ UNCHANGED vars
  BY <1>1, <1>7 DEF SaveAll, vars
<1> QED BY <1>3, <1>4, <1>5, <1>6, <1>7 DEF Next

LEMMA TypesFollow == QueueInv /\ ProposalInv /\ PendingInv => TypeOK
BY DEF QueueInv, RecordTypes, ProposalInv, PendingInv, TypeOK, Queue!TypeOK

(* The manager's variables keep their types, the retry limit and the limit *)
(* of the proposals included, also in what a restart reads from the files. *)
THEOREM TypeCorrect == Spec => []TypeOK
BY PendingInvInit, TypesFollow, QueueInvariance, ProposalInvStep, PendingInvStep, PTL DEF Spec
=============================================================================
