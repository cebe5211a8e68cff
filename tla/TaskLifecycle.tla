---------------------------- MODULE TaskLifecycle ----------------------------
(***************************************************************************)
(* What the task board promises of a task: the column it is in, and the    *)
(* moves between columns.  "Active" stands for assigned, working,          *)
(* verifying and blocked.  There is no queue order, no session, no file.   *)
(***************************************************************************)
CONSTANT Tasks

VARIABLE column

Columns == {"Absent", "Queued", "Active", "Review", "Done"}

Move(t, from, to) ==
  /\ column[t] \in from
  /\ column' = [column EXCEPT ![t] = to]

Create(t) == Move(t, {"Absent"}, "Queued")

Delete(t) == Move(t, Columns, "Absent")

(* Work begins: by assignment, or by hand on a queued task.                *)
Begin(t) == Move(t, {"Queued"}, "Active")

(* The session stops, or the user asks for a review of any task.           *)
Submit(t) == Move(t, Columns \ {"Absent"}, "Review")

(* Only work that was begun can be approved.                               *)
Approve(t) == Move(t, {"Active", "Review"}, "Done")

(* A failed verification, never of finished work.                          *)
SendBack(t) == Move(t, {"Active", "Review"}, "Queued")

(* Unfinished work goes back to the queue; finished work stays finished.   *)
Restart ==
  column' = [t \in Tasks |-> IF column[t] \in {"Absent", "Done"} THEN column[t] ELSE "Queued"]

Init == column = [t \in Tasks |-> "Absent"]

Next ==
  \/ \E t \in Tasks : Create(t) \/ Delete(t) \/ Begin(t) \/ Submit(t) \/ Approve(t) \/ SendBack(t)
  \/ Restart

Spec == Init /\ [][Next]_column
==============================================================================
