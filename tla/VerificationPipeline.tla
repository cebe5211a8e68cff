------------------------- MODULE VerificationPipeline -------------------------
(***************************************************************************)
(* The pipeline a finished task goes through: verification, change         *)
(* summary, review.  The states of the pipelines are behind a lock that is *)
(* taken for one access at a time: a call checks the stage, waits for the  *)
(* verification commands or for git, and writes each of its results under  *)
(* a lock of its own.  Any other call may be made in between, on the same  *)
(* task too.                                                               *)
(***************************************************************************)
EXTENDS Naturals

CONSTANTS
  Tasks,
  Calls         \* calls of start, skip_verification and submit_review at once

VARIABLES
  pipe,         \* of each task: the state of its pipeline, if it has one
  call          \* of each call: the step it is at, and for which task

pipeVars == <<pipe, call>>

Stages == {"TaskCompleted", "Verifying", "GeneratingChangeSummary", "AwaitingReview",
           "GeneratingNotes", "Complete", "RetryingInSession", "Blocked"}
Decisions == {"Approve", "Reject", "RequestChanges"}

NoPipe == [stage |-> "none", verification |-> "none", decision |-> "none"]
NewPipe == [NoPipe EXCEPT !.stage = "TaskCompleted"]
NoCall == [step |-> "none", task |-> CHOOSE t \in Tasks : TRUE]

(* What update_stage is called with next: after the pipeline was stored,   *)
(* the verification has passed or failed, its skip was allowed, a decision *)
(* was written, the stage was set to GeneratingNotes.                      *)
NextStage ==
  [stored |-> "Verifying", passed |-> "GeneratingChangeSummary", failed |-> "RetryingInSession",
   skipping |-> "GeneratingChangeSummary", approved |-> "GeneratingNotes", noted |-> "Complete",
   rejected |-> "Blocked", returned |-> "RetryingInSession"]

(* Mutant of StepAfter: the review ends where the notes would be made.     *)
StepAfterWithoutNotes(step) ==
  CASE step = "stored" -> "verify"
    [] step \in {"passed", "skipping"} -> "summary"
    [] OTHER -> "none"

(* Where the call is then: it waits for verify or git, or has returned.    *)
StepAfter(step) ==
  CASE step = "stored" -> "verify"
    [] step \in {"passed", "skipping"} -> "summary"
    [] step = "approved" -> "noted"
    [] OTHER -> "none"

CallSteps == DOMAIN NextStage \cup {"verify", "summary"} \cup Decisions

PipeTypeOK ==
  /\ pipe \in [Tasks -> {NoPipe} \cup
       [stage : Stages, verification : {"none", "Passed", "Failed"}, decision : Decisions \cup {"none"}]]
  /\ call \in [Calls -> {NoCall} \cup [step : CallSteps, task : Tasks]]

PipeInit ==
  /\ pipe = [t \in Tasks |-> NoPipe]
  /\ call = [c \in Calls |-> NoCall]

(* Mutant of Updated: a pipeline that is gone is written again.            *)
UpdatedAlways(t, st) == [pipe EXCEPT ![t] = st]

(* A write under the lock: a pipeline that was cancelled meanwhile is not  *)
(* brought back.                                                           *)
Updated(t, st) == IF pipe[t] = NoPipe THEN pipe ELSE [pipe EXCEPT ![t] = st]
WithStage(t, stage) == [pipe[t] EXCEPT !.stage = stage]

Begins(c, step, t) == call[c] = NoCall /\ call' = [call EXCEPT ![c] = [step |-> step, task |-> t]]
GoesOn(c, step) == call' = [call EXCEPT ![c] = IF step = "none" THEN NoCall ELSE [@ EXCEPT !.step = step]]

(* start: a pipeline the task has is replaced.                             *)
StartPipeline(c, t) ==
  /\ Begins(c, "stored", t)
  /\ pipe' = [pipe EXCEPT ![t] = NewPipe]

(* update_stage, for whichever call.                                       *)
UpdateStage(c) ==
  /\ call[c].step \in DOMAIN NextStage
  /\ pipe' = Updated(call[c].task, WithStage(call[c].task, NextStage[call[c].step]))
  /\ GoesOn(c, StepAfter(call[c].step))

(* verify returns, and its result is written.                              *)
Verified(c, result, step) ==
  /\ call[c].step = "verify"
  /\ LET t == call[c].task IN pipe' = Updated(t, [pipe[t] EXCEPT !.verification = result])
  /\ GoesOn(c, step)

Passes(c) == Verified(c, "Passed", "passed")
Fails(c) == Verified(c, "Failed", "failed")

(* Mutant of Errs: the stage is left as it is.                             *)
ErrsQuietly(c) ==
  /\ call[c].step = "verify"
  /\ GoesOn(c, "none")
  /\ UNCHANGED pipe

(* verify returns an error: a command cannot be started, or times out.     *)
Errs(c) ==
  /\ call[c].step = "verify"
  /\ pipe' = Updated(call[c].task, WithStage(call[c].task, "Blocked"))
  /\ GoesOn(c, "none")

Summarises(c) ==
  /\ call[c].step = "summary"
  /\ pipe' = Updated(call[c].task, WithStage(call[c].task, "AwaitingReview"))
  /\ GoesOn(c, "none")

(* generate_summary returns an error, and so does the call: the stage      *)
(* stays at GeneratingChangeSummary.                                       *)
SummaryFails(c) ==
  /\ call[c].step = "summary"
  /\ GoesOn(c, "none")
  /\ UNCHANGED pipe

(* skip_verification reads the stage.                                      *)
SkipVerification(c, t) ==
  /\ pipe[t].stage = "Verifying"
  /\ Begins(c, "skipping", t)
  /\ UNCHANGED pipe

(* submit_review reads the stage, ...                                      *)
SubmitReview(c, t, d) ==
  /\ pipe[t].stage = "AwaitingReview"
  /\ Begins(c, d, t)
  /\ UNCHANGED pipe

(* ... then writes the decision, whatever the pipeline is by now.          *)
WriteDecision(c) ==
  /\ call[c].step \in Decisions
  /\ LET t == call[c].task IN pipe' = Updated(t, [pipe[t] EXCEPT !.decision = call[c].step])
  /\ GoesOn(c, CASE call[c].step = "Approve" -> "approved"
                 [] call[c].step = "Reject" -> "rejected"
                 [] call[c].step = "RequestChanges" -> "returned")

CancelPipeline(t) ==
  /\ pipe[t] # NoPipe
  /\ pipe' = [pipe EXCEPT ![t] = NoPipe]
  /\ UNCHANGED call

PipeNext ==
  \/ \E c \in Calls, t \in Tasks : StartPipeline(c, t) \/ SkipVerification(c, t)
  \/ \E c \in Calls : UpdateStage(c) \/ Passes(c) \/ Fails(c) \/ Errs(c) \/ Summarises(c) \/ SummaryFails(c)
  \/ \E c \in Calls, t \in Tasks, d \in Decisions : SubmitReview(c, t, d)
  \/ \E c \in Calls : WriteDecision(c)
  \/ \E t \in Tasks : CancelPipeline(t)

PipeSpec == PipeInit /\ [][PipeNext]_pipeVars

(* A verification command ends or times out (CommandExecutor), and a call  *)
(* that waits for nothing goes on.  git has no time limit: of the summary  *)
(* nothing is assumed.                                                     *)
PipeFairness ==
  \A c \in Calls : WF_pipeVars(Passes(c) \/ Fails(c) \/ Errs(c)) /\ WF_pipeVars(UpdateStage(c))

(***************************************************************************)
(* Properties.                                                             *)
(***************************************************************************)

(* The stages that only a call can end, with the steps of such a call.     *)
WorkOn ==
  [TaskCompleted |-> {"stored"}, Verifying |-> {"verify", "passed", "failed"}, GeneratingNotes |-> {"noted"}]

(* A pipeline that shows such a stage has a call that will end it, however *)
(* many calls on the task overtake each other: no result that comes late,  *)
(* after a cancel, another start, a skip or a review, puts a pipeline back *)
(* into a stage from which nobody moves it on.                             *)
BusyIsWorkedOn ==
  \A t \in Tasks : pipe[t].stage \in DOMAIN WorkOn =>
    \E c \in Calls : call[c].task = t /\ call[c].step \in WorkOn[pipe[t].stage]

(* A pipeline that was cancelled is not brought back by a verification, a  *)
(* summary or a review that goes on (each write looks for its entry).      *)
CancelledStaysCancelled ==
  [][\A t \in Tasks :
       pipe[t] = NoPipe /\ pipe'[t] # NoPipe =>
         pipe'[t] = NewPipe /\ \E c \in Calls : call[c] = NoCall /\ call'[c].task = t]_pipeVars

(* No pipeline shows Verifying for ever, whether its verification passes,  *)
(* fails or breaks off, and however often it is started again meanwhile.   *)
VerifyingEnds ==
  \A t \in Tasks : pipe[t].stage = "Verifying" ~> pipe[t].stage # "Verifying"
=============================================================================
