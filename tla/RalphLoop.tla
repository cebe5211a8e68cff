------------------------------- MODULE RalphLoop -------------------------------
(***************************************************************************)
(* The controller of the autonomous loops, one per session at most.  Who   *)
(* drives a loop lets the session work while the loop runs, verifies, and  *)
(* records the iteration; a pause, a stop or a new start may come while an *)
(* iteration is under way, and its result is recorded all the same.        *)
(***************************************************************************)
EXTENDS Naturals

CONSTANTS
  LoopSessions,
  Configs,      \* records: max_iterations, pause_on_error
  MaxStarts     \* bound on the loops that are started for a session

ASSUME LoopAssumption ==
  /\ \A c \in Configs : c.max_iterations \in Nat
  /\ \E c \in Configs : \A d \in Configs : d.max_iterations <= c.max_iterations
  /\ MaxStarts \in Nat

VARIABLES
  loop,         \* of each session: its loop with the config, or NoLoop
  iteration,    \* of each session: the number of the iteration under way, or 0
  starts        \* counts the loops that were started

loopVars == <<loop, iteration, starts>>

Finished == {"Completed", "Failed", "Cancelled"}
LoopStatus == {"Running", "Paused"} \cup Finished

NoLoop == [status |-> "none", current |-> 0, idle |-> 0, history |-> 0,
           config |-> CHOOSE c \in Configs : TRUE]

NewLoop(c) == [NoLoop EXCEPT !.status = "Running", !.config = c]

MaxNumber == CHOOSE n \in {c.max_iterations : c \in Configs} :
               \A c \in Configs : c.max_iterations <= n

LoopTypeOK ==
  /\ loop \in [LoopSessions -> {NoLoop} \cup
       [status : LoopStatus, current : 0 .. MaxNumber, idle : 0 .. MaxNumber,
        history : 0 .. MaxNumber, config : Configs]]
  /\ iteration \in [LoopSessions -> 0 .. MaxNumber]
  /\ starts \in [LoopSessions -> 0 .. MaxStarts]

LoopInit ==
  /\ loop = [s \in LoopSessions |-> NoLoop]
  /\ iteration = [s \in LoopSessions |-> 0]
  /\ starts = [s \in LoopSessions |-> 0]

IsActive(s) == loop[s].status \in {"Running", "Paused"}

(* start, refused for a session whose loop is active or with a config that *)
(* allows no iteration.                                                    *)
StartLoop(s, c) ==
  /\ starts[s] < MaxStarts
  /\ ~ IsActive(s) /\ c.max_iterations > 0
  /\ loop' = [loop EXCEPT ![s] = NewLoop(c)]
  /\ starts' = [starts EXCEPT ![s] = @ + 1]
  /\ UNCHANGED iteration

PauseLoop(s) ==
  /\ loop[s].status = "Running"
  /\ loop' = [loop EXCEPT ![s].status = "Paused"]
  /\ UNCHANGED <<iteration, starts>>

ResumeLoop(s) ==
  /\ loop[s].status = "Paused"
  /\ loop' = [loop EXCEPT ![s].status = "Running"]
  /\ UNCHANGED <<iteration, starts>>

StopLoop(s) ==
  /\ IsActive(s)
  /\ loop' = [loop EXCEPT ![s].status = "Cancelled"]
  /\ UNCHANGED <<iteration, starts>>

(* cleanup_finished: of every session.                                     *)
Cleanup ==
  /\ \E s \in LoopSessions : loop[s].status \in Finished
  /\ loop' = [s \in LoopSessions |-> IF loop[s].status \in Finished THEN NoLoop ELSE loop[s]]
  /\ UNCHANGED <<iteration, starts>>

(* The driver: one iteration at a time, of a loop that runs.               *)
Iterate(s) ==
  /\ loop[s].status = "Running" /\ iteration[s] = 0
  /\ iteration' = [iteration EXCEPT ![s] = loop[s].current + 1]
  /\ UNCHANGED <<loop, starts>>

(* Mutant of Ended: the limit is met exactly or not at all.                *)
EndedAtLimit(l, nr, passed) ==
  IF passed THEN "Completed"
  ELSE IF nr = l.config.max_iterations THEN "Failed"
  ELSE IF l.config.pause_on_error /\ l.status = "Running" THEN "Paused"
  ELSE l.status

(* What record_iteration makes of a loop.                                  *)
Ended(l, nr, passed) ==
  IF passed THEN "Completed"
  ELSE IF nr >= l.config.max_iterations THEN "Failed"
  ELSE IF l.config.pause_on_error /\ l.status = "Running" THEN "Paused"
  ELSE l.status

(* Mutant of Recorded: an iteration that failed is not counted.            *)
RecordedIfPassed(l, nr, passed) ==
  IF passed THEN [l EXCEPT !.idle = 0, !.current = nr, !.history = @ + 1, !.status = "Completed"]
  ELSE [l EXCEPT !.status = Ended(l, nr, passed)]

Recorded(l, nr, passed) ==
  [l EXCEPT !.idle = IF passed THEN 0 ELSE @ + 1, !.current = nr, !.history = @ + 1,
            !.status = Ended(l, nr, passed)]

(* record_iteration of the result, whatever has become of the loop; a loop *)
(* that has been cleaned up gives an error.                                *)
RecordIteration(s, passed) ==
  /\ iteration[s] # 0
  /\ iteration' = [iteration EXCEPT ![s] = 0]
  /\ loop' = IF loop[s] = NoLoop THEN loop ELSE [loop EXCEPT ![s] = Recorded(@, iteration[s], passed)]
  /\ UNCHANGED starts

LoopNext ==
  \/ \E s \in LoopSessions, c \in Configs : StartLoop(s, c)
  \/ \E s \in LoopSessions : PauseLoop(s) \/ ResumeLoop(s) \/ StopLoop(s) \/ Iterate(s)
  \/ \E s \in LoopSessions, passed \in BOOLEAN : RecordIteration(s, passed)
  \/ Cleanup

LoopSpec == LoopInit /\ [][LoopNext]_loopVars

(* The driver goes on: it begins the iterations of a loop that runs, and   *)
(* each ends.                                                              *)
LoopFairness ==
  \A s \in LoopSessions :
    /\ WF_loopVars(Iterate(s))
    /\ WF_loopVars(\E passed \in BOOLEAN : RecordIteration(s, passed))

(***************************************************************************)
(* Properties.                                                             *)
(***************************************************************************)

(* No loop runs for ever: it completes, fails at max_iterations, or is     *)
(* paused or cancelled, also when the results of an earlier loop of the    *)
(* session are counted in.                                                 *)
LoopEnds == \A s \in LoopSessions : loop[s].status = "Running" ~> loop[s].status # "Running"

(* A loop that goes on has recorded fewer than max_iterations results,     *)
(* although the result of an earlier loop with another limit may have set  *)
(* its counter.                                                            *)
LoopIsBounded ==
  \A s \in LoopSessions : IsActive(s) => loop[s].history < loop[s].config.max_iterations

(* "Check if the loop is finished (cannot continue)": neither its status   *)
(* nor its counter changes any more.                                       *)
FinishedIsFinal ==
  [][\A s \in LoopSessions :
       loop[s].status \in Finished /\ starts'[s] = starts[s] => loop'[s] \in {loop[s], NoLoop}]_loopVars
=============================================================================
