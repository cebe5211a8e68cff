------------------------------ MODULE MC_Services ------------------------------
(***************************************************************************)
(* Seven parts of the program that share no state in these models, each   *)
(* checked alone by one choice of the first state: the run explores the    *)
(* sum of their state spaces, not the product.  The integration layer is   *)
(* taken twice, with the task board and without compactions, and the other *)
(* way round.                                                              *)
(***************************************************************************)
EXTENDS AutoSave, Updater, StatusEngine, VerificationPipeline, RalphLoop, Integration, PaneLayout

CONSTANT
  Chosen        \* the services of the run

VARIABLE service

Services == {"save", "update", "status", "verify", "loop", "bus", "compaction", "layout"}

ASSUME ChosenAssumption == Chosen \subseteq Services

vars == <<service, saveVars, updVars, statusVars, pipeVars, loopVars, busVars, layoutVars>>

(* Values for the configuration.                                           *)
SignalsOfCli == [claude |-> 2, codex |-> 1]
OneSignal == [claude |-> 1, codex |-> 1]

LoopConfigs ==
  {[max_iterations |-> 1, pause_on_error |-> FALSE],
   [max_iterations |-> 3, pause_on_error |-> TRUE],
   [max_iterations |-> 2, pause_on_error |-> FALSE]}

Symmetric == Permutations(Downloads)

(* The types of the machine that moves; the others stay in their first     *)
(* state.                                                                  *)
TypeOK ==
  /\ service \in Services
  /\ service = "save" => SaveTypeOK
  /\ service = "update" => UpdTypeOK
  /\ service = "status" => StatusTypeOK
  /\ service = "verify" => PipeTypeOK
  /\ service = "loop" => LoopTypeOK
  /\ service \in {"bus", "compaction"} => BusTypeOK
  /\ service = "layout" => LayoutTypeOK

(* The machines that are not chosen have one first state.                  *)
Init ==
  /\ service \in Chosen
  /\ SaveInit /\ UpdInit /\ StatusInit /\ PipeInit /\ LoopInit /\ BusInit /\ LayoutInit
  /\ service # "update" => release = 1
  /\ service # "layout" => Len(ws.panes) = 1
  /\ service # "status" => cli = (CHOOSE c \in Clis : TRUE) /\ ~ focused /\ detector.calm

(* One machine moves, the others stay.                                     *)
OnlySave == UNCHANGED <<service, updVars, statusVars, pipeVars, loopVars, busVars, layoutVars>>
OnlyUpdate == UNCHANGED <<service, saveVars, statusVars, pipeVars, loopVars, busVars, layoutVars>>
OnlyStatus == UNCHANGED <<service, saveVars, updVars, pipeVars, loopVars, busVars, layoutVars>>
OnlyVerify == UNCHANGED <<service, saveVars, updVars, statusVars, loopVars, busVars, layoutVars>>
OnlyLoop == UNCHANGED <<service, saveVars, updVars, statusVars, pipeVars, busVars, layoutVars>>
OnlyBus == UNCHANGED <<service, saveVars, updVars, statusVars, pipeVars, loopVars, layoutVars>>
OnlyLayout == UNCHANGED <<service, saveVars, updVars, statusVars, pipeVars, loopVars, busVars>>

Next ==
  \/ service = "save" /\ UpdateState /\ OnlySave
  \/ service = "save" /\ EventArrives /\ OnlySave
  \/ service = "save" /\ Stop /\ OnlySave
  \/ service = "save" /\ Crash /\ OnlySave
  \/ service = "save" /\ Restart /\ OnlySave
  \/ \E p \in Savers : service = "save" /\ Clone(p) /\ OnlySave
  \/ \E p \in Savers : service = "save" /\ Open(p) /\ OnlySave
  \/ \E p \in Savers : service = "save" /\ Write(p) /\ OnlySave
  \/ \E p \in Savers : service = "save" /\ WriteFails(p) /\ OnlySave
  \/ \E p \in Savers : service = "save" /\ Rename(p) /\ OnlySave
  \/ \E p \in Background : service = "save" /\ TaskExits(p) /\ OnlySave
  \/ service = "update" /\ NewRelease /\ OnlyUpdate
  \/ service = "update" /\ DayPasses /\ OnlyUpdate
  \/ service = "update" /\ ProcessEnds /\ OnlyUpdate
  \/ service = "update" /\ Start /\ OnlyUpdate
  \/ service = "update" /\ CheckBegins /\ OnlyUpdate
  \/ service = "update" /\ CheckEnds /\ OnlyUpdate
  \/ \E d \in Downloads : service = "update" /\ ClickUpdate(d) /\ OnlyUpdate
  \/ \E d \in Downloads : service = "update" /\ Refused(d) /\ OnlyUpdate
  \/ \E d \in Downloads : service = "update" /\ Begin(d) /\ OnlyUpdate
  \/ \E d \in Downloads : service = "update" /\ Create(d) /\ OnlyUpdate
  \/ \E d \in Downloads : service = "update" /\ Progress(d) /\ OnlyUpdate
  \/ \E d \in Downloads : service = "update" /\ Complete(d) /\ OnlyUpdate
  \/ \E d \in Downloads : service = "update" /\ Fail(d) /\ OnlyUpdate
  \/ \E d \in Downloads : service = "update" /\ Cancelled(d) /\ OnlyUpdate
  \/ service = "update" /\ ClickCancel /\ OnlyUpdate
  \/ service = "update" /\ ClickDismiss /\ OnlyUpdate
  \/ service = "update" /\ ClickRestart /\ OnlyUpdate
  \/ service = "update" /\ PollUpdateEvent /\ OnlyUpdate
  \/ service = "status" /\ SecondPasses /\ OnlyStatus
  \/ \E f \in HookFiles, s \in HookEvents : service = "status" /\ HookFires(f, s) /\ OnlyStatus
  \/ \E f \in HookFiles : service = "status" /\ HookWrites(f) /\ OnlyStatus
  \/ \E p \in BOOLEAN, sh \in Marks : service = "status" /\ Output(p, sh) /\ OnlyStatus
  \/ service = "status" /\ Calm /\ OnlyStatus
  \/ service = "status" /\ OutputApplied /\ OnlyStatus
  \/ service = "status" /\ MaintenanceCollects /\ OnlyStatus
  \/ service = "status" /\ MaintenanceApplies /\ OnlyStatus
  \/ service = "status" /\ ScanStarts /\ OnlyStatus
  \/ \E k \in Scanners : service = "status" /\ ScanApplies(k) /\ OnlyStatus
  \/ \E k \in Scanners, f \in HookFiles : service = "status" /\ ScanReads(k, f) /\ OnlyStatus
  \/ service = "status" /\ JsonlApplies /\ OnlyStatus
  \/ \E r \in {"Unknown", "Working", "NeedsAttention"} : service = "status" /\ JsonlReads(r) /\ OnlyStatus
  \/ service = "status" /\ Select /\ OnlyStatus
  \/ service = "status" /\ LoseFocus /\ OnlyStatus
  \/ service = "status" /\ Ages /\ OnlyStatus
  \/ service = "status" /\ Expires /\ OnlyStatus
  \/ \E c \in Calls, t \in Tasks : service = "verify" /\ StartPipeline(c, t) /\ OnlyVerify
  \/ \E c \in Calls, t \in Tasks : service = "verify" /\ SkipVerification(c, t) /\ OnlyVerify
  \/ \E c \in Calls : service = "verify" /\ UpdateStage(c) /\ OnlyVerify
  \/ \E c \in Calls : service = "verify" /\ Passes(c) /\ OnlyVerify
  \/ \E c \in Calls : service = "verify" /\ Fails(c) /\ OnlyVerify
  \/ \E c \in Calls : service = "verify" /\ Errs(c) /\ OnlyVerify
  \/ \E c \in Calls : service = "verify" /\ Summarises(c) /\ OnlyVerify
  \/ \E c \in Calls : service = "verify" /\ SummaryFails(c) /\ OnlyVerify
  \/ \E c \in Calls, t \in Tasks, d \in Decisions : service = "verify" /\ SubmitReview(c, t, d) /\ OnlyVerify
  \/ \E c \in Calls : service = "verify" /\ WriteDecision(c) /\ OnlyVerify
  \/ \E t \in Tasks : service = "verify" /\ CancelPipeline(t) /\ OnlyVerify
  \/ \E s \in LoopSessions, c \in Configs : service = "loop" /\ StartLoop(s, c) /\ OnlyLoop
  \/ \E s \in LoopSessions : service = "loop" /\ PauseLoop(s) /\ OnlyLoop
  \/ \E s \in LoopSessions : service = "loop" /\ ResumeLoop(s) /\ OnlyLoop
  \/ \E s \in LoopSessions : service = "loop" /\ StopLoop(s) /\ OnlyLoop
  \/ \E s \in LoopSessions : service = "loop" /\ Iterate(s) /\ OnlyLoop
  \/ \E s \in LoopSessions, passed \in BOOLEAN : service = "loop" /\ RecordIteration(s, passed) /\ OnlyLoop
  \/ service = "loop" /\ Cleanup /\ OnlyLoop
  \/ \E s \in Sessions : service \in {"bus", "compaction"} /\ CreateSession(s) /\ OnlyBus
  \/ \E s \in Sessions : service \in {"bus", "compaction"} /\ StartMonitoring(s) /\ OnlyBus
  \/ \E s \in Sessions : service \in {"bus", "compaction"} /\ StopMonitoring(s) /\ OnlyBus
  \/ \E s \in Sessions : service \in {"bus", "compaction"} /\ CloseSession(s) /\ OnlyBus
  \/ \E s \in Sessions : service \in {"bus", "compaction"} /\ RenameSession(s) /\ OnlyBus
  \/ \E s \in Sessions, st \in Found : service \in {"bus", "compaction"} /\ Detect(s, st) /\ OnlyBus
  \/ \E t \in BoardTasks, s \in Sessions : service = "bus" /\ AssignToSession(t, s) /\ OnlyBus
  \/ \E t \in BoardTasks : service = "bus" /\ Approve(t) /\ OnlyBus
  \/ service \in {"bus", "compaction"} /\ HandleEvent /\ OnlyBus
  \/ service = "bus" /\ SaveStateLists /\ OnlyBus
  \/ service = "bus" /\ SaveStateWrites /\ OnlyBus
  \/ \E w \in Waiters, s \in Sessions : service = "compaction" /\ BeginCompaction(w, s) /\ OnlyBus
  \/ \E w \in Waiters : service = "compaction" /\ SendCompact(w) /\ OnlyBus
  \/ \E w \in Waiters : service = "compaction" /\ Subscribe(w) /\ OnlyBus
  \/ \E w \in Waiters : service = "compaction" /\ Wait(w) /\ OnlyBus
  \/ \E w \in Waiters : service = "compaction" /\ TimeOut(w) /\ OnlyBus
  \/ \E w \in Waiters : service = "compaction" /\ EndCompaction(w) /\ OnlyBus
  \/ \E s \in Ids : service = "layout" /\ AddHere(s) /\ OnlyLayout
  \/ \E s \in Ids, mode \in {"grid", "split"}, p \in PaneNames : service = "layout" /\ AddThere(s, mode, p) /\ OnlyLayout
  \/ \E s \in Ids : service = "layout" /\ CloseOne(s) /\ OnlyLayout
  \/ \E s \in Ids : service = "layout" /\ SelectOne(s) /\ OnlyLayout
  \/ \E n \in PaneNames : service = "layout" /\ SelectNumber(n) /\ OnlyLayout
  \/ \E n \in Grids : service = "layout" /\ ChooseGrid(n) /\ OnlyLayout
  \/ service = "layout" /\ ChooseTree /\ OnlyLayout
  \/ service = "layout" /\ SplitFocused /\ OnlyLayout
  \/ service = "layout" /\ ClosePane /\ OnlyLayout
  \/ \E p \in PaneNames, s \in Ids : service = "layout" /\ ClickTab(p, s) /\ OnlyLayout
  \/ \E s \in Ids, p \in PaneNames : service = "layout" /\ DropOnHeader(s, p) /\ OnlyLayout
  \/ \E i, j \in PaneNames : service = "layout" /\ DropOnBody(i, j) /\ OnlyLayout

(* Nothing that is treated fairly is enabled in a machine that is not      *)
(* chosen: it is in its first state.                                       *)
Fairness == SaveFairness /\ StatusFairness /\ PipeFairness /\ LoopFairness /\ BusFairness

SafeSpec == Init /\ [][Next]_vars

Spec == SafeSpec /\ Fairness
=============================================================================
