------------------------------ MODULE AutoSave ------------------------------
(***************************************************************************)
(* The auto-save manager and the state file it writes: two background      *)
(* tasks, one on a timer and one on events of the bus, and the callers of  *)
(* save_now.  Each saver clones the managed state and then writes it in    *)
(* three file operations; nothing keeps the savers apart after the clone,  *)
(* and they share the name of the temporary file.                          *)
(*                                                                         *)
(* A version stands for a state.  A file is a name for an inode: a saver   *)
(* keeps the inode it has opened while the name moves on, so a handle says *)
(* which name its inode has now.                                           *)
(***************************************************************************)
EXTENDS Naturals

CONSTANTS
  Background,   \* the tasks start() spawns, of {"interval", "event"}
  Callers,      \* the callers of save_now
  MaxVersion,   \* bound on the number of updates
  DiskFaults    \* of {"write", "crash"}: what may go wrong

ASSUME SaveAssumption == MaxVersion \in Nat

Savers == Background \cup Callers
Versions == 0 .. MaxVersion
Torn == MaxVersion + 1       \* empty, half written or mixed: does not parse
Absent == MaxVersion + 2
Contents == Versions \cup {Torn, Absent}

VARIABLES
  managed,      \* the state in the manager
  stateFile,    \* content under the name state.json
  tempFile,     \* content under the name state.tmp
  saver,        \* of each saver: its step, its clone, the name of its inode
  stopping,     \* the tasks whose shutdown was signalled
  eventDue,     \* an event that asks for a save is in the task's receiver
  finals,       \* callers whose save began after stop, with no update since
  overlap,      \* history: two savers were between open and rename at once
  alive         \* the process runs

saveVars == <<managed, stateFile, tempFile, saver, stopping, eventDue, finals, overlap, alive>>

Steps == {"idle", "cloned", "opened", "written", "ended"}
AtRest == [step |-> "idle", clone |-> 0, name |-> "none"]
Busy(p) == saver[p].step \in {"opened", "written"}

SaveTypeOK ==
  /\ managed \in Versions
  /\ stateFile \in Contents
  /\ tempFile \in Contents
  /\ saver \in [Savers -> [step : Steps, clone : Versions, name : {"none", "temp", "state", "gone"}]]
  /\ stopping \subseteq Background
  /\ eventDue \in BOOLEAN
  /\ finals \subseteq Callers
  /\ overlap \in BOOLEAN
  /\ alive \in BOOLEAN

SaveInit ==
  /\ managed = 0
  /\ stateFile = Absent
  /\ tempFile = Absent
  /\ saver = [p \in Savers |-> AtRest]
  /\ stopping = {}
  /\ eventDue = FALSE
  /\ finals = {}
  /\ overlap = FALSE
  /\ alive = FALSE

(* update_state: the caller replaces the managed state.                    *)
UpdateState ==
  /\ alive /\ managed < MaxVersion
  /\ managed' = managed + 1
  /\ finals' = {}
  /\ UNCHANGED <<stateFile, tempFile, saver, stopping, eventDue, overlap, alive>>

(* An event for which should_save_on_event holds reaches the receiver, or  *)
(* is dropped from it because the task lags behind other events.           *)
EventArrives ==
  /\ alive /\ "event" \in Background
  /\ eventDue' = ~ eventDue
  /\ UNCHANGED <<managed, stateFile, tempFile, saver, stopping, finals, overlap, alive>>

(* stop: signals the tasks, which notice at their next select.             *)
Stop ==
  /\ alive
  /\ stopping' = Background
  /\ UNCHANGED <<managed, stateFile, tempFile, saver, eventDue, finals, overlap, alive>>

(* The beginning of a save: state.read().await.clone().  A tick of the     *)
(* interval, an event that is due, or a call of save_now.                  *)
Clone(p) ==
  /\ alive /\ saver[p].step = "idle"
  /\ p = "event" => eventDue
  /\ eventDue' = IF p = "event" THEN FALSE ELSE eventDue
  /\ saver' = [saver EXCEPT ![p].step = "cloned", ![p].clone = managed]
  /\ finals' = IF p \in Callers /\ stopping = Background THEN finals \cup {p} ELSE finals
  /\ UNCHANGED <<managed, stateFile, tempFile, stopping, overlap, alive>>

(* Mutant of Open: the state file itself is opened.                        *)
OpenInPlace(p) ==
  /\ alive /\ saver[p].step = "cloned"
  /\ saver' = [saver EXCEPT ![p].step = "opened", ![p].name = "state"]
  /\ stateFile' = Torn
  /\ overlap' = (overlap \/ \E q \in Savers \ {p} : Busy(q))
  /\ UNCHANGED <<managed, tempFile, stopping, eventDue, finals, alive>>

(* fs::write opens the temporary file and truncates it.                    *)
Open(p) ==
  /\ alive /\ saver[p].step = "cloned"
  /\ saver' = [saver EXCEPT ![p].step = "opened", ![p].name = "temp"]
  /\ tempFile' = Torn
  /\ overlap' = (overlap \/ \E q \in Savers \ {p} : Busy(q))
  /\ UNCHANGED <<managed, stateFile, stopping, eventDue, finals, alive>>

(* What a file holds after version v has been written over it from the     *)
(* start: what another saver wrote there may be longer.                    *)
Overwritten(old, v) == IF old \in {Torn, v} THEN {v} ELSE {v, Torn}

Write(p) ==
  /\ alive /\ saver[p].step = "opened"
  /\ saver' = [saver EXCEPT ![p].step = "written"]
  /\ IF saver[p].name = "temp" THEN tempFile' \in Overwritten(tempFile, saver[p].clone)
                               ELSE UNCHANGED tempFile
  /\ IF saver[p].name = "state" THEN stateFile' \in Overwritten(stateFile, saver[p].clone)
                                ELSE UNCHANGED stateFile
  /\ UNCHANGED <<managed, stopping, eventDue, finals, overlap, alive>>

(* Mutant of WriteFails: the task ends with its first failed write.        *)
WriteFailsForGood(p) ==
  /\ "write" \in DiskFaults
  /\ alive /\ saver[p].step = "opened"
  /\ saver' = [saver EXCEPT ![p] = [AtRest EXCEPT !.step = "ended"]]
  /\ finals' = finals \ {p}
  /\ UNCHANGED <<managed, stateFile, tempFile, stopping, eventDue, overlap, alive>>

(* fs::write fails with the file truncated; the save returns the error.    *)
WriteFails(p) ==
  /\ "write" \in DiskFaults
  /\ alive /\ saver[p].step = "opened"
  /\ saver' = [saver EXCEPT ![p] = AtRest]
  /\ finals' = finals \ {p}
  /\ UNCHANGED <<managed, stateFile, tempFile, stopping, eventDue, overlap, alive>>

(* fs::rename: the temporary file takes the place of the state file, with  *)
(* whatever it holds now.  The saver whose temporary file another one has  *)
(* renamed gets an error.                                                  *)
Rename(p) ==
  /\ alive /\ saver[p].step = "written"
  /\ IF tempFile = Absent
     THEN /\ saver' = [saver EXCEPT ![p] = AtRest]
          /\ finals' = finals \ {p}
          /\ UNCHANGED <<stateFile, tempFile>>
     ELSE /\ stateFile' = tempFile
          /\ tempFile' = Absent
          /\ saver' = [q \in Savers |->
               IF q = p THEN AtRest
               ELSE [saver[q] EXCEPT !.name = CASE @ = "temp" -> "state"
                                                [] @ = "state" -> "gone"
                                                [] OTHER -> @]]
          /\ UNCHANGED finals
  /\ UNCHANGED <<managed, stopping, eventDue, overlap, alive>>

(* Mutant of TaskExits: events come before the shutdown.                   *)
TaskExitsWhenQuiet(p) ==
  /\ alive /\ p \in stopping /\ saver[p].step = "idle" /\ ~ eventDue
  /\ saver' = [saver EXCEPT ![p].step = "ended"]
  /\ UNCHANGED <<managed, stateFile, tempFile, stopping, eventDue, finals, overlap, alive>>

(* A task leaves its loop when select takes the shutdown branch.           *)
TaskExits(p) ==
  /\ alive /\ p \in stopping /\ saver[p].step = "idle"
  /\ saver' = [saver EXCEPT ![p].step = "ended"]
  /\ UNCHANGED <<managed, stateFile, tempFile, stopping, eventDue, finals, overlap, alive>>

Crash ==
  /\ "crash" \in DiskFaults
  /\ alive /\ alive' = FALSE
  /\ saver' = [p \in Savers |-> AtRest]
  /\ UNCHANGED <<managed, stateFile, tempFile, stopping, eventDue, finals, overlap>>

(* A run of the program begins: with_initial_state of what load_state      *)
(* returns, and start.  A file that is missing or does not parse gives the *)
(* default state.                                                          *)
Restart ==
  /\ ~ alive /\ alive' = TRUE
  /\ managed' = IF stateFile \in Versions THEN stateFile ELSE 0
  /\ stopping' = {} /\ eventDue' = FALSE /\ finals' = {}
  /\ UNCHANGED <<stateFile, tempFile, saver, overlap>>

SaveStep(p) ==
  Clone(p) \/ Open(p) \/ Write(p) \/ WriteFails(p) \/ Rename(p)

SaveNext ==
  \/ UpdateState \/ EventArrives \/ Stop \/ Crash \/ Restart
  \/ \E p \in Savers : SaveStep(p)
  \/ \E p \in Background : TaskExits(p)

SaveSpec == SaveInit /\ [][SaveNext]_saveVars

(* The runtime goes on with a task whose next step is ready.  A write that *)
(* is tried again and again succeeds in the end, and select, which chooses *)
(* at random among the branches that are ready, in the end takes the       *)
(* shutdown branch.  Nothing is assumed of the callers and of the bus.     *)
SaveFairness ==
  /\ \A p \in Background :
       /\ WF_saveVars(Clone(p) \/ Open(p) \/ Rename(p))
       /\ WF_saveVars(Write(p) \/ WriteFails(p))
       /\ SF_saveVars(TaskExits(p))
  /\ \A p \in Background \cap {"interval"} : SF_saveVars(Write(p))

(***************************************************************************)
(* Properties.                                                             *)
(***************************************************************************)

(* The write to a temporary file and the rename (save_state) keep the      *)
(* state file whole through failed writes and crashes at any point, as     *)
(* long as no two saves overlap.                                           *)
TornOnlyByOverlap == stateFile = Torn => overlap

(* While the interval task runs, a state that stays the managed one gets   *)
(* into the state file, whatever events are lost and after any failed      *)
(* write or stale save, unless saves overlap.                              *)
ManagedStateIsSaved ==
  \A v \in Versions :
    (alive /\ "interval" \in Background \ stopping /\ managed = v)
      ~> (~ alive \/ "interval" \in stopping \/ managed # v \/ stateFile = v \/ overlap)

(* stop ends both tasks, also when it comes in the middle of a save or     *)
(* while events keep coming.                                               *)
StopEndsTheTasks ==
  \A p \in Background :
    (alive /\ p \in stopping) ~> (~ alive \/ saver[p].step = "ended")

(* "After calling this [stop], you should call save_now() if you want to   *)
(* ensure the final state is persisted": once a save_now that began after  *)
(* stop has returned Ok and the tasks have ended, the file holds the final *)
(* state.  A task that cloned before the last update may write after it.   *)
FinalSaveLasts ==
  (/\ alive /\ finals # {} /\ overlap = FALSE
   /\ \A p \in finals : saver[p].step = "idle"
   /\ \A p \in Background : saver[p].step = "ended")
  => stateFile = managed
=============================================================================
