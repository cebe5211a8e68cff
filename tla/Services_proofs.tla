---------------------------- MODULE Services_proofs ----------------------------
(***************************************************************************)
(* The services beside the sessions.  What survives a run of the program:  *)
(* the state file that the savers write and the update that a later start  *)
(* finds, for any number of savers, downloads and releases, wherever a run *)
(* ends.  And what checks the work on a task: the Ralph loop, which        *)
(* repeats a task until its verification passes, and the verification      *)
(* pipeline, for any number of sessions, tasks and calls.  At the end the  *)
(* services are put together, with those of the sessions and the layout,   *)
(* as they are checked.                                                    *)
(***************************************************************************)
EXTENDS MC_Services, Layout_proofs, Sessions_proofs

(***************************************************************************)
(* The state file stays whole unless two saves overlap, whatever writes    *)
(* fail.  The argument follows the one save that is between its open and   *)
(* its rename: the temporary file is its own.                              *)
(***************************************************************************)

(* What a saver between open and rename may rely on.                       *)
HoldsTemp(p) ==
  /\ Busy(p) => saver[p].name = "temp"
  /\ saver[p].step = "opened" => tempFile = Torn
  /\ saver[p].step = "written" => tempFile = saver[p].clone

SaversApart ==
  ~ overlap =>
    /\ \A p, q \in Savers : Busy(p) /\ Busy(q) => p = q
    /\ \A p \in Savers : HoldsTemp(p)
    /\ stateFile # Torn

SaveInv == SaveTypeOK /\ SaversApart

Saver == [step : Steps, clone : Versions, name : {"none", "temp", "state", "gone"}]

LEMMA TornIsNoVersion == Torn \notin Versions /\ Absent \notin Versions /\ Torn # Absent
BY SaveAssumption DEF Torn, Absent, Versions

LEMMA RestIsNotBusy == AtRest \in Saver /\ AtRest.step = "idle" /\ 0 \in Versions
BY SaveAssumption DEF AtRest, Saver, Steps, Versions

LEMMA SaveInvInit == SaveInit => SaveInv
<1> SUFFICES ASSUME SaveInit PROVE SaveInv
  OBVIOUS
<1>1. SaveTypeOK
  BY RestIsNotBusy DEF SaveInit, SaveTypeOK, Contents, Saver
<1>2. SaversApart
  BY RestIsNotBusy, TornIsNoVersion DEF SaveInit, SaversApart, HoldsTemp, Busy
<1> QED BY <1>1, <1>2 DEF SaveInv

LEMMA SaveTypeStep == SaveTypeOK /\ [SaveNext]_saveVars => SaveTypeOK'
<1> SUFFICES ASSUME SaveTypeOK, [SaveNext]_saveVars PROVE SaveTypeOK'
  OBVIOUS
<1> USE DEF SaveTypeOK
<1>1. CASE UpdateState
  BY <1>1, SaveAssumption DEF UpdateState, Versions
<1>2. CASE EventArrives \/ Stop
  BY <1>2 DEF EventArrives, Stop
<1>3. CASE Crash
  BY <1>3, RestIsNotBusy DEF Crash, Saver
<1>4. CASE Restart
  BY <1>4, RestIsNotBusy DEF Restart
<1>5. ASSUME NEW p \in Savers, Clone(p) PROVE SaveTypeOK'
  <2>1. [saver[p] EXCEPT !.step = "cloned", !.clone = managed] \in Saver
    BY DEF Saver, Steps
  <2> QED BY <1>5, <2>1 DEF Clone, Saver
<1>6. ASSUME NEW p \in Savers, Open(p) PROVE SaveTypeOK'
  <2>1. [saver[p] EXCEPT !.step = "opened", !.name = "temp"] \in Saver
    BY DEF Saver, Steps
  <2>2. overlap' \in BOOLEAN
    BY <1>6 DEF Open
  <2> QED BY <1>6, <2>1, <2>2 DEF Open, Saver, Contents
<1>7. ASSUME NEW p \in Savers, Write(p) PROVE SaveTypeOK'
  <2>1. [saver[p] EXCEPT !.step = "written"] \in Saver
    BY DEF Saver, Steps
  <2>2. \A old : Overwritten(old, saver[p].clone) \subseteq Contents
    BY DEF Overwritten, Contents, Saver
  <2> QED BY <1>7, <2>1, <2>2 DEF Write, Saver
<1>8. ASSUME NEW p \in Savers, WriteFails(p) PROVE SaveTypeOK'
  BY <1>8, RestIsNotBusy DEF WriteFails, Saver
<1>9. ASSUME NEW p \in Savers, Rename(p) PROVE SaveTypeOK'
  <2>1. /\ stateFile' \in Contents /\ tempFile' \in Contents /\ finals' \subseteq Callers
        /\ managed' = managed /\ stopping' = stopping /\ eventDue' = eventDue
        /\ overlap' = overlap /\ alive' = alive
    BY <1>9 DEF Rename, Contents
  <2>2. saver' \in [Savers -> Saver]
    <3>1. CASE tempFile = Absent
      BY <1>9, <3>1, RestIsNotBusy DEF Rename, Saver
    <3>2. CASE tempFile # Absent
      <4> DEFINE moved(n) == CASE n = "temp" -> "state" [] n = "state" -> "gone" [] OTHER -> n
      <4>1. \A q \in Savers : [saver[q] EXCEPT !.name = moved(@)] \in Saver
        BY DEF Saver
      <4>2. saver' = [q \in Savers |-> IF q = p THEN AtRest ELSE [saver[q] EXCEPT !.name = moved(@)]]
        BY <1>9, <3>2 DEF Rename
      <4> HIDE DEF moved
      <4> QED BY <4>1, <4>2, RestIsNotBusy
    <3> QED BY <3>1, <3>2
  <2> QED BY <2>1, <2>2 DEF Saver
<1>10. ASSUME NEW p \in Background, TaskExits(p) PROVE SaveTypeOK'
  <2>1. p \in Savers /\ [saver[p] EXCEPT !.step = "ended"] \in Saver
    BY DEF Saver, Steps, Savers
  <2> QED BY <1>10, <2>1 DEF TaskExits, Saver
<1>11. CASE UNCHANGED saveVars
  BY <1>11 DEF saveVars
<1> QED BY <1>1, <1>2, <1>3, <1>4, <1>5, <1>6, <1>7, <1>8, <1>9, <1>10, <1>11 DEF SaveNext, SaveStep

(* A step after which fewer savers are busy, with the files as they were.  *)
LEMMA FewerBusy ==
  ASSUME SaversApart, tempFile' = tempFile, stateFile' = stateFile, overlap' = overlap,
         \A p \in Savers : saver'[p].step \in {"opened", "written"} => saver'[p] = saver[p]
  PROVE  SaversApart'
<1>1. ASSUME NEW p \in Savers, Busy(p)' PROVE Busy(p) /\ saver'[p] = saver[p]
  BY <1>1 DEF Busy
<1>2. ASSUME NEW p \in Savers, HoldsTemp(p) PROVE HoldsTemp(p)'
  BY <1>2 DEF HoldsTemp, Busy
<1> QED BY <1>1, <1>2 DEF SaversApart

LEMMA ApartStep == SaveInv /\ [SaveNext]_saveVars => SaversApart'
<1> SUFFICES ASSUME SaveInv, [SaveNext]_saveVars PROVE SaversApart'
  OBVIOUS
<1>0. SaversApart /\ saver \in [Savers -> Saver]
  BY DEF SaveInv, SaveTypeOK, Saver
<1>1. CASE UpdateState \/ EventArrives \/ Stop \/ Restart \/ UNCHANGED saveVars
  BY <1>0, <1>1, FewerBusy DEF UpdateState, EventArrives, Stop, Restart, saveVars
<1>2. CASE Crash
  BY <1>0, <1>2, FewerBusy, RestIsNotBusy DEF Crash
<1>3. ASSUME NEW p \in Savers, Clone(p) PROVE SaversApart'
  BY <1>0, <1>3, FewerBusy DEF Clone, Saver
<1>4. ASSUME NEW p \in Savers, WriteFails(p) PROVE SaversApart'
  BY <1>0, <1>4, FewerBusy, RestIsNotBusy DEF WriteFails
<1>5. ASSUME NEW p \in Background, TaskExits(p) PROVE SaversApart'
  BY <1>0, <1>5, FewerBusy DEF TaskExits, Saver
<1>6. ASSUME NEW p \in Savers, Open(p) PROVE SaversApart'
  <2> SUFFICES ASSUME ~ overlap'
               PROVE  /\ \A q, r \in Savers : Busy(q)' /\ Busy(r)' => q = r
                      /\ \A q \in Savers : HoldsTemp(q)'
                      /\ stateFile' # Torn
    BY DEF SaversApart
  <2>1. ~ overlap /\ \A q \in Savers \ {p} : ~ Busy(q)
    BY <1>6 DEF Open
  <2>2. /\ saver'[p].step = "opened" /\ saver'[p].name = "temp"
        /\ \A q \in Savers \ {p} : saver'[q] = saver[q]
        /\ tempFile' = Torn /\ stateFile' = stateFile
    BY <1>0, <1>6 DEF Open, Saver
  <2>3. \A q \in Savers : Busy(q)' => q = p
    BY <2>1, <2>2 DEF Busy
  <2>4. ASSUME NEW q \in Savers PROVE HoldsTemp(q)'
    BY <2>2, <2>3 DEF HoldsTemp, Busy
  <2> QED BY <1>0, <2>1, <2>2, <2>3, <2>4 DEF SaversApart
<1>7. ASSUME NEW p \in Savers, Write(p) PROVE SaversApart'
  <2> SUFFICES ASSUME ~ overlap'
               PROVE  /\ \A q, r \in Savers : Busy(q)' /\ Busy(r)' => q = r
                      /\ \A q \in Savers : HoldsTemp(q)'
                      /\ stateFile' # Torn
    BY DEF SaversApart
  <2>1. ~ overlap /\ saver[p].step = "opened" /\ saver[p].name = "temp" /\ tempFile = Torn
    BY <1>0, <1>7 DEF Write, SaversApart, HoldsTemp, Busy
  <2>2. \A q \in Savers \ {p} : ~ Busy(q)
    BY <1>0, <2>1 DEF SaversApart, Busy
  <2>3. /\ saver'[p].step = "written" /\ saver'[p].name = "temp" /\ saver'[p].clone = saver[p].clone
        /\ \A q \in Savers \ {p} : saver'[q] = saver[q]
    BY <1>0, <1>7, <2>1 DEF Write, Saver
  <2>4. tempFile' = saver[p].clone /\ stateFile' = stateFile
    BY <1>7, <2>1 DEF Write, Overwritten
  <2>5. \A q \in Savers : Busy(q)' => q = p
    BY <2>2, <2>3 DEF Busy
  <2>6. ASSUME NEW q \in Savers PROVE HoldsTemp(q)'
    BY <2>3, <2>4, <2>5 DEF HoldsTemp, Busy
  <2> QED BY <1>0, <2>1, <2>4, <2>5, <2>6 DEF SaversApart
<1>8. ASSUME NEW p \in Savers, Rename(p) PROVE SaversApart'
  <2> SUFFICES ASSUME ~ overlap'
               PROVE  /\ \A q, r \in Savers : Busy(q)' /\ Busy(r)' => q = r
                      /\ \A q \in Savers : HoldsTemp(q)'
                      /\ stateFile' # Torn
    BY DEF SaversApart
  <2>1. ~ overlap /\ saver[p].step = "written" /\ tempFile = saver[p].clone
    BY <1>0, <1>8 DEF Rename, SaversApart, HoldsTemp
  <2>2. tempFile \in Versions
    BY <1>0, <2>1 DEF Saver
  <2>3. stateFile' = tempFile /\ saver'[p] = AtRest
    BY <1>8, <2>2, TornIsNoVersion DEF Rename
  <2>4. ASSUME NEW q \in Savers \ {p} PROVE saver'[q].step = saver[q].step
    BY <1>0, <1>8, <2>2, TornIsNoVersion DEF Rename, Saver
  <2>5. ASSUME NEW q \in Savers PROVE ~ Busy(q)'
    <3>1. CASE q = p
      BY <2>3, <3>1, RestIsNotBusy DEF Busy
    <3>2. CASE q # p
      BY <1>0, <2>1, <2>4, <3>2 DEF Busy, SaversApart
    <3> QED BY <3>1, <3>2
  <2> QED BY <2>2, <2>3, <2>5, TornIsNoVersion DEF HoldsTemp, Busy
<1> QED BY <1>1, <1>2, <1>3, <1>4, <1>5, <1>6, <1>7, <1>8 DEF SaveNext, SaveStep

(* As long as no two saves are between open and rename at once, the file   *)
(* under the name state.json parses or is missing: writing to a temporary  *)
(* file and renaming it (save_state) is safe against failed writes and the *)
(* end of the process at every point.                                      *)
THEOREM SavedStateIsWhole == SaveSpec => []TornOnlyByOverlap
<1>1. SaveInv => TornOnlyByOverlap
  BY DEF SaveInv, SaveTypeOK, SaversApart, TornOnlyByOverlap
<1>2. SaveInv /\ [SaveNext]_saveVars => SaveInv'
  BY SaveTypeStep, ApartStep DEF SaveInv
<1> QED BY <1>1, <1>2, SaveInvInit, PTL DEF SaveSpec

(* The types of the savers and of the files, for every number of updates.  *)
THEOREM SaveTypes == SaveSpec => []SaveTypeOK
<1>1. SaveInit => SaveTypeOK
  BY SaveInvInit DEF SaveInv
<1> QED BY <1>1, SaveTypeStep, PTL DEF SaveSpec

(***************************************************************************)
(* The updater.  What it keeps in its state file and what it shows agree   *)
(* on the version that waits for the restart; and the helper is handed a   *)
(* whole artifact as long as Update is clicked only while an update is     *)
(* available and no download is under way.  For that the second half       *)
(* follows the one download there is then (OneDownload): while an update   *)
(* is staged there is none, so nothing writes the artifact once the helper *)
(* has it.                                                                 *)
(***************************************************************************)

Versioned == Releases \cup {NoVersion}
UpdKinds == {"Idle", "Checking", "UpdateAvailable", "Downloading", "Staged", "Applying"}
DownloadTasks == [step : {"none", "queued", "checksums", "fetching"}, ver : Versioned,
                  cancelled : BOOLEAN, file : {"none", "own", "shared", "unlinked"}]
SavedStates == [known : Versioned, available : Versioned, staged : Versioned, recent : BOOLEAN]
Toasts == [info : Versioned, dismissed : BOOLEAN, progress : BOOLEAN, staged : Versioned]

UpdTypes ==
  /\ release \in Releases /\ current \in Releases
  /\ up \in BOOLEAN /\ stray \in BOOLEAN /\ lapse \in BOOLEAN
  /\ upd \in [kind : UpdKinds, ver : Versioned]
  /\ check \in {"off", "waiting", "due", "asking"}
  /\ dl \in [Downloads -> DownloadTasks]
  /\ token \in Downloads \cup {NoDownload}
  /\ saved \in SavedStates
  /\ artifact \in [Releases -> {"absent", "partial", "good"}]
  /\ helper \in Versioned
  /\ toast \in Toasts
  /\ events \in Seq(UpdateEvents) /\ Len(events) <= UpdateCap

(* Nothing of a process that has ended is left but its files.              *)
Down ==
  ~ up => /\ toast = NoToast /\ upd = State("Idle", NoVersion) /\ check = "off"
          /\ events = << >> /\ helper = NoVersion
          /\ \A d \in Downloads : dl[d] = NoTask

(* A version that is offered, downloaded or staged is a release.           *)
OnlyReleases ==
  /\ upd.kind \in {"UpdateAvailable", "Staged"} => upd.ver # NoVersion
  /\ \A d \in Downloads : dl[d].step \in {"checksums", "fetching"} => dl[d].ver # NoVersion

(***************************************************************************)
(* Helpers.                                                                *)
(***************************************************************************)

LEMMA Releasing ==
  /\ Releases \subseteq Nat /\ 1 \in Releases
  /\ \A v \in Versioned : v \in Nat /\ (v # NoVersion => v \in Releases)
  /\ NoVersion \in Versioned /\ \A v \in Releases : v \in Versioned /\ v # NoVersion
BY UpdaterAssumption DEF UpdaterAssumption, Versioned, Releases, NoVersion

LEMMA Resting ==
  /\ NoTask \in DownloadTasks /\ NoTask.step = "none"
  /\ NoToast \in Toasts /\ NoToast.staged = NoVersion /\ NoToast.info = NoVersion
  /\ \A k \in UpdKinds, v \in Versioned :
       /\ State(k, v) \in [kind : UpdKinds, ver : Versioned]
       /\ State(k, v).kind = k /\ State(k, v).ver = v
BY Releasing DEF NoTask, DownloadTasks, NoToast, Toasts, State

(* What a receiver holds stays within its capacity.                        *)
LEMMA PublishedFits ==
  ASSUME NEW q \in Seq(UpdateEvents), Len(q) <= UpdateCap, NEW e \in UpdateEvents
  PROVE  Published(q, e) \in Seq(UpdateEvents) /\ Len(Published(q, e)) <= UpdateCap
<1>0. UpdateCap \in Nat /\ UpdateCap > 0
  BY UpdaterAssumption DEF UpdaterAssumption
<1>1. CASE Len(q) = UpdateCap
  <2>1. q # << >> BY <1>0, <1>1
  <2>2. Tail(q) \in Seq(UpdateEvents) /\ Len(Tail(q)) = Len(q) - 1 BY <2>1
  <2>3. Append(Tail(q), e) \in Seq(UpdateEvents) /\ Len(Append(Tail(q), e)) = Len(Tail(q)) + 1
    BY <2>2
  <2>4. Published(q, e) \in {q, Append(Tail(q), e)} BY <1>1 DEF Published
  <2> QED BY <1>0, <1>1, <2>2, <2>3, <2>4
<1>2. CASE Len(q) # UpdateCap
  <2>1. Append(q, e) \in Seq(UpdateEvents) /\ Len(Append(q, e)) = Len(q) + 1 OBVIOUS
  <2>2. Published(q, e) \in {q, Append(q, e)} BY <1>2 DEF Published
  <2> QED BY <1>0, <1>2, <2>1, <2>2
<1> QED BY <1>1, <1>2

LEMMA PublishedTwice ==
  ASSUME NEW q \in Seq(UpdateEvents), Len(q) <= UpdateCap,
         NEW e \in UpdateEvents, NEW f \in UpdateEvents
  PROVE  /\ Published(Published(q, e), f) \in Seq(UpdateEvents)
         /\ Len(Published(Published(q, e), f)) <= UpdateCap
BY PublishedFits

(* What is loaded, readable or not, and what the steps of a start make of  *)
(* it.                                                                     *)
LEMMA LoadedIsState == UpdTypes => \A readable \in BOOLEAN : Loaded(readable) \in SavedStates
BY Releasing DEF UpdTypes, Loaded, NothingSaved, SavedStates

LEMMA ReconciledKeeps ==
  ASSUME UpdTypes, NEW s \in SavedStates
  PROVE  /\ Known(s) \in SavedStates /\ ReconciledState(s) \in SavedStates
         /\ Cleaned(s) \in [Releases -> {"absent", "partial", "good"}]
<1>1. current \in Versioned
  BY Releasing DEF UpdTypes
<1>2. Known(s) \in SavedStates
  BY <1>1, Releasing DEF SavedStates, Known
<1>3. [Known(s) EXCEPT !.staged = NoVersion] \in SavedStates
  BY <1>2, Releasing DEF SavedStates
<1>4. Cleaned(s) \in [Releases -> {"absent", "partial", "good"}]
  BY DEF UpdTypes, Cleaned
<1> QED BY <1>2, <1>3, <1>4 DEF ReconciledState

LEMMA ResumedIsState ==
  ASSUME UpdTypes, NEW s \in SavedStates, Resume(s)
  PROVE  /\ saved' \in SavedStates
         /\ artifact' \in [Releases -> {"absent", "partial", "good"}]
         /\ events' \in Seq(UpdateEvents) /\ Len(events') <= UpdateCap
         /\ \/ upd' = upd \/ upd' = State("Checking", NoVersion)
            \/ \E v \in Versioned : v # NoVersion /\ upd' = State("UpdateAvailable", v)
<1> DEFINE kept == ReconciledState(s)
           unapplied == [kept EXCEPT !.staged = IF @ > current THEN NoVersion ELSE @]
           restored == [unapplied EXCEPT !.available = IF @ > current THEN @ ELSE NoVersion]
<1>1. kept \in SavedStates /\ Known(s) \in SavedStates
      /\ Cleaned(s) \in [Releases -> {"absent", "partial", "good"}]
  BY ReconciledKeeps
<1>2. unapplied \in SavedStates
  <2> HIDE DEF kept
  <2> QED BY <1>1, Releasing DEF SavedStates
<1>3. restored \in SavedStates
  <2> HIDE DEF unapplied
  <2> QED BY <1>2, Releasing DEF SavedStates
<1>4. restored.available \in Versioned
  BY <1>3 DEF SavedStates
<1>5. /\ saved' \in {saved, Known(s), kept, unapplied, restored}
      /\ artifact' = [v \in Releases |-> IF v = kept.staged /\ v > current THEN "absent" ELSE Cleaned(s)[v]]
      /\ upd' = IF ~ s.recent THEN State("Checking", NoVersion)
                ELSE IF restored.available # NoVersion THEN State("UpdateAvailable", restored.available) ELSE upd
      /\ events' = IF restored.available # NoVersion THEN Published(events, "available") ELSE events
  BY Zenon DEF Resume
<1> HIDE DEF kept, unapplied, restored
<1>6. saved' \in SavedStates
  BY <1>1, <1>2, <1>3, <1>5 DEF UpdTypes
<1>7. artifact' \in [Releases -> {"absent", "partial", "good"}]
  BY <1>1, <1>5
<1>8. events' \in Seq(UpdateEvents) /\ Len(events') <= UpdateCap
  BY <1>5, PublishedFits DEF UpdTypes, UpdateEvents
<1> QED BY <1>4, <1>5, <1>6, <1>7, <1>8

(* A download that is complete is staged, or offered again.                *)
StagesOrOffers(v) ==
  \/ /\ upd' = State("Staged", v)
     /\ \E readable \in BOOLEAN, written \in BOOLEAN :
          /\ saved' = IF written THEN [Loaded(readable) EXCEPT !.available = NoVersion, !.staged = v]
                      ELSE saved
          /\ lapse' = ~ written
  \/ upd' = State("UpdateAvailable", v) /\ UNCHANGED <<saved, lapse>>

LEMMA CompletedDownload ==
  ASSUME NEW d \in Downloads, Complete(d)
  PROVE  StagesOrOffers(dl[d].ver)
<1> DEFINE v == dl[d].ver
           staging == \E readable \in BOOLEAN, written \in BOOLEAN :
                        /\ saved' = IF written THEN [Loaded(readable) EXCEPT !.available = NoVersion, !.staged = v]
                                    ELSE saved
                        /\ lapse' = ~ written
<1>1. PICK content : IF Verifies(content)
                     THEN /\ artifact' = [artifact EXCEPT ![v] = content]
                          /\ staging
                          /\ upd' = State("Staged", v)
                          /\ events' = Published(Published(events, "progress"), "ready")
                     ELSE /\ artifact' = [artifact EXCEPT ![v] = "absent"]
                          /\ upd' = State("UpdateAvailable", v)
                          /\ events' = Published(Published(events, "progress"), "failed")
                          /\ UNCHANGED <<saved, lapse>>
  BY Zenon DEF Complete
<1>2. CASE Verifies(content)
  BY <1>1, <1>2, Zenon DEF StagesOrOffers
<1>3. CASE ~ Verifies(content)
  BY <1>1, <1>3, Zenon DEF StagesOrOffers
<1> QED BY <1>2, <1>3

(***************************************************************************)
(* Types.                                                                  *)
(***************************************************************************)

LEMMA UpdTypesInit == UpdInit => UpdTypes /\ Down /\ OnlyReleases /\ ReadyIsRecorded
<1> SUFFICES ASSUME UpdInit PROVE UpdTypes /\ Down /\ OnlyReleases /\ ReadyIsRecorded
  OBVIOUS
<1>0. << >> \in Seq(UpdateEvents) /\ Len(<< >>) = 0 /\ UpdateCap \in Nat
  BY UpdaterAssumption DEF UpdaterAssumption
<1>1. UpdTypes
  <2>1. "Idle" \in UpdKinds BY DEF UpdKinds
  <2>2. upd \in [kind : UpdKinds, ver : Versioned] BY <2>1, Releasing, Resting DEF UpdInit
  <2>3. /\ events \in Seq(UpdateEvents) /\ Len(events) <= UpdateCap
    BY <1>0, UpdaterAssumption DEF UpdInit, UpdaterAssumption
  <2>4. saved \in SavedStates BY Releasing DEF UpdInit, SavedStates, NothingSaved
  <2>5. dl \in [Downloads -> DownloadTasks] /\ toast \in Toasts BY Resting DEF UpdInit
  <2> QED BY <2>2, <2>3, <2>4, <2>5, Releasing DEF UpdInit, UpdTypes
<1>2. Down /\ OnlyReleases /\ ReadyIsRecorded
  BY Releasing, Resting DEF UpdInit, Down, OnlyReleases, ReadyIsRecorded, UpdKinds
<1> QED BY <1>1, <1>2

LEMMA UpdTypesStep == UpdTypes /\ OnlyReleases /\ [UpdNext]_updVars => UpdTypes'
<1> SUFFICES ASSUME UpdTypes, OnlyReleases, [UpdNext]_updVars PROVE UpdTypes'
  OBVIOUS
<1> USE DEF UpdTypes
<1>0. /\ upd.kind \in UpdKinds /\ upd.ver \in Versioned
      /\ \A d \in Downloads : dl[d] \in DownloadTasks
      /\ \A k \in UpdKinds, v \in Versioned : State(k, v) \in [kind : UpdKinds, ver : Versioned]
      /\ {"Idle", "Checking", "UpdateAvailable", "Downloading", "Staged", "Applying"} \subseteq UpdKinds
  BY Resting DEF UpdKinds
<1>1. CASE NewRelease
  BY <1>1, UpdaterAssumption DEF NewRelease, Releases, UpdaterAssumption
<1>2. CASE DayPasses
  <2>1. [saved EXCEPT !.recent = FALSE] \in SavedStates BY DEF SavedStates
  <2> QED BY <1>2, <2>1 DEF DayPasses
<1>3. CASE ProcessEnds
  <2>1. current' \in Releases BY <1>3, Releasing DEF ProcessEnds
  <2>2. << >> \in Seq(UpdateEvents) /\ Len(<< >>) <= UpdateCap
    BY UpdaterAssumption DEF UpdaterAssumption
  <2> QED BY <1>0, <1>3, <2>1, <2>2, Resting, Releasing DEF ProcessEnds
<1>4. CASE Start
  <2>1. PICK readable \in BOOLEAN : AutoApply(Loaded(readable)) \/ Resume(Loaded(readable))
    BY <1>4 DEF Start
  <2> DEFINE s == Loaded(readable)
  <2>2. s \in SavedStates
    BY LoadedIsState
  <2> HIDE DEF s
  <2>3. /\ ReconciledState(s) \in SavedStates /\ Known(s) \in SavedStates
        /\ ReconciledState(s).staged \in Versioned
    BY <2>2, ReconciledKeeps DEF SavedStates
  <2>4. CASE AutoApply(s)
    <3>1. events' \in Seq(UpdateEvents) /\ Len(events') <= UpdateCap
      BY <2>4, PublishedFits DEF AutoApply, UpdateEvents
    <3> QED BY <1>0, <1>4, <2>3, <2>4, <3>1, Releasing DEF Start, AutoApply
  <2>5. CASE Resume(s)
    <3>1. /\ saved' \in SavedStates
          /\ artifact' \in [Releases -> {"absent", "partial", "good"}]
          /\ events' \in Seq(UpdateEvents) /\ Len(events') <= UpdateCap
          /\ \/ upd' = upd \/ upd' = State("Checking", NoVersion)
             \/ \E v \in Versioned : v # NoVersion /\ upd' = State("UpdateAvailable", v)
      BY <2>2, <2>5, ResumedIsState
    <3>2. upd' \in [kind : UpdKinds, ver : Versioned]
      BY <1>0, <3>1, Releasing
    <3>3. check' \in {"waiting", "asking"} /\ helper' = helper
      BY <2>5 DEF Resume
    <3> QED BY <1>4, <3>1, <3>2, <3>3 DEF Start
  <2> QED BY <2>1, <2>4, <2>5 DEF s
<1>5. CASE CheckBegins
  BY <1>0, <1>5, Releasing DEF CheckBegins
<1>6. CASE CheckEnds
  <2>1. events' \in Seq(UpdateEvents) /\ Len(events') <= UpdateCap
    BY <1>6, PublishedFits DEF CheckEnds, UpdateEvents
  <2>2. saved' \in SavedStates /\ lapse' \in BOOLEAN
    <3>1. ASSUME NEW readable \in BOOLEAN, NEW found \in Releases \cup {NoVersion}
          PROVE  [Loaded(readable) EXCEPT !.available = found, !.recent = TRUE] \in SavedStates
      <4>1. Loaded(readable) \in SavedStates /\ found \in Versioned BY LoadedIsState DEF Versioned
      <4> QED BY <4>1 DEF SavedStates
    <3> QED BY <1>6, <3>1 DEF CheckEnds
  <2>3. upd' \in [kind : UpdKinds, ver : Versioned]
    BY <1>0, <1>6, Releasing DEF CheckEnds
  <2> QED BY <1>6, <2>1, <2>2, <2>3 DEF CheckEnds
<1>7. ASSUME NEW d \in Downloads, DownloadStep(d) PROVE UpdTypes'
  <2>0. dl[d] \in DownloadTasks /\ dl[d].ver \in Versioned
    BY <1>0 DEF DownloadTasks
  <2>1. CASE ClickUpdate(d)
    <3>1. [NoTask EXCEPT !.step = "queued"] \in DownloadTasks
      BY Resting DEF DownloadTasks
    <3>2. dl' \in [Downloads -> DownloadTasks] BY <2>1, <3>1 DEF ClickUpdate, StartDownload
    <3>3. stray' \in BOOLEAN BY <2>1 DEF ClickUpdate, StartDownload
    <3>4. token' = d BY <2>1 DEF ClickUpdate, StartDownload
    <3> QED BY <2>1, <3>2, <3>3, <3>4 DEF ClickUpdate
  <2>2. CASE Refused(d)
    BY <2>2, Resting DEF Refused
  <2>3. CASE Begin(d)
    <3>1. [dl[d] EXCEPT !.step = "checksums", !.ver = upd.ver] \in DownloadTasks
      BY <1>0, <2>0 DEF DownloadTasks
    <3>2. \A e \in Downloads : [dl[e] EXCEPT !.file = "unlinked"] \in DownloadTasks
      BY <1>0 DEF DownloadTasks
    <3>3. dl' \in [Downloads -> DownloadTasks] BY <1>0, <2>3, <3>1, <3>2 DEF Begin
    <3> QED BY <1>0, <2>3, <3>3, Releasing DEF Begin
  <2>4. CASE Create(d)
    <3>1. [dl[d] EXCEPT !.step = "fetching", !.file = "own"] \in DownloadTasks
      BY <2>0 DEF DownloadTasks
    <3>2. \A e \in Downloads : [dl[e] EXCEPT !.file = "shared"] \in DownloadTasks
      BY <1>0 DEF DownloadTasks
    <3>3. dl' \in [Downloads -> DownloadTasks] BY <1>0, <2>4, <3>1, <3>2 DEF Create
    <3> QED BY <2>4, <3>3 DEF Create
  <2>5. CASE Progress(d)
    <3>1. events' \in Seq(UpdateEvents) /\ Len(events') <= UpdateCap
      BY <2>5, PublishedFits DEF Progress, UpdateEvents
    <3> QED BY <1>0, <2>5, <3>1, Releasing DEF Progress
  <2>6. CASE Complete(d)
    <3>1. dl' \in [Downloads -> DownloadTasks]
      BY <2>6, Resting DEF Complete
    <3>2. dl[d].ver \in Releases
      BY <2>0, <2>6, Releasing DEF Complete, OnlyReleases
    <3>3. events' \in Seq(UpdateEvents) /\ Len(events') <= UpdateCap
      BY <2>6, PublishedTwice DEF Complete, UpdateEvents
    <3>4. artifact' \in [Releases -> {"absent", "partial", "good"}]
      BY <2>6, <3>2 DEF Complete
    <3>5. saved' \in SavedStates /\ lapse' \in BOOLEAN
      <4>1. ASSUME NEW readable \in BOOLEAN
            PROVE  [Loaded(readable) EXCEPT !.available = NoVersion, !.staged = dl[d].ver] \in SavedStates
        <5>1. Loaded(readable) \in SavedStates BY LoadedIsState
        <5> QED BY <2>0, <5>1, Releasing DEF SavedStates
      <4> QED BY <2>6, <4>1, CompletedDownload DEF StagesOrOffers
    <3>6. upd' \in [kind : UpdKinds, ver : Versioned]
      <4>1. StagesOrOffers(dl[d].ver) BY <2>6, CompletedDownload
      <4>2. upd' = State("Staged", dl[d].ver) \/ upd' = State("UpdateAvailable", dl[d].ver)
        BY <4>1, Zenon DEF StagesOrOffers
      <4>3. "Staged" \in UpdKinds /\ "UpdateAvailable" \in UpdKinds BY DEF UpdKinds
      <4> QED BY <2>0, <4>2, <4>3, Resting
    <3> QED BY <2>6, <3>1, <3>3, <3>4, <3>5, <3>6 DEF Complete
  <2>7. CASE Fail(d)
    <3>1. events' \in Seq(UpdateEvents) /\ Len(events') <= UpdateCap
      BY <2>7, PublishedFits DEF Fail, UpdateEvents
    <3> QED BY <1>0, <2>0, <2>7, <3>1, Resting DEF Fail
  <2>8. CASE Cancelled(d)
    BY <1>0, <2>0, <2>8, Resting DEF Cancelled
  <2> QED BY <1>7, <2>1, <2>2, <2>3, <2>4, <2>5, <2>6, <2>7, <2>8 DEF DownloadStep
<1>8. CASE ClickCancel
  <2>1. dl' \in [Downloads -> DownloadTasks]
    <3>1. \A b \in BOOLEAN, e \in Downloads : [dl[e] EXCEPT !.cancelled = b] \in DownloadTasks
      BY <1>0 DEF DownloadTasks
    <3> QED BY <1>8, <3>1 DEF ClickCancel
  <2>2. toast' \in Toasts
    BY <1>0, <1>8 DEF ClickCancel, Toasts
  <2> QED BY <1>8, <2>1, <2>2 DEF ClickCancel
<1>9. CASE ClickDismiss
  <2>1. toast' \in Toasts BY <1>9 DEF ClickDismiss, Toasts
  <2> QED BY <1>9, <2>1 DEF ClickDismiss
<1>10. CASE ClickRestart
  <2>1. events' \in Seq(UpdateEvents) /\ Len(events') <= UpdateCap
    BY <1>10, PublishedFits DEF ClickRestart, UpdateEvents
  <2>2. upd' \in [kind : UpdKinds, ver : Versioned] BY <1>0, <1>10, Releasing DEF ClickRestart
  <2> QED BY <1>0, <1>10, <2>1, <2>2 DEF ClickRestart
<1>11. CASE PollUpdateEvent
  <2>1. Tail(events) \in Seq(UpdateEvents) /\ Len(Tail(events)) <= UpdateCap
    <3>1. events # << >> /\ Len(events) \in Nat /\ UpdateCap \in Nat
      BY <1>11, UpdaterAssumption DEF PollUpdateEvent, UpdaterAssumption
    <3>2. Tail(events) \in Seq(UpdateEvents) /\ Len(Tail(events)) = Len(events) - 1
      BY <3>1
    <3> QED BY <3>1, <3>2
  <2>2. toast' \in Toasts
    BY <1>0, <1>11 DEF PollUpdateEvent, Toasts
  <2> QED BY <1>11, <2>1, <2>2 DEF PollUpdateEvent
<1>12. CASE UNCHANGED updVars
  BY <1>12 DEF updVars
<1> QED
  BY <1>1, <1>2, <1>3, <1>4, <1>5, <1>6, <1>7, <1>8, <1>9, <1>10, <1>11, <1>12 DEF UpdNext

(***************************************************************************)
(* What is ready is recorded.                                              *)
(***************************************************************************)

UpdateRecorded == Down /\ OnlyReleases /\ ReadyIsRecorded

LEMMA RecordedStep == UpdTypes /\ UpdateRecorded /\ [UpdNext]_updVars => UpdateRecorded'
<1> SUFFICES ASSUME UpdTypes, UpdateRecorded, [UpdNext]_updVars PROVE UpdateRecorded'
  OBVIOUS
<1> USE DEF UpdateRecorded, Down, OnlyReleases, ReadyIsRecorded
<1>0. /\ upd.kind \in UpdKinds /\ upd.ver \in Versioned
      /\ dl \in [Downloads -> DownloadTasks] /\ saved \in SavedStates /\ toast \in Toasts
      /\ \A k \in UpdKinds, v \in Versioned : State(k, v).kind = k /\ State(k, v).ver = v
      /\ {"Idle", "Checking", "UpdateAvailable", "Downloading", "Staged", "Applying"} \subseteq UpdKinds
  BY Resting DEF UpdTypes, UpdKinds
<1>1. CASE NewRelease \/ DayPasses
  <2>1. saved'.staged = saved.staged /\ (check = "off" => check' = "off")
    BY <1>0, <1>1 DEF NewRelease, DayPasses, SavedStates
  <2> QED BY <1>1, <2>1 DEF NewRelease, DayPasses
<1>2. CASE ProcessEnds
  BY <1>0, <1>2, Resting, Releasing DEF ProcessEnds
<1>3. CASE Start
  <2>1. /\ up' /\ UNCHANGED <<dl, toast>> /\ toast = NoToast /\ upd = State("Idle", NoVersion)
    BY <1>3 DEF Start
  <2>2. PICK readable \in BOOLEAN : AutoApply(Loaded(readable)) \/ Resume(Loaded(readable))
    BY <1>3 DEF Start
  <2> DEFINE s == Loaded(readable)
  <2>3. s \in SavedStates
    BY LoadedIsState
  <2> HIDE DEF s
  <2>4. upd'.kind # "Staged" /\ (upd'.kind = "UpdateAvailable" => upd'.ver # NoVersion)
    <3>1. CASE AutoApply(s) BY <1>0, <3>1, Releasing DEF AutoApply
    <3>2. CASE Resume(s)
      <4>1. \/ upd' = upd \/ upd' = State("Checking", NoVersion)
            \/ \E v \in Versioned : v # NoVersion /\ upd' = State("UpdateAvailable", v)
        BY <2>3, <3>2, ResumedIsState
      <4> QED BY <1>0, <2>1, <4>1, Releasing
    <3> QED BY <2>2, <3>1, <3>2 DEF s
  <2> QED BY <2>1, <2>4, Resting
<1>4. CASE CheckBegins
  BY <1>0, <1>4, Releasing DEF CheckBegins
<1>5. CASE CheckEnds
  <2>1. up /\ up' = up BY <1>5 DEF CheckEnds
  <2>2. ~ lapse' => ~ lapse /\ saved'.staged = saved.staged
    <3>1. \A found : [saved EXCEPT !.available = found, !.recent = TRUE].staged = saved.staged
      BY <1>0 DEF SavedStates
    <3> QED BY <1>5, <3>1 DEF CheckEnds, Loaded
  <2>3. upd'.kind \in {"UpdateAvailable", "Idle"} /\ (upd'.kind = "UpdateAvailable" => upd'.ver # NoVersion)
    BY <1>0, <1>5, Releasing DEF CheckEnds, UpdTypes
  <2> QED BY <1>5, <2>1, <2>2, <2>3 DEF CheckEnds
<1>6. ASSUME NEW d \in Downloads, DownloadStep(d) PROVE UpdateRecorded'
  <2>0. dl[d] \in DownloadTasks /\ dl[d].ver \in Versioned
    BY <1>0 DEF DownloadTasks
  <2>1. up /\ up' = up
    BY <1>6, Resting DEF DownloadStep, ClickUpdate, Refused, Begin, Create, Progress, Complete, Fail, Cancelled
  <2>2. CASE ClickUpdate(d)
    <3>1. [NoTask EXCEPT !.step = "queued"].step = "queued" BY DEF NoTask
    <3> QED BY <1>0, <2>1, <2>2, <3>1 DEF ClickUpdate, StartDownload
  <2>3. CASE Refused(d)
    BY <1>0, <2>1, <2>3, Resting DEF Refused
  <2>4. CASE Begin(d)
    <3>1. \A e \in Downloads :
            dl'[e].step \in {"checksums", "fetching"} => dl'[e].ver # NoVersion
      <4> SUFFICES ASSUME NEW e \in Downloads, dl'[e].step \in {"checksums", "fetching"}
                   PROVE  dl'[e].ver # NoVersion
        OBVIOUS
      <4>1. CASE e = d BY <2>0, <2>4, <4>1 DEF Begin, DownloadTasks
      <4>2. CASE e # d
        <5>1. dl[e] \in DownloadTasks BY <1>0
        <5>2. dl'[e].step = dl[e].step /\ dl'[e].ver = dl[e].ver
          BY <2>4, <4>2, <5>1 DEF Begin, DownloadTasks
        <5> QED BY <5>2
      <4> QED BY <4>1, <4>2
    <3> QED BY <1>0, <2>1, <2>4, <3>1, Releasing DEF Begin
  <2>5. CASE Create(d)
    <3>1. \A e \in Downloads :
            dl'[e].step \in {"checksums", "fetching"} => dl'[e].ver # NoVersion
      <4> SUFFICES ASSUME NEW e \in Downloads, dl'[e].step \in {"checksums", "fetching"}
                   PROVE  dl'[e].ver # NoVersion
        OBVIOUS
      <4>1. CASE e = d BY <2>0, <2>5, <4>1 DEF Create, DownloadTasks
      <4>2. CASE e # d
        <5>1. dl[e] \in DownloadTasks BY <1>0
        <5>2. dl'[e].step = dl[e].step /\ dl'[e].ver = dl[e].ver
          BY <2>5, <4>2, <5>1 DEF Create, DownloadTasks
        <5> QED BY <5>2
      <4> QED BY <4>1, <4>2
    <3> QED BY <2>1, <2>5, <3>1 DEF Create
  <2>6. CASE Progress(d)
    BY <1>0, <2>1, <2>6, Releasing DEF Progress
  <2>7. CASE Complete(d)
    <3>1. dl[d].ver # NoVersion BY <2>7 DEF Complete
    <3>2. \A e \in Downloads : dl'[e].step \in {"checksums", "fetching"} => dl'[e].ver # NoVersion
      BY <1>0, <2>7, Resting DEF Complete
    <3>3. \/ upd' = State("Staged", dl[d].ver) /\ (~ lapse' => saved'.staged = dl[d].ver)
          \/ upd' = State("UpdateAvailable", dl[d].ver) /\ saved' = saved /\ lapse' = lapse
      <4>1. \A readable \in BOOLEAN :
              [Loaded(readable) EXCEPT !.available = NoVersion, !.staged = dl[d].ver].staged = dl[d].ver
        BY LoadedIsState DEF SavedStates
      <4> QED BY <2>7, <4>1, CompletedDownload DEF StagesOrOffers
    <3>4. toast' = toast BY <2>7 DEF Complete
    <3> QED BY <1>0, <2>0, <2>1, <3>1, <3>2, <3>3, <3>4
  <2>8. CASE Fail(d) \/ Cancelled(d)
    <3>1. dl[d].ver # NoVersion BY <2>8 DEF Fail, Cancelled
    <3>2. \A e \in Downloads : dl'[e].step \in {"checksums", "fetching"} => dl'[e].ver # NoVersion
      BY <1>0, <2>8, Resting DEF Fail, Cancelled
    <3> QED BY <1>0, <2>0, <2>1, <2>8, <3>1, <3>2 DEF Fail, Cancelled
  <2> QED BY <1>6, <2>2, <2>3, <2>4, <2>5, <2>6, <2>7, <2>8 DEF DownloadStep
<1>7. CASE ClickCancel
  <2>1. \A e \in Downloads : dl'[e].step = dl[e].step /\ dl'[e].ver = dl[e].ver
    BY <1>0, <1>7 DEF ClickCancel, DownloadTasks
  <2>2. toast'.staged = toast.staged BY <1>0, <1>7 DEF ClickCancel, Toasts
  <2> QED BY <1>7, <2>1, <2>2 DEF ClickCancel
<1>8. CASE ClickDismiss
  <2>1. toast'.staged = toast.staged BY <1>0, <1>8 DEF ClickDismiss, Toasts
  <2> QED BY <1>8, <2>1 DEF ClickDismiss
<1>9. CASE ClickRestart
  BY <1>0, <1>9, Releasing DEF ClickRestart
<1>10. CASE PollUpdateEvent
  <2>1. toast'.staged \in {toast.staged} \cup (IF upd.kind = "Staged" THEN {upd.ver} ELSE {})
    BY <1>0, <1>10 DEF PollUpdateEvent, Toasts
  <2> QED BY <1>10, <2>1 DEF PollUpdateEvent
<1>11. CASE UNCHANGED updVars
  BY <1>11 DEF updVars
<1> QED
  BY <1>1, <1>2, <1>3, <1>4, <1>5, <1>6, <1>7, <1>8, <1>9, <1>10, <1>11 DEF UpdNext

(* What is staged, or marked as downloaded on the toast, is what           *)
(* update-state.json names, whatever checks end and downloads begin while  *)
(* it is staged, and whatever writes of theirs fail, but for the write     *)
(* that stages it and for a check that cannot read the file.               *)
THEOREM ReadyUpdatesAreRecorded == UpdSpec => []ReadyIsRecorded
<1>1. UpdInit => UpdTypes /\ UpdateRecorded
  BY UpdTypesInit DEF UpdateRecorded
<1>2. UpdTypes /\ UpdateRecorded /\ [UpdNext]_updVars => UpdTypes' /\ UpdateRecorded'
  BY UpdTypesStep, RecordedStep DEF UpdateRecorded
<1>3. UpdateRecorded => ReadyIsRecorded
  BY DEF UpdateRecorded
<1> QED BY <1>1, <1>2, <1>3, PTL DEF UpdSpec

LEMMA TypesAreOK == UpdTypes => UpdTypeOK
<1> SUFFICES ASSUME UpdTypes PROVE UpdTypeOK
  OBVIOUS
<1>1. Range(events) \subseteq UpdateEvents
  BY DEF UpdTypes, Range
<1> QED
  BY <1>1 DEF UpdTypes, UpdTypeOK, UpdKinds, Versioned, DownloadTasks, SavedStates, Toasts

(* The service, its downloads, the files and the toast keep their types    *)
(* across process ends, refused clicks and tasks that outlive their        *)
(* cancel.                                                                 *)
THEOREM UpdTypesHold == UpdSpec => []UpdTypeOK
<1>1. UpdInit => UpdTypes /\ UpdateRecorded
  BY UpdTypesInit DEF UpdateRecorded
<1>2. UpdTypes /\ UpdateRecorded /\ [UpdNext]_updVars => UpdTypes' /\ UpdateRecorded'
  BY UpdTypesStep, RecordedStep DEF UpdateRecorded
<1> QED BY <1>1, <1>2, TypesAreOK, PTL DEF UpdSpec

(***************************************************************************)
(* What the helper installs is whole.                                      *)
(***************************************************************************)

Quiet == \A d \in Downloads : dl[d].step = "none"

(* After a restart that handed a staged update to the helper the workspace *)
(* never hears of an update: it reads "quit" first.                        *)
Quitting == toast = NoToast /\ check = "off" /\ events = <<"quit">>

Handed ==
  helper # NoVersion =>
    /\ artifact[helper] = "good"
    /\ Quiet /\ upd.kind # "Staged"
    /\ toast.staged # NoVersion \/ Quitting

OneDownload ==
  ~ stray =>
    /\ \A d, e \in Downloads : dl[d].step # "none" /\ dl[e].step # "none" => d = e
    /\ upd.kind = "Staged" => Quiet
    /\ Handed

(* Nothing that leaves the downloads and the helper alone disturbs it.     *)
LEMMA AloneUntouched ==
  ASSUME OneDownload, UNCHANGED <<stray, dl, helper>>,
         upd'.kind = "Staged" => upd.kind = "Staged",
         helper # NoVersion => artifact'[helper] = artifact[helper],
         toast'.staged = toast.staged \/ toast'.staged # NoVersion,
         Quitting /\ helper # NoVersion => Quitting'
  PROVE  OneDownload'
BY DEF OneDownload, Handed, Quiet

(* A task that ends, or goes on, leaves the others where they are.         *)
LEMMA AloneTask ==
  ASSUME OneDownload, NEW d \in Downloads, dl[d].step # "none", UNCHANGED <<stray, helper>>,
         \A e \in Downloads : e # d => dl'[e].step = dl[e].step,
         upd'.kind = "Staged" => dl'[d].step = "none"
  PROVE  OneDownload'
<1> SUFFICES ASSUME ~ stray PROVE OneDownload'
  BY DEF OneDownload
<1>1. helper = NoVersion
  BY DEF OneDownload, Handed, Quiet
<1>2. \A e \in Downloads : e # d => dl[e].step = "none"
  BY DEF OneDownload
<1> QED BY <1>1, <1>2 DEF OneDownload, Handed, Quiet

LEMMA AloneStep == UpdTypes /\ UpdateRecorded /\ OneDownload /\ [UpdNext]_updVars => OneDownload'
<1> SUFFICES ASSUME UpdTypes, UpdateRecorded, OneDownload, [UpdNext]_updVars PROVE OneDownload'
  OBVIOUS
<1>0. /\ upd.kind \in UpdKinds /\ upd.ver \in Versioned
      /\ dl \in [Downloads -> DownloadTasks] /\ saved \in SavedStates /\ toast \in Toasts
      /\ \A k \in UpdKinds, v \in Versioned : State(k, v).kind = k /\ State(k, v).ver = v
      /\ {"Idle", "Checking", "UpdateAvailable", "Downloading", "Staged", "Applying"} \subseteq UpdKinds
  BY Resting DEF UpdTypes, UpdKinds
<1>1. CASE NewRelease \/ DayPasses
  BY <1>1, AloneUntouched DEF NewRelease, DayPasses, Quitting
<1>2. CASE ProcessEnds
  BY <1>0, <1>2, Resting, Releasing DEF ProcessEnds, OneDownload, Handed, Quiet
<1>3. CASE Start
  <2>1. /\ UNCHANGED <<dl, toast, stray>> /\ toast = NoToast /\ helper = NoVersion /\ events = << >>
        /\ upd = State("Idle", NoVersion) /\ \A d \in Downloads : dl[d] = NoTask
    BY <1>3 DEF Start, UpdateRecorded, Down
  <2>2. Quiet'
    BY <2>1, Resting DEF Quiet
  <2>3. PICK readable \in BOOLEAN : AutoApply(Loaded(readable)) \/ Resume(Loaded(readable))
    BY <1>3 DEF Start
  <2> DEFINE s == Loaded(readable)
  <2>4. CASE AutoApply(s)
    <3> HIDE DEF s
    <3>1. artifact'[helper'] = "good"
      BY <2>4 DEF AutoApply, Verifies
    <3>2. events' = <<"quit">>
      <4>1. Published(<< >>, "quit") = <<"quit">>
        BY UpdaterAssumption DEF Published, UpdaterAssumption
      <4> QED BY <2>1, <2>4, <4>1 DEF AutoApply
    <3>3. Quitting'
      BY <2>1, <2>4, <3>2 DEF AutoApply, Quitting
    <3>4. upd'.kind = "Applying"
      BY <1>0, <2>4, Releasing DEF AutoApply
    <3> QED BY <2>2, <3>1, <3>3, <3>4 DEF OneDownload, Handed, Quiet
  <2>5. CASE Resume(s)
    <3>1. helper' = NoVersion BY <2>1, <2>5 DEF Resume
    <3> QED BY <2>2, <3>1 DEF OneDownload, Handed, Quiet
  <2> QED BY <2>3, <2>4, <2>5
<1>4. CASE CheckBegins
  <2>1. ~ Quitting BY <1>4 DEF CheckBegins, Quitting
  <2> QED BY <1>0, <1>4, <2>1, Releasing, AloneUntouched DEF CheckBegins
<1>5. CASE CheckEnds
  <2>1. ~ Quitting BY <1>5 DEF CheckEnds, Quitting
  <2>2. upd'.kind # "Staged" BY <1>0, <1>5, Releasing DEF CheckEnds, UpdTypes
  <2> QED BY <1>5, <2>1, <2>2, AloneUntouched DEF CheckEnds
<1>6. ASSUME NEW d \in Downloads, DownloadStep(d) PROVE OneDownload'
  <2>0. dl[d] \in DownloadTasks /\ dl[d].ver \in Versioned
    BY <1>0 DEF DownloadTasks
  <2>1. CASE ClickUpdate(d)
    <3> SUFFICES ASSUME ~ stray' PROVE OneDownload'
      BY DEF OneDownload
    <3>1. /\ ~ stray /\ upd.kind = "UpdateAvailable" /\ Quiet
          /\ UNCHANGED <<upd, helper>>
      BY <2>1 DEF ClickUpdate, StartDownload, Quiet
    <3>2. \A e \in Downloads : e # d => dl'[e].step = "none"
      BY <1>0, <2>1, <3>1 DEF ClickUpdate, StartDownload, Quiet
    <3>3. toast.staged = NoVersion /\ ~ Quitting
      BY <2>1, Resting DEF ClickUpdate, Variant, Quitting, NoToast
    <3>4. helper = NoVersion
      BY <3>1, <3>3 DEF OneDownload, Handed
    <3> QED BY <3>1, <3>2, <3>4 DEF OneDownload, Handed
  <2>2. CASE Refused(d)
    BY <1>0, <2>2, Resting, AloneTask DEF Refused
  <2>3. CASE Begin(d)
    <3>1. \A e \in Downloads : e # d => dl'[e].step = dl[e].step
      BY <1>0, <2>3 DEF Begin, DownloadTasks
    <3> QED BY <1>0, <2>3, <3>1, Releasing, AloneTask DEF Begin
  <2>4. CASE Create(d)
    <3>1. \A e \in Downloads : e # d => dl'[e].step = dl[e].step
      BY <1>0, <2>4 DEF Create, DownloadTasks
    <3>2. ~ stray => upd.kind # "Staged"
      BY <2>4 DEF Create, OneDownload, Quiet
    <3> QED BY <1>0, <2>4, <3>1, <3>2, AloneTask DEF Create, OneDownload
  <2>5. CASE Progress(d)
    BY <1>0, <2>5, Releasing, AloneTask DEF Progress
  <2>6. CASE Complete(d)
    <3>0. /\ dl[d].step = "fetching" /\ dl' = [dl EXCEPT ![d] = NoTask]
          /\ UNCHANGED <<stray, helper>>
      BY <2>6, Zenon DEF Complete
    <3>1. \A e \in Downloads : e # d => dl'[e].step = dl[e].step
      BY <1>0, <3>0
    <3>2. dl'[d].step = "none" BY <1>0, <3>0, Resting
    <3> QED BY <3>0, <3>1, <3>2, AloneTask
  <2>7. CASE Fail(d) \/ Cancelled(d)
    <3>1. \A e \in Downloads : e # d => dl'[e].step = dl[e].step
      BY <1>0, <2>7 DEF Fail, Cancelled
    <3>2. dl'[d].step = "none" BY <1>0, <2>7, Resting DEF Fail, Cancelled
    <3> QED BY <2>7, <3>1, <3>2, AloneTask DEF Fail, Cancelled
  <2> QED BY <1>6, <2>1, <2>2, <2>3, <2>4, <2>5, <2>6, <2>7 DEF DownloadStep
<1>7. CASE ClickCancel
  <2>1. \A e \in Downloads : dl'[e].step = dl[e].step
    BY <1>0, <1>7 DEF ClickCancel, DownloadTasks
  <2>2. toast'.staged = toast.staged BY <1>0, <1>7 DEF ClickCancel, Toasts
  <2>3. ~ Quitting BY <1>7, Resting DEF ClickCancel, Variant, Quitting, NoToast
  <2> QED BY <1>7, <2>1, <2>2, <2>3 DEF ClickCancel, OneDownload, Handed, Quiet
<1>8. CASE ClickDismiss
  <2>1. toast'.staged = toast.staged BY <1>0, <1>8 DEF ClickDismiss, Toasts
  <2>2. ~ Quitting BY <1>8, Resting DEF ClickDismiss, Variant, Quitting, NoToast
  <2> QED BY <1>8, <2>1, <2>2, AloneUntouched DEF ClickDismiss
<1>9. CASE ClickRestart
  <2> SUFFICES ASSUME ~ stray PROVE OneDownload'
    BY <1>9 DEF ClickRestart, OneDownload
  <2>1. /\ upd.kind = "Staged" /\ Quiet /\ helper = NoVersion /\ toast.staged # NoVersion
    BY <1>9 DEF ClickRestart, Variant, OneDownload, Handed
  <2>2. upd'.kind # "Staged" /\ UNCHANGED <<dl, toast>>
    BY <1>0, <1>9, Releasing DEF ClickRestart
  <2>3. helper' # NoVersion => artifact'[helper'] = "good"
    BY <1>9, <2>1 DEF ClickRestart, Verifies
  <2> QED BY <2>1, <2>2, <2>3 DEF OneDownload, Handed, Quiet
<1>10. CASE PollUpdateEvent
  <2>1. toast'.staged \in {toast.staged} \cup (IF upd.kind = "Staged" THEN {upd.ver} ELSE {})
    BY <1>0, <1>10 DEF PollUpdateEvent, Toasts
  <2>2. upd.kind = "Staged" => upd.ver # NoVersion
    BY DEF UpdateRecorded, OnlyReleases
  <2>3. ~ Quitting BY <1>10 DEF PollUpdateEvent, Quitting
  <2> QED BY <1>10, <2>1, <2>2, <2>3, AloneUntouched DEF PollUpdateEvent
<1>11. CASE UNCHANGED updVars
  BY <1>11, AloneUntouched DEF updVars, Quitting
<1> QED
  BY <1>1, <1>2, <1>3, <1>4, <1>5, <1>6, <1>7, <1>8, <1>9, <1>10, <1>11 DEF UpdNext

(* The helper installs nothing but a verified artifact that no download    *)
(* has touched since, if Update is clicked only while an update is offered *)
(* and no download under way.                                              *)
THEOREM HelperInstallsWholeArtifacts == UpdSpec => []HelperGetsWholeArtifact
<1> DEFINE Inv == UpdTypes /\ UpdateRecorded /\ OneDownload
<1>1. UpdInit => Inv
  <2> SUFFICES ASSUME UpdInit PROVE Inv
    OBVIOUS
  <2>1. helper = NoVersion /\ upd.kind # "Staged" /\ Quiet
    <3>1. "Idle" \in UpdKinds BY DEF UpdKinds
    <3> QED BY <3>1, Resting, Releasing DEF UpdInit, Quiet
  <2>2. OneDownload BY <2>1 DEF OneDownload, Handed, Quiet
  <2> QED BY <2>2, UpdTypesInit DEF UpdateRecorded
<1>2. Inv /\ [UpdNext]_updVars => Inv'
  BY UpdTypesStep, RecordedStep, AloneStep DEF UpdateRecorded
<1>3. Inv => HelperGetsWholeArtifact
  BY DEF OneDownload, Handed, HelperGetsWholeArtifact
<1> QED BY <1>1, <1>2, <1>3, PTL DEF UpdSpec

(***************************************************************************)
(* No loop records more results than its limit allows.  The limit is       *)
(* compared with the number of the iteration that ends, which may be one   *)
(* of an earlier loop of the session; that it bounds the results rests on  *)
(* the number always being ahead of the count.                             *)
(***************************************************************************)

Loops == [status : LoopStatus, current : Nat, idle : Nat, history : Nat, config : Configs]

LoopTypes ==
  /\ loop \in [LoopSessions -> {NoLoop} \cup Loops]
  /\ iteration \in [LoopSessions -> Nat]
  /\ starts \in [LoopSessions -> 0 .. MaxStarts]

(* Of a loop and the number of the iteration under way: the number is      *)
(* ahead of the results that were counted, a loop that goes on has a       *)
(* number below its limit, and no number exceeds the largest limit.        *)
Counted(l, n) ==
  /\ l.history <= l.current
  /\ n # 0 => l.history < n
  /\ l.status \in {"Running", "Paused"} => l.current < l.config.max_iterations
  /\ l.idle <= l.history /\ l.current <= MaxNumber /\ n <= MaxNumber

LoopInv == LoopTypes /\ \A s \in LoopSessions : Counted(loop[s], iteration[s])

LEMMA NoLoopFields ==
  NoLoop.status = "none" /\ NoLoop.history = 0 /\ NoLoop.current = 0 /\ NoLoop.idle = 0
BY DEF NoLoop

LEMMA LargestLimit ==
  MaxNumber \in Nat /\ \A c \in Configs : c.max_iterations <= MaxNumber
<1> DEFINE Limits == {c.max_iterations : c \in Configs}
           Largest(n) == \A c \in Configs : c.max_iterations <= n
<1>1. \E n \in Limits : Largest(n)
  BY LoopAssumption
<1>2. MaxNumber \in Limits /\ Largest(MaxNumber)
  BY <1>1 DEF MaxNumber
<1> QED BY <1>2, LoopAssumption

(* A step that changes one session at most has to be looked at there only. *)
LEMMA OneSession ==
  ASSUME LoopInv, NEW r \in LoopSessions, NEW l \in {NoLoop} \cup Loops, NEW n \in Nat,
         loop' = [loop EXCEPT ![r] = l], iteration' = [iteration EXCEPT ![r] = n],
         starts' \in [LoopSessions -> 0 .. MaxStarts],
         Counted(l, n)
  PROVE  LoopInv'
<1>1. LoopTypes'
  BY DEF LoopInv, LoopTypes
<1>2. ASSUME NEW s \in LoopSessions PROVE Counted(loop'[s], iteration'[s])
  BY DEF LoopInv, LoopTypes
<1>3. ASSUME NEW s \in LoopSessions PROVE Counted(loop[s], iteration[s])'
  BY <1>2 DEF Counted
<1> QED BY <1>1, <1>3 DEF LoopInv

(* What record_iteration makes of a loop that has an entry.                *)
LEMMA RecordedIsSound ==
  ASSUME NEW l \in Loops, NEW nr \in Nat, NEW passed \in BOOLEAN, l.history < nr,
         nr <= MaxNumber, l.idle <= l.history
  PROVE  Recorded(l, nr, passed) \in Loops /\ Counted(Recorded(l, nr, passed), 0)
<1>1. PICK idle \in Nat, status \in LoopStatus :
        /\ status = Ended(l, nr, passed) /\ idle <= l.history + 1
        /\ Recorded(l, nr, passed)
             = [l EXCEPT !.idle = idle, !.current = nr, !.history = l.history + 1, !.status = status]
  <2>1. Ended(l, nr, passed) \in LoopStatus
    BY DEF Ended, LoopStatus, Finished, Loops
  <2>2. /\ l.idle + 1 \in Nat /\ l.idle + 1 <= l.history + 1
        /\ l.history + 1 \in Nat /\ 0 <= l.history + 1
    BY DEF Loops
  <2>3. CASE passed
    BY <2>1, <2>2, <2>3 DEF Recorded
  <2>4. CASE ~ passed
    BY <2>1, <2>2, <2>4 DEF Recorded
  <2> QED BY <2>3, <2>4
<1>2. /\ l.history + 1 \in Nat /\ l.history + 1 <= nr
      /\ l.config \in Configs /\ l.config.max_iterations \in Nat
  BY LoopAssumption DEF Loops
<1>3. status \in {"Running", "Paused"} => nr < l.config.max_iterations
  <2>1. nr >= l.config.max_iterations => Ended(l, nr, passed) \in {"Completed", "Failed"}
    BY DEF Ended
  <2> QED BY <1>1, <1>2, <2>1
<1> DEFINE r == [l EXCEPT !.idle = idle, !.current = nr, !.history = l.history + 1, !.status = status]
<1>4. /\ r \in Loops
      /\ r.history = l.history + 1 /\ r.current = nr /\ r.status = status /\ r.config = l.config
      /\ r.idle = idle
  BY <1>2 DEF Loops
<1>5. Counted(r, 0)
  <2> HIDE DEF r
  <2> QED BY <1>1, <1>2, <1>3, <1>4, LargestLimit DEF Counted
<1> QED BY <1>1, <1>4, <1>5

LEMMA LoopInvInit == LoopInit => LoopInv
BY NoLoopFields, LargestLimit, LoopAssumption DEF LoopInit, LoopInv, LoopTypes, Counted

LEMMA LoopInvStep == LoopInv /\ [LoopNext]_loopVars => LoopInv'
<1> SUFFICES ASSUME LoopInv, [LoopNext]_loopVars PROVE LoopInv'
  OBVIOUS
<1>0. /\ LoopTypes
      /\ \A s \in LoopSessions : Counted(loop[s], iteration[s])
  BY DEF LoopInv
<1>1. ASSUME NEW s \in LoopSessions, NEW c \in Configs, StartLoop(s, c) PROVE LoopInv'
  <2>1. /\ NewLoop(c) \in Loops /\ NewLoop(c).history = 0 /\ NewLoop(c).current = 0
        /\ NewLoop(c).config = c /\ NewLoop(c).idle = 0
    BY DEF NewLoop, NoLoop, Loops, LoopStatus
  <2>2. 0 < c.max_iterations
    BY <1>1, LoopAssumption DEF StartLoop
  <2>3. iteration' = [iteration EXCEPT ![s] = iteration[s]] /\ iteration[s] \in Nat
    BY <1>0, <1>1 DEF StartLoop, LoopTypes
  <2>4. Counted(NewLoop(c), iteration[s])
    BY <1>0, <2>1, <2>2, <2>3, LargestLimit DEF Counted
  <2>5. starts' \in [LoopSessions -> 0 .. MaxStarts]
    BY <1>0, <1>1, LoopAssumption DEF StartLoop, LoopTypes
  <2> QED BY <1>1, <2>1, <2>3, <2>4, <2>5, OneSession DEF StartLoop
<1>2. ASSUME NEW s \in LoopSessions, PauseLoop(s) \/ ResumeLoop(s) \/ StopLoop(s) PROVE LoopInv'
  <2>1. PICK st \in LoopStatus : loop' = [loop EXCEPT ![s] = [loop[s] EXCEPT !.status = st]]
    BY <1>0, <1>2 DEF PauseLoop, ResumeLoop, StopLoop, LoopStatus, Finished, LoopTypes
  <2>2. IsActive(s) /\ iteration' = [iteration EXCEPT ![s] = iteration[s]] /\ iteration[s] \in Nat
    BY <1>0, <1>2 DEF PauseLoop, ResumeLoop, StopLoop, IsActive, LoopTypes
  <2>3. loop[s] \in Loops
    BY <1>0, <2>2, NoLoopFields DEF IsActive, LoopTypes
  <2>4. [loop[s] EXCEPT !.status = st] \in Loops /\ Counted([loop[s] EXCEPT !.status = st], iteration[s])
    BY <1>0, <2>2, <2>3 DEF Loops, Counted, IsActive
  <2>5. starts' \in [LoopSessions -> 0 .. MaxStarts]
    BY <1>0, <1>2 DEF PauseLoop, ResumeLoop, StopLoop, LoopTypes
  <2> QED BY <2>1, <2>2, <2>4, <2>5, OneSession
<1>3. ASSUME NEW s \in LoopSessions, Iterate(s) PROVE LoopInv'
  <2>1. loop[s] \in Loops
    BY <1>0, <1>3, NoLoopFields DEF Iterate, LoopTypes
  <2>2. /\ loop' = [loop EXCEPT ![s] = loop[s]]
        /\ iteration' = [iteration EXCEPT ![s] = loop[s].current + 1]
    BY <1>0, <1>3 DEF Iterate, LoopTypes
  <2>3. loop[s].current + 1 \in Nat /\ loop[s].current + 1 <= MaxNumber
    BY <1>0, <1>3, <2>1, LargestLimit, LoopAssumption DEF Iterate, Counted, Loops
  <2>4. Counted(loop[s], loop[s].current + 1)
    BY <1>0, <2>1, <2>3 DEF Counted, Loops
  <2>5. starts' \in [LoopSessions -> 0 .. MaxStarts]
    BY <1>0, <1>3 DEF Iterate, LoopTypes
  <2> QED BY <2>1, <2>2, <2>3, <2>4, <2>5, OneSession
<1>4. ASSUME NEW s \in LoopSessions, NEW passed \in BOOLEAN, RecordIteration(s, passed)
      PROVE  LoopInv'
  <2>1. iteration' = [iteration EXCEPT ![s] = 0] /\ starts' \in [LoopSessions -> 0 .. MaxStarts]
    BY <1>0, <1>4 DEF RecordIteration, LoopTypes
  <2>2. CASE loop[s] = NoLoop
    <3>1. loop' = [loop EXCEPT ![s] = NoLoop]
      BY <1>0, <1>4, <2>2 DEF RecordIteration, LoopTypes
    <3>2. Counted(NoLoop, 0)
      BY NoLoopFields, LargestLimit DEF Counted
    <3> QED BY <2>1, <3>1, <3>2, OneSession
  <2>3. CASE loop[s] # NoLoop
    <3>1. loop[s] \in Loops /\ iteration[s] \in Nat
      BY <1>0, <2>3 DEF LoopTypes
    <3>2. /\ loop[s].history < iteration[s] /\ iteration[s] <= MaxNumber
          /\ loop[s].idle <= loop[s].history
      BY <1>0, <1>4 DEF RecordIteration, Counted
    <3>3. loop' = [loop EXCEPT ![s] = Recorded(loop[s], iteration[s], passed)]
      BY <1>0, <1>4, <2>3 DEF RecordIteration, LoopTypes
    <3>4. /\ Recorded(loop[s], iteration[s], passed) \in Loops
          /\ Counted(Recorded(loop[s], iteration[s], passed), 0)
      BY <3>1, <3>2, RecordedIsSound
    <3> QED BY <2>1, <3>3, <3>4, OneSession
  <2> QED BY <2>2, <2>3
<1>5. ASSUME Cleanup PROVE LoopInv'
  <2>1. LoopTypes'
    BY <1>0, <1>5 DEF Cleanup, LoopTypes
  <2>2. ASSUME NEW s \in LoopSessions PROVE Counted(loop[s], iteration[s])'
    <3>1. iteration'[s] = iteration[s] /\ (loop'[s] = loop[s] \/ loop'[s] = NoLoop)
      BY <1>5 DEF Cleanup
    <3>2. Counted(loop[s], iteration[s]) /\ iteration[s] \in Nat
      BY <1>0 DEF LoopTypes
    <3> QED BY <3>1, <3>2, NoLoopFields, LargestLimit DEF Counted
  <2> QED BY <2>1, <2>2 DEF LoopInv
<1>6. CASE UNCHANGED loopVars
  BY <1>0, <1>6 DEF LoopInv, LoopTypes, Counted, loopVars
<1> QED BY <1>1, <1>2, <1>3, <1>4, <1>5, <1>6 DEF LoopNext

(* A loop that goes on has recorded fewer results than its config allows,  *)
(* whatever results of earlier loops of the session are counted in         *)
(* (record_iteration).                                                     *)
THEOREM LoopsAreBounded == LoopSpec => []LoopIsBounded
<1>1. LoopInv => LoopIsBounded
  <2> SUFFICES ASSUME LoopInv, NEW s \in LoopSessions, IsActive(s)
               PROVE  loop[s].history < loop[s].config.max_iterations
    BY DEF LoopIsBounded
  <2>1. loop[s] \in Loops
    BY NoLoopFields DEF LoopInv, LoopTypes, IsActive
  <2>2. Counted(loop[s], iteration[s]) /\ loop[s].config.max_iterations \in Nat
    BY <2>1, LoopAssumption DEF LoopInv, Loops
  <2> QED BY <2>1, <2>2 DEF Counted, IsActive, Loops
<1> QED BY <1>1, LoopInvInit, LoopInvStep, PTL DEF LoopSpec

LEMMA LoopInvTypes == LoopInv => LoopTypeOK
<1> SUFFICES ASSUME LoopInv PROVE LoopTypeOK
  OBVIOUS
<1> DEFINE Bounded == [status : LoopStatus, current : 0 .. MaxNumber, idle : 0 .. MaxNumber,
                       history : 0 .. MaxNumber, config : Configs]
<1>1. ASSUME NEW s \in LoopSessions
      PROVE  loop[s] \in {NoLoop} \cup Bounded /\ iteration[s] \in 0 .. MaxNumber
  <2>1. loop[s] \in {NoLoop} \cup Loops /\ iteration[s] \in Nat /\ Counted(loop[s], iteration[s])
    BY DEF LoopInv, LoopTypes
  <2>2. ASSUME loop[s] \in Loops PROVE loop[s] \in Bounded
    <3>1. loop[s].current \in Nat /\ loop[s].idle \in Nat /\ loop[s].history \in Nat
      BY <2>2 DEF Loops
    <3>2. /\ loop[s].current \in 0 .. MaxNumber /\ loop[s].idle \in 0 .. MaxNumber
          /\ loop[s].history \in 0 .. MaxNumber
      BY <2>1, <3>1, LargestLimit DEF Counted
    <3> QED BY <2>2, <3>2 DEF Loops
  <2> QED BY <2>1, <2>2, LargestLimit DEF Counted
<1>2. loop \in [LoopSessions -> {NoLoop} \cup Bounded]
  BY <1>1 DEF LoopInv, LoopTypes
<1>3. iteration \in [LoopSessions -> 0 .. MaxNumber]
  BY <1>1 DEF LoopInv, LoopTypes
<1> QED BY <1>2, <1>3 DEF LoopInv, LoopTypes, LoopTypeOK

(* The loops keep their types: no counter of a loop, nor the iteration     *)
(* under way, goes beyond the largest max_iterations, although the results *)
(* of a loop may be counted in the one that was started after it.          *)
THEOREM LoopTypesHold == LoopSpec => []LoopTypeOK
BY LoopInvTypes, LoopInvInit, LoopInvStep, PTL DEF LoopSpec

(***************************************************************************)
(* A pipeline that shows a stage which only a call can end has such a      *)
(* call, and a cancelled pipeline stays away, whichever calls overlap.     *)
(***************************************************************************)

Pipes == {NoPipe} \cup
  [stage : Stages, verification : {"none", "Passed", "Failed"}, decision : Decisions \cup {"none"}]
CallStates == {NoCall} \cup [step : CallSteps, task : Tasks]

PipeInv == PipeTypeOK /\ BusyIsWorkedOn

LEMMA Entry ==
  ASSUME PipeTypeOK
  PROVE  /\ \A t \in Tasks : pipe[t] \in Pipes
         /\ \A c \in Calls : call[c] \in CallStates
BY DEF PipeTypeOK, Pipes, CallStates

(* The steps that end the busy stages, and no others.                      *)
LEMMA WorkTable ==
  /\ DOMAIN WorkOn = {"TaskCompleted", "Verifying", "GeneratingNotes"}
  /\ WorkOn["TaskCompleted"] = {"stored"}
  /\ WorkOn["Verifying"] = {"verify", "passed", "failed"}
  /\ WorkOn["GeneratingNotes"] = {"noted"}
BY DEF WorkOn

LEMMA StageTable ==
  /\ DOMAIN NextStage =
       {"stored", "passed", "failed", "skipping", "approved", "noted", "rejected", "returned"}
  /\ \A step \in DOMAIN NextStage :
       /\ NextStage[step] \in Stages
       /\ StepAfter(step) \in CallSteps \cup {"none"}
       /\ NextStage[step] \in DOMAIN WorkOn => StepAfter(step) \in WorkOn[NextStage[step]]
<1>1. DOMAIN NextStage =
        {"stored", "passed", "failed", "skipping", "approved", "noted", "rejected", "returned"}
  BY DEF NextStage
<1>2. /\ NextStage["stored"] = "Verifying" /\ NextStage["passed"] = "GeneratingChangeSummary"
      /\ NextStage["failed"] = "RetryingInSession" /\ NextStage["skipping"] = "GeneratingChangeSummary"
      /\ NextStage["approved"] = "GeneratingNotes" /\ NextStage["noted"] = "Complete"
      /\ NextStage["rejected"] = "Blocked" /\ NextStage["returned"] = "RetryingInSession"
  BY DEF NextStage
<1> QED BY <1>1, <1>2, WorkTable DEF Stages, StepAfter, CallSteps

LEMMA NothingThere ==
  /\ NoPipe \in Pipes /\ NoPipe.stage = "none" /\ NoCall.step = "none"
  /\ "none" \notin DOMAIN WorkOn /\ "none" \notin CallSteps
  /\ \A stage \in DOMAIN WorkOn : "none" \notin WorkOn[stage]
BY WorkTable, StageTable DEF NoPipe, NoCall, Pipes, CallSteps, Decisions

(* A call that is under way has a task.                                    *)
LEMMA Waiting ==
  ASSUME PipeTypeOK, NEW c \in Calls, call[c].step \in CallSteps
  PROVE  call[c] \in [step : CallSteps, task : Tasks]
BY Entry, NothingThere DEF CallStates

(* A call begins or goes on, and changes the pipeline of its task: it is   *)
(* enough that it works on the stage it leaves there, or left another call *)
(* to do so.                                                               *)
LEMMA CallMoves ==
  ASSUME PipeInv, NEW c \in Calls, NEW u \in Tasks, call[c] = NoCall \/ call[c].task = u,
         NEW st \in Pipes, NEW k \in CallStates,
         pipe' = [pipe EXCEPT ![u] = st], call' = [call EXCEPT ![c] = k],
         st.stage \in DOMAIN WorkOn =>
           \/ k.task = u /\ k.step \in WorkOn[st.stage]
           \/ st.stage = pipe[u].stage /\ call[c].step \notin WorkOn[st.stage]
  PROVE  PipeInv'
<1>1. PipeTypeOK'
  BY DEF PipeInv, PipeTypeOK, Pipes, CallStates
<1>2. /\ pipe'[u] = st /\ \A t \in Tasks : t # u => pipe'[t] = pipe[t]
      /\ call'[c] = k /\ \A b \in Calls : b # c => call'[b] = call[b]
  BY DEF PipeInv, PipeTypeOK
<1>3. ASSUME NEW t \in Tasks, pipe'[t].stage \in DOMAIN WorkOn
      PROVE  \E b \in Calls : call'[b].task = t /\ call'[b].step \in WorkOn[pipe'[t].stage]
  <2>1. CASE t = u /\ k.task = u /\ k.step \in WorkOn[st.stage]
    BY <1>2, <2>1
  <2>2. CASE t = u /\ st.stage = pipe[u].stage /\ call[c].step \notin WorkOn[st.stage]
    <3>1. PICK b \in Calls : call[b].task = u /\ call[b].step \in WorkOn[pipe[u].stage]
      BY <1>2, <1>3, <2>2 DEF PipeInv, BusyIsWorkedOn
    <3> QED BY <1>2, <2>2, <3>1
  <2>3. CASE t # u
    <3>1. PICK b \in Calls : call[b].task = t /\ call[b].step \in WorkOn[pipe[t].stage]
      BY <1>2, <1>3, <2>3 DEF PipeInv, BusyIsWorkedOn
    <3>2. b # c
      BY <1>2, <1>3, <2>3, <3>1, NothingThere
    <3> QED BY <1>2, <2>3, <3>1, <3>2
  <2> QED BY <1>2, <1>3, <2>1, <2>2, <2>3
<1> QED BY <1>1, <1>3 DEF PipeInv, BusyIsWorkedOn

(* A call that has something to do goes on, and leaves an entry that was   *)
(* there with the stage of another entry st.                               *)
LEMMA CallWrites ==
  ASSUME PipeInv, NEW c \in Calls, call[c].step \in CallSteps,
         NEW step \in CallSteps \cup {"none"}, GoesOn(c, step),
         NEW st, pipe[call[c].task] # NoPipe => st \in Pipes,
         pipe' = Updated(call[c].task, st),
         st.stage \in DOMAIN WorkOn =>
           \/ step \in WorkOn[st.stage]
           \/ st.stage = pipe[call[c].task].stage /\ call[c].step \notin WorkOn[st.stage]
  PROVE  PipeInv'
<1> DEFINE u == call[c].task
           new == IF pipe[u] = NoPipe THEN NoPipe ELSE st
           k == IF step = "none" THEN NoCall ELSE [call[c] EXCEPT !.step = step]
<1>1. call[c] \in [step : CallSteps, task : Tasks]
  BY Waiting DEF PipeInv
<1>2. pipe' = [pipe EXCEPT ![u] = new] /\ new \in Pipes
  BY <1>1, NothingThere DEF Updated, PipeInv, PipeTypeOK
<1>3. call' = [call EXCEPT ![c] = k] /\ k \in CallStates
  BY <1>1 DEF GoesOn, CallStates, PipeInv, PipeTypeOK
<1>4. new.stage \in DOMAIN WorkOn =>
        \/ k.task = u /\ k.step \in WorkOn[new.stage]
        \/ new.stage = pipe[u].stage /\ call[c].step \notin WorkOn[new.stage]
  BY <1>1, NothingThere
<1>5. u \in Tasks
  BY <1>1
<1>6. \E w \in Tasks, entry \in Pipes, after \in CallStates :
        /\ call[c].task = w
        /\ pipe' = [pipe EXCEPT ![w] = entry] /\ call' = [call EXCEPT ![c] = after]
        /\ entry.stage \in DOMAIN WorkOn =>
             \/ after.task = w /\ after.step \in WorkOn[entry.stage]
             \/ entry.stage = pipe[w].stage /\ call[c].step \notin WorkOn[entry.stage]
  <2> HIDE DEF new, k
  <2> QED BY <1>2, <1>3, <1>4, <1>5
<1> QED BY <1>6, CallMoves

LEMMA PipeInvInit == PipeInit => PipeInv
BY NothingThere DEF PipeInit, PipeInv, PipeTypeOK, BusyIsWorkedOn

LEMMA PipeInvStep == PipeInv /\ [PipeNext]_pipeVars => PipeInv'
<1> SUFFICES ASSUME PipeInv, [PipeNext]_pipeVars PROVE PipeInv'
  OBVIOUS
<1>0. PipeTypeOK
  BY DEF PipeInv
<1>1. ASSUME NEW c \in Calls, NEW t \in Tasks, StartPipeline(c, t) PROVE PipeInv'
  <2> DEFINE k == [step |-> "stored", task |-> t]
  <2>1. NewPipe \in Pipes /\ NewPipe.stage = "TaskCompleted"
    BY DEF NewPipe, NoPipe, Pipes, Stages
  <2>2. k \in CallStates /\ k.task = t /\ k.step = "stored"
    BY StageTable DEF CallStates, CallSteps
  <2>3. pipe' = [pipe EXCEPT ![t] = NewPipe] /\ call' = [call EXCEPT ![c] = k] /\ call[c] = NoCall
    BY <1>1 DEF StartPipeline, Begins
  <2> HIDE DEF k
  <2> QED BY <2>1, <2>2, <2>3, WorkTable, CallMoves
<1>2. ASSUME NEW c \in Calls, NEW t \in Tasks, NEW step \in {"skipping"} \cup Decisions,
             Begins(c, step, t), UNCHANGED pipe
      PROVE  PipeInv'
  <2> DEFINE k == [step |-> step, task |-> t]
  <2>1. k \in CallStates
    BY StageTable DEF CallStates, CallSteps
  <2>2. call' = [call EXCEPT ![c] = k] /\ call[c] = NoCall /\ pipe[t] \in Pipes
        /\ pipe' = [pipe EXCEPT ![t] = pipe[t]]
    BY <1>0, <1>2, Entry DEF Begins, PipeTypeOK
  <2>3. pipe[t].stage \in DOMAIN WorkOn => call[c].step \notin WorkOn[pipe[t].stage]
    BY <2>2, NothingThere
  <2> HIDE DEF k
  <2> QED BY <2>1, <2>2, <2>3, CallMoves, Zenon
<1>3. ASSUME NEW c \in Calls, UpdateStage(c) PROVE PipeInv'
  <2> DEFINE u == call[c].task
             st == WithStage(u, NextStage[call[c].step])
  <2>1. call[c].step \in DOMAIN NextStage /\ call[c].step \in CallSteps
    BY <1>3 DEF UpdateStage, CallSteps
  <2>2. u \in Tasks /\ pipe[u] \in Pipes
    BY <1>0, <2>1, Waiting, Entry
  <2>3. pipe[u] # NoPipe => st \in Pipes /\ st.stage = NextStage[call[c].step]
    BY <2>1, <2>2, StageTable DEF WithStage, Pipes
  <2>4. pipe' = Updated(u, st) /\ GoesOn(c, StepAfter(call[c].step))
    BY <1>3 DEF UpdateStage
  <2>5. CASE pipe[u] = NoPipe
    <3>1. pipe' = Updated(u, NoPipe)
      BY <2>4, <2>5 DEF Updated
    <3> QED BY <2>1, <2>4, <3>1, NothingThere, StageTable, CallWrites
  <2>6. CASE pipe[u] # NoPipe
    <3> HIDE DEF st
    <3> QED BY <2>1, <2>3, <2>4, <2>6, StageTable, CallWrites
  <2> QED BY <2>5, <2>6
<1>4. ASSUME NEW c \in Calls, Passes(c) \/ Fails(c) PROVE PipeInv'
  <2> DEFINE u == call[c].task
  <2>1. PICK result \in {"Passed", "Failed"}, step \in {"passed", "failed"} : Verified(c, result, step)
    BY <1>4 DEF Passes, Fails
  <2> DEFINE st == [pipe[u] EXCEPT !.verification = result]
  <2>2. call[c].step = "verify" /\ call[c].step \in CallSteps /\ step \in CallSteps
    BY <2>1, StageTable DEF Verified, CallSteps
  <2>3. pipe[u] \in Pipes
    BY <1>0, <2>2, Waiting, Entry
  <2>4. (pipe[u] # NoPipe => st \in Pipes) /\ st.stage = pipe[u].stage
    BY <2>3 DEF Pipes, NoPipe
  <2>5. pipe' = Updated(u, st) /\ GoesOn(c, step)
    BY <2>1 DEF Verified
  <2> HIDE DEF st
  <2> QED BY <2>2, <2>4, <2>5, WorkTable, CallWrites
<1>5. ASSUME NEW c \in Calls, Errs(c) \/ Summarises(c) PROVE PipeInv'
  <2> DEFINE u == call[c].task
  <2>1. PICK stage \in {"Blocked", "AwaitingReview"} : pipe' = Updated(u, WithStage(u, stage))
    BY <1>5 DEF Errs, Summarises
  <2> DEFINE st == IF pipe[u] = NoPipe THEN NoPipe ELSE WithStage(u, stage)
  <2>2. call[c].step \in CallSteps /\ GoesOn(c, "none")
    BY <1>5 DEF Errs, Summarises, CallSteps
  <2>3. pipe[u] \in Pipes
    BY <1>0, <2>2, Waiting, Entry
  <2>4. st \in Pipes /\ st.stage \notin DOMAIN WorkOn
    BY <2>3, NothingThere, WorkTable DEF Pipes, WithStage, Stages
  <2>5. pipe' = Updated(u, st)
    BY <2>1 DEF Updated
  <2> HIDE DEF st
  <2> QED BY <2>2, <2>4, <2>5, CallWrites
<1>6. ASSUME NEW c \in Calls, SummaryFails(c) PROVE PipeInv'
  <2> DEFINE u == call[c].task
  <2>1. call[c].step = "summary" /\ call[c].step \in CallSteps /\ GoesOn(c, "none") /\ pipe' = pipe
    BY <1>6 DEF SummaryFails, CallSteps
  <2>2. u \in Tasks /\ pipe[u] \in Pipes
    BY <1>0, <2>1, Waiting, Entry
  <2>3. pipe' = Updated(u, pipe[u])
    BY <1>0, <2>1, <2>2 DEF Updated, PipeTypeOK
  <2> QED BY <2>1, <2>2, <2>3, WorkTable, CallWrites
<1>7. ASSUME NEW c \in Calls, WriteDecision(c) PROVE PipeInv'
  <2> DEFINE u == call[c].task
             st == [pipe[u] EXCEPT !.decision = call[c].step]
             step == CASE call[c].step = "Approve" -> "approved"
                       [] call[c].step = "Reject" -> "rejected"
                       [] call[c].step = "RequestChanges" -> "returned"
  <2>1. call[c].step \in Decisions /\ call[c].step \in CallSteps
    BY <1>7 DEF WriteDecision, CallSteps
  <2>2. pipe[u] \in Pipes
    BY <1>0, <2>1, Waiting, Entry
  <2>3. (pipe[u] # NoPipe => st \in Pipes) /\ st.stage = pipe[u].stage
    BY <2>1, <2>2 DEF Pipes, NoPipe
  <2>4. step \in CallSteps
    BY <2>1, StageTable DEF Decisions, CallSteps
  <2>5. pipe' = Updated(u, st) /\ GoesOn(c, step)
    BY <1>7 DEF WriteDecision
  <2>6. \A stage \in DOMAIN WorkOn : call[c].step \notin WorkOn[stage]
    BY <2>1, WorkTable DEF Decisions
  <2> HIDE DEF st, step
  <2> QED BY <2>1, <2>3, <2>4, <2>5, <2>6, CallWrites
<1>8. ASSUME NEW t \in Tasks, CancelPipeline(t) PROVE PipeInv'
  <2>1. \A u \in Tasks : pipe'[u] = IF u = t THEN NoPipe ELSE pipe[u]
    BY <1>0, <1>8 DEF CancelPipeline, PipeTypeOK
  <2>2. PipeTypeOK' /\ call' = call
    BY <1>0, <1>8 DEF CancelPipeline, PipeTypeOK
  <2> QED BY <2>1, <2>2, NothingThere DEF PipeInv, BusyIsWorkedOn
<1>9. CASE UNCHANGED pipeVars
  BY <1>9 DEF PipeInv, PipeTypeOK, BusyIsWorkedOn, pipeVars
<1>10. ASSUME NEW c \in Calls, NEW t \in Tasks, SkipVerification(c, t) PROVE PipeInv'
  BY <1>2, <1>10 DEF SkipVerification
<1>11. ASSUME NEW c \in Calls, NEW t \in Tasks, NEW d \in Decisions, SubmitReview(c, t, d) PROVE PipeInv'
  BY <1>2, <1>11 DEF SubmitReview
<1> QED BY <1>1, <1>3, <1>4, <1>5, <1>6, <1>7, <1>8, <1>9, <1>10, <1>11 DEF PipeNext

(* No pipeline is left in a stage that only a call can end without such a  *)
(* call, for any number of calls that overtake each other on a task: every *)
(* late write is followed by the step that ends the stage it wrote (start, *)
(* skip_verification, submit_review).                                      *)
THEOREM BusyPipelinesAreWorkedOn == PipeSpec => []BusyIsWorkedOn
<1>1. PipeInv => BusyIsWorkedOn
  BY DEF PipeInv
<1> QED BY <1>1, PipeInvInit, PipeInvStep, PTL DEF PipeSpec

(* The writes of a call that is interrupted do not bring a cancelled       *)
(* pipeline back: only start does (update_stage).                          *)
THEOREM CancelHolds == PipeSpec => CancelledStaysCancelled
<1>1. ASSUME PipeInv, [PipeNext]_pipeVars, NEW t \in Tasks, pipe[t] = NoPipe, pipe'[t] # NoPipe
      PROVE  pipe'[t] = NewPipe /\ \E c \in Calls : call[c] = NoCall /\ call'[c].task = t
  <2>1. \A u, st : pipe' # Updated(u, st)
    BY <1>1 DEF Updated, PipeInv, PipeTypeOK
  <2>2. ~ UNCHANGED pipe
    BY <1>1
  <2>3. \A c \in Calls : ~ (UpdateStage(c) \/ Errs(c) \/ Summarises(c) \/ SummaryFails(c))
    BY <2>1, <2>2 DEF UpdateStage, Errs, Summarises, SummaryFails
  <2>4. \A c \in Calls : ~ (Passes(c) \/ Fails(c) \/ WriteDecision(c))
    BY <2>1 DEF Passes, Fails, Verified, WriteDecision
  <2>5. \A u \in Tasks : ~ CancelPipeline(u)
    BY <1>1 DEF CancelPipeline, PipeInv, PipeTypeOK
  <2>6. \A c \in Calls, u \in Tasks, d \in Decisions : ~ (SkipVerification(c, u) \/ SubmitReview(c, u, d))
    BY <2>2 DEF SkipVerification, SubmitReview
  <2>7. ~ UNCHANGED pipeVars /\ \A c \in Calls, u \in Tasks : ~ SkipVerification(c, u)
    BY <2>2 DEF pipeVars, SkipVerification
  <2>8. PICK c \in Calls, u \in Tasks : StartPipeline(c, u)
    BY <1>1, <2>3, <2>4, <2>5, <2>6, <2>7 DEF PipeNext
  <2>9. u = t
    BY <1>1, <2>8 DEF StartPipeline, PipeInv, PipeTypeOK
  <2> QED BY <1>1, <2>8, <2>9 DEF StartPipeline, Begins, PipeInv, PipeTypeOK
<1>2. PipeInv /\ [PipeNext]_pipeVars =>
        [\A t \in Tasks :
           pipe[t] = NoPipe /\ pipe'[t] # NoPipe =>
             pipe'[t] = NewPipe /\ \E c \in Calls : call[c] = NoCall /\ call'[c].task = t]_pipeVars
  BY <1>1
<1> QED BY <1>2, PipeInvInit, PipeInvStep, PTL DEF PipeSpec, CancelledStaysCancelled

(* The pipelines and the calls on them keep their types.                   *)
THEOREM PipeTypesHold == PipeSpec => []PipeTypeOK
<1>1. PipeInv => PipeTypeOK
  BY DEF PipeInv
<1> QED BY <1>1, PipeInvInit, PipeInvStep, PTL DEF PipeSpec

(***************************************************************************)
(* The services together.  They share no variable, so a step of one is a   *)
(* step of its own specification that the others do not see, and each      *)
(* keeps the invariant that was proved of it alone.                        *)
(***************************************************************************)

LEMMA SaveMoves == [Next]_vars => [SaveNext]_saveVars
BY Zenon DEF Next, vars, OnlySave, OnlyUpdate, OnlyStatus, OnlyVerify, OnlyLoop, OnlyBus,
          OnlyLayout, SaveNext, SaveStep

LEMMA UpdateMoves == [Next]_vars => [UpdNext]_updVars
BY Zenon DEF Next, vars, OnlySave, OnlyUpdate, OnlyStatus, OnlyVerify, OnlyLoop, OnlyBus,
          OnlyLayout, UpdNext, DownloadStep

LEMMA StatusMoves == [Next]_vars => [StatusNext]_statusVars
BY Zenon DEF Next, vars, OnlySave, OnlyUpdate, OnlyStatus, OnlyVerify, OnlyLoop, OnlyBus,
          OnlyLayout, StatusNext

LEMMA PipeMoves == [Next]_vars => [PipeNext]_pipeVars
BY Zenon DEF Next, vars, OnlySave, OnlyUpdate, OnlyStatus, OnlyVerify, OnlyLoop, OnlyBus,
          OnlyLayout, PipeNext

LEMMA LoopMoves == [Next]_vars => [LoopNext]_loopVars
BY Zenon DEF Next, vars, OnlySave, OnlyUpdate, OnlyStatus, OnlyVerify, OnlyLoop, OnlyBus,
          OnlyLayout, LoopNext

LEMMA BusMoves == [Next]_vars => [BusNext]_busVars
BY Zenon DEF Next, vars, OnlySave, OnlyUpdate, OnlyStatus, OnlyVerify, OnlyLoop, OnlyBus,
          OnlyLayout, BusNext, CompactionStep

LEMMA LayoutMoves == [Next]_vars => [LayoutNext]_layoutVars
BY Zenon DEF Next, vars, OnlySave, OnlyUpdate, OnlyStatus, OnlyVerify, OnlyLoop, OnlyBus,
          OnlyLayout, LayoutNext

ServicesInv ==
  /\ service \in Services
  /\ SaveTypeOK
  /\ UpdTypes /\ UpdateRecorded
  /\ StatusInv
  /\ PipeInv
  /\ LoopInv
  /\ BusInv /\ BusRest
  /\ LayoutInvariant

AllTypesOK ==
  /\ SaveTypeOK /\ UpdTypeOK /\ StatusTypeOK /\ PipeTypeOK /\ LoopTypeOK /\ BusTypeOK
  /\ LayoutTypeOK

(* Every variable of every service keeps its type, in the composition that *)
(* is checked, whichever machine moves.                                    *)
THEOREM ServicesTypesHold == SafeSpec => [](TypeOK /\ AllTypesOK)
<1>1. Init => ServicesInv
  <2> SUFFICES ASSUME Init PROVE ServicesInv
    OBVIOUS
  <2>1. /\ SaveInit /\ UpdInit /\ StatusInit /\ PipeInit /\ LoopInit /\ BusInit /\ LayoutInit
        /\ service \in Services
    BY ChosenAssumption DEF Init
  <2>2. SaveTypeOK /\ UpdTypes /\ UpdateRecorded
    BY <2>1, SaveInvInit, UpdTypesInit DEF SaveInv, UpdateRecorded
  <2>3. StatusInv /\ PipeInv /\ LoopInv /\ BusInv /\ BusRest /\ LayoutInvariant
    BY <2>1, StatusInvInit, PipeInvInit, LoopInvInit, BusInvInit, BusRestInit, LayoutStarts
  <2> QED BY <2>1, <2>2, <2>3 DEF ServicesInv
<1>2. ServicesInv /\ [Next]_vars => ServicesInv'
  <2> SUFFICES ASSUME ServicesInv, [Next]_vars PROVE ServicesInv'
    OBVIOUS
  <2>1. service' \in Services
    BY Zenon DEF ServicesInv, Next, vars, OnlySave, OnlyUpdate, OnlyStatus, OnlyVerify, OnlyLoop,
            OnlyBus, OnlyLayout
  <2>2. SaveTypeOK'
    BY SaveMoves, SaveTypeStep DEF ServicesInv
  <2>3. UpdTypes' /\ UpdateRecorded'
    BY UpdateMoves, UpdTypesStep, RecordedStep DEF ServicesInv, UpdateRecorded
  <2>4. StatusInv'
    BY StatusMoves, StatusInvStep DEF ServicesInv
  <2>5. PipeInv' /\ LoopInv'
    BY PipeMoves, PipeInvStep, LoopMoves, LoopInvStep DEF ServicesInv
  <2>6. BusInv' /\ BusRest'
    BY BusMoves, BusInvStep, BusRestStep DEF ServicesInv, BusInv
  <2>7. LayoutInvariant'
    BY LayoutMoves, LayoutKeepsInvariant DEF ServicesInv
  <2> QED BY <2>1, <2>2, <2>3, <2>4, <2>5, <2>6, <2>7 DEF ServicesInv
<1>3. ServicesInv => TypeOK /\ AllTypesOK
  <2> SUFFICES ASSUME ServicesInv PROVE TypeOK /\ AllTypesOK
    OBVIOUS
  <2>1. UpdTypeOK /\ StatusTypeOK /\ PipeTypeOK
    BY TypesAreOK DEF ServicesInv, StatusInv, PipeInv
  <2>2. LoopTypeOK /\ BusTypeOK /\ LayoutTypeOK
    BY LoopInvTypes, BusInvTypes, LayoutTyped DEF ServicesInv
  <2> QED BY <2>1, <2>2 DEF ServicesInv, TypeOK, AllTypesOK
<1> QED BY <1>1, <1>2, <1>3, PTL DEF SafeSpec

================================================================================
