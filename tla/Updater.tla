------------------------------- MODULE Updater -------------------------------
(***************************************************************************)
(* The update service, the file it persists its state in, the directory    *)
(* of artifacts, and the toast the user sees.                              *)
(*                                                                         *)
(* The service's tasks run on one worker thread, so a task is interrupted  *)
(* only where it awaits: a check while it waits for the answer, a download *)
(* before it begins, while it fetches the checksums and while it fetches   *)
(* the artifact.  The buttons of the toast call the service from the UI    *)
(* thread.                                                                 *)
(*                                                                         *)
(* Whenever update-state.json is read or written, that may fail: a file    *)
(* that cannot be read counts as an empty one, a write that fails leaves   *)
(* the file as it was, and the service goes on in either case.  Removing   *)
(* an artifact is taken to succeed, and every stored update to have a      *)
(* checksum, as start_download writes it.                                  *)
(***************************************************************************)
EXTENDS Naturals, Sequences, SequencesExt

CONSTANTS
  MaxRelease,   \* bound on the versions that are released
  Downloads,    \* slots of download tasks: a bound on how many exist at once
  UpdateCap      \* events of the updater the UI's receiver holds

Releases == 1 .. MaxRelease
NoVersion == 0
NoDownload == "no download"

ASSUME UpdaterAssumption ==
  /\ MaxRelease \in Nat \ {0} /\ UpdateCap \in Nat \ {0}
  /\ NoDownload \notin Downloads

VARIABLES
  release,      \* the newest release, as GitHub would answer
  current,      \* the version that is installed and runs
  up,           \* the program runs
  upd,          \* UpdateService::state, with its version
  check,        \* the background task: "off", "waiting" for the interval's tick, at which
                \* a check is "due", "asking"
  dl,           \* of each download task: step, version, token, its file
  token,        \* the task whose token download_cancel holds
  saved,        \* update-state.json
  artifact,     \* what is under the artifact's name in the cache directory
  helper,       \* the version the helper script installs after exit
  toast,        \* the fields of the workspace the toast is made of
  events,       \* events in the UI's receiver
  stray,        \* history: Update was clicked on a toast that was out of date
  lapse         \* history: what was staged last was not written down, or the file
                \* was written anew after it could not be read

updVars == <<release, current, up, upd, check, dl, token, saved, artifact, helper, toast, events, stray, lapse>>

State(kind, v) == [kind |-> kind, ver |-> v]
NoTask == [step |-> "none", ver |-> NoVersion, cancelled |-> FALSE, file |-> "none"]
NothingSaved == [known |-> NoVersion, available |-> NoVersion, staged |-> NoVersion, recent |-> FALSE]
NoToast == [info |-> NoVersion, dismissed |-> FALSE, progress |-> FALSE, staged |-> NoVersion]

UpdateEvents == {"available", "progress", "ready", "failed", "quit"}

UpdTypeOK ==
  /\ release \in Releases /\ current \in Releases
  /\ up \in BOOLEAN /\ stray \in BOOLEAN /\ lapse \in BOOLEAN
  /\ upd \in [kind : {"Idle", "Checking", "UpdateAvailable", "Downloading", "Staged", "Applying"},
              ver : Releases \cup {NoVersion}]
  /\ check \in {"off", "waiting", "due", "asking"}
  /\ dl \in [Downloads -> [step : {"none", "queued", "checksums", "fetching"},
                           ver : Releases \cup {NoVersion},
                           cancelled : BOOLEAN,
                           file : {"none", "own", "shared", "unlinked"}]]
  /\ token \in Downloads \cup {NoDownload}
  /\ saved \in [known : Releases \cup {NoVersion},
                available : Releases \cup {NoVersion},
                staged : Releases \cup {NoVersion},
                recent : BOOLEAN]
  /\ artifact \in [Releases -> {"absent", "partial", "good"}]
  /\ helper \in Releases \cup {NoVersion}
  /\ toast \in [info : Releases \cup {NoVersion}, dismissed : BOOLEAN, progress : BOOLEAN,
                staged : Releases \cup {NoVersion}]
  /\ Len(events) <= UpdateCap /\ Range(events) \subseteq UpdateEvents

UpdInit ==
  /\ release \in Releases /\ current = 1
  /\ up = FALSE
  /\ upd = State("Idle", NoVersion)
  /\ check = "off"
  /\ dl = [d \in Downloads |-> NoTask]
  /\ token = NoDownload
  /\ saved = NothingSaved
  /\ artifact = [v \in Releases |-> "absent"]
  /\ helper = NoVersion
  /\ toast = NoToast
  /\ events = <<>>
  /\ stray = FALSE /\ lapse = FALSE

(* publish: the receiver that is full loses its oldest event; progress     *)
(* events in a row count as one.                                           *)
Published(q, e) ==
  IF e = "progress" /\ q # <<>> /\ Last(q) = e THEN q
  ELSE IF Len(q) = UpdateCap THEN Append(Tail(q), e) ELSE Append(q, e)

(***************************************************************************)
(* The world: releases, the clock, the end of the process, the helper.     *)
(***************************************************************************)

NewRelease ==
  /\ release < MaxRelease /\ release' = release + 1
  /\ UNCHANGED <<current, up, upd, check, dl, token, saved, artifact, helper, toast, events, stray, lapse>>

(* last_check_timestamp is 24 hours old, and the interval of the task that *)
(* waits ticks.  The answer to a check takes less than that.               *)
DayPasses ==
  /\ saved' = [saved EXCEPT !.recent = FALSE]
  /\ check' = IF check = "waiting" THEN "due" ELSE check
  /\ UNCHANGED <<release, current, up, upd, dl, token, artifact, helper, toast, events, stray, lapse>>

(* The process ends, by a quit or a crash: the tasks are gone, the files   *)
(* stay.  A helper script then installs the artifact, or fails to.         *)
ProcessEnds ==
  /\ up /\ up' = FALSE
  /\ upd' = State("Idle", NoVersion) /\ check' = "off"
  /\ dl' = [d \in Downloads |-> NoTask] /\ token' = NoDownload
  /\ toast' = NoToast /\ events' = <<>>
  /\ \/ current' = current
     \/ helper # NoVersion /\ artifact[helper] # "absent" /\ current' = helper
  /\ helper' = NoVersion /\ lapse' = FALSE
  /\ UNCHANGED <<release, saved, artifact, stray>>

(***************************************************************************)
(* start_background_check, until its first await.                          *)
(***************************************************************************)

(* load_state().unwrap_or_default().                                       *)
Loaded(readable) == IF readable THEN saved ELSE NothingSaved

VersionChanged(s) == s.known \notin {NoVersion, current}

(* Step 2: what was staged or offered before another version was installed *)
(* is dropped; a file that names no version is left as it is but for that. *)
Known(s) ==
  [s EXCEPT !.known = current,
            !.available = IF VersionChanged(s) THEN NoVersion ELSE @,
            !.staged = IF VersionChanged(s) THEN NoVersion ELSE @]

(* Step 3: so is what is missing or installed already.                     *)
Kept(s) == s.staged # NoVersion /\ ~ VersionChanged(s) /\ s.staged # current /\ artifact[s.staged] # "absent"

ReconciledState(s) == IF Kept(s) THEN Known(s) ELSE [Known(s) EXCEPT !.staged = NoVersion]

Cleaned(s) ==
  IF s.staged = NoVersion \/ Kept(s) THEN artifact ELSE [artifact EXCEPT ![s.staged] = "absent"]

(* Mutant of Verifies: what exists is good.                                *)
VerifiesAnything(content) == content # "absent"

(* verify_sha256 of the artifact against the checksum of the release.      *)
Verifies(content) == content = "good"

(* Step 4: a newer staged update is verified and handed to the helper.     *)
(* The file was written before only if it named no version.                *)
AutoApply(s) ==
  LET staged == ReconciledState(s).staged IN
  /\ staged > current /\ Verifies(artifact[staged])
  /\ upd' = State("Applying", NoVersion)
  /\ helper' = staged
  /\ events' = Published(events, "quit")
  /\ saved' \in {saved, Known(s)}
  /\ check' = "off"
  /\ UNCHANGED artifact

(* Step 4, failed: a mismatch or an error of apply_update drops the staged *)
(* update.  Step 5: the available update is restored if it is newer, and   *)
(* the first check begins if it is due.  The file is written after each    *)
(* step: the last write that succeeds is what stays.                       *)
Resume(s) ==
  LET kept == ReconciledState(s)
      applied == [kept EXCEPT !.staged = IF @ > current THEN NoVersion ELSE @]
      restored == [applied EXCEPT !.available = IF @ > current THEN @ ELSE NoVersion]
      available == restored.available
  IN /\ saved' \in {saved, Known(s), kept, applied, restored}
     /\ artifact' = [v \in Releases |->
          IF v = kept.staged /\ v > current THEN "absent" ELSE Cleaned(s)[v]]
     /\ upd' = IF ~ s.recent THEN State("Checking", NoVersion)
               ELSE IF available # NoVersion THEN State("UpdateAvailable", available) ELSE upd
     /\ events' = IF available # NoVersion THEN Published(events, "available") ELSE events
     /\ check' = IF s.recent THEN "waiting" ELSE "asking"
     /\ UNCHANGED helper

Start ==
  /\ ~ up /\ up' = TRUE
  /\ \E readable \in BOOLEAN : AutoApply(Loaded(readable)) \/ Resume(Loaded(readable))
  /\ UNCHANGED <<release, current, dl, token, toast, stray, lapse>>

(***************************************************************************)
(* do_check.                                                               *)
(***************************************************************************)

CheckBegins ==
  /\ check = "due"
  /\ check' = "asking"
  /\ upd' = State("Checking", NoVersion)
  /\ UNCHANGED <<release, current, up, dl, token, saved, artifact, helper, toast, events, stray, lapse>>

(* Mutant of CheckEnds: what was saved before the answer is saved again.   *)
CheckEndsWithOldState ==
  /\ check = "asking"
  /\ check' = "waiting"
  /\ release > current
  /\ saved' = [saved EXCEPT !.available = release, !.staged = NoVersion, !.recent = TRUE]
  /\ upd' = State("UpdateAvailable", release)
  /\ events' = Published(events, "available")
  /\ UNCHANGED <<release, current, up, dl, token, artifact, helper, toast, stray, lapse>>

(* The answer: a newer release, none (or none with an artifact for this    *)
(* platform), an error.  The saved state is loaded again only now, and     *)
(* whatever the state of the service has become meanwhile is replaced.     *)
(* What was loaded is written back in all three cases: with it goes the    *)
(* staged update, if the file could not be read.                           *)
CheckEnds ==
  /\ check = "asking"
  /\ check' = "waiting"
  /\ \E readable \in BOOLEAN, written \in BOOLEAN, found \in Releases \cup {NoVersion} :
       /\ saved' = IF written THEN [Loaded(readable) EXCEPT !.available = found, !.recent = TRUE] ELSE saved
       /\ lapse' = (lapse \/ (written /\ ~ readable))
       /\ \/ /\ found = release /\ release > current
             /\ upd' = State("UpdateAvailable", release)
             /\ events' = Published(events, "available")
          \/ /\ found = NoVersion
             /\ upd' = State("Idle", NoVersion)
             /\ UNCHANGED events
          \/ /\ found = Loaded(readable).available
             /\ upd' = State("Idle", NoVersion)
             /\ events' = Published(events, "failed")
  /\ UNCHANGED <<release, current, up, dl, token, artifact, helper, toast, stray>>

(***************************************************************************)
(* start_download and its task.                                            *)
(***************************************************************************)

(* The token is replaced before the task looks at the state.               *)
StartDownload(d) ==
  /\ dl[d].step = "none"
  /\ dl' = [dl EXCEPT ![d] = [NoTask EXCEPT !.step = "queued"]]
  /\ token' = d
  /\ stray' = (stray \/ upd.kind # "UpdateAvailable" \/ \E e \in Downloads : dl[e].step # "none")

Refused(d) ==
  /\ dl[d].step = "queued" /\ upd.kind # "UpdateAvailable"
  /\ dl' = [dl EXCEPT ![d] = NoTask]
  /\ UNCHANGED <<release, current, up, upd, check, token, saved, artifact, helper, toast, events, stray, lapse>>

(* Every file of the directory is removed; who writes one goes on writing  *)
(* a file that has no name.                                                *)
Begin(d) ==
  /\ dl[d].step = "queued" /\ upd.kind = "UpdateAvailable"
  /\ upd' = State("Downloading", NoVersion)
  /\ artifact' = [v \in Releases |-> "absent"]
  /\ dl' = [e \in Downloads |->
       IF e = d THEN [dl[d] EXCEPT !.step = "checksums", !.ver = upd.ver]
       ELSE IF dl[e].step = "fetching" THEN [dl[e] EXCEPT !.file = "unlinked"] ELSE dl[e]]
  /\ UNCHANGED <<release, current, up, check, token, saved, helper, toast, events, stray, lapse>>

(* File::create: truncates the file another task of this version writes.   *)
Create(d) ==
  /\ dl[d].step = "checksums"
  /\ artifact' = [artifact EXCEPT ![dl[d].ver] = "partial"]
  /\ dl' = [e \in Downloads |->
       IF e = d THEN [dl[d] EXCEPT !.step = "fetching", !.file = "own"]
       ELSE IF dl[e].file = "own" /\ dl[e].ver = dl[d].ver
            THEN [dl[e] EXCEPT !.file = "shared"] ELSE dl[e]]
  /\ UNCHANGED <<release, current, up, upd, check, token, saved, helper, toast, events, stray, lapse>>

(* on_progress.                                                            *)
Progress(d) ==
  /\ dl[d].step = "fetching"
  /\ upd' = State("Downloading", NoVersion)
  /\ events' = Published(events, "progress")
  /\ UNCHANGED <<release, current, up, check, dl, token, saved, artifact, helper, toast, stray, lapse>>

(* The last chunk, the last progress, the verification of what is under    *)
(* the name now, and the staging, which goes ahead whether the saved state *)
(* could be read and written or not.                                       *)
Complete(d) ==
  /\ dl[d].step = "fetching"
  /\ LET v == dl[d].ver IN
     \E content \in IF dl[d].file = "unlinked" THEN {artifact[v]} ELSE {"good", "partial"} :
       IF Verifies(content)
       THEN /\ artifact' = [artifact EXCEPT ![v] = content]
            /\ \E readable \in BOOLEAN, written \in BOOLEAN :
                 /\ saved' = IF written THEN [Loaded(readable) EXCEPT !.available = NoVersion, !.staged = v]
                             ELSE saved
                 /\ lapse' = ~ written
            /\ upd' = State("Staged", v)
            /\ events' = Published(Published(events, "progress"), "ready")
       ELSE /\ artifact' = [artifact EXCEPT ![v] = "absent"]
            /\ upd' = State("UpdateAvailable", v)
            /\ events' = Published(Published(events, "progress"), "failed")
            /\ UNCHANGED <<saved, lapse>>
  /\ dl' = [dl EXCEPT ![d] = NoTask]
  /\ UNCHANGED <<release, current, up, check, token, helper, toast, stray>>

(* The network fails, or the token was cancelled.                          *)
Fail(d) ==
  /\ dl[d].step \in {"checksums", "fetching"}
  /\ upd' = State("UpdateAvailable", dl[d].ver)
  /\ events' = Published(events, "failed")
  /\ dl' = [dl EXCEPT ![d] = NoTask]
  /\ UNCHANGED <<release, current, up, check, token, saved, artifact, helper, toast, stray, lapse>>

Cancelled(d) ==
  /\ dl[d].step \in {"checksums", "fetching"} /\ dl[d].cancelled
  /\ upd' = State("UpdateAvailable", dl[d].ver)
  /\ dl' = [dl EXCEPT ![d] = NoTask]
  /\ UNCHANGED <<release, current, up, check, token, saved, artifact, helper, toast, events, stray, lapse>>

(***************************************************************************)
(* The toast and its buttons (render_update_toast, poll_update_events).    *)
(***************************************************************************)

Variant ==
  CASE toast.staged # NoVersion -> "ReadyToApply"
    [] toast.staged = NoVersion /\ toast.progress -> "Downloading"
    [] toast.staged = NoVersion /\ ~ toast.progress /\ toast.info # NoVersion /\ ~ toast.dismissed
         -> "UpdateAvailable"
    [] OTHER -> "none"

ClickUpdate(d) ==
  /\ up /\ Variant = "UpdateAvailable"
  /\ StartDownload(d)
  /\ UNCHANGED <<release, current, up, upd, check, saved, artifact, helper, toast, events, lapse>>

(* cancel_download cancels the token that is stored now.                   *)
ClickCancel ==
  /\ up /\ Variant = "Downloading"
  /\ dl' = IF token = NoDownload THEN dl ELSE [dl EXCEPT ![token].cancelled = (dl[token].step # "none")]
  /\ toast' = [toast EXCEPT !.progress = FALSE,
                            !.info = IF upd.kind = "UpdateAvailable" THEN upd.ver ELSE @]
  /\ UNCHANGED <<release, current, up, upd, check, token, saved, artifact, helper, events, stray, lapse>>

ClickDismiss ==
  /\ up /\ Variant \in {"UpdateAvailable", "ReadyToApply"}
  /\ ~ toast.dismissed
  /\ toast' = [toast EXCEPT !.dismissed = TRUE]
  /\ UNCHANGED <<release, current, up, upd, check, dl, token, saved, artifact, helper, events, stray, lapse>>

(* apply: verifies the staged artifact again before it starts the helper.  *)
ClickRestart ==
  /\ up /\ Variant = "ReadyToApply" /\ upd.kind = "Staged"
  /\ \/ /\ Verifies(artifact[upd.ver])
        /\ upd' = State("Applying", NoVersion)
        /\ \/ helper' = upd.ver /\ events' = Published(events, "quit")
           \/ UNCHANGED <<helper, events>>
        /\ UNCHANGED artifact
     \/ /\ artifact[upd.ver] # "absent" /\ ~ Verifies(artifact[upd.ver])
        /\ artifact' = [artifact EXCEPT ![upd.ver] = "absent"]
        /\ upd' = State("Idle", NoVersion)
        /\ UNCHANGED <<helper, events>>
  /\ UNCHANGED <<release, current, up, check, dl, token, saved, toast, stray, lapse>>

PollUpdateEvent ==
  /\ up /\ events # <<>>
  /\ Head(events) # "quit"
  /\ events' = Tail(events)
  /\ toast' =
       CASE Head(events) = "available" ->
              IF ~ toast.dismissed /\ upd.kind = "UpdateAvailable"
              THEN [toast EXCEPT !.info = upd.ver] ELSE toast
         [] Head(events) = "progress" -> [toast EXCEPT !.progress = TRUE]
         [] Head(events) = "ready" ->
              IF upd.kind = "Staged" THEN [toast EXCEPT !.staged = upd.ver, !.progress = FALSE]
              ELSE toast
         [] OTHER -> [toast EXCEPT !.progress = FALSE]
  /\ UNCHANGED <<release, current, up, upd, check, dl, token, saved, artifact, helper, stray, lapse>>

DownloadStep(d) ==
  \/ ClickUpdate(d) \/ Refused(d) \/ Begin(d) \/ Create(d) \/ Progress(d)
  \/ Complete(d) \/ Fail(d) \/ Cancelled(d)

UpdNext ==
  \/ NewRelease \/ DayPasses \/ ProcessEnds \/ Start
  \/ CheckBegins \/ CheckEnds
  \/ \E d \in Downloads : DownloadStep(d)
  \/ ClickCancel \/ ClickDismiss \/ ClickRestart \/ PollUpdateEvent

UpdSpec == UpdInit /\ [][UpdNext]_updVars

(***************************************************************************)
(* Properties.                                                             *)
(***************************************************************************)

(* An update that is ready, in the service or on the toast, is recorded in *)
(* update-state.json, so that the next start applies it: no check that was *)
(* under way while it was staged writes it away (do_check loads the file   *)
(* after its await), and a check whose write fails does not harm it.  What *)
(* the service only warns of is excepted: the write that was to record it  *)
(* failed, or a check could not read the file and wrote an empty one.      *)
ReadyIsRecorded ==
  ~ lapse =>
    /\ upd.kind = "Staged" => saved.staged = upd.ver
    /\ toast.staged # NoVersion => saved.staged # NoVersion

(* What the helper will install has passed the verification and is still   *)
(* whole, as long as Update is clicked only while an update is available   *)
(* and no download under way.                                              *)
HelperGetsWholeArtifact == helper # NoVersion /\ ~ stray => artifact[helper] = "good"
=============================================================================
