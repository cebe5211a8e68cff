---------------------------- MODULE StatusEngine ----------------------------
(***************************************************************************)
(* How the status of one session comes about.  Three sources disagree: the *)
(* detector, which reads the terminal's output; the hook programs the CLI  *)
(* starts, which leave a signal file per CLI session; and the session      *)
(* files a CLI writes.  Background tasks read them, the UI thread applies  *)
(* what they read, and reconcile decides.  The CLI may run a sub-agent     *)
(* with a CLI session, and so a signal file, of its own.                   *)
(***************************************************************************)
EXTENDS Naturals, FiniteSets, SequencesExt

CONSTANTS
  Clis,         \* of {"claude", "codex"}: the CLIs a session may run
  HookFiles,    \* the signal files that are routed to the session
  Scanners,     \* slots for scans of the signal files
  HookEvents,   \* of HookStatuses: what the hooks signal
  Marks,        \* of {"none", "prompt", "command"}: the marks in the output
  MaxSecond,    \* bound on the clock of the signals
  MaxSignals    \* of each CLI: bound on its hook events

VARIABLES
  cli,          \* the CLI of the session: Claude Code has hooks only
  second,       \* the clock, in seconds, by which signals are stamped
  hook,         \* of each CLI session: the hook program under way
  signal,       \* the signal files
  scan,         \* of each slot: what is still to be read, what was read
  seen,         \* last_processed_hook_signal_ts: per file, the signal
  cache,        \* cached_status of the session
  detector,     \* the session in the detector
  maint,        \* a detector maintenance is under way with the session in it
  jsonl,        \* a check of the CLI's session files, with its result
  synced,       \* output was applied to the detector and reconciled
  shown,        \* the session's status in the workspace
  focused,      \* the session has the focus
  count,        \* history: how many hook events there were
  applied,      \* history: the time stamp of the signal applied last
  viewed        \* history: the user selected the session with a response,
                \* and no new signal and no session file has spoken since

statusVars == <<cli, second, hook, signal, scan, seen, cache, detector, maint, jsonl,
                synced, shown, focused, count, applied, viewed>>
scanVars == <<scan, seen>>
hookVars == <<cli, second, hook, signal, count>>

Statuses == {"Idle", "Working", "NeedsAttention", "ResponseReady"}
HookStatuses == {"idle", "working", "needs_attention", "response_ready"}

ASSUME StatusAssumption ==
  /\ HookEvents \subseteq HookStatuses
  /\ Marks \subseteq {"none", "prompt", "command"}
  /\ MaxSecond \in Nat \ {0}
  /\ \A c \in Clis : MaxSignals[c] \in Nat

NoSignal == [status |-> "none", ts |-> 0, nr |-> 0]
Nothing == [status |-> "none", source |-> "none", expired |-> FALSE, old |-> FALSE]
Signals == [status : HookStatuses, ts : 1 .. MaxSecond, nr : 1 .. MaxSignals[cli]]
Caches == [status : Statuses, source : {"Hook", "Jsonl"},
           expired : BOOLEAN,   \* seen_at lies further back than the ttl
           old : BOOLEAN]       \* status_since, than 30 seconds

StatusTypeOK ==
  /\ cli \in Clis
  /\ second \in 1 .. MaxSecond /\ count \in 0 .. MaxSignals[cli] /\ applied \in 0 .. MaxSecond
  /\ hook \in [HookFiles -> {NoSignal} \cup Signals]
  /\ signal \in [HookFiles -> {NoSignal} \cup Signals]
  /\ scan \in [Scanners -> [busy : BOOLEAN, todo : SUBSET HookFiles, batch : SUBSET (HookFiles \X Signals)]]
  /\ seen \in [HookFiles -> {NoSignal} \cup Signals]
  /\ cache \in {Nothing} \cup Caches
  /\ detector \in [pattern : BOOLEAN, shell : {"none", "prompt", "command"}, calm : BOOLEAN,
                   status : Statuses]
  /\ jsonl \in {"off", "Unknown", "Working", "NeedsAttention"}
  /\ maint \in BOOLEAN /\ synced \in BOOLEAN /\ focused \in BOOLEAN /\ viewed \in BOOLEAN
  /\ shown \in Statuses

NoScan == [busy |-> FALSE, todo |-> {}, batch |-> {}]

StatusInit ==
  /\ cli \in Clis
  /\ second = 1
  /\ hook = [f \in HookFiles |-> NoSignal] /\ signal = [f \in HookFiles |-> NoSignal]
  /\ scan = [k \in Scanners |-> NoScan] /\ seen = [f \in HookFiles |-> NoSignal]
  /\ cache = Nothing
  /\ detector \in [pattern : {FALSE}, shell : {"none"}, calm : BOOLEAN, status : {"Idle"}]
  /\ maint = FALSE /\ jsonl = "off"
  /\ synced = TRUE /\ shown = "Idle" /\ focused \in BOOLEAN
  /\ count = 0 /\ applied = 0 /\ viewed = FALSE

(***************************************************************************)
(* The hook programs.  A CLI waits for its hook program, which stamps the  *)
(* signal and writes the file of its CLI session.                          *)
(***************************************************************************)

SecondPasses ==
  /\ second < MaxSecond /\ second' = second + 1
  /\ UNCHANGED <<cli, hook, signal, scanVars, cache, detector, maint, jsonl, synced, shown, focused, count, applied, viewed>>

HookFires(f, s) ==
  /\ hook[f] = NoSignal /\ count < MaxSignals[cli]
  /\ count' = count + 1
  /\ hook' = [hook EXCEPT ![f] =
       [status |-> s, ts |-> second, nr |-> count + 1]]
  /\ UNCHANGED <<cli, second, signal, scanVars, cache, detector, maint, jsonl, synced, shown, focused, applied, viewed>>

HookWrites(f) ==
  /\ hook[f] # NoSignal
  /\ hook' = [hook EXCEPT ![f] = NoSignal]
  /\ signal' = [signal EXCEPT ![f] = hook[f]]
  /\ UNCHANGED <<cli, second, count, scanVars, cache, detector, maint, jsonl, synced, shown, focused, applied, viewed>>

(***************************************************************************)
(* The detector.                                                           *)
(***************************************************************************)

StatusFromShell(shell) == IF shell = "command" THEN "Working" ELSE "Idle"

(* determine_status: a prompt in the output, the shell's markers, the      *)
(* process.  calm: more than two seconds without output, or the process is *)
(* stopped or gone.                                                        *)
Determined(d) ==
  CASE d.pattern -> "NeedsAttention"
    [] ~ d.pattern /\ d.shell # "none" -> StatusFromShell(d.shell)
    [] OTHER -> IF d.calm THEN "Idle" ELSE "Working"

Detected(d) == [d EXCEPT !.status = Determined(d)]

(* A background task prepares output: process_output, and set_shell_state  *)
(* for the marker in it.                                                   *)
Output(pattern, shell) ==
  /\ synced /\ synced' = FALSE
  /\ detector' = Detected([detector EXCEPT
       !.pattern = pattern, !.calm = FALSE,
       !.shell = IF shell = "none" THEN @ ELSE shell])
  /\ UNCHANGED <<hookVars, scanVars, cache, maint, jsonl, shown, focused, applied, viewed>>

Calm ==
  /\ ~ detector.calm /\ detector' = [detector EXCEPT !.calm = TRUE]
  /\ UNCHANGED <<hookVars, scanVars, cache, maint, jsonl, synced, shown, focused, applied, viewed>>

(***************************************************************************)
(* reconcile and sync_session_status, on what they read and change.        *)
(***************************************************************************)

(* The cached status, unless its time is over.  Resting states the CLI     *)
(* itself reported have no end.                                            *)
Alive(c) ==
  IF c # Nothing /\ c.expired /\ ~ (c.source = "Hook" /\ c.status \in {"Idle", "ResponseReady"})
  THEN Nothing ELSE c

DetectorWins(det, c) ==
  \/ c = Nothing
  \/ det = "Working" /\ c.status # "Working" /\ c.source # "Hook"

StaleAttention(det, c) ==
  c # Nothing /\ c.status = "NeedsAttention" /\ det = "Idle" /\ c.old

Reconciled(det, c) ==
  IF DetectorWins(det, c) \/ StaleAttention(det, c) THEN det ELSE c.status

Sync(st) ==
  LET c == Alive(st.cache)
      det == detector.status
  IN [st EXCEPT !.cache = IF StaleAttention(det, c) THEN Nothing ELSE c,
                !.shown = Reconciled(det, c)]

Here == [cache |-> cache, shown |-> shown, seen |-> seen, applied |-> applied, viewed |-> viewed]

Become(st) ==
  /\ cache' = st.cache /\ shown' = st.shown /\ seen' = st.seen
  /\ applied' = st.applied /\ viewed' = st.viewed

(* The prepared output is applied.                                         *)
OutputApplied ==
  /\ ~ synced /\ synced' = TRUE
  /\ Become(Sync(Here))
  /\ UNCHANGED <<hookVars, scan, detector, maint, jsonl, focused>>

(* Detector maintenance: the tick in the background and the sessions whose *)
(* status it changed, with those that have a cached status; later the      *)
(* reconciliation of each on the UI thread.                                *)
Ticks == detector.shell = "none" \/ detector.pattern

(* Mutant of Batched: only what the tick has changed.                      *)
BatchedChanged(changed) == changed

Batched(changed) == changed \/ cache # Nothing

MaintenanceCollects ==
  /\ ~ maint
  /\ LET d == IF Ticks THEN Detected(detector) ELSE detector
     IN /\ detector' = d
        /\ maint' = Batched(d.status # detector.status)
  /\ UNCHANGED <<hookVars, scanVars, cache, jsonl, synced, shown, focused, applied, viewed>>

MaintenanceApplies ==
  /\ maint /\ maint' = FALSE
  /\ Become(Sync(Here))
  /\ UNCHANGED <<hookVars, scan, detector, jsonl, synced, focused>>

(***************************************************************************)
(* spawn_background_hook_signal_check and apply_hook_signal_update.        *)
(***************************************************************************)

(* Mutant of ScanStarts: another scan may be in flight.                    *)
ScanStartsAnyway ==
  /\ \E k \in Scanners : ~ scan[k].busy
  /\ scan' = [scan EXCEPT ![CHOOSE k \in Scanners : ~ scan[k].busy] = [busy |-> TRUE, todo |-> HookFiles, batch |-> {}]]
  /\ UNCHANGED <<hookVars, seen, cache, detector, maint, jsonl, synced, shown, focused, applied, viewed>>

ScanStarts ==
  /\ \A k \in Scanners : ~ scan[k].busy
  /\ scan' = [scan EXCEPT ![CHOOSE k \in Scanners : ~ scan[k].busy] = [busy |-> TRUE, todo |-> HookFiles, batch |-> {}]]
  /\ UNCHANGED <<hookVars, seen, cache, detector, maint, jsonl, synced, shown, focused, applied, viewed>>

(* One file is read; one that is missing, or half written just now, is     *)
(* passed over.                                                            *)
ScanReads(k, f) ==
  /\ scan[k].busy /\ f \in scan[k].todo
  /\ \E content \in {signal[f]} \cup {n \in {NoSignal} : hook[f] # NoSignal} :
       scan' = [scan EXCEPT ![k].todo = @ \ {f},
                            ![k].batch = IF content = NoSignal THEN @ ELSE @ \cup {<<f, content>>}]
  /\ UNCHANGED <<hookVars, seen, cache, detector, maint, jsonl, synced, shown, focused, applied, viewed>>

(* Mutant of ShouldApply: the same signal is applied again.                *)
ShouldApplyAgain(last, sig) == last = NoSignal \/ sig.ts >= last.ts

(* should_apply_hook_signal: the fingerprint of what the file says.        *)
ShouldApply(last, sig) ==
  \/ last = NoSignal
  \/ sig.ts > last.ts
  \/ sig.ts = last.ts /\ sig.status # last.status

StatusOfSignal(s, prev) ==
  CASE s = "working" -> "Working"
    [] s = "needs_attention" -> "NeedsAttention"
    [] s = "response_ready" -> IF focused THEN "Idle" ELSE "ResponseReady"
    [] OTHER -> IF ~ focused /\ prev = "ResponseReady" THEN "ResponseReady" ELSE "Idle"

Cached(c, status, source) ==
  [status |-> status, source |-> source, expired |-> FALSE,
   old |-> (c # Nothing /\ c.status = status /\ c.old)]

Applied(st, u) ==
  LET f == u[1] sig == u[2] IN
  IF ~ ShouldApply(st.seen[f], sig) THEN st
  ELSE LET s1 == [st EXCEPT !.seen[f] = sig] IN
       Sync([s1 EXCEPT !.cache = Cached(@, StatusOfSignal(sig.status, st.shown), "Hook"),
                            !.applied = sig.ts,
                            !.viewed = @ /\ sig.nr <= st.seen[f].nr])

(* The batch in the order of the time stamps; equal ones in any order.     *)
ByTime(batch) ==
  {q \in SetToSeqs(batch) : \A i, j \in DOMAIN q : i < j => q[i][2].ts <= q[j][2].ts}

(* The signals are applied one after the other: after[i] is what the first *)
(* i of them leave.                                                        *)
AfterAll(q) ==
  LET after[i \in 0 .. Len(q)] == IF i = 0 THEN Here ELSE Applied(after[i - 1], q[i])
  IN  after[Len(q)]

ScanApplies(k) ==
  /\ scan[k].busy /\ scan[k].todo = {}
  /\ scan' = [scan EXCEPT ![k] = NoScan]
  /\ \E q \in ByTime(scan[k].batch) : Become(AfterAll(q))
  /\ UNCHANGED <<hookVars, detector, maint, jsonl, synced, focused>>

(***************************************************************************)
(* spawn_background_jsonl_check.                                           *)
(***************************************************************************)

JsonlReads(result) ==
  /\ cli = "codex" /\ jsonl = "off" /\ jsonl' = result
  /\ UNCHANGED <<hookVars, scanVars, cache, detector, maint, synced, shown, focused, applied, viewed>>

(* A result is cached; without one a cached result that is over is dropped *)
(* once the detector sees an idle shell.                                   *)
JsonlApplies ==
  /\ jsonl # "off" /\ jsonl' = "off"
  /\ IF jsonl # "Unknown"
     THEN Become(Sync([Here EXCEPT !.cache = Cached(@, jsonl, "Jsonl"), !.viewed = FALSE]))
     ELSE IF /\ detector.status = "Idle"
             /\ cache # Nothing /\ cache.source = "Jsonl" /\ cache.expired
          THEN Become(Sync([Here EXCEPT !.cache = Nothing]))
          ELSE UNCHANGED <<cache, shown, seen, applied, viewed>>
  /\ UNCHANGED <<hookVars, scan, detector, maint, synced, focused>>

(***************************************************************************)
(* The user, and time.                                                     *)
(***************************************************************************)

(* select_session_with_cx.                                                 *)
Select ==
  /\ focused' = TRUE
  /\ IF cache # Nothing /\ cache.status = "ResponseReady"
     THEN /\ cache' = [cache EXCEPT !.status = "Idle", !.old = FALSE]
          /\ viewed' = TRUE
     ELSE UNCHANGED <<cache, viewed>>
  /\ UNCHANGED <<hookVars, scanVars, detector, maint, jsonl, synced, shown, applied>>

LoseFocus ==
  /\ focused /\ focused' = FALSE
  /\ UNCHANGED <<hookVars, scanVars, cache, detector, maint, jsonl, synced, shown, applied, viewed>>

(* Time that passes matters to a status that is not a resting one alone.   *)
Ages ==
  /\ cache.status = "NeedsAttention" /\ ~ cache.old /\ cache' = [cache EXCEPT !.old = TRUE]
  /\ UNCHANGED <<hookVars, scanVars, detector, maint, jsonl, synced, shown, focused, applied, viewed>>

Expires ==
  /\ cache.status \in {"Working", "NeedsAttention"} /\ ~ cache.expired /\ cache' = [cache EXCEPT !.expired = TRUE]
  /\ UNCHANGED <<hookVars, scanVars, detector, maint, jsonl, synced, shown, focused, applied, viewed>>

StatusNext ==
  \/ SecondPasses
  \/ \E f \in HookFiles, s \in HookEvents : HookFires(f, s)
  \/ \E f \in HookFiles : HookWrites(f)
  \/ \E p \in BOOLEAN, sh \in Marks : Output(p, sh)
  \/ Calm \/ OutputApplied \/ MaintenanceCollects \/ MaintenanceApplies
  \/ ScanStarts
  \/ \E k \in Scanners : ScanApplies(k) \/ \E f \in HookFiles : ScanReads(k, f)
  \/ JsonlApplies
  \/ \E r \in {"Unknown", "Working", "NeedsAttention"} : JsonlReads(r)
  \/ Select \/ LoseFocus \/ Ages \/ Expires

StatusSpec == StatusInit /\ [][StatusNext]_statusVars

(* The maintenance timer goes on, prepared output is applied, time passes. *)
StatusFairness ==
  /\ WF_statusVars(MaintenanceCollects)
  /\ WF_statusVars(MaintenanceApplies)
  /\ WF_statusVars(OutputApplied)
  /\ WF_statusVars(Ages)

(***************************************************************************)
(* Properties.                                                             *)
(***************************************************************************)

(* What a CLI session signalled later is never undone by what it signalled *)
(* earlier, not even within one second (should_apply_hook_signal looks at  *)
(* seconds): a scan is not begun while another is in flight.               *)
SignalsInOrder ==
  [][\A f \in HookFiles :
       seen'[f].nr >= seen[f].nr]_statusVars

(* "If the session showed ResponseReady, downgrade the cache to Idle": the *)
(* response a user has looked at is not marked as unread again by a scan   *)
(* that finds the same signal file, now that the session has no focus.     *)
ViewedStaysViewed == viewed /\ cache # Nothing => cache.status # "ResponseReady"

(* A session that waits for attention although its CLI has gone does not   *)
(* do so for ever: maintenance looks at sessions with a cached status even *)
(* when the detector has nothing new to say of them.                       *)
StaleAttentionEnds ==
  (cli = "claude" /\ shown = "NeedsAttention" /\ detector.status = "Idle")
    ~> (shown # "NeedsAttention" \/ detector.status # "Idle")

(* "Sort by timestamp so that the newest signal for each session is        *)
(* processed last and wins the cached status": a signal that is applied is *)
(* not older than the one before it, whichever file it is in.              *)
NewestSignalWins == [][applied' >= applied]_statusVars
=============================================================================
