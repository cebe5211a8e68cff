# A verification project for Codirigent

Codirigent runs several AI coding CLIs in terminals side by side, keeps a board
of tasks, hands tasks to sessions that are idle, and shows what every session
prints. This directory holds TLA+ models of the parts where order, concurrency
and failure matter, the TLC runs that check them, and the proofs TLAPS checks.
Paths below are relative to `src/crates/`.

## 1. The system

| Part | Where | State | Operations | Talks to |
|---|---|---|---|---|
| Task queue | `codirigent-core/src/scheduler/` | map of tasks, order of queued ids, index of blocked tasks | enqueue, dequeue, assign, complete, requeue, rebuild the index, choose the next task | owned by the task manager |
| Task manager | `codirigent-core/src/task_manager.rs` | the queue, the proposals, the storage | create, update, delete, start, review, approve, completion of a verification, assignment, session status changes, load, save | UI thread, under one lock |
| Assignment manager | `.../assignment.rs` | pending proposals, mode, idle timers | propose, confirm, reject, expire, switch mode | task manager |
| File storage | `.../storage.rs` | one JSON file per task | atomic write, delete, list, load | task manager |
| Task board | `codirigent-ui/src/workspace/impl_task_board.rs`, `impl_modals.rs` | current task of each session, manually assigned sessions | the buttons of each column, confirm, reject, mode | task manager, session manager |
| Status reconciliation | `.../impl_output_polling/status_reconcile.rs`, `terminal_input.rs` | status of each session, compactions, deferred Enters | status change, poll, timeouts | task manager, compaction service |
| Output reader and session manager | `codirigent-session/src/pty.rs`, `manager.rs` | one channel, one flag and one thread per session, the update channel, the set of sessions with pending output | read, notify, drain, close | output dispatcher |
| Output dispatcher and polling | `codirigent-ui/.../output_dispatcher.rs`, `output_runtime.rs` | ready, in-flight and closed sessions, background tasks | poll, fallback, complete, close, discard | session manager, terminals |
| Status engine, hooks, detector | `codirigent-ui/.../status_engine.rs`, `hook_signals.rs`, `cli_pollers.rs`, `codirigent-hook`, `codirigent-detector` | cached status of each session with its ages, signal files, the detector's sessions, scans under way | output, hook, scan, apply, tick, select, expiry | reconciliation |
| Event bus, integration layer | `codirigent-core/src/event_bus.rs`, `codirigent-ui/src/integration.rs` | broadcast channel, monitored sessions, tasks, compactions and their threads, state file | create, close, rename, handle an event, save, compact, wait, time out | every part |
| Auto-save, persistence | `codirigent-core/src/auto_save.rs`, `persistence_service.rs` | managed state, two background tasks, state file and its temporary file | update, tick, event, save now, stop | the file system |
| Updater | `codirigent-updater/src/service.rs`, `state.rs`, `codirigent-ui/.../toast_render.rs` | state of the service, cancel token, artifacts, recorded state, toast | check, download, cancel, stage, apply, start | UI, helper script |
| Verification pipeline | `codirigent-verification/src/pipeline.rs` | stage and result of each task | start, skip, review, cancel | task manager |
| Ralph loop controller | `codirigent-session/src/ralph_controller.rs` | the loop of each session | start, pause, resume, stop, record, clean up | the driver of a loop |
| Layout | `codirigent-ui/src/layout/`, `workspace/core.rs` | cells or split tree, tab groups, overflow list, hidden stacks, focus | add, remove, select, group, swap, split, close, change the layout | UI |

`PROJECT.json` lists every part with what is and is not modelled.

**Where it is hard.** Six things, in the order in which this project takes them
up:

1. *Bookkeeping kept in several places.* The status of a task, the order of
   queued ids, the blocked index, the file on disk, the session's current task
   and the task's assigned session say overlapping things, and different
   handlers write them. Several operations write a status behind the queue's
   back. Any write to disk may fail after the memory has changed, and a restart
   rebuilds the memory from the files.
2. *Answers that come late.* A proposal waits for the user while the session is
   given other work, is closed, or the task is deleted. A prompt is typed and
   its Enter follows; a compaction is assumed to be over when the session looks
   idle.
3. *The output pipeline.* A reader thread per session, a UI poll, and background
   tasks that drain under a lock, with bounded channels and a flag that
   suppresses duplicate wake-ups: the classical ground for a lost wake-up.
4. *Timers.* Everything that must eventually happen (the next task is given out,
   output appears) hangs on a poll that comes again.
5. *Calls that wait.* A verification, a check for updates, a download, a scan of
   signal files reads, waits, and writes; what it read may be old by then, and
   what it answers may be cancelled, begun again, or shared with another call.
6. *One fact on several screens.* The layout keeps a session in a pane, in a tab
   group, in an overflow list and in a hidden stack, and each operation has to
   keep them in step.

**What makes each part correct.** Queue: no runnable task is hidden, nothing is
listed twice or for ever. Manager: a task's life follows the board's columns,
also across restarts; a task the user sees is on disk. Board: a session holds
one task, and the one it is working on. Output: once, in order, eventually; no
session comes back after it is closed. Services: what is saved is whole and
catches up, what was cancelled stays so, what was verified is what is installed,
no pipeline is left where nobody moves it on, what runs ends, and every open session can be
reached. The properties below say this, and
`hazards` in `PROJECT.json` names the lines where it could break.

## 2. The modules

| Module | Models | Extends / instantiates |
|---|---|---|
| `VecOps` | the vector operations the queue uses (`retain`, positions, count) | |
| `TaskQueue` | `scheduler/queue.rs`, `scheduler/selection.rs` | `VecOps` |
| `TaskManager` | `task_manager.rs`, `assignment.rs`, `storage.rs` | instance of `TaskQueue` on the same variables |
| `TaskLifecycle` | abstract: the life of a task on the board | |
| `TaskBoard` | `impl_task_board.rs`, `impl_modals.rs`, `status_reconcile.rs`, `terminal_input.rs`, the timers of `impl_output_polling.rs`, `close_session` | instance of `TaskManager` |
| `OutputStream` | abstract: the terminal shows a prefix of the output | |
| `OutputPipeline` | `pty.rs` (reader), `manager.rs` (callbacks, drain), `output_runtime.rs`, `output_dispatcher.rs` | |
| `AutoSave` | `auto_save.rs`, `save_state` of `persistence_service.rs` | |
| `Updater` | `codirigent-updater`, the update toast | |
| `StatusEngine` | `status_engine.rs`, `hook_signals.rs`, `cli_pollers.rs`, the hook program, the detector, `select_session_with_cx` | |
| `VerificationPipeline` | `codirigent-verification/src/pipeline.rs` | |
| `RalphLoop` | `ralph_controller.rs`, `ralph.rs` | |
| `Integration` | `event_bus.rs`, `integration.rs` | |
| `PaneLayout` | `layout/state.rs`, `layout/split_tree.rs`, `workspace/core.rs` | `VecOps` |
| `VecOps_proofs` | facts about vectors, and the induction over positions | `VecOps` |
| `TaskQueue_proofs`, `TaskManager_proofs`, `TaskBoard_proofs`, `OutputPipeline_proofs` | theorems | the module they are named for; the board's has an instance of the manager's |
| `Sessions_proofs` | theorems | `StatusEngine`, `Integration` |
| `Layout_proofs` | theorems | `PaneLayout` |
| `Services_proofs` | theorems, of `AutoSave`, `Updater`, `RalphLoop`, `VerificationPipeline` and of all services together | `MC_Services`, `Sessions_proofs`, `Layout_proofs` |
| `MC_*` | constants of the runs | |

### Task queue
`tasks`, `order` and `blocked` are the three fields. One action per method; a
method that returns `Err` is not enabled. `Enqueue` computes only the new task's
entry of the index, as `update_blocked_for_task` does, and `Dequeue` leaves the
others alone. `NextTasks` is a *set*: in mode Fifo the first eligible id, in the
scored modes any eligible id, since scores depend on age, tags and priorities
that the model leaves out.

### Task manager
A call runs to its end under the manager's lock and is one step. `disk` maps
each id to the record in its file, or `Absent`. `Save` writes or, with
`"storage"` in `Faults`, fails; either way the memory has changed, as in the
code. `CreateTask` writes first and then enqueues; with `"duplicate"` a second
create of a known id replaces the file and is refused. `Restart` is `new` and
`load`: unfinished tasks are queued, in the order in which `list_task_ids` sorts
the ids. A crash inside a call is a crash before or after it, because each call
touches one file and `atomic_write` renames. `save`, which writes them all,
may stop after any subset (the code iterates over a hash map).

### Task board
Adds the sessions: `open`, `status`, `current` (the current task), `manual`
(sessions that were given a task by hand once), `compacting`, `enter` (the
deferred Enter). The user's actions are offered per column as the buttons are.
`sync_session_status` may first change a task and then give out another; it is
two steps, and `syncing` keeps every other handler out between them, since they
run on one thread without an await between. How a status is found is left
open: any status in `Statuses` may follow any other.

### Output pipeline
The reader is five steps: send the chunk, mark the session pending, swap the
flag, send the event (or find the channel full and reset the flag), read on. A
background task is four: receive, reset the flag, look for more, feed the
terminal; the first three hold the manager's lock, which only the other users of
the manager respect. The UI thread polls (with or without the one-second
fallback), completes tasks, attaches, closes and discards sessions. A whole poll
is one step: the readers can only add to what it reads, and whatever they add
later is found by the next one. The byte budget of a drain, 256 KiB, equals 64
chunks of 4 KiB and never ends a drain before the chunk budget does, so `Budget`
counts chunks.

### Auto-save
A save is the clone of the managed state and three file operations (open and
truncate, write, rename), each a step of its own, by the interval task, the
event task or a caller of `save_now`. All use the name `state.tmp`, so the model
keeps what a saver's handle is called by now: another saver's rename moves the
file one still writes to `state.json`. `Crash` may come anywhere, `Restart`
begins with what the file gives. `overlap` remembers that two savers were
between open and rename at once.

### Updater
Its tasks run on one worker thread, so a task is interrupted where it awaits: a
check while it waits for the answer, a download before it begins, while it
fetches the checksums and while it fetches the artifact. An artifact is absent,
partial or good; a download knows whether the file it writes is its own, is
shared with another one or has lost its name. The toast is a copy that the UI
brings up to date from events, so its buttons may answer a state that is past.
Every read and every write of `update-state.json` may fail, as in the code: what
cannot be read is taken as the defaults, a write that fails leaves the old file,
and the service warns and goes on, to Staged and `UpdateReadyToApply` with nothing
recorded, too. `lapse` remembers a staging that was not written down and a check
that wrote defaults. A check is `recent` while the last one is less than 24 hours
ago. The removal of an artifact is taken to succeed. That a verification is
skipped when there is no checksum is left out: `start_download` always has one.

### Status engine
One session, with the three sources that disagree about it. A signal has the
second of its time stamp and, as history, its number: stamps of one second
cannot be told apart, numbers can. Hook programs, scans, the check of the
session files, the tick and the output are begun and applied in different steps;
`Sync` is `reconcile` with what the workspace does of it. Ages are two bits of
the cached status, `expired` (its time to live) and `old` (30 seconds since it
last changed); a test of another age would be a third bit.

### Verification pipeline, Ralph loop
The step of this model is a section under the lock. `start`, `skip_verification`
and `submit_review` look at the stage in one section and write the stage, the
result or the decision each in one of its own; `call` holds the step each call is
at. Between any two of them another call may start, skip, review or cancel the
same task, and a call goes on with what it has found before. A loop's driver is outside the controller: the model lets it iterate while the loop runs
and record the result whatever has become of the loop.

### Integration
A call locks one part after the other, and `create_session`, `close_session`,
`save_state` and a compaction are interrupted in between. Receivers hold
`EventCap` events and lose the oldest. An event that the loop and the waiting
threads pass over (`CompactionStarted`, `TaskAssigned` and the like) is left out
of the receivers: that it may push another out is what a smaller `EventCap` does.
Every write of `state.json` may fail; the event loop logs it, `save_state` returns
it, nobody tries again. `unsaved` remembers that the file missed what it should
have learnt last, by a failed write, a lost event or an older list. A write is one
step here: that the event loop and `save_state` use one temporary file and may tear
`state.json` is the subject of `AutoSave`, where the same name is used.

### Layout
Every operation is one call on the UI thread, so one step, and an operator from
workspace to workspace, as the methods are. A split tree is the order of its
leaves. The first workspace that is not `Tidy` ends a behaviour, because what a
call does with a session of two groups depends on the iteration of a hash map;
`TabsStayApart` says which steps lead there. The loops of the code are functions
on the positions of a vector (`AddAll`, `RemoveAll`, `PromoteGrid`), its
`retain`s and filters `RetainAll` of `VecOps`, and the stable sort of the stacks
is by position in the list of sessions, so that they can be reasoned about.

## 3. The runs

| Run | Question | Instance |
|---|---|---|
| `queue` | Is the bookkeeping of the queue right under any calls? | 3 tasks with chains, forks and cycles of dependencies, 1 session, 1 retry |
| `faults` | ... and when statuses are written in place, writes fail, ids are created twice and the program restarts? | 2 tasks, the second may depend on the first, 1 session, Fifo, all faults |
| `board` | Does every step of the manager follow the life of a task? | 2 tasks, 2 sessions, one of which may not take the second task, proposals, restarts |
| `confirm` | Does a session ever keep a task that is gone? | 2 tasks, 2 sessions, all three modes, at most 1 proposal |
| `storage` | Is a task under way the session's own, even after failed writes? | 2 tasks, 2 sessions, modes Off and Auto, failing writes |
| `served` | Does an idle session get the waiting task? | 2 tasks, 2 sessions, mode Auto, fairness |
| `output_one` | Is output shown once, in order, in the end, and is no wake-up lost? | 1 session, 4 chunks, channel of 2, update channel of 1, budget 2, fairness |
| `services_safe` | Do the services around the core lose, tear or mix up what they keep? | see below |
| `services_live` | Do their tasks, calls and threads end, do the files catch up, and does the layout keep its tabs? | see below, fairness |
| `output_two` | Does a closed session come back? | 2 interchangeable sessions, 2 chunks each, all capacities 1 |

Why the bounds are enough: every capacity is smaller than the work that meets
it, so each channel gets full, each budget is hit with output left and the
proposal list refuses a session. Two tasks are the least with which
`find_task_by_session` can return the wrong one and an order can list a copy
before another task; the queue alone, which is small, gets three. Two sessions
are the least that compete for the update channel, the lock and a task. Retries
are 1 (in the runs of the manager), which makes the limit and the copy of a
requeued id occur; the board never retries. The bounds named in the modules are
`MaxRetries`, `MaxPending`, `MaxChunks`, `ChannelCap`, `UpdateCap`, `Budget`.
The symmetry of `output_two` is sound: no action tells the sessions apart, and
the run checks invariants only.

`services_safe` and `services_live` run seven modules that share no state. One
machine is chosen by the first state and moves alone, so TLC explores the sum of
their state spaces and not the product (811 056 and 49 071 states); the
integration layer is taken twice, with the task board and without compactions
and the other way round. Deadlock is not checked there: a loop that has ended or
a workspace that is not tidy stops. The bounds of `services_safe`: both tasks of
the auto-save and one caller (three savers: any two overlap while the third
renames), one update, failing writes and crashes; two releases and two download
tasks (the second begins while the first writes the same file), a receiver of one
event; both kinds of CLI, two signals of Claude Code within one second and two
slots for scans, so that two scans could be under way; three calls on one task,
the least with which one overtakes another while a third restarts; loops of one, three
and two iterations, two after each other, so that the result of one exceeds the
limit of the next; one session, two compaction threads and receivers of two
events; three sessions, grids of one and two cells and trees of two leaves, the
least in which a session can be hidden while another pane has a group. The two
download tasks are interchangeable: no action tells them apart, and what the run
checks of the updater are invariants. `services_live` has two calls, one signal,
but two seconds, and no caller of `save_now`. It has the same layouts, and checks
their two properties: they are costly to evaluate, and TLC does so in every state
of every machine.
The bounds named in the modules are `MaxVersion`, `MaxRelease`, `MaxSecond`,
`MaxSignals`, `MaxStarts`, `EventCap`, `UpdateCap`, `MaxPanes`.

What each property says is in the comment above it. The ones that carry most:

* `RunnableIsEligible`: a queued task whose dependencies are done passes the
  filter of `next_task`. In `faults` it holds although the index is wrong in
  other ways (section 6), because the errors are all on the harmless side.
* `CopiesAreRetries`: `start_task` does not take the id of a queued task out of
  the order, so a requeue lists it twice. The copies never outnumber the
  retries.
* `ImplementsLifecycle`: the manager implements `TaskLifecycle`; a restart sends
  unfinished work back to the queue and keeps finished work finished.
* `ActiveTaskIsCurrent`, `CurrentTaskIsActive`: the two directions between a
  session's current task and a task's assigned session. The first holds only
  while nothing is proposed and the second only while no write fails: a
  confirmation replaces a current task (a finding), and a failed save leaves the
  session the task it has just handed in.
* `UnreadIsPending`: output in a channel is marked, ready, or in the hands of a
  task that will look again. It rests on the pending-output set alone: the
  reader marks after every chunk, and the set is only emptied into the ready
  sessions. A model without the event, the flag or `has_more` still has the
  property (they make output appear within 16 ms, not within a second); one in
  which the marks are dropped at a poll without fallback loses it.
* `TornOnlyByOverlap`, `ManagedStateIsSaved`: the rename keeps `state.json` whole
  through failed writes and crashes, and the interval task makes up for what
  events and stale clones spoil, both unless two saves overlap.
* `ReadyIsRecorded`: a check that waited while an update was staged does not
  write it away, because it loads the recorded state after the answer. Two
  failures the service only warns of, or does not notice, are excepted by name
  (`lapse`): the write that was to record the staging failed, or a check could not
  read the file and wrote defaults over it. All other failures are harmless.
  `HelperGetsWholeArtifact`: what is installed after exit is whole, provided that
  Update is clicked when an update is available and no download is under way.
* `SignalsInOrder`: the comparison of signals looks at whole seconds, and alone
  would let an earlier signal of the same second come back; that only one scan is
  in flight is what keeps them in order.
* `BusyIsWorkedOn`, `CancelledStaysCancelled`: results that come back late find
  no pipeline, or a newer one. They do not bring back the one that was cancelled,
  and whatever they write, no pipeline ends in TaskCompleted, Verifying or
  GeneratingNotes without a call that takes it further.
* `LoopIsBounded`, `LoopEnds`: a result of an earlier loop may set the counter of
  a new one with a lower limit; the comparison is `>=`, and the loop ends.
* `OneWaiterEach`, `CompactionEnds`: a compaction has one thread that releases
  the session; the thread may subscribe too late for the event it waits for, and
  the timeout is what ends it then.
* `SavedSessionsCatchUp`: the list of sessions in the file becomes the list of
  open sessions unless `unsaved`, that is, unless a loss has just happened; the
  next event of the session manager that is written puts the file right again,
  since each writes the whole list.
* `ClosedSessionBlocksItsTask`: rests on the order in which `close_session` tells
  the detector and the session manager.
* `TabsStayApart`, `LayoutKeepsStacks`: but for two steps that are named, no
  operation puts a session into two panes' groups or lets a pane show another
  session than its active tab, and a change of layout keeps stacks together.

### Violations: two places where the code does not do what it says
Each is a run of its own that TLC refutes; `findings` quotes the lines.

* `AssignedTaskStarts`: after a session has finished one task, the status change
  of the next may be applied to the old one.
* `EverySessionCanBeFocused`: a hidden session that is selected while the focused
  pane has a tab group takes the place of the active tab, which is then in no
  pane, no group and no list; when the group has shrunk to one, it cannot be
  selected any more.

### Fairness
`served`: a session is polled again and again and a deferred Enter is processed
again and again (timers; strong fairness, since other handlers may come in
between and the conditions come and go), and the second half of a sync follows
the first (the same call). That a poll of an idle session in the end assigns a
task is strong fairness of `AutoAssigned`: the idle threshold counts from the
first call, and what else that choice covers, a session that holds no task, is
deterministic in the code. `output_one`: the poll with fallback and the handlers
run again and again, reader threads past their read are scheduled (weak), and
background tasks get the manager's lock in the end (strong: others hold it now
and then). Nothing is assumed of the child process or of the user.

`services_live`: a task of the auto-save whose next step is ready goes on (weak);
`select` chooses at random among its ready branches, so the shutdown is taken in
the end (strong), and a write tried at every tick succeeds in the end (strong;
without it nothing can be saved). The maintenance timer goes on, its batch and
prepared output are applied, time passes (weak). A verification command ends or
times out, and a pipeline call that waits for nothing goes on; of git, which has
no time limit, nothing is assumed. The driver of a
loop iterates while the loop runs, and its iterations end. The event loop handles
what it has, a compaction thread is woken by its timeout at the latest, and a
call that has begun ends. Nothing is assumed of the bus, of the callers of
`save_now`, of the detector or of the user.

## 4. What is proved

TLAPS proves the following for any sets of tasks and sessions and any values of
the bounds, from the modules' named assumptions only (`QueueAssumption`,
`ManagerAssumption`, `BoardAssumption`, `PipelineAssumption`, `SaveAssumption`,
`UpdaterAssumption`, `StatusAssumption`, `LoopAssumption`, `BusAssumption`,
`LayoutAssumption`: capacities and the sizes of grids are positive, `NoSession` is
not a session, 0 is no id of the layout, limits are numbers, of which there is a
largest, the hooks signal one of the four words). TLC evaluates each of them in
the runs.

**Queue** (`TaskQueue_proofs`, lemmas in `VecOps_proofs`). The inductive
invariant is `TypeOK /\ OrderIsQueued /\ BlockedIsSound`. `RunnableIsEligible`
alone is not inductive: an operation changes either the order or the index, and
each has to be known right before it. `OrderPreserved` follows the pushes and
`retain`s against the changes of status, and rests on how `Retain`, `Append` and
`Occurrences` relate. `Retain` is a filter, which the standard library defines
by recursion over the sequence; its effect on the number of occurrences
(`RetainOccurrences`) is proved by a well-founded argument in `VecOps_proofs`.
`BlockedPreserved` needs that only `CompleteTask` makes a task done.
`NoRunnableTaskHidden` then follows without induction.

**Output** (`OutputPipeline_proofs`). `Dispatch` collects what keeps the
dispatcher sane: types, a closed session has no terminal
(`ClosedHasNoTerminal`), it is neither ready nor in flight, and a session has a
task exactly when it is in flight. It is inductive by itself and gives
`ClosedSessionsStayOut` and `OneTaskPerSession`. `IInv` adds `UnreadIsPending`;
for its induction one must know that the task that ends is the only one of its
session, and that a poll that takes the marks gives each marked session a task
or leaves it ready. `NoLostWakeup` is the result.

`ImplementsStream` rests on `Conveys`: what the terminal has been given, what the
task of the session holds and what is in the channel are, in this order, the
chunks from 1 on; their number is `produced` as long as the session is open, and
no more than it after a close, which empties the channel for good. A task that
has not drained, or is done, holds nothing. Reading extends the end
(`OneMoreInOrder`), a drain moves a prefix (`TakenInOrder`), the terminal takes
all that is held (`ShownInOrder`), a close drops the rest (`DroppedInOrder`):
lemmas about numbers and sequences, which leave the actions nothing but to be
told apart.

**Manager** (`TaskManager_proofs`). `MemoryStep` says once what each operation
writes to memory; each invariant is then proved against it.
* `KnownIsOnDisk` (`FileInv`): `create_task` writes the file before the task is
  known, `delete_task` removes it after.
* `ImplementsLifecycle` (`BoardInv`, without failing writes and second creates):
  file and memory agree on whether a task is there and whether it is done, though
  not on its status or session. That is what makes a restart a step of the
  abstract board.
* `OneProposalEach` (`ProposalInv`), `TypeOK` (with `PendingInv`: as many
  proposals as there are sessions in them, and no more than allowed).
* `QueuedIsInOrder`, `CopiesAreRetries` (`QueueInv`): the operations are of six
  kinds (`Operates`), and each keeps two things: a queued task is listed and
  listed no more often than 1 + its retries (`Listed`), and the index names only
  dependencies that are not done (`Sound`). `RunnableIsEligible` follows, also
  after restarts and for statuses written behind the queue's back.

**Board** (`TaskBoard_proofs`). The argument has two halves.

*Every handler calls the manager at most once* (`BoardCallsManager`): a step of
the board is, on the manager's variables, a step of the manager, or it only drops
proposals (`CleanupStaleProposals`), which keeps the manager's invariants too, or
it leaves them alone. So the manager's proofs are used a second time, by way of
an instance of `TaskManager_proofs`: `BoardKeepsTheManagersPromises`, and, without
failed writes and second creates, `BoardIsLifecycle`, the refinement of the
abstract board by the composition. The two halves of a status change
(`syncing`) are why this could fail: between them the session fields and the
tasks disagree.

*Of the tasks and the sessions' current tasks it makes one of seven moves*
(`BoardMoves`): a task enters the queue, is given to a session, starts, is
submitted by its session, ends in another way, a session closes, or both stay.
Each of the two properties is inductive
over the moves, under the hypothesis it really needs:
* `SessionsHoldActiveTasks`, when no write fails: a save that fails leaves the
  session the task that has just gone to review;
* `ActiveTasksAreHeld`, when nothing is proposed: a confirmation replaces the
  current task of a session that has found work meanwhile (section 6).

**Auto-save and updater** (`Services_proofs`).
* `SaveInv` follows the one saver that is between open and rename while nobody
  overlapped: the temporary file is its file, so what it renames is what it
  wrote.
* `ReadyUpdatesAreRecorded`: inductive with `Down` (a process that has ended
  leaves its files only) and `OnlyReleases` (a version that is offered or fetched is
  a release). Of the failures of the file it needs that what is loaded is a state,
  if an empty one (`LoadedIsState`, `ResumedIsState`), and that a download which
  completes either stages, written down or remembered in `lapse`, or offers the
  version again (`CompletedDownload`).
* `HelperInstallsWholeArtifacts` needs `OneDownload`: unless Update was clicked out of
  turn, one download is under way at most, none while an update is staged, and
  none once the helper has been handed a version; from then on the update cannot
  be staged again, because the toast still shows it as ready or the process is on
  its way out.

**Status, compaction** (`Sessions_proofs`).
* `InOrder` puts the signals of each file in one line: what was applied, what the
  scan has read, what the file says, what a hook program is about to write; and
  one scan at most is under way. `BatchApplied` carries it through the loop over
  a batch, which in general no argument about one update could: the updates of
  other files come in between. `SignalsAreAppliedInOrder` follows.
* `ViewedResponsesStayViewed` rests on the same invariant. A signal that passes
  `should_apply_hook_signal` has another fingerprint; that it is then a *later*
  one, which ends the time the response counts as viewed, and not an earlier one
  of the same second, is `InOrder`.
* `BusInv`: a compacting session has a thread, and two threads have the same
  session only when it is closed for good (`Gone`) and neither of them listens any
  more; for that, a `SessionClosed` in a receiver must tell the truth
  (`Truthful`). `BusTypesHold` adds what the receivers hold: `Received` drops the
  oldest event when there are `EventCap`.

**Verification, loop** (`Services_proofs`).
* `BusyPipelinesAreWorkedOn`: `BusyIsWorkedOn` is inductive with the types
  (`PipeInv`), for any number of calls. Each write of a call leaves
  the pipeline in a stage that no call need end, or in one the call itself goes on
  to end, or in the stage it was in, which another call is still working on
  (`WorkTable`, `StageTable`); and a call has one task, so the pipelines of the
  others lose nothing (`CallMoves`, `CallWrites`).
* `LoopInv`: the number of the iteration under way is ahead of the results
  recorded, so the counter of an active loop is never behind its history; and no
  number exceeds the largest limit, which bounds what a result of an earlier loop
  can do to a later one (`LoopTypesHold`).

**Layout** (`Layout_proofs`). The inductive invariant is `LayoutInvariant`. Its
first half, `Sound` and `HiddenListed`, holds of every workspace: numbers of their
own for the panes, and nothing shown, grouped or hidden that is not listed. Its
second half, `Tidy => Good`, is what the next call relies on: groups have two tabs
at least, hidden stacks repeat no tab and have an active one, the overflow list of
a grid has nothing that is shown and, with more than one cell, no tab of a group,
and an empty Single layout has an empty overflow list. `TabsStayApart` alone is
far from inductive: without the fact about the overflow list, a cell that becomes
free would be filled with a tab of another pane's group. That fact also explains
the two exceptions: a *tree* has no overflow list, and every session without a slot
counts as hidden there, an inactive tab included (`PromotesATab`); and a grid of
*one* cell may list a tab of its own group (`SwapsPastAGroup`).

The proof follows the calls. Each operator gets one lemma that says what it makes
of a workspace, in terms of a few relations between the workspace before and
after: `Adds` (a session comes in), `Ends` (sessions leave, or a pane is split),
`Rearranged` (the layout changes), `Settles` (the list stays). What they have in
common is `Outcome`: the new workspace is sound; it is good if it is tidy; and if
it is not, the step is one of the two exceptions (`Promotes`, `SwappedPast`).
Within a call a workspace need not be tidy either: a tree in which an inactive tab
has been promoted is `Loose`, and `close_pane` goes on from such a tree, session by
session. `Loosened` says that a pane shows a foreign inactive tab only if that
session had no pane before the call, which is what the exception names.

`StacksAreKept` goes another way: the stacks of a tidy workspace divide its
sessions (`Division`: each listed session is in exactly one); sorting keeps a
division, the rebuilt grid shows one session of a stack at most, so the order for
the layout keeps it again, `ApplyStacks` puts each stack into a group, a cell or the hidden
list, and `Stacks` of the result reads off the same division. What the vectors
in between contain (`FlattenSeq`, `RetainAll`, `Once`, `Unclaimed`) are lemmas at
the beginning of the module.

**All services** (`ServicesTypesHold`, in `Services_proofs`). The composition that
`services_safe` checks keeps its types (TLC looks at those of the machine that
moves, since the others stay in their first state): a step of it is a step of one service's
own specification and leaves the others' variables alone (`SaveMoves` ...
`LayoutMoves`), so the invariants above hold side by side.

**Lemmas on data** (`VecOps_proofs`). What `RetainAll`, `Occurrences` and, in
`Sessions_proofs`, `AfterAll` return is proved as far as the theorems need it.
They are recursive functions; that such a function exists and has the values its
equation gives (`RetainAllUnfolds`, `AfterAllUnfolds`) is proved by an induction
over the positions, which goes through a set of numbers that holds 0 and is
closed under successor (`NatSetInduction`), because the library's induction
theorems take an operator as a parameter.

Every invariant, action property and refinement that a passing run checks is
stated by a theorem. Only model-checked are the liveness properties
(`IdleSessionsAreServed`, `OutputIsShown` and the eight of `services_live`), which are
out of the prover's reach, and the two violations of section 3, which are TLC's
counterexamples.

## 5. Plan

*Done:* queue, manager, board, output pipeline; status engine, auto-save,
updater, verification pipeline, Ralph loop, integration layer, layout; the runs
above; the proofs of section 4.

What is left, the most valuable first:

1. The composition of `TaskBoard` with `StatusEngine`, in place of the free choice
   of a status: only the sequences of statuses a session can really show.
2. Session restore: bootstrap, attach or discard, resume commands and their
   timeout, on top of `OutputPipeline`.
3. Checkpoints.

## 6. Further places where words and code part

Seen while modelling, small or of no consequence in the program as it is:

* The doc of `is_blocked` and of the blocked index speaks of unmet dependencies;
  a dependency that is unknown, or created later, does not enter the index
  (`queue.rs:655-667`, `681-705`). `next_task` asks the dependencies again, so
  nothing runs too early.
* After `dequeue` the index may name a task that does not exist
  (`queue.rs:301-313`).
* `QueueState::order` is documented as the queued tasks; `start_task` leaves ids
  of working tasks in it.
* `map_session_to_task_status` (doc, `task_manager.rs:798`) sends a task to
  review when the session needs attention; the code leaves it as it is (821).
* `on_task_complete` logs "Marking as blocked" when retries are used up
  (`task_manager.rs:573-583`), and sets no status.
* When a task goes to review while a compaction is under way, `/clear` is not
  sent (`status_reconcile.rs:161`), although the session is released.
* `compaction.rs` speaks of compaction between tasks; `try_compact` may send
  `/compact` after a task has been assigned and before it has started.
* `BusySessionKeepsItsTask` (`TaskBoard`): confirming a proposal does not ask
  whether the session is still free, and replaces its current task.
* `FlagMeansEvent`, `InFlightSetsAgree` (`OutputPipeline`): the notification flag
  may be set with no event under way (the one-second fallback makes up for it),
  and a close while a task is in flight makes the two in-flight sets differ,
  against a debug assertion.

Seen in the services. The first three are formulas of the modules that TLC
refutes; they are not runs of the project.

* `FinalSaveLasts` (`AutoSave`): the doc of `stop` (`auto_save.rs:227-229`) advises
  a `save_now` after it; a task that cloned before the last update may still
  write, and its older state stays.
* `NewestSignalWins` (`StatusEngine`): the comment in `hook_signals.rs:369` has the
  newest signal win, and it does within one scan; across scans a signal of
  another file that is older is applied later.
* `FinishedIsFinal` (`RalphLoop`): `is_finished` promises a loop that cannot
  continue; a late result turns a cancelled loop into a completed, failed or
  even advanced one, and counts in the loop that was started after it.
* Two saves that overlap can leave `state.json` torn, since both write
  `state.tmp` (`persistence_service.rs:324`). Checkpoints are written in place, and
  one that is torn makes `list_checkpoints` fail for all.
* Updater: a staged update whose record cannot be written is announced as ready
  and forgotten at the next start, with a warning in the log (`service.rs:427-431`);
  a state file that cannot be read is replaced by defaults at the next check
  (`service.rs:539`, `582`). The periodic check sets Staged back to UpdateAvailable, and the button
  of the toast then fails; a second click on Update replaces the token of the
  download under way, which can no longer be cancelled; progress that is reported
  after a cancel leaves the toast at Downloading.
* Verification: `submit_review` looks at the stage under one lock and writes under
  others (`pipeline.rs:391-405`, `417-435`), and so does every call; the result of an
  earlier `start` is written into the pipeline of a later one. With calls that
  overlap, a pipeline that is Blocked or RetryingInSession, terminal stages
  according to `is_terminal` (`codirigent-core/src/pipeline.rs:233`), may go on,
  and a task whose verification failed meanwhile may be completed. An error of `generate_summary` leaves the pipeline in
  GeneratingChangeSummary for ever (`pipeline.rs:355`, `479`); a command that
  times out is not killed (`executor.rs:239`); `retry` of the gate does not count
  errors.
* Integration: a write of `state.json` that fails is logged and not tried again
  until the next event (`integration.rs:364`). A compaction thread subscribes after `/compact` was sent
  (`integration.rs:745`) and may wait for its timeout; a session that is closed
  while `create_session` is under way stays monitored; `restore_sessions` with the
  event loop running has its file overwritten after the first session restored;
  `save_state` may put back an older list.
* Status: selecting a session downgrades the cached status only, and
  `focus_session_number` not even that; a signal counts as processed before it is
  known to which session it goes; a result of the session files replaces a
  hook's signal that is newer; a sub-agent's signal may replace the session's
  CLI id.
* Layout: `swap_hidden_into_index` (`layout/state.rs:379`) on an empty cell puts the
  session into the cell and, by the early return of its `?`, leaves it in the
  overflow list; an inactive tab may be promoted into a pane of its own while it
  stays in its group; in the Single layout the inactive tabs of hidden stacks
  cannot be selected.

Hazards that no property covers, because nothing in the code says what should
happen or the consequence is a matter of taste: tasks that depend on each other
wait for ever (`queue.rs:691`); a refused second create has replaced the file
(`task_manager.rs:247`); a task loaded as queued keeps its old session (196);
`load` stops at the first file it cannot read (183); a session that becomes idle
by way of ResponseReady never sends its task to review (828); `/clear` is skipped
during a compaction (`status_reconcile.rs:161`). Four more are in the models, which
show them, but the properties next to them except or miss them: a deleted task
whose file could not be removed is back after the next start
(`task_manager.rs:288`); a review whose save fails leaves the finished task with the
session (`impl_task_board.rs:69`); a second `start_download` on a toast that is out
of date writes into the first one's file (`service.rs:333`, excepted by `stray`); a
progress that is reported after a cancel shows a download that has ended
(`service.rs:385`).

## 7. Not modelled, and why

Rendering, themes, keyboard, clipboard, file tree, plugins, skills: no shared
state with the core. The readers of other programs' session files, the hook
installer and git: parsing, and state outside the process. The legacy output
pipeline behind `CODIRIGENT_LEGACY_PIPELINE`: to be removed according to the
code. Prompts and text sent to a session: only whether an Enter is pending is
kept. `TaskQueue::load_state`, which only tests and doc examples call. The
accessors that hand out the queue and the assignment manager: the board uses
them for the steps of `confirm_assignment`, `assign_task`, `reject_assignment`
and `clear_expired`, which the model has; nothing else changes the queue behind
the manager. In the layout: geometry and resizing, moving the focus by direction
or to the next pane, `add_session_to_slot`, going through the layouts, and the
restoration of saved stacks and groups. In the updater: the platforms' helper
scripts, which succeed or fail freely. In the integration layer: restoring
sessions, input and accessors. Git, verification commands and the network answer
in any way or not at all.
