--------------------------- MODULE OutputPipeline ---------------------------
(***************************************************************************)
(* The way of a session's output from its PTY to its terminal:             *)
(*   - one reader thread per session (codirigent-session, pty.rs, and the  *)
(*     callbacks create_session of manager.rs gives it),                   *)
(*   - the poll of the UI thread every 16 ms and its dispatcher            *)
(*     (codirigent-ui, output_runtime.rs and output_dispatcher.rs),        *)
(*   - background tasks that drain a session's channel under the lock of   *)
(*     the session manager and feed the terminal.                          *)
(* A chunk of output is its number; the child of a session writes at most  *)
(* MaxChunks.  The order of the ready sessions and the focused session are *)
(* left out, as are the events that carry no wake-up and the legacy        *)
(* pipeline behind its environment variable.  A session id is never used   *)
(* again.  Whole polls are atomic: the readers only add to what it reads.  *)
(***************************************************************************)
EXTENDS Integers, Sequences, FiniteSets

CONSTANTS Sessions,
          MaxChunks,   \* bound on the chunks a child writes
          ChannelCap,  \* OUTPUT_CHANNEL_CAPACITY
          UpdateCap,   \* SESSION_UPDATE_CHANNEL_CAPACITY
          Budget       \* MAX_OUTPUT_CHUNKS_PER_POLL: at 4 KiB a chunk, the byte
                       \* budget of 256 KiB is never reached sooner

ASSUME PipelineAssumption ==
  /\ MaxChunks \in Nat
  /\ ChannelCap \in Nat \ {0} /\ UpdateCap \in Nat \ {0} /\ Budget \in Nat \ {0}

VARIABLES produced,   \* chunks read from each PTY
          chan,       \* SessionState::output_rx
          reader,     \* where each reader thread is
          notified,   \* the sessions whose output_notified flag is set
          update,     \* the SessionUpdate channel
          marked,     \* pending_output_sessions
          ready,      \* OutputDispatcher::ready_sessions
          inFlight,   \* OutputDispatcher::in_flight
          preparing,  \* output_prepare_in_flight
          closed,     \* OutputDispatcher::closed; the manager has dropped them too
          attached,   \* the sessions with a terminal view
          jobs,       \* the background tasks of each session
          screen      \* the chunks each terminal has been given

readerVars == <<produced, chan, reader, notified>>
dispatchVars == <<ready, inFlight, preparing>>
vars == <<produced, chan, reader, notified, update, marked, ready, inFlight, preparing,
          closed, attached, jobs, screen>>

ReaderState == {"read", "mark", "notify", "send", "exit", "done"}

Update == [session : Sessions, kind : {"OutputReady", "ChildProcessExited"}]

(* A task: spawned; chunks received; output_notified reset; drained; done, *)
(* with has_more to be applied by the UI thread.                           *)
Job == [phase : {"spawned", "received", "reset", "drained", "done"}, data : Seq(1 .. MaxChunks), more : BOOLEAN]

TypeOK ==
  /\ produced \in [Sessions -> 0 .. MaxChunks]
  /\ chan \in [Sessions -> Seq(1 .. MaxChunks)]
  /\ \A s \in Sessions : Len(chan[s]) <= ChannelCap
  /\ reader \in [Sessions -> ReaderState]
  /\ update \in Seq(Update) /\ Len(update) <= UpdateCap
  /\ \A set \in {notified, marked, ready, inFlight, preparing, closed, attached} : set \subseteq Sessions
  /\ jobs \in [Sessions -> Seq(Job)]
  /\ screen \in [Sessions -> Seq(1 .. MaxChunks)]

Go(s, at) == reader' = [reader EXCEPT ![s] = at]

(***************************************************************************)
(* The reader thread.                                                      *)
(***************************************************************************)

(* Mutant of ReadChunk: a full channel does not stop the reader.           *)
ReadUnbounded(s) ==
  /\ reader[s] = "read" /\ produced[s] < MaxChunks /\ s \notin closed
  /\ produced' = [produced EXCEPT ![s] = @ + 1]
  /\ chan' = [chan EXCEPT ![s] = Append(@, produced'[s])]
  /\ Go(s, "mark")
  /\ UNCHANGED <<notified, update, marked, dispatchVars, closed, attached, jobs, screen>>

(* read and blocking_send, which waits while the channel is full and fails *)
(* once close_session has dropped the receiver.                            *)
ReadChunk(s) ==
  /\ reader[s] = "read" /\ produced[s] < MaxChunks
  /\ produced' = [produced EXCEPT ![s] = @ + 1]
  /\ \/ /\ s \notin closed /\ Len(chan[s]) < ChannelCap
        /\ chan' = [chan EXCEPT ![s] = Append(@, produced'[s])]
        /\ Go(s, "mark")
     \/ s \in closed /\ Go(s, "exit") /\ UNCHANGED chan
  /\ UNCHANGED <<notified, update, marked, dispatchVars, closed, attached, jobs, screen>>

(* on_chunk, legacy path: the session enters pending_output_sessions.      *)
MarkPending(s) ==
  /\ reader[s] = "mark"
  /\ marked' = marked \cup {s}
  /\ Go(s, "notify")
  /\ UNCHANGED <<produced, chan, notified, update, dispatchVars, closed, attached, jobs, screen>>

(* on_chunk, new path: no event while the flag says one is under way.      *)
SwapNotified(s) ==
  /\ reader[s] = "notify"
  /\ notified' = notified \cup {s}
  /\ Go(s, IF s \in notified THEN "read" ELSE "send")
  /\ UNCHANGED <<produced, chan, update, marked, dispatchVars, closed, attached, jobs, screen>>

(* try_send: a full channel drops the event and resets the flag.           *)
SendOutputReady(s) ==
  /\ reader[s] = "send"
  /\ \/ /\ Len(update) < UpdateCap
        /\ update' = Append(update, [session |-> s, kind |-> "OutputReady"])
        /\ UNCHANGED notified
     \/ /\ Len(update) = UpdateCap
        /\ notified' = notified \ {s}
        /\ UNCHANGED update
  /\ Go(s, "read")
  /\ UNCHANGED <<produced, chan, marked, dispatchVars, closed, attached, jobs, screen>>

(* End of file or a read error; the child may exit at any time.            *)
ReadEnd(s) ==
  /\ reader[s] = "read"
  /\ Go(s, "exit")
  /\ UNCHANGED <<produced, chan, notified, update, marked, dispatchVars, closed, attached, jobs, screen>>

(* on_exit: a full channel leaves the session to the legacy path.          *)
SendExited(s) ==
  /\ reader[s] = "exit"
  /\ \/ /\ Len(update) < UpdateCap
        /\ update' = Append(update, [session |-> s, kind |-> "ChildProcessExited"])
        /\ UNCHANGED marked
     \/ /\ Len(update) = UpdateCap
        /\ marked' = marked \cup {s}
        /\ UNCHANGED update
  /\ Go(s, "done")
  /\ UNCHANGED <<produced, chan, notified, dispatchVars, closed, attached, jobs, screen>>

Reader(s) ==
  ReadChunk(s) \/ MarkPending(s) \/ SwapNotified(s) \/ SendOutputReady(s) \/ ReadEnd(s) \/ SendExited(s)

(***************************************************************************)
(* Background tasks.  try_drain_output_bounded runs under the lock of the  *)
(* session manager, which no one else gets meanwhile; the readers go on.   *)
(***************************************************************************)

ManagerLocked == \E s \in Sessions : \E i \in DOMAIN jobs[s] : jobs[s][i].phase \in {"received", "reset"}

SetJob(s, i, job) == jobs' = [jobs EXCEPT ![s][i] = job]

Least(m, n) == IF m < n THEN m ELSE n

(* Mutant of Batch: the chunk that reaches the budget is received and lost. *)
BatchLosingOne(s) == SubSeq(chan[s], 1, Least(Len(chan[s]), Budget - 1))

(* The chunks there are, up to the budget.                                 *)
Batch(s) == SubSeq(chan[s], 1, Least(Len(chan[s]), Budget))

(* The drain receives them; it finds nothing of a closed session.          *)
Receive(s, i) ==
  LET job == jobs[s][i]
      n == Least(Len(chan[s]), Budget)
  IN  /\ job.phase = "spawned" /\ ~ ManagerLocked
      /\ \/ /\ s \notin closed
            /\ SetJob(s, i, [phase |-> "received", data |-> Batch(s), more |-> n = Budget])
            /\ chan' = [chan EXCEPT ![s] = SubSeq(@, n + 1, Len(@))]
         \/ /\ s \in closed
            /\ SetJob(s, i, [job EXCEPT !.phase = "done"])
            /\ UNCHANGED chan
      /\ UNCHANGED <<produced, reader, notified, update, marked, dispatchVars, closed, attached, screen>>

(* From here on the reader sends a new OutputReady.                        *)
ResetNotified(s, i) ==
  /\ jobs[s][i].phase = "received"
  /\ SetJob(s, i, [jobs[s][i] EXCEPT !.phase = "reset"])
  /\ notified' = notified \ {s}
  /\ UNCHANGED <<produced, chan, reader, update, marked, dispatchVars, closed, attached, screen>>

(* has_more, the mark that goes with it, and the end of the lock.          *)
LookForMore(s, i) ==
  LET job == jobs[s][i]
      more == job.data # << >> /\ (job.more \/ chan[s] # << >>)
  IN  /\ job.phase = "reset"
      /\ SetJob(s, i, [job EXCEPT !.phase = "drained", !.more = more])
      /\ marked' = IF more THEN marked \cup {s} ELSE marked
      /\ UNCHANGED <<readerVars, update, dispatchVars, closed, attached, screen>>

(* apply_output feeds the terminal, which may be closed by now.            *)
ApplyOutput(s, i) ==
  LET job == jobs[s][i]
  IN  /\ job.phase = "drained"
      /\ SetJob(s, i, [job EXCEPT !.phase = "done", !.data = << >>])
      /\ screen' = [screen EXCEPT ![s] = @ \o job.data]
      /\ UNCHANGED <<readerVars, update, marked, dispatchVars, closed, attached>>

Background(s) ==
  \E i \in DOMAIN jobs[s] :
    Receive(s, i) \/ ResetNotified(s, i) \/ LookForMore(s, i) \/ ApplyOutput(s, i)

(***************************************************************************)
(* The UI thread.                                                          *)
(***************************************************************************)

(* Mutant of MarkReady: closed sessions come back.                         *)
MarkAnyReady(set) == set

(* mark_ready drops closed sessions.                                       *)
MarkReady(set) == set \ closed

(* Mutant of Takeable: sessions in flight are taken again.                 *)
TakeableAgain == attached

(* What take_ready_sessions and the scheduler take: sessions in flight or  *)
(* without a terminal stay ready.                                          *)
Takeable == attached \ inFlight

(* Mutant of LeftMarked: the marks go at every poll.                       *)
NeverMarked(fallback) == {}

(* sessions_with_pending_output takes the marks, when the fallback asks.   *)
LeftMarked(fallback) == IF fallback THEN {} ELSE marked

(* schedule_output_preparation: drain_updates (up to 1024 events, more     *)
(* than the channel holds), the legacy fallback when a second has passed,  *)
(* take_ready_sessions, and mark_in_flight with a task for each of them.   *)
Poll(fallback) ==
  LET events == {update[i].session : i \in DOMAIN update}
      ready1 == ready \cup MarkReady(events \cup IF fallback THEN marked ELSE {})
      taken  == ready1 \cap Takeable
  IN  /\ fallback => ~ ManagerLocked
      /\ update' = << >>
      /\ marked' = LeftMarked(fallback)
      /\ ready' = ready1 \ taken
      /\ inFlight' = inFlight \cup taken
      /\ preparing' = preparing \cup taken
      /\ jobs' = [s \in Sessions |->
                    IF s \in taken
                    THEN Append(jobs[s], [phase |-> "spawned", data |-> << >>, more |-> FALSE])
                    ELSE jobs[s]]
      /\ UNCHANGED <<readerVars, closed, attached, screen>>

(* The end of a task: complete_in_flight, and apply_prepared_session_      *)
(* output, which re-queues the session when there is more.                 *)
Complete(s, i) ==
  LET requeued == IF jobs[s][i].more THEN MarkReady({s}) ELSE {}
  IN  /\ jobs[s][i].phase = "done"
      /\ jobs[s][i].more => ~ ManagerLocked
      /\ jobs' = [jobs EXCEPT ![s] = SubSeq(@, 1, i - 1) \o SubSeq(@, i + 1, Len(@))]
      /\ preparing' = preparing \ {s}
      /\ inFlight' = inFlight \ {s}
      /\ ready' = ready \cup requeued
      /\ marked' = marked \cup requeued
      /\ UNCHANGED <<readerVars, update, closed, attached, screen>>

(* attach_bootstrapped_session: the terminal view, and a first look.       *)
Attach(s) ==
  /\ s \notin attached \cup closed /\ ~ ManagerLocked
  /\ attached' = attached \cup {s}
  /\ ready' = ready \cup {s}
  /\ marked' = marked \cup {s}
  /\ UNCHANGED <<readerVars, update, inFlight, preparing, closed, jobs, screen>>

(* The manager drops the session and its channel, and remove_session takes *)
(* it out of the dispatcher.                                               *)
RemoveSession(s) ==
  /\ ~ ManagerLocked
  /\ closed' = closed \cup {s}
  /\ chan' = [chan EXCEPT ![s] = << >>]
  /\ marked' = marked \ {s}
  /\ ready' = ready \ {s}
  /\ inFlight' = inFlight \ {s}
  /\ UNCHANGED <<produced, reader, notified, update, jobs, screen>>

(* close_session leaves output_prepare_in_flight as it is.                 *)
CloseSession(s) ==
  /\ s \in attached
  /\ attached' = attached \ {s}
  /\ RemoveSession(s)
  /\ UNCHANGED preparing

(* discard_bootstrapped_session, when the workspace has no room for s.     *)
DiscardSession(s) ==
  /\ s \notin attached \cup closed
  /\ RemoveSession(s)
  /\ preparing' = preparing \ {s}
  /\ UNCHANGED attached

Init ==
  /\ produced = [s \in Sessions |-> 0]
  /\ chan = [s \in Sessions |-> << >>]
  /\ reader = [s \in Sessions |-> "read"]
  /\ notified = {} /\ update = << >> /\ marked = {}
  /\ ready = {} /\ inFlight = {} /\ preparing = {}
  /\ closed = {} /\ attached = {}
  /\ jobs = [s \in Sessions |-> << >>]
  /\ screen = [s \in Sessions |-> << >>]

UI ==
  \/ \E fallback \in BOOLEAN : Poll(fallback)
  \/ \E s \in Sessions : Attach(s) \/ CloseSession(s) \/ DiscardSession(s) \/ \E i \in DOMAIN jobs[s] : Complete(s, i)

Next ==
  \/ UI
  \/ \E s \in Sessions : Reader(s) \/ Background(s)

Spec == Init /\ [][Next]_vars

(***************************************************************************)
(* Fairness: the poll and its fallback run on timers, threads and tasks    *)
(* are scheduled, the lock is not held for ever.  The child owes nothing.  *)
(***************************************************************************)

Fairness ==
  /\ SF_vars(Poll(TRUE))
  /\ \A s \in Sessions :
       /\ WF_vars(MarkPending(s) \/ SwapNotified(s) \/ SendOutputReady(s) \/ SendExited(s))
       /\ SF_vars(Attach(s))
       /\ SF_vars(Background(s))
       /\ SF_vars(\E i \in DOMAIN jobs[s] : Complete(s, i))

FairSpec == Spec /\ Fairness

(***************************************************************************)
(* Properties.                                                             *)
(***************************************************************************)

(* The terminal shows a prefix of the output, each chunk once and in       *)
(* order, although the drain, the terminal and the wake-ups belong to      *)
(* three threads and a session may be drained by a new task at every poll. *)
Stream == INSTANCE OutputStream

ImplementsStream == Stream!Spec

(* One task at a time drains a session, and the dispatcher knows which.    *)
OneTaskEach ==
  \A s \in Sessions :
    /\ Len(jobs[s]) <= 1
    /\ s \notin closed => (s \in inFlight <=> jobs[s] # << >>)

(* A closed session never comes back into the dispatcher, whatever events, *)
(* marks and tasks of it are still under way.                              *)
ClosedStaysOut == closed \cap (ready \cup inFlight) = {}

(* Output that no one has read yet is never forgotten: the session is      *)
(* marked, ready, or has a task that will find it or come back for it;     *)
(* the flag, full channels and spurious drains notwithstanding.            *)
UnreadIsPending ==
  \A s \in Sessions \ closed :
    chan[s] # << >> /\ reader[s] # "mark" =>
      \/ s \in marked \cup ready
      \/ \E i \in DOMAIN jobs[s] :
           \/ jobs[s][i].phase = "spawned"
           \/ jobs[s][i].phase \in {"received", "reset"} /\ jobs[s][i].data # << >>
           \/ jobs[s][i].phase \in {"drained", "done"} /\ jobs[s][i].more

(* Whatever the child writes reaches the terminal, or the session is       *)
(* closed first.                                                           *)
OutputIsShown ==
  \A s \in Sessions :
    \A n \in 1 .. MaxChunks : produced[s] = n ~> Len(screen[s]) >= n \/ s \in closed

(***************************************************************************)
(* What comments and assertions of the code say, and the code does not do. *)
(***************************************************************************)

(* manager.rs says of output_notified that it "auto-resets when the next   *)
(* drain_updates call consumes all pending OutputReady events": once the   *)
(* reader is done with a chunk, a set flag means an event in the channel.  *)
(* The drain of the output resets it, so a chunk that comes after an empty *)
(* drain has looked, and before the reset, wakes no one.                   *)
FlagMeansEvent ==
  \A s \in notified \ closed :
    reader[s] = "read" =>
      \E i \in DOMAIN update : update[i] = [session |-> s, kind |-> "OutputReady"]

(* The assertion in schedule_session_output_preparation and at the end of  *)
(* its task: the two in-flight sets have the same size.  A close while a   *)
(* task is in flight takes the session out of one of them.                 *)
InFlightSetsAgree ==
  [][preparing' # preparing => Cardinality(preparing') = Cardinality(inFlight')]_vars
==============================================================================
