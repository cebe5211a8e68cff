------------------------------ MODULE Integration ------------------------------
(***************************************************************************)
(* The integration layer: the session manager, the detector, the task      *)
(* manager and the compaction service behind a mutex each, and the event   *)
(* bus between them.  A call locks one after the other and may be          *)
(* interrupted in between; the event loop, on a thread of its own, handles *)
(* one event at a time; a thread per compaction waits for its end.         *)
(*                                                                         *)
(* A receiver of the bus holds EventCap events and loses the oldest when   *)
(* it is full.                                                             *)
(***************************************************************************)
EXTENDS Naturals, Sequences, FiniteSets, SequencesExt

CONSTANTS
  Sessions,     \* the ids, each given out once
  BoardTasks,
  Waiters,      \* threads of try_compact_session at once
  EventCap

ASSUME BusAssumption == EventCap \in Nat \ {0}

VARIABLES
  made,         \* the ids given out
  open,         \* the sessions of the session manager
  creating,     \* the sessions create_session has still to monitor
  closing,      \* the sessions close_session has still to close
  monitored,    \* the detector's sessions and their status
  inbox,        \* the events the event loop's receiver holds
  lagged,       \* history: that receiver has lost an event
  tasks,        \* of each task: its status and assigned_session
  compacting,   \* compacting_sessions
  waiter,       \* of each thread: its step, its session, the events it holds
  sessionsFile,    \* the sessions in state.json
  listed,       \* the sessions a call of save_state is about to write
  unsaved       \* history: what the file should have learnt last was lost: an event that
                \* saves was dropped, its write failed, or an older list was written

busVars == <<made, open, creating, closing, monitored, inbox, lagged, tasks, compacting, waiter, sessionsFile, listed, unsaved>>

NoSession == 0
Event(kind, s, old, new) == [kind |-> kind, id |-> s, old |-> old, new |-> new]
Changed(s, old, new) == Event("SessionStatusChanged", s, old, new)
Of(kind, s) == Event(kind, s, "none", "none")

Found == {"Idle", "Working", "NeedsAttention"}   \* what the detector finds
BusEvents ==
  [kind : {"SessionStatusChanged"}, id : Sessions, old : Found, new : Found]
    \cup [kind : {"SessionCreated", "SessionClosed", "SessionRenamed"}, id : Sessions, old : {"none"}, new : {"none"}]

Thread(step, s, q) == [step |-> step, id |-> s, rx |-> q]
NoThread == Thread("none", NoSession, <<>>)
NotListed == [busy |-> FALSE, sessions |-> {}]

BusTypeOK ==
  /\ made \subseteq Sessions /\ open \subseteq made
  /\ creating \subseteq made /\ closing \subseteq made
  /\ monitored \in [Sessions -> Found \cup {"none"}]
  /\ Len(inbox) <= EventCap /\ Range(inbox) \subseteq BusEvents /\ lagged \in BOOLEAN
  /\ tasks \in [BoardTasks -> [status : {"Queued", "Assigned", "Working", "Review", "Done", "Blocked"},
                               session : Sessions \cup {NoSession}]]
  /\ compacting \subseteq Sessions
  /\ \A w \in Waiters :
       /\ waiter[w].step \in {"none", "sending", "spawned", "waiting", "ending", "ended"}
       /\ waiter[w].id \in Sessions \cup {NoSession}
       /\ Len(waiter[w].rx) <= EventCap /\ Range(waiter[w].rx) \subseteq BusEvents
  /\ sessionsFile \subseteq Sessions /\ listed.sessions \subseteq Sessions /\ unsaved \in BOOLEAN

BusInit ==
  /\ made = {} /\ open = {} /\ creating = {} /\ closing = {}
  /\ monitored = [s \in Sessions |-> "none"]
  /\ inbox = <<>> /\ lagged = FALSE
  /\ tasks = [t \in BoardTasks |-> [status |-> "Queued", session |-> NoSession]]
  /\ compacting = {}
  /\ waiter = [w \in Waiters |-> NoThread]
  /\ sessionsFile = {} /\ listed = NotListed /\ unsaved = FALSE

(***************************************************************************)
(* The event bus.                                                          *)
(***************************************************************************)

(* Mutant of Received: the receiver has no limit.                          *)
ReceivedUnbounded(q, e) == Append(q, e)

Received(q, e) == IF Len(q) = EventCap THEN Append(Tail(q), e) ELSE Append(q, e)

(* The events after which the event loop saves.                            *)
Saving(e) == e.kind # "SessionStatusChanged"

(* publish: to the event loop and to the waiting threads.                  *)
Publish(e) ==
  /\ inbox' = Received(inbox, e)
  /\ lagged' = (lagged \/ Len(inbox) = EventCap)
  /\ unsaved' = (unsaved \/ (Len(inbox) = EventCap /\ Saving(Head(inbox))))
  /\ waiter' = [w \in Waiters |->
       IF waiter[w].step = "waiting" THEN [waiter[w] EXCEPT !.rx = Received(@, e)] ELSE waiter[w]]

(***************************************************************************)
(* Sessions.                                                               *)
(***************************************************************************)

(* create_session: the session manager makes it and announces it, ...      *)
CreateSession(s) ==
  /\ s \notin made
  /\ made' = made \cup {s} /\ open' = open \cup {s} /\ creating' = creating \cup {s}
  /\ Publish(Of("SessionCreated", s))
  /\ UNCHANGED <<closing, monitored, tasks, compacting, sessionsFile, listed>>

(* ... then its pid is read, and the detector told of it.  A session that  *)
(* was closed meanwhile has no pid, or has been given to the detector too  *)
(* late: between the two reads another thread may close it.                *)
StartMonitoring(s) ==
  /\ s \in creating
  /\ creating' = creating \ {s}
  /\ monitored' \in {[monitored EXCEPT ![s] = "Idle"]} \cup (IF s \in open THEN {} ELSE {monitored})
  /\ UNCHANGED <<made, open, closing, inbox, lagged, tasks, compacting, waiter, sessionsFile, listed, unsaved>>

(* close_session: first the detector, ...                                  *)
StopMonitoring(s) ==
  /\ s \in open \ closing
  /\ closing' = closing \cup {s}
  /\ monitored' = [monitored EXCEPT ![s] = "none"]
  /\ UNCHANGED <<made, open, creating, inbox, lagged, tasks, compacting, waiter, sessionsFile, listed, unsaved>>

(* ... then the session manager.                                           *)
CloseSession(s) ==
  /\ s \in closing /\ closing' = closing \ {s}
  /\ open' = open \ {s}
  /\ Publish(Of("SessionClosed", s))
  /\ UNCHANGED <<made, creating, monitored, tasks, compacting, sessionsFile, listed>>

(* rename_session, set_session_group: of the sessions, the state file's    *)
(* list of them is what is modelled, and these write it.                   *)
RenameSession(s) ==
  /\ s \in open
  /\ Publish(Of("SessionRenamed", s))
  /\ UNCHANGED <<made, open, creating, closing, monitored, tasks, compacting, sessionsFile, listed>>

(* process_output and tick: the detector finds another status.             *)
Detect(s, st) ==
  /\ monitored[s] \notin {"none", st}
  /\ monitored' = [monitored EXCEPT ![s] = st]
  /\ Publish(Changed(s, monitored[s], st))
  /\ UNCHANGED <<made, open, creating, closing, tasks, compacting, sessionsFile, listed>>

(* The board: a task is given to a session, a reviewed task is done.       *)
AssignToSession(t, s) ==
  /\ tasks[t].status = "Queued" /\ s \in open
  /\ tasks' = [tasks EXCEPT ![t] = [status |-> "Assigned", session |-> s]]
  /\ UNCHANGED <<made, open, creating, closing, monitored, inbox, lagged, compacting, waiter, sessionsFile, listed, unsaved>>

Approve(t) ==
  /\ tasks[t].status = "Review"
  /\ tasks' = [tasks EXCEPT ![t].status = "Done"]
  /\ UNCHANGED <<made, open, creating, closing, monitored, inbox, lagged, compacting, waiter, sessionsFile, listed, unsaved>>

(***************************************************************************)
(* The event loop.                                                         *)
(***************************************************************************)

(* find_task_by_session: any task of the map that names the session.       *)
Named(s) == {t \in BoardTasks : tasks[t].session = s}

(* map_session_to_task_status.                                             *)
MappedStatus(old, new, st) ==
  CASE old \in {"Idle", "NeedsAttention"} /\ new = "Working" /\ st = "Assigned" -> "Working"
    [] old = "Working" /\ new = "Idle" /\ st = "Working" -> "Review"
    [] OTHER -> st

(* Mutant of Handled: the close of a session is not looked at.             *)
HandledStatusOnly(e, st) ==
  IF e.kind = "SessionStatusChanged" THEN MappedStatus(e.old, e.new, st) ELSE st

(* What the handler of e makes of the status of the task found.            *)
Handled(e, st) ==
  CASE e.kind = "SessionClosed" -> IF st = "Working" THEN "Blocked" ELSE st
    [] e.kind = "SessionStatusChanged" -> MappedStatus(e.old, e.new, st)
    [] OTHER -> st

(* save_state_internal: a write that fails leaves the old file, is logged, *)
(* and is not tried again.                                                 *)
SavesSessions ==
  \/ sessionsFile' = open /\ unsaved' = FALSE
  \/ unsaved' = TRUE /\ UNCHANGED sessionsFile

(* Mutant of HandleEvent: the close of a session is not saved.             *)
HandleEventKeepingClosed ==
  /\ inbox # <<>> /\ inbox' = Tail(inbox)
  /\ LET e == Head(inbox) IN
       /\ tasks' \in IF Named(e.id) = {} THEN {tasks}
                     ELSE {[tasks EXCEPT ![t].status = Handled(e, @)] : t \in Named(e.id)}
       /\ IF Saving(e) /\ e.kind # "SessionClosed" THEN SavesSessions ELSE UNCHANGED <<sessionsFile, unsaved>>
  /\ UNCHANGED <<made, open, creating, closing, monitored, lagged, compacting, waiter, listed>>

(* handle_event; the state is saved after every event but a status change. *)
HandleEvent ==
  /\ inbox # <<>> /\ inbox' = Tail(inbox)
  /\ LET e == Head(inbox) IN
       /\ tasks' \in IF Named(e.id) = {} THEN {tasks}
                     ELSE {[tasks EXCEPT ![t].status = Handled(e, @)] : t \in Named(e.id)}
       /\ IF Saving(e) THEN SavesSessions ELSE UNCHANGED <<sessionsFile, unsaved>>
  /\ UNCHANGED <<made, open, creating, closing, monitored, lagged, compacting, waiter, listed>>

(* save_state, called by another thread: lists, ...                        *)
SaveStateLists ==
  /\ ~ listed.busy
  /\ listed' = [busy |-> TRUE, sessions |-> open]
  /\ UNCHANGED <<made, open, creating, closing, monitored, inbox, lagged, tasks, compacting, waiter, sessionsFile, unsaved>>

(* ... then writes, or returns the error of the write.  That this write    *)
(* and the event loop's share a temporary file is left to AutoSave.        *)
SaveStateWrites ==
  /\ listed.busy /\ listed' = NotListed
  /\ \/ sessionsFile' = listed.sessions /\ unsaved' = (listed.sessions # open)
     \/ UNCHANGED <<sessionsFile, unsaved>>
  /\ UNCHANGED <<made, open, creating, closing, monitored, inbox, lagged, tasks, compacting, waiter>>

(***************************************************************************)
(* Compaction.                                                             *)
(***************************************************************************)

(* Mutant of BeginCompaction: a session may be compacted already.          *)
BeginCompactionAgain(w, s) ==
  /\ waiter[w].step = "none"
  /\ compacting' = compacting \cup {s}
  /\ waiter' = [waiter EXCEPT ![w] = Thread("sending", s, <<>>)]
  /\ UNCHANGED <<made, open, creating, closing, monitored, inbox, lagged, tasks, sessionsFile, listed, unsaved>>

(* should_compact and begin_compaction, under one lock.                    *)
BeginCompaction(w, s) ==
  /\ waiter[w].step = "none"
  /\ s \notin compacting
  /\ compacting' = compacting \cup {s}
  /\ waiter' = [waiter EXCEPT ![w] = Thread("sending", s, <<>>)]
  /\ UNCHANGED <<made, open, creating, closing, monitored, inbox, lagged, tasks, sessionsFile, listed, unsaved>>

(* Mutant of SendCompact: a failed send leaves the flag.                   *)
SendCompactKeepingFlag(w) ==
  /\ waiter[w].step = "sending"
  /\ waiter' \in {[waiter EXCEPT ![w] = NoThread]}
       \cup (IF waiter[w].id \in open THEN {[waiter EXCEPT ![w].step = "spawned"]} ELSE {})
  /\ UNCHANGED <<made, open, creating, closing, monitored, inbox, lagged, tasks, compacting, sessionsFile, listed, unsaved>>

(* The command is sent and a thread is spawned, or the session is not      *)
(* there any more, or its input channel is full.                           *)
SendCompact(w) ==
  /\ waiter[w].step = "sending"
  /\ \/ /\ waiter[w].id \in open
        /\ waiter' = [waiter EXCEPT ![w].step = "spawned"]
        /\ UNCHANGED compacting
     \/ /\ waiter' = [waiter EXCEPT ![w] = NoThread]
        /\ compacting' = compacting \ {waiter[w].id}
  /\ UNCHANGED <<made, open, creating, closing, monitored, inbox, lagged, tasks, sessionsFile, listed, unsaved>>

(* The thread subscribes: what was published before is not for it.         *)
Subscribe(w) ==
  /\ waiter[w].step = "spawned"
  /\ waiter' = [waiter EXCEPT ![w].step = "waiting"]
  /\ UNCHANGED <<made, open, creating, closing, monitored, inbox, lagged, tasks, compacting, sessionsFile, listed, unsaved>>

(* One event: the end of the compaction is a session that is idle, needs   *)
(* attention or is closed.  The flag of a closed one is removed twice.     *)
Wait(w) ==
  /\ waiter[w].step = "waiting" /\ waiter[w].rx # <<>>
  /\ LET e == Head(waiter[w].rx) s == waiter[w].id IN
     IF e.id = s /\ (e.kind = "SessionClosed" \/ e.new \in {"Idle", "NeedsAttention"})
     THEN /\ waiter' = [waiter EXCEPT ![w] = Thread("ending", s, <<>>)]
          /\ compacting' = IF e.kind = "SessionClosed" THEN compacting \ {s} ELSE compacting
     ELSE /\ waiter' = [waiter EXCEPT ![w].rx = Tail(@)]
          /\ UNCHANGED compacting
  /\ UNCHANGED <<made, open, creating, closing, monitored, inbox, lagged, tasks, sessionsFile, listed, unsaved>>

TimeOut(w) ==
  /\ waiter[w].step = "waiting"
  /\ waiter' = [waiter EXCEPT ![w] = Thread("ending", @.id, <<>>)]
  /\ UNCHANGED <<made, open, creating, closing, monitored, inbox, lagged, tasks, compacting, sessionsFile, listed, unsaved>>

EndCompaction(w) ==
  /\ waiter[w].step = "ending"
  /\ compacting' = compacting \ {waiter[w].id}
  /\ waiter' = [waiter EXCEPT ![w] = NoThread]
  /\ UNCHANGED <<made, open, creating, closing, monitored, inbox, lagged, tasks, sessionsFile, listed, unsaved>>

CompactionStep(w) == SendCompact(w) \/ Subscribe(w) \/ Wait(w) \/ TimeOut(w) \/ EndCompaction(w)

BusNext ==
  \/ \E s \in Sessions :
       CreateSession(s) \/ StartMonitoring(s) \/ StopMonitoring(s) \/ CloseSession(s) \/ RenameSession(s)
  \/ \E s \in Sessions, st \in Found : Detect(s, st)
  \/ \E t \in BoardTasks, s \in Sessions : AssignToSession(t, s)
  \/ \E t \in BoardTasks : Approve(t)
  \/ HandleEvent \/ SaveStateLists \/ SaveStateWrites
  \/ \E w \in Waiters, s \in Sessions : BeginCompaction(w, s)
  \/ \E w \in Waiters : CompactionStep(w)

BusSpec == BusInit /\ [][BusNext]_busVars

(* The event loop goes on, a thread that waits is woken by its timeout at  *)
(* the latest, and a call that has begun ends.                             *)
BusFairness ==
  /\ WF_busVars(HandleEvent)
  /\ \A w \in Waiters :
       /\ WF_busVars(SendCompact(w) \/ Subscribe(w) \/ EndCompaction(w))
       /\ WF_busVars(TimeOut(w))

(***************************************************************************)
(* Properties.                                                             *)
(***************************************************************************)

(* A session that is being compacted has exactly one thread, or call, that *)
(* will release it: no second /compact is sent into it, and none of two    *)
(* threads releases the session while the other's command still runs.      *)
OneWaiterEach ==
  /\ \A s \in compacting : \E w \in Waiters : waiter[w].id = s
  /\ \A v, w \in Waiters :
       v # w /\ waiter[v].step \in {"spawned", "waiting"} => waiter[w].id # waiter[v].id \/ waiter[w].step = "none"

(* No session is held back from new work by a compaction for ever, though  *)
(* the event that ends it may come before the thread listens, may be lost, *)
(* or may never come.                                                      *)
CompactionEnds == \A s \in Sessions : s \in compacting ~> s \notin compacting

(* A task that is worked on in a session that is closed gets blocked, also *)
(* when the start of the work was announced just before: the detector is   *)
(* told of the close first, so that its events come before SessionClosed.  *)
(* Excepted are events that were lost, sessions that other tasks name too  *)
(* (any of them may be found), and a session that was closed by another    *)
(* thread while create_session was about to monitor it.                    *)
ClosedSessionBlocksItsTask ==
  \A t \in BoardTasks, s \in Sessions :
    (s \in made \ open /\ tasks[t] = [status |-> "Working", session |-> s])
      ~> \/ tasks[t].status # "Working" \/ lagged
         \/ Named(s) # {t} \/ monitored[s] # "none"

(* The list of sessions in the state file catches up with the sessions     *)
(* that are open, and nothing stands in the way of that for good: after a  *)
(* lost event, a failed write or an older list, each of which the program  *)
(* only logs, the next event of the session manager mends the file.        *)
SavedSessionsCatchUp ==
  \A s \in Sessions :
    (s \in made /\ (s \in sessionsFile) # (s \in open))
      ~> ((s \in sessionsFile) = (s \in open) \/ unsaved)
=============================================================================
