--------------------------- MODULE Sessions_proofs --------------------------
(***************************************************************************)
(* What the workspace believes of its sessions: the status it shows, and   *)
(* the compaction it waits for, for any number of sessions, signal files   *)
(* and threads.                                                            *)
(***************************************************************************)
EXTENDS StatusEngine, Integration, VecOps_proofs

(***************************************************************************)
(* Every session that is being compacted has one thread that will release  *)
(* it, for receivers of any size.  The point is the thread that was told   *)
(* of the close of its session: it has given the session free before it    *)
(* ends, so another one may begin for the same session; but a closed       *)
(* session is not opened again, and sending the command to it fails.       *)
(***************************************************************************)

Gone(s) == s \in made /\ s \notin open

(* An event that says a session is closed says the truth for good.         *)
Truthful == {e \in BusEvents : e.kind = "SessionClosed" => Gone(e.id)}

WaiterSteps == {"none", "sending", "spawned", "waiting", "ending", "ended"}
Threads == [step : WaiterSteps, id : Sessions \cup {NoSession}, rx : Seq(Truthful)]

BusTypes ==
  /\ made \subseteq Sessions /\ open \subseteq made /\ closing \subseteq made
  /\ compacting \subseteq Sessions
  /\ monitored \in [Sessions -> Found \cup {"none"}]
  /\ waiter \in [Waiters -> Threads]

Active(w) == waiter[w].step # "none"
Listens(w) == waiter[w].step \in {"spawned", "waiting"}

Released ==
  /\ \A s \in compacting : \E w \in Waiters : Active(w) /\ waiter[w].id = s
  /\ \A w \in Waiters : Active(w) => waiter[w].id \in compacting \/ Gone(waiter[w].id)
  /\ \A w \in Waiters : Listens(w) => waiter[w].id \in compacting
  /\ \A v, w \in Waiters :
       v # w /\ Active(v) /\ Active(w) /\ waiter[v].id = waiter[w].id =>
         Gone(waiter[v].id) /\ ~ Listens(v) /\ ~ Listens(w)

BusInv == BusTypes /\ Released

LEMMA SeqOfMore ==
  ASSUME NEW S, NEW T, S \subseteq T, NEW q \in Seq(S)
  PROVE  q \in Seq(T)
OBVIOUS

LEMMA ReceivedIsSeq ==
  ASSUME NEW S, NEW q \in Seq(S), NEW e \in S
  PROVE  Received(q, e) \in Seq(S)
<1>1. CASE q = <<>>
  BY <1>1 DEF Received
<1>2. CASE q # <<>>
  BY <1>2 DEF Received
<1> QED BY <1>1, <1>2

LEMMA NoThreadIsThread ==
  /\ NoThread \in Threads /\ NoThread.step = "none"
  /\ \A step, s, q : /\ Thread(step, s, q).step = step /\ Thread(step, s, q).id = s
                     /\ Thread(step, s, q).rx = q
BY DEF NoThread, Thread, Threads, WaiterSteps

(* A step in which no thread moves on.                                     *)
LEMMA NoThreadMoves ==
  ASSUME BusInv, compacting' = compacting,
         \A s \in Sessions : Gone(s) => Gone(s)',
         \A w \in Waiters : waiter'[w].step = waiter[w].step /\ waiter'[w].id = waiter[w].id
  PROVE  Released'
<1>1. \A w \in Waiters : (Active(w)' <=> Active(w)) /\ (Listens(w)' <=> Listens(w))
  BY DEF Active, Listens
<1>2. \A w \in Waiters : Gone(waiter[w].id) => Gone(waiter[w].id)'
  BY DEF Gone, BusInv, BusTypes
<1> QED BY <1>1, <1>2 DEF BusInv, Released

(* A step of one thread: Released has to be looked at for its session.     *)
LEMMA OneThreadMoves ==
  ASSUME BusInv, NEW w \in Waiters, NEW th \in Threads,
         waiter' = [waiter EXCEPT ![w] = th],
         made' = made, open' = open, closing' = closing, monitored' = monitored,
         compacting' \subseteq Sessions,
         Released'
  PROVE  BusInv'
<1>1. Threads' = Threads
  BY DEF Threads, Truthful, Gone
<1>2. BusTypes'
  BY <1>1 DEF BusInv, BusTypes
<1> QED BY <1>2 DEF BusInv

LEMMA BusInvInit == BusInit => BusInv
<1> SUFFICES ASSUME BusInit PROVE BusInv
  OBVIOUS
<1>1. BusTypes
  BY NoThreadIsThread DEF BusInit, BusTypes
<1>2. Released
  BY NoThreadIsThread DEF BusInit, Released, Active, Listens
<1> QED BY <1>1, <1>2 DEF BusInv

(* A step that publishes an event, or none.                                *)
LEMMA PublishKeeps ==
  ASSUME BusInv, compacting' = compacting,
         made' \subseteq Sessions, open' \subseteq made', closing' \subseteq made',
         monitored' \in [Sessions -> Found \cup {"none"}],
         \A s \in Sessions : Gone(s) => Gone(s)',
         \/ waiter' = waiter
         \/ \E e \in BusEvents : Publish(e) /\ (e.kind = "SessionClosed" => Gone(e.id)')
  PROVE  BusInv'
<1>1. Truthful \subseteq Truthful'
  BY DEF Truthful, BusEvents
<1>2. \A q \in Seq(Truthful) : q \in Seq(Truthful')
  BY <1>1, SeqOfMore
<1>3. \A w \in Waiters :
        /\ waiter[w] \in [step : WaiterSteps, id : Sessions \cup {NoSession}, rx : Seq(Truthful')]
        /\ waiter[w].rx \in Seq(Truthful')
  BY <1>2 DEF BusInv, BusTypes, Threads
<1>4. CASE waiter' = waiter
  <2>1. waiter' \in [Waiters -> Threads']
    BY <1>3, <1>4 DEF BusInv, BusTypes, Threads
  <2>2. Released'
    BY <1>4, NoThreadMoves
  <2> QED BY <2>1, <2>2 DEF BusInv, BusTypes
<1>5. ASSUME NEW e \in BusEvents, Publish(e), e.kind = "SessionClosed" => Gone(e.id)'
      PROVE  BusInv'
  <2>1. e \in Truthful'
    BY <1>5 DEF Truthful
  <2>2. \A w \in Waiters :
          waiter'[w] = IF waiter[w].step = "waiting"
                       THEN [waiter[w] EXCEPT !.rx = Received(waiter[w].rx, e)] ELSE waiter[w]
    BY <1>5 DEF Publish
  <2>3. ASSUME NEW w \in Waiters
        PROVE  /\ waiter'[w] \in [step : WaiterSteps, id : Sessions \cup {NoSession}, rx : Seq(Truthful')]
               /\ waiter'[w].step = waiter[w].step /\ waiter'[w].id = waiter[w].id
    <3>1. Received(waiter[w].rx, e) \in Seq(Truthful')
      BY <1>3, <2>1, ReceivedIsSeq
    <3> QED BY <1>3, <2>2, <3>1
  <2>4. waiter' \in [Waiters -> Threads']
    BY <1>5, <2>3 DEF Publish, Threads
  <2>5. Released'
    BY <2>3, NoThreadMoves
  <2> QED BY <2>4, <2>5 DEF BusInv, BusTypes
<1> QED BY <1>4, <1>5

LEMMA BusInvStep == BusInv /\ [BusNext]_busVars => BusInv'
<1> SUFFICES ASSUME BusInv, [BusNext]_busVars PROVE BusInv'
  OBVIOUS
<1>0. BusTypes /\ Released
  BY DEF BusInv
<1>1. ASSUME NEW s \in Sessions, CreateSession(s) PROVE BusInv'
  <2>1. Of("SessionCreated", s) \in BusEvents /\ Of("SessionCreated", s).kind = "SessionCreated"
    BY DEF Of, Event, BusEvents
  <2>2. \A u \in Sessions : Gone(u) => Gone(u)'
    BY <1>1 DEF CreateSession, Gone
  <2> QED BY <1>0, <1>1, <2>1, <2>2, PublishKeeps DEF CreateSession, BusTypes
<1>2. ASSUME NEW s \in Sessions, CloseSession(s) PROVE BusInv'
  <2>1. Of("SessionClosed", s) \in BusEvents /\ Of("SessionClosed", s).id = s
    BY DEF Of, Event, BusEvents
  <2>2. Gone(s)' /\ \A u \in Sessions : Gone(u) => Gone(u)'
    BY <1>0, <1>2 DEF CloseSession, Gone, BusTypes
  <2> QED BY <1>0, <1>2, <2>1, <2>2, PublishKeeps DEF CloseSession, BusTypes
<1>3. ASSUME NEW s \in Sessions, RenameSession(s) PROVE BusInv'
  <2>1. Of("SessionRenamed", s) \in BusEvents /\ Of("SessionRenamed", s).kind = "SessionRenamed"
    BY DEF Of, Event, BusEvents
  <2>2. \A u \in Sessions : Gone(u) => Gone(u)'
    BY <1>3 DEF RenameSession, Gone
  <2> QED BY <1>0, <1>3, <2>1, <2>2, PublishKeeps DEF RenameSession, BusTypes
<1>4. ASSUME NEW s \in Sessions, NEW st \in Found, Detect(s, st) PROVE BusInv'
  <2> DEFINE e == Changed(s, monitored[s], st)
  <2>1. e \in BusEvents /\ e.kind = "SessionStatusChanged"
    BY <1>0, <1>4 DEF Detect, Changed, Event, BusEvents, BusTypes
  <2>2. monitored' \in [Sessions -> Found \cup {"none"}]
    BY <1>0, <1>4 DEF Detect, BusTypes
  <2>3. \A u \in Sessions : Gone(u) => Gone(u)'
    BY <1>4 DEF Detect, Gone
  <2>4. Publish(e) /\ compacting' = compacting /\ made' = made /\ open' = open /\ closing' = closing
    BY <1>4 DEF Detect
  <2> HIDE DEF e
  <2> QED BY <1>0, <2>1, <2>2, <2>3, <2>4, PublishKeeps DEF BusTypes
<1>5. ASSUME NEW s \in Sessions, StartMonitoring(s) \/ StopMonitoring(s) PROVE BusInv'
  <2>1. monitored' \in [Sessions -> Found \cup {"none"}]
    BY <1>0, <1>5 DEF StartMonitoring, StopMonitoring, BusTypes, Found
  <2>2. closing' \subseteq made
    BY <1>0, <1>5 DEF StartMonitoring, StopMonitoring, BusTypes
  <2>3. made' = made /\ open' = open /\ waiter' = waiter /\ compacting' = compacting
    BY <1>5 DEF StartMonitoring, StopMonitoring
  <2>4. \A u \in Sessions : Gone(u) => Gone(u)'
    BY <2>3 DEF Gone
  <2> QED BY <1>0, <2>1, <2>2, <2>3, <2>4, PublishKeeps DEF BusTypes
<1>6. CASE \/ \E t \in BoardTasks, s \in Sessions : AssignToSession(t, s)
           \/ \E t \in BoardTasks : Approve(t)
           \/ HandleEvent \/ SaveStateLists \/ SaveStateWrites \/ UNCHANGED busVars
  <2>1. /\ made' = made /\ open' = open /\ closing' = closing /\ monitored' = monitored
        /\ waiter' = waiter /\ compacting' = compacting
    BY <1>6 DEF AssignToSession, Approve, HandleEvent, SaveStateLists, SaveStateWrites, busVars
  <2>2. \A u \in Sessions : Gone(u) => Gone(u)'
    BY <2>1 DEF Gone
  <2> QED BY <1>0, <2>1, <2>2, PublishKeeps DEF BusTypes
<1>7. ASSUME NEW w \in Waiters, NEW s \in Sessions, BeginCompaction(w, s) PROVE BusInv'
  <2> DEFINE th == Thread("sending", s, <<>>)
  <2>1. th \in Threads /\ th.step = "sending" /\ th.id = s
    BY DEF Thread, Threads, WaiterSteps
  <2>2. /\ waiter' = [waiter EXCEPT ![w] = th] /\ compacting' = compacting \cup {s}
        /\ s \notin compacting /\ ~ Active(w)
        /\ made' = made /\ open' = open /\ closing' = closing /\ monitored' = monitored
    BY <1>7 DEF BeginCompaction, Active
  <2> HIDE DEF th
  <2>3. waiter'[w] = th /\ \A v \in Waiters \ {w} : waiter'[v] = waiter[v]
    BY <1>0, <2>2 DEF BusTypes
  <2>4. \A u : Gone(u)' <=> Gone(u)
    BY <2>2 DEF Gone
  <2>5. \A v \in Waiters : Active(v) /\ waiter[v].id = s => Gone(s) /\ ~ Listens(v)
    BY <1>0, <2>2 DEF Released
  <2>6. Released'
    BY <1>0, <2>1, <2>2, <2>3, <2>4, <2>5 DEF Released, Active, Listens
  <2> QED BY <1>0, <2>1, <2>2, <2>6, OneThreadMoves DEF BusTypes
<1>8. ASSUME NEW w \in Waiters, SendCompact(w) PROVE BusInv'
  <2>0. waiter[w] \in Threads
    BY <1>0 DEF BusTypes
  <2>1. CASE /\ waiter[w].id \in open /\ waiter' = [waiter EXCEPT ![w].step = "spawned"]
             /\ UNCHANGED compacting
    <3> DEFINE th == [waiter[w] EXCEPT !.step = "spawned"]
    <3>1. th \in Threads /\ th.step = "spawned" /\ th.id = waiter[w].id
      BY <2>0 DEF Threads, WaiterSteps
    <3>2. /\ waiter' = [waiter EXCEPT ![w] = th] /\ compacting' = compacting /\ Active(w)
          /\ made' = made /\ open' = open /\ closing' = closing /\ monitored' = monitored
      BY <1>8, <2>1 DEF SendCompact, Active
    <3> HIDE DEF th
    <3>3. waiter'[w] = th /\ \A v \in Waiters \ {w} : waiter'[v] = waiter[v]
      BY <1>0, <3>2 DEF BusTypes
    <3>4. (\A u : Gone(u)' <=> Gone(u)) /\ ~ Gone(waiter[w].id)
      BY <2>1, <3>2 DEF Gone
    <3>5. waiter[w].id \in compacting /\ \A v \in Waiters \ {w} : Active(v) => waiter[v].id # waiter[w].id
      BY <1>0, <3>2, <3>4 DEF Released
    <3>6. Released'
      BY <1>0, <3>1, <3>2, <3>3, <3>4, <3>5 DEF Released, Active, Listens
    <3> QED BY <1>0, <3>1, <3>2, <3>6, OneThreadMoves DEF BusTypes
  <2>2. CASE waiter' = [waiter EXCEPT ![w] = NoThread] /\ compacting' = compacting \ {waiter[w].id}
    <3>1. /\ Active(w) /\ waiter[w].step = "sending"
          /\ made' = made /\ open' = open /\ closing' = closing /\ monitored' = monitored
      BY <1>8 DEF SendCompact, Active
    <3>2. waiter'[w] = NoThread /\ \A v \in Waiters \ {w} : waiter'[v] = waiter[v]
      BY <1>0, <2>2 DEF BusTypes
    <3>3. \A u : Gone(u)' <=> Gone(u)
      BY <3>1 DEF Gone
    <3>4. \A v \in Waiters \ {w} : Active(v) /\ waiter[v].id = waiter[w].id =>
            Gone(waiter[v].id) /\ ~ Listens(v)
      BY <1>0, <3>1 DEF Released
    <3>5. Released'
      BY <1>0, <2>2, <3>2, <3>3, <3>4, NoThreadIsThread DEF Released, Active, Listens
    <3> QED BY <1>0, <2>2, <3>1, <3>5, OneThreadMoves, NoThreadIsThread DEF BusTypes
  <2> QED BY <1>8, <2>1, <2>2 DEF SendCompact
<1>9. ASSUME NEW w \in Waiters, Subscribe(w) PROVE BusInv'
  <2> DEFINE th == [waiter[w] EXCEPT !.step = "waiting"]
  <2>1. th \in Threads /\ th.step = "waiting" /\ th.id = waiter[w].id
    BY <1>0 DEF Threads, WaiterSteps, BusTypes
  <2>2. /\ waiter' = [waiter EXCEPT ![w] = th] /\ compacting' = compacting
        /\ Active(w) /\ Listens(w)
        /\ made' = made /\ open' = open /\ closing' = closing /\ monitored' = monitored
    BY <1>9 DEF Subscribe, Active, Listens
  <2> HIDE DEF th
  <2>3. waiter'[w] = th /\ \A v \in Waiters \ {w} : waiter'[v] = waiter[v]
    BY <1>0, <2>2 DEF BusTypes
  <2>4. \A u : Gone(u)' <=> Gone(u)
    BY <2>2 DEF Gone
  <2>5. Released'
    BY <1>0, <2>1, <2>2, <2>3, <2>4 DEF Released, Active, Listens
  <2> QED BY <1>0, <2>1, <2>2, <2>5, OneThreadMoves DEF BusTypes
<1>10. ASSUME NEW w \in Waiters, Wait(w) \/ TimeOut(w) PROVE BusInv'
  <2>0. /\ waiter[w] \in Threads /\ Active(w) /\ Listens(w)
        /\ made' = made /\ open' = open /\ closing' = closing /\ monitored' = monitored
    BY <1>0, <1>10 DEF BusTypes, Wait, TimeOut, Active, Listens
  <2>1. \E th \in Threads :
          /\ waiter' = [waiter EXCEPT ![w] = th] /\ th.id = waiter[w].id
          /\ th.step = waiter[w].step \/ th.step = "ending"
          /\ \/ compacting' = compacting
             \/ /\ compacting' = compacting \ {waiter[w].id} /\ Gone(waiter[w].id)
                /\ th.step = "ending"
    <3>1. Thread("ending", waiter[w].id, <<>>) \in Threads
      BY <2>0 DEF Thread, Threads, WaiterSteps
    <3>2. CASE TimeOut(w)
      <4> DEFINE th == Thread("ending", waiter[w].id, <<>>)
      <4>1. waiter' = [waiter EXCEPT ![w] = th] /\ compacting' = compacting
        BY <3>2 DEF TimeOut
      <4>2. th.step = "ending" /\ th.id = waiter[w].id
        BY NoThreadIsThread
      <4> QED BY <3>1, <4>1, <4>2
    <3>3. CASE Wait(w)
      <4>1. Head(waiter[w].rx) \in Truthful /\ Tail(waiter[w].rx) \in Seq(Truthful)
        BY <2>0, <3>3 DEF Wait, Threads
      <4>2. CASE Head(waiter[w].rx).id = waiter[w].id /\ Head(waiter[w].rx).kind = "SessionClosed"
        <5>1. Gone(waiter[w].id)
          BY <4>1, <4>2 DEF Truthful
        <5> QED BY <3>1, <3>3, <4>2, <5>1, NoThreadIsThread DEF Wait
      <4>3. CASE /\ Head(waiter[w].rx).id = waiter[w].id /\ Head(waiter[w].rx).kind # "SessionClosed"
                 /\ Head(waiter[w].rx).new \in {"Idle", "NeedsAttention"}
        BY <3>1, <3>3, <4>3, NoThreadIsThread DEF Wait
      <4>4. CASE ~ (/\ Head(waiter[w].rx).id = waiter[w].id
                    /\ \/ Head(waiter[w].rx).kind = "SessionClosed"
                       \/ Head(waiter[w].rx).new \in {"Idle", "NeedsAttention"})
        <5> DEFINE th == [waiter[w] EXCEPT !.rx = Tail(waiter[w].rx)]
        <5>1. th \in Threads /\ th.id = waiter[w].id /\ th.step = waiter[w].step
          BY <2>0, <4>1 DEF Threads
        <5>2. waiter' = [waiter EXCEPT ![w] = th] /\ compacting' = compacting
          BY <3>3, <4>4 DEF Wait
        <5> QED BY <5>1, <5>2
      <4> QED BY <4>2, <4>3, <4>4
    <3> QED BY <1>10, <3>2, <3>3
  <2>2. PICK th \in Threads :
          /\ waiter' = [waiter EXCEPT ![w] = th] /\ th.id = waiter[w].id
          /\ th.step = waiter[w].step \/ th.step = "ending"
          /\ \/ compacting' = compacting
             \/ /\ compacting' = compacting \ {waiter[w].id} /\ Gone(waiter[w].id)
                /\ th.step = "ending"
    BY <2>1
  <2>3. waiter'[w] = th /\ \A v \in Waiters \ {w} : waiter'[v] = waiter[v]
    BY <1>0, <2>2 DEF BusTypes
  <2>4. \A u : Gone(u)' <=> Gone(u)
    BY <2>0 DEF Gone
  <2>5. \A v \in Waiters \ {w} : Active(v) => waiter[v].id # waiter[w].id
    BY <1>0, <2>0 DEF Released
  <2>6. Active(w)' /\ (Listens(w)' => compacting' = compacting)
    BY <2>0, <2>2, <2>3 DEF Active, Listens
  <2>7. \A v \in Waiters \ {w} : (Active(v)' <=> Active(v)) /\ (Listens(v)' <=> Listens(v))
    BY <2>3 DEF Active, Listens
  <2>8. Released'
    <3>1. \A s \in compacting' : \E v \in Waiters : Active(v)' /\ waiter'[v].id = s
      BY <1>0, <2>2, <2>3, <2>6, <2>7 DEF Released
    <3>2. \A v \in Waiters : Active(v)' => waiter'[v].id \in compacting' \/ Gone(waiter[v].id)'
      BY <1>0, <2>0, <2>2, <2>3, <2>4, <2>7 DEF Released
    <3>3. \A v \in Waiters : Listens(v)' => waiter'[v].id \in compacting'
      <4>1. Listens(w)' => waiter'[w].id \in compacting'
        BY <1>0, <2>0, <2>2, <2>3, <2>6 DEF Released
      <4>2. ASSUME NEW v \in Waiters \ {w}, Listens(v)' PROVE waiter'[v].id \in compacting'
        <5>1. waiter[v].id \in compacting /\ waiter[v].id # waiter[w].id
          BY <1>0, <2>5, <2>7, <4>2 DEF Released, Active, Listens
        <5> QED BY <2>2, <2>3, <5>1
      <4> QED BY <4>1, <4>2
    <3>4. ASSUME NEW u \in Waiters, NEW v \in Waiters, u # v, Active(u)', Active(v)',
                 waiter'[u].id = waiter'[v].id
          PROVE  Gone(waiter[u].id)' /\ ~ Listens(u)' /\ ~ Listens(v)'
      <4>1. u # w /\ v # w
        BY <2>2, <2>3, <2>5, <2>7, <3>4
      <4>2. waiter'[u] = waiter[u] /\ waiter'[v] = waiter[v]
        BY <2>3, <4>1
      <4>3. Gone(waiter[u].id) /\ ~ Listens(u) /\ ~ Listens(v)
        BY <1>0, <2>7, <3>4, <4>1, <4>2 DEF Released
      <4>4. Gone(waiter[u].id)'
        BY <2>0, <4>2, <4>3 DEF Gone
      <4> QED BY <2>7, <4>1, <4>3, <4>4
    <3> QED BY <3>1, <3>2, <3>3, <3>4 DEF Released
  <2>9. compacting' \subseteq Sessions
    BY <1>0, <2>2 DEF BusTypes
  <2> QED BY <2>0, <2>2, <2>8, <2>9, OneThreadMoves
<1>11. ASSUME NEW w \in Waiters, EndCompaction(w) PROVE BusInv'
  <2>1. /\ waiter' = [waiter EXCEPT ![w] = NoThread] /\ compacting' = compacting \ {waiter[w].id}
        /\ Active(w)
        /\ made' = made /\ open' = open /\ closing' = closing /\ monitored' = monitored
    BY <1>11 DEF EndCompaction, Active
  <2>2. waiter'[w] = NoThread /\ \A v \in Waiters \ {w} : waiter'[v] = waiter[v]
    BY <1>0, <2>1 DEF BusTypes
  <2>3. \A u : Gone(u)' <=> Gone(u)
    BY <2>1 DEF Gone
  <2>4. \A v \in Waiters \ {w} : Active(v) /\ waiter[v].id = waiter[w].id =>
          Gone(waiter[v].id) /\ ~ Listens(v)
    BY <1>0, <2>1 DEF Released
  <2>5. Released'
    BY <1>0, <2>1, <2>2, <2>3, <2>4, NoThreadIsThread DEF Released, Active, Listens
  <2> QED BY <1>0, <2>1, <2>5, OneThreadMoves, NoThreadIsThread DEF BusTypes
<1> QED BY <1>1, <1>2, <1>3, <1>4, <1>5, <1>6, <1>7, <1>8, <1>9, <1>10, <1>11
        DEF BusNext, CompactionStep

(* Every session that is being compacted has a thread, or a call, that     *)
(* releases it, and none that listens shares its session with another      *)
(* (begin_compaction under the lock of should_compact).                    *)
THEOREM OneReleasesEach == BusSpec => []OneWaiterEach
<1>1. BusInv => OneWaiterEach
  BY DEF BusInv, Released, Active, Listens, OneWaiterEach
<1> QED BY <1>1, BusInvInit, BusInvStep, PTL DEF BusSpec

(* The rest of the types: what the receivers hold, of which there is never *)
(* more than they have room for, the tasks and the state file.             *)
TaskOnBoard == [status : {"Queued", "Assigned", "Working", "Review", "Done", "Blocked"},
                session : Sessions \cup {NoSession}]

Fits(q) == q \in Seq(BusEvents) /\ Len(q) <= EventCap

BusRest ==
  /\ creating \subseteq made
  /\ Fits(inbox)
  /\ lagged \in BOOLEAN /\ unsaved \in BOOLEAN
  /\ tasks \in [BoardTasks -> TaskOnBoard]
  /\ sessionsFile \subseteq Sessions /\ listed.sessions \subseteq Sessions
  /\ \A w \in Waiters : Fits(waiter[w].rx)

LEMMA ReceivedFits ==
  ASSUME NEW q, Fits(q), NEW e \in BusEvents
  PROVE  Fits(Received(q, e))
<1>1. Len(q) \in Nat /\ Len(q) <= EventCap
  BY DEF Fits
<1>2. CASE Len(q) = EventCap
  <2>1. q # <<>>
    BY <1>2, BusAssumption DEF Fits
  <2>2. Tail(q) \in Seq(BusEvents) /\ Len(Tail(q)) = Len(q) - 1
    BY <2>1 DEF Fits
  <2> QED BY <1>1, <1>2, <2>2 DEF Fits, Received
<1>3. CASE Len(q) # EventCap
  BY <1>1, <1>3, BusAssumption DEF Fits, Received
<1> QED BY <1>2, <1>3

LEMMA TailFits ==
  ASSUME NEW q, Fits(q), q # <<>>
  PROVE  Fits(Tail(q)) /\ Head(q) \in BusEvents
BY BusAssumption DEF Fits

LEMMA NothingFits == Fits(<<>>)
BY BusAssumption DEF Fits

(* An event finds its way into the receivers.                              *)
LEMMA PublishFits ==
  ASSUME BusTypes, BusRest, NEW e \in BusEvents, Publish(e)
  PROVE  /\ Fits(inbox') /\ lagged' \in BOOLEAN /\ unsaved' \in BOOLEAN
         /\ \A w \in Waiters : Fits(waiter'[w].rx)
<1>1. Fits(inbox')
  BY ReceivedFits DEF BusRest, Publish
<1>2. lagged' \in BOOLEAN /\ unsaved' \in BOOLEAN
  BY DEF BusRest, Publish
<1>3. ASSUME NEW w \in Waiters PROVE Fits(waiter'[w].rx)
  <2>1. Fits(waiter[w].rx) /\ waiter[w] \in Threads
    BY DEF BusRest, BusTypes
  <2>2. Fits(Received(waiter[w].rx, e))
    BY <2>1, ReceivedFits
  <2>3. waiter'[w] = IF waiter[w].step = "waiting"
                     THEN [waiter[w] EXCEPT !.rx = Received(waiter[w].rx, e)] ELSE waiter[w]
    BY DEF Publish
  <2> QED BY <2>1, <2>2, <2>3 DEF Threads
<1> QED BY <1>1, <1>2, <1>3

(* One thread goes on with a receiver that fits, and nothing else of the   *)
(* rest changes.                                                           *)
LEMMA ThreadFits ==
  ASSUME BusTypes, BusRest, NEW w \in Waiters, NEW th, waiter' = [waiter EXCEPT ![w] = th], Fits(th.rx),
         UNCHANGED <<made, creating, inbox, lagged, tasks, sessionsFile, listed, unsaved>>
  PROVE  BusRest'
<1>1. \A v \in Waiters : Fits(waiter'[v].rx)
  BY DEF BusTypes, BusRest
<1> QED BY <1>1 DEF BusRest, Fits

LEMMA BusRestInit == BusInit => BusRest
<1> SUFFICES ASSUME BusInit PROVE BusRest
  OBVIOUS
<1>1. tasks \in [BoardTasks -> TaskOnBoard]
  BY DEF BusInit, TaskOnBoard
<1>2. \A w \in Waiters : waiter[w].rx = <<>>
  BY DEF BusInit, NoThread, Thread
<1> QED BY <1>1, <1>2, NothingFits DEF BusInit, BusRest, NotListed

LEMMA BusRestStep == BusTypes /\ BusRest /\ [BusNext]_busVars => BusRest'
<1> SUFFICES ASSUME BusTypes, BusRest, [BusNext]_busVars PROVE BusRest'
  OBVIOUS
<1>0. \A w \in Waiters : Fits(waiter[w].rx) /\ waiter[w] \in Threads
  BY DEF BusTypes, BusRest
<1>1. ASSUME NEW s \in Sessions, CreateSession(s) PROVE BusRest'
  <2>1. Of("SessionCreated", s) \in BusEvents
    BY DEF Of, Event, BusEvents
  <2>2. Publish(Of("SessionCreated", s))
    BY <1>1 DEF CreateSession
  <2>3. /\ Fits(inbox') /\ lagged' \in BOOLEAN /\ unsaved' \in BOOLEAN
        /\ \A w \in Waiters : Fits(waiter'[w].rx)
    BY <2>1, <2>2, PublishFits
  <2> QED BY <1>1, <2>3 DEF CreateSession, BusRest, Fits
<1>2. ASSUME NEW s \in Sessions, CloseSession(s) PROVE BusRest'
  <2>1. Of("SessionClosed", s) \in BusEvents
    BY DEF Of, Event, BusEvents
  <2>2. Publish(Of("SessionClosed", s))
    BY <1>2 DEF CloseSession
  <2>3. /\ Fits(inbox') /\ lagged' \in BOOLEAN /\ unsaved' \in BOOLEAN
        /\ \A w \in Waiters : Fits(waiter'[w].rx)
    BY <2>1, <2>2, PublishFits
  <2> QED BY <1>2, <2>3 DEF CloseSession, BusRest, Fits
<1>3. ASSUME NEW s \in Sessions, RenameSession(s) PROVE BusRest'
  <2>1. Of("SessionRenamed", s) \in BusEvents
    BY DEF Of, Event, BusEvents
  <2>2. Publish(Of("SessionRenamed", s))
    BY <1>3 DEF RenameSession
  <2>3. /\ Fits(inbox') /\ lagged' \in BOOLEAN /\ unsaved' \in BOOLEAN
        /\ \A w \in Waiters : Fits(waiter'[w].rx)
    BY <2>1, <2>2, PublishFits
  <2> QED BY <1>3, <2>3 DEF RenameSession, BusRest, Fits
<1>4. ASSUME NEW s \in Sessions, NEW st \in Found, Detect(s, st) PROVE BusRest'
  <2>1. Changed(s, monitored[s], st) \in BusEvents
    BY <1>4 DEF Detect, Changed, Event, BusEvents, BusTypes
  <2>2. Publish(Changed(s, monitored[s], st))
    BY <1>4 DEF Detect
  <2>3. /\ Fits(inbox') /\ lagged' \in BOOLEAN /\ unsaved' \in BOOLEAN
        /\ \A w \in Waiters : Fits(waiter'[w].rx)
    BY <2>1, <2>2, PublishFits
  <2> QED BY <1>4, <2>3 DEF Detect, BusRest, Fits
<1>5. ASSUME NEW s \in Sessions, StartMonitoring(s) \/ StopMonitoring(s) PROVE BusRest'
  BY <1>5 DEF StartMonitoring, StopMonitoring, BusRest, Fits
<1>6. ASSUME NEW t \in BoardTasks, NEW s \in Sessions, AssignToSession(t, s) PROVE BusRest'
  <2>1. tasks' \in [BoardTasks -> TaskOnBoard]
    BY <1>6 DEF AssignToSession, BusRest, TaskOnBoard
  <2> QED BY <1>6, <2>1 DEF AssignToSession, BusRest, Fits, TaskOnBoard
<1>7. ASSUME NEW t \in BoardTasks, Approve(t) PROVE BusRest'
  <2>1. tasks' \in [BoardTasks -> TaskOnBoard]
    BY <1>7 DEF Approve, BusRest, TaskOnBoard
  <2> QED BY <1>7, <2>1 DEF Approve, BusRest, Fits, TaskOnBoard
<1>8. CASE HandleEvent
  <2>1. Fits(inbox')
    BY <1>8, TailFits DEF HandleEvent, BusRest
  <2>2. tasks' \in [BoardTasks -> TaskOnBoard]
    <3> DEFINE e == Head(inbox)
    <3>1. CASE tasks' = tasks
      BY <3>1 DEF BusRest
    <3>2. ASSUME NEW t \in BoardTasks, tasks' = [tasks EXCEPT ![t].status = Handled(e, @)]
          PROVE  tasks' \in [BoardTasks -> TaskOnBoard]
      <4>1. tasks[t] \in TaskOnBoard
        BY DEF BusRest
      <4>2. Handled(e, tasks[t].status) \in {"Queued", "Assigned", "Working", "Review", "Done", "Blocked"}
        BY <4>1 DEF Handled, MappedStatus, TaskOnBoard
      <4>3. [tasks[t] EXCEPT !.status = Handled(e, tasks[t].status)] \in TaskOnBoard
        BY <4>1, <4>2 DEF TaskOnBoard
      <4> QED BY <3>2, <4>3 DEF BusRest
    <3>3. tasks' = tasks \/ \E t \in BoardTasks : tasks' = [tasks EXCEPT ![t].status = Handled(e, @)]
      BY <1>8 DEF HandleEvent, Named
    <3> QED BY <3>1, <3>2, <3>3
  <2>3. sessionsFile' \subseteq Sessions /\ unsaved' \in BOOLEAN
    BY <1>8 DEF HandleEvent, SavesSessions, BusRest, BusTypes
  <2> QED BY <1>8, <2>1, <2>2, <2>3 DEF HandleEvent, BusRest, Fits, TaskOnBoard
<1>9. CASE SaveStateLists \/ SaveStateWrites
  <2>1. listed'.sessions \subseteq Sessions
    BY <1>9 DEF SaveStateLists, SaveStateWrites, NotListed, BusTypes
  <2>2. sessionsFile' \subseteq Sessions /\ unsaved' \in BOOLEAN
    BY <1>9 DEF SaveStateLists, SaveStateWrites, BusRest
  <2>3. UNCHANGED <<made, creating, inbox, lagged, tasks, waiter>>
    BY <1>9 DEF SaveStateLists, SaveStateWrites
  <2> QED BY <2>1, <2>2, <2>3 DEF BusRest, Fits, TaskOnBoard
<1>10. ASSUME NEW w \in Waiters, NEW s \in Sessions, BeginCompaction(w, s) PROVE BusRest'
  <2>1. Fits(Thread("sending", s, <<>>).rx)
    BY NothingFits DEF Thread
  <2> QED BY <1>10, <2>1, ThreadFits DEF BeginCompaction
<1>11. ASSUME NEW w \in Waiters, CompactionStep(w) PROVE BusRest'
  <2>1. PICK th : waiter' = [waiter EXCEPT ![w] = th] /\ Fits(th.rx)
    <3> DEFINE now == waiter[w]
    <3>1. now \in Threads /\ Fits(now.rx)
      BY <1>0
    <3>2. Fits(NoThread.rx)
      BY NothingFits DEF NoThread, Thread
    <3>3. CASE SendCompact(w) \/ Subscribe(w) \/ EndCompaction(w)
      <4>1. \/ waiter' = [waiter EXCEPT ![w] = [now EXCEPT !.step = "spawned"]]
            \/ waiter' = [waiter EXCEPT ![w] = [now EXCEPT !.step = "waiting"]]
            \/ waiter' = [waiter EXCEPT ![w] = NoThread]
        BY <3>3 DEF SendCompact, Subscribe, EndCompaction
      <4> QED BY <3>1, <3>2, <4>1 DEF Threads
    <3>4. CASE Wait(w) \/ TimeOut(w)
      <4>1. \/ waiter' = [waiter EXCEPT ![w] = Thread("ending", now.id, <<>>)]
            \/ now.rx # <<>> /\ waiter' = [waiter EXCEPT ![w] = [now EXCEPT !.rx = Tail(now.rx)]]
        BY <3>4 DEF Wait, TimeOut
      <4>2. Fits(Thread("ending", now.id, <<>>).rx)
        BY NothingFits DEF Thread
      <4>3. ASSUME now.rx # <<>> PROVE Fits([now EXCEPT !.rx = Tail(now.rx)].rx)
        BY <3>1, <4>3, TailFits DEF Threads
      <4> QED BY <4>1, <4>2, <4>3
    <3> QED BY <1>11, <3>3, <3>4 DEF CompactionStep
  <2>2. UNCHANGED <<made, creating, inbox, lagged, tasks, sessionsFile, listed, unsaved>>
    BY <1>11 DEF CompactionStep, SendCompact, Subscribe, EndCompaction, Wait, TimeOut
  <2> QED BY <2>1, <2>2, ThreadFits
<1>12. CASE UNCHANGED busVars
  BY <1>12 DEF busVars, BusRest, Fits, TaskOnBoard
<1> QED
  BY <1>1, <1>2, <1>3, <1>4, <1>5, <1>6, <1>7, <1>8, <1>9, <1>10, <1>11, <1>12 DEF BusNext

LEMMA BusInvTypes == BusInv /\ BusRest => BusTypeOK
<1> SUFFICES ASSUME BusInv, BusRest PROVE BusTypeOK
  OBVIOUS
<1>1. \A q : Fits(q) => Len(q) <= EventCap /\ Range(q) \subseteq BusEvents
  BY DEF Fits, Range
<1>2. \A w \in Waiters :
        /\ waiter[w].step \in {"none", "sending", "spawned", "waiting", "ending", "ended"}
        /\ waiter[w].id \in Sessions \cup {NoSession}
        /\ Len(waiter[w].rx) <= EventCap /\ Range(waiter[w].rx) \subseteq BusEvents
  BY <1>1 DEF BusInv, BusTypes, BusRest, Threads, WaiterSteps
<1> QED BY <1>1, <1>2 DEF BusInv, BusTypes, BusRest, BusTypeOK, TaskOnBoard

(* The integration layer keeps its types: no receiver holds more events    *)
(* than it has room for, and what the threads, the board and the state     *)
(* file name are sessions, whoever is interrupted where.                   *)
THEOREM BusTypesHold == BusSpec => []BusTypeOK
<1>1. BusInv => BusTypes
  BY DEF BusInv
<1> QED BY <1>1, BusInvInit, BusInvStep, BusRestInit, BusRestStep, BusInvTypes, PTL DEF BusSpec

(***************************************************************************)
(* The status of a session.  Of each signal file, what was applied was     *)
(* signalled before what a scan has read, that before what the file says,  *)
(* and that before what a hook program is about to write (InOrder).  So    *)
(* the signals are applied in their order, and what a scan brings is       *)
(* either the signal that was applied before, which is passed over, or a   *)
(* later one, which ends the time the response counts as viewed.           *)
(***************************************************************************)

(* a was signalled before b, or is b.                                      *)
Before(a, b) == a = b \/ (a.nr < b.nr /\ a.ts <= b.ts)

Numbered == {NoSignal} \cup Signals

(* What a batch may hold while the scan k is under way.                    *)
BatchInOrder(k) ==
  LET batch == scan[k].batch IN
  /\ IsFiniteSet(batch)
  /\ \A u \in batch :
       /\ u[1] \notin scan[k].todo
       /\ Before(seen[u[1]], u[2]) /\ Before(u[2], signal[u[1]])
  /\ \A u, v \in batch : u[1] = v[1] => u = v

(* Of each signal file: what was applied came before what the scan has     *)
(* read, that before what the file says, that before what is to be         *)
(* written.  One scan at most is under way.                                *)
FileInOrder(f) ==
  /\ Before(seen[f], signal[f])
  /\ hook[f] # NoSignal => signal[f].nr < hook[f].nr /\ signal[f].ts <= hook[f].ts
  /\ signal[f].nr <= count /\ hook[f].nr <= count
  /\ signal[f].ts <= second /\ hook[f].ts <= second

OneScan == \A k, l \in Scanners : scan[k].busy /\ scan[l].busy => k = l

InOrder ==
  /\ \A f \in HookFiles : FileInOrder(f)
  /\ OneScan
  /\ \A k \in Scanners : IF scan[k].busy THEN BatchInOrder(k) ELSE scan[k].batch = {}

StatusInv == StatusTypeOK /\ InOrder /\ ViewedStaysViewed

(* What reconcile and the updates work on.                                 *)
States == [cache : {Nothing} \cup Caches, shown : Statuses, seen : [HookFiles -> Numbered],
           applied : 0 .. MaxSecond, viewed : BOOLEAN]

Unviewed(st) == st.viewed /\ st.cache # Nothing => st.cache.status # "ResponseReady"

LEMMA NumbersAreNaturals ==
  ASSUME cli \in Clis
  PROVE  /\ MaxSignals[cli] \in Nat /\ MaxSecond \in Nat
         /\ \A a \in Numbered : a.nr \in Nat /\ a.ts \in 0 .. MaxSecond
         /\ \A a \in Signals : a # NoSignal
BY StatusAssumption DEF StatusAssumption, Numbered, Signals, NoSignal, HookStatuses

LEMMA BeforeTransitive ==
  ASSUME cli \in Clis, NEW a \in Numbered, NEW b \in Numbered, NEW c \in Numbered, Before(a, b), Before(b, c)
  PROVE  Before(a, c)
<1>1. /\ a.nr \in Nat /\ b.nr \in Nat /\ c.nr \in Nat
      /\ a.ts \in Nat /\ b.ts \in Nat /\ c.ts \in Nat
  BY NumbersAreNaturals
<1> QED BY <1>1 DEF Before

LEMMA NothingIsNoCache == Nothing.status \notin Statuses /\ \A c \in Caches : c # Nothing /\ c.status \in Statuses
BY DEF Nothing, Caches, Statuses

LEMMA SyncKeeps ==
  ASSUME NEW st \in States, detector.status \in Statuses
  PROVE  /\ Sync(st) \in States
         /\ Sync(st).seen = st.seen /\ Sync(st).viewed = st.viewed /\ Sync(st).applied = st.applied
         /\ Sync(st).cache \in {Nothing, st.cache}
<1> DEFINE c == Alive(st.cache)
           det == detector.status
           cache1 == IF StaleAttention(det, c) THEN Nothing ELSE c
           shown1 == Reconciled(det, c)
<1>1. st.cache \in {Nothing} \cup Caches
  BY DEF States
<1>2. c \in {Nothing, st.cache} /\ c \in {Nothing} \cup Caches
  BY <1>1 DEF Alive
<1>3. shown1 \in Statuses
  BY <1>2, NothingIsNoCache DEF Reconciled, DetectorWins
<1>4. cache1 \in {Nothing, st.cache} /\ cache1 \in {Nothing} \cup Caches
  BY <1>2
<1>5. Sync(st) = [st EXCEPT !.cache = cache1, !.shown = shown1]
  BY DEF Sync
<1> HIDE DEF cache1, shown1
<1> QED BY <1>3, <1>4, <1>5 DEF States

LEMMA AppliedKeeps ==
  ASSUME cli \in Clis, NEW st \in States, NEW f \in HookFiles, NEW sig \in Signals,
         Before(st.seen[f], sig), Unviewed(st), detector.status \in Statuses, focused \in BOOLEAN
  PROVE  LET new == Applied(st, <<f, sig>>) IN
         /\ new \in States /\ Unviewed(new)
         /\ new.seen = st.seen \/ new.seen = [st.seen EXCEPT ![f] = sig]
<1>1. CASE ~ ShouldApply(st.seen[f], sig)
  BY <1>1 DEF Applied
<1>2. CASE ShouldApply(st.seen[f], sig)
  <2> DEFINE seen1 == [st.seen EXCEPT ![f] = sig]
             s1 == [st EXCEPT !.seen = seen1]
             status1 == StatusOfSignal(sig.status, st.shown)
             cache1 == Cached(s1.cache, status1, "Hook")
             viewed1 == s1.viewed /\ sig.nr <= st.seen[f].nr
             s2 == [s1 EXCEPT !.cache = cache1, !.applied = sig.ts, !.viewed = viewed1]
  <2>0. Applied(st, <<f, sig>>) = Sync(s2)
    BY <1>2 DEF Applied
  <2>1. /\ st.seen[f] \in Numbered /\ st.seen \in [HookFiles -> Numbered] /\ sig \in Numbered
        /\ st.seen[f].nr \in Nat /\ sig.nr \in Nat /\ st.seen[f].ts \in Nat /\ sig.ts \in 0 .. MaxSecond
        /\ sig # NoSignal /\ MaxSecond \in Nat
    BY NumbersAreNaturals DEF States, Numbered
  <2>2. viewed1 = FALSE
    BY <1>2, <2>1 DEF ShouldApply, Before
  <2>3. status1 \in Statuses
    BY DEF StatusOfSignal, Statuses
  <2>4. cache1 \in Caches
    <3> HIDE DEF s1, status1
    <3> QED BY <2>3 DEF Cached, Caches
  <2>5. seen1 \in [HookFiles -> Numbered]
    BY <2>1
  <2> HIDE DEF seen1, cache1, viewed1
  <2>6. s1 \in States /\ s1.seen = seen1
    BY <2>5 DEF States
  <2> HIDE DEF s1
  <2>7. s2 \in States /\ s2.seen = seen1 /\ s2.viewed = FALSE
    BY <2>1, <2>2, <2>4, <2>6 DEF States
  <2> HIDE DEF s2
  <2> QED BY <2>0, <2>7, SyncKeeps DEF Unviewed, seen1
<1> QED BY <1>1, <1>2

LEMMA AfterAllUnfolds ==
  ASSUME NEW S, NEW q \in Seq(S)
  PROVE  \E after : /\ AfterAll(q) = after[Len(q)]
                    /\ after[0] = Here
                    /\ \A k \in 1 .. Len(q) : after[k] = Applied(after[k - 1], q[k])
<1> DEFINE n == Len(q)
           Next1(f, i) == IF i = 0 THEN Here ELSE Applied(f[i - 1], q[i])
           IsAfter(f, k) == f = [i \in 0 .. k |-> Next1(f, i)]
           after == CHOOSE f : IsAfter(f, n)
<1>1. AfterAll(q) = after[n]
  BY Zenon DEF AfterAll
<1>2. \E f : IsAfter(f, n)
  <2> DEFINE Good == {k \in Nat : k <= n => \E f : IsAfter(f, k)}
  <2>1. 0 \in Good
    <3>1. IsAfter([i \in 0 .. 0 |-> Here], 0)
      OBVIOUS
    <3> QED BY <3>1
  <2>2. \A k \in Nat : k \in Good => k + 1 \in Good
    <3> HIDE DEF IsAfter
    <3> SUFFICES ASSUME NEW k \in Nat, k + 1 <= n, NEW f, IsAfter(f, k)
                 PROVE  \E h : IsAfter(h, k + 1)
      OBVIOUS
    <3> USE DEF IsAfter
    <3>1. IsAfter(f, k)
      OBVIOUS
    <3> DEFINE g == [i \in 0 .. k + 1 |-> IF i = k + 1 THEN Next1(f, i) ELSE f[i]]
    <3>2. ASSUME NEW i \in 0 .. k + 1 PROVE g[i] = Next1(g, i)
      <4>1. CASE i = 0
        BY <3>1, <4>1
      <4>2. CASE i # 0
        <5>1. i - 1 \in 0 .. k
          BY <4>2
        <5>2. g[i - 1] = f[i - 1]
          BY <5>1
        <5>3. g[i] = Next1(f, i)
          <6>1. CASE i = k + 1
            BY <6>1
          <6>2. CASE i # k + 1
            <7>1. i \in 0 .. k
              BY <6>2
            <7>2. f[i] = Next1(f, i)
              <8> HIDE DEF Next1
              <8> QED BY <3>1, <7>1
            <7> QED BY <7>1, <7>2, <6>2
          <6> QED BY <6>1, <6>2
        <5> QED BY <5>2, <5>3, <4>2
      <4> QED BY <4>1, <4>2
    <3>3. IsAfter(g, k + 1)
      <4> HIDE DEF Next1
      <4> QED BY <3>2
    <3> QED BY <3>3
  <2>3. n \in Nat
    OBVIOUS
  <2> HIDE DEF Good
  <2>4. n \in Good
    BY <2>1, <2>2, <2>3, NatSetInduction
  <2> QED BY <2>4 DEF Good
<1>3. IsAfter(after, n)
  <2> HIDE DEF IsAfter
  <2> QED BY <1>2
<1>4. \A i \in 0 .. n : after[i] = Next1(after, i)
  <2> HIDE DEF after, Next1
  <2> QED BY <1>3
<1> HIDE DEF after
<1>5. after[0] = Here
  BY <1>4
<1>6. \A k \in 1 .. n : after[k] = Applied(after[k - 1], q[k])
  BY <1>4
<1> QED BY <1>1, <1>5, <1>6

(* Where a batch of one signal of each file at most, all of them signalled *)
(* after what was seen and before what the files say, leads.               *)
LEMMA BatchApplied ==
  ASSUME StatusInv, NEW k \in Scanners, scan[k].busy, NEW q \in ByTime(scan[k].batch)
  PROVE  /\ AfterAll(q) \in States /\ Unviewed(AfterAll(q))
         /\ \A f \in HookFiles : /\ Before(seen[f], AfterAll(q).seen[f])
                                 /\ Before(AfterAll(q).seen[f], signal[f])
<1> DEFINE batch == scan[k].batch
           n == Len(q)
<1>1. /\ BatchInOrder(k) /\ batch \subseteq HookFiles \X Signals
      /\ \A f \in HookFiles : FileInOrder(f)
      /\ cli \in Clis /\ detector.status \in Statuses /\ focused \in BOOLEAN
      /\ seen \in [HookFiles -> Numbered] /\ signal \in [HookFiles -> Numbered]
  BY DEF StatusInv, StatusTypeOK, InOrder, Numbered
<1>2. /\ q \in Seq(batch) /\ n \in Nat
      /\ \A i, j \in 1 .. n : i # j => q[i] # q[j]
  <2>1. Cardinality(batch) \in Nat
    BY <1>1, FS_CardinalityType DEF BatchInOrder
  <2>2. /\ q \in [1 .. Cardinality(batch) -> batch]
        /\ \A i, j \in 1 .. Cardinality(batch) : i # j => q[i] # q[j]
    BY DEF ByTime, SetToSeqs
  <2> QED BY <2>1, <2>2
<1>3. \A i \in 1 .. n : q[i] \in batch /\ q[i][1] \in HookFiles /\ q[i][2] \in Signals /\ q[i] = <<q[i][1], q[i][2]>>
  BY <1>1, <1>2
<1>4. \A i, j \in 1 .. n : i # j => q[i][1] # q[j][1]
  BY <1>1, <1>2, <1>3 DEF BatchInOrder
<1>5. PICK after : /\ AfterAll(q) = after[n]
                   /\ after[0] = Here
                   /\ \A i \in 1 .. n : after[i] = Applied(after[i - 1], q[i])
  BY <1>2, AfterAllUnfolds
<1> DEFINE Reached(st, i) ==
             /\ st \in States /\ Unviewed(st)
             /\ \A f \in HookFiles : Before(seen[f], st.seen[f]) /\ Before(st.seen[f], signal[f])
             /\ \A j \in i + 1 .. n : Before(st.seen[q[j][1]], q[j][2])
           Right == {i \in Nat : i <= n => Reached(after[i], i)}
<1>6. 0 \in Right
  <2>1. Here \in States /\ Here.seen = seen
    BY DEF StatusInv, StatusTypeOK, Here, States, Numbered
  <2>2. Unviewed(Here)
    BY DEF StatusInv, ViewedStaysViewed, Here, Unviewed
  <2>3. \A f \in HookFiles : Before(seen[f], seen[f]) /\ Before(seen[f], signal[f])
    BY <1>1 DEF FileInOrder, Before
  <2>4. \A j \in 1 .. n : Before(seen[q[j][1]], q[j][2])
    BY <1>1, <1>3 DEF BatchInOrder
  <2>5. Reached(Here, 0)
    BY <2>1, <2>2, <2>3, <2>4
  <2> HIDE DEF Reached
  <2> QED BY <1>5, <2>5
<1>7. ASSUME NEW i \in Nat, i \in Right PROVE i + 1 \in Right
  <2> SUFFICES ASSUME i + 1 <= n PROVE Reached(after[i + 1], i + 1)
    OBVIOUS
  <2> DEFINE st == after[i]
             f == q[i + 1][1]
             sig == q[i + 1][2]
             new == Applied(st, <<f, sig>>)
  <2>1. Reached(st, i)
    BY <1>7
  <2>2. i + 1 \in 1 .. n
    BY <1>2
  <2>3. f \in HookFiles /\ sig \in Signals /\ q[i + 1] = <<f, sig>> /\ q[i + 1] \in batch
    BY <1>3, <2>2
  <2>4. after[i + 1] = new
    <3>1. after[i + 1] = Applied(after[(i + 1) - 1], q[i + 1])
      BY <1>5, <2>2
    <3>2. (i + 1) - 1 = i
      OBVIOUS
    <3> QED BY <2>3, <3>1, <3>2
  <2>5. Before(st.seen[f], sig) /\ st \in States /\ Unviewed(st)
    BY <1>2, <2>1, <2>2
  <2> HIDE DEF st, f, sig
  <2>6. /\ new \in States /\ Unviewed(new)
        /\ new.seen = st.seen \/ new.seen = [st.seen EXCEPT ![f] = sig]
    BY <1>1, <2>3, <2>5, AppliedKeeps
  <2>7. st.seen \in [HookFiles -> Numbered] /\ sig \in Numbered
    BY <2>3, <2>5 DEF States, Numbered
  <2>8. ASSUME NEW g \in HookFiles
        PROVE  Before(seen[g], new.seen[g]) /\ Before(new.seen[g], signal[g])
    <3>1. Before(seen[g], st.seen[g]) /\ Before(st.seen[g], signal[g])
      BY <2>1
    <3>2. CASE new.seen[g] = st.seen[g]
      BY <3>1, <3>2
    <3>3. CASE g = f /\ new.seen[g] = sig
      <4>1. Before(seen[g], sig)
        BY <1>1, <2>5, <2>7, <3>1, <3>3, BeforeTransitive
      <4>2. Before(sig, signal[g])
        BY <1>1, <2>3, <3>3 DEF BatchInOrder
      <4> QED BY <3>3, <4>1, <4>2
    <3> QED BY <2>6, <2>7, <3>2, <3>3
  <2>9. ASSUME NEW j \in (i + 1) + 1 .. n
        PROVE  Before(new.seen[q[j][1]], q[j][2])
    <3>1. j \in i + 1 .. n /\ j \in 1 .. n /\ j # i + 1
      BY <1>2, <2>9
    <3>2. Before(st.seen[q[j][1]], q[j][2])
      BY <2>1, <3>1
    <3>3. q[j][1] # f /\ q[j][1] \in HookFiles
      BY <1>3, <1>4, <2>2, <3>1 DEF f
    <3>4. new.seen[q[j][1]] = st.seen[q[j][1]]
      BY <2>6, <2>7, <3>3
    <3> QED BY <3>2, <3>4
  <2> HIDE DEF new
  <2> QED BY <2>4, <2>6, <2>8, <2>9
<1>8. n \in Right
  <2> HIDE DEF Right
  <2>1. \A i \in Nat : i \in Right => i + 1 \in Right
    BY <1>7
  <2> QED BY <1>2, <1>6, <2>1, NatSetInduction
<1> QED BY <1>2, <1>5, <1>8

LEMMA StatusInvInit == StatusInit => StatusInv
<1> SUFFICES ASSUME StatusInit PROVE StatusInv
  OBVIOUS
<1>1. 1 \in 1 .. MaxSecond /\ 0 \in 0 .. MaxSecond /\ 0 \in 0 .. MaxSignals[cli]
  BY StatusAssumption DEF StatusAssumption, StatusInit
<1>2. StatusTypeOK
  BY <1>1 DEF StatusInit, StatusTypeOK, NoScan, Nothing, Statuses
<1>3. \A f \in HookFiles : FileInOrder(f)
  BY DEF StatusInit, FileInOrder, Before, NoSignal
<1>4. \A k \in Scanners : ~ scan[k].busy /\ scan[k].batch = {}
  BY DEF StatusInit, NoScan
<1>5. ViewedStaysViewed
  BY DEF StatusInit, ViewedStaysViewed
<1> QED BY <1>2, <1>3, <1>4, <1>5 DEF StatusInv, InOrder, OneScan

(* An action that leaves the signals and the scans alone.                  *)
LEMMA SignalsUntouched ==
  ASSUME InOrder, UNCHANGED <<second, hook, signal, count, scan, seen>>
  PROVE  InOrder'
BY DEF InOrder, FileInOrder, OneScan, BatchInOrder, Before

LEMMA SameSignals ==
  ASSUME cli' = cli
  PROVE  Signals' = Signals /\ Numbered' = Numbered
BY DEF Signals, Numbered

(* An action that ends in sync_session_status.                             *)
LEMMA SyncedStates ==
  ASSUME StatusInv, NEW st \in States, Unviewed(st), st.seen = seen, Become(Sync(st)),
         UNCHANGED <<hookVars, scan, detector, focused>>,
         maint' \in BOOLEAN, jsonl' \in {"off", "Unknown", "Working", "NeedsAttention"}, synced' \in BOOLEAN
  PROVE  StatusInv'
<1>1. detector.status \in Statuses
  BY DEF StatusInv, StatusTypeOK
<1> DEFINE new == Sync(st)
<1>2. /\ new \in States /\ new.seen = seen /\ new.viewed = st.viewed
      /\ new.cache \in {Nothing, st.cache}
  BY <1>1, SyncKeeps
<1> HIDE DEF new
<1>3. /\ cache' = new.cache /\ shown' = new.shown /\ seen' = new.seen
      /\ applied' = new.applied /\ viewed' = new.viewed
  BY DEF Become, new
<1>4. /\ cache' \in {Nothing} \cup Caches /\ shown' \in Statuses /\ seen' = seen
      /\ applied' \in 0 .. MaxSecond /\ viewed' \in BOOLEAN
  BY <1>2, <1>3 DEF States
<1>5. StatusTypeOK'
  BY <1>4, SameSignals DEF StatusInv, StatusTypeOK, hookVars
<1>6. InOrder'
  BY <1>4, SignalsUntouched DEF StatusInv, hookVars
<1>7. ViewedStaysViewed'
  BY <1>2, <1>3 DEF Unviewed, ViewedStaysViewed
<1> QED BY <1>5, <1>6, <1>7 DEF StatusInv

LEMMA HereIsAState ==
  ASSUME StatusInv
  PROVE  Here \in States /\ Unviewed(Here) /\ Here.seen = seen
BY DEF StatusInv, StatusTypeOK, ViewedStaysViewed, Here, States, Numbered, Unviewed

(* The files: a signal is numbered and stamped when the hook fires.        *)
LEMMA HookStep ==
  ASSUME StatusInv, NEW f \in HookFiles,
         HookWrites(f) \/ \E s \in HookEvents : HookFires(f, s)
  PROVE  StatusInv'
<1> USE DEF StatusInv
<1>1. /\ hook[f] \in Numbered /\ signal[f] \in Numbered /\ cli \in Clis
      /\ hook \in [HookFiles -> Numbered] /\ signal \in [HookFiles -> Numbered] /\ seen \in [HookFiles -> Numbered]
      /\ count \in Nat /\ second \in Nat /\ MaxSignals[cli] \in Nat /\ MaxSecond \in Nat
  BY NumbersAreNaturals DEF StatusTypeOK, Numbered
<1>2. \A g \in HookFiles : FileInOrder(g) /\ seen[g] \in Numbered /\ signal[g] \in Numbered /\ hook[g] \in Numbered
  BY <1>1 DEF InOrder
<1>3. \A g \in HookFiles : /\ signal[g].nr \in Nat /\ signal[g].ts \in Nat
                           /\ hook[g].nr \in Nat /\ hook[g].ts \in Nat
  BY <1>1, <1>2, NumbersAreNaturals
<1>4. cli' = cli /\ scan' = scan /\ seen' = seen /\ second' = second
  BY DEF HookFires, HookWrites, scanVars
<1>5. ASSUME NEW s \in HookEvents, HookFires(f, s)
      PROVE  StatusInv'
  <2> DEFINE fired == [status |-> s, ts |-> second, nr |-> count + 1]
  <2>1. /\ hook[f] = NoSignal /\ count < MaxSignals[cli] /\ count' = count + 1
        /\ hook' = [hook EXCEPT ![f] = fired] /\ signal' = signal
    BY <1>5 DEF HookFires
  <2>2. fired \in Signals /\ count' \in 0 .. MaxSignals[cli]
    <3>1. s \in HookStatuses
      BY StatusAssumption DEF StatusAssumption
    <3>2. second \in 1 .. MaxSecond /\ count + 1 \in 1 .. MaxSignals[cli]
      BY <1>1, <2>1 DEF StatusTypeOK
    <3> QED BY <2>1, <3>1, <3>2, <1>1 DEF Signals
  <2>3. fired.ts = second /\ fired.nr = count + 1
    OBVIOUS
  <2> HIDE DEF fired
  <2>4. hook' \in [HookFiles -> Numbered]
    BY <1>1, <2>1, <2>2 DEF Numbered
  <2>5. StatusTypeOK'
    BY <1>4, <1>5, <2>1, <2>2, <2>4, SameSignals DEF StatusTypeOK, HookFires, Numbered
  <2>6. \A g \in HookFiles : FileInOrder(g)'
    <3> SUFFICES ASSUME NEW g \in HookFiles PROVE FileInOrder(g)'
      OBVIOUS
    <3>1. CASE g = f
      <4>1. hook'[g] = fired
        BY <3>1, <2>1, <1>1
      <4> QED BY <1>1, <1>2, <1>3, <1>4, <2>1, <2>3, <4>1 DEF FileInOrder
    <3>2. CASE g # f
      <4>1. hook'[g] = hook[g]
        BY <3>2, <2>1, <1>1
      <4> QED BY <1>1, <1>2, <1>3, <1>4, <2>1, <4>1 DEF FileInOrder
    <3> QED BY <3>1, <3>2
  <2>7. InOrder'
    BY <1>4, <2>1, <2>6 DEF InOrder, OneScan, BatchInOrder
  <2>8. ViewedStaysViewed'
    BY <1>5 DEF HookFires, ViewedStaysViewed
  <2> QED BY <2>5, <2>7, <2>8
<1>6. CASE HookWrites(f)
  <2>1. /\ hook[f] # NoSignal /\ hook' = [hook EXCEPT ![f] = NoSignal]
        /\ signal' = [signal EXCEPT ![f] = hook[f]] /\ count' = count
    BY <1>6 DEF HookWrites
  <2>2. hook' \in [HookFiles -> Numbered] /\ signal' \in [HookFiles -> Numbered]
    BY <1>1, <2>1 DEF Numbered
  <2>3. StatusTypeOK'
    BY <1>4, <1>6, <2>1, <2>2, SameSignals DEF StatusTypeOK, HookWrites, Numbered
  <2>4. \A g \in HookFiles : Before(signal[g], signal'[g])
    BY <1>1, <1>2, <2>1 DEF FileInOrder, Before
  <2>5. ASSUME NEW g \in HookFiles PROVE FileInOrder(g)'
    <3>1. Before(seen[g], signal'[g])
      <4>1. signal'[g] \in Numbered
        BY <2>2
      <4> QED BY <1>1, <1>2, <2>4, <4>1, BeforeTransitive DEF FileInOrder
    <3>2. CASE g = f
      <4>1. hook'[g] = NoSignal /\ signal'[g] = hook[f]
        BY <3>2, <2>1, <1>1
      <4> QED BY <1>1, <1>2, <1>4, <2>1, <3>1, <3>2, <4>1 DEF FileInOrder, NoSignal
    <3>3. CASE g # f
      <4>1. hook'[g] = hook[g] /\ signal'[g] = signal[g]
        BY <3>3, <2>1, <1>1
      <4> QED BY <1>2, <1>4, <2>1, <3>1, <4>1 DEF FileInOrder
    <3> QED BY <3>2, <3>3
  <2>6. ASSUME NEW k \in Scanners, BatchInOrder(k), scan[k].batch \subseteq HookFiles \X Signals
        PROVE  BatchInOrder(k)'
    <3> SUFFICES ASSUME NEW u \in scan[k].batch
                 PROVE  Before(u[2], signal'[u[1]])
      BY <1>4, <2>6 DEF BatchInOrder
    <3>1. u[1] \in HookFiles /\ u[2] \in Numbered
      BY <2>6 DEF Numbered
    <3>2. signal[u[1]] \in Numbered /\ signal'[u[1]] \in Numbered
      BY <1>1, <2>2, <3>1
    <3> QED BY <1>1, <2>4, <2>6, <3>1, <3>2, BeforeTransitive DEF BatchInOrder
  <2>7. \A k \in Scanners : scan[k].batch \subseteq HookFiles \X Signals
    BY DEF StatusTypeOK
  <2>8. InOrder'
    BY <1>4, <2>5, <2>6, <2>7 DEF InOrder, OneScan
  <2>9. ViewedStaysViewed'
    BY <1>6 DEF HookWrites, ViewedStaysViewed
  <2> QED BY <2>3, <2>8, <2>9
<1> QED BY <1>5, <1>6

(* A scan begins when no other is under way, and reads each file once.     *)
LEMMA ScanStartsStep ==
  ASSUME StatusInv, ScanStarts
  PROVE  StatusInv'
<1> USE DEF StatusInv
<1> DEFINE free == CHOOSE k \in Scanners : ~ scan[k].busy
           begun == [busy |-> TRUE, todo |-> HookFiles, batch |-> {}]
<1>1. CASE Scanners = {}
  <2>1. scan' \in [Scanners -> [busy : BOOLEAN, todo : SUBSET HookFiles, batch : SUBSET (HookFiles \X Signals)]]
    BY <1>1 DEF ScanStarts, StatusTypeOK
  <2> HIDE DEF begun
  <2>2. StatusTypeOK'
    BY <2>1, SameSignals DEF ScanStarts, StatusTypeOK, hookVars
  <2>3. InOrder'
    BY <1>1 DEF InOrder, OneScan, ScanStarts, hookVars, FileInOrder, Before
  <2> QED BY <2>2, <2>3 DEF ScanStarts, ViewedStaysViewed
<1>2. CASE Scanners # {}
  <2>1. free \in Scanners /\ \A k \in Scanners : ~ scan[k].busy
    BY <1>2 DEF ScanStarts
  <2>2. scan' = [scan EXCEPT ![free] = begun]
    BY DEF ScanStarts
  <2> HIDE DEF free
  <2>3. StatusTypeOK'
    <3>1. scan' \in [Scanners -> [busy : BOOLEAN, todo : SUBSET HookFiles, batch : SUBSET (HookFiles \X Signals)]]
      BY <2>2 DEF StatusTypeOK
    <3> QED BY <3>1, SameSignals DEF ScanStarts, StatusTypeOK, hookVars
  <2>4. \A k \in Scanners : IF k = free THEN scan'[k] = begun ELSE scan'[k] = scan[k]
    BY <2>2 DEF StatusTypeOK
  <2>5. \A f \in HookFiles : FileInOrder(f)'
    BY DEF InOrder, ScanStarts, hookVars, FileInOrder, Before
  <2>6. OneScan'
    BY <2>1, <2>4 DEF OneScan
  <2>7. ASSUME NEW k \in Scanners
        PROVE  IF scan'[k].busy THEN BatchInOrder(k)' ELSE scan'[k].batch = {}
    <3>1. CASE k = free
      BY <2>4, <3>1, FS_EmptySet DEF BatchInOrder
    <3>2. CASE k # free
      BY <2>1, <2>4, <3>2 DEF InOrder
    <3> QED BY <3>1, <3>2
  <2>8. InOrder'
    BY <2>5, <2>6, <2>7 DEF InOrder
  <2> QED BY <2>3, <2>8 DEF ScanStarts, ViewedStaysViewed
<1> QED BY <1>1, <1>2

LEMMA ScanReadsStep ==
  ASSUME StatusInv, NEW k \in Scanners, NEW f \in HookFiles, ScanReads(k, f)
  PROVE  StatusInv'
<1> USE DEF StatusInv
<1>1. PICK content \in {signal[f]} \cup {n \in {NoSignal} : hook[f] # NoSignal} :
        scan' = [scan EXCEPT ![k].todo = @ \ {f},
                             ![k].batch = IF content = NoSignal THEN @ ELSE @ \cup {<<f, content>>}]
  BY DEF ScanReads
<1> DEFINE old == scan[k]
           batch == IF content = NoSignal THEN old.batch ELSE old.batch \cup {<<f, content>>}
           new == [old EXCEPT !.todo = @ \ {f}, !.batch = batch]
<1>2. /\ old \in [busy : BOOLEAN, todo : SUBSET HookFiles, batch : SUBSET (HookFiles \X Signals)]
      /\ old.busy = TRUE /\ f \in old.todo /\ cli \in Clis
  BY DEF StatusTypeOK, ScanReads
<1>3. content = NoSignal \/ (content = signal[f] /\ content \in Signals)
  BY DEF StatusTypeOK
<1>4. /\ new \in [busy : BOOLEAN, todo : SUBSET HookFiles, batch : SUBSET (HookFiles \X Signals)]
      /\ new.busy = TRUE /\ new.todo = old.todo \ {f} /\ new.batch = batch
  <2>1. batch \in SUBSET (HookFiles \X Signals)
    BY <1>2, <1>3
  <2> HIDE DEF batch, old
  <2> QED BY <1>2, <2>1
<1>5. /\ \A l \in Scanners : IF l = k THEN scan'[l] = new ELSE scan'[l] = scan[l]
      /\ scan' \in [Scanners -> [busy : BOOLEAN, todo : SUBSET HookFiles, batch : SUBSET (HookFiles \X Signals)]]
  <2>1. scan' = [scan EXCEPT ![k] = new]
    BY <1>1
  <2> HIDE DEF new
  <2> QED BY <1>4, <2>1 DEF StatusTypeOK
<1> HIDE DEF new
<1>6. StatusTypeOK'
  BY <1>5, SameSignals DEF ScanReads, StatusTypeOK, hookVars
<1>7. \A g \in HookFiles : FileInOrder(g)'
  BY DEF InOrder, ScanReads, hookVars, FileInOrder, Before
<1>8. OneScan'
  BY <1>2, <1>4, <1>5 DEF InOrder, OneScan
<1>9. BatchInOrder(k)'
  <2>1. /\ IsFiniteSet(old.batch)
        /\ \A u \in old.batch : /\ u[1] \notin old.todo
                                /\ Before(seen[u[1]], u[2]) /\ Before(u[2], signal[u[1]])
        /\ \A u, v \in old.batch : u[1] = v[1] => u = v
    BY <1>2 DEF InOrder, BatchInOrder
  <2>2. Before(seen[f], signal[f]) /\ Before(signal[f], signal[f])
    BY DEF InOrder, FileInOrder, Before
  <2>3. scan'[k].todo = old.todo \ {f} /\ scan'[k].batch = batch /\ seen' = seen /\ signal' = signal
    BY <1>4, <1>5 DEF ScanReads, hookVars
  <2>4. CASE content = NoSignal
    BY <2>1, <2>3, <2>4 DEF BatchInOrder
  <2>5. CASE content # NoSignal
    <3>1. batch = old.batch \cup {<<f, signal[f]>>}
      BY <2>5, <1>3
    <3>2. IsFiniteSet(batch)
      BY <2>1, <3>1, FS_AddElement
    <3>3. ASSUME NEW u \in batch
          PROVE  /\ u[1] \notin old.todo \ {f}
                 /\ Before(seen[u[1]], u[2]) /\ Before(u[2], signal[u[1]])
      <4>1. CASE u \in old.batch
        BY <2>1, <4>1
      <4>2. CASE u = <<f, signal[f]>>
        BY <2>2, <4>2
      <4> QED BY <3>1, <4>1, <4>2
    <3>4. \A u, v \in batch : u[1] = v[1] => u = v
      <4>1. \A u \in old.batch : u[1] # f
        BY <1>2, <2>1
      <4> QED BY <2>1, <3>1, <4>1
    <3> HIDE DEF batch
    <3> QED BY <2>3, <3>2, <3>3, <3>4 DEF BatchInOrder
  <2> QED BY <2>4, <2>5
<1>10. ASSUME NEW l \in Scanners
       PROVE  IF scan'[l].busy THEN BatchInOrder(l)' ELSE scan'[l].batch = {}
  <2>1. CASE l = k
    BY <1>4, <1>5, <1>9, <2>1
  <2>2. CASE l # k
    BY <1>2, <1>5, <2>2 DEF InOrder, OneScan
  <2> QED BY <2>1, <2>2
<1>11. InOrder'
  BY <1>7, <1>8, <1>10 DEF InOrder
<1> QED BY <1>6, <1>11 DEF ScanReads, ViewedStaysViewed

LEMMA ScanAppliesStep ==
  ASSUME StatusInv, NEW k \in Scanners, ScanApplies(k)
  PROVE  /\ StatusInv'
         /\ \A f \in HookFiles : Before(seen[f], seen'[f])
<1> USE DEF StatusInv
<1>1. PICK q \in ByTime(scan[k].batch) : Become(AfterAll(q))
  BY DEF ScanApplies
<1> DEFINE new == AfterAll(q)
<1>2. /\ new \in States /\ Unviewed(new)
      /\ \A f \in HookFiles : Before(seen[f], new.seen[f]) /\ Before(new.seen[f], signal[f])
  BY <1>1, BatchApplied DEF ScanApplies
<1> HIDE DEF new
<1>3. /\ cache' = new.cache /\ shown' = new.shown /\ seen' = new.seen
      /\ applied' = new.applied /\ viewed' = new.viewed
  BY <1>1 DEF Become, new
<1>4. /\ scan' \in [Scanners -> [busy : BOOLEAN, todo : SUBSET HookFiles, batch : SUBSET (HookFiles \X Signals)]]
      /\ \A l \in Scanners : IF l = k THEN scan'[l] = NoScan ELSE scan'[l] = scan[l]
  BY DEF StatusTypeOK, ScanApplies, NoScan
<1>5. StatusTypeOK'
  <2>1. /\ cache' \in {Nothing} \cup Caches /\ shown' \in Statuses /\ seen' \in [HookFiles -> Numbered]
        /\ applied' \in 0 .. MaxSecond /\ viewed' \in BOOLEAN
    BY <1>2, <1>3 DEF States
  <2> QED BY <1>4, <2>1, SameSignals DEF ScanApplies, StatusTypeOK, hookVars, Numbered
<1>6. \A f \in HookFiles : FileInOrder(f)'
  BY <1>2, <1>3 DEF ScanApplies, hookVars, InOrder, FileInOrder
<1>7. \A l \in Scanners : ~ scan'[l].busy /\ scan'[l].batch = {}
  BY <1>4 DEF InOrder, OneScan, ScanApplies, NoScan
<1>8. InOrder'
  BY <1>6, <1>7 DEF InOrder, OneScan
<1>9. ViewedStaysViewed'
  BY <1>2, <1>3 DEF Unviewed, ViewedStaysViewed
<1> QED BY <1>2, <1>3, <1>5, <1>8, <1>9

LEMMA JsonlAppliesStep ==
  ASSUME StatusInv, JsonlApplies
  PROVE  StatusInv'
<1>1. Here \in States /\ Unviewed(Here) /\ Here.seen = seen
  BY HereIsAState
<1>2. CASE jsonl # "Unknown"
  <2> DEFINE cache1 == Cached(Here.cache, jsonl, "Jsonl")
             st == [Here EXCEPT !.cache = cache1, !.viewed = FALSE]
  <2>1. jsonl \in Statuses
    BY <1>2 DEF JsonlApplies, StatusInv, StatusTypeOK, Statuses
  <2>2. cache1 \in Caches
    BY <2>1 DEF Cached, Caches
  <2>3. Become(Sync(st))
    BY <1>2 DEF JsonlApplies
  <2> HIDE DEF cache1
  <2>4. st \in States /\ st.seen = seen /\ Unviewed(st)
    BY <1>1, <2>2 DEF States, Unviewed
  <2> HIDE DEF st
  <2> QED BY <2>3, <2>4, SyncedStates DEF JsonlApplies, StatusInv, StatusTypeOK
<1>3. CASE jsonl = "Unknown" /\ UNCHANGED <<cache, shown, seen, applied, viewed>>
  BY <1>3, SignalsUntouched, SameSignals
  DEF JsonlApplies, StatusInv, StatusTypeOK, ViewedStaysViewed, hookVars
<1>4. CASE jsonl = "Unknown" /\ Become(Sync([Here EXCEPT !.cache = Nothing]))
  <2> DEFINE st == [Here EXCEPT !.cache = Nothing]
  <2>1. st \in States /\ st.seen = seen /\ Unviewed(st)
    BY <1>1 DEF States, Unviewed
  <2>2. Become(Sync(st))
    BY <1>4
  <2> HIDE DEF st
  <2> QED BY <2>1, <2>2, SyncedStates DEF JsonlApplies, StatusInv, StatusTypeOK
<1> QED BY <1>2, <1>3, <1>4 DEF JsonlApplies

LEMMA StatusInvStep == StatusInv /\ [StatusNext]_statusVars => StatusInv'
<1> SUFFICES ASSUME StatusInv, [StatusNext]_statusVars
             PROVE  StatusInv'
  OBVIOUS
<1>0. StatusTypeOK /\ InOrder /\ ViewedStaysViewed
  BY DEF StatusInv
<1>1. CASE SecondPasses
  <2>1. /\ second \in Nat /\ second' = second + 1 /\ second' \in 1 .. MaxSecond
        /\ UNCHANGED <<cli, hook, signal, scanVars, count>>
    BY <1>0, <1>1, NumbersAreNaturals DEF SecondPasses, StatusTypeOK
  <2>2. StatusTypeOK'
    BY <1>0, <1>1, <2>1, SameSignals DEF SecondPasses, StatusTypeOK, scanVars
  <2>3. \A f \in HookFiles : signal[f].ts \in Nat /\ hook[f].ts \in Nat
    BY <1>0, NumbersAreNaturals DEF StatusTypeOK, Numbered
  <2>4. InOrder'
    BY <1>0, <2>1, <2>3 DEF InOrder, FileInOrder, OneScan, BatchInOrder, scanVars
  <2> QED BY <1>0, <1>1, <2>2, <2>4 DEF SecondPasses, StatusInv, ViewedStaysViewed
<1>2. ASSUME NEW f \in HookFiles, NEW s \in HookEvents, HookFires(f, s) PROVE StatusInv'
  BY <1>2, HookStep
<1>3. ASSUME NEW f \in HookFiles, HookWrites(f) PROVE StatusInv'
  BY <1>3, HookStep
<1>4. ASSUME NEW p \in BOOLEAN, NEW sh \in Marks, Output(p, sh) PROVE StatusInv'
  <2> DEFINE told == [detector EXCEPT !.pattern = p, !.calm = FALSE,
                                      !.shell = IF sh = "none" THEN @ ELSE sh]
             Detectors == [pattern : BOOLEAN, shell : {"none", "prompt", "command"}, calm : BOOLEAN,
                           status : Statuses]
  <2>1. told \in Detectors
    BY <1>0, StatusAssumption DEF StatusTypeOK, StatusAssumption
  <2>2. detector' = Detected(told)
    BY <1>4 DEF Output
  <2> HIDE DEF told
  <2>3. detector' \in Detectors
    BY <2>1, <2>2 DEF Detected, Determined, StatusFromShell, Statuses
  <2>4. StatusTypeOK'
    BY <1>0, <1>4, <2>3, SameSignals DEF Output, StatusTypeOK, hookVars, scanVars
  <2>5. InOrder'
    BY <1>0, <1>4, SignalsUntouched DEF Output, hookVars, scanVars
  <2> QED BY <1>0, <1>4, <2>4, <2>5 DEF Output, StatusInv, ViewedStaysViewed
<1>5. CASE Calm
  BY <1>0, <1>5, SignalsUntouched, SameSignals
  DEF Calm, StatusInv, StatusTypeOK, ViewedStaysViewed, hookVars, scanVars
<1>6. CASE OutputApplied
  BY <1>0, <1>6, HereIsAState, SyncedStates DEF OutputApplied, StatusTypeOK
<1>7. CASE MaintenanceCollects
  <2>1. detector' \in [pattern : BOOLEAN, shell : {"none", "prompt", "command"}, calm : BOOLEAN,
                       status : Statuses]
    BY <1>0, <1>7 DEF MaintenanceCollects, StatusTypeOK, Detected, Determined, StatusFromShell, Statuses
  <2>2. maint' \in BOOLEAN
    <3>1. \A c : Batched(c) \in BOOLEAN
      BY DEF Batched
    <3> QED BY <1>7, <3>1 DEF MaintenanceCollects
  <2>3. StatusTypeOK'
    BY <1>0, <1>7, <2>1, <2>2, SameSignals DEF MaintenanceCollects, StatusTypeOK, hookVars, scanVars
  <2>4. InOrder'
    BY <1>0, <1>7, SignalsUntouched DEF MaintenanceCollects, hookVars, scanVars
  <2> QED BY <1>0, <1>7, <2>3, <2>4 DEF MaintenanceCollects, StatusInv, ViewedStaysViewed
<1>8. CASE MaintenanceApplies
  BY <1>0, <1>8, HereIsAState, SyncedStates DEF MaintenanceApplies, StatusTypeOK
<1>9. CASE ScanStarts
  BY <1>9, ScanStartsStep
<1>10. ASSUME NEW k \in Scanners, ScanApplies(k) PROVE StatusInv'
  BY <1>10, ScanAppliesStep
<1>11. ASSUME NEW k \in Scanners, NEW f \in HookFiles, ScanReads(k, f) PROVE StatusInv'
  BY <1>11, ScanReadsStep
<1>12. CASE JsonlApplies
  BY <1>12, JsonlAppliesStep
<1>13. ASSUME NEW r \in {"Unknown", "Working", "NeedsAttention"}, JsonlReads(r) PROVE StatusInv'
  BY <1>0, <1>13, SignalsUntouched, SameSignals
  DEF JsonlReads, StatusInv, StatusTypeOK, ViewedStaysViewed, hookVars, scanVars
<1>14. CASE Select
  <2>1. InOrder'
    BY <1>0, <1>14, SignalsUntouched DEF Select, hookVars, scanVars
  <2>2. cache' \in {Nothing} \cup Caches /\ viewed' \in BOOLEAN
    <3>1. CASE cache # Nothing /\ cache.status = "ResponseReady"
      <4>1. cache \in Caches
        BY <1>0, <3>1 DEF StatusTypeOK
      <4>2. cache' = [cache EXCEPT !.status = "Idle", !.old = FALSE] /\ viewed' = TRUE
        BY <1>14, <3>1 DEF Select
      <4> QED BY <4>1, <4>2 DEF Caches, Statuses
    <3>2. CASE ~ (cache # Nothing /\ cache.status = "ResponseReady")
      BY <1>0, <1>14, <3>2 DEF Select, StatusTypeOK
    <3> QED BY <3>1, <3>2
  <2>3. StatusTypeOK'
    BY <1>0, <1>14, <2>2, SameSignals DEF Select, StatusTypeOK, hookVars, scanVars
  <2>4. ViewedStaysViewed'
    BY <1>0, <1>14 DEF Select, StatusTypeOK, ViewedStaysViewed, Caches
  <2> QED BY <2>1, <2>3, <2>4 DEF StatusInv
<1>15. CASE LoseFocus
  <2>1. InOrder'
    BY <1>0, <1>15, SignalsUntouched DEF LoseFocus, hookVars, scanVars
  <2>2. StatusTypeOK'
    <3>1. /\ focused' \in BOOLEAN /\ Signals' = Signals
          /\ UNCHANGED <<cli, second, hook, signal, count, scan, seen, cache, detector, maint, jsonl,
                         synced, shown, applied, viewed>>
      BY <1>15, SameSignals DEF LoseFocus, hookVars, scanVars
    <3> QED BY <1>0, <3>1 DEF StatusTypeOK
  <2> QED BY <1>0, <1>15, <2>1, <2>2 DEF LoseFocus, StatusInv, ViewedStaysViewed
<1>16. CASE Ages \/ Expires
  <2>1. cache \in Caches
    BY <1>0, <1>16 DEF Ages, Expires, StatusTypeOK, Nothing
  <2>2. /\ cache' \in Caches /\ cache'.status = cache.status
        /\ UNCHANGED <<hookVars, scanVars, detector, maint, jsonl, synced, shown, focused, applied, viewed>>
    BY <1>16, <2>1 DEF Ages, Expires, Caches
  <2>3. InOrder'
    BY <1>0, <2>2, SignalsUntouched DEF hookVars, scanVars
  <2>4. StatusTypeOK'
    BY <1>0, <2>2, SameSignals DEF StatusTypeOK, hookVars, scanVars
  <2>5. ViewedStaysViewed'
    BY <1>0, <2>1, <2>2, NothingIsNoCache DEF ViewedStaysViewed
  <2> QED BY <2>3, <2>4, <2>5 DEF StatusInv
<1>17. CASE UNCHANGED statusVars
  BY <1>0, <1>17, SignalsUntouched, SameSignals
  DEF statusVars, StatusInv, StatusTypeOK, ViewedStaysViewed, scanVars
<1> QED
  BY <1>1, <1>2, <1>3, <1>4, <1>5, <1>6, <1>7, <1>8, <1>9, <1>10, <1>11, <1>12, <1>13, <1>14,
     <1>15, <1>16, <1>17
  DEF StatusNext

(* The cached statuses, what was seen of the signals and the scans are of  *)
(* their types whatever the detector, the hooks and the session files do.  *)
THEOREM StatusTypesHold == StatusSpec => []StatusTypeOK
<1>1. StatusInv => StatusTypeOK
  BY DEF StatusInv
<1> QED BY <1>1, StatusInvInit, StatusInvStep, PTL DEF StatusSpec

(* select_session_with_cx downgrades a response the user looks at, and no  *)
(* scan that finds the old signal again, no reconciliation and no          *)
(* maintenance marks it as unread, for any number of signal files.         *)
THEOREM ViewedResponsesStayViewed == StatusSpec => []ViewedStaysViewed
<1>1. StatusInv => ViewedStaysViewed
  BY DEF StatusInv
<1> QED BY <1>1, StatusInvInit, StatusInvStep, PTL DEF StatusSpec

(* apply_hook_signal_update never goes back: of each signal file, what is  *)
(* applied was signalled after what was applied before, although the       *)
(* stamps compare seconds and the scan read the files some time ago.       *)
THEOREM SignalsAreAppliedInOrder == StatusSpec => SignalsInOrder
<1> DEFINE Step == \A f \in HookFiles : seen'[f].nr >= seen[f].nr
<1>1. StatusInv /\ [StatusNext]_statusVars => [Step]_statusVars
  <2> SUFFICES ASSUME StatusInv, [StatusNext]_statusVars
               PROVE  Step \/ UNCHANGED statusVars
    OBVIOUS
  <2>1. StatusInv'
    BY StatusInvStep
  <2>2. \A f \in HookFiles : seen[f].nr \in Nat /\ seen'[f].nr \in Nat
    <3>1. \A f \in HookFiles : seen[f] \in Numbered /\ seen[f].nr \in Nat
      BY NumbersAreNaturals DEF StatusInv, StatusTypeOK, Numbered
    <3>2. \A f \in HookFiles : seen'[f] \in Numbered'
      BY <2>1 DEF StatusInv, StatusTypeOK, Numbered
    <3>3. cli \in Clis /\ cli' = cli
      BY DEF StatusInv, StatusTypeOK, StatusNext, statusVars, SecondPasses, HookFires, HookWrites, Output,
         Calm, OutputApplied, MaintenanceCollects, MaintenanceApplies, ScanStarts, ScanApplies,
         ScanReads, JsonlApplies, JsonlReads, Select, LoseFocus, Ages, Expires, hookVars
    <3> QED BY <3>1, <3>2, <3>3, SameSignals, NumbersAreNaturals
  <2>3. seen' = seen \/ \E k \in Scanners : ScanApplies(k)
    <3>1. \A st \in States : Sync(st).seen = st.seen
      BY SyncKeeps DEF StatusInv, StatusTypeOK
    <3>2. Here \in States /\ Here.seen = seen
      BY HereIsAState
    <3>3. CASE JsonlApplies
      <4>1. [Here EXCEPT !.cache = Nothing].seen = seen /\ [Here EXCEPT !.cache = Nothing] \in States
        BY <3>2 DEF States
      <4>2. ASSUME jsonl # "Unknown" PROVE seen' = seen
        <5> DEFINE cache1 == Cached(Here.cache, jsonl, "Jsonl")
        <5>1. cache1 \in Caches
          BY <3>3, <4>2 DEF JsonlApplies, StatusInv, StatusTypeOK, Statuses, Cached, Caches
        <5>2. seen' = Sync([Here EXCEPT !.cache = cache1, !.viewed = FALSE]).seen
          BY <3>3, <4>2 DEF JsonlApplies, Become
        <5> HIDE DEF cache1
        <5> QED BY <3>1, <3>2, <5>1, <5>2 DEF States
      <4> QED BY <3>1, <3>3, <4>1, <4>2 DEF JsonlApplies, Become
    <3>4. CASE OutputApplied \/ MaintenanceApplies
      BY <3>1, <3>2, <3>4 DEF OutputApplied, MaintenanceApplies, Become
    <3> QED
      BY <3>3, <3>4 DEF StatusNext, statusVars, SecondPasses, HookFires, HookWrites, Output,
         Calm, MaintenanceCollects, ScanStarts, ScanReads, JsonlReads, Select, LoseFocus, Ages, Expires, scanVars
  <2>4. ASSUME NEW k \in Scanners, ScanApplies(k)
        PROVE  Step
    BY <2>2, <2>4, ScanAppliesStep DEF Before
  <2> QED BY <2>2, <2>3, <2>4
<1> QED BY <1>1, StatusInvInit, StatusInvStep, PTL DEF StatusSpec, SignalsInOrder
=============================================================================
