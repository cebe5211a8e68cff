----------------------- MODULE OutputPipeline_proofs -----------------------
(***************************************************************************)
(* The output pipeline's invariants for any number of sessions and any     *)
(* channel capacities: no lost wake-up, one task per session, and no       *)
(* closed session back in the dispatcher.                                  *)
(***************************************************************************)
EXTENDS OutputPipeline, SequenceTheorems, TLAPS

(***************************************************************************)
(* Sequences of jobs and of chunks.                                        *)
(***************************************************************************)

(* A prefix and what it leaves.                                            *)
LEMMA Prefix ==
  ASSUME NEW S, NEW q \in Seq(S), NEW n \in 0 .. Len(q)
  PROVE  /\ SubSeq(q, 1, n) \in Seq(S) /\ Len(SubSeq(q, 1, n)) = n
         /\ SubSeq(q, n + 1, Len(q)) \in Seq(S) /\ Len(SubSeq(q, n + 1, Len(q))) = Len(q) - n
<1>1. \A i \in 1 .. Len(q) : q[i] \in S OBVIOUS
<1>2. (\A i \in 1 .. n : q[i] \in S) /\ (\A i \in n + 1 .. Len(q) : q[i] \in S)
  BY <1>1
<1>3. SubSeq(q, 1, n) \in Seq(S) /\ Len(SubSeq(q, 1, n)) = IF 1 <= n THEN n - 1 + 1 ELSE 0
  BY <1>2, SubSeqProperties
<1>4. /\ SubSeq(q, n + 1, Len(q)) \in Seq(S)
      /\ Len(SubSeq(q, n + 1, Len(q))) = IF n + 1 <= Len(q) THEN Len(q) - (n + 1) + 1 ELSE 0
  <2> HIDE <1>1
  <2>1. n + 1 \in Int /\ Len(q) \in Int OBVIOUS
  <2> QED BY <1>2, <2>1, SubSeqProperties
<1> QED BY <1>3, <1>4

(* A channel or a list of tasks one element longer.                        *)
LEMMA AppendType ==
  ASSUME NEW S, NEW q \in Seq(S), NEW e \in S
  PROVE  Append(q, e) \in Seq(S) /\ Len(Append(q, e)) = Len(q) + 1
OBVIOUS

(* Removing the i-th element.                                              *)
LEMMA Without ==
  ASSUME NEW S, NEW q \in Seq(S), NEW i \in 1 .. Len(q)
  PROVE  LET r == SubSeq(q, 1, i - 1) \o SubSeq(q, i + 1, Len(q))
         IN  r \in Seq(S) /\ Len(r) = Len(q) - 1
<1>1. SubSeq(q, 1, i - 1) \in Seq(S) /\ Len(SubSeq(q, 1, i - 1)) = i - 1
  BY i - 1 \in 0 .. Len(q), Prefix
<1>2. SubSeq(q, i + 1, Len(q)) \in Seq(S) /\ Len(SubSeq(q, i + 1, Len(q))) = Len(q) - i
  BY i \in 0 .. Len(q), Prefix
<1> QED BY <1>1, <1>2, ConcatProperties

(* What one step of a task does to the tasks of its session.               *)
LEMMA SetJobEffect ==
  ASSUME jobs \in [Sessions -> Seq(Job)], NEW s \in Sessions, NEW i \in DOMAIN jobs[s],
         NEW job \in Job, SetJob(s, i, job)
  PROVE  /\ jobs' \in [Sessions -> Seq(Job)]
         /\ \A r \in Sessions : Len(jobs'[r]) = Len(jobs[r])
         /\ \A r \in Sessions : \A j \in DOMAIN jobs[r] :
              jobs'[r][j] = IF r = s /\ j = i THEN job ELSE jobs[r][j]
<1>1. i \in 1 .. Len(jobs[s]) OBVIOUS
<1>2. /\ [jobs[s] EXCEPT ![i] = job] \in Seq(Job)
      /\ Len([jobs[s] EXCEPT ![i] = job]) = Len(jobs[s])
      /\ \A j \in 1 .. Len(jobs[s]) :
           [jobs[s] EXCEPT ![i] = job][j] = IF j = i THEN job ELSE jobs[s][j]
  BY <1>1, ExceptSeq
<1>3. jobs' = [jobs EXCEPT ![s] = [jobs[s] EXCEPT ![i] = job]]
  BY DEF SetJob
<1> QED BY <1>2, <1>3

(***************************************************************************)
(* Types.                                                                  *)
(***************************************************************************)

(* Batch takes a prefix of the channel, and one chunk at least.            *)
LEMMA BatchEffect ==
  ASSUME TypeOK, NEW s \in Sessions, NEW n, n = Least(Len(chan[s]), Budget)
  PROVE  /\ n \in 0 .. Len(chan[s]) /\ (chan[s] # << >> => n > 0)
         /\ Batch(s) \in Seq(1 .. MaxChunks) /\ Len(Batch(s)) = n
         /\ SubSeq(chan[s], n + 1, Len(chan[s])) \in Seq(1 .. MaxChunks)
         /\ Len(SubSeq(chan[s], n + 1, Len(chan[s]))) = Len(chan[s]) - n
<1>1. chan[s] \in Seq(1 .. MaxChunks) /\ Len(chan[s]) \in Nat BY DEF TypeOK
<1>2. n \in 0 .. Len(chan[s]) /\ (chan[s] # << >> => n > 0)
  BY <1>1, PipelineAssumption DEF PipelineAssumption, Least
<1>3. Batch(s) = SubSeq(chan[s], 1, n) BY DEF Batch
<1>4. n \in 0 .. Len(chan[s]) BY <1>2
<1>5. /\ SubSeq(chan[s], 1, n) \in Seq(1 .. MaxChunks) /\ Len(SubSeq(chan[s], 1, n)) = n
      /\ SubSeq(chan[s], n + 1, Len(chan[s])) \in Seq(1 .. MaxChunks)
      /\ Len(SubSeq(chan[s], n + 1, Len(chan[s]))) = Len(chan[s]) - n
  <2> DEFINE c == chan[s]
  <2>1. c \in Seq(1 .. MaxChunks) /\ n \in 0 .. Len(c) BY <1>1, <1>4
  <2> HIDE DEF c
  <2>2. /\ SubSeq(c, 1, n) \in Seq(1 .. MaxChunks) /\ Len(SubSeq(c, 1, n)) = n
        /\ SubSeq(c, n + 1, Len(c)) \in Seq(1 .. MaxChunks)
        /\ Len(SubSeq(c, n + 1, Len(c))) = Len(c) - n
    BY ONLY <2>1, Prefix
  <2> QED BY <2>2 DEF c
<1> QED BY <1>2, <1>3, <1>5

(* A sequence without elements is the empty one.                           *)
LEMMA NoLengthIsEmpty ==
  ASSUME NEW S, NEW q \in Seq(S)
  PROVE  Len(q) = 0 <=> q = << >>
OBVIOUS

(* The record each step of a task leaves.                                  *)
LEMMA TaskStepSetsJob ==
  ASSUME TypeOK, NEW s \in Sessions, NEW i \in DOMAIN jobs[s]
  PROVE  /\ Receive(s, i) => \E job \in Job :
              /\ SetJob(s, i, job)
              /\ s \notin closed /\ chan[s] # << >> => job.phase = "received" /\ job.data # << >>
         /\ ResetNotified(s, i) => \E job \in Job :
              SetJob(s, i, job) /\ job.phase = "reset" /\ job.data = jobs[s][i].data
         /\ LookForMore(s, i) => \E job \in Job :
              /\ SetJob(s, i, job) /\ job.phase = "drained"
              /\ job.more <=> jobs[s][i].data # << >> /\ (jobs[s][i].more \/ chan[s] # << >>)
         /\ ApplyOutput(s, i) => \E job \in Job :
              SetJob(s, i, job) /\ job.phase = "done" /\ job.more = jobs[s][i].more
<1>1. jobs[s][i] \in Job /\ chan[s] \in Seq(1 .. MaxChunks) BY DEF TypeOK
<1>2. ASSUME Receive(s, i), s \notin closed
      PROVE  \E job \in Job :
               SetJob(s, i, job) /\ (chan[s] # << >> => job.phase = "received" /\ job.data # << >>)
  <2> DEFINE n == Least(Len(chan[s]), Budget)
             job == [phase |-> "received", data |-> Batch(s), more |-> n = Budget]
  <2>1. /\ n \in 0 .. Len(chan[s]) /\ (chan[s] # << >> => n > 0)
        /\ Batch(s) \in Seq(1 .. MaxChunks) /\ Len(Batch(s)) = n
    BY BatchEffect
  <2>2. SetJob(s, i, job) BY <1>2 DEF Receive
  <2>3. job \in Job BY <2>1 DEF Job
  <2>4. chan[s] # << >> => Batch(s) # << >>
    <3> HIDE DEF n
    <3> QED BY <2>1
  <2> QED BY <2>2, <2>3, <2>4
<1>3. ASSUME Receive(s, i), s \in closed PROVE \E job \in Job : SetJob(s, i, job)
  <2>1. [jobs[s][i] EXCEPT !.phase = "done"] \in Job BY <1>1 DEF Job
  <2> QED BY <1>3, <2>1 DEF Receive
<1>4. ASSUME ResetNotified(s, i)
      PROVE  \E job \in Job : SetJob(s, i, job) /\ job.phase = "reset" /\ job.data = jobs[s][i].data
  <2> DEFINE job == [jobs[s][i] EXCEPT !.phase = "reset"]
  <2>1. job \in Job /\ job.phase = "reset" /\ job.data = jobs[s][i].data BY <1>1 DEF Job
  <2>2. SetJob(s, i, job) BY <1>4 DEF ResetNotified
  <2> QED BY <2>1, <2>2
<1>5. ASSUME LookForMore(s, i)
      PROVE  \E job \in Job :
               /\ SetJob(s, i, job) /\ job.phase = "drained"
               /\ job.more <=> jobs[s][i].data # << >> /\ (jobs[s][i].more \/ chan[s] # << >>)
  <2> DEFINE more == jobs[s][i].data # << >> /\ (jobs[s][i].more \/ chan[s] # << >>)
             job == [jobs[s][i] EXCEPT !.phase = "drained", !.more = more]
  <2>1. job \in Job /\ job.phase = "drained" /\ job.more = more BY <1>1 DEF Job
  <2>2. SetJob(s, i, job) BY <1>5 DEF LookForMore
  <2> QED BY <2>1, <2>2
<1>6. ASSUME ApplyOutput(s, i)
      PROVE  \E job \in Job : SetJob(s, i, job) /\ job.phase = "done" /\ job.more = jobs[s][i].more
  <2> DEFINE job == [jobs[s][i] EXCEPT !.phase = "done", !.data = << >>]
  <2>1. job \in Job /\ job.phase = "done" /\ job.more = jobs[s][i].more
    BY <1>1, << >> \in Seq(1 .. MaxChunks) DEF Job
  <2>2. SetJob(s, i, job) BY <1>6 DEF ApplyOutput
  <2> QED BY <2>1, <2>2
<1> QED BY <1>2, <1>3, <1>4, <1>5, <1>6

(* Nothing is read, announced or under way at the start.                   *)
LEMMA InitTypeOK == Init => TypeOK
BY PipelineAssumption DEF Init, TypeOK, PipelineAssumption, ReaderState

(* Every step of a reader, of a task and of the UI thread.                 *)
LEMMA TypePreserved == TypeOK /\ [Next]_vars => TypeOK'
<1> SUFFICES ASSUME TypeOK, [Next]_vars PROVE TypeOK'
  OBVIOUS
<1> USE PipelineAssumption DEF PipelineAssumption, TypeOK, readerVars, dispatchVars
<1>1. CASE UNCHANGED vars BY <1>1 DEF vars
<1>2. ASSUME NEW s \in Sessions, Reader(s) PROVE TypeOK'
  <2> USE DEF Go, ReaderState
  <2>1. CASE ReadChunk(s)
    <3>1. produced' \in [Sessions -> 0 .. MaxChunks] /\ produced'[s] \in 1 .. MaxChunks
      BY <2>1 DEF ReadChunk
    <3>2. /\ Append(chan[s], produced'[s]) \in Seq(1 .. MaxChunks)
          /\ Len(Append(chan[s], produced'[s])) = Len(chan[s]) + 1
      BY <3>1, AppendType
    <3>3. chan' \in [Sessions -> Seq(1 .. MaxChunks)] /\ \A r \in Sessions : Len(chan'[r]) <= ChannelCap
      <4>1. CASE chan' = [chan EXCEPT ![s] = Append(chan[s], produced'[s])] /\ Len(chan[s]) < ChannelCap
        BY <3>2, <4>1
      <4>2. CASE UNCHANGED chan BY <4>2
      <4> QED BY <2>1, <4>1, <4>2 DEF ReadChunk
    <3>4. reader' \in [Sessions -> ReaderState] BY <2>1 DEF ReadChunk
    <3> QED BY <2>1, <3>1, <3>3, <3>4 DEF ReadChunk
  <2>2. CASE MarkPending(s) BY <2>2 DEF MarkPending
  <2>3. CASE SwapNotified(s)
    <3> DEFINE at == IF s \in notified THEN "read" ELSE "send"
    <3>1. at \in ReaderState OBVIOUS
    <3>2. reader' = [reader EXCEPT ![s] = at] BY <2>3 DEF SwapNotified
    <3> HIDE DEF at
    <3>3. reader' \in [Sessions -> ReaderState] BY <3>1, <3>2
    <3>4. notified' \subseteq Sessions BY <2>3 DEF SwapNotified
    <3> QED BY <2>3, <3>3, <3>4 DEF SwapNotified
  <2>4. CASE SendOutputReady(s)
    <3>1. [session |-> s, kind |-> "OutputReady"] \in Update BY DEF Update
    <3>2. update' \in Seq(Update) /\ Len(update') <= UpdateCap
      <4> HIDE DEF Go
      <4>1. CASE update' = Append(update, [session |-> s, kind |-> "OutputReady"]) /\ Len(update) < UpdateCap
        <5>1. /\ Append(update, [session |-> s, kind |-> "OutputReady"]) \in Seq(Update)
              /\ Len(Append(update, [session |-> s, kind |-> "OutputReady"])) = Len(update) + 1
          BY <3>1, AppendType
        <5> QED BY <4>1, <5>1
      <4> QED BY <2>4, <4>1 DEF SendOutputReady
    <3>3. reader' \in [Sessions -> ReaderState] BY <2>4 DEF SendOutputReady
    <3>4. notified' \subseteq Sessions BY <2>4 DEF SendOutputReady
    <3> QED BY <2>4, <3>2, <3>3, <3>4 DEF SendOutputReady
  <2>5. CASE ReadEnd(s) BY <2>5 DEF ReadEnd
  <2>6. CASE SendExited(s)
    <3>1. [session |-> s, kind |-> "ChildProcessExited"] \in Update BY DEF Update
    <3>2. update' \in Seq(Update) /\ Len(update') <= UpdateCap
      <4> HIDE DEF Go
      <4>1. CASE /\ update' = Append(update, [session |-> s, kind |-> "ChildProcessExited"])
                 /\ Len(update) < UpdateCap
        <5>1. /\ Append(update, [session |-> s, kind |-> "ChildProcessExited"]) \in Seq(Update)
              /\ Len(Append(update, [session |-> s, kind |-> "ChildProcessExited"])) = Len(update) + 1
          BY <3>1, AppendType
        <5> QED BY <4>1, <5>1
      <4> QED BY <2>6, <4>1 DEF SendExited
    <3>3. reader' \in [Sessions -> ReaderState] BY <2>6 DEF SendExited
    <3>4. marked' \subseteq Sessions BY <2>6 DEF SendExited
    <3> QED BY <2>6, <3>2, <3>3, <3>4 DEF SendExited
  <2> QED BY <1>2, <2>1, <2>2, <2>3, <2>4, <2>5, <2>6 DEF Reader
<1>3. ASSUME NEW s \in Sessions, NEW i \in DOMAIN jobs[s], Receive(s, i) PROVE TypeOK'
  <2> DEFINE n == Least(Len(chan[s]), Budget)
             job == [phase |-> "received", data |-> Batch(s), more |-> n = Budget]
  <2>1. CASE s \in closed
    <3>1. jobs[s][i] \in Job OBVIOUS
    <3>2. [jobs[s][i] EXCEPT !.phase = "done"] \in Job BY <3>1 DEF Job
    <3>3. SetJob(s, i, [jobs[s][i] EXCEPT !.phase = "done"]) BY <1>3, <2>1 DEF Receive
    <3>4. jobs' \in [Sessions -> Seq(Job)] BY <3>2, <3>3, SetJobEffect
    <3> QED BY <1>3, <2>1, <3>4 DEF Receive
  <2>2. CASE s \notin closed
    <3>1. /\ n \in 0 .. Len(chan[s]) /\ Batch(s) \in Seq(1 .. MaxChunks)
          /\ SubSeq(chan[s], n + 1, Len(chan[s])) \in Seq(1 .. MaxChunks)
          /\ Len(SubSeq(chan[s], n + 1, Len(chan[s]))) = Len(chan[s]) - n
      BY BatchEffect
    <3>2. job \in Job BY <3>1 DEF Job
    <3>3. SetJob(s, i, job) /\ chan' = [chan EXCEPT ![s] = SubSeq(chan[s], n + 1, Len(chan[s]))]
      BY <1>3, <2>2 DEF Receive
    <3>4. jobs' \in [Sessions -> Seq(Job)] BY <3>2, <3>3, SetJobEffect
    <3>5. chan' \in [Sessions -> Seq(1 .. MaxChunks)] /\ \A r \in Sessions : Len(chan'[r]) <= ChannelCap
      <4> DEFINE rest == SubSeq(chan[s], n + 1, Len(chan[s]))
      <4>1. rest \in Seq(1 .. MaxChunks) /\ Len(rest) <= ChannelCap
        <5>1. Len(chan[s]) \in Nat /\ Len(chan[s]) <= ChannelCap /\ ChannelCap \in Nat
          BY PipelineAssumption DEF PipelineAssumption
        <5>2. n \in Nat /\ Len(rest) = Len(chan[s]) - n BY <3>1
        <5>3. rest \in Seq(1 .. MaxChunks) BY <3>1
        <5> DEFINE long == Len(chan[s])
                   left == Len(rest)
        <5> HIDE DEF n, rest, long, left
        <5>4. left <= ChannelCap
          <6>1. long \in Nat /\ long <= ChannelCap /\ ChannelCap \in Nat BY ONLY <5>1 DEF long
          <6>2. n \in Nat /\ left = long - n BY ONLY <5>2 DEF long, left
          <6> QED BY ONLY <6>1, <6>2
        <5> QED BY ONLY <5>3, <5>4 DEF left
      <4>2. chan' = [chan EXCEPT ![s] = rest] BY <3>3
      <4> HIDE DEF rest
      <4>3. chan \in [Sessions -> Seq(1 .. MaxChunks)] /\ \A r \in Sessions : Len(chan[r]) <= ChannelCap
        OBVIOUS
      <4> QED BY ONLY <4>1, <4>2, <4>3, s \in Sessions
    <3> QED BY <1>3, <3>4, <3>5 DEF Receive
  <2> QED BY <2>1, <2>2
<1>4. ASSUME NEW s \in Sessions, NEW i \in DOMAIN jobs[s], ResetNotified(s, i) PROVE TypeOK'
  <2>1. jobs[s][i] \in Job OBVIOUS
  <2>2. [jobs[s][i] EXCEPT !.phase = "reset"] \in Job BY <2>1 DEF Job
  <2>3. jobs' \in [Sessions -> Seq(Job)] BY <1>4, <2>2, SetJobEffect DEF ResetNotified
  <2> QED BY <1>4, <2>3 DEF ResetNotified
<1>5. ASSUME NEW s \in Sessions, NEW i \in DOMAIN jobs[s], LookForMore(s, i) PROVE TypeOK'
  <2> DEFINE more == jobs[s][i].data # << >> /\ (jobs[s][i].more \/ chan[s] # << >>)
  <2>1. jobs[s][i] \in Job OBVIOUS
  <2>2. [jobs[s][i] EXCEPT !.phase = "drained", !.more = more] \in Job BY <2>1 DEF Job
  <2>3. jobs' \in [Sessions -> Seq(Job)] BY <1>5, <2>2, SetJobEffect DEF LookForMore
  <2> QED BY <1>5, <2>3 DEF LookForMore
<1>6. ASSUME NEW s \in Sessions, NEW i \in DOMAIN jobs[s], ApplyOutput(s, i) PROVE TypeOK'
  <2>1. jobs[s][i] \in Job OBVIOUS
  <2>2. [jobs[s][i] EXCEPT !.phase = "done", !.data = << >>] \in Job
    BY <2>1, << >> \in Seq(1 .. MaxChunks) DEF Job
  <2>3. jobs' \in [Sessions -> Seq(Job)] BY <1>6, <2>2, SetJobEffect DEF ApplyOutput
  <2>4. screen[s] \o jobs[s][i].data \in Seq(1 .. MaxChunks)
    <3>1. jobs[s][i].data \in Seq(1 .. MaxChunks) /\ screen[s] \in Seq(1 .. MaxChunks)
      BY <2>1 DEF Job
    <3> QED BY <3>1, ConcatProperties
  <2> QED BY <1>6, <2>3, <2>4 DEF ApplyOutput
<1>7. ASSUME NEW fallback \in BOOLEAN, Poll(fallback) PROVE TypeOK'
  <2>1. [phase |-> "spawned", data |-> << >>, more |-> FALSE] \in Job BY DEF Job
  <2>2. jobs' \in [Sessions -> Seq(Job)] BY <1>7, <2>1 DEF Poll
  <2>3. {update[i].session : i \in DOMAIN update} \subseteq Sessions
    <3>1. ASSUME NEW i \in DOMAIN update PROVE update[i].session \in Sessions
      <4>1. update[i] \in Update OBVIOUS
      <4> QED BY <4>1 DEF Update
    <3> QED BY <3>1
  <2>4. marked' \subseteq Sessions /\ ready' \subseteq Sessions
    BY <1>7, <2>3 DEF Poll, LeftMarked, MarkReady, Takeable
  <2>5. inFlight' \subseteq Sessions /\ preparing' \subseteq Sessions
    BY <1>7 DEF Poll, Takeable
  <2>6. update' \in Seq(Update) /\ Len(update') <= UpdateCap BY <1>7 DEF Poll
  <2>7. UNCHANGED <<readerVars, closed, attached, screen>> BY <1>7 DEF Poll
  <2> QED BY <2>2, <2>4, <2>5, <2>6, <2>7
<1>8. ASSUME NEW s \in Sessions, NEW i \in DOMAIN jobs[s], Complete(s, i) PROVE TypeOK'
  <2>1. SubSeq(jobs[s], 1, i - 1) \o SubSeq(jobs[s], i + 1, Len(jobs[s])) \in Seq(Job)
    BY i \in 1 .. Len(jobs[s]), jobs[s] \in Seq(Job), Without
  <2> QED BY <1>8, <2>1 DEF Complete, MarkReady
<1>9. ASSUME NEW s \in Sessions, Attach(s) PROVE TypeOK' BY <1>9 DEF Attach
<1>10. ASSUME NEW s \in Sessions, CloseSession(s) PROVE TypeOK'
  BY <1>10 DEF CloseSession, RemoveSession
<1>11. ASSUME NEW s \in Sessions, DiscardSession(s) PROVE TypeOK'
  BY <1>11 DEF DiscardSession, RemoveSession
<1> QED BY <1>1, <1>2, <1>3, <1>4, <1>5, <1>6, <1>7, <1>8, <1>9, <1>10, <1>11
        DEF Next, UI, Background

(* The channels respect their capacities (blocking_send, try_send), and a  *)
(* task never goes through a phase it does not have.                       *)
THEOREM TypeCorrect == Spec => []TypeOK
<1>1. TypeOK /\ UNCHANGED vars => TypeOK' BY TypePreserved
<1> QED BY InitTypeOK, TypePreserved, PTL DEF Spec

(***************************************************************************)
(* The dispatcher.  A terminal view is removed in the same step as the     *)
(* session, so no closed session is taken; and a session is in flight for  *)
(* as long as it has a task, so it gets no second one.                     *)
(***************************************************************************)

(* A closed session has lost its terminal: a poll cannot take it.          *)
ClosedHasNoTerminal == closed \cap attached = {}

(* What the dispatcher keeps to: the induction for tasks and for closed    *)
(* sessions.                                                               *)
Dispatch == TypeOK /\ ClosedHasNoTerminal /\ ClosedStaysOut /\ OneTaskEach

(* The dispatcher starts empty.                                            *)
LEMMA InitDispatch == Init => Dispatch
BY InitTypeOK DEF Init, Dispatch, ClosedHasNoTerminal, ClosedStaysOut, OneTaskEach

(* mark_ready drops what is closed, a poll takes only what has a terminal, *)
(* and only a close takes the terminal away.                               *)
LEMMA ClosedPreserved ==
  ClosedHasNoTerminal /\ ClosedStaysOut /\ [Next]_vars => ClosedHasNoTerminal' /\ ClosedStaysOut'
<1> SUFFICES ASSUME ClosedHasNoTerminal, ClosedStaysOut, [Next]_vars
             PROVE  ClosedHasNoTerminal' /\ ClosedStaysOut'
  OBVIOUS
<1> USE DEF ClosedHasNoTerminal, ClosedStaysOut, dispatchVars
<1>1. CASE UNCHANGED vars BY <1>1 DEF vars
<1>2. ASSUME NEW s \in Sessions, Reader(s) PROVE ClosedHasNoTerminal' /\ ClosedStaysOut'
  BY <1>2 DEF Reader, ReadChunk, MarkPending, SwapNotified, SendOutputReady, ReadEnd, SendExited
<1>3. ASSUME NEW s \in Sessions, Background(s) PROVE ClosedHasNoTerminal' /\ ClosedStaysOut'
  BY <1>3 DEF Background, Receive, ResetNotified, LookForMore, ApplyOutput
<1>4. ASSUME NEW fallback \in BOOLEAN, Poll(fallback) PROVE ClosedHasNoTerminal' /\ ClosedStaysOut'
  <2> DEFINE ready1 == ready \cup MarkReady({update[i].session : i \in DOMAIN update}
                                           \cup IF fallback THEN marked ELSE {})
  <2>1. closed \cap ready1 = {} BY DEF MarkReady
  <2>2. /\ ready' = ready1 \ (ready1 \cap Takeable)
        /\ inFlight' = inFlight \cup (ready1 \cap Takeable)
        /\ UNCHANGED <<closed, attached>>
    BY <1>4 DEF Poll
  <2> HIDE DEF ready1
  <2> QED BY <2>1, <2>2
<1>5. ASSUME NEW s \in Sessions, NEW i \in DOMAIN jobs[s], Complete(s, i)
      PROVE  ClosedHasNoTerminal' /\ ClosedStaysOut'
  BY <1>5 DEF Complete, MarkReady
<1>6. ASSUME NEW s \in Sessions, Attach(s) PROVE ClosedHasNoTerminal' /\ ClosedStaysOut'
  BY <1>6 DEF Attach
<1>7. ASSUME NEW s \in Sessions, CloseSession(s) \/ DiscardSession(s)
      PROVE  ClosedHasNoTerminal' /\ ClosedStaysOut'
  BY <1>7 DEF CloseSession, DiscardSession, RemoveSession
<1> QED BY <1>1, <1>2, <1>3, <1>4, <1>5, <1>6, <1>7 DEF Next, UI

(* A poll adds a task only to a session that has none; a completion takes  *)
(* the only one away.                                                      *)
LEMMA OneTaskPreserved == Dispatch /\ [Next]_vars => OneTaskEach'
<1> SUFFICES ASSUME Dispatch, [Next]_vars, NEW r \in Sessions
             PROVE  /\ Len(jobs'[r]) <= 1
                    /\ r \notin closed' => (r \in inFlight' <=> jobs'[r] # << >>)
  BY DEF OneTaskEach
<1> DEFINE Goal == /\ Len(jobs'[r]) <= 1
                   /\ r \notin closed' => (r \in inFlight' <=> jobs'[r] # << >>)
<1>a. /\ jobs \in [Sessions -> Seq(Job)]
      /\ Len(jobs[r]) <= 1
      /\ r \notin closed => (r \in inFlight <=> jobs[r] # << >>)
  BY DEF Dispatch, TypeOK, OneTaskEach
<1>1. CASE UNCHANGED vars BY <1>1, <1>a DEF vars
<1>2. ASSUME NEW s \in Sessions, Reader(s) PROVE Goal
  BY <1>2, <1>a DEF Reader, ReadChunk, MarkPending, SwapNotified, SendOutputReady, ReadEnd,
       SendExited, dispatchVars
<1>3. ASSUME NEW s \in Sessions, NEW i \in DOMAIN jobs[s], NEW job \in Job, SetJob(s, i, job),
             UNCHANGED <<inFlight, closed>>
      PROVE  Goal
  <2>1. jobs' \in [Sessions -> Seq(Job)] /\ Len(jobs'[r]) = Len(jobs[r])
    BY <1>3, <1>a, SetJobEffect
  <2> QED BY <1>3, <1>a, <2>1, NoLengthIsEmpty
<1>4. ASSUME NEW s \in Sessions, NEW i \in DOMAIN jobs[s],
             Receive(s, i) \/ ResetNotified(s, i) \/ LookForMore(s, i) \/ ApplyOutput(s, i)
      PROVE  Goal
  <2>1. PICK job \in Job : SetJob(s, i, job) BY <1>4, TaskStepSetsJob DEF Dispatch
  <2>2. UNCHANGED <<inFlight, closed>>
    BY <1>4 DEF Receive, ResetNotified, LookForMore, ApplyOutput, dispatchVars
  <2> QED BY <1>3, <2>1, <2>2
<1>5. ASSUME NEW fallback \in BOOLEAN, Poll(fallback) PROVE Goal
  <2>1. PICK taken : /\ taken \subseteq Takeable
                     /\ inFlight' = inFlight \cup taken
                     /\ jobs' = [s \in Sessions |->
                                   IF s \in taken
                                   THEN Append(jobs[s], [phase |-> "spawned", data |-> << >>, more |-> FALSE])
                                   ELSE jobs[s]]
                     /\ closed' = closed
    BY <1>5 DEF Poll
  <2>2. CASE r \in taken
    <3>1. r \notin inFlight /\ r \notin closed BY <2>1, <2>2 DEF Takeable, Dispatch, ClosedHasNoTerminal
    <3>2. jobs[r] = << >> BY <1>a, <3>1
    <3>3. Len(jobs'[r]) = 1 BY <2>1, <2>2, <3>2
    <3> QED BY <2>1, <2>2, <3>3
  <2>3. CASE r \notin taken BY <1>a, <2>1, <2>3
  <2> QED BY <2>2, <2>3
<1>6. ASSUME NEW s \in Sessions, NEW i \in DOMAIN jobs[s], Complete(s, i) PROVE Goal
  <2> DEFINE rest == SubSeq(jobs[s], 1, i - 1) \o SubSeq(jobs[s], i + 1, Len(jobs[s]))
  <2>1. rest \in Seq(Job) /\ Len(rest) = Len(jobs[s]) - 1
    BY <1>a, i \in 1 .. Len(jobs[s]), jobs[s] \in Seq(Job), Without
  <2>2. jobs' = [jobs EXCEPT ![s] = rest] /\ inFlight' = inFlight \ {s} /\ closed' = closed
    BY <1>6 DEF Complete
  <2> HIDE DEF rest
  <2>3. CASE r = s
    <3>1. Len(jobs[s]) = 1
      <4>1. jobs[s] \in Seq(Job) /\ Len(jobs[s]) <= 1 BY <1>a, <2>3
      <4>2. Len(jobs[s]) \in Nat /\ i \in Nat /\ 1 <= i /\ i <= Len(jobs[s]) BY <4>1
      <4>3. \A m, n \in Nat : 1 <= m /\ m <= n /\ n <= 1 => n = 1 OBVIOUS
      <4> QED BY <4>1, <4>2, <4>3
    <3>2. Len(jobs'[r]) = 0 /\ jobs'[r] \in Seq(Job) BY <1>a, <2>1, <2>2, <2>3, <3>1
    <3>3. jobs'[r] = << >> BY <3>2, NoLengthIsEmpty
    <3> QED BY <2>2, <2>3, <3>2, <3>3
  <2>4. CASE r # s BY <1>a, <2>2, <2>4
  <2> QED BY <2>3, <2>4
<1>7. ASSUME NEW s \in Sessions, Attach(s) PROVE Goal BY <1>7, <1>a DEF Attach
<1>8. ASSUME NEW s \in Sessions, CloseSession(s) \/ DiscardSession(s) PROVE Goal
  BY <1>8, <1>a DEF CloseSession, DiscardSession, RemoveSession
<1> QED BY <1>1, <1>2, <1>4, <1>5, <1>6, <1>7, <1>8 DEF Next, UI, Background

(* Together, every step keeps the dispatcher's part of the invariant.      *)
LEMMA DispatchPreserved == Dispatch /\ [Next]_vars => Dispatch'
BY TypePreserved, ClosedPreserved, OneTaskPreserved DEF Dispatch

(* So every reachable state has it.                                        *)
LEMMA DispatchCorrect == Spec => []Dispatch
BY InitDispatch, DispatchPreserved, PTL DEF Spec

(* Events, marks and tasks that outlive a session never bring it back.     *)
THEOREM ClosedSessionsStayOut == Spec => []ClosedStaysOut
<1>1. Dispatch => ClosedStaysOut BY DEF Dispatch
<1> QED BY <1>1, DispatchCorrect, PTL

(* No session is drained by two tasks at once.                             *)
THEOREM OneTaskPerSession == Spec => []OneTaskEach
<1>1. Dispatch => OneTaskEach BY DEF Dispatch
<1> QED BY <1>1, DispatchCorrect, PTL

(***************************************************************************)
(* No lost wake-up.  Each step that takes away what announces the unread   *)
(* output of a session puts something else in its place.                   *)
(***************************************************************************)

(* A task that will find the output, or come back for it.                  *)
WillLook(job) ==
  \/ job.phase = "spawned"
  \/ job.phase \in {"received", "reset"} /\ job.data # << >>
  \/ job.phase \in {"drained", "done"} /\ job.more

(* Some one will still look into the channel of s.                         *)
Announced(s) == s \in marked \cup ready \/ \E i \in DOMAIN jobs[s] : WillLook(jobs[s][i])

(* UnreadIsPending, in these words.                                        *)
LEMMA UnreadIsAnnounced ==
  UnreadIsPending <=>
    \A s \in Sessions \ closed : chan[s] # << >> /\ reader[s] # "mark" => Announced(s)
BY DEF UnreadIsPending, Announced, WillLook

(* The inductive invariant: that unread output is announced needs that a   *)
(* task in flight is the only one of its session.                          *)
IInv == Dispatch /\ UnreadIsPending

(* Every channel is empty at the start.                                    *)
LEMMA InitIInv == Init => IInv
BY InitDispatch DEF Init, IInv, UnreadIsPending

(* A chunk is marked before any flag is asked; a poll turns marks into     *)
(* tasks; a task that found chunks comes back while there are more.        *)
LEMMA UnreadPreserved == IInv /\ [Next]_vars => UnreadIsPending'
<1> SUFFICES ASSUME IInv, [Next]_vars,
                    NEW r \in Sessions \ closed', chan'[r] # << >>, reader'[r] # "mark"
             PROVE  Announced(r)'
  BY DEF UnreadIsPending, Announced, WillLook
<1>a. /\ TypeOK /\ jobs \in [Sessions -> Seq(Job)] /\ reader \in [Sessions -> ReaderState]
      /\ chan \in [Sessions -> Seq(1 .. MaxChunks)]
  BY DEF IInv, Dispatch, TypeOK
<1>b. r \notin closed /\ chan[r] # << >> /\ reader[r] # "mark" => Announced(r)
  BY UnreadIsAnnounced DEF IInv
<1>1. CASE UNCHANGED vars BY <1>1, <1>b DEF vars, Announced
<1>2. ASSUME NEW s \in Sessions, Reader(s) PROVE Announced(r)'
  <2>1. UNCHANGED <<ready, jobs, closed>> /\ marked \subseteq marked'
    BY <1>2 DEF Reader, ReadChunk, MarkPending, SwapNotified, SendOutputReady, ReadEnd, SendExited,
         dispatchVars
  <2>2. r \in marked' \/ (chan'[r] = chan[r] /\ reader[r] # "mark")
    <3>1. CASE ReadChunk(s)
      <4>1. CASE s = r
        <5>1. s \notin closed BY <2>1, <4>1
        <5>2. reader' = [reader EXCEPT ![s] = "mark"] BY <3>1, <5>1 DEF ReadChunk, Go
        <5> QED BY <1>a, <4>1, <5>2
      <4>2. CASE s # r
        <5>1. chan'[r] = chan[r] /\ reader'[r] = reader[r]
          BY <1>a, <3>1, <4>2 DEF ReadChunk, Go
        <5> QED BY <5>1
      <4> QED BY <4>1, <4>2
    <3>2. CASE MarkPending(s) BY <1>a, <3>2 DEF MarkPending, Go
    <3>3. CASE SwapNotified(s) BY <1>a, <3>3 DEF SwapNotified, Go
    <3>4. CASE SendOutputReady(s) BY <1>a, <3>4 DEF SendOutputReady, Go
    <3>5. CASE ReadEnd(s) BY <1>a, <3>5 DEF ReadEnd, Go
    <3>6. CASE SendExited(s) BY <1>a, <3>6 DEF SendExited, Go
    <3> QED BY <1>2, <3>1, <3>2, <3>3, <3>4, <3>5, <3>6 DEF Reader
  <2>3. CASE r \in marked' BY <2>3 DEF Announced
  <2>4. CASE chan'[r] = chan[r] /\ reader[r] # "mark"
    <3>1. Announced(r) BY <1>b, <2>1, <2>4
    <3> QED BY <2>1, <3>1 DEF Announced
  <2> QED BY <2>2, <2>3, <2>4
<1>3. ASSUME NEW s \in Sessions, NEW i \in DOMAIN jobs[s], NEW job \in Job, SetJob(s, i, job),
             UNCHANGED <<ready, reader, closed>>, marked \subseteq marked', chan[r] # << >>,
             s = r /\ WillLook(jobs[s][i]) => WillLook(job)
      PROVE  Announced(r)'
  <2>1. Announced(r) BY <1>3, <1>b
  <2>2. /\ DOMAIN jobs'[r] = DOMAIN jobs[r]
        /\ \A j \in DOMAIN jobs[r] : jobs'[r][j] = IF r = s /\ j = i THEN job ELSE jobs[r][j]
    <3>1. /\ jobs' \in [Sessions -> Seq(Job)] /\ Len(jobs'[r]) = Len(jobs[r])
          /\ \A j \in DOMAIN jobs[r] : jobs'[r][j] = IF r = s /\ j = i THEN job ELSE jobs[r][j]
      BY <1>3, <1>a, SetJobEffect
    <3> QED BY <1>a, <3>1
  <2>3. CASE r \in marked \cup ready BY <1>3, <2>3 DEF Announced
  <2>4. ASSUME NEW j \in DOMAIN jobs[r], WillLook(jobs[r][j]) PROVE Announced(r)'
    <3>1. WillLook(jobs'[r][j]) BY <1>3, <2>2, <2>4
    <3>2. WillLook(jobs[r][j])' BY <3>1 DEF WillLook
    <3> QED BY <2>2, <3>2 DEF Announced
  <2> QED BY <2>1, <2>3, <2>4 DEF Announced
<1>4. ASSUME NEW s \in Sessions, NEW i \in DOMAIN jobs[s], Receive(s, i) PROVE Announced(r)'
  <2>1. UNCHANGED <<ready, reader, closed, marked>> BY <1>4 DEF Receive, dispatchVars
  <2>2. chan[r] # << >>
    <3> DEFINE n == Least(Len(chan[s]), Budget)
    <3>1. chan' = [chan EXCEPT ![s] = SubSeq(chan[s], n + 1, Len(chan[s]))] \/ chan' = chan
      BY <1>4 DEF Receive
    <3>2. /\ n \in 0 .. Len(chan[s])
          /\ SubSeq(chan[s], n + 1, Len(chan[s])) \in Seq(1 .. MaxChunks)
          /\ Len(SubSeq(chan[s], n + 1, Len(chan[s]))) = Len(chan[s]) - n
      BY <1>a, BatchEffect
    <3> HIDE DEF n
    <3>3. chan[s] = << >> => SubSeq(chan[s], n + 1, Len(chan[s])) = << >>
      <4>1. ASSUME chan[s] = << >> PROVE Len(SubSeq(chan[s], n + 1, Len(chan[s]))) = 0
        BY <3>2, <4>1, Len(chan[s]) = 0
      <4> QED BY <3>2, <4>1, NoLengthIsEmpty
    <3> QED BY <1>a, <3>1, <3>3
  <2>3. PICK job \in Job :
          /\ SetJob(s, i, job)
          /\ s \notin closed /\ chan[s] # << >> => job.phase = "received" /\ job.data # << >>
    BY <1>4, <1>a, TaskStepSetsJob
  <2>4. s = r => WillLook(job) BY <2>1, <2>2, <2>3 DEF WillLook
  <2> QED BY <1>3, <2>1, <2>2, <2>3, <2>4
<1>5. ASSUME NEW s \in Sessions, NEW i \in DOMAIN jobs[s], ResetNotified(s, i) PROVE Announced(r)'
  <2>1. /\ UNCHANGED <<ready, reader, closed, marked, chan>> /\ jobs[s][i].phase = "received"
    BY <1>5 DEF ResetNotified, dispatchVars
  <2>2. PICK job \in Job : SetJob(s, i, job) /\ job.phase = "reset" /\ job.data = jobs[s][i].data
    BY <1>5, <1>a, TaskStepSetsJob
  <2>3. WillLook(jobs[s][i]) => WillLook(job) BY <2>1, <2>2 DEF WillLook
  <2> QED BY <1>3, <2>1, <2>2, <2>3
<1>6. ASSUME NEW s \in Sessions, NEW i \in DOMAIN jobs[s], LookForMore(s, i) PROVE Announced(r)'
  <2>1. /\ UNCHANGED <<ready, reader, closed, chan>> /\ marked \subseteq marked'
        /\ jobs[s][i].phase = "reset"
    BY <1>6 DEF LookForMore, dispatchVars, readerVars
  <2>2. PICK job \in Job :
          /\ SetJob(s, i, job) /\ job.phase = "drained"
          /\ job.more <=> jobs[s][i].data # << >> /\ (jobs[s][i].more \/ chan[s] # << >>)
    BY <1>6, <1>a, TaskStepSetsJob
  <2>3. s = r /\ WillLook(jobs[s][i]) => WillLook(job) BY <2>1, <2>2 DEF WillLook
  <2> QED BY <1>3, <2>1, <2>2, <2>3
<1>7. ASSUME NEW s \in Sessions, NEW i \in DOMAIN jobs[s], ApplyOutput(s, i) PROVE Announced(r)'
  <2>1. /\ UNCHANGED <<ready, reader, closed, chan, marked>> /\ jobs[s][i].phase = "drained"
    BY <1>7 DEF ApplyOutput, dispatchVars, readerVars
  <2>2. PICK job \in Job : SetJob(s, i, job) /\ job.phase = "done" /\ job.more = jobs[s][i].more
    BY <1>7, <1>a, TaskStepSetsJob
  <2>3. WillLook(jobs[s][i]) => WillLook(job) BY <2>1, <2>2 DEF WillLook
  <2> QED BY <1>3, <2>1, <2>2, <2>3
<1>8. ASSUME NEW fallback \in BOOLEAN, Poll(fallback) PROVE Announced(r)'
  <2> DEFINE ready1 == ready \cup MarkReady({update[i].session : i \in DOMAIN update}
                                           \cup IF fallback THEN marked ELSE {})
             new == [phase |-> "spawned", data |-> << >>, more |-> FALSE]
  <2>1. UNCHANGED <<chan, reader, closed>> BY <1>8 DEF Poll, readerVars
  <2>2. PICK taken : /\ ready' = ready1 \ taken
                     /\ jobs' = [s \in Sessions |-> IF s \in taken THEN Append(jobs[s], new) ELSE jobs[s]]
    BY <1>8 DEF Poll
  <2>3. marked' = LeftMarked(fallback) BY <1>8 DEF Poll
  <2>4. Announced(r) BY <1>b, <2>1
  <2>5. r \in marked => r \in marked' \/ r \in ready1 BY <2>1, <2>3 DEF LeftMarked, MarkReady
  <2>6. r \in ready => r \in ready1 OBVIOUS
  <2> HIDE DEF ready1
  <2>7. CASE r \in marked' \/ (r \in ready1 /\ r \notin taken) BY <2>2, <2>7 DEF Announced
  <2>8. CASE r \in taken
    <3>1. jobs'[r] = Append(jobs[r], new) BY <2>2, <2>8
    <3>2. Len(jobs[r]) + 1 \in DOMAIN jobs'[r] /\ jobs'[r][Len(jobs[r]) + 1] = new
      BY <1>a, <3>1
    <3>3. \E j \in DOMAIN jobs'[r] : WillLook(jobs'[r][j]) BY <3>2 DEF WillLook
    <3> QED BY <3>3 DEF Announced, WillLook
  <2>9. CASE r \notin taken /\ \E j \in DOMAIN jobs[r] : WillLook(jobs[r][j])
    <3>1. jobs'[r] = jobs[r] BY <2>2, <2>9
    <3> QED BY <2>9, <3>1 DEF Announced, WillLook
  <2> QED BY <2>4, <2>5, <2>6, <2>7, <2>8, <2>9 DEF Announced
<1>9. ASSUME NEW s \in Sessions, NEW i \in DOMAIN jobs[s], Complete(s, i) PROVE Announced(r)'
  <2>1. UNCHANGED <<chan, reader, closed>> /\ marked \subseteq marked' /\ ready \subseteq ready'
    BY <1>9 DEF Complete, readerVars
  <2>2. Announced(r) BY <1>b, <2>1
  <2>3. CASE r \in marked \cup ready BY <2>1, <2>3 DEF Announced
  <2>4. ASSUME NEW j \in DOMAIN jobs[r], WillLook(jobs[r][j]) PROVE Announced(r)'
    <3>1. CASE s = r
      <4>1. Len(jobs[r]) <= 1 BY DEF IInv, Dispatch, OneTaskEach
      <4>2. i = j BY <1>a, <3>1, <4>1, i \in 1 .. Len(jobs[r]), j \in 1 .. Len(jobs[r]), Len(jobs[r]) \in Nat
      <4>3. jobs[s][i].phase = "done" BY <1>9 DEF Complete
      <4>4. jobs[s][i].more BY <2>4, <3>1, <4>2, <4>3 DEF WillLook
      <4>5. s \in ready' BY <1>9, <2>1, <3>1, <4>4 DEF Complete, MarkReady
      <4> QED BY <3>1, <4>5 DEF Announced
    <3>2. CASE s # r
      <4>1. jobs'[r] = jobs[r] BY <1>a, <1>9, <3>2 DEF Complete
      <4> QED BY <2>4, <4>1 DEF Announced, WillLook
    <3> QED BY <3>1, <3>2
  <2> QED BY <2>2, <2>3, <2>4 DEF Announced
<1>10. ASSUME NEW s \in Sessions, Attach(s) PROVE Announced(r)'
  BY <1>10, <1>b DEF Attach, Announced, readerVars
<1>11. ASSUME NEW s \in Sessions, CloseSession(s) \/ DiscardSession(s) PROVE Announced(r)'
  <2>1. RemoveSession(s) BY <1>11 DEF CloseSession, DiscardSession
  <2>2. s # r /\ r \notin closed BY <2>1 DEF RemoveSession
  <2>3. chan'[r] = chan[r] /\ UNCHANGED <<reader, jobs>> BY <1>a, <2>1, <2>2 DEF RemoveSession
  <2>4. Announced(r) BY <1>b, <2>2, <2>3
  <2> QED BY <2>1, <2>2, <2>3, <2>4 DEF RemoveSession, Announced
<1> QED BY <1>1, <1>2, <1>4, <1>5, <1>6, <1>7, <1>8, <1>9, <1>10, <1>11 DEF Next, UI, Background

(* Output in a channel is always announced, so full channels, the          *)
(* notification flag and drains that race the reader lose no wake-up.      *)
THEOREM NoLostWakeup == Spec => []UnreadIsPending
<1>1. IInv /\ [Next]_vars => IInv' BY DispatchPreserved, UnreadPreserved DEF IInv
<1>2. IInv => UnreadIsPending BY DEF IInv
<1> QED BY InitIInv, <1>1, <1>2, PTL DEF Spec

(***************************************************************************)
(* The stream.  Chunks are numbered, so the order is what the positions    *)
(* say: what a task holds follows what the terminal has been given, and    *)
(* what is in the channel follows that.                                    *)
(***************************************************************************)

Held(s) == IF jobs[s] = << >> THEN << >> ELSE jobs[s][1].data

InOrder(shown, held, waiting) ==
  /\ \A i \in 1 .. Len(held) : held[i] = shown + i
  /\ \A i \in 1 .. Len(waiting) : waiting[i] = shown + Len(held) + i

Total(shown, held, waiting) == shown + Len(held) + Len(waiting)

Conveys(s) ==
  /\ InOrder(Len(screen[s]), Held(s), chan[s])
  /\ Total(Len(screen[s]), Held(s), chan[s]) <= produced[s]
  /\ s \in closed => chan[s] = << >>
  /\ s \notin closed => Total(Len(screen[s]), Held(s), chan[s]) = produced[s]
  /\ jobs[s] # << >> /\ jobs[s][1].phase \in {"spawned", "done"} => jobs[s][1].data = << >>

StreamInv == Dispatch /\ \A s \in Sessions : Conveys(s)

(* What Conveys looks at.                                                  *)
Flow(s) == <<produced[s], chan[s], screen[s], jobs[s]>>

LEMMA Untouched ==
  ASSUME NEW s \in Sessions, Conveys(s), UNCHANGED Flow(s), s \in closed <=> s \in closed'
  PROVE  Conveys(s)'
BY DEF Conveys, Held, Flow

LEMMA InitStream == Init => StreamInv
<1> SUFFICES ASSUME Init PROVE \A s \in Sessions : Conveys(s)
  BY InitDispatch DEF StreamInv
<1>1. Len(<< >>) = 0
  OBVIOUS
<1> QED BY <1>1 DEF Init, Conveys, InOrder, Total, Held

(* The number that comes next joins the end.                               *)
LEMMA OneMoreInOrder ==
  ASSUME NEW shown \in Nat, NEW held \in Seq(1 .. MaxChunks), NEW waiting \in Seq(1 .. MaxChunks),
         InOrder(shown, held, waiting), NEW k \in 1 .. MaxChunks, k = Total(shown, held, waiting) + 1
  PROVE  /\ InOrder(shown, held, Append(waiting, k))
         /\ Total(shown, held, Append(waiting, k)) = k
<1>1. Len(held) \in Nat /\ Len(waiting) \in Nat
  OBVIOUS
<1>2. Len(Append(waiting, k)) = Len(waiting) + 1
  OBVIOUS
<1>3. ASSUME NEW i \in 1 .. Len(waiting) + 1
      PROVE  Append(waiting, k)[i] = shown + Len(held) + i
  <2>1. CASE i = Len(waiting) + 1
    <3>1. Append(waiting, k)[i] = k
      BY <2>1
    <3> QED BY <1>1, <2>1, <3>1 DEF Total
  <2>2. CASE i \in 1 .. Len(waiting)
    <3>1. Append(waiting, k)[i] = waiting[i]
      BY <2>2
    <3> QED BY <2>2, <3>1 DEF InOrder
  <2> QED BY <1>1, <2>1, <2>2
<1>4. Total(shown, held, Append(waiting, k)) = k
  BY <1>1, <1>2 DEF Total
<1> QED BY <1>2, <1>3, <1>4 DEF InOrder

(* What is taken from the front comes before what is left.                 *)
LEMMA TakenInOrder ==
  ASSUME NEW shown \in Nat, NEW waiting \in Seq(1 .. MaxChunks), InOrder(shown, << >>, waiting),
         NEW n \in 0 .. Len(waiting)
  PROVE  /\ InOrder(shown, SubSeq(waiting, 1, n), SubSeq(waiting, n + 1, Len(waiting)))
         /\ Total(shown, SubSeq(waiting, 1, n), SubSeq(waiting, n + 1, Len(waiting)))
              = Total(shown, << >>, waiting)
<1> DEFINE front == SubSeq(waiting, 1, n)
           rest == SubSeq(waiting, n + 1, Len(waiting))
<1>1. n \in Nat /\ Len(waiting) \in Nat /\ n <= Len(waiting) /\ Len(<< >>) = 0
  OBVIOUS
<1>2. Len(front) = n /\ \A i \in 1 .. n : front[i] = waiting[i]
  BY <1>1
<1>3. Len(rest) = Len(waiting) - n /\ \A i \in 1 .. Len(waiting) - n : rest[i] = waiting[n + i]
  <2>1. n + 1 \in Int /\ Len(waiting) \in Int
    BY <1>1
  <2> QED BY <1>1, <2>1, SubSeqProperties
<1>4. \A i \in 1 .. Len(waiting) : waiting[i] = shown + i
  BY <1>1 DEF InOrder
<1> HIDE DEF front, rest
<1>5. \A i \in 1 .. Len(rest) : rest[i] = shown + Len(front) + i
  <2> SUFFICES ASSUME NEW i \in 1 .. Len(waiting) - n PROVE rest[i] = shown + n + i
    BY <1>2, <1>3
  <2>1. n + i \in 1 .. Len(waiting) /\ i \in Nat
    BY <1>1
  <2>2. waiting[n + i] = shown + (n + i)
    BY <1>4, <2>1
  <2> QED BY <1>1, <1>3, <2>1, <2>2
<1>6. \A i \in 1 .. Len(front) : front[i] = shown + i
  <2> SUFFICES ASSUME NEW i \in 1 .. n PROVE front[i] = shown + i
    BY <1>2
  <2>1. i \in 1 .. Len(waiting)
    BY <1>1
  <2> QED BY <1>2, <1>4, <2>1
<1>7. InOrder(shown, front, rest)
  BY <1>5, <1>6 DEF InOrder
<1>8. Total(shown, front, rest) = Total(shown, << >>, waiting)
  BY <1>1, <1>2, <1>3 DEF Total
<1> QED BY <1>7, <1>8 DEF front, rest

(* What was held is shown.                                                 *)
LEMMA ShownInOrder ==
  ASSUME NEW shown \in Nat, NEW held \in Seq(1 .. MaxChunks), NEW waiting \in Seq(1 .. MaxChunks),
         InOrder(shown, held, waiting)
  PROVE  /\ InOrder(shown + Len(held), << >>, waiting)
         /\ Total(shown + Len(held), << >>, waiting) = Total(shown, held, waiting)
<1>1. Len(<< >>) = 0 /\ Len(held) \in Nat /\ Len(waiting) \in Nat
  OBVIOUS
<1> QED BY <1>1 DEF InOrder, Total

(* What was waiting is gone.                                               *)
LEMMA DroppedInOrder ==
  ASSUME NEW shown \in Nat, NEW held \in Seq(1 .. MaxChunks), NEW waiting \in Seq(1 .. MaxChunks),
         InOrder(shown, held, waiting), NEW k \in Nat, Total(shown, held, waiting) <= k
  PROVE  InOrder(shown, held, << >>) /\ Total(shown, held, << >>) <= k
<1>1. Len(<< >>) = 0 /\ Len(held) \in Nat /\ Len(waiting) \in Nat
  OBVIOUS
<1> QED BY <1>1 DEF InOrder, Total

(* The types of what flows, and the one task there may be.                 *)
LEMMA FlowTypes ==
  ASSUME Dispatch, NEW s \in Sessions
  PROVE  /\ produced[s] \in Nat
         /\ chan[s] \in Seq(1 .. MaxChunks) /\ screen[s] \in Seq(1 .. MaxChunks)
         /\ Len(screen[s]) \in Nat /\ Total(Len(screen[s]), Held(s), chan[s]) \in Nat
         /\ jobs[s] \in Seq(Job) /\ Held(s) \in Seq(1 .. MaxChunks)
         /\ \A i \in DOMAIN jobs[s] : i = 1 /\ jobs[s][i] \in Job /\ Held(s) = jobs[s][i].data
<1>1. /\ produced[s] \in 0 .. MaxChunks /\ MaxChunks \in Nat
      /\ chan[s] \in Seq(1 .. MaxChunks) /\ screen[s] \in Seq(1 .. MaxChunks)
      /\ jobs[s] \in Seq(Job) /\ Len(jobs[s]) <= 1
  BY PipelineAssumption DEF Dispatch, TypeOK, OneTaskEach, PipelineAssumption
<1>2. << >> \in Seq(1 .. MaxChunks)
  OBVIOUS
<1>3. \A i \in DOMAIN jobs[s] : i = 1 /\ jobs[s][i] \in Job /\ jobs[s] # << >>
  <2> SUFFICES ASSUME NEW i \in DOMAIN jobs[s] PROVE i = 1 /\ jobs[s][i] \in Job /\ jobs[s] # << >>
    OBVIOUS
  <2>1. i \in Nat /\ 1 <= i /\ i <= Len(jobs[s]) /\ Len(jobs[s]) \in Nat
    BY <1>1
  <2>2. \A m, n \in Nat : 1 <= m /\ m <= n /\ n <= 1 => m = 1
    OBVIOUS
  <2>3. jobs[s][i] \in Job
    BY <1>1
  <2> QED BY <1>1, <2>1, <2>2, <2>3
<1>4. jobs[s] # << >> => jobs[s][1] \in Job
  BY <1>1
<1>5. Held(s) \in Seq(1 .. MaxChunks)
  BY <1>2, <1>4 DEF Held, Job
<1>6. \A i \in DOMAIN jobs[s] : Held(s) = jobs[s][i].data
  BY <1>3 DEF Held
<1>7. Len(screen[s]) \in Nat /\ Len(chan[s]) \in Nat /\ Len(Held(s)) \in Nat
  BY <1>1, <1>5
<1>8. Total(Len(screen[s]), Held(s), chan[s]) \in Nat
  <2>1. \A a, b, c \in Nat : a + b + c \in Nat
    OBVIOUS
  <2> QED BY <1>7, <2>1 DEF Total
<1> QED BY <1>1, <1>3, <1>5, <1>6, <1>7, <1>8

(* The reader appends the next number, or finds the channel gone.          *)
LEMMA ReadConveys ==
  ASSUME StreamInv, NEW s \in Sessions, Reader(s), NEW r \in Sessions
  PROVE  Conveys(r)'
<1> USE DEF StreamInv
<1>0. produced \in [Sessions -> 0 .. MaxChunks] /\ chan \in [Sessions -> Seq(1 .. MaxChunks)]
  BY DEF Dispatch, TypeOK
<1>1. CASE ReadChunk(s) /\ r = s
  <2>1. produced'[r] = produced[r] + 1 /\ UNCHANGED <<screen, jobs, closed>>
    BY <1>0, <1>1 DEF ReadChunk
  <2>2. /\ produced[r] \in Nat /\ Len(screen[r]) \in Nat
        /\ Held(r) \in Seq(1 .. MaxChunks) /\ chan[r] \in Seq(1 .. MaxChunks)
        /\ Total(Len(screen[r]), Held(r), chan[r]) \in Nat
    BY FlowTypes
  <2>3. Held(r)' = Held(r)
    BY <2>1 DEF Held
  <2>4. CASE r \notin closed /\ chan' = [chan EXCEPT ![r] = Append(@, produced'[r])]
    <3>1. chan'[r] = Append(chan[r], produced'[r]) /\ produced'[r] \in 1 .. MaxChunks
      <4>1. produced[r] < MaxChunks /\ MaxChunks \in Nat
        BY <1>1, PipelineAssumption DEF ReadChunk, PipelineAssumption
      <4>2. produced'[r] \in 1 .. MaxChunks
        BY <2>1, <2>2, <4>1
      <4> QED BY <1>0, <2>4, <4>2
    <3>2. /\ produced'[r] = Total(Len(screen[r]), Held(r), chan[r]) + 1
          /\ InOrder(Len(screen[r]), Held(r), chan[r])
      BY <2>1, <2>4 DEF Conveys
    <3>3. /\ InOrder(Len(screen[r]), Held(r), chan'[r])
          /\ Total(Len(screen[r]), Held(r), chan'[r]) = produced'[r]
      <4>1. /\ InOrder(Len(screen[r]), Held(r), Append(chan[r], produced'[r]))
            /\ Total(Len(screen[r]), Held(r), Append(chan[r], produced'[r])) = produced'[r]
        BY <2>2, <3>1, <3>2, OneMoreInOrder
      <4> QED BY <3>1, <4>1
    <3>4. produced'[r] <= produced'[r]
      BY <2>1, <2>2
    <3> QED BY <2>1, <2>3, <2>4, <3>3, <3>4 DEF Conveys
  <2>5. CASE r \in closed /\ UNCHANGED chan
    <3>1. Total(Len(screen[r]), Held(r), chan[r]) <= produced[r]
      BY DEF Conveys
    <3>2. Total(Len(screen[r]), Held(r), chan[r]) <= produced'[r]
      BY <2>1, <2>2, <3>1
    <3> QED BY <2>1, <2>3, <2>5, <3>2 DEF Conveys
  <2> QED BY <1>1, <2>4, <2>5 DEF ReadChunk
<1>2. CASE ~ (ReadChunk(s) /\ r = s)
  <2>1. UNCHANGED Flow(r) /\ UNCHANGED closed
    BY <1>0, <1>2 DEF Flow, Reader, ReadChunk, MarkPending, SwapNotified, SendOutputReady, ReadEnd,
                     SendExited, dispatchVars
  <2> QED BY <2>1, Untouched
<1> QED BY <1>1, <1>2

(* A task takes a prefix of the channel, and gives the terminal all of it. *)
LEMMA TaskConveys ==
  ASSUME StreamInv, NEW s \in Sessions, NEW i \in DOMAIN jobs[s], NEW r \in Sessions,
         Receive(s, i) \/ ResetNotified(s, i) \/ LookForMore(s, i) \/ ApplyOutput(s, i)
  PROVE  Conveys(r)'
<1> USE DEF StreamInv
<1> DEFINE job == jobs[s][i]
<1>0. /\ jobs \in [Sessions -> Seq(Job)] /\ chan \in [Sessions -> Seq(1 .. MaxChunks)]
      /\ screen \in [Sessions -> Seq(1 .. MaxChunks)]
  BY DEF Dispatch, TypeOK
<1>1. /\ i = 1 /\ job \in Job /\ Held(s) = job.data /\ job = jobs[s][1] /\ jobs[s] # << >>
      /\ produced[s] \in Nat /\ Len(screen[s]) \in Nat /\ Len(chan[s]) \in Nat /\ Len(job.data) \in Nat
      /\ screen[s] \in Seq(1 .. MaxChunks) /\ chan[s] \in Seq(1 .. MaxChunks)
      /\ job.data \in Seq(1 .. MaxChunks)
  BY FlowTypes
<1>2. ASSUME NEW new \in Job, SetJob(s, i, new)
      PROVE  /\ jobs'[s] # << >> /\ jobs'[s][1] = new
             /\ \A u \in Sessions : u # s => jobs'[u] = jobs[u]
  <2>1. jobs' = [jobs EXCEPT ![s] = [jobs[s] EXCEPT ![1] = new]]
    BY <1>1, <1>2 DEF SetJob
  <2>2. jobs' \in [Sessions -> Seq(Job)] /\ Len(jobs'[s]) = Len(jobs[s]) /\ jobs'[s][i] = new
    BY <1>0, <1>2, SetJobEffect
  <2> QED BY <1>0, <1>1, <2>1, <2>2
<1>3. CASE r # s
  <2>1. /\ UNCHANGED <<produced, closed>> /\ chan'[r] = chan[r] /\ screen'[r] = screen[r]
    BY <1>0, <1>3 DEF Receive, ResetNotified, LookForMore, ApplyOutput, readerVars
  <2>2. jobs'[r] = jobs[r]
    <3>1. PICK new \in Job : SetJob(s, i, new)
      BY TaskStepSetsJob DEF Dispatch
    <3> QED BY <1>2, <1>3, <3>1
  <2> QED BY <2>1, <2>2, Untouched DEF Flow
<1>4. CASE r = s /\ Receive(s, i) /\ s \notin closed
  <2> DEFINE n == Least(Len(chan[s]), Budget)
             rest == SubSeq(chan[s], n + 1, Len(chan[s]))
             new == [phase |-> "received", data |-> Batch(s), more |-> n = Budget]
  <2>1. /\ n \in 0 .. Len(chan[s]) /\ n \in Nat
        /\ Batch(s) \in Seq(1 .. MaxChunks) /\ Len(Batch(s)) = n
        /\ rest \in Seq(1 .. MaxChunks) /\ Len(rest) = Len(chan[s]) - n
    BY BatchEffect DEF Dispatch
  <2>2. new \in Job /\ new.data = Batch(s) /\ new.phase = "received"
    BY <2>1 DEF Job
  <2>3. /\ SetJob(s, i, new) /\ chan'[s] = rest /\ job.data = << >>
        /\ UNCHANGED <<produced, screen, closed>>
    BY <1>0, <1>1, <1>4 DEF Receive, Conveys
  <2>4. Held(s)' = Batch(s)
    BY <1>2, <2>2, <2>3 DEF Held
  <2>5. /\ InOrder(Len(screen[s]), << >>, chan[s])
        /\ Total(Len(screen[s]), << >>, chan[s]) = produced[s]
    <3>1. Held(s) = << >>
      BY <1>1, <2>3
    <3>2. InOrder(Len(screen[s]), Held(s), chan[s]) /\ Total(Len(screen[s]), Held(s), chan[s]) = produced[s]
      BY <1>4 DEF Conveys
    <3> QED BY <3>1, <3>2
  <2>6. /\ InOrder(Len(screen[s]), Batch(s), rest)
        /\ Total(Len(screen[s]), Batch(s), rest) = produced[s]
    BY <1>1, <2>1, <2>5, TakenInOrder DEF Batch
  <2> HIDE DEF n, rest, new
  <2>7. jobs'[s] # << >> /\ jobs'[s][1].phase = "received"
    BY <1>2, <2>2, <2>3
  <2>8. produced[s] <= produced[s]
    BY <1>1
  <2> QED BY <1>4, <2>3, <2>4, <2>6, <2>7, <2>8 DEF Conveys
<1>5. ASSUME NEW new \in Job, SetJob(s, i, new), new.data = job.data, r = s,
             new.phase \in {"spawned", "done"} => new.data = << >>,
             UNCHANGED <<produced, chan, screen, closed>>
      PROVE  Conveys(r)'
  <2>1. Held(s)' = Held(s)
    BY <1>1, <1>2, <1>5 DEF Held
  <2>2. jobs'[s] = << >> \/ jobs'[s][1].phase \notin {"spawned", "done"} \/ jobs'[s][1].data = << >>
    BY <1>2, <1>5
  <2> QED BY <1>5, <2>1, <2>2 DEF Conveys
<1>6. CASE r = s /\ Receive(s, i) /\ s \in closed
  <2> DEFINE new == [job EXCEPT !.phase = "done"]
  <2>1. new \in Job /\ new.data = job.data
    BY <1>1 DEF Job
  <2>2. SetJob(s, i, new) /\ UNCHANGED <<produced, chan, screen, closed>> /\ job.data = << >>
    BY <1>1, <1>6 DEF Receive, Conveys
  <2> HIDE DEF new
  <2> QED BY <1>5, <1>6, <2>1, <2>2
<1>7. CASE r = s /\ ResetNotified(s, i)
  <2> DEFINE new == [job EXCEPT !.phase = "reset"]
  <2>1. new \in Job /\ new.data = job.data /\ new.phase = "reset"
    BY <1>1 DEF Job
  <2>2. SetJob(s, i, new) /\ UNCHANGED <<produced, chan, screen, closed>>
    BY <1>7 DEF ResetNotified
  <2> HIDE DEF new
  <2> QED BY <1>5, <1>7, <2>1, <2>2
<1>8. CASE r = s /\ LookForMore(s, i)
  <2> DEFINE more == job.data # << >> /\ (job.more \/ chan[s] # << >>)
             new == [job EXCEPT !.phase = "drained", !.more = more]
  <2>1. new \in Job /\ new.data = job.data /\ new.phase = "drained"
    BY <1>1 DEF Job
  <2>2. SetJob(s, i, new) /\ UNCHANGED <<produced, chan, screen, closed>>
    BY <1>8 DEF LookForMore, readerVars
  <2> HIDE DEF new
  <2> QED BY <1>5, <1>8, <2>1, <2>2
<1>9. CASE r = s /\ ApplyOutput(s, i)
  <2> DEFINE new == [job EXCEPT !.phase = "done", !.data = << >>]
  <2>1. new \in Job /\ new.data = << >>
    BY <1>1, << >> \in Seq(1 .. MaxChunks) DEF Job
  <2>2. SetJob(s, i, new) /\ screen'[s] = screen[s] \o job.data /\ UNCHANGED <<produced, chan, closed>>
    BY <1>0, <1>9 DEF ApplyOutput, readerVars
  <2> HIDE DEF new
  <2>3. jobs'[s] # << >> /\ jobs'[s][1].data = << >> /\ Held(s)' = << >>
    BY <1>2, <2>1, <2>2 DEF Held
  <2>4. Len(screen'[s]) = Len(screen[s]) + Len(Held(s))
    BY <1>1, <2>2
  <2>5. /\ InOrder(Len(screen[s]), Held(s), chan[s])
        /\ Total(Len(screen[s]), Held(s), chan[s]) <= produced[s]
        /\ s \notin closed => Total(Len(screen[s]), Held(s), chan[s]) = produced[s]
        /\ s \in closed => chan[s] = << >>
    BY DEF Conveys
  <2>6. /\ InOrder(Len(screen'[s]), << >>, chan[s])
        /\ Total(Len(screen'[s]), << >>, chan[s]) = Total(Len(screen[s]), Held(s), chan[s])
    <3>1. Held(s) \in Seq(1 .. MaxChunks)
      BY FlowTypes
    <3>2. /\ InOrder(Len(screen[s]) + Len(Held(s)), << >>, chan[s])
          /\ Total(Len(screen[s]) + Len(Held(s)), << >>, chan[s])
               = Total(Len(screen[s]), Held(s), chan[s])
      <4> DEFINE shown == Len(screen[s])
                 held == Held(s)
                 waiting == chan[s]
      <4>1. shown \in Nat /\ held \in Seq(1 .. MaxChunks) /\ waiting \in Seq(1 .. MaxChunks)
        BY <1>1, <3>1
      <4>2. InOrder(shown, held, waiting) BY <2>5
      <4> HIDE DEF shown, held, waiting
      <4>3. /\ InOrder(shown + Len(held), << >>, waiting)
            /\ Total(shown + Len(held), << >>, waiting) = Total(shown, held, waiting)
        BY ONLY <4>1, <4>2, ShownInOrder
      <4> QED BY <4>3 DEF shown, held, waiting
    <3> QED BY <2>4, <3>2
  <2> QED BY <1>9, <2>2, <2>3, <2>5, <2>6 DEF Conveys
<1> QED BY <1>3, <1>4, <1>6, <1>7, <1>8, <1>9

(* A new task holds nothing, nor does one that ends; a close empties the   *)
(* channel for good.                                                       *)
LEMMA UIConveys ==
  ASSUME StreamInv, UI, NEW r \in Sessions
  PROVE  Conveys(r)'
<1> USE DEF StreamInv
<1>0. jobs \in [Sessions -> Seq(Job)] /\ chan \in [Sessions -> Seq(1 .. MaxChunks)]
  BY DEF Dispatch, TypeOK
<1>a. /\ produced[r] \in Nat /\ Len(screen[r]) \in Nat /\ Len(Held(r)) \in Nat /\ Len(chan[r]) \in Nat
      /\ jobs[r] \in Seq(Job) /\ Len(<< >>) = 0
  BY FlowTypes
<1>1. ASSUME Held(r) = << >>, Held(r)' = << >>,
             jobs'[r] # << >> => jobs'[r][1].data = << >>,
             UNCHANGED <<produced, chan, screen, closed>>
      PROVE  Conveys(r)'
  BY <1>1 DEF Conveys
<1>2. ASSUME NEW fallback \in BOOLEAN, Poll(fallback) PROVE Conveys(r)'
  <2> DEFINE new == [phase |-> "spawned", data |-> << >>, more |-> FALSE]
  <2>1. PICK taken : /\ taken \subseteq Takeable
                     /\ jobs' = [s \in Sessions |-> IF s \in taken THEN Append(jobs[s], new) ELSE jobs[s]]
                     /\ UNCHANGED <<produced, chan, screen, closed>>
    BY <1>2 DEF Poll, readerVars
  <2>2. CASE r \in taken
    <3>1. r \notin inFlight /\ r \notin closed
      BY <2>1, <2>2 DEF Takeable, Dispatch, ClosedHasNoTerminal
    <3>2. jobs[r] = << >>
      BY <3>1 DEF Dispatch, OneTaskEach
    <3>3. jobs'[r] = Append(<< >>, new)
      BY <2>1, <2>2, <3>2
    <3>4. Append(<< >>, new) # << >> /\ Append(<< >>, new)[1] = new
      OBVIOUS
    <3>5. new.data = << >>
      OBVIOUS
    <3>6. Held(r) = << >> /\ Held(r)' = << >>
      BY <3>2, <3>3, <3>4, <3>5 DEF Held
    <3> QED BY <1>1, <2>1, <3>3, <3>4, <3>5, <3>6
  <2>3. CASE r \notin taken
    <3>1. UNCHANGED Flow(r)
      BY <2>1, <2>3 DEF Flow
    <3> QED BY <2>1, <3>1, Untouched
  <2> QED BY <2>2, <2>3
<1>3. ASSUME NEW s \in Sessions, NEW i \in DOMAIN jobs[s], Complete(s, i) PROVE Conveys(r)'
  <2> DEFINE rest == SubSeq(jobs[s], 1, i - 1) \o SubSeq(jobs[s], i + 1, Len(jobs[s]))
  <2>1. jobs' = [jobs EXCEPT ![s] = rest] /\ UNCHANGED <<produced, chan, screen, closed>>
    BY <1>3 DEF Complete, readerVars
  <2>2. CASE r = s
    <3>1. i = 1 /\ jobs[s] \in Seq(Job) /\ Len(jobs[s]) <= 1 /\ Held(s) = jobs[s][1].data
      BY FlowTypes DEF Dispatch, OneTaskEach
    <3>2. i \in 1 .. Len(jobs[s])
      BY <3>1
    <3>3. rest \in Seq(Job) /\ Len(rest) = Len(jobs[s]) - 1
      BY <3>1, <3>2, Without
    <3> HIDE DEF rest
    <3>4. Len(rest) = 0
      <4>1. \A k \in Nat : k <= 1 /\ 1 <= k => k - 1 = 0
        OBVIOUS
      <4>2. Len(jobs[s]) \in Nat /\ 1 <= Len(jobs[s])
        BY <3>1, <3>2
      <4> QED BY <3>1, <3>3, <4>1, <4>2
    <3>5. rest = << >>
      BY <3>3, <3>4, NoLengthIsEmpty
    <3>6. jobs[s][1].phase = "done" /\ jobs[s] # << >>
      BY <1>3, <3>1, <3>2 DEF Complete
    <3>7. Held(r) = << >>
      BY <2>2, <3>1, <3>6 DEF Conveys
    <3>8. jobs'[r] = << >>
      BY <1>0, <2>1, <2>2, <3>5
    <3>9. Held(r)' = << >>
      BY <3>8 DEF Held
    <3> QED BY <1>1, <2>1, <3>7, <3>8, <3>9
  <2>3. CASE r # s
    <3>1. UNCHANGED Flow(r)
      BY <1>0, <2>1, <2>3 DEF Flow
    <3> QED BY <2>1, <3>1, Untouched
  <2> QED BY <2>2, <2>3
<1>4. ASSUME NEW s \in Sessions, Attach(s) PROVE Conveys(r)'
  BY <1>4, Untouched DEF Attach, readerVars, Flow
<1>5. ASSUME NEW s \in Sessions, RemoveSession(s) PROVE Conveys(r)'
  <2>1. /\ chan' = [chan EXCEPT ![s] = << >>] /\ closed' = closed \cup {s}
        /\ UNCHANGED <<produced, screen, jobs>>
    BY <1>5 DEF RemoveSession
  <2>2. Held(r)' = Held(r)
    BY <2>1 DEF Held
  <2>3. CASE r = s
    <3>1. chan'[r] = << >> /\ r \in closed'
      BY <1>0, <2>1, <2>3
    <3>2. /\ InOrder(Len(screen[r]), Held(r), chan[r])
          /\ Total(Len(screen[r]), Held(r), chan[r]) <= produced[r]
      BY DEF Conveys
    <3>3. /\ Held(r) \in Seq(1 .. MaxChunks) /\ chan[r] \in Seq(1 .. MaxChunks)
          /\ Len(screen[r]) \in Nat /\ produced[r] \in Nat
      BY FlowTypes
    <3>4. /\ InOrder(Len(screen[r]), Held(r), << >>)
          /\ Total(Len(screen[r]), Held(r), << >>) <= produced[r]
      BY <3>2, <3>3, DroppedInOrder
    <3>5. jobs[r] # << >> /\ jobs[r][1].phase \in {"spawned", "done"} => jobs[r][1].data = << >>
      BY DEF Conveys
    <3> QED BY <2>1, <2>2, <3>1, <3>4, <3>5 DEF Conveys
  <2>4. CASE r # s
    <3>1. UNCHANGED Flow(r) /\ (r \in closed <=> r \in closed')
      BY <1>0, <2>1, <2>4 DEF Flow
    <3> QED BY <3>1, Untouched
  <2> QED BY <2>3, <2>4
<1> QED BY <1>2, <1>3, <1>4, <1>5 DEF UI, CloseSession, DiscardSession

LEMMA StreamInvStep == StreamInv /\ [Next]_vars => StreamInv'
<1> SUFFICES ASSUME StreamInv, [Next]_vars, NEW r \in Sessions PROVE Conveys(r)'
  BY DispatchPreserved DEF StreamInv
<1>1. CASE UNCHANGED vars
  BY <1>1, Untouched DEF StreamInv, vars, Flow
<1> QED BY <1>1, ReadConveys, TaskConveys, UIConveys DEF Next, Background

(* Only the reader writes, and only the end of a task shows: what it holds *)
(* is what comes next.                                                     *)
LEMMA StreamStep == StreamInv /\ [Next]_vars => [Stream!Next]_(Stream!streamVars)
<1> SUFFICES ASSUME StreamInv, [Next]_vars PROVE [Stream!Next]_(Stream!streamVars)
  OBVIOUS
<1> USE DEF StreamInv, Stream!streamVars
<1>0. screen \in [Sessions -> Seq(1 .. MaxChunks)]
  BY DEF Dispatch, TypeOK
<1>1. ASSUME NEW s \in Sessions, Reader(s) PROVE [Stream!Next]_(Stream!streamVars)
  <2>1. CASE ReadChunk(s)
    BY <2>1 DEF ReadChunk, Stream!Next, Stream!Write
  <2>2. CASE ~ ReadChunk(s)
    BY <1>1, <2>2 DEF Reader, MarkPending, SwapNotified, SendOutputReady, ReadEnd, SendExited
  <2> QED BY <2>1, <2>2
<1>2. ASSUME NEW s \in Sessions, NEW i \in DOMAIN jobs[s], ApplyOutput(s, i)
      PROVE  [Stream!Next]_(Stream!streamVars)
  <2> DEFINE data == jobs[s][i].data
             n == Len(data)
  <2>1. /\ data = Held(s) /\ data \in Seq(1 .. MaxChunks) /\ n \in Nat
        /\ produced[s] \in Nat /\ Len(screen[s]) \in Nat /\ Len(chan[s]) \in Nat
    BY FlowTypes
  <2>2. screen' = [screen EXCEPT ![s] = @ \o data] /\ UNCHANGED produced
    BY <1>2 DEF ApplyOutput, readerVars
  <2>3. (\A k \in 1 .. n : data[k] = Len(screen[s]) + k) /\ Len(screen[s]) + n <= produced[s]
    <3>1. /\ \A k \in 1 .. Len(Held(s)) : Held(s)[k] = Len(screen[s]) + k
          /\ Len(screen[s]) + Len(Held(s)) + Len(chan[s]) <= produced[s]
      BY DEF Conveys, InOrder, Total
    <3>2. \A a, b, c, m \in Nat : a + b + c <= m => a + b <= m
      OBVIOUS
    <3>3. Len(screen[s]) + Len(Held(s)) <= produced[s] /\ Len(Held(s)) = n
      <4>1. Len(Held(s)) = n
        BY <2>1
      <4> QED BY <2>1, <3>1, <3>2, <4>1
    <3> QED BY <2>1, <3>1, <3>3
  <2> HIDE DEF data
  <2>4. data = [k \in 1 .. n |-> Len(screen[s]) + k]
    BY <2>1, <2>3
  <2>5. CASE n = 0
    <3>1. data = << >>
      BY <2>1, <2>5, NoLengthIsEmpty
    <3>2. screen[s] \o data = screen[s]
      BY <1>0, <3>1
    <3> QED BY <1>0, <2>2, <3>2
  <2>6. CASE n # 0
    <3>1. n \in 1 .. produced[s]
      BY <2>1, <2>3, <2>6
    <3>2. Stream!Show(s, n)
      BY <2>2, <2>3, <2>4 DEF Stream!Show
    <3> QED BY <3>1, <3>2 DEF Stream!Next
  <2> QED BY <2>5, <2>6
<1>3. ASSUME NEW s \in Sessions, NEW i \in DOMAIN jobs[s],
             Receive(s, i) \/ ResetNotified(s, i) \/ LookForMore(s, i)
      PROVE  [Stream!Next]_(Stream!streamVars)
  BY <1>3 DEF Receive, ResetNotified, LookForMore, readerVars
<1>4. CASE UI
  BY <1>4 DEF UI, Poll, Complete, Attach, CloseSession, DiscardSession, RemoveSession, readerVars
<1>5. CASE UNCHANGED vars
  BY <1>5 DEF vars
<1> QED BY <1>1, <1>2, <1>3, <1>4, <1>5 DEF Next, Background

(* The terminal is given the output once and in order, for any number of   *)
(* sessions and any capacities, although threads, tasks and polls share    *)
(* the work and a session may be closed in the middle of it.               *)
THEOREM OutputIsAStream == Spec => ImplementsStream
<1>1. Init => Stream!Init
  BY DEF Init, Stream!Init
<1>2. Init => StreamInv
  BY InitStream
<1>3. StreamInv /\ [Next]_vars => StreamInv'
  BY StreamInvStep
<1>4. StreamInv /\ [Next]_vars => [Stream!Next]_(Stream!streamVars)
  BY StreamStep
<1> QED BY <1>1, <1>2, <1>3, <1>4, PTL DEF Spec, ImplementsStream, Stream!Spec
============================================================================
