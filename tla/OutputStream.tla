---------------------------- MODULE OutputStream ----------------------------
(***************************************************************************)
(* What the output pipeline promises of each session: its terminal shows a *)
(* prefix of what the child has written, every chunk once and in order.    *)
(* There is no channel, no thread, no event.  A chunk is its number.       *)
(***************************************************************************)
EXTENDS Naturals, Sequences

CONSTANT Sessions

VARIABLES produced,  \* how many chunks the child of each session has written
          screen     \* the chunks each terminal has been given

streamVars == <<produced, screen>>

Init ==
  /\ produced = [s \in Sessions |-> 0]
  /\ screen = [s \in Sessions |-> << >>]

Write(s) ==
  /\ produced' = [produced EXCEPT ![s] = @ + 1]
  /\ UNCHANGED screen

(* The next n chunks reach the terminal at once.                           *)
Show(s, n) ==
  LET shown == Len(screen[s])
  IN  /\ shown + n <= produced[s]
      /\ screen' = [screen EXCEPT ![s] = @ \o [i \in 1 .. n |-> shown + i]]
      /\ UNCHANGED produced

Next == \E s \in Sessions : Write(s) \/ \E n \in 1 .. produced[s] : Show(s, n)

Spec == Init /\ [][Next]_streamVars
=============================================================================
