------------------------------- MODULE VecOps -------------------------------
(***************************************************************************)
(* The operations of Rust's Vec that the task queue and the assignment     *)
(* manager rely on, on sequences.  RetainAll is a recursive function and   *)
(* not SelectSeq so that facts about it can be proved.                     *)
(***************************************************************************)
EXTENDS Integers, Sequences, FiniteSets

(* v.retain(|x| S holds x): kept[i] is what is left of the first i.         *)
RetainAll(v, S) ==
  LET kept[i \in 0 .. Len(v)] ==
        IF i = 0 THEN << >>
        ELSE IF v[i] \in S THEN Append(kept[i - 1], v[i]) ELSE kept[i - 1]
  IN  kept[Len(v)]

(* v.retain(|x| x != e).                                                   *)
Retain(v, e) == RetainAll(v, {v[i] : i \in 1 .. Len(v)} \ {e})

(* The positions at which e occurs in v, and their number.                 *)
Positions(v, e) == {i \in 1 .. Len(v) : v[i] = e}

Occurrences(v, e) == Cardinality(Positions(v, e))
=============================================================================
