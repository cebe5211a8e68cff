---------------------------- MODULE MC_TaskBoard ----------------------------
(* Two tasks; with two sessions, one of them may not serve the second task. *)
EXTENDS TaskBoard

CONSTANTS a, b, s1, s2

MCCompatible == {<<a, s1>>, <<b, s1>>, <<a, s2>>} \cap (Tasks \X Sessions)
MCLoadOrder == <<b, a>>
=============================================================================
