--------------------------- MODULE MC_TaskManager ---------------------------
(* Two tasks, the second of which may depend on the first; one session may *)
(* not serve the second task.                                              *)
EXTENDS TaskManager

CONSTANTS a, b, s1, s2

MCDeps == {{}, {a}}
MCCompatible == {<<a, s1>>, <<b, s1>>, <<a, s2>>} \cap (Tasks \X Sessions)
MCLoadOrder == <<b, a>>
=============================================================================
