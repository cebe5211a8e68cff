---------------------------- MODULE MC_TaskQueue ----------------------------
(* Three tasks, one of which may depend on another, on two others, or on   *)
(* itself through a cycle.                                                 *)
EXTENDS TaskQueue, TLC

CONSTANTS a, b, c, s1

MCDeps == {{}, {a}, {b}, {a, c}}
=============================================================================
