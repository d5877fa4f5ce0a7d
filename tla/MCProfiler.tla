---------------------------- MODULE MCProfiler ----------------------------
(* Three blocks: 1 and 2 call each other and themselves and count page     *)
(* faults, 3 does not, and hides the page faults of those it calls.        *)
EXTENDS Profiler

MCPfBlocks == {1, 2}
MCCalls == {Root, 1, 2, 3} \X {1, 2, 3}
===========================================================================
