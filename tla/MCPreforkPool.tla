---------------------------- MODULE MCPreforkPool ----------------------------
(***************************************************************************)
(* Two slots.  Safety is checked with three pids and one stranger, so that *)
(* a dead worker's pid can be reused before its slot is refilled; liveness *)
(* with two pids and no stranger.  Either way fork() finds a free pid: at  *)
(* a fork at most one slot holds a child.  Pids are interchangeable:       *)
(* no action or invariant names or orders them.                            *)
(***************************************************************************)
EXTENDS PreforkPool, TLC

CONSTANTS p1, p2, p3

MCPids == {p1, p2, p3}
MCTwoPids == {p1, p2}

PidSymmetry == Permutations(MCPids)
=============================================================================
