----------------------------- MODULE MCRaftTimed ----------------------------
(* Raft with prompt tasks and equal timers, for TLC.                       *)
EXTENDS RaftTimed, TLC

Symmetry == Permutations(Server)
=============================================================================
