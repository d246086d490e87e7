------------------------------- MODULE MCRaft -------------------------------
(* Raft with nothing assumed of the scheduling, for TLC.                   *)
EXTENDS RaftProperties, TLC

Symmetry == Permutations(Server) 
=============================================================================
