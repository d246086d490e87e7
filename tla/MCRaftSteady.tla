---------------------------- MODULE MCRaftSteady ----------------------------
(* One leader and its followers, for TLC.                                  *)
EXTENDS RaftSteady, TLC

Symmetry == Permutations(Server \ {Boss})
=============================================================================
