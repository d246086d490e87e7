--------------------------- MODULE MCBSThreadPool ---------------------------
(* BS::thread_pool, for TLC: the clients that wait are interchangeable, and   *)
(* so are those that do not, and the tasks.                                   *)
EXTENDS BSThreadPoolProperties, TLC

Symmetry == Permutations(Waiter) \cup Permutations(Client \ Waiter) \cup Permutations(Task)
=============================================================================
