----------------------------- MODULE NodeChain -----------------------------
(* Linked nodes: next maps a node to its successor or to Null.              *)
EXTENDS Integers, Sequences, FiniteSets

\* The nodes reached from first, in order (at most as many as there are: a circle ends).
Path(next, first, Null) ==
    LET size == Cardinality(DOMAIN next)
        onward == [n \in DOMAIN next \cup {Null} |-> IF n = Null THEN Null ELSE next[n]]
        after[i \in 0..size] == IF i = 0 THEN first ELSE onward[after[i - 1]]
    IN  [i \in 1..Cardinality({j \in 1..size : after[j - 1] # Null}) |-> after[i - 1]]
=============================================================================
