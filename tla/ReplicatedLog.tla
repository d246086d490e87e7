--------------------------- MODULE ReplicatedLog ----------------------------
(***************************************************************************)
(* What a cluster of Raft servers promises its clients, with no terms,     *)
(* votes or messages: each server learns a sequence of entries that only   *)
(* grows, and any two servers learn the same entries in the same order.    *)
(***************************************************************************)
EXTENDS Integers, Sequences

CONSTANT Server

VARIABLE learned    \* learned[s]: the entries server s may apply, in order

Extends(b, a) == Len(a) <= Len(b) /\ \A i \in 1..Len(a) : b[i] = a[i]

Agreement ==
    \A s, t \in Server : Extends(learned[s], learned[t]) \/ Extends(learned[t], learned[s])

\* The servers may have learned something already.
Init == Agreement

Learn(s) ==
    /\ learned'[s] # learned[s]
    /\ Extends(learned'[s], learned[s])
    /\ \A t \in Server \ {s} : learned'[t] = learned[t]

Next == (\E s \in Server : Learn(s)) /\ Agreement'

Spec == Init /\ [][Next]_learned

=============================================================================
