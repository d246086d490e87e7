------------------------------ MODULE Multimap ------------------------------
(* What the containers promise: every element that was inserted under a key *)
(* and not removed is there, once.                                          *)
CONSTANTS Key, Element

VARIABLE contents      \* contents[k]: the elements under key k

Init == contents = [k \in Key |-> {}]

Add(k, e) ==
    /\ \A other \in Key : e \notin contents[other]
    /\ contents' = [contents EXCEPT ![k] = @ \cup {e}]

Take(k, e) ==
    /\ e \in contents[k]
    /\ contents' = [contents EXCEPT ![k] = @ \ {e}]

Empty == contents' = [k \in Key |-> {}]

Next == Empty \/ \E k \in Key, e \in Element : Add(k, e) \/ Take(k, e)

Spec == Init /\ [][Next]_contents
=============================================================================
