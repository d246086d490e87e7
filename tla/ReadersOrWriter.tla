-------------------------- MODULE ReadersOrWriter --------------------------
(* What a read-write lock promises: any number of readers, or one writer.   *)
CONSTANTS Thread, Nobody

VARIABLES readers, writer

Init == readers = {} /\ writer = Nobody

BeginRead(t) ==
    /\ writer = Nobody /\ t \notin readers
    /\ readers' = readers \cup {t}
    /\ UNCHANGED writer

EndRead(t) ==
    /\ t \in readers
    /\ readers' = readers \ {t}
    /\ UNCHANGED writer

BeginWrite(t) ==
    /\ readers = {} /\ writer = Nobody
    /\ writer' = t
    /\ UNCHANGED readers

EndWrite(t) ==
    /\ writer = t
    /\ writer' = Nobody
    /\ UNCHANGED readers

Next == \E t \in Thread : BeginRead(t) \/ EndRead(t) \/ BeginWrite(t) \/ EndWrite(t)

Spec == Init /\ [][Next]_<<readers, writer>>
=============================================================================
