------------------------------ MODULE SpinLock ------------------------------
(***************************************************************************)
(* The spin locks: spin_mutex (src/common/mutex_utils.cppm), which         *)
(* compares and swaps, and SpinLock (src/db/async_mutex.h), which exchanges *)
(* and then watches the flag.  SpinlockMutex and spin_lock of mutex_utils   *)
(* exchange only, as SpinLock does when it never watches.                   *)
(*                                                                         *)
(* A step is one atomic operation on the flag with the local assignments   *)
(* around it.  Each thread runs one caller: coLock spins without giving    *)
(* its thread away, so a coroutine must not wait for one of its own        *)
(* thread that is suspended with the lock.                                 *)
(***************************************************************************)
CONSTANT Spinner

VARIABLES
    flavour,        \* which of the classes the lock is
    flag,           \* flag, or _locked
    expected,       \* spin_mutex's local variable
    place           \* place[s]: "out", "try", "watch" or "in"

spinVars == <<flavour, flag, expected, place>>

SpinInit ==
    /\ flavour \in {"spin_mutex", "SpinLock"}
    /\ flag = FALSE
    /\ expected = [s \in Spinner |-> FALSE]
    /\ place = [s \in Spinner |-> "out"]

Moves(s, from, to) == place[s] = from /\ place' = [place EXCEPT ![s] = to]

BeginLock(s) ==
    /\ Moves(s, "out", "try")
    /\ expected' = [expected EXCEPT ![s] = FALSE]
    /\ UNCHANGED <<flavour, flag>>

CompareSwaps(s) ==
    /\ flavour = "spin_mutex" /\ flag = expected[s]
    /\ flag' = TRUE
    /\ Moves(s, "try", "in")
    /\ UNCHANGED <<flavour, expected>>

\* A slip: expected stays what the failed compare-and-swap made it.
CompareFailsNoReset(s) ==
    /\ flavour = "spin_mutex" /\ flag # expected[s]
    /\ expected' = [expected EXCEPT ![s] = flag]
    /\ Moves(s, "try", "try")
    /\ UNCHANGED <<flavour, flag>>

\* The compare-and-swap writes the flag to expected; the loop takes that back.
CompareFails(s) ==
    /\ flavour = "spin_mutex" /\ flag # expected[s]
    /\ expected' = [expected EXCEPT ![s] = FALSE]
    /\ Moves(s, "try", "try")
    /\ UNCHANGED <<flavour, flag>>

tryLock(s) ==
    /\ flavour = "SpinLock"
    /\ flag' = TRUE
    /\ Moves(s, "try", IF flag THEN "watch" ELSE "in")
    /\ UNCHANGED <<flavour, expected>>

\* Another thread may have the flag again before the next exchange.
SeesFree(s) ==
    /\ ~flag
    /\ Moves(s, "watch", "try")
    /\ UNCHANGED <<flavour, flag, expected>>

Unlock(s) ==
    /\ flag' = FALSE
    /\ Moves(s, "in", "out")
    /\ UNCHANGED <<flavour, expected>>

Spins(s) == CompareSwaps(s) \/ CompareFails(s) \/ tryLock(s) \/ SeesFree(s) \/ Unlock(s)

SpinNext == \E s \in Spinner : BeginLock(s) \/ Spins(s)

SpinSpec == SpinInit /\ [][SpinNext]_spinVars

-----------------------------------------------------------------------------
\* One thread has the lock at a time, though each tries again with what the last try left in
\* expected, and several see the flag free at once; and the flag is set while one has it.
SpinExclusion ==
    /\ \A s, t \in Spinner : place[s] = "in" /\ place[t] = "in" => s = t
    /\ flag <=> \E s \in Spinner : place[s] = "in"
=============================================================================
