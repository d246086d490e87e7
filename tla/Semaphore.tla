----------------------------- MODULE Semaphore -----------------------------
(***************************************************************************)
(* semaphore (src/common/mutex_utils.cppm), the build without HAVE_SEM: a  *)
(* count, a mutex and a condition variable.                                *)
(*                                                                         *)
(* post, and each round of the loop in wait, is one critical section of    *)
(* the mutex and one action.  The condition variable is the set of the     *)
(* threads blocked on it.  The constructor sets the count to 0 whatever    *)
(* initial value it is given.                                              *)
(***************************************************************************)
EXTENDS Integers, FiniteSets

CONSTANTS
    User,          \* the threads that wait; anybody posts
    Amounts,       \* the arguments of post
    MaxPosted      \* bound: the sum of the arguments

ASSUME UserAssumption == IsFiniteSet(User)
ASSUME AmountsAssumption == Amounts \subseteq Nat /\ MaxPosted \in Nat

VARIABLES
    count,         \* _count
    condition,     \* the threads blocked on _condition
    inside,        \* the threads inside wait
    posted         \* history: the sum of the posts

semVars == <<count, condition, inside, posted>>

SemInit ==
    /\ count = 0
    /\ condition = {}
    /\ inside = {}
    /\ posted = 0

\* notify_one and notify_all.
NotifyOne ==
    IF condition = {} THEN condition' = {}
    ELSE \E t \in condition : condition' = condition \ {t}

NotifyAll == condition' = {}

\* A slip: one thread is notified however many there are to wake.
PostOne(n) ==
    /\ posted + n <= MaxPosted
    /\ count' = count + n
    /\ posted' = posted + n
    /\ NotifyOne
    /\ UNCHANGED inside

post(n) ==
    /\ posted + n <= MaxPosted
    /\ count' = count + n
    /\ posted' = posted + n
    /\ IF n = 1 THEN NotifyOne ELSE NotifyAll
    /\ UNCHANGED inside

\* A thread calls wait; from here on it is about to test the count.
BeginWait(t) ==
    /\ t \notin inside
    /\ inside' = inside \cup {t}
    /\ UNCHANGED <<count, condition, posted>>

Sleep(t) ==
    /\ t \in inside \ condition /\ count = 0
    /\ condition' = condition \cup {t}
    /\ UNCHANGED <<count, inside, posted>>

Take(t) ==
    /\ t \in inside \ condition /\ count > 0
    /\ count' = count - 1
    /\ inside' = inside \ {t}
    /\ UNCHANGED <<condition, posted>>

\* Any thread may wake up for no reason.
Spurious(t) ==
    /\ t \in condition
    /\ condition' = condition \ {t}
    /\ UNCHANGED <<count, inside, posted>>

SemNext ==
    \/ \E n \in Amounts : post(n)
    \/ \E t \in User : BeginWait(t) \/ Sleep(t) \/ Take(t) \/ Spurious(t)

SemFairness == \A t \in User : WF_semVars(Sleep(t) \/ Take(t))

SemSpec == SemInit /\ [][SemNext]_semVars

-----------------------------------------------------------------------------
Awake == inside \ condition

\* The unsigned count never goes below zero.
SemTypeOK ==
    /\ count \in Nat /\ posted \in Nat
    /\ inside \subseteq User /\ condition \subseteq inside

\* No post is lost: while threads sleep, each count has a thread that is awake and about to
\* take it, though post notifies one thread, and another one may take the count before it.
NoLostPost == condition = {} \/ count <= Cardinality(Awake)

\* So a count that someone waits for is taken.
PostsTaken == (count > 0 /\ inside # {}) ~> (count = 0 \/ inside = {})
=============================================================================
