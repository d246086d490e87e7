--------------------------- MODULE ReadWriteLock ---------------------------
(***************************************************************************)
(* readWriteLock (src/common/mutex_utils.cppm): a count of readers under   *)
(* readMtx, and writeMtx, which a writer holds, or the readers together.   *)
(*                                                                         *)
(* The first reader locks writeMtx and the last one unlocks it, often      *)
(* another thread.  The standard leaves that undefined; the mutexes of the *)
(* builds (pthread's default mutex, SRWLOCK) keep no owner and become      *)
(* free, and that is what LeaveRead does.                                  *)
(***************************************************************************)
EXTENDS Integers, FiniteSets

CONSTANTS
    Thread,
    Nobody         \* the holder of a mutex that is free

ASSUME ThreadAssumption == IsFiniteSet(Thread) /\ Nobody \notin Thread

VARIABLES
    readMtx,       \* the thread that holds it
    writeMtx,      \* the thread that locked it last
    readCnt,
    at             \* where each thread is

lockVars == <<readMtx, writeMtx, readCnt, at>>

Places == {"out", "readLock", "firstReader", "readLocked", "reading",
           "readUnlock", "readUnlocked", "writeLock", "writing"}

LockInit ==
    /\ readMtx = Nobody
    /\ writeMtx = Nobody
    /\ readCnt = 0
    /\ at = [t \in Thread |-> "out"]

Goes(t, from, to) == at[t] = from /\ at' = [at EXCEPT ![t] = to]

\* A thread calls a method, or the next one it has to.
Call(t) ==
    /\ \/ Goes(t, "out", "readLock")
       \/ Goes(t, "out", "writeLock")
    /\ UNCHANGED <<readMtx, writeMtx, readCnt>>

\* readLock up to the lock of writeMtx, which only the first reader needs.
EnterRead(t) ==
    /\ readMtx = Nobody
    /\ readMtx' = t
    /\ readCnt' = readCnt + 1
    /\ Goes(t, "readLock", IF readCnt + 1 = 1 THEN "firstReader" ELSE "readLocked")
    /\ UNCHANGED writeMtx

\* The first reader waits for the writer with readMtx locked: the others wait behind it.
LockOutWriters(t) ==
    /\ writeMtx = Nobody
    /\ writeMtx' = t
    /\ Goes(t, "firstReader", "readLocked")
    /\ UNCHANGED <<readMtx, readCnt>>

\* The end of readLock: readMtx is unlocked, and the thread reads.
BeginReading(t) ==
    /\ Goes(t, "readLocked", "reading")
    /\ readMtx' = Nobody
    /\ UNCHANGED <<writeMtx, readCnt>>

EndReading(t) == Goes(t, "reading", "readUnlock") /\ UNCHANGED <<readMtx, writeMtx, readCnt>>

\* A slip: every reader that leaves lets a writer in.
LeaveReadAlways(t) ==
    /\ readMtx = Nobody
    /\ readMtx' = t
    /\ readCnt' = readCnt - 1
    /\ writeMtx' = Nobody
    /\ Goes(t, "readUnlock", "readUnlocked")

\* A slip: no reader lets a writer in.
LeaveReadNever(t) ==
    /\ readMtx = Nobody
    /\ readMtx' = t
    /\ readCnt' = readCnt - 1
    /\ Goes(t, "readUnlock", "readUnlocked")
    /\ UNCHANGED writeMtx

LeaveRead(t) ==
    /\ readMtx = Nobody
    /\ readMtx' = t
    /\ readCnt' = readCnt - 1
    /\ writeMtx' = IF readCnt - 1 = 0 THEN Nobody ELSE writeMtx
    /\ Goes(t, "readUnlock", "readUnlocked")

\* The end of readUnlock.
ReadUnlocked(t) ==
    /\ Goes(t, "readUnlocked", "out")
    /\ readMtx' = Nobody
    /\ UNCHANGED <<writeMtx, readCnt>>

EnterWrite(t) ==
    /\ writeMtx = Nobody
    /\ writeMtx' = t
    /\ Goes(t, "writeLock", "writing")
    /\ UNCHANGED <<readMtx, readCnt>>

LeaveWrite(t) ==
    /\ writeMtx' = Nobody
    /\ Goes(t, "writing", "out")
    /\ UNCHANGED <<readMtx, readCnt>>

\* What a thread does by itself once it has called: its critical sections end.
Step(t) ==
    \/ EnterRead(t) \/ LockOutWriters(t) \/ BeginReading(t)
    \/ EndReading(t) \/ LeaveRead(t) \/ ReadUnlocked(t)
    \/ EnterWrite(t) \/ LeaveWrite(t)

LockNext == \E t \in Thread : Call(t) \/ Step(t)

LockFairness == \A t \in Thread : WF_lockVars(Step(t))

LockSpec == LockInit /\ [][LockNext]_lockVars

-----------------------------------------------------------------------------
In(places) == {t \in Thread : at[t] \in places}

\* The threads that readCnt counts, and those of them that have the lock.
Counted == In({"firstReader", "readLocked", "reading", "readUnlock"})
Readers == Counted \ In({"firstReader"})
Writers == In({"writing"})

LockTypeOK ==
    /\ readMtx \in Thread \cup {Nobody} /\ writeMtx \in Thread \cup {Nobody}
    /\ readCnt \in Nat
    /\ at \in [Thread -> Places]

\* The lock's purpose (line 171 names it, read priority): writers are alone, readers are not
\* with writers, though the readers' share of writeMtx is handed from thread to thread.
Exclusion ==
    /\ Cardinality(Writers) <= 1
    /\ Writers # {} => Readers = {}

\* The count that decides who locks and who unlocks writeMtx is exact, whoever comes and goes
\* (what the proof of the others rests on).
ReadersCounted == readCnt = Cardinality(Counted)

\* The lock is an abstract read-write lock.
TheWriter == IF Writers = {} THEN Nobody ELSE CHOOSE t \in Writers : TRUE
Abstract == INSTANCE ReadersOrWriter WITH readers <- Readers, writer <- TheWriter
ImplementsLock == Abstract!Spec

\* No set of threads waits for each other: if anyone waits for the lock, someone gets it
\* (line 183 locks one mutex while it holds the other).  Nobody is promised to be the one:
\* readers that follow each other keep the writers out.
SomeoneEnters ==
    (In({"readLock", "firstReader", "writeLock"}) # {}) ~> (Readers \cup Writers # {})
=============================================================================
