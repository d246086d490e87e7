----------------------------- MODULE LockProofs -----------------------------
(***************************************************************************)
(* The read-write lock keeps writers alone and implements its abstraction, *)
(* for every finite set of threads; the spin locks exclude, for any; and   *)
(* the semaphore loses no post.                                            *)
(***************************************************************************)
EXTENDS ReadWriteLock, SpinLock, Semaphore, FiniteSetTheorems, TLAPS

UnderReadMtx == {"firstReader", "readLocked", "readUnlocked"}
CountedPlaces == {"firstReader", "readLocked", "reading", "readUnlock"}
HoldingPlaces == CountedPlaces \ {"firstReader"}

\* Who is under readMtx holds it.
ReadMtxHeld == \A t \in Thread : at[t] \in UnderReadMtx <=> readMtx = t

\* Who writes locked writeMtx last.
WriterHolds == \A t \in Thread : at[t] = "writing" => writeMtx = t

\* While readers have the lock writeMtx is locked, by whichever of them, and not for a writer.
ReadersHold ==
    (\E t \in Thread : at[t] \in HoldingPlaces)
        => writeMtx # Nobody /\ \A u \in Thread : at[u] # "writing"

LockInv == LockTypeOK /\ ReadersCounted /\ ReadMtxHeld /\ WriterHolds /\ ReadersHold

LEMMA CountedIs == Counted = {t \in Thread : at[t] \in CountedPlaces} /\ IsFiniteSet(Counted)
  <1>1. Counted \subseteq Thread  BY DEF Counted, In
  <1>2. IsFiniteSet(Counted)  BY <1>1, ThreadAssumption, FS_Subset
  <1> QED  BY <1>2 DEF Counted, In, CountedPlaces

-----------------------------------------------------------------------------
\* The count of a set a thread joins, leaves, or has to itself.
LEMMA CountJoins ==
  ASSUME NEW S, IsFiniteSet(S), NEW x, x \notin S
  PROVE  Cardinality(S \cup {x}) = Cardinality(S) + 1
  BY FS_AddElement

LEMMA CountLeaves ==
  ASSUME NEW S, IsFiniteSet(S), NEW x \in S
  PROVE  Cardinality(S \ {x}) = Cardinality(S) - 1
  BY FS_RemoveElement

LEMMA CountOfOne ==
  ASSUME NEW S, IsFiniteSet(S), NEW x \in S, Cardinality(S) = 1
  PROVE  S = {x}
  BY FS_Singleton

LEMMA CountOfNone ==
  ASSUME NEW S, IsFiniteSet(S), Cardinality(S) = 0
  PROVE  S = {}
  BY FS_EmptySet

LEMMA CountOfSome ==
  ASSUME NEW S, Cardinality(S) # 0
  PROVE  S # {}
  BY FS_EmptySet

\* How the counted threads change when one thread goes from place to place.
LEMMA CountedAfter ==
  ASSUME at \in [Thread -> Places], NEW t \in Thread, NEW to, at' = [at EXCEPT ![t] = to]
  PROVE  /\ to \in CountedPlaces => Counted' = Counted \cup {t}
         /\ to \notin CountedPlaces => Counted' = Counted \ {t}
         /\ t \in Counted <=> at[t] \in CountedPlaces
  BY DEF Counted, In, CountedPlaces

-----------------------------------------------------------------------------
LEMMA LockInvInit == LockInit => LockInv
  <1> SUFFICES ASSUME LockInit PROVE LockInv  OBVIOUS
  <1>1. Counted = {}  BY DEF LockInit, Counted, In
  <1>2. ReadersCounted  BY <1>1, FS_EmptySet DEF ReadersCounted, LockInit
  <1> QED
    BY <1>2, ThreadAssumption
    DEF LockInit, LockInv, LockTypeOK, ReadMtxHeld, WriterHolds, ReadersHold, Places,
        UnderReadMtx, HoldingPlaces, CountedPlaces

\* A step that counts nobody in or out keeps the count.
LEMMA CountKept ==
  ASSUME LockInv, NEW t \in Thread, NEW from, NEW to, Goes(t, from, to), readCnt' = readCnt,
         from \in CountedPlaces <=> to \in CountedPlaces
  PROVE  ReadersCounted'
  <1>1. /\ to \in CountedPlaces => Counted' = Counted \cup {t} /\ t \in Counted
        /\ to \notin CountedPlaces => Counted' = Counted \ {t} /\ t \notin Counted
    <2>1. at \in [Thread -> Places] /\ at[t] = from /\ at' = [at EXCEPT ![t] = to]
      BY DEF LockInv, LockTypeOK, Goes
    <2> QED  BY <2>1, CountedAfter
  <1>2. Counted' = Counted  BY <1>1
  <1> QED  BY <1>2 DEF LockInv, ReadersCounted

LEMMA LockInvStep == LockInv /\ [LockNext]_lockVars => LockInv'
  <1> SUFFICES ASSUME LockInv, [LockNext]_lockVars PROVE LockInv'  OBVIOUS
  <1> USE DEF LockInv
  <1>0. CASE UNCHANGED lockVars
    BY <1>0 DEF lockVars, LockTypeOK, ReadersCounted, Counted, In, ReadMtxHeld, WriterHolds, ReadersHold
  <1> SUFFICES ASSUME NEW t \in Thread, Call(t) \/ Step(t) PROVE LockInv'
    BY <1>0 DEF LockNext
  <1> DEFINE Rest == LockTypeOK /\ ReadMtxHeld /\ WriterHolds /\ ReadersHold
  <1> USE DEF Goes
  <1>1. CASE Call(t)
    <2>1. ReadersCounted'  BY <1>1, CountKept DEF Call, CountedPlaces
    <2>2. Rest'
      BY <1>1, ThreadAssumption
      DEF Call, LockTypeOK, ReadMtxHeld, WriterHolds, ReadersHold, Places,
          UnderReadMtx, HoldingPlaces, CountedPlaces
    <2> QED  BY <2>1, <2>2
  <1>2. CASE EnterRead(t)
    <2>1. t \notin Counted /\ Counted' = Counted \cup {t}
      BY <1>2, CountedAfter DEF EnterRead, CountedPlaces, LockTypeOK
    <2>2. ReadersCounted'
      BY <1>2, <2>1, CountedIs, CountJoins DEF EnterRead, ReadersCounted
    <2>3. CASE readCnt + 1 = 1
      BY <1>2, <2>2, <2>3, ThreadAssumption
      DEF EnterRead, LockTypeOK, ReadMtxHeld, WriterHolds, ReadersHold, Places,
          UnderReadMtx, HoldingPlaces, CountedPlaces
    <2>4. CASE readCnt + 1 # 1
      <3>1. Counted # {}
        <4>1. Cardinality(Counted) # 0  BY <2>4 DEF ReadersCounted, LockTypeOK
        <4> QED  BY <4>1, CountOfSome
      <3>2. \E u \in Thread : at[u] \in HoldingPlaces
        BY <1>2, <3>1, CountedIs, ThreadAssumption
        DEF EnterRead, ReadMtxHeld, UnderReadMtx, HoldingPlaces, CountedPlaces
      <3> QED
        BY <1>2, <2>2, <2>4, <3>2, ThreadAssumption
        DEF EnterRead, LockTypeOK, ReadMtxHeld, WriterHolds, ReadersHold, Places,
            UnderReadMtx, HoldingPlaces, CountedPlaces
    <2> QED  BY <2>3, <2>4
  <1>3. CASE LockOutWriters(t)
    <2>1. ReadersCounted'  BY <1>3, CountKept DEF LockOutWriters, CountedPlaces
    <2>2. Rest'
      BY <1>3, ThreadAssumption
      DEF LockOutWriters, LockTypeOK, ReadMtxHeld, WriterHolds, ReadersHold, Places,
          UnderReadMtx, HoldingPlaces, CountedPlaces
    <2> QED  BY <2>1, <2>2
  <1>4. CASE BeginReading(t) \/ ReadUnlocked(t)
    <2>1. ReadersCounted'  BY <1>4, CountKept DEF BeginReading, ReadUnlocked, CountedPlaces
    <2>2. Rest'
      BY <1>4, ThreadAssumption
      DEF BeginReading, ReadUnlocked, LockTypeOK, ReadMtxHeld, WriterHolds, ReadersHold, Places,
          UnderReadMtx, HoldingPlaces, CountedPlaces
    <2> QED  BY <2>1, <2>2
  <1>5. CASE EndReading(t)
    <2>1. ReadersCounted'  BY <1>5, CountKept DEF EndReading, CountedPlaces
    <2>2. Rest'
      BY <1>5, ThreadAssumption
      DEF EndReading, LockTypeOK, ReadMtxHeld, WriterHolds, ReadersHold, Places,
          UnderReadMtx, HoldingPlaces, CountedPlaces
    <2> QED  BY <2>1, <2>2
  <1>6. CASE LeaveRead(t)
    <2>1. t \in Counted /\ Counted' = Counted \ {t}
      <3>1. at \in [Thread -> Places] /\ at' = [at EXCEPT ![t] = "readUnlocked"]
        BY <1>6 DEF LeaveRead, LockTypeOK
      <3>2. "readUnlocked" \notin CountedPlaces /\ at[t] \in CountedPlaces
        BY <1>6 DEF LeaveRead, CountedPlaces
      <3> QED  BY <3>1, <3>2, CountedAfter
    <2>2. Cardinality(Counted') = readCnt - 1 /\ readCnt - 1 \in Nat
      <3>1. Cardinality(Counted) # 0  BY <2>1, CountedIs, CountOfNone
      <3> QED  BY <2>1, <3>1, CountedIs, CountLeaves DEF ReadersCounted, LockTypeOK
    <2>3. readCnt - 1 = 0 => Counted' = {}
      BY <2>1, <2>2, CountedIs, CountOfOne DEF ReadersCounted, LockTypeOK
    <2>4. ReadersCounted'  BY <1>6, <2>2 DEF LeaveRead, ReadersCounted
    <2>5. LockTypeOK' /\ ReadMtxHeld'
      BY <1>6, <2>2, ThreadAssumption
      DEF LeaveRead, LockTypeOK, ReadMtxHeld, Places, UnderReadMtx
    <2>6. \A u \in Thread : at[u] # "writing" /\ at'[u] # "writing"
      BY <1>6, ThreadAssumption
      DEF LeaveRead, ReadersHold, LockTypeOK, HoldingPlaces, CountedPlaces
    <2>7. WriterHolds'  BY <2>6 DEF WriterHolds
    <2>8. CASE readCnt - 1 = 0
      <3>1. \A u \in Thread : at'[u] \notin HoldingPlaces
        BY <2>3, <2>8 DEF Counted, In, HoldingPlaces, CountedPlaces
      <3> QED  BY <2>4, <2>5, <2>7, <3>1 DEF ReadersHold
    <2>9. CASE readCnt - 1 # 0
      <3>1. ReadersHold'
        BY <1>6, <2>6, <2>9 DEF LeaveRead, ReadersHold, LockTypeOK, HoldingPlaces, CountedPlaces
      <3> QED  BY <2>4, <2>5, <2>7, <3>1
    <2> QED  BY <2>8, <2>9
  <1>7. CASE EnterWrite(t)
    <2>1. ReadersCounted'  BY <1>7, CountKept DEF EnterWrite, CountedPlaces
    <2>2. Rest'
      BY <1>7, ThreadAssumption
      DEF EnterWrite, LockTypeOK, ReadMtxHeld, WriterHolds, ReadersHold, Places,
          UnderReadMtx, HoldingPlaces, CountedPlaces
    <2> QED  BY <2>1, <2>2
  <1>8. CASE LeaveWrite(t)
    <2>1. ReadersCounted'  BY <1>8, CountKept DEF LeaveWrite, CountedPlaces
    <2>2. Rest'
      BY <1>8, ThreadAssumption
      DEF LeaveWrite, LockTypeOK, ReadMtxHeld, WriterHolds, ReadersHold, Places,
          UnderReadMtx, HoldingPlaces, CountedPlaces
    <2> QED  BY <2>1, <2>2
  <1> QED  BY <1>1, <1>2, <1>3, <1>4, <1>5, <1>6, <1>7, <1>8 DEF Step

\* In every state of readWriteLock the threads are where they hold what they must.
THEOREM LockInvariant == LockSpec => []LockInv
  BY LockInvInit, LockInvStep, PTL DEF LockSpec

\* readCnt is the number of the readers that have entered and not left.
THEOREM LockCounts == LockSpec => [](LockTypeOK /\ ReadersCounted)
  <1>1. LockInv => LockTypeOK /\ ReadersCounted  BY DEF LockInv
  <1> QED  BY <1>1, LockInvariant, PTL

LEMMA InvExcludes == LockInv => Exclusion
  <1> SUFFICES ASSUME LockInv PROVE Exclusion  OBVIOUS
  <1>1. Writers # {} => Readers = {}
    BY DEF LockInv, ReadersHold, Writers, Readers, Counted, In, HoldingPlaces, CountedPlaces
  <1>2. CASE Writers = {}  BY <1>1, <1>2, FS_EmptySet DEF Exclusion
  <1>3. CASE Writers # {}
    <2>1. PICK t \in Writers : Writers = {t}  BY <1>3 DEF LockInv, WriterHolds, Writers, In
    <2>2. Cardinality(Writers) = 1  BY <2>1, FS_Singleton
    <2> QED  BY <1>1, <2>2 DEF Exclusion
  <1> QED  BY <1>2, <1>3

\* Writers are alone, and readers are not with writers, for any number of threads.
THEOREM LockExcludes == LockSpec => []Exclusion
  BY LockInvariant, InvExcludes, PTL

-----------------------------------------------------------------------------
LEMMA WriterIs ==
  ASSUME LockInv
  PROVE  /\ \A t \in Writers : TheWriter = t /\ Writers = {t}
         /\ Writers = {} => TheWriter = Nobody
  BY DEF LockInv, WriterHolds, Writers, In, TheWriter

LEMMA WriterAfter ==
  ASSUME LockInv'
  PROVE  /\ \A t \in Writers' : TheWriter' = t /\ Writers' = {t}
         /\ Writers' = {} => TheWriter' = Nobody
  BY DEF LockInv, WriterHolds, Writers, In, TheWriter

LEMMA SameWriter ==
  ASSUME Writers' = Writers
  PROVE  TheWriter' = TheWriter
  BY DEF TheWriter

LEMMA LockStepImplements ==
  ASSUME LockInv, LockInv', [LockNext]_lockVars
  PROVE  [Abstract!Next]_<<Readers, TheWriter>>
  <1> USE DEF Goes, Readers, Writers, Counted, In
  <1>0. CASE UNCHANGED lockVars
    <2>1. Readers' = Readers /\ Writers' = Writers  BY <1>0 DEF lockVars
    <2> QED  BY <2>1, SameWriter
  <1> SUFFICES ASSUME NEW t \in Thread, Call(t) \/ Step(t)
               PROVE  [Abstract!Next]_<<Readers, TheWriter>>
    BY <1>0 DEF LockNext
  <1>a. at \in [Thread -> Places]  BY DEF LockInv, LockTypeOK
  <1>1. CASE Call(t) \/ BeginReading(t) \/ EndReading(t) \/ ReadUnlocked(t)
    <2>1. Readers' = Readers /\ Writers' = Writers
      BY <1>1, <1>a DEF Call, BeginReading, EndReading, ReadUnlocked
    <2> QED  BY <2>1, SameWriter
  <1>2. CASE EnterRead(t)
    <2>1. Writers' = Writers  BY <1>2, <1>a DEF EnterRead
    <2>2. CASE readCnt + 1 = 1
      <3>1. Readers' = Readers  BY <1>2, <1>a, <2>2 DEF EnterRead
      <3> QED  BY <2>1, <3>1, SameWriter
    <2>3. CASE readCnt + 1 # 1
      <3>1. Readers' = Readers \cup {t} /\ t \notin Readers
        BY <1>2, <1>a, <2>3 DEF EnterRead
      <3>2. t \in Readers'  BY <3>1
      <3>3. Writers' = {}
        BY <3>2 DEF LockInv, ReadersHold, HoldingPlaces, CountedPlaces
      <3>4. TheWriter = Nobody /\ TheWriter' = Nobody  BY <2>1, <3>3 DEF TheWriter
      <3> QED  BY <3>1, <3>4 DEF Abstract!Next, Abstract!BeginRead
    <2> QED  BY <2>2, <2>3
  <1>3. CASE LockOutWriters(t)
    <2>1. Readers' = Readers \cup {t} /\ t \notin Readers /\ Writers' = Writers
      BY <1>3, <1>a DEF LockOutWriters
    <2>2. Writers = {}
      BY <1>3, ThreadAssumption DEF LockOutWriters, LockInv, WriterHolds
    <2>3. TheWriter = Nobody /\ TheWriter' = Nobody  BY <2>1, <2>2 DEF TheWriter
    <2> QED  BY <2>1, <2>3 DEF Abstract!Next, Abstract!BeginRead
  <1>4. CASE LeaveRead(t)
    <2>1. Readers' = Readers \ {t} /\ t \in Readers /\ Writers' = Writers
      BY <1>4, <1>a DEF LeaveRead
    <2>2. TheWriter' = TheWriter  BY <2>1, SameWriter
    <2> QED  BY <2>1, <2>2 DEF Abstract!Next, Abstract!EndRead
  <1>5. CASE EnterWrite(t)
    <2>1. Readers' = Readers /\ t \in Writers'  BY <1>5, <1>a DEF EnterWrite
    <2>2. Writers = {} /\ Readers = {}
      BY <1>5, ThreadAssumption
      DEF EnterWrite, LockInv, WriterHolds, ReadersHold, HoldingPlaces, CountedPlaces
    <2>3. TheWriter = Nobody /\ TheWriter' = t  BY <2>1, <2>2, WriterIs, WriterAfter
    <2> QED  BY <2>1, <2>2, <2>3 DEF Abstract!Next, Abstract!BeginWrite
  <1>6. CASE LeaveWrite(t)
    <2>1. Readers' = Readers /\ t \in Writers /\ Writers' = Writers \ {t}
      BY <1>6, <1>a DEF LeaveWrite
    <2>2. TheWriter = t /\ Writers' = {}  BY <2>1, WriterIs
    <2>3. TheWriter' = Nobody  BY <2>2, WriterAfter
    <2> QED  BY <2>1, <2>2, <2>3 DEF Abstract!Next, Abstract!EndWrite
  <1> QED  BY <1>1, <1>2, <1>3, <1>4, <1>5, <1>6 DEF Step

\* readWriteLock implements the abstract lock: each of its steps begins or ends a reading or a
\* writing that the abstract lock allows, or changes nothing that it shows.
THEOREM LockImplements == LockSpec => ImplementsLock
  <1>1. LockInit => Abstract!Init
    BY DEF LockInit, Abstract!Init, Readers, Writers, Counted, In, TheWriter
  <1> QED
    BY <1>1, LockInvariant, LockStepImplements, PTL
    DEF LockSpec, ImplementsLock, Abstract!Spec
-----------------------------------------------------------------------------
(* The spin locks.                                                         *)

\* Exclusion, and that each try of spin_mutex expects the flag to be free.
SpinInv ==
    /\ flavour \in {"spin_mutex", "SpinLock"} /\ flag \in BOOLEAN
    /\ place \in [Spinner -> {"out", "try", "watch", "in"}]
    /\ expected \in [Spinner -> {FALSE}]
    /\ SpinExclusion

LEMMA SpinInvInit == SpinInit => SpinInv
  BY DEF SpinInit, SpinInv, SpinExclusion

LEMMA EnteringKeeps ==
  ASSUME SpinInv, NEW s \in Spinner, CompareSwaps(s) \/ tryLock(s)
  PROVE  SpinInv'
  <1>1. CASE flag
    <2>1. tryLock(s)
      BY <1>1, Zenon DEF CompareSwaps, SpinInv
    <2> QED  BY <1>1, <2>1 DEF tryLock, Moves, SpinInv, SpinExclusion
  <1>2. CASE ~flag
    <2>1. /\ flag' = TRUE
          /\ place' = [place EXCEPT ![s] = "in"]
          /\ UNCHANGED <<flavour, expected>>
      BY <1>2 DEF CompareSwaps, tryLock, Moves
    <2> QED  BY <1>2, <2>1 DEF SpinInv, SpinExclusion
  <1> QED  BY <1>1, <1>2

LEMMA OtherSpinStepsKeep ==
  ASSUME SpinInv, NEW s \in Spinner,
         BeginLock(s) \/ CompareFails(s) \/ SeesFree(s) \/ Unlock(s)
  PROVE  SpinInv'
  <1>1. CASE BeginLock(s) \/ CompareFails(s) \/ SeesFree(s)
    <2>1. /\ UNCHANGED <<flavour, flag>>
          /\ \/ place' = [place EXCEPT ![s] = "try"]
          /\ \/ expected' = [expected EXCEPT ![s] = FALSE]
             \/ expected' = expected
          /\ place[s] # "in"
      BY <1>1 DEF BeginLock, CompareFails, SeesFree, Moves
    <2> QED  BY <2>1 DEF SpinInv, SpinExclusion
  <1>2. CASE Unlock(s)
    BY <1>2 DEF Unlock, Moves, SpinInv, SpinExclusion
  <1> QED  BY <1>1, <1>2

\* One thread at a time has a spin_mutex or a SpinLock (mutex_utils 125-137, async_mutex.h
\* 36-66), for any number of threads.
THEOREM SpinExcludes == SpinSpec => []SpinExclusion
  <1>1. SpinInv /\ [SpinNext]_spinVars => SpinInv'
    <2>1. ASSUME SpinInv, NEW s \in Spinner, BeginLock(s) \/ Spins(s)
          PROVE  SpinInv'
      BY <2>1, EnteringKeeps, OtherSpinStepsKeep, Zenon DEF Spins
    <2>2. ASSUME SpinInv, UNCHANGED spinVars
          PROVE  SpinInv'
      <3>1. flavour' = flavour /\ flag' = flag /\ expected' = expected /\ place' = place
        BY <2>2 DEF spinVars
      <3> QED  BY <2>2, <3>1 DEF SpinInv, SpinExclusion
    <2> QED  BY <2>1, <2>2 DEF SpinNext
  <1>2. SpinInv => SpinExclusion  BY DEF SpinInv
  <1> QED  BY SpinInvInit, <1>1, <1>2, PTL DEF SpinSpec
-----------------------------------------------------------------------------
(* The semaphore: no post is lost, however many threads wait for it.       *)

SemInv == SemTypeOK /\ NoLostPost

LEMMA AwakeFinite ==
  ASSUME SemTypeOK
  PROVE  IsFiniteSet(Awake) /\ Cardinality(Awake) \in Nat
  <1>1. IsFiniteSet(Awake)
    <2>1. Awake \subseteq User  BY DEF SemTypeOK, Awake
    <2> QED  BY <2>1, UserAssumption, FS_Subset
  <1> QED  BY <1>1, FS_CardinalityType

\* One more thread is awake.
LEMMA OneMoreAwake ==
  ASSUME SemTypeOK, NEW t, t \notin Awake, Awake' = Awake \cup {t}
  PROVE  Cardinality(Awake') = Cardinality(Awake) + 1
  BY AwakeFinite, FS_AddElement

LEMMA SemInvInit == SemInit => SemInv
  BY DEF SemInit, SemInv, SemTypeOK, NoLostPost

LEMMA PostKeeps ==
  ASSUME SemInv, NEW n \in Amounts, post(n)
  PROVE  SemInv'
  <1> USE DEF SemInv
  <1>1. n \in Nat  BY AmountsAssumption
  <1>2. SemTypeOK'
    BY <1>1 DEF post, SemTypeOK, NotifyOne, NotifyAll
  <1>3. CASE n # 1 \/ condition = {}
    <2>1. condition' = {}  BY <1>3 DEF post, NotifyOne, NotifyAll
    <2> QED  BY <1>2, <2>1 DEF NoLostPost
  <1>4. CASE n = 1 /\ condition # {}
    <2>1. PICK t \in condition : condition' = condition \ {t}  BY <1>4 DEF post, NotifyOne
    <2>2. count' = count + 1 /\ inside' = inside  BY <1>4 DEF post
    <2>3. t \notin Awake /\ Awake' = Awake \cup {t}  BY <2>1, <2>2 DEF Awake, SemTypeOK
    <2>4. Cardinality(Awake') = Cardinality(Awake) + 1  BY <2>3, OneMoreAwake
    <2>5. count <= Cardinality(Awake)  BY <1>4 DEF NoLostPost
    <2>6. count' <= Cardinality(Awake')  BY <2>2, <2>4, <2>5, AwakeFinite DEF SemTypeOK
    <2> QED  BY <1>2, <2>6 DEF NoLostPost
  <1> QED  BY <1>3, <1>4

LEMMA WaitKeeps ==
  ASSUME SemInv, NEW t \in User, BeginWait(t) \/ Sleep(t) \/ Take(t) \/ Spurious(t)
  PROVE  SemInv'
  <1> USE DEF SemInv
  <1>0. Cardinality(Awake) \in Nat  BY AwakeFinite
  <1>1. CASE BeginWait(t) \/ Spurious(t)
    <2>1. SemTypeOK'  BY <1>1 DEF BeginWait, Spurious, SemTypeOK
    <2>2. t \notin Awake /\ Awake' = Awake \cup {t} /\ count' = count
      BY <1>1 DEF BeginWait, Spurious, Awake, SemTypeOK
    <2>3. Cardinality(Awake') = Cardinality(Awake) + 1  BY <2>2, OneMoreAwake
    <2>4. condition' \subseteq condition  BY <1>1 DEF BeginWait, Spurious
    <2>5. CASE condition = {}
      <3>1. condition' = {}  BY <2>4, <2>5
      <3> QED  BY <2>1, <3>1 DEF NoLostPost
    <2>6. CASE condition # {}
      <3>1. count <= Cardinality(Awake)  BY <2>6 DEF NoLostPost
      <3>2. count' <= Cardinality(Awake')  BY <1>0, <2>2, <2>3, <3>1 DEF SemTypeOK
      <3> QED  BY <2>1, <3>2 DEF NoLostPost
    <2> QED  BY <2>5, <2>6
  <1>2. CASE Sleep(t)
    <2>1. SemTypeOK' /\ count' = 0  BY <1>2 DEF Sleep, SemTypeOK
    <2>2. Cardinality(Awake') \in Nat
      <3>1. Awake' \subseteq User  BY <2>1 DEF SemTypeOK, Awake
      <3> QED  BY <3>1, UserAssumption, FS_Subset, FS_CardinalityType
    <2> QED  BY <2>1, <2>2 DEF NoLostPost
  <1>3. CASE Take(t)
    <2>1. t \in Awake /\ Awake' = Awake \ {t} /\ count' = count - 1 /\ condition' = condition
      BY <1>3 DEF Take, Awake
    <2>2. SemTypeOK'  BY <1>3 DEF Take, SemTypeOK
    <2>3. Cardinality(Awake') = Cardinality(Awake) - 1
      BY <2>1, AwakeFinite, FS_RemoveElement
    <2>4. CASE condition = {}  BY <2>1, <2>2, <2>4 DEF NoLostPost
    <2>5. CASE condition # {}
      <3>1. count <= Cardinality(Awake)  BY <2>5 DEF NoLostPost
      <3>2. count' <= Cardinality(Awake')  BY <1>0, <2>1, <2>3, <3>1 DEF SemTypeOK
      <3> QED  BY <2>2, <3>2 DEF NoLostPost
    <2> QED  BY <2>4, <2>5
  <1> QED  BY <1>1, <1>2, <1>3

LEMMA SemInvStep == SemInv /\ [SemNext]_semVars => SemInv'
  <1> SUFFICES ASSUME SemInv, [SemNext]_semVars PROVE SemInv'  OBVIOUS
  <1>1. CASE UNCHANGED semVars
    BY <1>1 DEF semVars, SemInv, SemTypeOK, NoLostPost, Awake
  <1>2. CASE \E n \in Amounts : post(n)  BY <1>2, PostKeeps
  <1>3. CASE \E t \in User : BeginWait(t) \/ Sleep(t) \/ Take(t) \/ Spurious(t)
    BY <1>3, WaitKeeps
  <1> QED  BY <1>1, <1>2, <1>3 DEF SemNext

LEMMA SemInvariant == SemSpec => []SemInv
  BY SemInvInit, SemInvStep, PTL DEF SemSpec

\* The count is never negative: no thread passes wait without a post of its own.
THEOREM SemTypeCorrect == SemSpec => []SemTypeOK
  <1>1. SemInv => SemTypeOK  BY DEF SemInv
  <1> QED  BY <1>1, SemInvariant, PTL

\* While threads sleep, every count has a thread that is awake and about to take it, though
\* post(1) notifies one thread only and a thread that never slept may take the count.
THEOREM NoPostLost == SemSpec => []NoLostPost
  <1>1. SemInv => NoLostPost  BY DEF SemInv
  <1> QED  BY <1>1, SemInvariant, PTL
=============================================================================
