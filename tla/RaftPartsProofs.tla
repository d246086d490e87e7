--------------------------- MODULE RaftPartsProofs ---------------------------
(* What the Raft servers rest on: one object for each id, for any ids and any *)
(* number of objects; and each task of their pool in one place, for any tasks *)
(* and workers.                                                               *)
EXTENDS ObjFactory, TaskPool, FiniteSetTheorems, SequenceTheorems, TLAPS

\* An object that is alive is the one its id leads to.
AliveAreFound == \A o \in Object : refs[o] > 0 => m_map[key[o]] = o /\ life[o] = "made"

\* An id leads to an object of that id that is not deleted.
EntriesAreMade ==
    \A id \in Id : m_map[id] # NoObject => key[m_map[id]] = id /\ life[m_map[id]] = "made"

SetIsDomain == m_set = {id \in Id : m_map[id] # NoObject}

FactoryInv == FactoryTypeOK /\ AliveAreFound /\ EntriesAreMade /\ SetIsDomain

LEMMA ObjectFacts == NoObject \notin Object /\ Object \subseteq Nat
  BY ObjectsAssumption DEF NoObject, Object

LEMMA FactoryInvInit == FactoryInit => FactoryInv
  <1> SUFFICES ASSUME FactoryInit PROVE FactoryInv  OBVIOUS
  <1>1. (CHOOSE id \in Id : TRUE) \in Id  BY IdAssumption
  <1> QED
    BY <1>1, ObjectFacts
    DEF FactoryInit, FactoryInv, FactoryTypeOK, AliveAreFound, EntriesAreMade, SetIsDomain

LEMMA GetKeeps ==
  ASSUME FactoryInv, NEW id \in Id, GetThere(id) \/ GetNew(id)
  PROVE  FactoryInv'
  <1> USE ObjectFacts DEF FactoryInv
  <1>1. CASE GetThere(id)
    <2>1. m_map[id] \in Object /\ refs[m_map[id]] > 0  BY <1>1 DEF GetThere, expired, Alive
    <2>2. FactoryTypeOK'
      <3>0. refs[m_map[id]] \in Nat  BY <2>1 DEF FactoryTypeOK
      <3>1. refs[m_map[id]] + 1 \in Nat  BY ONLY <3>0
      <3>2. refs' \in [Object -> Nat]  BY <1>1, <2>1, <3>1 DEF GetThere, FactoryTypeOK
      <3> QED  BY <1>1, <3>2 DEF GetThere, FactoryTypeOK
    <2>3. AliveAreFound'
      BY <1>1, <2>1 DEF GetThere, FactoryTypeOK, AliveAreFound
    <2> QED  BY <1>1, <2>2, <2>3 DEF GetThere, EntriesAreMade, SetIsDomain
  <1>2. CASE GetNew(id)
    <2>1. PICK o \in Object :
              /\ life[o] = "unmade"
              /\ life' = [life EXCEPT ![o] = "made"]
              /\ key' = [key EXCEPT ![o] = id]
              /\ refs' = [refs EXCEPT ![o] = 1]
              /\ m_map' = [m_map EXCEPT ![id] = o]
      BY <1>2 DEF GetNew
    <2>2. FactoryTypeOK'  BY <1>2, <2>1 DEF GetNew, FactoryTypeOK
    <2>3. \A p \in Object : refs[p] > 0 => key[p] # id /\ p # o
      BY <1>2, <2>1 DEF GetNew, expired, Alive, AliveAreFound, FactoryTypeOK
    <2>4. AliveAreFound'
      BY <2>1, <2>3 DEF FactoryTypeOK, AliveAreFound
    <2>5. EntriesAreMade'
      BY <2>1 DEF FactoryTypeOK, EntriesAreMade
    <2>6. SetIsDomain'  BY <1>2, <2>1 DEF GetNew, FactoryTypeOK, SetIsDomain
    <2> QED  BY <2>2, <2>4, <2>5, <2>6
  <1> QED  BY <1>1, <1>2

LEMMA ReleaseKeeps ==
  ASSUME FactoryInv, NEW o \in Object, Release(o)
  PROVE  FactoryInv'
  BY ObjectFacts
  DEF Release, FactoryInv, FactoryTypeOK, AliveAreFound, EntriesAreMade, SetIsDomain

LEMMA RemoveObjKeeps ==
  ASSUME FactoryInv, NEW o \in Object, RemoveObj(o)
  PROVE  FactoryInv'
  <1> USE ObjectFacts DEF FactoryInv
  <1>1. refs[o] = 0 /\ life' = [life EXCEPT ![o] = "deleted"] /\ UNCHANGED <<key, refs>>
    BY DEF RemoveObj
  <1>2. key[o] \in Id  BY DEF FactoryTypeOK
  <1>3. CASE m_map[key[o]] # NoObject /\ expired(m_map[key[o]])
    <2>1. m_map' = [m_map EXCEPT ![key[o]] = NoObject] /\ m_set' = m_set \ {key[o]}
      BY <1>3 DEF RemoveObj
    <2>2. FactoryTypeOK' /\ SetIsDomain'  BY <1>1, <1>2, <2>1 DEF FactoryTypeOK, SetIsDomain
    <2>3. AliveAreFound'
      <3> SUFFICES ASSUME NEW p \in Object, refs[p] > 0
                   PROVE  m_map'[key[p]] = p /\ life'[p] = "made"
        BY <1>1 DEF AliveAreFound
      <3>1. p # o /\ m_map[key[p]] = p /\ life[p] = "made"  BY <1>1 DEF AliveAreFound
      <3>2. key[p] # key[o]  BY <1>3, <3>1 DEF expired, Alive
      <3> QED  BY <1>1, <2>1, <3>1, <3>2 DEF FactoryTypeOK
    <2>4. EntriesAreMade'
      <3> SUFFICES ASSUME NEW id \in Id, m_map'[id] # NoObject
                   PROVE  key[m_map'[id]] = id /\ life'[m_map'[id]] = "made"
        BY <1>1 DEF EntriesAreMade
      <3>1. id # key[o] /\ m_map'[id] = m_map[id]  BY <1>2, <2>1 DEF FactoryTypeOK
      <3>2. key[m_map[id]] = id /\ life[m_map[id]] = "made"  BY <3>1 DEF EntriesAreMade
      <3> QED  BY <1>1, <3>1, <3>2 DEF FactoryTypeOK
    <2> QED  BY <2>2, <2>3, <2>4
  <1>4. CASE ~(m_map[key[o]] # NoObject /\ expired(m_map[key[o]]))
    <2>1. UNCHANGED <<m_map, m_set>>  BY <1>4 DEF RemoveObj
    <2>2. \A id \in Id : m_map[id] # o
      BY <1>1, <1>4 DEF EntriesAreMade, expired, Alive
    <2>3. FactoryTypeOK' /\ SetIsDomain' /\ AliveAreFound'
      BY <1>1, <2>1 DEF FactoryTypeOK, SetIsDomain, AliveAreFound
    <2>4. EntriesAreMade'  BY <1>1, <2>1, <2>2 DEF FactoryTypeOK, EntriesAreMade
    <2> QED  BY <2>3, <2>4
  <1> QED  BY <1>3, <1>4

LEMMA FactoryInvStep == FactoryInv /\ [FactoryNext]_factoryVars => FactoryInv'
  <1> SUFFICES ASSUME FactoryInv, [FactoryNext]_factoryVars PROVE FactoryInv'  OBVIOUS
  <1>1. CASE UNCHANGED factoryVars
    BY <1>1
    DEF factoryVars, FactoryInv, FactoryTypeOK, AliveAreFound, EntriesAreMade, SetIsDomain
  <1>2. CASE FactoryNext
    BY <1>2, GetKeeps, ReleaseKeeps, RemoveObjKeeps DEF FactoryNext
  <1> QED  BY <1>1, <1>2

\* The map leads to every object that is alive, and to none that is deleted.
THEOREM FactoryInvariant == FactorySpec => []FactoryInv
  BY FactoryInvInit, FactoryInvStep, PTL DEF FactorySpec

\* No two objects of one id are alive, though an object is replaced before it is removed.
THEOREM OneAliveHolds == FactorySpec => []OneAlive
  <1>1. FactoryInv => OneAlive  BY DEF FactoryInv, AliveAreFound, OneAlive, Alive
  <1> QED  BY <1>1, FactoryInvariant, PTL

\* The ids that are handed out are those of the objects alive, or expired and not yet removed.
THEOREM KeysAreTheirsHolds == FactorySpec => []KeysAreTheirs
  <1>1. FactoryInv => KeysAreTheirs
    BY ObjectFacts
    DEF FactoryInv, FactoryTypeOK, AliveAreFound, EntriesAreMade, SetIsDomain, KeysAreTheirs,
        Alive, Dying
  <1> QED  BY <1>1, FactoryInvariant, PTL

-----------------------------------------------------------------------------
(* The pool.                                                               *)

PoolTypeOK ==
    /\ m_queue \in Seq(PoolTask)
    /\ m_cv \subseteq PoolWorker
    /\ task \in [PoolWorker -> PoolTask \cup {"take", "ended"}]
    /\ pool \in {"open", "closing", "closed"}
    /\ run_tasks \subseteq PoolTask /\ destroyed \subseteq PoolTask

Queued == ToSet(m_queue)
RunningNow == {t \in PoolTask : Running(t)}

\* A task is in one place, and there once.
Apart ==
    /\ \A i, j \in DOMAIN m_queue : m_queue[i] = m_queue[j] => i = j
    /\ \A v, w \in PoolWorker : task[v] = task[w] /\ task[v] \in PoolTask => v = w
    /\ Queued \cap RunningNow = {} /\ Queued \cap run_tasks = {}
    /\ RunningNow \cap run_tasks = {}
    /\ destroyed \cap (Queued \cup RunningNow \cup run_tasks) = {}

\* Nothing is destroyed until all workers have ended, and nobody submits after that.
DestroyedLast ==
    /\ destroyed # {} => pool = "closed"
    /\ pool = "closed" => \A w \in PoolWorker : task[w] = "ended"

PoolInv == PoolTypeOK /\ Apart /\ DestroyedLast

LEMMA PoolInvInit == PoolInit => PoolInv
  <1> SUFFICES ASSUME PoolInit PROVE PoolInv  OBVIOUS
  <1>1. m_queue = <<>> /\ m_queue \in Seq(PoolTask) /\ DOMAIN m_queue = {}
    BY DEF PoolInit
  <1>2. Queued = {}  BY <1>1 DEF Queued, ToSet
  <1>3. RunningNow = {}  BY PoolTaskAssumption DEF PoolInit, RunningNow, Running
  <1>4. PoolTypeOK  BY <1>1 DEF PoolInit, PoolTypeOK
  <1>5. Apart  BY <1>1, <1>2, <1>3, PoolTaskAssumption DEF PoolInit, Apart
  <1>6. DestroyedLast  BY DEF PoolInit, DestroyedLast
  <1> QED  BY <1>4, <1>5, <1>6 DEF PoolInv

\* A task joins the queue at its end.
LEMMA Joins ==
  ASSUME NEW q \in Seq(PoolTask), NEW t \in PoolTask, t \notin ToSet(q),
         \A i, j \in DOMAIN q : q[i] = q[j] => i = j
  PROVE  /\ Append(q, t) \in Seq(PoolTask)
         /\ ToSet(Append(q, t)) = ToSet(q) \cup {t}
         /\ \A i, j \in DOMAIN Append(q, t) : Append(q, t)[i] = Append(q, t)[j] => i = j
  <1> DEFINE new == Append(q, t)
  <1>1. /\ new \in Seq(PoolTask) /\ Len(q) \in Nat /\ DOMAIN q = 1..Len(q)
        /\ DOMAIN new = 1..Len(q) + 1
        /\ \A i \in DOMAIN q : new[i] = q[i]
        /\ new[Len(q) + 1] = t
    OBVIOUS
  <1>2. \A i \in DOMAIN q : q[i] # t  BY DEF ToSet
  <1>3. ToSet(new) = ToSet(q) \cup {t}  BY <1>1 DEF ToSet
  <1>4. \A i, j \in DOMAIN new : new[i] = new[j] => i = j  BY <1>1, <1>2
  <1> QED  BY <1>1, <1>3, <1>4

\* The task at the head leaves it.
LEMMA Leaves ==
  ASSUME NEW q \in Seq(PoolTask), q # <<>>,
         \A i, j \in DOMAIN q : q[i] = q[j] => i = j
  PROVE  /\ Head(q) \in ToSet(q) /\ Tail(q) \in Seq(PoolTask)
         /\ ToSet(Tail(q)) = ToSet(q) \ {Head(q)}
         /\ \A i, j \in DOMAIN Tail(q) : Tail(q)[i] = Tail(q)[j] => i = j
  <1>1. /\ Len(q) \in Nat \ {0} /\ DOMAIN q = 1..Len(q) /\ Head(q) = q[1]
        /\ Tail(q) \in Seq(PoolTask) /\ DOMAIN Tail(q) = 1..Len(q) - 1
        /\ \A i \in 1..Len(q) - 1 : Tail(q)[i] = q[i + 1]
    <2>1. Tail(q) \in Seq(PoolTask) /\ Len(Tail(q)) = Len(q) - 1  BY HeadTailProperties
    <2>2. Len(q) \in Nat \ {0}  BY EmptySeq
    <2> QED  BY <2>1, <2>2
  <1>2. ASSUME NEW i \in DOMAIN Tail(q) PROVE Tail(q)[i] \in ToSet(q) \ {Head(q)}
    BY <1>1 DEF ToSet
  <1>3. ASSUME NEW k \in DOMAIN q, q[k] # Head(q) PROVE q[k] \in ToSet(Tail(q))
    <2>1. k - 1 \in DOMAIN Tail(q) /\ Tail(q)[k - 1] = q[k]  BY <1>1, <1>3
    <2> QED  BY <2>1 DEF ToSet
  <1>4. ToSet(Tail(q)) = ToSet(q) \ {Head(q)}  BY <1>2, <1>3 DEF ToSet
  <1>5. \A i, j \in DOMAIN Tail(q) : Tail(q)[i] = Tail(q)[j] => i = j  BY <1>1
  <1>6. Head(q) \in ToSet(q)  BY <1>1 DEF ToSet
  <1> QED  BY <1>1, <1>4, <1>5, <1>6

\* One worker changes its place.
LEMMA TaskMoves ==
  ASSUME PoolTypeOK, NEW w \in PoolWorker, NEW p \in PoolTask \cup {"take", "ended"},
         task' = [task EXCEPT ![w] = p], Apart, p \notin RunningNow
  PROVE  /\ task' \in [PoolWorker -> PoolTask \cup {"take", "ended"}]
         /\ RunningNow' = (RunningNow \ {task[w]}) \cup ({p} \cap PoolTask)
         /\ \A u, v \in PoolWorker : task'[u] = task'[v] /\ task'[u] \in PoolTask => u = v
  <1>1. \A v \in PoolWorker : task[v] \in PoolTask => task[v] \in RunningNow
    BY DEF RunningNow, Running
  <1>2. task' \in [PoolWorker -> PoolTask \cup {"take", "ended"}]  BY DEF PoolTypeOK
  <1>3. \A v \in PoolWorker : task'[v] = IF v = w THEN p ELSE task[v]  BY DEF PoolTypeOK
  <1>4. ASSUME NEW t \in PoolTask
        PROVE  t \in RunningNow' <=> t \in (RunningNow \ {task[w]}) \cup ({p} \cap PoolTask)
    BY <1>3 DEF RunningNow, Running, Apart
  <1>5. \A u, v \in PoolWorker : task'[u] = task'[v] /\ task'[u] \in PoolTask => u = v
    BY <1>1, <1>3 DEF Apart
  <1> QED  BY <1>2, <1>4, <1>5 DEF RunningNow

LEMMA PoolInvStep == PoolInv /\ [PoolNext]_poolVars => PoolInv'
  <1> SUFFICES ASSUME PoolInv, [PoolNext]_poolVars PROVE PoolInv'  OBVIOUS
  <1>1. PoolTypeOK /\ Apart /\ DestroyedLast  BY DEF PoolInv
  <1>2. ASSUME NEW t \in PoolTask, submit(t) PROVE PoolInv'
    <2>1. /\ m_queue' = Append(m_queue, t) /\ m_cv' \subseteq m_cv
          /\ UNCHANGED <<task, pool, run_tasks, destroyed>>
      BY <1>2 DEF submit, put
    <2>2. t \notin Queued \cup RunningNow \cup run_tasks \cup destroyed
      BY <1>2 DEF submit, Submitted, Queued, RunningNow
    <2>3. /\ m_queue' \in Seq(PoolTask) /\ Queued' = Queued \cup {t}
          /\ \A i, j \in DOMAIN m_queue' : m_queue'[i] = m_queue'[j] => i = j
      BY <1>1, <2>1, <2>2, Joins DEF PoolTypeOK, Apart, Queued
    <2>4. RunningNow' = RunningNow  BY <2>1 DEF RunningNow, Running
    <2>5. Apart'  BY <1>1, <2>1, <2>2, <2>3, <2>4 DEF Apart
    <2> QED  BY <1>1, <2>1, <2>3, <2>5 DEF PoolInv, PoolTypeOK, DestroyedLast
  <1>3. ASSUME NEW w \in PoolWorker, TakeBlocks(w) \/ SpuriousTake(w) PROVE PoolInv'
    BY <1>1, <1>3 DEF TakeBlocks, SpuriousTake, PoolInv, PoolTypeOK, Apart, DestroyedLast,
                      Queued, RunningNow, Running
  <1>4. ASSUME NEW w \in PoolWorker, take(w) PROVE PoolInv'
    <2>1. /\ m_queue # <<>> /\ task[w] = "take" /\ m_queue' = Tail(m_queue)
          /\ task' = [task EXCEPT ![w] = Head(m_queue)]
          /\ UNCHANGED <<m_cv, pool, run_tasks, destroyed>>
      BY <1>4 DEF take
    <2>2. /\ Head(m_queue) \in Queued /\ m_queue' \in Seq(PoolTask)
          /\ Queued' = Queued \ {Head(m_queue)}
          /\ \A i, j \in DOMAIN m_queue' : m_queue'[i] = m_queue'[j] => i = j
      BY <1>1, <2>1, Leaves DEF PoolTypeOK, Apart, Queued
    <2>3. Head(m_queue) \in PoolTask  BY <1>1, <2>1, HeadTailProperties DEF PoolTypeOK
    <2>4. Head(m_queue) \notin RunningNow \cup run_tasks \cup destroyed
      BY <1>1, <2>2 DEF Apart
    <2>5. /\ task' \in [PoolWorker -> PoolTask \cup {"take", "ended"}]
          /\ RunningNow' = (RunningNow \ {task[w]}) \cup ({Head(m_queue)} \cap PoolTask)
          /\ \A u, v \in PoolWorker : task'[u] = task'[v] /\ task'[u] \in PoolTask => u = v
      BY <1>1, <2>1, <2>3, <2>4, TaskMoves
    <2>6. Apart'
      <3>1. RunningNow' \subseteq RunningNow \cup {Head(m_queue)}  BY <2>5
      <3> QED  BY <1>1, <2>1, <2>2, <2>4, <2>5, <3>1 DEF Apart
    <2>7. DestroyedLast'  BY <1>1, <2>1 DEF DestroyedLast
    <2> QED  BY <1>1, <2>1, <2>2, <2>5, <2>6, <2>7 DEF PoolInv, PoolTypeOK
  <1>5. ASSUME NEW w \in PoolWorker, TakeEnds(w) PROVE PoolInv'
    <2>1. /\ task[w] = "take" /\ task' = [task EXCEPT ![w] = "ended"]
          /\ UNCHANGED <<m_queue, m_cv, pool, run_tasks, destroyed>>
      BY <1>5 DEF TakeEnds
    <2>2. "ended" \notin RunningNow /\ {"ended"} \cap PoolTask = {}
      BY PoolTaskAssumption DEF RunningNow
    <2>3. /\ task' \in [PoolWorker -> PoolTask \cup {"take", "ended"}]
          /\ RunningNow' \subseteq RunningNow
          /\ \A u, v \in PoolWorker : task'[u] = task'[v] /\ task'[u] \in PoolTask => u = v
      <3>1. /\ task' \in [PoolWorker -> PoolTask \cup {"take", "ended"}]
            /\ RunningNow' = (RunningNow \ {task[w]}) \cup ({"ended"} \cap PoolTask)
            /\ \A u, v \in PoolWorker : task'[u] = task'[v] /\ task'[u] \in PoolTask => u = v
        <4>1. "ended" \in PoolTask \cup {"take", "ended"}  OBVIOUS
        <4> QED  BY <1>1, <2>1, <2>2, <4>1, TaskMoves
      <3> QED  BY <3>1, <2>2
    <2>4. Queued' = Queued  BY <2>1 DEF Queued
    <2>5. Apart'  BY <1>1, <2>1, <2>3, <2>4 DEF Apart
    <2>6. DestroyedLast'  BY <1>1, <2>1 DEF DestroyedLast, PoolTypeOK
    <2> QED  BY <1>1, <2>1, <2>3, <2>5, <2>6 DEF PoolInv, PoolTypeOK
  <1>6. ASSUME NEW w \in PoolWorker, TaskReturns(w) PROVE PoolInv'
    <2>1. /\ task[w] \in PoolTask /\ run_tasks' = run_tasks \cup {task[w]}
          /\ task' = [task EXCEPT ![w] = "take"]
          /\ UNCHANGED <<m_queue, m_cv, pool, destroyed>>
      BY <1>6 DEF TaskReturns
    <2>2. "take" \notin RunningNow /\ {"take"} \cap PoolTask = {}
      BY PoolTaskAssumption DEF RunningNow
    <2>3. /\ task' \in [PoolWorker -> PoolTask \cup {"take", "ended"}]
          /\ RunningNow' = RunningNow \ {task[w]}
          /\ \A u, v \in PoolWorker : task'[u] = task'[v] /\ task'[u] \in PoolTask => u = v
      <3>1. /\ task' \in [PoolWorker -> PoolTask \cup {"take", "ended"}]
            /\ RunningNow' = (RunningNow \ {task[w]}) \cup ({"take"} \cap PoolTask)
            /\ \A u, v \in PoolWorker : task'[u] = task'[v] /\ task'[u] \in PoolTask => u = v
        <4>1. "take" \in PoolTask \cup {"take", "ended"}  OBVIOUS
        <4> QED  BY <1>1, <2>1, <2>2, <4>1, TaskMoves
      <3> QED  BY <3>1, <2>2
    <2>4. Queued' = Queued  BY <2>1 DEF Queued
    <2>5. task[w] \in RunningNow  BY <2>1 DEF RunningNow, Running
    <2>6. Apart'  BY <1>1, <2>1, <2>3, <2>4, <2>5 DEF Apart
    <2>7. DestroyedLast'  BY <1>1, <2>1, PoolTaskAssumption DEF DestroyedLast
    <2> QED  BY <1>1, <2>1, <2>3, <2>6, <2>7 DEF PoolInv, PoolTypeOK
  <1>7. CASE destroy
    BY <1>1, <1>7 DEF destroy, PoolInv, PoolTypeOK, Apart, DestroyedLast, Queued, RunningNow, Running
  <1>8. CASE Close
    <2>1. /\ destroyed' = Queued /\ m_queue' = <<>> /\ pool' = "closed"
          /\ \A w \in PoolWorker : task[w] = "ended"
          /\ UNCHANGED <<m_cv, task, run_tasks>>
      BY <1>8 DEF Close, Queued
    <2>2. Queued \subseteq PoolTask  BY <1>1 DEF Queued, ToSet, PoolTypeOK
    <2>3. m_queue' \in Seq(PoolTask) /\ Queued' = {} /\ DOMAIN m_queue' = {}
      BY <2>1 DEF Queued, ToSet
    <2>4. RunningNow' = RunningNow  BY <2>1 DEF RunningNow, Running
    <2>5. Apart'  BY <1>1, <2>1, <2>3, <2>4 DEF Apart
    <2> QED  BY <1>1, <2>1, <2>2, <2>3, <2>5 DEF PoolInv, PoolTypeOK, DestroyedLast
  <1>9. CASE UNCHANGED poolVars
    BY <1>1, <1>9 DEF poolVars, PoolInv, PoolTypeOK, Apart, DestroyedLast, Queued, RunningNow, Running
  <1> QED  BY <1>2, <1>3, <1>4, <1>5, <1>6, <1>7, <1>8, <1>9 DEF PoolNext, WorkerGoesOn

\* What PoolTaskOnce counts.
LEMMA PoolInvOnce == PoolInv => PoolTaskOnce
  <1> SUFFICES ASSUME PoolInv PROVE PoolTaskOnce  OBVIOUS
  <1>1. PoolTypeOK /\ Apart  BY DEF PoolInv
  <1>2. IsInjective(m_queue)  BY <1>1 DEF Apart, IsInjective
  <1>3. ASSUME NEW t \in PoolTask
        PROVE  Cardinality({p \in {"queued", "running", "run", "destroyed"} :
                               CASE p = "queued" -> t \in ToSet(m_queue)
                                 [] p = "running" -> Running(t)
                                 [] p = "run" -> t \in run_tasks
                                 [] OTHER -> t \in destroyed}) <= 1
    <2> DEFINE places == {p \in {"queued", "running", "run", "destroyed"} :
                             CASE p = "queued" -> t \in ToSet(m_queue)
                               [] p = "running" -> Running(t)
                               [] p = "run" -> t \in run_tasks
                               [] OTHER -> t \in destroyed}
    <2>1. /\ "queued" \in places => t \in Queued
          /\ "running" \in places => t \in RunningNow
          /\ "run" \in places => t \in run_tasks
          /\ "destroyed" \in places => t \in destroyed
      BY DEF Queued, RunningNow
    <2>2. places \subseteq {"queued", "running", "run", "destroyed"}  OBVIOUS
    <2> HIDE DEF places
    <2>3. \A p, q \in places : p = q  BY <1>1, <2>1, <2>2 DEF Apart
    <2>4. places = {} \/ \E p : places = {p}  BY <2>3
    <2>5. Cardinality(places) <= 1  BY <2>4, FS_EmptySet, FS_Singleton
    <2> QED  BY <2>5 DEF places
  <1> QED  BY <1>1, <1>2, <1>3 DEF PoolTaskOnce, Apart

\* A task submitted to the pool is never run twice, nor run and destroyed, whatever the workers
\* and the destructor are doing (thread_pool.h:44 to 67, 148 to 163).
THEOREM PoolTaskOnceHolds == PoolSpec => []PoolTaskOnce
  <1>1. PoolInit => PoolInv  BY PoolInvInit
  <1>2. PoolInv /\ [PoolNext]_poolVars => PoolInv'  BY PoolInvStep
  <1>3. PoolInv => PoolTaskOnce  BY PoolInvOnce
  <1> QED  BY <1>1, <1>2, <1>3, PTL DEF PoolSpec
=============================================================================
