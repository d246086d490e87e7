------------------------------ MODULE TaskPool ------------------------------
(***************************************************************************)
(* The thread pool the Raft servers call each other through                *)
(* (test/raft/thread_pool.h, the build with coroutines): a queue of        *)
(* suspended coroutines, workers that resume them, and a destructor.       *)
(*                                                                         *)
(* put, take and destroy are critical sections of one mutex and notify     *)
(* inside it; m_cv is the set of the workers blocked on it.  A coroutine   *)
(* is a task.  The endless ones are the servers' Update loops and the      *)
(* Print loop; the destructor waits for every worker, so it does not       *)
(* return while one of them runs.                                          *)
(***************************************************************************)
EXTENDS Integers, Sequences, FiniteSets, SequencesExt

CONSTANTS
    PoolTask,
    EndlessTask,        \* the tasks that never return
    PoolWorker

ASSUME EndlessAssumption == EndlessTask \subseteq PoolTask
ASSUME PoolTaskAssumption == PoolTask \cap {"take", "ended"} = {}
\* Fewer loops than workers: the test asks for 100 threads for 11 loops at most.
ASSUME WorkersAssumption ==
    IsFiniteSet(PoolWorker) /\ Cardinality(EndlessTask) < Cardinality(PoolWorker)

VARIABLES
    m_queue,
    m_must_return_nullptr,
    m_cv,               \* the workers that wait in take
    task,               \* task[w]: what worker w runs, or where it is
    pool,               \* "open", "closing" (the destructor joins), "closed"
    run_tasks, destroyed   \* history: the tasks that returned; those destroyed unrun

poolVars == <<m_queue, m_must_return_nullptr, m_cv, task, pool, run_tasks, destroyed>>

PoolInit ==
    /\ m_queue = <<>>
    /\ m_must_return_nullptr = FALSE
    /\ m_cv = {}
    /\ task = [w \in PoolWorker |-> "take"]
    /\ pool = "open"
    /\ run_tasks = {}
    /\ destroyed = {}

Running(t) == \E w \in PoolWorker : task[w] = t
Submitted == {t \in PoolTask : Running(t)} \cup ToSet(m_queue) \cup run_tasks \cup destroyed

\* A slip: nobody is notified unless the queue was empty.
putIfFirst(t) ==
    /\ m_queue' = Append(m_queue, t)
    /\ IF m_cv = {} \/ m_queue # <<>> THEN UNCHANGED m_cv
       ELSE \E w \in m_cv : m_cv' = m_cv \ {w}

put(t) ==
    /\ m_queue' = Append(m_queue, t)
    /\ IF m_cv = {} THEN UNCHANGED m_cv
       ELSE \E w \in m_cv : m_cv' = m_cv \ {w}

\* submit, by the main thread until the destructor, and by a task that runs at any time.
submit(t) ==
    /\ t \notin Submitted
    /\ pool = "open" \/ \E w \in PoolWorker : task[w] \in PoolTask
    /\ put(t)
    /\ UNCHANGED <<m_must_return_nullptr, task, pool, run_tasks, destroyed>>

\* take finds nothing and blocks.
TakeBlocks(w) ==
    /\ task[w] = "take" /\ w \notin m_cv
    /\ ~m_must_return_nullptr /\ m_queue = <<>>
    /\ m_cv' = m_cv \cup {w}
    /\ UNCHANGED <<m_queue, m_must_return_nullptr, task, pool, run_tasks, destroyed>>

\* A slip: the task is copied, not taken out.
takeKeeps(w) ==
    /\ task[w] = "take" /\ w \notin m_cv
    /\ ~m_must_return_nullptr /\ m_queue # <<>>
    /\ task' = [task EXCEPT ![w] = Head(m_queue)]
    /\ UNCHANGED <<m_queue, m_must_return_nullptr, m_cv, pool, run_tasks, destroyed>>

take(w) ==
    /\ task[w] = "take" /\ w \notin m_cv
    /\ ~m_must_return_nullptr /\ m_queue # <<>>
    /\ task' = [task EXCEPT ![w] = Head(m_queue)]
    /\ m_queue' = Tail(m_queue)
    /\ UNCHANGED <<m_must_return_nullptr, m_cv, pool, run_tasks, destroyed>>

\* take returns no task although there may be some, and worker returns.
TakeEnds(w) ==
    /\ task[w] = "take" /\ w \notin m_cv
    /\ m_must_return_nullptr
    /\ task' = [task EXCEPT ![w] = "ended"]
    /\ UNCHANGED <<m_queue, m_must_return_nullptr, m_cv, pool, run_tasks, destroyed>>

SpuriousTake(w) ==
    /\ w \in m_cv
    /\ m_cv' = m_cv \ {w}
    /\ UNCHANGED <<m_queue, m_must_return_nullptr, task, pool, run_tasks, destroyed>>

\* The coroutine comes to its end.
TaskReturns(w) ==
    /\ task[w] \in PoolTask \ EndlessTask
    /\ run_tasks' = run_tasks \cup {task[w]}
    /\ task' = [task EXCEPT ![w] = "take"]
    /\ UNCHANGED <<m_queue, m_must_return_nullptr, m_cv, pool, destroyed>>

\* A slip: one worker is notified and not all.
destroyNotifiesOne ==
    /\ pool = "open"
    /\ pool' = "closing"
    /\ m_must_return_nullptr' = TRUE
    /\ IF m_cv = {} THEN UNCHANGED m_cv ELSE \E w \in m_cv : m_cv' = m_cv \ {w}
    /\ UNCHANGED <<m_queue, task, run_tasks, destroyed>>

destroy ==
    /\ pool = "open"
    /\ pool' = "closing"
    /\ m_must_return_nullptr' = TRUE
    /\ m_cv' = {}
    /\ UNCHANGED <<m_queue, task, run_tasks, destroyed>>

\* All workers are joined: the destructor destroys what is left in the queue.
Close ==
    /\ pool = "closing" /\ \A w \in PoolWorker : task[w] = "ended"
    /\ pool' = "closed"
    /\ destroyed' = ToSet(m_queue)
    /\ m_queue' = <<>>
    /\ UNCHANGED <<m_must_return_nullptr, m_cv, task, run_tasks>>

WorkerGoesOn(w) == TakeBlocks(w) \/ take(w) \/ TakeEnds(w) \/ TaskReturns(w)

PoolNext ==
    \/ \E t \in PoolTask : submit(t)
    \/ \E w \in PoolWorker : WorkerGoesOn(w) \/ SpuriousTake(w)
    \/ destroy \/ Close

PoolFairness == WF_poolVars(Close) /\ \A w \in PoolWorker : WF_poolVars(WorkerGoesOn(w))

PoolSpec == PoolInit /\ [][PoolNext]_poolVars

-----------------------------------------------------------------------------
\* A task is run once or destroyed once, never both and never twice, also one that a task
\* submits while the destructor waits.
PoolTaskOnce ==
    /\ IsInjective(m_queue)
    /\ \A v, w \in PoolWorker : task[v] = task[w] /\ task[v] \in PoolTask => v = w
    /\ \A t \in PoolTask :
           Cardinality({p \in {"queued", "running", "run", "destroyed"} :
                           CASE p = "queued" -> t \in ToSet(m_queue)
                             [] p = "running" -> Running(t)
                             [] p = "run" -> t \in run_tasks
                             [] OTHER -> t \in destroyed}) <= 1

\* A task that was put is taken unless the pool is closed: no wake-up is lost, though the queue
\* takes tasks while workers are awake, and endless tasks keep workers for themselves.
PutIsTaken == \A t \in PoolTask : (t \in ToSet(m_queue)) ~> (t \notin ToSet(m_queue) \/ pool # "open")

\* The destructor returns if no endless task runs when it begins, though take leaves tasks in
\* the queue (line 153 joins every worker).
CloseReturns ==
    (pool = "closing" /\ \A t \in EndlessTask : ~Running(t)) ~> (pool = "closed")
=============================================================================
