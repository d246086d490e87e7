----------------------- MODULE BSThreadPoolProperties -----------------------
(***************************************************************************)
(* What makes BS::thread_pool correct.                                     *)
(***************************************************************************)
EXTENDS BSThreadPool

\* The type invariant.  tasks_running is a size_t: it must not go below zero.
TypeOK ==
    /\ tasks \in Seq(Task)
    /\ tasks_running \in Nat
    /\ waiting \in BOOLEAN
    /\ paused \in BOOLEAN
    /\ thread \in [Worker -> Threads]
    /\ doing \in [Worker -> Task \cup {NoTask}]
    /\ stop \in [Worker -> BOOLEAN]
    /\ available_cv \subseteq Worker
    /\ done_cv \subseteq Client
    /\ pc \in [Client -> Places]
    /\ was_paused \in BOOLEAN
    /\ submitted \subseteq Task
    /\ completed \subseteq Task
    /\ discarded \subseteq Task

\* tasks_running is what get_tasks_running and wait take it for: the number of
\* threads that run a task, or have not come to their first wait.
CountExact == tasks_running = Cardinality(Busy)

Queued == {tasks[i] : i \in DOMAIN tasks}
Doing == {doing[w] : w \in Worker} \ {NoTask}

\* No task is lost, run twice, run after it was purged, or purged while it runs:
\* a submitted task is in the queue once, on one thread, completed or discarded.
TaskOnce ==
    /\ submitted = Queued \cup Doing \cup completed \cup discarded
    /\ Queued \cap (Doing \cup completed \cup discarded) = {}
    /\ Doing \cap (completed \cup discarded) = {}
    /\ completed \cap discarded = {}
    /\ \A i, j \in DOMAIN tasks : tasks[i] = tasks[j] => i = j
    /\ \A v, w \in Worker : doing[v] = doing[w] /\ doing[v] # NoTask => v = w

Notified == {w \in Worker : thread[w] = "waiting" /\ w \notin available_cv}
Detaching == {c \in Client : pc[c] = "detach_task"}
Unpausing == {c \in Client : pc[c] = "unpause"}
Stopping == \E c \in Client : pc[c] \in {"reset_stop", "destroy_stop"}

\* No wake-up is lost: while a thread sleeps and tasks may be taken, every task
\* in the queue has a thread already notified for it, or a client about to
\* notify one.  (Not while reset or the destructor stops the threads.)
NoIdleWorker ==
    \/ paused \/ available_cv = {} \/ Unpausing # {} \/ Stopping
    \/ Len(tasks) <= Cardinality(Notified) + Cardinality(Detaching)

\* A client blocked in wait is known to the workers, which notify it only if
\* `waiting` is set (BS_thread_pool.hpp:2016: the flag says that wait() is
\* active and expects to be notified whenever a task is done).  With two waiters
\* it may not be: the one that returns clears the flag for both (line 1736), and
\* the other, if it wakes up to find a new task, sleeps without setting it again.
WaitingFlag == done_cv # {} => waiting

\* The destructor waits for all tasks to complete: when it has returned, every
\* task was run or purged, unless the pool was paused.
DestroyedDone ==
    (\E c \in Client : pc[c] = "gone") => paused \/ submitted = completed \cup discarded

-----------------------------------------------------------------------------
(* Under FairSpec.                                                          *)

\* A submitted task is in the end run, or purged, however often the pool is reset.
EveryTaskRuns == \A t \in Task : t \in submitted ~> t \in completed \cup discarded

\* A task that waited in the queue while the pool was reset is then executed by
\* the new threads (BS_thread_pool.hpp:1522), unless the pool is reset again.
RunAfterReset ==
    \A t \in Task :
        t \in submitted /\ ~Resetting ~> t \in completed \cup discarded \/ Resetting

\* wait returns: all tasks are completed at some time (BS_thread_pool.hpp:1715),
\* since each is submitted once.
WaitReturns == \A c \in Client : pc[c] = "wait" ~> pc[c] = "idle"

=============================================================================
