---------------------------- MODULE BSThreadPool ----------------------------
(***************************************************************************)
(* BS::thread_pool (src/common/thread_pool/BS_thread_pool.hpp): a queue of *)
(* tasks, the worker threads that run them, and the client threads that    *)
(* submit tasks, pause, purge, wait, reset the pool and destroy it.        *)
(*                                                                         *)
(* Everything happens in critical sections of one mutex, tasks_mutex: one  *)
(* critical section is one action, and what a method does before or after  *)
(* it (a notification, the stop of a thread) is another.  A condition      *)
(* variable is the set of the threads blocked on it; a notified thread     *)
(* leaves the set and evaluates its predicate again when it has the mutex. *)
(* The build modelled is the project's (C++23): the threads are jthreads.  *)
(***************************************************************************)
EXTENDS Integers, Sequences, FiniteSets

CONSTANTS
    Client,         \* the threads that use the pool
    Waiter,         \* those of them that may call wait, wait_for, reset and the destructor
    Task,           \* the tasks, each submitted at most once
    NoTask,         \* what a worker does before its first task
    MaxThreads,     \* bound: the largest thread_count
    FirstThreads,   \* the thread_count the pool is constructed with
    PauseEnabled,   \* the flag tp::pause of the template parameter
    Calls           \* the member functions the clients call

AllCalls == {"detach_task", "pause", "unpause", "purge", "wait", "wait_for", "reset", "destroy"}

ASSUME ClientAssumption == IsFiniteSet(Client) /\ Waiter \subseteq Client
ASSUME TaskAssumption == NoTask \notin Task
ASSUME ThreadsAssumption == MaxThreads \in Nat /\ FirstThreads \in 1..MaxThreads
ASSUME CallsAssumption == PauseEnabled \in BOOLEAN /\ Calls \subseteq AllCalls

Worker == 0..MaxThreads - 1

VARIABLES
    tasks,          \* the queue
    tasks_running,
    waiting,
    paused,
    thread,         \* threads[w]: not there, running code, in the wait for tasks, at its end
    doing,          \* the task a busy thread runs
    stop,           \* stop_requested of the thread's token
    available_cv,   \* the threads blocked on task_available_cv
    done_cv,        \* the clients blocked on tasks_done_cv
    pc,             \* where each client is
    was_paused,     \* reset's local variable
    submitted, completed, discarded  \* history: what became of the tasks

poolVars == <<tasks, tasks_running, waiting, paused>>
threadVars == <<thread, doing, stop>>
clientVars == <<pc, was_paused>>
history == <<submitted, completed, discarded>>
vars == <<poolVars, threadVars, available_cv, done_cv, clientVars, history>>

Threads == {"none", "busy", "waiting", "ended"}

\* "wait", "wait_for", "reset_wait" and "destroy": inside the wait on tasks_done_cv.
Places == {"idle", "detach_task", "unpause", "wait", "wait_for",
           "reset", "reset_wait", "reset_stop", "reset_restore",
           "destroy", "destroy_stop", "gone"}

Busy == {w \in Worker : thread[w] = "busy"}

Init ==
    /\ tasks = <<>>
    /\ tasks_running = FirstThreads
    /\ waiting = FALSE
    /\ paused = FALSE
    /\ thread = [w \in Worker |-> IF w < FirstThreads THEN "busy" ELSE "none"]
    /\ doing = [w \in Worker |-> NoTask]
    /\ stop = [w \in Worker |-> FALSE]
    /\ available_cv = {}
    /\ done_cv = {}
    /\ pc = [c \in Client |-> "idle"]
    /\ was_paused = FALSE
    /\ submitted = {}
    /\ completed = {}
    /\ discarded = {}

-----------------------------------------------------------------------------
(* The workers.                                                            *)

TaskAvailable == ~(paused \/ tasks = <<>>)

\* A slip: the queue is forgotten.
NoneRunning(running) == running = 0

\* The predicate of wait, and the condition under which a worker notifies:
\* `running` is tasks_running as the caller has it.
AllDone(running) == running = 0 /\ (paused \/ tasks = <<>>)

\* Slips: the task is read but not popped; the thread is not counted in again.
PopTaskKeeps(w, running) ==
    /\ tasks' = tasks
    /\ doing' = [doing EXCEPT ![w] = Head(tasks)]
    /\ tasks_running' = running + 1

PopTaskUncounted(w, running) ==
    /\ tasks' = Tail(tasks)
    /\ doing' = [doing EXCEPT ![w] = Head(tasks)]
    /\ tasks_running' = running

\* pop_task, with the count that goes with it.
PopTask(w, running) ==
    /\ tasks' = Tail(tasks)
    /\ doing' = [doing EXCEPT ![w] = Head(tasks)]
    /\ tasks_running' = running + 1

\* The wait on task_available_cv, from the evaluation of its predicate, and
\* what follows it up to the end of the critical section.
TakeOrSleep(w, running) ==
    \/ /\ stop[w]
       /\ thread' = [thread EXCEPT ![w] = "ended"]
       /\ doing' = [doing EXCEPT ![w] = NoTask]
       /\ tasks_running' = running
       /\ UNCHANGED <<tasks, available_cv>>
    \/ /\ ~stop[w]
       /\ TaskAvailable
       /\ PopTask(w, running)
       /\ thread' = [thread EXCEPT ![w] = "busy"]
       /\ UNCHANGED available_cv
    \/ /\ ~stop[w]
       /\ ~TaskAvailable
       /\ thread' = [thread EXCEPT ![w] = "waiting"]
       /\ available_cv' = available_cv \cup {w}
       /\ doing' = [doing EXCEPT ![w] = NoTask]
       /\ tasks_running' = running
       /\ UNCHANGED tasks

\* A slip: the test for waiters comes before the thread counts itself out.
WorkerLoopTestsFirst(w) ==
    /\ thread[w] = "busy"
    /\ completed' = completed \cup ({doing[w]} \cap Task)
    /\ done_cv' = IF waiting /\ AllDone(tasks_running) THEN {} ELSE done_cv
    /\ TakeOrSleep(w, tasks_running - 1)
    /\ UNCHANGED <<waiting, paused, stop, clientVars, submitted, discarded>>

\* The thread has run init_func or a task: it counts itself out, notifies the
\* waiters if there may be any, and goes for the next task.
WorkerLoop(w) ==
    /\ thread[w] = "busy"
    /\ completed' = completed \cup ({doing[w]} \cap Task)
    /\ done_cv' = IF waiting /\ AllDone(tasks_running - 1) THEN {} ELSE done_cv
    /\ TakeOrSleep(w, tasks_running - 1)
    /\ UNCHANGED <<waiting, paused, stop, clientVars, submitted, discarded>>

\* A thread that was notified has the mutex again.
WorkerWakes(w) ==
    /\ thread[w] = "waiting"
    /\ w \notin available_cv
    /\ TakeOrSleep(w, tasks_running)
    /\ UNCHANGED <<waiting, paused, stop, done_cv, clientVars, history>>

\* A condition variable may wake a thread for no reason.
SpuriousWorker(w) ==
    /\ w \in available_cv
    /\ available_cv' = available_cv \ {w}
    /\ UNCHANGED <<poolVars, threadVars, done_cv, clientVars, history>>

SpuriousClient(c) ==
    /\ c \in done_cv
    /\ done_cv' = done_cv \ {c}
    /\ UNCHANGED <<poolVars, threadVars, available_cv, clientVars, history>>

-----------------------------------------------------------------------------
(* The clients.  Nobody calls a pool that is being destroyed, and the       *)
(* destructor is not called while another call is going on.  reset replaces *)
(* the array of threads without a lock: there is one reset at a time.       *)

Closing == \E c \in Client : pc[c] \in {"destroy", "destroy_stop", "gone"}

Resetting ==
    \E c \in Client : pc[c] \in {"reset", "reset_wait", "reset_stop", "reset_restore"}

MayCall(c, call) == pc[c] = "idle" /\ call \in Calls /\ ~Closing

Go(c, place) == pc' = [pc EXCEPT ![c] = place]

DetachTask(c, t) ==
    /\ MayCall(c, "detach_task")
    /\ t \notin submitted
    /\ tasks' = Append(tasks, t)
    /\ submitted' = submitted \cup {t}
    /\ Go(c, "detach_task")
    /\ UNCHANGED <<tasks_running, waiting, paused, threadVars, available_cv, done_cv,
                   was_paused, completed, discarded>>

\* Slips: no notification, or none when other tasks are in the queue already.
NotifyOneNever(c) ==
    /\ pc[c] = "detach_task"
    /\ Go(c, "idle")
    /\ UNCHANGED <<poolVars, threadVars, available_cv, done_cv, was_paused, history>>

NotifyOneIfFirst(c) ==
    /\ pc[c] = "detach_task"
    /\ \/ (Len(tasks) # 1 \/ available_cv = {}) /\ UNCHANGED available_cv
       \/ Len(tasks) = 1 /\ \E w \in available_cv : available_cv' = available_cv \ {w}
    /\ Go(c, "idle")
    /\ UNCHANGED <<poolVars, threadVars, done_cv, was_paused, history>>

\* detach_task notifies after it has unlocked.
NotifyOne(c) ==
    /\ pc[c] = "detach_task"
    /\ \/ available_cv = {} /\ UNCHANGED available_cv
       \/ \E w \in available_cv : available_cv' = available_cv \ {w}
    /\ Go(c, "idle")
    /\ UNCHANGED <<poolVars, threadVars, done_cv, was_paused, history>>

Pause(c) ==
    /\ PauseEnabled /\ MayCall(c, "pause")
    /\ paused' = TRUE
    /\ UNCHANGED <<tasks, tasks_running, waiting, threadVars, available_cv, done_cv,
                   clientVars, history>>

Unpause(c) ==
    /\ PauseEnabled /\ MayCall(c, "unpause")
    /\ paused' = FALSE
    /\ Go(c, "unpause")
    /\ UNCHANGED <<tasks, tasks_running, waiting, threadVars, available_cv, done_cv,
                   was_paused, history>>

\* unpause notifies after it has unlocked.
NotifyAll(c) ==
    /\ pc[c] = "unpause"
    /\ available_cv' = {}
    /\ Go(c, "idle")
    /\ UNCHANGED <<poolVars, threadVars, done_cv, was_paused, history>>

Purge(c) ==
    /\ MayCall(c, "purge")
    /\ discarded' = discarded \cup {tasks[i] : i \in DOMAIN tasks}
    /\ tasks' = <<>>
    /\ UNCHANGED <<tasks_running, waiting, paused, threadVars, available_cv, done_cv,
                   clientVars, submitted, completed>>

-----------------------------------------------------------------------------
(* wait, wait_for (wait_until is the same), and the calls that wait.        *)

\* Where a client goes on when its wait is over.
AfterWait(place) ==
    CASE place = "reset_wait" -> "reset_stop"
      [] place = "destroy" -> "destroy_stop"
      [] OTHER -> "idle"

\* In the critical section, from the evaluation of the predicate.
WaitDone(c, place) ==
    \/ /\ AllDone(tasks_running)
       /\ waiting' = FALSE
       /\ done_cv' = done_cv \ {c}
       /\ Go(c, AfterWait(place))
    \/ /\ ~AllDone(tasks_running)
       /\ waiting' = (waiting \/ pc[c] # place)  \* set on entry, not on a wake-up
       /\ done_cv' = done_cv \cup {c}
       /\ Go(c, place)

unchangedByWait == <<tasks, tasks_running, paused, threadVars, available_cv, was_paused, history>>

Wait(c, call) ==
    /\ c \in Waiter /\ MayCall(c, call)
    /\ WaitDone(c, call)
    /\ UNCHANGED unchangedByWait

\* The destructor.
Destroy(c) ==
    /\ \A d \in Client : pc[d] = "idle"
    /\ Wait(c, "destroy")

\* reset: first a critical section that pauses the pool, if it can be paused.
Reset(c) ==
    /\ c \in Waiter /\ MayCall(c, "reset") /\ ~Resetting
    /\ was_paused' = paused
    /\ paused' = PauseEnabled
    /\ Go(c, "reset")
    /\ UNCHANGED <<tasks, tasks_running, waiting, threadVars, available_cv, done_cv, history>>

ResetWaits(c) ==
    /\ pc[c] = "reset"
    /\ WaitDone(c, "reset_wait")
    /\ UNCHANGED unchangedByWait

WaiterWakes(c) ==
    /\ pc[c] \in {"wait", "wait_for", "reset_wait", "destroy"}
    /\ c \notin done_cv
    /\ WaitDone(c, pc[c])
    /\ UNCHANGED unchangedByWait

\* The time of wait_for is over: it returns, whatever the predicate says.
Timeout(c) ==
    /\ pc[c] = "wait_for"
    /\ waiting' = FALSE
    /\ done_cv' = done_cv \ {c}
    /\ Go(c, "idle")
    /\ UNCHANGED unchangedByWait

-----------------------------------------------------------------------------
(* The end of the threads: the array of jthreads is destroyed from its last *)
(* element to its first, each one stopped and joined before the next.       *)

LastThread(w) == thread[w] # "none" /\ \A v \in Worker : v > w => thread[v] = "none"

RequestStop(c, w) ==
    /\ pc[c] \in {"reset_stop", "destroy_stop"}
    /\ LastThread(w)
    /\ ~stop[w]
    /\ stop' = [stop EXCEPT ![w] = TRUE]
    /\ available_cv' = available_cv \ {w}
    /\ UNCHANGED <<poolVars, thread, doing, done_cv, clientVars, history>>

Join(c, w) ==
    /\ pc[c] \in {"reset_stop", "destroy_stop"}
    /\ LastThread(w)
    /\ thread[w] = "ended"
    /\ thread' = [thread EXCEPT ![w] = "none"]
    /\ stop' = [stop EXCEPT ![w] = FALSE]
    /\ UNCHANGED <<poolVars, doing, available_cv, done_cv, clientVars, history>>

AllJoined == \A w \in Worker : thread[w] = "none"

\* A slip: they are not counted.
CreateThreadsUncounted(c) ==
    /\ pc[c] = "reset_stop"
    /\ AllJoined
    /\ \E n \in 1..MaxThreads : thread' = [w \in Worker |-> IF w < n THEN "busy" ELSE "none"]
    /\ Go(c, IF PauseEnabled THEN "reset_restore" ELSE "idle")
    /\ UNCHANGED <<poolVars, doing, stop, available_cv, done_cv, was_paused, history>>

\* The new threads, counted as running before they start.
CreateThreads(c) ==
    /\ pc[c] = "reset_stop"
    /\ AllJoined
    /\ \E n \in 1..MaxThreads :
           /\ tasks_running' = n
           /\ thread' = [w \in Worker |-> IF w < n THEN "busy" ELSE "none"]
    /\ Go(c, IF PauseEnabled THEN "reset_restore" ELSE "idle")
    /\ UNCHANGED <<tasks, waiting, paused, doing, stop, available_cv, done_cv, was_paused, history>>

\* The end of reset: nothing is notified.
Restore(c) ==
    /\ pc[c] = "reset_restore"
    /\ paused' = was_paused
    /\ Go(c, "idle")
    /\ UNCHANGED <<tasks, tasks_running, waiting, threadVars, available_cv, done_cv,
                   was_paused, history>>

Destroyed(c) ==
    /\ pc[c] = "destroy_stop"
    /\ AllJoined
    /\ Go(c, "gone")
    /\ UNCHANGED <<poolVars, threadVars, available_cv, done_cv, was_paused, history>>

-----------------------------------------------------------------------------
WorkerStep(w) == WorkerLoop(w) \/ WorkerWakes(w)

\* What a client does to finish the call it is in.
ClientStep(c) ==
    \/ NotifyOne(c) \/ NotifyAll(c)
    \/ ResetWaits(c) \/ WaiterWakes(c)
    \/ \E w \in Worker : RequestStop(c, w) \/ Join(c, w)
    \/ CreateThreads(c) \/ Restore(c) \/ Destroyed(c)

ClientCalls(c) ==
    \/ \E t \in Task : DetachTask(c, t)
    \/ Pause(c) \/ Unpause(c) \/ Purge(c)
    \/ \E call \in {"wait", "wait_for"} : Wait(c, call)
    \/ Reset(c) \/ Destroy(c)

Next ==
    \/ \E w \in Worker : WorkerStep(w) \/ SpuriousWorker(w)
    \/ \E c \in Client : ClientStep(c) \/ ClientCalls(c) \/ Timeout(c) \/ SpuriousClient(c)

Spec == Init /\ [][Next]_vars

\* Every thread that can run does; tasks end; nobody has to call anything.
FairSpec ==
    /\ Spec
    /\ \A w \in Worker : WF_vars(WorkerStep(w))
    /\ \A c \in Client : WF_vars(ClientStep(c))

=============================================================================
