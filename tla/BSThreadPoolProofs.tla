------------------------- MODULE BSThreadPoolProofs -------------------------
(***************************************************************************)
(* What holds of BS::thread_pool for any number of threads, clients and    *)
(* tasks.                                                                  *)
(***************************************************************************)
EXTENDS BSThreadPoolProperties, FiniteSetTheorems, SequenceTheorems, TLAPS

-----------------------------------------------------------------------------
(* Counting.                                                               *)

LEMMA WorkersFinite == IsFiniteSet(Worker)
BY FS_Interval, ThreadsAssumption DEF Worker

LEMMA BusyFinite == IsFiniteSet(Busy) /\ Cardinality(Busy) \in Nat
<1>1. IsFiniteSet(Busy)
  BY WorkersFinite, FS_Subset DEF Busy
<1> QED  BY <1>1, FS_CardinalityType

\* The first n threads are n threads.
LEMMA FirstBusy ==
    ASSUME NEW n \in 1..MaxThreads
    PROVE  LET S == {w \in Worker : (IF w < n THEN "busy" ELSE "none") = "busy"}
           IN  Cardinality(S) = n
<1> DEFINE S == {w \in Worker : (IF w < n THEN "busy" ELSE "none") = "busy"}
<1>1. S = 0..n-1
  BY ThreadsAssumption DEF Worker
<1>2. Cardinality(0..n-1) = n
  BY FS_Interval
<1> QED  BY <1>1, <1>2

\* The critical section that ends in a task or in sleep, of a thread w that is
\* not counted in `running`.
LEMMA TakeOrSleepCounts ==
    ASSUME TypeOK, NEW w \in Worker, NEW running,
           running = Cardinality(Busy \ {w}),
           TakeOrSleep(w, running)
    PROVE  /\ tasks' \in Seq(Task)
           /\ tasks_running' \in Nat
           /\ thread' \in [Worker -> Threads]
           /\ doing' \in [Worker -> Task \cup {NoTask}]
           /\ available_cv' \subseteq Worker
           /\ CountExact'
<1>1. IsFiniteSet(Busy \ {w}) /\ running \in Nat
  BY BusyFinite, FS_RemoveElement, FS_CardinalityType
<1>2. CASE TaskAvailable /\ PopTask(w, running) /\ thread' = [thread EXCEPT ![w] = "busy"]
                /\ UNCHANGED available_cv
  <2>1. tasks # <<>>
    BY <1>2 DEF TaskAvailable
  <2>2. Head(tasks) \in Task /\ Tail(tasks) \in Seq(Task)
    BY <2>1, HeadTailProperties DEF TypeOK
  <2>3. Busy' = (Busy \ {w}) \cup {w}
    BY <1>2 DEF Busy, TypeOK, Threads
  <2>4. Cardinality((Busy \ {w}) \cup {w}) = running + 1
    BY <1>1, FS_AddElement
  <2> QED  BY <1>1, <1>2, <2>2, <2>3, <2>4 DEF PopTask, TypeOK, Threads, CountExact
<1>3. ASSUME NEW place \in {"ended", "waiting"}, thread' = [thread EXCEPT ![w] = place]
      PROVE  Busy' = Busy \ {w}
  BY <1>3 DEF Busy, TypeOK, Threads
<1>4. CASE stop[w] /\ UNCHANGED <<tasks, available_cv>> /\ tasks_running' = running
           /\ thread' = [thread EXCEPT ![w] = "ended"] /\ doing' = [doing EXCEPT ![w] = NoTask]
  BY <1>1, <1>3, <1>4 DEF TypeOK, Threads, CountExact
<1>5. CASE UNCHANGED tasks /\ available_cv' = available_cv \cup {w} /\ tasks_running' = running
           /\ thread' = [thread EXCEPT ![w] = "waiting"] /\ doing' = [doing EXCEPT ![w] = NoTask]
  BY <1>1, <1>3, <1>5 DEF TypeOK, Threads, CountExact
<1> QED  BY <1>2, <1>4, <1>5 DEF TakeOrSleep

CountInv == TypeOK /\ CountExact

LEMMA WorkerLoopCounts ==
    ASSUME CountInv, NEW w \in Worker, WorkerLoop(w)
    PROVE  CountInv'
<1>1. w \in Busy
  BY DEF WorkerLoop, Busy
<1>2. Cardinality(Busy \ {w}) = tasks_running - 1
  BY <1>1, BusyFinite, FS_RemoveElement DEF CountInv, CountExact
<1>3. /\ tasks' \in Seq(Task) /\ tasks_running' \in Nat /\ thread' \in [Worker -> Threads]
      /\ doing' \in [Worker -> Task \cup {NoTask}] /\ available_cv' \subseteq Worker /\ CountExact'
  BY <1>2, TakeOrSleepCounts DEF CountInv, WorkerLoop
<1>4. done_cv' \subseteq Client
  BY DEF WorkerLoop, CountInv, TypeOK
<1> QED  BY <1>3, <1>4 DEF WorkerLoop, CountInv, TypeOK, clientVars

LEMMA WorkerWakesCounts ==
    ASSUME CountInv, NEW w \in Worker, WorkerWakes(w)
    PROVE  CountInv'
<1>1. Busy \ {w} = Busy
  BY DEF WorkerWakes, Busy
<1>2. Cardinality(Busy \ {w}) = tasks_running
  BY <1>1 DEF CountInv, CountExact
<1>3. /\ tasks' \in Seq(Task) /\ tasks_running' \in Nat /\ thread' \in [Worker -> Threads]
      /\ doing' \in [Worker -> Task \cup {NoTask}] /\ available_cv' \subseteq Worker /\ CountExact'
  BY <1>2, TakeOrSleepCounts DEF CountInv, WorkerWakes
<1> QED  BY <1>3 DEF WorkerWakes, CountInv, TypeOK, clientVars, history

\* A step that changes no thread and no count.
LEMMA SameCount ==
    ASSUME CountInv, UNCHANGED <<thread, tasks_running>>, TypeOK'
    PROVE  CountInv'
BY DEF CountInv, CountExact, Busy

\* The steps that go through the wait on tasks_done_cv.
LEMMA WaitDoneTypes ==
    ASSUME CountInv, NEW c \in Client, NEW place \in {"wait", "wait_for", "reset_wait", "destroy"},
           WaitDone(c, place), UNCHANGED unchangedByWait
    PROVE  CountInv'
<1>1. AfterWait(place) \in Places /\ place \in Places
  BY DEF AfterWait, Places
<1>2. pc' \in [Client -> Places] /\ waiting' \in BOOLEAN /\ done_cv' \subseteq Client
  BY <1>1, ClientAssumption DEF WaitDone, Go, CountInv, TypeOK
<1>3. TypeOK'
  BY <1>2 DEF CountInv, TypeOK, unchangedByWait, threadVars, history
<1>4. UNCHANGED <<thread, tasks_running>>
  BY DEF unchangedByWait, threadVars
<1> QED  BY <1>3, <1>4, SameCount

LEMMA CreateThreadsCounts ==
    ASSUME CountInv, NEW c \in Client, CreateThreads(c)
    PROVE  CountInv'
<1>1. PICK n \in 1..MaxThreads :
          /\ tasks_running' = n
          /\ thread' = [w \in Worker |-> IF w < n THEN "busy" ELSE "none"]
  BY DEF CreateThreads
<1>2. Busy' = {w \in Worker : (IF w < n THEN "busy" ELSE "none") = "busy"}
  BY <1>1 DEF Busy
<1>3. CountExact'
  BY <1>1, <1>2, FirstBusy DEF CountExact
<1>4. thread' \in [Worker -> Threads] /\ tasks_running' \in Nat
  BY <1>1, ThreadsAssumption DEF Threads
<1>5. pc' \in [Client -> Places]
  BY CallsAssumption DEF CreateThreads, Go, CountInv, TypeOK, Places
<1> QED  BY <1>3, <1>4, <1>5 DEF CreateThreads, CountInv, TypeOK, history

LEMMA JoinCounts ==
    ASSUME CountInv, NEW c \in Client, NEW w \in Worker, Join(c, w)
    PROVE  CountInv'
<1>1. Busy' = Busy
  BY DEF Join, Busy, CountInv, TypeOK
<1>2. CountExact'
  BY <1>1 DEF Join, poolVars, CountInv, CountExact
<1>3. TypeOK'
  BY DEF Join, poolVars, clientVars, history, CountInv, TypeOK, Threads
<1> QED  BY <1>2, <1>3 DEF CountInv

\* The calls and steps that touch neither threads nor counts.
LEMMA CallsCount ==
    ASSUME CountInv, NEW c \in Client,
           \/ \E t \in Task : DetachTask(c, t)
           \/ NotifyOne(c) \/ Pause(c) \/ Unpause(c) \/ NotifyAll(c) \/ Purge(c)
           \/ Reset(c) \/ Restore(c) \/ Destroyed(c) \/ Timeout(c) \/ SpuriousClient(c)
    PROVE  CountInv'
<1>1. UNCHANGED <<thread, tasks_running>>
  BY DEF DetachTask, NotifyOne, Pause, Unpause, NotifyAll, Purge, Reset, Restore, Destroyed,
         Timeout, SpuriousClient, poolVars, threadVars, unchangedByWait
<1> SUFFICES TypeOK'
  BY <1>1, SameCount
<1>2. ASSUME NEW t \in Task, DetachTask(c, t)
      PROVE  TypeOK'
  <2>1. tasks' \in Seq(Task)
    BY <1>2, AppendProperties DEF DetachTask, CountInv, TypeOK
  <2> QED  BY <1>2, <2>1 DEF DetachTask, Go, CountInv, TypeOK, threadVars, Places
<1>3. CASE NotifyOne(c)
  BY <1>3 DEF NotifyOne, Go, CountInv, TypeOK, poolVars, threadVars, history, Places
<1>4. CASE Pause(c)
  BY <1>4 DEF Pause, CountInv, TypeOK, threadVars, clientVars, history
<1>5. CASE Unpause(c) \/ NotifyAll(c)
  BY <1>5 DEF Unpause, NotifyAll, Go, CountInv, TypeOK, poolVars, threadVars, history, Places
<1>6. CASE Purge(c)
  <2>1. {tasks[i] : i \in DOMAIN tasks} \subseteq Task
    BY ElementOfSeq DEF CountInv, TypeOK
  <2>2. <<>> \in Seq(Task)
    BY EmptySeq
  <2> QED  BY <1>6, <2>1, <2>2 DEF Purge, CountInv, TypeOK, threadVars, clientVars
<1>7. CASE Reset(c) \/ Restore(c)
  BY <1>7, CallsAssumption
     DEF Reset, Restore, Go, CountInv, TypeOK, threadVars, history, Places
<1>8. CASE Destroyed(c)
  BY <1>8 DEF Destroyed, Go, CountInv, TypeOK, poolVars, threadVars, history, Places
<1>9. CASE Timeout(c)
  BY <1>9 DEF Timeout, Go, CountInv, TypeOK, unchangedByWait, threadVars, history, Places
<1>10. CASE SpuriousClient(c)
  BY <1>10 DEF SpuriousClient, CountInv, TypeOK, poolVars, threadVars, clientVars, history
<1> QED  BY <1>2, <1>3, <1>4, <1>5, <1>6, <1>7, <1>8, <1>9, <1>10

LEMMA InitCount == Init => CountInv
<1> SUFFICES ASSUME Init PROVE CountInv
  OBVIOUS
<1>1. Busy = {w \in Worker : (IF w < FirstThreads THEN "busy" ELSE "none") = "busy"}
  BY DEF Init, Busy
<1>2. CountExact
  BY <1>1, FirstBusy, ThreadsAssumption DEF Init, CountExact
<1>3. <<>> \in Seq(Task)
  BY EmptySeq
<1>4. FirstThreads \in Nat
  BY ThreadsAssumption
<1>5. thread \in [Worker -> Threads] /\ pc \in [Client -> Places]
  BY DEF Init, Threads, Places
<1>6. doing \in [Worker -> Task \cup {NoTask}] /\ stop \in [Worker -> BOOLEAN]
  BY DEF Init
<1>7. TypeOK
  BY <1>3, <1>4, <1>5, <1>6 DEF Init, TypeOK
<1> QED  BY <1>2, <1>7 DEF CountInv

LEMMA NextCount == CountInv /\ [Next]_vars => CountInv'
<1> SUFFICES ASSUME CountInv, [Next]_vars PROVE CountInv'
  OBVIOUS
<1>1. ASSUME NEW w \in Worker, WorkerStep(w)
      PROVE  CountInv'
  BY <1>1, WorkerLoopCounts, WorkerWakesCounts DEF WorkerStep
<1>2. ASSUME NEW w \in Worker, SpuriousWorker(w)
      PROVE  CountInv'
  BY <1>2, SameCount DEF SpuriousWorker, CountInv, TypeOK, poolVars, threadVars, clientVars, history
<1>3. ASSUME NEW c \in Client, ClientStep(c)
      PROVE  CountInv'
  <2>1. CASE ResetWaits(c) \/ WaiterWakes(c)
    BY <2>1, WaitDoneTypes DEF ResetWaits, WaiterWakes
  <2>2. ASSUME NEW w \in Worker, RequestStop(c, w)
        PROVE  CountInv'
    BY <2>2, SameCount DEF RequestStop, CountInv, TypeOK, poolVars, clientVars, history
  <2> QED  BY <1>3, <2>1, <2>2, CallsCount, CreateThreadsCounts, JoinCounts DEF ClientStep
<1>4. ASSUME NEW c \in Client, ClientCalls(c)
      PROVE  CountInv'
  <2>1. ASSUME NEW call \in {"wait", "wait_for", "destroy"}, Wait(c, call)
        PROVE  CountInv'
    BY <2>1, WaitDoneTypes DEF Wait
  <2>2. CASE Destroy(c)
    BY <2>1, <2>2 DEF Destroy
  <2> QED  BY <1>4, <2>1, <2>2, CallsCount DEF ClientCalls
<1>5. CASE UNCHANGED vars
  BY <1>5, SameCount
     DEF vars, CountInv, TypeOK, poolVars, threadVars, clientVars, history
<1> QED  BY <1>1, <1>2, <1>3, <1>4, <1>5, CallsCount DEF Next

\* Types, and the count of the running tasks: tasks_running never drops below
\* zero and is always the number of threads that are not at rest, through every
\* pop, stop and reset.
THEOREM CountInvHolds == Spec => []CountInv
BY InitCount, NextCount, PTL DEF Spec

THEOREM TypeCorrect == Spec => []TypeOK
<1>1. CountInv => TypeOK
  BY DEF CountInv
<1> QED  BY <1>1, CountInvHolds, PTL

THEOREM CountExactHolds == Spec => []CountExact
<1>1. CountInv => CountExact
  BY DEF CountInv
<1> QED  BY <1>1, CountInvHolds, PTL

-----------------------------------------------------------------------------
(* The tasks.                                                              *)

\* A thread that is not busy runs nothing: what it ran before is not forgotten
\* when it takes its next task.
AtRest == \A w \in Worker : thread[w] # "busy" => doing[w] = NoTask

TaskInv == AtRest /\ TaskOnce

\* Popping a queue without duplicates.
LEMMA PopQueue ==
    ASSUME NEW q \in Seq(Task), q # <<>>,
           \A i, j \in DOMAIN q : q[i] = q[j] => i = j
    PROVE  /\ Head(q) \in {q[i] : i \in DOMAIN q}
           /\ {Tail(q)[i] : i \in DOMAIN Tail(q)} = {q[i] : i \in DOMAIN q} \ {Head(q)}
           /\ \A i, j \in DOMAIN Tail(q) : Tail(q)[i] = Tail(q)[j] => i = j
<1>1. /\ Len(q) \in Nat \ {0} /\ DOMAIN q = 1..Len(q) /\ Head(q) = q[1]
      /\ DOMAIN Tail(q) = 1..Len(q) - 1
      /\ \A i \in 1..Len(q) - 1 : Tail(q)[i] = q[i + 1]
  <2>1. Tail(q) \in Seq(Task) /\ Len(Tail(q)) = Len(q) - 1
    BY HeadTailProperties
  <2>2. Len(q) \in Nat \ {0}
    BY EmptySeq
  <2> QED  BY <2>1, <2>2
<1>2. ASSUME NEW i \in DOMAIN Tail(q)
      PROVE  Tail(q)[i] \in {q[k] : k \in DOMAIN q} \ {Head(q)}
  BY <1>1
<1>3. ASSUME NEW k \in DOMAIN q, q[k] # Head(q)
      PROVE  q[k] \in {Tail(q)[i] : i \in DOMAIN Tail(q)}
  <2>1. k - 1 \in DOMAIN Tail(q) /\ Tail(q)[k - 1] = q[k]
    BY <1>1, <1>3
  <2> QED  BY <2>1
<1>4. \A i, j \in DOMAIN Tail(q) : Tail(q)[i] = Tail(q)[j] => i = j
  BY <1>1
<1>5. Head(q) \in {q[i] : i \in DOMAIN q}
  BY <1>1
<1> QED  BY <1>2, <1>3, <1>4, <1>5

\* A thread goes from one task to another, or to none.
LEMMA NewTask ==
    ASSUME TypeOK, TaskOnce, NEW w \in Worker, NEW t \in Task \cup {NoTask},
           t \notin Doing, doing' = [doing EXCEPT ![w] = t]
    PROVE  /\ Doing' = ((Doing \ {doing[w]}) \cup {t}) \ {NoTask}
           /\ \A u, v \in Worker : doing'[u] = doing'[v] /\ doing'[u] # NoTask => u = v
<1>1. \A v \in Worker : doing'[v] = IF v = w THEN t ELSE doing[v]
  BY DEF TypeOK
<1>2. \A v \in Worker \ {w} : doing[v] # NoTask => doing[v] # doing[w] /\ doing[v] # t
  BY DEF TaskOnce, Doing
<1> QED  BY <1>1, <1>2 DEF TaskOnce, Doing

\* A step that moves no task.
LEMMA SameTasks ==
    ASSUME TaskInv, UNCHANGED <<tasks, doing, history>>,
           \A w \in Worker : thread'[w] # "busy" => doing[w] = NoTask
    PROVE  TaskInv'
BY DEF TaskInv, AtRest, TaskOnce, Queued, Doing, history

\* The end of a worker's critical section: the task it had, if any, completed.
LEMMA TakeOrSleepTasks ==
    ASSUME TypeOK, TaskInv, NEW w \in Worker, NEW running, TakeOrSleep(w, running),
           completed' = completed \cup ({doing[w]} \cap Task),
           UNCHANGED <<submitted, discarded>>
    PROVE  TaskInv'
<1>1. {doing[w]} \cap Task = {doing[w]} \ {NoTask}
  BY TaskAssumption DEF TypeOK
<1>2. {doing[w]} \ {NoTask} \subseteq Doing
  BY DEF Doing
<1>3. CASE TaskAvailable /\ PopTask(w, running) /\ thread' = [thread EXCEPT ![w] = "busy"]
  <2>1. tasks # <<>>
    BY <1>3 DEF TaskAvailable
  <2>2. /\ Head(tasks) \in Queued /\ Queued' = Queued \ {Head(tasks)}
        /\ \A i, j \in DOMAIN tasks' : tasks'[i] = tasks'[j] => i = j
    <3>1. tasks \in Seq(Task) /\ \A i, j \in DOMAIN tasks : tasks[i] = tasks[j] => i = j
      BY DEF TypeOK, TaskInv, TaskOnce
    <3>2. tasks' = Tail(tasks)
      BY <1>3 DEF PopTask
    <3>3. /\ Head(tasks) \in {tasks[i] : i \in DOMAIN tasks}
          /\ {Tail(tasks)[i] : i \in DOMAIN Tail(tasks)}
                = {tasks[i] : i \in DOMAIN tasks} \ {Head(tasks)}
          /\ \A i, j \in DOMAIN Tail(tasks) : Tail(tasks)[i] = Tail(tasks)[j] => i = j
      BY <2>1, <3>1, PopQueue
    <3> QED  BY <3>2, <3>3, Zenon DEF Queued
  <2>3. Head(tasks) \in Task /\ Head(tasks) \notin Doing
    BY <2>1, <2>2, HeadTailProperties DEF TypeOK, TaskInv, TaskOnce
  <2>4. /\ Doing' = ((Doing \ {doing[w]}) \cup {Head(tasks)}) \ {NoTask}
        /\ \A u, v \in Worker : doing'[u] = doing'[v] /\ doing'[u] # NoTask => u = v
    BY <1>3, <2>3, NewTask DEF PopTask, TaskInv
  <2>5. Head(tasks) # NoTask
    BY <2>3, TaskAssumption
  <2>6. AtRest'
    BY <1>3 DEF PopTask, AtRest, TaskInv, TypeOK
  <2>7. TaskOnce'
    <3>1. completed' = completed \cup ({doing[w]} \ {NoTask}) /\ NoTask \notin Doing
      BY <1>1 DEF Doing
    <3>2. /\ submitted = Queued \cup Doing \cup completed \cup discarded
          /\ Queued \cap (Doing \cup completed \cup discarded) = {}
          /\ Doing \cap (completed \cup discarded) = {}
          /\ completed \cap discarded = {}
      BY DEF TaskInv, TaskOnce
    <3>3. submitted' = Queued' \cup Doing' \cup completed' \cup discarded'
      BY <1>2, <2>2, <2>3, <2>4, <2>5, <3>1, <3>2
    <3>4. Queued' \cap (Doing' \cup completed' \cup discarded') = {}
      BY <1>2, <2>2, <2>3, <2>4, <2>5, <3>1, <3>2
    <3>5. Doing' \cap (completed' \cup discarded') = {}
      BY <1>2, <2>2, <2>3, <2>4, <2>5, <3>1, <3>2
    <3>6. completed' \cap discarded' = {}
      BY <1>2, <3>1, <3>2
    <3> QED  BY <2>2, <2>4, <3>3, <3>4, <3>5, <3>6 DEF TaskOnce
  <2> QED  BY <2>6, <2>7 DEF TaskInv
<1>4. CASE /\ doing' = [doing EXCEPT ![w] = NoTask] /\ UNCHANGED tasks
           /\ \E place \in Threads : thread' = [thread EXCEPT ![w] = place]
  <2>1. NoTask \notin Doing
    BY DEF Doing
  <2>2. /\ Doing' = ((Doing \ {doing[w]}) \cup {NoTask}) \ {NoTask}
        /\ \A u, v \in Worker : doing'[u] = doing'[v] /\ doing'[u] # NoTask => u = v
    BY <1>4, <2>1, NewTask DEF TaskInv
  <2>3. Queued' = Queued
    BY <1>4 DEF Queued
  <2>4. AtRest'
    BY <1>4 DEF AtRest, TaskInv, TypeOK
  <2>5. TaskOnce'
    <3>1. completed' = completed \cup ({doing[w]} \ {NoTask}) /\ NoTask \notin Doing
      BY <1>1 DEF Doing
    <3>2. /\ submitted = Queued \cup Doing \cup completed \cup discarded
          /\ Queued \cap (Doing \cup completed \cup discarded) = {}
          /\ Doing \cap (completed \cup discarded) = {}
          /\ completed \cap discarded = {}
      BY DEF TaskInv, TaskOnce
    <3>3. submitted' = Queued' \cup Doing' \cup completed' \cup discarded'
      BY <1>2, <2>2, <2>3, <3>1, <3>2
    <3>4. Queued' \cap (Doing' \cup completed' \cup discarded') = {}
      BY <1>2, <2>2, <2>3, <3>1, <3>2
    <3>5. Doing' \cap (completed' \cup discarded') = {}
      BY <1>2, <2>2, <2>3, <3>1, <3>2
    <3>6. completed' \cap discarded' = {}
      BY <1>2, <3>1, <3>2
    <3>7. \A i, j \in DOMAIN tasks' : tasks'[i] = tasks'[j] => i = j
      BY <1>4 DEF TaskInv, TaskOnce
    <3> QED  BY <2>2, <3>3, <3>4, <3>5, <3>6, <3>7 DEF TaskOnce
  <2> QED  BY <2>4, <2>5 DEF TaskInv
<1> QED  BY <1>3, <1>4 DEF TakeOrSleep, Threads

LEMMA DetachTasks ==
    ASSUME TypeOK, TaskInv, NEW c \in Client, NEW t \in Task, DetachTask(c, t)
    PROVE  TaskInv'
<1>1. tasks' = Append(tasks, t) /\ t \notin submitted /\ submitted' = submitted \cup {t}
  BY DEF DetachTask
<1>2. /\ Len(tasks) \in Nat /\ DOMAIN tasks = 1..Len(tasks)
      /\ DOMAIN tasks' = 1..Len(tasks) + 1 /\ tasks'[Len(tasks) + 1] = t
      /\ \A i \in 1..Len(tasks) : tasks'[i] = tasks[i]
  BY <1>1, AppendProperties DEF TypeOK
<1>3. Queued' = Queued \cup {t}
  BY <1>2 DEF Queued
<1>4. \A i \in DOMAIN tasks : tasks[i] # t
  BY <1>1 DEF TaskInv, TaskOnce, Queued
<1>5. \A i, j \in DOMAIN tasks' : tasks'[i] = tasks'[j] => i = j
  BY <1>2, <1>4 DEF TaskInv, TaskOnce
<1>6. Doing' = Doing /\ AtRest'
  BY DEF DetachTask, threadVars, Doing, AtRest, TaskInv
<1>7. TaskOnce'
  BY <1>1, <1>3, <1>5, <1>6 DEF DetachTask, threadVars, TaskInv, TaskOnce
<1> QED  BY <1>6, <1>7 DEF TaskInv

LEMMA PurgeTasks ==
    ASSUME TaskInv, NEW c \in Client, Purge(c)
    PROVE  TaskInv'
<1>1. Queued' = {} /\ discarded' = discarded \cup Queued
  BY DEF Purge, Queued
<1>2. Doing' = Doing /\ AtRest'
  BY DEF Purge, threadVars, Doing, AtRest, TaskInv
<1>3. DOMAIN tasks' = {}
  BY DEF Purge
<1>4. TaskOnce'
  BY <1>1, <1>2, <1>3 DEF Purge, threadVars, TaskInv, TaskOnce
<1> QED  BY <1>2, <1>4 DEF TaskInv

LEMMA InitTasks == Init => TaskInv
<1> SUFFICES ASSUME Init PROVE TaskInv
  OBVIOUS
<1>1. DOMAIN tasks = {} /\ Queued = {}
  BY DEF Init, Queued
<1>2. \A w \in Worker : doing[w] = NoTask
  BY DEF Init
<1>3. Doing = {}
  BY <1>2 DEF Doing
<1> QED  BY <1>1, <1>2, <1>3 DEF Init, TaskInv, AtRest, TaskOnce

LEMMA NextTasks == CountInv /\ TaskInv /\ [Next]_vars => TaskInv'
<1> SUFFICES ASSUME TypeOK, TaskInv, [Next]_vars PROVE TaskInv'
  BY DEF CountInv
<1>1. ASSUME NEW w \in Worker, WorkerLoop(w)
      PROVE  TaskInv'
  BY <1>1, TakeOrSleepTasks DEF WorkerLoop
<1>2. ASSUME NEW w \in Worker, WorkerWakes(w)
      PROVE  TaskInv'
  <2>1. {doing[w]} \cap Task = {}
    BY <1>2, TaskAssumption DEF WorkerWakes, TaskInv, AtRest
  <2> QED  BY <1>2, <2>1, TakeOrSleepTasks DEF WorkerWakes, history
<1>3. ASSUME UNCHANGED <<thread, tasks, doing, history>>
      PROVE  TaskInv'
  BY <1>3, SameTasks DEF TaskInv, AtRest
<1>4. ASSUME NEW c \in Client, CreateThreads(c)
      PROVE  TaskInv'
  BY <1>4, SameTasks DEF CreateThreads, AllJoined, TaskInv, AtRest
<1>5. ASSUME NEW c \in Client, NEW w \in Worker, Join(c, w)
      PROVE  TaskInv'
  BY <1>5, SameTasks DEF Join, poolVars, TaskInv, AtRest, TypeOK
<1>6. ASSUME NEW c \in Client, ClientStep(c)
      PROVE  TaskInv'
  BY <1>3, <1>4, <1>5, <1>6
     DEF ClientStep, NotifyOne, NotifyAll, ResetWaits, WaiterWakes, RequestStop, Restore, Destroyed,
         poolVars, threadVars, unchangedByWait
<1>7. ASSUME NEW c \in Client, ClientCalls(c)
      PROVE  TaskInv'
  BY <1>3, <1>7, DetachTasks, PurgeTasks
     DEF ClientCalls, Pause, Unpause, Wait, Reset, Destroy, threadVars, unchangedByWait
<1>8. ASSUME NEW c \in Client, Timeout(c) \/ SpuriousClient(c)
      PROVE  TaskInv'
  BY <1>3, <1>8 DEF Timeout, SpuriousClient, poolVars, threadVars, unchangedByWait
<1>9. ASSUME NEW w \in Worker, SpuriousWorker(w)
      PROVE  TaskInv'
  BY <1>3, <1>9 DEF SpuriousWorker, poolVars, threadVars
<1>10. CASE UNCHANGED vars
  BY <1>3, <1>10 DEF vars, poolVars, threadVars
<1> QED  BY <1>1, <1>2, <1>6, <1>7, <1>8, <1>9, <1>10 DEF Next, WorkerStep

\* No task is lost, run twice, or both run and purged, whatever the clients call
\* and in whatever order the threads get the mutex.
THEOREM TaskOnceHolds == Spec => []TaskOnce
<1>1. Init => TaskInv
  BY InitTasks
<1>2. CountInv /\ TaskInv /\ [Next]_vars => TaskInv'
  BY NextTasks
<1>3. TaskInv => TaskOnce
  BY DEF TaskInv
<1> QED  BY <1>1, <1>2, <1>3, CountInvHolds, PTL DEF Spec

-----------------------------------------------------------------------------
(* The wake-ups.                                                           *)

NoPausedReset == ~(PauseEnabled /\ "reset" \in Calls)

\* Who is blocked, who is stopped, and what reset may not do.
WakeShape ==
    /\ \A w \in available_cv : thread[w] = "waiting"
    /\ \A w \in Worker : stop[w] => thread[w] # "none" /\ Stopping
    /\ \A c \in Client : pc[c] \in {"reset", "reset_wait", "reset_stop"} => ~PauseEnabled
    /\ \A c \in Client : pc[c] # "reset_restore"
    /\ ~PauseEnabled => ~paused

WakeInv == WakeShape /\ NoIdleWorker

LEMMA TokensFinite ==
    ASSUME TypeOK
    PROVE  /\ IsFiniteSet(Notified) /\ Cardinality(Notified) \in Nat
           /\ IsFiniteSet(Detaching) /\ Cardinality(Detaching) \in Nat
           /\ Len(tasks) \in Nat
<1>1. IsFiniteSet(Notified) /\ IsFiniteSet(Detaching)
  BY WorkersFinite, ClientAssumption, FS_Subset DEF Notified, Detaching
<1> QED  BY <1>1, FS_CardinalityType DEF TypeOK

\* Tokens are what stands against the tasks in the queue.
Covered == Len(tasks) <= Cardinality(Notified) + Cardinality(Detaching)

\* A step of client c that starts and ends no call of detach_task or unpause,
\* and is no end of the threads' destruction.
LEMMA OtherPlace ==
    ASSUME TypeOK, NEW c \in Client, NEW place \in Places,
           pc[c] \notin {"detach_task", "unpause", "reset_stop", "destroy_stop"},
           place \notin {"detach_task", "unpause"},
           pc' = [pc EXCEPT ![c] = place]
    PROVE  /\ Detaching' = Detaching
           /\ Unpausing' = Unpausing
           /\ Stopping => Stopping'
<1>1. \A d \in Client : pc'[d] = IF d = c THEN place ELSE pc[d]
  BY DEF TypeOK
<1> QED  BY <1>1 DEF Detaching, Unpausing, Stopping

\* A step that changes neither the queue nor the threads.
LEMMA SameTokens ==
    ASSUME NoIdleWorker, UNCHANGED <<tasks, thread, available_cv>>,
           Detaching' = Detaching, Unpausing' = Unpausing, Stopping => Stopping',
           paused => paused'
    PROVE  NoIdleWorker'
<1>1. Notified' = Notified
  BY DEF Notified
<1> QED  BY <1>1 DEF NoIdleWorker

\* The critical section of a worker: a notified thread that takes a task takes
\* one token away, and nobody sleeps while there is a task.
LEMMA TakeOrSleepWakes ==
    ASSUME TypeOK, WakeInv, NEW w \in Worker, w \notin available_cv, thread[w] # "none",
           NEW running, TakeOrSleep(w, running),
           UNCHANGED <<paused, stop, clientVars>>
    PROVE  WakeInv'
<1>0. UNCHANGED <<pc, Detaching, Unpausing, Stopping>>
  BY DEF clientVars, Detaching, Unpausing, Stopping
<1>1. CASE stop[w] /\ thread' = [thread EXCEPT ![w] = "ended"] /\ UNCHANGED available_cv
  <2>1. Stopping
    BY <1>1 DEF WakeInv, WakeShape
  <2>2. WakeShape'
    BY <1>0, <1>1 DEF WakeInv, WakeShape, TypeOK
  <2> QED  BY <1>0, <2>1, <2>2 DEF WakeInv, NoIdleWorker
<1>2. CASE TaskAvailable /\ PopTask(w, running) /\ thread' = [thread EXCEPT ![w] = "busy"]
           /\ UNCHANGED available_cv
  <2>1. WakeShape'
    BY <1>0, <1>2 DEF WakeInv, WakeShape, TypeOK
  <2>2. Notified' = Notified \ {w}
    BY <1>2 DEF Notified, TypeOK
  <2>3. Cardinality(Notified') >= Cardinality(Notified) - 1
    <3>1. Cardinality(Notified \ {w})
            = IF w \in Notified THEN Cardinality(Notified) - 1 ELSE Cardinality(Notified)
      BY TokensFinite, FS_RemoveElement, Zenon
    <3> QED  BY <2>2, <3>1, TokensFinite
  <2>4. tasks # <<>> /\ tasks' = Tail(tasks)
    BY <1>2 DEF TaskAvailable, PopTask
  <2>5. Len(tasks') = Len(tasks) - 1
    BY <2>4, HeadTailProperties DEF TypeOK
  <2>6. IsFiniteSet(Notified') /\ Cardinality(Notified') \in Nat
    BY <2>2, TokensFinite, FS_RemoveElement, FS_CardinalityType
  <2>7. Covered => Len(tasks') <= Cardinality(Notified') + Cardinality(Detaching)
    BY <2>3, <2>5, <2>6, TokensFinite DEF Covered
  <2> QED  BY <1>0, <1>2, <2>1, <2>7 DEF WakeInv, NoIdleWorker, Covered
<1>3. CASE ~TaskAvailable /\ thread' = [thread EXCEPT ![w] = "waiting"]
           /\ available_cv' = available_cv \cup {w} /\ UNCHANGED tasks
  <2>1. WakeShape'
    BY <1>0, <1>3 DEF WakeInv, WakeShape, TypeOK
  <2>2. Notified' \subseteq Worker
    BY DEF Notified, Worker
  <2>3. Cardinality(Notified') \in Nat
    BY <2>2, WorkersFinite, FS_Subset, FS_CardinalityType
  <2>4. paused \/ Len(tasks) = 0
    BY <1>3 DEF TaskAvailable
  <2>5. paused \/ Len(tasks') <= Cardinality(Notified') + Cardinality(Detaching)
    BY <1>3, <2>3, <2>4, TokensFinite
  <2> QED  BY <1>0, <2>1, <2>5 DEF WakeInv, NoIdleWorker
<1> QED  BY <1>1, <1>2, <1>3 DEF TakeOrSleep

\* A thread leaves the condition variable, notified or for no reason.
LEMMA NotifiedOne ==
    ASSUME TypeOK, WakeInv, NEW w \in available_cv, available_cv' = available_cv \ {w},
           UNCHANGED thread
    PROVE  Cardinality(Notified') = Cardinality(Notified) + 1
<1>1. thread[w] = "waiting" /\ w \in Worker /\ w \notin Notified
  BY DEF WakeInv, WakeShape, TypeOK, Notified
<1>2. Notified' = Notified \cup {w}
  BY <1>1 DEF Notified
<1> QED  BY <1>1, <1>2, TokensFinite, FS_AddElement

LEMMA NotifyOneWakes ==
    ASSUME TypeOK, WakeInv, NEW c \in Client, NotifyOne(c)
    PROVE  WakeInv'
<1>1. \A d \in Client : pc'[d] = IF d = c THEN "idle" ELSE pc[d]
  BY DEF NotifyOne, Go, TypeOK
<1>2. Unpausing' = Unpausing /\ (Stopping <=> Stopping')
  BY <1>1 DEF NotifyOne, Unpausing, Stopping
<1>3. WakeShape'
  BY <1>1, <1>2 DEF NotifyOne, WakeInv, WakeShape, poolVars, threadVars
<1>4. CASE available_cv = {}
  BY <1>3, <1>4 DEF NotifyOne, WakeInv, NoIdleWorker
<1>5. ASSUME NEW w \in available_cv, available_cv' = available_cv \ {w}
      PROVE  NoIdleWorker'
  <2>1. Cardinality(Notified') = Cardinality(Notified) + 1
    BY <1>5, NotifiedOne DEF NotifyOne, threadVars
  <2>2. Detaching' = Detaching \ {c} /\ c \in Detaching
    BY <1>1 DEF NotifyOne, Detaching
  <2>3. Cardinality(Detaching') = Cardinality(Detaching) - 1
    BY <2>2, TokensFinite, FS_RemoveElement
  <2>4. Covered => Len(tasks') <= Cardinality(Notified') + Cardinality(Detaching')
    BY <2>1, <2>3, TokensFinite DEF NotifyOne, poolVars, Covered
  <2> QED  BY <1>2, <1>5, <2>4 DEF WakeInv, NoIdleWorker, Covered, NotifyOne, poolVars
<1> QED  BY <1>3, <1>4, <1>5 DEF WakeInv, NotifyOne

LEMMA DetachWakes ==
    ASSUME TypeOK, WakeInv, NEW c \in Client, NEW t \in Task, DetachTask(c, t)
    PROVE  WakeInv'
<1>1. pc[c] = "idle" /\ \A d \in Client : pc'[d] = IF d = c THEN "detach_task" ELSE pc[d]
  BY DEF DetachTask, MayCall, Go, TypeOK
<1>2. Unpausing' = Unpausing /\ (Stopping <=> Stopping') /\ Notified' = Notified
  BY <1>1 DEF DetachTask, Unpausing, Stopping, Notified, threadVars
<1>3. WakeShape'
  BY <1>1, <1>2 DEF DetachTask, WakeInv, WakeShape, threadVars
<1>4. Detaching' = Detaching \cup {c} /\ c \notin Detaching
  BY <1>1 DEF Detaching
<1>5. Cardinality(Detaching') = Cardinality(Detaching) + 1
  BY <1>4, TokensFinite, FS_AddElement
<1>6. Len(tasks') = Len(tasks) + 1
  BY AppendProperties DEF DetachTask, TypeOK
<1>7. Covered => Len(tasks') <= Cardinality(Notified') + Cardinality(Detaching')
  BY <1>2, <1>5, <1>6, TokensFinite DEF Covered
<1> QED  BY <1>2, <1>3, <1>7 DEF DetachTask, WakeInv, NoIdleWorker, Covered

LEMMA SpuriousWakes ==
    ASSUME TypeOK, WakeInv, NEW w \in Worker, SpuriousWorker(w)
    PROVE  WakeInv'
<1>1. UNCHANGED <<pc, thread, stop, tasks, paused, Detaching, Unpausing, Stopping>>
  BY DEF SpuriousWorker, clientVars, threadVars, poolVars, Detaching, Unpausing, Stopping
<1>2. Cardinality(Notified') = Cardinality(Notified) + 1
  BY <1>1, NotifiedOne DEF SpuriousWorker
<1>3. WakeShape'
  BY <1>1 DEF SpuriousWorker, WakeInv, WakeShape
<1>4. Covered => Len(tasks') <= Cardinality(Notified') + Cardinality(Detaching')
  BY <1>1, <1>2, TokensFinite DEF Covered
<1> QED  BY <1>1, <1>3, <1>4 DEF SpuriousWorker, WakeInv, NoIdleWorker, Covered

\* Calls and wake-ups of clients, which leave threads and queue alone.
LEMMA ClientWakes ==
    ASSUME NoPausedReset, TypeOK, WakeInv, NEW c \in Client, NEW place \in Places,
           pc[c] \notin {"detach_task", "unpause", "reset_stop", "destroy_stop"},
           place \notin {"detach_task", "unpause", "reset_restore"},
           place \in {"reset", "reset_wait", "reset_stop"} => ~PauseEnabled,
           pc' = [pc EXCEPT ![c] = place],
           UNCHANGED <<tasks, threadVars, available_cv>>, paused' = paused
    PROVE  WakeInv'
<1>1. Detaching' = Detaching /\ Unpausing' = Unpausing /\ (Stopping => Stopping')
  BY OtherPlace
<1>2. NoIdleWorker'
  BY <1>1, SameTokens DEF WakeInv, threadVars
<1>3. \A d \in Client : pc'[d] = IF d = c THEN place ELSE pc[d]
  BY DEF TypeOK
<1>4. WakeShape'
  BY <1>1, <1>3 DEF WakeInv, WakeShape, threadVars
<1> QED  BY <1>2, <1>4 DEF WakeInv

LEMMA WaitDoneWakes ==
    ASSUME NoPausedReset, TypeOK, WakeInv, NEW c \in Client,
           NEW place \in {"wait", "wait_for", "reset_wait", "destroy"},
           pc[c] \in {"idle", "reset", place},
           place = "reset_wait" => ~PauseEnabled,
           WaitDone(c, place), UNCHANGED unchangedByWait
    PROVE  WakeInv'
<1>1. AfterWait(place) \in {"reset_stop", "destroy_stop", "idle"}
      /\ (AfterWait(place) = "reset_stop" => place = "reset_wait")
  BY DEF AfterWait
<1>2. UNCHANGED <<tasks, threadVars, available_cv>> /\ paused' = paused
  BY DEF unchangedByWait
<1>3. PICK q \in {place, AfterWait(place)} : pc' = [pc EXCEPT ![c] = q]
  BY DEF WaitDone, Go
<1>4. q \in Places /\ q \notin {"detach_task", "unpause", "reset_restore"}
      /\ (q \in {"reset", "reset_wait", "reset_stop"} => ~PauseEnabled)
  BY <1>1 DEF Places
<1> QED  BY <1>2, <1>3, <1>4, ClientWakes

\* While the threads are stopped nothing is promised; when they are gone nobody
\* sleeps, and the new threads look at the queue before they do.
LEMMA StopWakes ==
    ASSUME TypeOK, WakeInv, NEW c \in Client, NEW w \in Worker, RequestStop(c, w) \/ Join(c, w)
    PROVE  WakeInv'
<1>1. Stopping /\ Stopping' /\ UNCHANGED <<pc, paused>>
  BY DEF RequestStop, Join, Stopping, clientVars, poolVars
<1>2. CASE RequestStop(c, w)
  BY <1>1, <1>2 DEF RequestStop, LastThread, WakeInv, WakeShape, NoIdleWorker, TypeOK
<1>3. CASE Join(c, w)
  <2>1. w \notin available_cv
    BY <1>3 DEF Join, WakeInv, WakeShape
  <2> QED  BY <1>1, <1>3, <2>1 DEF Join, WakeInv, WakeShape, NoIdleWorker, TypeOK
<1> QED  BY <1>2, <1>3

LEMMA JoinedWakes ==
    ASSUME TypeOK, WakeInv, NEW c \in Client, CreateThreads(c) \/ Destroyed(c)
    PROVE  WakeInv'
<1>1. available_cv = {} /\ \A w \in Worker : ~stop[w]
  BY DEF CreateThreads, Destroyed, AllJoined, WakeInv, WakeShape, TypeOK
<1>2. UNCHANGED <<available_cv, stop, paused>>
  BY DEF CreateThreads, Destroyed, poolVars, threadVars
<1>3. CASE CreateThreads(c)
  <2>1. ~PauseEnabled
    BY <1>3 DEF CreateThreads, WakeInv, WakeShape
  <2>2. \A d \in Client : pc'[d] = IF d = c THEN "idle" ELSE pc[d]
    BY <1>3, <2>1 DEF CreateThreads, Go, TypeOK
  <2> QED  BY <1>1, <1>2, <2>2 DEF WakeInv, WakeShape, NoIdleWorker
<1>4. CASE Destroyed(c)
  <2>1. \A d \in Client : pc'[d] = IF d = c THEN "gone" ELSE pc[d]
    BY <1>4 DEF Destroyed, Go, TypeOK
  <2> QED  BY <1>1, <1>2, <2>1 DEF WakeInv, WakeShape, NoIdleWorker
<1> QED  BY <1>3, <1>4

LEMMA PauseWakes ==
    ASSUME TypeOK, WakeInv, NEW c \in Client, Pause(c) \/ Unpause(c) \/ NotifyAll(c) \/ Purge(c)
    PROVE  WakeInv'
<1>1. UNCHANGED <<thread, stop>>
  BY DEF Pause, Unpause, NotifyAll, Purge, threadVars
<1>2. CASE Pause(c)
  <2>1. UNCHANGED <<pc, Stopping, available_cv>> /\ paused'
    BY <1>2 DEF Pause, clientVars, Stopping
  <2> QED  BY <1>1, <1>2, <2>1 DEF Pause, WakeInv, WakeShape, NoIdleWorker
<1>3. CASE Unpause(c)
  <2>1. pc[c] = "idle" /\ \A d \in Client : pc'[d] = IF d = c THEN "unpause" ELSE pc[d]
    BY <1>3 DEF Unpause, MayCall, Go, TypeOK
  <2>2. Unpausing' # {} /\ (Stopping => Stopping')
    BY <2>1 DEF Unpausing, Stopping
  <2> QED  BY <1>1, <1>3, <2>1, <2>2 DEF Unpause, WakeInv, WakeShape, NoIdleWorker
<1>4. CASE NotifyAll(c)
  <2>1. \A d \in Client : pc'[d] = IF d = c THEN "idle" ELSE pc[d]
    BY <1>4 DEF NotifyAll, Go, TypeOK
  <2>2. Stopping => Stopping'
    BY <1>4, <2>1 DEF NotifyAll, Stopping
  <2>3. paused' = paused /\ available_cv' = {}
    BY <1>4 DEF NotifyAll, poolVars
  <2> QED  BY <1>1, <2>1, <2>2, <2>3 DEF WakeInv, WakeShape, NoIdleWorker
<1>5. CASE Purge(c)
  <2>1. UNCHANGED <<pc, paused, available_cv, Stopping, Unpausing, Detaching, Notified>>
    BY <1>1, <1>5 DEF Purge, clientVars, Stopping, Unpausing, Detaching, Notified
  <2>2. Len(tasks') = 0
    BY <1>5 DEF Purge
  <2>3. Len(tasks') <= Cardinality(Notified) + Cardinality(Detaching)
    BY <2>2, TokensFinite
  <2> QED  BY <1>1, <2>1, <2>3 DEF WakeInv, WakeShape, NoIdleWorker
<1> QED  BY <1>2, <1>3, <1>4, <1>5

LEMMA ResetWakes ==
    ASSUME NoPausedReset, TypeOK, WakeInv, NEW c \in Client, Reset(c) \/ Timeout(c)
    PROVE  WakeInv'
<1>1. CASE Reset(c)
  <2>1. ~PauseEnabled /\ ~paused /\ paused' = paused
    BY <1>1, CallsAssumption DEF Reset, MayCall, NoPausedReset, WakeInv, WakeShape, TypeOK
  <2> QED  BY <1>1, <2>1, ClientWakes DEF Reset, MayCall, Go, Places
<1>2. CASE Timeout(c)
  BY <1>2, ClientWakes DEF Timeout, Go, Places, unchangedByWait
<1> QED  BY <1>1, <1>2

LEMMA InitWakes == Init => WakeInv
BY DEF Init, WakeInv, WakeShape, NoIdleWorker

LEMMA NextWakes ==
    ASSUME NoPausedReset
    PROVE  CountInv /\ WakeInv /\ [Next]_vars => WakeInv'
<1> SUFFICES ASSUME TypeOK, WakeInv, [Next]_vars PROVE WakeInv'
  BY DEF CountInv
<1>1. ASSUME NEW w \in Worker, WorkerStep(w)
      PROVE  WakeInv'
  <2>1. w \notin available_cv /\ thread[w] # "none"
    BY <1>1 DEF WorkerStep, WorkerLoop, WorkerWakes, WakeInv, WakeShape
  <2> QED  BY <1>1, <2>1, TakeOrSleepWakes DEF WorkerStep, WorkerLoop, WorkerWakes
<1>2. ASSUME NEW c \in Client, ClientStep(c)
      PROVE  WakeInv'
  <2>1. CASE ResetWaits(c)
    BY <2>1, WaitDoneWakes DEF ResetWaits, WakeInv, WakeShape
  <2>2. CASE WaiterWakes(c)
    BY <2>2, WaitDoneWakes DEF WaiterWakes, WakeInv, WakeShape
  <2>3. CASE Restore(c)
    BY <2>3 DEF Restore, WakeInv, WakeShape
  <2> QED  BY <1>2, <2>1, <2>2, <2>3, NotifyOneWakes, PauseWakes, StopWakes, JoinedWakes
           DEF ClientStep
<1>3. ASSUME NEW c \in Client, ClientCalls(c)
      PROVE  WakeInv'
  <2>1. ASSUME NEW call \in {"wait", "wait_for", "destroy"}, Wait(c, call)
        PROVE  WakeInv'
    BY <2>1, WaitDoneWakes DEF Wait, MayCall
  <2>2. CASE Destroy(c)
    BY <2>1, <2>2 DEF Destroy
  <2> QED  BY <1>3, <2>1, <2>2, DetachWakes, PauseWakes, ResetWakes DEF ClientCalls
<1>4. ASSUME NEW c \in Client, SpuriousClient(c)
      PROVE  WakeInv'
  <2>1. UNCHANGED <<pc, thread, stop, tasks, paused, available_cv>>
    BY <1>4 DEF SpuriousClient, clientVars, threadVars, poolVars
  <2>2. UNCHANGED <<Detaching, Unpausing, Stopping>>
    BY <2>1 DEF Detaching, Unpausing, Stopping
  <2> QED  BY <2>1, <2>2, SameTokens DEF WakeInv, WakeShape
<1>5. CASE UNCHANGED vars
  <2>1. UNCHANGED <<pc, thread, stop, tasks, paused, available_cv>>
    BY <1>5 DEF vars, clientVars, threadVars, poolVars
  <2>2. UNCHANGED <<Detaching, Unpausing, Stopping>>
    BY <2>1 DEF Detaching, Unpausing, Stopping
  <2> QED  BY <2>1, <2>2, SameTokens DEF WakeInv, WakeShape
<1> QED  BY <1>1, <1>2, <1>3, <1>4, <1>5, SpuriousWakes, ResetWakes DEF Next

\* No wake-up is lost: while a thread sleeps, every task in the queue has a
\* thread already notified, or a client about to notify one.  True of any pool
\* that is not both paused and reset; run BSPoolReset shows why those are not.
THEOREM NoIdleWorkerHolds ==
    ASSUME NoPausedReset
    PROVE  Spec => []NoIdleWorker
<1>1. Init => WakeInv
  BY InitWakes
<1>2. CountInv /\ WakeInv /\ [Next]_vars => WakeInv'
  BY NextWakes
<1>3. WakeInv => NoIdleWorker
  BY DEF WakeInv
<1> QED  BY <1>1, <1>2, <1>3, CountInvHolds, PTL DEF Spec

-----------------------------------------------------------------------------
(* The destructor.                                                         *)

Ending == {"destroy", "destroy_stop", "gone"}

\* The destructor is alone, and what it waited for stays true.
EndInv ==
    /\ \A c \in Client : pc[c] \in Ending => \A d \in Client \ {c} : pc[d] = "idle"
    /\ \A c \in Client : pc[c] \in Ending \ {"destroy"} => AllDone(tasks_running)

LEMMA NothingRuns == CountExact /\ tasks_running = 0 => Busy = {}
  BY BusyFinite, FS_EmptySet DEF CountExact

LEMMA WorkerEnds ==
    ASSUME CountInv, EndInv, NEW w \in Worker, WorkerStep(w)
    PROVE  EndInv'
<1>1. UNCHANGED <<pc, paused>>
  BY DEF WorkerStep, WorkerLoop, WorkerWakes, clientVars
<1>2. ASSUME AllDone(tasks_running)
      PROVE  AllDone(tasks_running)'
  <2>1. thread[w] # "busy"
    BY <1>2, NothingRuns DEF AllDone, CountInv, Busy
  <2>2. TakeOrSleep(w, tasks_running) /\ ~TaskAvailable
    BY <1>2, <2>1 DEF WorkerStep, WorkerLoop, WorkerWakes, AllDone, TaskAvailable
  <2> QED  BY <1>1, <1>2, <2>2 DEF TakeOrSleep, AllDone
<1> QED  BY <1>1, <1>2 DEF EndInv

\* A client that is not the destructor's goes somewhere.
LEMMA OthersEnd ==
    ASSUME TypeOK, ~Closing, NEW c \in Client, NEW place \in Places \ Ending,
           pc' = [pc EXCEPT ![c] = place]
    PROVE  EndInv'
<1>1. \A d \in Client : pc'[d] = IF d = c THEN place ELSE pc[d]
  BY DEF TypeOK
<1>2. \A d \in Client : pc'[d] \notin Ending
  BY <1>1 DEF Closing, Ending
<1> QED  BY <1>2 DEF EndInv

\* The destructor's own wait.
LEMMA WaitEnds ==
    ASSUME TypeOK, NEW c \in Client, \A d \in Client \ {c} : pc[d] = "idle",
           WaitDone(c, "destroy"), UNCHANGED unchangedByWait
    PROVE  EndInv'
<1>1. PICK q \in Ending : pc' = [pc EXCEPT ![c] = q] /\ (q # "destroy" => AllDone(tasks_running))
  BY DEF WaitDone, Go, AfterWait, Ending
<1>2. \A d \in Client : pc'[d] = IF d = c THEN q ELSE "idle"
  BY <1>1 DEF TypeOK
<1>3. AllDone(tasks_running)' <=> AllDone(tasks_running)
  BY DEF AllDone, unchangedByWait
<1> QED  BY <1>1, <1>2, <1>3 DEF EndInv, Ending

LEMMA NextEnd == CountInv /\ EndInv /\ [Next]_vars => EndInv'
<1> SUFFICES ASSUME CountInv, EndInv, [Next]_vars PROVE EndInv'
  OBVIOUS
<1> USE DEF CountInv
<1>1. ASSUME UNCHANGED <<pc, tasks, tasks_running, paused>>
      PROVE  EndInv'
  BY <1>1 DEF EndInv, AllDone
<1>2. ASSUME NEW c \in Client, pc[c] # "idle", pc[c] \notin Ending
      PROVE  ~Closing
  BY <1>2 DEF EndInv, Closing, Ending
<1>3. ASSUME NEW w \in Worker, WorkerStep(w) \/ SpuriousWorker(w)
      PROVE  EndInv'
  BY <1>1, <1>3, WorkerEnds DEF SpuriousWorker, clientVars, poolVars
<1>4. ASSUME NEW c \in Client, ClientStep(c)
      PROVE  EndInv'
  <2>1. CASE NotifyOne(c) \/ NotifyAll(c)
    BY <1>2, <2>1, OthersEnd DEF NotifyOne, NotifyAll, Go, Places, Ending
  <2>2. CASE CreateThreads(c) \/ Restore(c)
    BY <1>2, <2>2, OthersEnd DEF CreateThreads, Restore, Go, Places, Ending
  <2>3. CASE Destroyed(c)
    <3>1. \A d \in Client : pc'[d] = IF d = c THEN "gone" ELSE pc[d]
      BY <2>3 DEF Destroyed, Go, TypeOK
    <3>2. pc[c] = "destroy_stop" /\ UNCHANGED poolVars
      BY <2>3 DEF Destroyed
    <3> QED  BY <3>1, <3>2 DEF EndInv, Ending, AllDone, poolVars
  <2>4. CASE ResetWaits(c) \/ (WaiterWakes(c) /\ pc[c] # "destroy")
    <3>1. PICK place \in {"wait", "wait_for", "reset_wait"} : WaitDone(c, place)
      BY <2>4 DEF ResetWaits, WaiterWakes
    <3>2. ~Closing
      BY <1>2, <2>4 DEF ResetWaits, WaiterWakes, Ending
    <3>3. PICK q \in {place, AfterWait(place)} : pc' = [pc EXCEPT ![c] = q]
      BY <3>1 DEF WaitDone, Go
    <3>4. q \in Places \ Ending
      BY <3>1, <3>3 DEF AfterWait, Places, Ending
    <3> QED  BY <3>2, <3>3, <3>4, OthersEnd
  <2>5. CASE WaiterWakes(c) /\ pc[c] = "destroy"
    BY <2>5, WaitEnds DEF WaiterWakes, EndInv, Ending
  <2>6. ASSUME NEW w \in Worker, RequestStop(c, w) \/ Join(c, w)
        PROVE  EndInv'
    BY <1>1, <2>6 DEF RequestStop, Join, clientVars, poolVars
  <2> QED  BY <1>4, <2>1, <2>2, <2>3, <2>4, <2>5, <2>6 DEF ClientStep
<1>5. ASSUME NEW c \in Client, ClientCalls(c)
      PROVE  EndInv'
  <2>1. ASSUME NEW t \in Task, DetachTask(c, t)
        PROVE  EndInv'
    BY <2>1, OthersEnd DEF DetachTask, MayCall, Go, Places, Ending
  <2>2. CASE Unpause(c) \/ Reset(c)
    BY <2>2, OthersEnd DEF Unpause, Reset, MayCall, Go, Places, Ending
  <2>3. CASE Pause(c) \/ Purge(c)
    BY <2>3 DEF Pause, Purge, clientVars, MayCall, Closing, EndInv, Ending
  <2>4. ASSUME NEW call \in {"wait", "wait_for"}, Wait(c, call)
        PROVE  EndInv'
    <3>1. ~Closing  BY <2>4 DEF Wait, MayCall
    <3>2. PICK q \in {call, "idle"} : pc' = [pc EXCEPT ![c] = q]
      BY <2>4 DEF Wait, WaitDone, Go, AfterWait
    <3> QED  BY <3>1, <3>2, OthersEnd DEF Places, Ending
  <2>5. CASE Destroy(c)
    BY <2>5, WaitEnds DEF Destroy, Wait
  <2> QED  BY <1>5, <2>1, <2>2, <2>3, <2>4, <2>5 DEF ClientCalls
<1>6. ASSUME NEW c \in Client, Timeout(c)
      PROVE  EndInv'
  BY <1>2, <1>6, OthersEnd DEF Timeout, Go, Places, Ending
<1>7. ASSUME NEW c \in Client, SpuriousClient(c)
      PROVE  EndInv'
  BY <1>1, <1>7 DEF SpuriousClient, clientVars, poolVars
<1>8. CASE UNCHANGED vars
  BY <1>1, <1>8 DEF vars, clientVars, poolVars
<1> QED  BY <1>3, <1>4, <1>5, <1>6, <1>7, <1>8 DEF Next

\* When the destructor has returned, every task was run or purged, unless the pool was paused:
\* while the threads are stopped one by one, nothing is submitted and nothing is left.
THEOREM DestroyedDoneHolds == Spec => []DestroyedDone
<1>1. Init => TaskInv /\ EndInv
  BY InitTasks DEF Init, EndInv, Ending
<1>2. CountInv /\ TaskInv /\ EndInv /\ [Next]_vars => (TaskInv /\ EndInv)'
  BY NextTasks, NextEnd
<1>3. CountInv /\ TaskInv /\ EndInv => DestroyedDone
  <2> SUFFICES ASSUME CountInv, TaskInv, EndInv, NEW c \in Client, pc[c] = "gone", ~paused
               PROVE  submitted = completed \cup discarded
    BY DEF DestroyedDone
  <2>1. tasks_running = 0 /\ tasks = <<>>
    BY DEF EndInv, Ending, AllDone
  <2>2. Queued = {}
    BY <2>1 DEF Queued
  <2>3. \A w \in Worker : doing[w] = NoTask
    BY <2>1, NothingRuns DEF CountInv, Busy, TaskInv, AtRest
  <2>4. Doing = {}
    BY <2>3 DEF Doing
  <2> QED  BY <2>2, <2>4 DEF TaskInv, TaskOnce
<1> QED  BY <1>1, <1>2, <1>3, CountInvHolds, PTL DEF Spec

=============================================================================
