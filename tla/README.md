# fast_db: specifications, model checks and proofs

TLA+ models of the concurrent and distributed parts of fast_db. Line numbers
are those of the files under `src/` (`raft.cc:216` is `src/test/raft/raft.cc`,
line 216); `README.md:40` with no other path is `src/test/raft/README.md`, the
document that says what the Raft servers promise; `BS:1538` is
`src/src/common/thread_pool/BS_thread_pool.hpp`, line 1538.

1. [The system](#1-the-system): parts, state, interaction, what is hard
2. [The modules](#2-the-modules): what models what, and how
3. [The runs](#3-the-runs): questions, bounds, fairness, results
4. [The theorems](#4-the-theorems): what is proved, from what, and how
5. [Where the code and its documents differ](#5-where-the-code-and-its-documents-differ)
6. [What is not modelled](#6-what-is-not-modelled)
7. [Plan](#7-plan)

## 1. The system

fast_db is a C++20 code base of utilities for a database server: a Raft
implementation, thread pools, concurrent containers and locks, a small
key-value store speaking the Redis protocol, and a Redis client.

| Part | State | Operations | Why it is hard |
|---|---|---|---|
| Raft server, `test/raft/raft.{h,cc}` | role, term, vote, heartbeat and vote counts, log, commit and applied indexes, next and match vectors | `Start Stop ReStart AddLog ApplyLogVec`, the loops `Update` and `Election`, the handlers `RequestVote ReplyVote RequestAppendEntries ReplyAppendEntries` | every call to another server is a task on a thread pool: tasks of any age run in any order; servers stop and restart between any two steps; requests are repeated while they are pending; timers race with answers |
| Raft task pool, `test/raft/thread_pool.h` | queue of coroutine handles, its mutex and condition, a stop flag, threads | `submit put take destroy worker` | shutdown joins workers that run endless loops |
| Raft object factory, `test/raft/objfactory.h` | map from ids to weak references, set of ids, mutex | `Get GetAllObjKey DeleteObj RemoveObj` | the last reference dies while `Get` looks the object up; the set is read without the lock |
| `BS::thread_pool`, `src/common/thread_pool` | task queue, `tasks_running`, `waiting`, `paused`, two condition variables | `detach_task wait wait_for pause unpause purge reset worker` | one flag `waiting` shared by all waiters; conditions made true without a notification |
| `LockFreeMap`, `LockFreeList`, `LockFreeMapExprise` | buckets of linked nodes, a lock per bucket, a count | `insert find remove resize clear`, the expiration loop | `resize` moves the table under readers and writers; unlocked reads race with deletes |
| Locks, `mutex_utils.cppm`, `async_mutex.h` | flags, counts, mutexes | lock, unlock, `post`, `wait` | who unlocks what the readers locked; the semaphore's initial count |
| `SafeQueue`, `queue_utils.cppm` | a queue and a mutex | `enqueue dequeue empty size` | each is one critical section |
| Key-value store, `src/db/values.h` | per slot: data and expiration times; sessions share the slots | `SET GET DEL HSET HGET EXPIRE`, the parser of requests | expiration is lazy, and only `GET` looks at it |
| Redis client, `src/redis/redis_asio.hpp` | a socket | one function per command that builds its request | counts and lengths of what follows, with options, empty texts and line ends in them |
| String utilities, `string_util.cppm` | - | trimming, searching, comparing, `Strtok` | positions are unsigned and `npos` is one of them: sums and differences wrap around |
| IoC container, other utilities, logging, deprecated HTTP and MySQL code, vendored libraries | - | - | no state of their own worth a model, or not this project's code |

How they interact: the Raft servers use the object factory to find each other
and the Raft task pool to call each other; `Start` puts the server's endless
`Update` loop on the pool, and `Update` an `Election` loop on a timeout. Object
0 of the factory is no server: it prints. It is never started, so requests to
it are dropped at their first test; but it is a key of the factory, and the
servers count keys. The other parts are independent libraries.

What makes each part correct, in one sentence each: at most one leader in a
term, agreement on what is committed, and every entry in the end applied (Raft
server); every submitted task run once (pools), and no waiter left behind
(`BS::thread_pool`); one live object for each key (factory); a map that holds
exactly what was inserted and not removed (containers); mutual exclusion
(locks); no value before its `SET` or after its expiration (store); what the name of
each function says, for edge cases too (strings).

Everything above that a test would hardly reach is listed, line by line, under
`hazards` in `PROJECT.json`, with the properties that cover it.

## 2. The modules

| Module | What it is |
|---|---|
| `Raft` | the servers and the bag of submitted tasks: `Init`, one action per method or loop iteration, `Next`, `Spec` |
| `RaftProperties` | type invariant, safety invariants, action properties, the refinement mapping |
| `ReplicatedLog` | the abstract specification: each server learns a growing sequence, all in agreement |
| `RaftSteady` | `Raft` from the moment a leader is elected, with no further election |
| `RaftTimed` | `Raft` with timers and tasks as on an idle machine; fairness and liveness |
| `RaftProofs`, `RaftLogProofs`, `RaftSteadyProofs` | the theorems |
| `BSThreadPool` | `BS::thread_pool`: workers, clients, the mutex and the two condition variables |
| `BSThreadPoolProperties` | its invariants and liveness properties |
| `TaskPool` | the Raft servers' pool: queue, workers, stop flag, destructor |
| `ObjFactory` | the Raft servers' factory: `Get`, releases, the deleter |
| `ReadWriteLock`, `ReadersOrWriter` | `readWriteLock`, and the abstract lock it implements |
| `SpinLock`, `Semaphore` | the spin locks and the semaphore |
| `LockFreeMap`, `LockFreeList` | the containers, one atomic operation at a time |
| `NodeChain`, `Multimap` | the path along a chain of nodes; the abstract container both implement |
| `SlotStore` | the store's slot under its commands and a clock |
| `RedisCommand` | the Redis client's requests as bytes, and a reader of them |
| `DetachBlocks` | class `blocks` and the loop of `detach_blocks` |
| `StringUtil` | trimming, searching, comparing, and the loop of `Strtok` |
| `BSThreadPoolProofs`, `LockProofs`, `ContainerProofs` (map and list), `RaftPartsProofs` (pool and factory), `DataProofs` (store, blocks, strings and requests) | their theorems |
| `MCRaft`, `MCRaftSteady`, `MCRaftTimed`, `MCBSThreadPool` | the above with symmetry sets, for TLC |
| `MCParts` | the eleven smaller parts for TLC, one in each behaviour |

Each module states its own properties, except that those of `Raft` and of
`BSThreadPool` have a module of their own.

### Correspondence with the code (`Raft`)

Each method of `raft::server` locks the object's mutex first and unlocks it
last, and calls no other server directly: one method, or one iteration of a
loop, is one atomic action. Each variable is a member of the same name without
`m_`, as a function on the servers.

* **Calls.** `thread_pool::submit` puts a lambda on the pool's queue; 100
  workers take them. The queue is first in first out, but two workers that took
  two tasks may reach the server's mutex in either order, and a preempted one
  arbitrarily later. So the pending calls are a *bag*: any of them may be next.
  A bag and not a set because `Update` submits the same request again each
  300 ms. Every task runs exactly once: none is lost or duplicated. A request
  is lost only by being run on a stopped server (`Dropped`).
* **`Update`** is four actions by role (raft.cc:133-168), each with the commit
  and apply code after the switch (`CommitAndApply`). A tick of a stopped
  server changes nothing. The requests carry the commit index from *before*
  the tick's commit, as in the code.
* **`Election`** loops are counted per server in `elections`: `UpdateTimeout`
  adds one, `ElectionBreak` ends one (stopped, or no candidate any more),
  `ElectionRound` asks for votes and goes back to sleep.
* **The index vectors** have a slot per key, object 0 included. Slot 0 and the
  leader's own stay 0, so only the slots of `Server` are stored, and `MidIndex`
  puts object 0's zero back when it takes the middle of the sorted vector.
  A server with empty vectors (restarted) has `NoVec`.
* **Undefined behaviour.** `m_log_vec[mid_index]` may read past the end of the
  vector (raft.cc:178): the comparison may then come out either way, and
  `NewCommitIndex` offers both.
* **Data.** A client's string is a model value; the content `ToLeader:<id>` is
  the id. `is_server` is whether the content is a client's.
* All objects exist from the start, as in the state their constructor leaves
  them in. `Start` is called once for each, `ReStart` only on a stopped server
  that was started before: what the test does (raft_test.cpp).
* Bounds: `MaxTerm`, `MaxLog`, `MaxTasks` and `MaxElections` are guards of the
  actions that would pass them (`ElectionRound`, `AddLog`/`ToLeader`, `Submit`,
  `UpdateTimeout`). The theorems hold whatever they are.

Operators introduced as "a slip" (`OverwriteShort`, `FollowLeaderKeepsRole`,
...) are plausible bugs: no specification uses them. They show that each
checked property would catch one.

### `RaftSteady`

`SteadyInit` is the state after server `Boss` timed out first, won term 1 with
everybody's vote, and all answers have been run. It is reachable in `Raft` (TLC
finds it as a violation of its negation). `SteadyNext` is `Next` as long as no
`Election` loop starts: nothing else is restricted, so requests and replies of
any age run in any order, and all servers, `Boss` too, stop and restart.
`SteadyInv`, the inductive invariant of its proofs, is stated there.

`PromptNext` is `SteadyNext` with one assumption of `RaftTimed`: no server ticks while
a task is pending. The servers tick in any order and as often as they like, and stop
and restart between any two steps. What fails with old tasks in flight (section 5)
holds for this leader; `PromptInv` says how.

### `RaftTimed`

The code's order of events rests on times: 300 ms ticks, 100 to 300 ms of
election sleep, tasks that run at once. Under `Spec` alone two leaders are
easily elected. `RaftTimed` adds two assumptions, and only those: *prompt
tasks* (no tick and no wake-up while a task is pending; the pending tasks still
run in any order) and *equal timers* (in one period of 300 ms every started
server ticks exactly once, in any order). Stops and restarts come at any
moment, between two tasks too.

### `ReplicatedLog`

No terms, votes or messages: `learned[s]` grows, and any two are in agreement.
The mapping is `learned[s]` = the entries of `s`'s log up to its commit index.

### `BSThreadPool`

All members are read and written in critical sections of one mutex, so one
critical section is one action, and what a method does outside is another:

* **Condition variables** are the sets of the threads blocked on them. To wait
  is to join the set in the critical section in which the predicate was false;
  to notify is to leave the set; a thread outside the set evaluates its
  predicate again when it has the mutex (`WorkerWakes`, `WaiterWakes`). Any
  thread may wake up for no reason (`SpuriousWorker`, `SpuriousClient`).
* **A worker** is busy (running `init_func` or a task), in the wait for tasks,
  ended, or not there. `WorkerLoop` is the critical section from BS:1919: count
  out, notify the waiters if there may be any, then take a task or sleep
  (`TakeOrSleep`). `doing` is the task it runs; the end of the task and the next
  critical section are one step, since nothing can be seen between the two.
* **`detach_task` and `unpause`** notify after they have unlocked: two actions
  each (`DetachTask`, `NotifyOne`; `Unpause`, `NotifyAll`). `pause` and `purge`
  notify nobody.
* **`wait`** sets `waiting` on entry, not again when it wakes up, and clears it
  when its predicate holds (`WaitDone`). `wait_for` may also return at any time
  while it sleeps (`Timeout`), and clears the flag then too.
* **`reset`** pauses the pool if pausing is enabled, waits, destroys the threads,
  creates new ones and restores `paused`: several actions, and between them
  everything else may happen. The **destructor** waits and destroys the threads.
  The project is C++23 (`CMakeLists.txt`), where threads are `jthread`s: the
  array's elements are destroyed from last to first, each one asked to stop and
  joined before the next (`RequestStop`, `Join`). A request to stop wakes a
  thread out of its wait.
* **Callers** follow what the class demands: no call while the destructor runs,
  one reset at a time (`threads` has no lock), and no wait by the pool's own
  tasks. `Calls` says which functions the clients of a run use.
* **Data.** A task is a model value, submitted once; `submitted`, `completed` and
  `discarded` remember what became of it.

### `DetachBlocks`

The class `blocks` as a record and operators (`Divide`, `start`, `end`), and the
loop that submits a task per block. The remainder is shared by the first blocks.
The constructor's correction for a block size of 0 is not in the model since it
is never needed: `DivideFacts` proves that the size is at least 1. The loop runs
in one thread: the module is about numbers, not interleavings.

### `TaskPool` and `ObjFactory`

The pool is the build with coroutines. `put`, `take` and `destroy` are critical
sections of one mutex and notify inside it, so each is one action; `m_cv` is
the set of the blocked workers. A coroutine is a task. `EndlessTask` are the
servers' `Update` loops and the `Print` loop; the test has fewer of them than
workers (`WorkersAssumption`), and without that a task that was put could wait
for good. When the stop flag is set `take` returns nothing even if tasks are
left (thread_pool.h:53); the pool destroys those once its workers are joined.

In the factory `Get` and `RemoveObj` hold the mutex, but the last reference is
released without it (`Release`). Between that and the deleter's `RemoveObj` the
entry is expired and still in the map, and `Get` may replace it; `RemoveObj`
looks again before it erases. `GetAllObjKey` reads the set without the lock and
is no action; `KeysAreTheirs` says what the set is between two critical sections.

### `ReadWriteLock`, `SpinLock`, `Semaphore`

A mutex is its holder. `readLock` is three steps (`EnterRead`, `LockOutWriters`
for the first reader only, `BeginReading`), `readUnlock` two (`LeaveRead`,
`ReadUnlocked`). The first reader locks `writeMtx` and the last unlocks it, often
another thread: the standard leaves that undefined, and the mutexes of the builds (pthread's default, SRWLOCK)
keep no owner and become free. A spin lock's step is one atomic operation on the
flag with the local assignments around it: `spin_mutex` compares and swaps,
`SpinLock` exchanges and then watches. The semaphore is the build without
`HAVE_SEM`; its critical sections are the actions, and spurious wake-ups are
among them.

### `LockFreeMap` and `LockFreeList`

A step is what another thread can see at once: an atomic operation, a store to a
node, or what is done under a lock that everybody who looks takes. A value is
named by its node, and a node is never used again. `find`'s plain reads of `next`
next to `insert`'s writes are data races; on the builds' machines an aligned
pointer is read whole, old or new, and that is what `Walk` does.

A thread that touches a deleted node, or a bucket of a table that `resize` has
replaced, is undefined behaviour, and no property could hold after it. So
`Usages` and `ListUsages` are the ways to use the containers that have none:
inserts with removes; inserts with finds; everything by one thread, with growing
and `clear`; pushes with pushes. That they have none is not assumed but checked:
`NoStaleAccess`. The theorems are about the usages `Undisturbed` (section 4), whose
table does not grow; growing and `clear` by one thread are checked by TLC alone.
A weak compare-and-swap may fail for no reason (`SwapFails`).
`sure` remembers whether a `find` began after an insert of its key had returned.

### `SlotStore` and `RedisCommand`

A session's handler calls `Slot` once and waits only after that, in an
`io_context` of one thread: a command is one action. Times are in seconds, and a
key is expired when the clock is *past* its time (values.h:177). `timed` is
history: the keys given a time since they were last deleted. HGET changes nothing
and has no action.

`RedisCommand` has every function of the client that builds a request: a set of
records per namespace, with the options `SET` and the sorted sets have.
`generate_command` makes bytes of them: a byte of a caller's text is a symbol,
and so is a number or a keyword, since how digits are written does not matter to
any property. CR and LF are bytes like others. `Read` reads as the protocol says.

### `StringUtil`

A string is a sequence of character codes. Positions are those of the code, from 0,
of an unsigned type of `SizeBits` bits whose greatest value is `npos`; a small width
is enough, since all that matters is that no length comes near `npos`
(`SizeAssumption`). The functions of `std::string` they call stand in a section of
their own, and what they do with `npos` is what the standard says. A round of
`Strtok`'s loop is a step (the two overloads have the same loop); the others are
operators, on the two strings of the state.

### `MCParts`

The parts share nothing in the code. `chosen` picks the part of a behaviour, the
others stay in one initial state: the state spaces are added, not multiplied.

## 3. The runs

Each run asks its own question. All were complete state graphs.

| Run | Question | Instance | States |
|---|---|---|---|
| `RaftPair` | Do the logs keep their shape, and a leader its log, whatever the schedule, through stops and elections of two terms? | 2 servers, both stoppable, limit 2 ticks, terms to 2, logs to 3, 2 pending tasks per submission | 650,915 |
| `RaftSteadyPass` | Under one leader, does each log stay a prefix of the leader's, and is nothing committed ever cut, with requests of any age? | 3 servers, all stoppable, logs to 4 entries, 3 pending tasks | 1,153,559 |
| `RaftTimedCrash` | On an idle machine with one crash at any moment and a new election, do the servers implement the replicated log, is what the leader records and commits really there, and who is left without an `Election` loop? | 3 servers, one stop, limit 2, terms to 2, logs to 3 | 1,548,433 |
| `RaftTimedLive` | Is a leader elected for good, and every entry applied everywhere? | 3 servers, the code's limit of 6, no stops | 32,612 |
| `BSPoolFull` | With every member function, is the count of running threads exact and each task in one place? | 2 clients that call anything, 3 tasks, 1 to 3 threads after a reset | 332,659 |
| `BSPoolLive` | Is a notification ever lost, is every task run, does `wait` return, and does the destructor leave nothing undone? | 2 clients, one of which waits, resets and destroys; 1 to 3 threads, 3 tasks | 37,538 |
| `Parts` | Does each of the eleven smaller parts keep its promise? | below | 43,918 |

The parts of `Parts`, and the states of each:

| Part | Instance | States |
|---|---|---|
| lock | 3 threads that read and write | 753 |
| spin | 3 threads, both kinds of lock | 73 |
| semaphore | 3 waiting threads, posts of 0 to 2, 4 in all | 272 |
| map | 2 threads with 2 keys in one bucket and 3 nodes (inserts and removes; inserts and finds); 1 thread, 5 nodes, a table that grows from 1 bucket to 2 | 19,777 |
| list | 3 threads that push; 1 that pushes and removes; 3 nodes | 6,698 |
| slot | 2 keys, strings and maps, times of -1 to 1 second, a clock to 2 | 2,772 |
| pool | 2 workers, 3 tasks, one of them endless | 378 |
| factory | 2 ids, 3 objects, 2 references to each | 657 |
| blocks | all ranges between -3 and 8, 0 to 12 blocks, pools of 1 to 3 | 2,345 |
| request | all commands, vectors of up to 2, texts with nothing, a byte or a line end | 5,426 |
| string | strings of up to 3 of four characters, with others of up to 2 | 4,767 |

What they check:

* `TypeOK`: types; the two index vectors are sized together, so no handler
  indexes an empty one after a restart.
* `LogIndexed`: an entry is where its index says, in every log, though requests
  of several leaders truncate and overwrite in any order.
* `LeaderAppendOnly`: README.md:73. Another leader's request must first make
  the server a follower.
* `StuckOnlyByStops`: README.md:50, with stops. A candidate goes on asking for votes
  over split votes and answers of all kinds; each stop leaves one candidate at most
  without its loop. The run has such candidates, restarted too, also next to an
  elected leader (section 5).
* `FollowsBoss`, `CommittedNotTruncated`: old, shorter requests do truncate
  acknowledged entries, but never committed ones, and never make logs diverge.
* `StateMachineSafety`: README.md:25. `RaftTimedCrash` checks it through a crash and a
  re-election, with two leaders in one term among the behaviours (`ElectionSafety` fails
  there as in `RaftTwoLeaders`): in none of them do two servers commit different entries. `ImplementsReplicatedLog` says more: what a server has committed it
  keeps. Under one leader it is proved for any schedule of the tasks (section 4); with
  elections it needs prompt tasks (section 5).
* `MatchHonest`, `CommitReplicated`: README.md:65 and raft.h:155. They hold with
  prompt tasks, also across one crash, and need the promptness (section 5).
  `PromptInv`, which is proved (section 4) and belongs to no run, says why they hold
  under one leader. `RaftSteadyPass.cfg` with `PromptSpec` and `PromptInv` in place of
  its specification and properties has TLC check it, on 8,981 states.
* `LeaderForGood`, `EveryEntryApplied`: README.md:36, 63.
* `CountExact`: `tasks_running` is what `wait` and the workers take it for, over
  resets and the destructor too; with it, `TypeOK` says that the unsigned count
  does not wrap.
* `TaskOnce`: no task is lost, run twice, or run after a purge.
* `NoIdleWorker`: while threads sleep and tasks may be taken, each queued task has
  a thread already notified or a client about to notify one. This is the
  invariant behind notifying after the unlock. The run has no pauses; the
  theorem has (section 4).
* `DestroyedDone`, `EveryTaskRuns`, `WaitReturns`: what the documentation of the
  destructor, `reset` and `wait` promises.
* `EachIndexOnce`: `detach_blocks` is the loop over the range (BS:1303). That the
  sizes of the blocks differ by one at most (`Balanced`) is proved, not run.
* `ImplementsLock`, `SomeoneEnters`: the read-write lock is the abstract one,
  although `writeMtx` passes from reader to reader; and although the first reader
  waits for it with `readMtx` locked, nobody waits for each other. That one
  *certain* thread gets in is not promised: readers may keep writers out.
* `SpinExclusion`: with `expected` as a failed swap left it and reset.
* `NoLostPost`, `PostsTaken`: `post(1)` notifies one thread, and another may take
  the count first; still no count stays while somebody sleeps with no one awake
  to take it.
* `ChainsWhole`, `NoStaleAccess`, `FindSees`, `ImplementsMap`: no node leaks, is in
  two buckets or is touched once deleted; a find without a lock misses no key
  whose insert had returned; the map is a multimap at every step.
* `ImplementsBag`: the same for the list, over failed compare-and-swaps.
* `KeptUnlessTimed`, `AnswersChange`: a key nobody gave a time since it was last
  deleted never expires, although EXPIRE may precede SET; no command changes the
  answer for another key, and deleting in a `GET` changes no answer at all.
* `PoolTaskOnce`, `PutIsTaken`, `CloseReturns`: no wake-up of the Raft pool is lost;
  the destructor returns if no endless task is running when it begins.
* `OneAlive`, `KeysAreTheirs`: whoever asks for an id has the same object; the
  ids of the set, whose number is the servers' quorum, are the live objects'.
* `ReadsBack`: a reader of the protocol gets from each request its command, parts
  and options, with nothing left over.
* `StringsAgree`: the middle of the string is what `Trim` leaves, also if that is
  nothing; the searches find prefixes, suffixes and parts, and `EndsWith` says yes at
  one length more, and at no other, where it should not (section 5); `Strtok` makes the pieces between the separators; the two comparisons without
  case, which go about it differently, agree.

**Bounds.** Two servers are enough for two leaders of different terms to
overwrite each other's logs; three are the least with a real majority, a lost
follower and a split vote. Logs of length 3 hold the start entry, one leader's
entry and one more (a client's or another leader's), enough to truncate below,
at and above a commit index. Two terms give one re-election. Pending tasks: the
bound limits when a *round of requests* may be sent, so two rounds of the same
leader may be pending in `RaftPair`, and a round plus the replies of the last
in `RaftSteadyPass`. `HeartbeatLimit` is smaller than the code's 6 except in
the liveness run, where it matters: it only moves the moment of a timeout that
the untimed runs allow at any moment anyway. In `RaftTimedLive` terms never
pass 1 and so never meet `MaxTerm`; the log bound stops clients, not the
protocol. `RaftTimedCrash` does not check deadlock: once a leader of term 2 is
needed and the log is full, the bounds stop it.

Three threads and three tasks are the least for a pool in which one thread
runs, one sleeps and one has just been notified while two tasks are queued; two
clients that may call everything interleave any two calls. A reset picks any
number of threads up to three, so the pool also shrinks. The two runs do not
check deadlock because a destroyed pool stops. `BSPoolLive` has one waiter and
no pause or purge, because with those its properties fail (section 5 says how;
`BSPoolReset` and `BSPoolWaiters` are the runs with a paused reset and with two waiters). Ranges of
up to eleven indices have all the remainders of up to eleven blocks.

In `Parts`, three threads are the least for a reader, the reader that comes or goes
meanwhile, and a writer, and for a post, a sleeper and a thief of the count. Two
threads and three nodes give every interleaving of two operations on a bucket that
has a node before, at and behind theirs; five nodes make a table of one bucket
grow (four per bucket) and insert once more. Three objects let one id be replaced
while another's deleter is pending. A time of -1 is expired when given, and a
clock to 2 lets one of 1 expire and the key be set again. Strings of three
characters have a middle and two ends; the four characters are a separator, one letter
in both cases, and one that differs from the separator as the cases of a letter do.
Deadlock is not checked:
the factory runs out of objects, the loops over blocks and strings and the requests end,
and a closed pool stops.

**Fairness** of `RaftTimed`. Weak fairness of each server's start (the test
starts all), of each server's tick (an endless loop that sleeps 300 ms), of
each wake-up of an `Election` loop (it sleeps at most 300 ms), and of running
*some* pending task (a free worker takes one; weak fairness of the whole is
enough since each task is run once and ticks wait for an empty bag). Nothing is
assumed of clients, `Stop` and `ReStart`.

**Fairness** of `BSThreadPool` (`FairSpec`). Weak fairness of each worker and of
each client inside a call: threads the operating system runs, on a mutex that
is free again and again, with tasks that end. Weak fairness is enough because
nothing disables a thread that waits for the mutex for good, except the
predicate it waits for. Nothing is assumed of new calls, of time-outs and of
spurious wake-ups, which could otherwise hide a lost notification.

**Fairness** of the parts. `LockFairness`: weak fairness of each thread that is
inside a method or has the lock; critical sections end. `SemFairness`: weak
fairness of each thread inside `wait`. `PoolFairness`: weak fairness of each worker,
between tasks and in those that return (none of the endless ones), and of the
destructor once all workers have ended. No fairness of calls, posts and submits,
nor of spurious wake-ups.

## 4. The theorems

### Raft

`RaftProofs`, `RaftLogProofs` and `RaftSteadyProofs` prove, for every set of servers
and values, every bound and every schedule of the tasks:

| Theorem | Statement |
|---|---|
| `TypeCorrect` | `Spec => []TypeOK` |
| `StuckOnlyByStopsHolds` | `TimedSpec => []StuckOnlyByStops` |
| `LogInvHolds` | `Spec => []LogInv` |
| `LogIndexedHolds` | `Spec => []LogIndexed` |
| `CommittedNotTruncatedHolds` | `Spec => CommittedNotTruncated` |
| `LeaderAppendOnlyHolds` | `Spec => LeaderAppendOnly` |
| `FollowsBossHolds` | `SteadySpec => []FollowsBoss` |
| `StateMachineSafetyHolds` | `SteadySpec => []StateMachineSafety` |
| `SteadyImplements` | `SteadySpec /\ []CommitWithin => ImplementsReplicatedLog` |
| `PromptInvHolds` | `PromptSpec => []PromptInv` |
| `MatchHonestHolds` | `PromptSpec => []MatchHonest` |
| `CommitReplicatedHolds` | `PromptSpec => []CommitReplicated` |
| `PromptImplements` | `PromptSpec => ImplementsReplicatedLog` |

*Assumptions*: only `ServerAssumption` (a finite, non-empty set of ids without
0), `BossAssumption` (the boss is one of them, where there is one) and
`BoundAssumption` (the bounds are natural numbers).

*Argument.* `TypeOK` is inductive because it says that the two vectors are
sized together; without that, `ReplyAppendEntries` could update a missing
vector. The proof has one lemma per operation; `RunTasks` and `SubmitTasks` say
all that is needed of the bag: a step adds no task but the ones it submits.

`StuckOnlyByStops` is about the timed specification, in which `stops` counts the stops, for
any servers that may be stopped and any number of stops. It is not inductive: a loop
ends after the stop, when it wakes up. `StuckInv` bounds `Hit` instead, the servers that
are stopped or stuck. A stop adds one server to it (`HitCounts`) and no other step adds
any: a timeout makes a candidate and starts its loop at once, the loop ends only in a
stopped server or in one that is no candidate, and a restart at worst turns a stopped
server into a stuck one.

`LogIndexed` alone is not inductive: a pending request could carry entries from
anywhere. `LogInv` adds that the entries of each pending request follow its
`pre_log_index`, and begin with the start entry when there is no such index;
and that a server in state `None` is stopped with no log, so no handler ever
writes a log that `Start` has not begun. `AppendEntriesToIndexed` shows that
leaders build such requests, `OverwriteIndexed` that running one keeps the log
indexed. `LogStep` then says how a step may change one log (not at all, begin
it, append to it, overwrite it by an accepted request), and the two action
properties follow: an accepted request reaches beyond the commit index, and
makes its server a follower.

`FollowsBoss` is not inductive either: a pending request could hold anything.
`SteadyInv` adds that the roles and terms are those of `SteadyInit`, and that each
pending request carries a piece of the *present* log of the leader from where it
says (`Piece`). The leader only appends, so old requests stay pieces of it
(`TasksStaySteady`); the leader builds such pieces whatever its index vectors say;
and an accepted piece makes a log that is a prefix again. Agreement on what is
committed follows, since all committed entries are the leader's.

`SteadyImplements` has the hypothesis `CommitWithin`: the leader's commit index lies in
its own log. It may not, because of the read outside the vector (raft.cc:178), and
then a follower's commit index can move back (section 5), which the abstract log
forbids. Under it, no heartbeat asks to commit more than it makes sure of
(`HeartbeatsSure`), commit indexes only grow, and each step is a step of
`ReplicatedLog` or a stutter.

With prompt tasks that hypothesis is a theorem. `PromptInv` says that each follower
has one task in flight, a request or its reply (`OneInFlight`): a tick sends one to each
only when none is pending. So next and match index do not move between a request and
its reply, a request begins at the next index, which lies in the follower's log, and no
request cuts one (`NothingCut`). A reply of success is then about entries the follower
has, and one of failure names its commit index, which lies in its log
(`IndexesHonest`). The middle of the vector with its two zeros is a value that a majority
has acknowledged (`MidIndexReached`: the servers below it are less than half), so what
the leader commits a majority holds (`CommitReaches`) and the leader too: `CommitWithin`,
and `PromptImplements` follows from `SteadyImplements`. Stops and restarts lose tasks and
the leader's vectors at any moment; no log and no acknowledged entry goes with them.

### BS::thread_pool

`BSThreadPoolProofs`, for any clients, tasks and numbers of threads:

| Theorem | Statement |
|---|---|
| `TypeCorrect`, `CountExactHolds` | `Spec => []TypeOK`, `Spec => []CountExact` |
| `TaskOnceHolds` | `Spec => []TaskOnce` |
| `NoIdleWorkerHolds` | `Spec => []NoIdleWorker`, if `~(PauseEnabled /\ "reset" \in Calls)` |
| `DestroyedDoneHolds` | `Spec => []DestroyedDone` |

*Argument.* `CountInv` is the types and `CountExact`. A thread's step is its
leaving `Busy` and what it does next: `TakeOrSleepCounts` takes the count without
the thread and gives it back with it. `TaskInv` adds to `TaskOnce` that only busy
threads have a task; `PopQueue` says that taking the head of a queue without
repetitions removes exactly that task. `WakeInv` adds to `NoIdleWorker` which
threads are in the set of the condition variable or stopped, and what may not
happen to a pool that is reset. Then each step either keeps the balance of tasks
and notifications (`SameTokens`), adds a task with a client about to notify, or
moves a notification from a client to a thread. A thread that consumes a
notification takes a task, or finds the queue empty or paused. `unpause` notifies
everybody: before it has, no balance is needed, and when it has nobody sleeps.

*Assumptions*: the module's own (a finite set of clients, at least one thread),
and for `NoIdleWorkerHolds` that the pool is not one that is both paused and
reset. That one is needed: `BSPoolReset`.

### Locks and semaphore

`LockProofs`, for any finite set of threads: `LockCounts` (`[](LockTypeOK /\
ReadersCounted)`), `LockExcludes` (`[]Exclusion`), `LockImplements`
(`LockSpec => ImplementsLock`), `SpinExcludes` (`SpinSpec => []SpinExclusion`, for any
set), `SemTypeCorrect` (the unsigned count does not wrap) and `NoPostLost`
(`SemSpec => []NoLostPost`).

*Argument.* That writers are alone follows from who has which mutex, and that from
the count: the invariant `LockInv` says that `readCnt` is the number of threads
that have come in and not left, that the thread between `EnterRead` and
`BeginReading`, or between `LeaveRead` and `ReadUnlocked`, and no other, is the holder
of `readMtx`, that a writer is the holder of `writeMtx`, and that while readers have the
lock `writeMtx` is locked and nobody writes. For the semaphore, each step keeps the balance of counts and threads
awake, or leaves nobody asleep.

### Containers

`ContainerProofs`, for any threads, keys, hash, buckets and nodes:

| Theorem | Statement |
|---|---|
| `MapInvHolds` | `UndisturbedSpec => []MapInv` |
| `ChainsWholeHolds`, `NoStaleAccessHolds`, `FindSeesHolds` | `UndisturbedSpec => []ChainsWhole`, and so on |
| `MapImplements` | `UndisturbedSpec => ImplementsMap` |
| `ListInvHolds` | `OrderlySpec => []ListInv` |
| `ListImplements` | `OrderlySpec => ImplementsBag` |

*Hypotheses.* `UndisturbedSpec` is `MapSpec` in a usage without `clear`, with at most
`GROW_THRESHOLD` nodes per bucket, and without finds next to removes, unless one
thread does all. Without the last two the statements are false: the usages of section
6. In particular it allows inserts by any number of threads with removes by any number,
and with finds by any number. `OrderlySpec` is `ListSpec` in a usage in which a thread
that removes is the only one.

*Argument.* `NodeChain`'s path is a recursion over the data. `Follows(p, next, first,
null)` says without one that `p` is the chain from `first`: its elements are apart, and
each one's `next` is the one after it. `PathIs` proves that the recursion then gives
`p`, by induction in the form of a set (`SetInduction`: a set of numbers with 0 and the
successor of each of its members has them all). So the proofs never unfold the
recursion again: they say which sequence follows the new links when a node is
appended (`FollowsAppend`), taken out (`FollowsWithout`) or put at the head
(`FollowsPush`).

`MapInv` says of each bucket that it is a chain of live nodes that hash to it, that its
lock is with a call at `link` or `delete`, and that its tail is the last node unless one
is being linked; of each call in which place it has what: the one that links has the
lock, the node no chain has and the old tail, which is still the chain's last; a find
stands at a node of its bucket with, if it must find one, a node of its key ahead. A
live node is in a chain or in the hands of one call, nodes are used in order, and the
count is that of the live nodes but those still to be linked: so the threshold is
reached by no call while there is a node left to insert (`RoomLeft`), and the table
never grows. A step changes one bucket and the links of its nodes only, since no node
is in two chains (`LinkedChain`, `UnlinkedChain`); `SameElements` says that all other
steps leave the contents.

`ListInv`: the list is a chain of live nodes; a push has a node of its own whose `next`
is the head it expects, so a swap that succeeds gives a chain again, no matter what
happened to the head in between (also if it is back at the old value); a remove, alone,
stands at a node of the list with the one before it at hand.

### Raft pool and factory

`RaftPartsProofs`: `OneAliveHolds`, `KeysAreTheirsHolds`, for any ids and any number
of objects. The inductive `FactoryInv` adds that each live object is the one in the
map under its id, and that an entry leads to an object of its id that is not deleted.

It also has `PoolTaskOnceHolds` (`PoolSpec => []PoolTaskOnce`), for any workers and tasks.
The inductive `PoolInv` adds to the types that the places a task may be in are apart,
and that the tasks left in the queue are destroyed only after all workers have ended.

### Store, blocks, strings and requests

`DataProofs`: `UntimedAreKept` (`SlotSpec => []KeptUnlessTimed`), because a key that
has an expiration time is in `timed`; and `AnswersAreStable` (`SlotSpec =>
AnswersChange`), with a case for each command.

For all ranges, pools and numbers of blocks it has `EachIndexOnceHolds`,
`BalancedHolds`, `AsManyAsAskedHolds`. The inductive invariant `BlocksInv` says that
the tasks so far cover the range up to the start of the next block, each index once;
`StartFacts` says how far apart two starts are, `DivideFacts` that the blocks and the
remainder make up the range.

`StringsAgreeHolds` (`StringSpec => []StringsAgree`), for any characters and
separator, any lengths, and any width of `size_t` that counts both strings together.
That `EndsWith` says yes exactly for the suffixes and for every text one character
longer than the string is part of it (`FoundHolds`), so the defect of section 5 is proved
too, and that there is no other.
`TrimHolds`, `FoundHolds` and `EqualsHolds` are about one call, with the wraps of
`npos + 1` and of the differences of lengths in `NposFacts`; the least position that
a search returns exists because the naturals are well founded (`HasLeast`). The
inductive `StrtokInv` is about the loop: `newPos` comes after a separator, and `arr`
lists, in order, the pieces that begin before it.

`ReadsBackHolds` (`RequestSpec => []ReadsBack`), for any texts of the callers, empty
ones and ones with line ends included, any numbers, lists and maps. The invariant
says only what the wire carries; the work is in three lemmas. `WireIsLaid` says at
which place of the bytes each part begins and what is there (`Laid`), from what the
library's `FlattenSeq` returns (`FlattenFacts`). `ReadsLaid` takes the reader from
part to part along those places. Both are inductions over the parts, written with
the set of the numbers up to which the claim holds (`SetInduction`), since the
library's induction theorems take an operator. `ClientRequestsWhole` is the typing
of every request of the client.

### What is only model-checked

Liveness (`LeaderForGood`, `EveryEntryApplied`, `EveryTaskRuns`, `WaitReturns`,
`SomeoneEnters`, `PostsTaken`, `PutIsTaken`, `CloseReturns`): out of the prover's reach.
`MatchHonest`, `CommitReplicated`, and `ImplementsReplicatedLog` across elections: they
hold under `RaftTimed` only, whose invariant would have to say how many tasks of which
round are pending at each moment of a period; the theorems are about one leader. What
the map promises while its table grows, and over `clear`: `resize` is a fold over all
nodes.

## 5. Where the code and its documents differ

These five have a run that finds the counterexample (`expect: violation`):

* `RaftTwoLeaders`: two leaders in one term, with prompt tasks. `RequestVote`
  grants whenever `args.term >= m_term` (raft.cc:247), also to a second
  candidate of the same term. Candidate 1 stops, 2 is elected in term 1 with
  3's vote, 1 restarts as candidate, and 3 votes again.
* `RaftLostCommit`: a delayed shorter request takes acknowledged entries off a
  follower (raft.cc:352), and the leader commits what no majority holds.
* `BSPoolReset`: `reset` of a pool with pausing enabled creates the threads while
  the pool is paused, and restores `paused` without a notification (BS:1538).
  Tasks that were queued stay there with all threads asleep, though BS:1522
  says that the new threads execute them.
* `BSPoolWaiters`: `waiting` is one flag for all threads in `wait`, though BS:2016 says
  that it is set while `wait` is active and expects to be notified. The first to return
  clears it (BS:1736); the second, woken too, finds that a new task was submitted and
  goes back to sleep without setting it again: the workers do not know of it, and if no
  other call of `wait` sets the flag it may never return.
* `SlotSetLost`: SET on a key that has an expiration time keeps that time
  (values.h:170). If it is over, or once it is, the new value is gone.

The models show more, for which no run is kept. They are why some runs above
have the instances they have, and some theorems their hypotheses:

* The middle of a vector with two slots that stay 0 (raft.cc:177) is not a
  majority's: of three servers all must hold an entry, of five, four; two never
  commit at all.
* `StateMachineSafety` fails under `Spec`: with tasks delayed at will, the second vote
  of raft.cc:247 and the counting of old votes (raft.cc:277 compares no terms)
  let two servers commit different entries at one position.
* `MatchHonest` fails in `RaftSteady`: two replies to the same repeated batch move
  the match index past both logs (raft.cc:403).
* A follower's commit index can move back (raft.cc:311-316). Five copies of one
  batch, answered by all, move the match indexes to 9 while the leader's log has
  five entries; a tick reads outside the vector (raft.cc:178) and may commit 9. A
  refused request, answered late, resets the next index, and the entries are sent
  again; a heartbeat that says "commit 9, preceding index 4" is delayed while two
  more entries are replicated and the follower commits 5. When it is run, the
  follower commits up to 4. `StateMachineSafety` holds all the same.
* A candidate that is stopped may come back without its `Election` loop: if the loop
  wakes up while the server is stopped it ends, and `ReStart` begins none (raft.cc:216,
  102-121). A restarted candidate never times out either, since only a follower does; it
  becomes a follower when another server's request reaches it. If every
  server that runs is such a candidate, nobody is elected. `StuckOnlyByStops` says that each stop costs one
  candidate at most.
* `m_last_applied` ends one past the commit index (raft.cc:184), and
  `ApplyLogVec` returns the entry at it.
* `WaitReturns` fails with `purge` among the calls: it makes the condition of
  `wait` true without a notification (BS:1499). If the last worker has gone past
  its test, `wait` never returns.
* `EndsWith` says yes whenever the text is one character shorter than the ending, though
  its comment promises the comparison (string_util.cppm:121-126): the difference of the
  lengths wraps around to `npos`, which `rfind` returns too (line 128). `StringsAgree`
  states it and `StringsAgreeHolds` proves it.
* The Raft pool's destructor joins workers that run endless loops
  (thread_pool.h:153): in the test, where the loops run, it does not return.

And reading it for the models showed:

* The semaphore starts at 0 whatever initial count it is given (mutex_utils.cppm:231,
  without `HAVE_SEM`).
* `Split` lets `strtok_r` write zeros into its `const` argument (string_util.cppm:176);
  `Strtok` drops empty pieces except a last one (line 221).
* The server's parser, which no session runs yet, takes each line of a request for a part,
  without its first byte (values.h:256): the count and the lengths become parts, and the
  texts lose a byte. On an empty line the length less one wraps around.
* HGET and HSET do not look at the expiration time (values.h:199, 219).
* `start` drops the coroutine it should run (values.h:296): a session reads nothing.
* SET and HSET take parts of the command that need not be there: only two are
  required (values.h:327).
* `coLock` spins without giving its thread away (async_mutex.h:43): a coroutine that
  waits for another one of its thread waits for good.

## 6. What is not modelled

Of the Raft server: printing (`Print`, `AddPrint`, object 0), serialization
hooks and the setters no code calls. `sleep` durations appear only as the
assumptions of `RaftTimed`. A stopped server's state stays in memory in the code
and in the model: there is no disk and no loss of memory. Membership never
changes, though the document describes it.

Of `BS::thread_pool`: priorities (another order of the queue), futures and the
exceptions in them, native extensions, the getters, `wait_until` (the same code
as `wait_for`), initialization functions beyond the time they take and cleanup
functions, the check that throws when a task waits for its own pool, and calls
that tasks make to the pool. `reset` writes `thread_count` and `threads` without
the lock; a second `reset`, or a reader of them, at the same time is undefined
behaviour that the class leaves to its callers. In `DetachBlocks`, ranges whose
length does not fit their index type. `detach_loop`, `submit_blocks` and
`submit_loop` repeat the loop of `detach_blocks` with another body.

Of the Raft pool: futures of tasks that return values, and the pool of the C++17
build in the same file. Of the factory: the unlocked read in `GetAllObjKey`.

Of the containers: the usages that are undefined behaviour. For `LockFreeMap` these
are finds next to removes (a deleted node is followed, collect_utils.cppm:251), and
anything next to an insert that makes the table grow (a bucket is taken before it is
locked, line 225). For `LockFreeList`, a remove next to any other operation (line
353). Their destructors, which delete what `clear` would. `LockFreeMapExprise` is
not there at all: its expiration loop takes the address of an atomic pointer for that
of a plain one (collect_expiration_utils.cppm:97), which does not compile, and
nothing instantiates the template.

Of the locks: `Mutex` and the guards, which wrap one call each, and the coroutines
`coLock` and `coScopedLock`. `SafeQueue` is a standard queue with each method in one
critical section; nobody uses it and it has no wait.

Of the store: the sessions and their loop, which do not run. Of the Redis client:
the connection's input and output.

Of the string utilities: `Split`, which changes a string its caller holds for constant;
`ToUpper`, `toLower` and `toUpper` in place, `isInteger`, the conversions to numbers
(calls of `atoi` and the like) and `CheckStr`. Characters beyond 127 depend on
the locale.

The rest of section 1 has no state of its own worth a model, or is not this
project's code (`components` in `PROJECT.json` gives the reason for each).

## 7. Plan

What is left, in this order:

1. An abstract pool (submitted, running, done) that `BSThreadPool` implements.
2. More of Raft: two crashes with memory of votes, five servers in `RaftSteady`,
   `TaskPool` under the servers in place of the bag.
3. The sessions of the store, once they run.
