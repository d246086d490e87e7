-------------------------------- MODULE Raft --------------------------------
(***************************************************************************)
(* The Raft servers of src/test/raft/raft.{h,cc}.                          *)
(*                                                                         *)
(* Every server is an object with a mutex; each of its methods runs whole  *)
(* under that mutex, so each method is one atomic action here.  A server   *)
(* calls another one by submitting a lambda to a pool of 100 threads: the  *)
(* lambda runs exactly once, at any later time and in any order relative   *)
(* to the others.  The submitted lambdas that have not run yet are the bag *)
(* `tasks' (a bag because Update submits equal ones over and over).        *)
(*                                                                         *)
(* Log positions keep the code's 0-based numbers: position i of a log is   *)
(* element i+1 of the sequence.  The factory also holds object 0, which    *)
(* only prints: it is never started, so a request sent to it is dropped at *)
(* its first test and is not modelled; it still counts as a key.           *)
(***************************************************************************)
EXTENDS Integers, Sequences, FiniteSets, Bags

CONSTANTS
    Server,          \* the ids 1..MAX_SERVER of the started servers
    Value,           \* the strings clients pass to AddLog
    HeartbeatLimit,  \* ticks without a heartbeat before a follower times out (6)
    Stoppable,       \* the servers the environment may Stop and ReStart
    MaxTerm,         \* bound: no election round is started beyond this term
    MaxLog,          \* bound: no log grows by AddLog or ToLeader beyond this length
    MaxTasks,        \* bound: no round of requests is sent that makes more tasks
    MaxElections     \* bound: no server has more Election loops alive at once

ASSUME ServerAssumption ==
    /\ IsFiniteSet(Server)
    /\ Server # {}
    /\ 0 \notin Server
    /\ Stoppable \subseteq Server
ASSUME BoundAssumption ==
    /\ HeartbeatLimit \in Nat \ {0}
    /\ MaxTerm \in Nat
    /\ MaxLog \in Nat
    /\ MaxTasks \in Nat
    /\ MaxElections \in Nat

VARIABLES
    is_stop,         \* m_is_stop: the server ignores every call and tick
    heartbeat,       \* m_heartbeat: ticks since the last heartbeat
    vote_count,      \* m_vote_count: votes received as a candidate
    state,           \* m_state
    term,            \* m_term
    votedfor,        \* m_votedfor: a server, or 0 for nobody
    log_vec,         \* m_log_vec
    commit_index,    \* m_commit_index
    last_applied,    \* m_last_applied
    next_index_vec,  \* m_next_index_vec: a function on Server, or empty
    match_index_vec, \* m_match_index_vec: likewise
    elections,       \* the number of Election loops alive for each server
    tasks            \* the submitted lambdas that have not run yet

switchVars == <<is_stop>>
roleVars == <<heartbeat, vote_count, state, term, votedfor>>
logVars == <<log_vec, commit_index, last_applied>>
leaderVars == <<next_index_vec, match_index_vec>>
vars == <<switchVars, roleVars, logVars, leaderVars, elections, tasks>>

-----------------------------------------------------------------------------
max(a, b) == IF a < b THEN b ELSE a
min(a, b) == IF b < a THEN b ELSE a

States == {"None", "Leader", "Candidate", "Folower"}

\* content is a client's string, "Start", or the id of ToLeader:<id>;
\* is_server is exactly: the content is not a client's.
Entry == [index : Nat, term : Nat, content : Value \cup Server \cup {"Start"}]
NewEntry(i, t, c) == [index |-> i, term |-> t, content |-> c]
StartEntry == NewEntry(0, 0, "Start")

\* m_log_vec[i], m_log_vec.back().term, m_log_vec.size() - 1
At(log, i) == log[i + 1]
LastTerm(log) == IF log = <<>> THEN 0 ELSE log[Len(log)].term
LastIndex(log) == Len(log) - 1

\* The vectors have one slot for each key: the servers and object 0.
Key == Server \cup {0}
NoVec == <<>>
ZeroVec == [id \in Server |-> 0]
Slot(vec, id) == IF id \in Server THEN vec[id] ELSE 0

\* The element at place size / 2 of the sorted vector, as a singleton.
MidIndex(vec) ==
    {v \in {Slot(vec, id) : id \in Key} :
        LET mid == Cardinality(Key) \div 2
        IN /\ Cardinality({id \in Key : Slot(vec, id) < v}) <= mid
           /\ mid < Cardinality({id \in Key : Slot(vec, id) <= v})}

-----------------------------------------------------------------------------
\* The requests and replies a task carries.
VoteArgs == [handler : {"RequestVote"}, to : Server, term : Nat,
             candidate_id : Server, last_log_index : Nat \cup {-1}, last_log_term : Nat]
VoteReply == [handler : {"ReplyVote"}, to : Server, term : Nat, vote_granted : BOOLEAN]
AppendEntriesArgs == [handler : {"RequestAppendEntries"}, to : Server, term : Nat,
                      leader_id : Server, pre_log_index : Nat \cup {-1}, pre_log_term : Nat,
                      commit_index : Nat, log_vec : Seq(Entry)]
AppendEntriesReply == [handler : {"ReplyAppendEntries"}, to : Server, id : Server,
                       term : Nat, log_count : Nat, success : BOOLEAN, commit_index : Nat]
Task == VoteArgs \cup VoteReply \cup AppendEntriesArgs \cup AppendEntriesReply

\* thread_pool::submit of a set of lambdas; a worker taking task m and, while
\* running it, submitting the set new.
Submit(new) ==
    /\ BagCardinality(tasks) + Cardinality(new) <= MaxTasks
    /\ tasks' = tasks (+) SetToBag(new)
Run(m, new) == tasks' = (tasks (-) SetToBag({m})) (+) SetToBag(new)

-----------------------------------------------------------------------------
\* The object as its constructor leaves it.
Init ==
    /\ is_stop = [s \in Server |-> TRUE]
    /\ heartbeat = [s \in Server |-> 0]
    /\ vote_count = [s \in Server |-> 0]
    /\ state = [s \in Server |-> "None"]
    /\ term = [s \in Server |-> 0]
    /\ votedfor = [s \in Server |-> 0]
    /\ log_vec = [s \in Server |-> <<>>]
    /\ commit_index = [s \in Server |-> 0]
    /\ last_applied = [s \in Server |-> 0]
    /\ next_index_vec = [s \in Server |-> NoVec]
    /\ match_index_vec = [s \in Server |-> NoVec]
    /\ elections = [s \in Server |-> 0]
    /\ tasks = EmptyBag

\* Start also submits the Update loop, which ticks from then on.  The test
\* calls it once for each server.
Start(s) ==
    /\ state[s] = "None"
    /\ is_stop' = [is_stop EXCEPT ![s] = FALSE]
    /\ heartbeat' = [heartbeat EXCEPT ![s] = 0]
    /\ vote_count' = [vote_count EXCEPT ![s] = 0]
    /\ state' = [state EXCEPT ![s] = "Folower"]
    /\ term' = [term EXCEPT ![s] = 0]
    /\ votedfor' = [votedfor EXCEPT ![s] = 0]
    /\ log_vec' = [log_vec EXCEPT ![s] = <<StartEntry>>]
    /\ commit_index' = [commit_index EXCEPT ![s] = 0]
    /\ last_applied' = [last_applied EXCEPT ![s] = 0]
    /\ next_index_vec' = [next_index_vec EXCEPT ![s] = NoVec]
    /\ match_index_vec' = [match_index_vec EXCEPT ![s] = NoVec]
    /\ UNCHANGED <<elections, tasks>>

Stop(s) ==
    /\ s \in Stoppable
    /\ ~is_stop[s]
    /\ is_stop' = [is_stop EXCEPT ![s] = TRUE]
    /\ UNCHANGED <<roleVars, logVars, leaderVars, elections, tasks>>

\* The server keeps its role, term, vote and log, and loses both vectors.
ReStart(s) ==
    /\ is_stop[s]
    /\ state[s] # "None"
    /\ is_stop' = [is_stop EXCEPT ![s] = FALSE]
    /\ heartbeat' = [heartbeat EXCEPT ![s] = 0]
    /\ vote_count' = [vote_count EXCEPT ![s] = 0]
    /\ next_index_vec' = [next_index_vec EXCEPT ![s] = NoVec]
    /\ match_index_vec' = [match_index_vec EXCEPT ![s] = NoVec]
    /\ UNCHANGED <<state, term, votedfor, logVars, elections, tasks>>

\* A client's call; a server that is no leader only returns m_votedfor.
AddLog(s, v) ==
    /\ ~is_stop[s]
    /\ state[s] = "Leader"
    /\ Len(log_vec[s]) < MaxLog
    /\ log_vec' = [log_vec EXCEPT ![s] = Append(@, NewEntry(Len(@), term[s], v))]
    /\ UNCHANGED <<switchVars, roleVars, commit_index, last_applied, leaderVars,
                   elections, tasks>>

\* The entries the state machine of s is given.
ApplyLogVec(s) ==
    {i \in 0..last_applied[s] : i < Len(log_vec[s]) /\ At(log_vec[s], i).content \in Value}

-----------------------------------------------------------------------------
ToFollower(s, t, v) ==
    /\ state' = [state EXCEPT ![s] = "Folower"]
    /\ heartbeat' = [heartbeat EXCEPT ![s] = 0]
    /\ vote_count' = [vote_count EXCEPT ![s] = 0]
    /\ term' = [term EXCEPT ![s] = t]
    /\ votedfor' = [votedfor EXCEPT ![s] = v]

ToLeader(s) ==
    /\ Len(log_vec[s]) < MaxLog
    /\ state' = [state EXCEPT ![s] = "Leader"]
    /\ heartbeat' = [heartbeat EXCEPT ![s] = 0]
    /\ vote_count' = [vote_count EXCEPT ![s] = 0]
    /\ votedfor' = [votedfor EXCEPT ![s] = 0]
    /\ next_index_vec' = [next_index_vec EXCEPT ![s] = ZeroVec]
    /\ match_index_vec' = [match_index_vec EXCEPT ![s] = ZeroVec]
    /\ log_vec' = [log_vec EXCEPT ![s] = Append(@, NewEntry(Len(@), term[s], s))]
    /\ UNCHANGED <<term, commit_index, last_applied>>

-----------------------------------------------------------------------------
(***************************************************************************)
(* Update: one iteration of a server's 300 ms loop.  A stopped server's    *)
(* iteration changes nothing.                                              *)
(***************************************************************************)

\* The request the leader s sends to server id: all it has from next_index on.
AppendEntriesTo(s, id) ==
    LET next_index == next_index_vec[s][id]
        pre == next_index - 1
    IN [handler |-> "RequestAppendEntries", to |-> id, term |-> term[s],
        leader_id |-> s, pre_log_index |-> pre,
        pre_log_term |-> IF pre >= 0 /\ pre < Len(log_vec[s])
                         THEN At(log_vec[s], pre).term ELSE 0,
        commit_index |-> commit_index[s],
        log_vec |-> SubSeq(log_vec[s], next_index + 1, Len(log_vec[s]))]

\* What the tick may leave in m_commit_index.  mid_index may lie past the end
\* of the log: the code then reads outside the vector, and the comparison of
\* what it finds there with m_term may come out either way.
NewCommitIndex(s) ==
    IF state[s] = "Leader" /\ match_index_vec[s] # NoVec
    THEN UNION {IF mid_index >= Len(log_vec[s])
                THEN {commit_index[s], max(mid_index, commit_index[s])}
                ELSE IF At(log_vec[s], mid_index).term = term[s]
                THEN {max(mid_index, commit_index[s])}
                ELSE {commit_index[s]} : mid_index \in MidIndex(match_index_vec[s])}
    ELSE {commit_index[s]}

\* The end of every tick: commit, then apply while last_applied <= commit_index.
CommitAndApply(s) ==
    \E c \in NewCommitIndex(s) :
        /\ commit_index' = [commit_index EXCEPT ![s] = c]
        /\ last_applied' = [last_applied EXCEPT ![s] = max(@, c + 1)]
        /\ UNCHANGED log_vec

UpdateLeader(s) ==
    /\ ~is_stop[s]
    /\ state[s] = "Leader"
    /\ Submit(IF next_index_vec[s] = NoVec THEN {}
              ELSE {AppendEntriesTo(s, id) : id \in Server \ {s}})
    /\ CommitAndApply(s)
    /\ UNCHANGED <<switchVars, roleVars, leaderVars, elections>>

UpdateCandidate(s) ==
    /\ ~is_stop[s]
    /\ state[s] = "Candidate"
    /\ CommitAndApply(s)
    /\ UNCHANGED <<switchVars, roleVars, leaderVars, elections, tasks>>

UpdateFollower(s) ==
    /\ ~is_stop[s]
    /\ state[s] = "Folower"
    /\ heartbeat[s] + 1 # HeartbeatLimit
    /\ heartbeat' = [heartbeat EXCEPT ![s] = @ + 1]
    /\ CommitAndApply(s)
    /\ UNCHANGED <<switchVars, vote_count, state, term, votedfor, leaderVars,
                   elections, tasks>>

\* The heartbeat count reaches the limit: an Election loop is submitted.
UpdateTimeout(s) ==
    /\ ~is_stop[s]
    /\ state[s] = "Folower"
    /\ heartbeat[s] + 1 = HeartbeatLimit
    /\ elections[s] < MaxElections
    /\ heartbeat' = [heartbeat EXCEPT ![s] = 0]
    /\ state' = [state EXCEPT ![s] = "Candidate"]
    /\ elections' = [elections EXCEPT ![s] = @ + 1]
    /\ CommitAndApply(s)
    /\ UNCHANGED <<switchVars, vote_count, term, votedfor, leaderVars, tasks>>

Update(s) == UpdateLeader(s) \/ UpdateCandidate(s) \/ UpdateFollower(s) \/ UpdateTimeout(s)

-----------------------------------------------------------------------------
\* An Election loop wakes up and finds that the election is over.
ElectionBreak(s) ==
    /\ elections[s] > 0
    /\ is_stop[s] \/ state[s] # "Candidate"
    /\ elections' = [elections EXCEPT ![s] = @ - 1]
    /\ UNCHANGED <<switchVars, roleVars, logVars, leaderVars, tasks>>

RequestVoteTo(s, id) ==
    [handler |-> "RequestVote", to |-> id, term |-> term[s] + 1, candidate_id |-> s,
     last_log_index |-> LastIndex(log_vec[s]), last_log_term |-> LastTerm(log_vec[s])]

\* A slip: the loop ends after one round.
ElectionRoundOnce(s) ==
    /\ elections[s] > 0
    /\ ~is_stop[s]
    /\ state[s] = "Candidate"
    /\ term[s] < MaxTerm
    /\ vote_count' = [vote_count EXCEPT ![s] = 1]
    /\ term' = [term EXCEPT ![s] = @ + 1]
    /\ votedfor' = [votedfor EXCEPT ![s] = s]
    /\ elections' = [elections EXCEPT ![s] = @ - 1]
    /\ Submit({RequestVoteTo(s, id) : id \in Server \ {s}})
    /\ UNCHANGED <<switchVars, heartbeat, state, logVars, leaderVars>>

\* ... or asks the others for their votes in a new term, and goes back to sleep.
ElectionRound(s) ==
    /\ elections[s] > 0
    /\ ~is_stop[s]
    /\ state[s] = "Candidate"
    /\ term[s] < MaxTerm
    /\ vote_count' = [vote_count EXCEPT ![s] = 1]
    /\ term' = [term EXCEPT ![s] = @ + 1]
    /\ votedfor' = [votedfor EXCEPT ![s] = s]
    /\ Submit({RequestVoteTo(s, id) : id \in Server \ {s}})
    /\ UNCHANGED <<switchVars, heartbeat, state, logVars, leaderVars, elections>>

Election(s) == ElectionBreak(s) \/ ElectionRound(s)

-----------------------------------------------------------------------------
(***************************************************************************)
(* The handlers, each running one task m.  They all start by returning if  *)
(* the server is stopped.                                                  *)
(***************************************************************************)
Dropped(m) ==
    /\ is_stop[m.to]
    /\ Run(m, {})
    /\ UNCHANGED <<switchVars, roleVars, logVars, leaderVars, elections>>

LogUpToDate(m, log) ==
    \/ m.last_log_term > LastTerm(log)
    \/ m.last_log_term = LastTerm(log) /\ m.last_log_index >= LastIndex(log)

VoteGranted(m, s) ==
    /\ m.term >= term[s] \/ votedfor[s] = 0 \/ votedfor[s] = m.candidate_id
    /\ LogUpToDate(m, log_vec[s])

RequestVote(m) ==
    LET s == m.to
        reply == [handler |-> "ReplyVote", to |-> m.candidate_id,
                  term |-> term'[s], vote_granted |-> VoteGranted(m, s)]
    IN /\ m.handler = "RequestVote"
       /\ ~is_stop[s]
       /\ \/ VoteGranted(m, s) /\ ToFollower(s, m.term, m.candidate_id)
          \/ ~VoteGranted(m, s) /\ state[s] = "Leader" /\ ToFollower(s, m.term, 0)
          \/ ~VoteGranted(m, s) /\ state[s] # "Leader" /\ UNCHANGED roleVars
       /\ Run(m, {reply})
       /\ UNCHANGED <<switchVars, logVars, leaderVars, elections>>

\* ++m_vote_count * 2 >= (number of keys) - 1
VotesSuffice(s) == (vote_count[s] + 1) * 2 >= Cardinality(Key) - 1

CountVote(s) ==
    /\ vote_count' = [vote_count EXCEPT ![s] = @ + 1]
    /\ UNCHANGED <<heartbeat, state, term, votedfor, logVars, leaderVars>>

ReplyVote(m) ==
    LET s == m.to
    IN /\ m.handler = "ReplyVote"
       /\ ~is_stop[s]
       /\ \/ /\ state[s] # "Candidate"
             /\ UNCHANGED <<roleVars, logVars, leaderVars>>
          \/ state[s] = "Candidate" /\ m.vote_granted /\ VotesSuffice(s) /\ ToLeader(s)
          \/ state[s] = "Candidate" /\ m.vote_granted /\ ~VotesSuffice(s) /\ CountVote(s)
          \/ /\ state[s] = "Candidate" /\ ~m.vote_granted /\ m.term > term[s]
             /\ ToFollower(s, m.term, 0)
             /\ UNCHANGED <<logVars, leaderVars>>
          \/ /\ state[s] = "Candidate" /\ ~m.vote_granted /\ m.term <= term[s]
             /\ UNCHANGED <<roleVars, logVars, leaderVars>>
       /\ Run(m, {})
       /\ UNCHANGED <<switchVars, elections>>

-----------------------------------------------------------------------------
\* Slips: the server keeps its role; the heartbeat count is not reset.
FollowLeaderKeepsRole(m, s) ==
    /\ heartbeat' = [heartbeat EXCEPT ![s] = 0]
    /\ term' = [term EXCEPT ![s] = m.term]
    /\ UNCHANGED <<vote_count, state, votedfor>>
FollowLeaderNoReset(m, s) ==
    IF state[s] = "Folower"
    THEN /\ term' = [term EXCEPT ![s] = m.term]
         /\ UNCHANGED <<heartbeat, vote_count, state, votedfor>>
    ELSE ToFollower(s, m.term, m.leader_id)

\* The leader's request is accepted as the leader's: heartbeat, term and role.
FollowLeader(m, s) ==
    IF state[s] = "Folower"
    THEN /\ heartbeat' = [heartbeat EXCEPT ![s] = 0]
         /\ term' = [term EXCEPT ![s] = m.term]
         /\ UNCHANGED <<vote_count, state, votedfor>>
    ELSE ToFollower(s, m.term, m.leader_id)

\* The log has an entry of pre_log_term at pre_log_index.
HoldsPre(m, log) ==
    /\ m.pre_log_index >= 0
    /\ m.pre_log_index < Len(log)
    /\ At(log, m.pre_log_index).term = m.pre_log_term

\* A slip: the leader's commit index instead of the follower's.
LeaderCommitted(m, s) == m.commit_index >= m.pre_log_index + Len(m.log_vec)

\* The follower already committed everything the request carries.
AlreadyCommitted(m, s) == commit_index[s] >= m.pre_log_index + Len(m.log_vec)

Replied(m, s, success) ==
    Run(m, {[handler |-> "ReplyAppendEntries", to |-> m.leader_id, id |-> s,
             term |-> term'[s], log_count |-> Len(m.log_vec), success |-> success,
             commit_index |-> commit_index'[s]]})

\* The leader of an older term is refused, and the server keeps its role.
StaleLeader(m, s) ==
    /\ m.term < term[s]
    /\ UNCHANGED <<roleVars, logVars>>
    /\ Replied(m, s, FALSE)

HeartbeatCommit(m, s) ==
    IF commit_index[s] < m.commit_index /\ HoldsPre(m, log_vec[s])
    THEN min(m.pre_log_index, m.commit_index)
    ELSE commit_index[s]

\* A request without entries is a heartbeat: it may move commit_index, and
\* it is not answered.
Heartbeat(m, s) ==
    /\ m.term >= term[s]
    /\ m.log_vec = <<>>
    /\ FollowLeader(m, s)
    /\ commit_index' = [commit_index EXCEPT ![s] = HeartbeatCommit(m, s)]
    /\ Run(m, {})
    /\ UNCHANGED <<log_vec, last_applied>>

KeepEntries(m, s) ==
    /\ m.term >= term[s]
    /\ m.log_vec # <<>>
    /\ AlreadyCommitted(m, s)
    /\ FollowLeader(m, s)
    /\ UNCHANGED logVars
    /\ Replied(m, s, TRUE)

RefuseEntries(m, s) ==
    /\ m.term >= term[s]
    /\ m.log_vec # <<>>
    /\ ~AlreadyCommitted(m, s)
    /\ m.pre_log_index >= 0
    /\ ~HoldsPre(m, log_vec[s])
    /\ FollowLeader(m, s)
    /\ UNCHANGED logVars
    /\ Replied(m, s, FALSE)

\* Slips: one entry too many is cut; nothing is.
OverwriteShort(log, m) == SubSeq(log, 1, m.pre_log_index) \o m.log_vec
OverwriteNoResize(log, m) == log \o m.log_vec

\* resize to pre_log_index + 1 and append, whatever the log had there.
Overwrite(log, m) == SubSeq(log, 1, m.pre_log_index + 1) \o m.log_vec

AppendEntries(m, s) ==
    /\ m.term >= term[s]
    /\ m.log_vec # <<>>
    /\ ~AlreadyCommitted(m, s)
    /\ m.pre_log_index >= 0 => HoldsPre(m, log_vec[s])
    /\ FollowLeader(m, s)
    /\ log_vec' = [log_vec EXCEPT ![s] = Overwrite(@, m)]
    /\ commit_index' = [commit_index EXCEPT ![s] =
           IF @ < m.commit_index THEN min(m.commit_index, max(m.pre_log_index, @)) ELSE @]
    /\ UNCHANGED last_applied
    /\ Replied(m, s, TRUE)

RequestAppendEntries(m) ==
    LET s == m.to
    IN /\ m.handler = "RequestAppendEntries"
       /\ ~is_stop[s]
       /\ \/ StaleLeader(m, s)
          \/ Heartbeat(m, s)
          \/ KeepEntries(m, s)
          \/ RefuseEntries(m, s)
          \/ AppendEntries(m, s)
       /\ UNCHANGED <<switchVars, leaderVars, elections>>

-----------------------------------------------------------------------------
\* Slips: the match is one too far; the next index stays.
RecordSuccessTooFar(m, s) ==
    /\ match_index_vec' = [match_index_vec EXCEPT ![s][m.id] =
           max(@, next_index_vec[s][m.id] + m.log_count)]
    /\ next_index_vec' = [next_index_vec EXCEPT ![s][m.id] = @ + m.log_count]
RecordSuccessMatchOnly(m, s) ==
    /\ match_index_vec' = [match_index_vec EXCEPT ![s][m.id] =
           max(@, next_index_vec[s][m.id] + m.log_count - 1)]
    /\ UNCHANGED next_index_vec

\* Both indexes move by what the reply counts, from where they are now.
RecordSuccess(m, s) ==
    /\ match_index_vec' = [match_index_vec EXCEPT ![s][m.id] =
           max(@, next_index_vec[s][m.id] + m.log_count - 1)]
    /\ next_index_vec' = [next_index_vec EXCEPT ![s][m.id] = @ + m.log_count]

\* A slip: it falls back one entry before the follower's commit index.
RecordFailureTooFar(m, s) ==
    /\ next_index_vec' = [next_index_vec EXCEPT ![s][m.id] = m.commit_index - 1]
    /\ UNCHANGED match_index_vec

\* The leader falls back to what the follower says it has committed.
RecordFailure(m, s) ==
    /\ next_index_vec' = [next_index_vec EXCEPT ![s][m.id] = m.commit_index + 1]
    /\ UNCHANGED match_index_vec

ReplyAppendEntries(m) ==
    LET s == m.to
        ignored == state[s] # "Leader" \/ next_index_vec[s] = NoVec
    IN /\ m.handler = "ReplyAppendEntries"
       /\ ~is_stop[s]
       /\ \/ ignored /\ UNCHANGED leaderVars
          \/ ~ignored /\ m.success /\ RecordSuccess(m, s)
          \/ ~ignored /\ ~m.success /\ m.term <= term[s] /\ RecordFailure(m, s)
          \/ ~ignored /\ ~m.success /\ m.term > term[s] /\ UNCHANGED leaderVars
       /\ Run(m, {})
       /\ UNCHANGED <<switchVars, roleVars, logVars, elections>>

-----------------------------------------------------------------------------
Handle(m) ==
    \/ Dropped(m)
    \/ RequestVote(m)
    \/ ReplyVote(m)
    \/ RequestAppendEntries(m)
    \/ ReplyAppendEntries(m)

Environment ==
    \/ \E s \in Server : Start(s) \/ Stop(s) \/ ReStart(s)
    \/ \E s \in Server, v \in Value : AddLog(s, v)

Next ==
    \/ Environment
    \/ \E s \in Server : Update(s) \/ Election(s)
    \/ \E m \in DOMAIN tasks : Handle(m)

Spec == Init /\ [][Next]_vars

=============================================================================
