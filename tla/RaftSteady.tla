----------------------------- MODULE RaftSteady -----------------------------
(***************************************************************************)
(* Log replication under one leader.                                       *)
(*                                                                         *)
(* The behaviours of module Raft from the moment the server Boss has been  *)
(* elected, for as long as no follower times out: raft.cc has no clock a   *)
(* proof could use, so "the heartbeats arrive in time" is the assumption   *)
(* that no Election loop starts.  Everything else remains as in Raft:      *)
(* requests and replies of any age are run in any order, Update repeats    *)
(* requests that are still pending, and any server, Boss included, may     *)
(* stop, lose requests, and restart.                                       *)
(***************************************************************************)
EXTENDS RaftProperties

CONSTANT Boss      \* the elected server

ASSUME BossAssumption == Boss \in Server

\* Boss was the first to time out, asked for votes in term 1, and every other
\* server granted its vote; all the replies have run and the loop has ended.
SteadyInit ==
    /\ is_stop = [s \in Server |-> FALSE]
    /\ heartbeat = [s \in Server |-> 0]
    /\ vote_count = [s \in Server |-> 0]
    /\ state = [s \in Server |-> IF s = Boss THEN "Leader" ELSE "Folower"]
    /\ term = [s \in Server |-> 1]
    /\ votedfor = [s \in Server |-> IF s = Boss THEN 0 ELSE Boss]
    /\ log_vec = [s \in Server |->
           IF s = Boss THEN <<StartEntry, NewEntry(1, 1, Boss)>> ELSE <<StartEntry>>]
    /\ commit_index = [s \in Server |-> 0]
    /\ last_applied = [s \in Server |-> 1]
    /\ next_index_vec = [s \in Server |-> IF s = Boss THEN ZeroVec ELSE NoVec]
    /\ match_index_vec = [s \in Server |-> IF s = Boss THEN ZeroVec ELSE NoVec]
    /\ elections = [s \in Server |-> 0]
    /\ tasks = EmptyBag

SteadyNext == Next /\ UNCHANGED elections

SteadySpec == SteadyInit /\ [][SteadyNext]_vars

\* The leader on an idle machine: no server ticks while a task is pending, as in
\* RaftTimed, but the servers tick in any order and as often as they like.
PromptNext ==
    /\ \/ Environment
       \/ tasks = EmptyBag /\ \E s \in Server : Update(s)
       \/ \E m \in DOMAIN tasks : Handle(m)
    /\ UNCHANGED elections

PromptSpec == SteadyInit /\ [][PromptNext]_vars

-----------------------------------------------------------------------------
\* Every server's log is a prefix of the leader's, whatever old requests it
\* ran and whatever it forgot by being stopped (README.md:24, 83).
FollowsBoss == \A s \in Server : Prefix(log_vec[s], log_vec[Boss])

\* The strengthening of FollowsBoss that every step preserves: the roles stay
\* as they are, and a request that has not run carries a piece of the leader's
\* log from where it says.
SteadyRoles ==
    /\ state = [s \in Server |-> IF s = Boss THEN "Leader" ELSE "Folower"]
    /\ term = [s \in Server |-> 1]
    /\ elections = [s \in Server |-> 0]
Piece(m) ==
    \A i \in 1..Len(m.log_vec) :
        /\ m.pre_log_index + 1 + i <= Len(log_vec[Boss])
        /\ m.log_vec[i] = log_vec[Boss][m.pre_log_index + 1 + i]
SteadyTask(m) ==
    \/ m.handler = "ReplyAppendEntries" /\ m.to = Boss
    \/ /\ m.handler = "RequestAppendEntries"
       /\ m.to # Boss /\ m.leader_id = Boss /\ m.term = 1
       /\ Piece(m)
SteadyTasks == \A m \in DOMAIN tasks : SteadyTask(m)
SteadyInv == LogInv /\ SteadyRoles /\ SteadyTasks /\ FollowsBoss

\* The leader's commit index lies in its log: the tick read no element outside
\* the vector, or found there another term (raft.cc:178).
CommitWithin == commit_index[Boss] < Len(log_vec[Boss])

\* Then no heartbeat asks to commit more than it makes sure of.
HeartbeatsSure ==
    \A m \in DOMAIN tasks :
        m.handler = "RequestAppendEntries" /\ m.log_vec = <<>>
            => m.commit_index <= m.pre_log_index

-----------------------------------------------------------------------------
\* With prompt tasks each follower has one task in flight at most: the request
\* sent to it or its reply, once.
Follower(m) == IF m.handler = "RequestAppendEntries" THEN m.to ELSE m.id
OneInFlight ==
    /\ \A m \in DOMAIN tasks : tasks[m] = 1
    /\ \A m, r \in DOMAIN tasks : Follower(m) = Follower(r) => m = r

\* So no request cuts a log, and every commit index lies in its log.
NothingCut ==
    \A m \in DOMAIN tasks :
        m.handler = "RequestAppendEntries"
            => m.pre_log_index + 1 + Len(m.log_vec) >= Len(log_vec[m.to])
AllCommitWithin == \A s \in Server : commit_index[s] < Len(log_vec[s])

\* The leader's vectors stay within what the servers hold, and so do the replies
\* on their way: next_index has not moved since the request they answer.
InFlightHonest(m) ==
    LET next == next_index_vec[Boss]
    IN IF m.handler = "RequestAppendEntries" THEN m.pre_log_index = next[m.to] - 1
       ELSE IF m.success THEN next[m.id] + m.log_count <= Len(log_vec[m.id])
       ELSE m.commit_index < Len(log_vec[m.id])
IndexesHonest ==
    next_index_vec[Boss] # NoVec =>
        /\ \A s \in Server : /\ next_index_vec[Boss][s] <= Len(log_vec[s])
                             /\ match_index_vec[Boss][s] < Len(log_vec[s])
        /\ \A m \in DOMAIN tasks : InFlightHonest(m)

\* A majority of the logs reaches the leader's commit index.
CommitReaches == {s \in Server : commit_index[Boss] < Len(log_vec[s])} \in Majority

\* What every step of the prompt leader preserves, MatchHonest and
\* CommitReplicated follow from.
PromptInv ==
    /\ SteadyInv
    /\ OneInFlight
    /\ NothingCut
    /\ AllCommitWithin
    /\ IndexesHonest
    /\ CommitReaches

=============================================================================
