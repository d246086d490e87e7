--------------------------- MODULE RaftProperties ---------------------------
(***************************************************************************)
(* What the Raft servers promise, stated on the variables of module Raft.  *)
(***************************************************************************)
EXTENDS Raft

\* The type of every member.  An index vector is empty or has all its slots,
\* and the two are sized together: the second size test of ReplyAppendEntries
\* never fires (raft.cc:381, 387).
TypeOK ==
    /\ is_stop \in [Server -> BOOLEAN]
    /\ heartbeat \in [Server -> Nat]
    /\ vote_count \in [Server -> Nat]
    /\ state \in [Server -> States]
    /\ term \in [Server -> Nat]
    /\ votedfor \in [Server -> Server \cup {0}]
    /\ log_vec \in [Server -> Seq(Entry)]
    /\ commit_index \in [Server -> Nat]
    /\ last_applied \in [Server -> Nat]
    /\ next_index_vec \in [Server -> [Server -> Nat] \cup {NoVec}]
    /\ match_index_vec \in [Server -> [Server -> Nat] \cup {NoVec}]
    /\ \A s \in Server : next_index_vec[s] = NoVec <=> match_index_vec[s] = NoVec
    /\ elections \in [Server -> Nat]
    /\ DOMAIN tasks \subseteq Task

-----------------------------------------------------------------------------
Prefix(a, b) == Len(a) <= Len(b) /\ \A i \in 1..Len(a) : a[i] = b[i]

\* The entries of the log at 0..commit_index.
Committed(s) == SubSeq(log_vec[s], 1, min(commit_index[s] + 1, Len(log_vec[s])))

Majority == {S \in SUBSET Server : Cardinality(S) * 2 > Cardinality(Server)}

\* What each server has committed is what it has learned.
Abstract == INSTANCE ReplicatedLog WITH learned <- [s \in Server |-> Committed(s)]

-----------------------------------------------------------------------------
\* An entry's index is its position, and position 0 holds the entry Start
\* wrote, in every log: however requests are reordered, repeated, truncated
\* or built by leaders of different terms (RequestAppendEntries, raft.cc:352).
LogIndexed ==
    \A s \in Server :
        /\ \A i \in 1..Len(log_vec[s]) : log_vec[s][i].index = i - 1
        /\ state[s] # "None" => log_vec[s] # <<>> /\ log_vec[s][1] = StartEntry

\* The strengthening of LogIndexed that every step preserves: a server that
\* was never started is stopped and has no log, and the entries a request
\* carries follow its pre_log_index, from Start when there is no such index.
NeverStarted ==
    \A s \in Server : state[s] = "None" => is_stop[s] /\ log_vec[s] = <<>>
RequestIndexed(m) ==
    /\ \A i \in 1..Len(m.log_vec) : m.log_vec[i].index = m.pre_log_index + i
    /\ m.pre_log_index = -1 /\ m.log_vec # <<>> => m.log_vec[1] = StartEntry
RequestsIndexed ==
    \A m \in DOMAIN tasks : m.handler = "RequestAppendEntries" => RequestIndexed(m)
LogInv == TypeOK /\ LogIndexed /\ NeverStarted /\ RequestsIndexed

\* A server that stays leader never loses or changes an entry of its own log
\* (README.md:73: the position of an entry a leader created never changes).
LeaderAppendOnly ==
    [][\A s \in Server :
        state[s] = "Leader" /\ state'[s] = "Leader" => Prefix(log_vec[s], log_vec'[s])]_vars

\* A request never cuts a log below what the server has committed, stale
\* requests and requests of other leaders included (raft.cc:322, 352).
CommittedNotTruncated ==
    [][\A s \in Server :
        commit_index[s] < Len(log_vec[s]) => commit_index[s] < Len(log_vec'[s])]_vars

\* At most one running server leads in each term (README.md:40).
ElectionSafety ==
    \A s, t \in Server :
        /\ state[s] = "Leader" /\ ~is_stop[s]
        /\ state[t] = "Leader" /\ ~is_stop[t]
        /\ term[s] = term[t]
        => s = t

\* No two servers commit different entries at one position (README.md:25).
StateMachineSafety ==
    \A s, t \in Server :
        Prefix(Committed(s), Committed(t)) \/ Prefix(Committed(t), Committed(s))

\* The servers implement a replicated log: what one has committed it keeps, and
\* it stays in agreement with what the others have (README.md:20, 25).
ImplementsReplicatedLog == Abstract!Spec

\* What a running leader records as synchronised to a follower, the follower's
\* log holds (raft.h:155).
MatchHonest ==
    \A s, t \in Server :
        (state[s] = "Leader" /\ ~is_stop[s] /\ match_index_vec[s] # NoVec
         /\ t # s /\ state[t] # "None")
            => /\ match_index_vec[s][t] < Len(log_vec[t])
               /\ match_index_vec[s][t] < Len(log_vec[s])
               /\ \A i \in 0..match_index_vec[s][t] : At(log_vec[s], i) = At(log_vec[t], i)

\* What a running leader has committed, a majority of the servers holds
\* (README.md:59, 65).
CommitReplicated ==
    \A s \in Server :
        state[s] = "Leader" /\ ~is_stop[s] =>
            {t \in Server : Prefix(Committed(s), log_vec[t])} \in Majority

=============================================================================
