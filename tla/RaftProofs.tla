----------------------------- MODULE RaftProofs -----------------------------
(***************************************************************************)
(* What holds of the Raft servers for any number of servers, any bounds    *)
(* and any scheduling of the tasks.                                        *)
(***************************************************************************)
EXTENDS RaftTimed, SequenceTheorems, FiniteSetTheorems, TLAPS

-----------------------------------------------------------------------------
(* The bag of tasks.                                                       *)

\* Running a task adds at most what it submits: no task appears from nowhere.
LEMMA RunTasks ==
    ASSUME NEW m, NEW new, Run(m, new)
    PROVE  DOMAIN tasks' \subseteq DOMAIN tasks \cup new
BY DEF Run, (+), (-), SetToBag

\* Submitting adds exactly the submitted tasks.
LEMMA SubmitTasks ==
    ASSUME NEW new, Submit(new)
    PROVE  DOMAIN tasks' = DOMAIN tasks \cup new
BY DEF Submit, (+), SetToBag

\* There is no task at first.
LEMMA NoTasks == DOMAIN EmptyBag = {}
BY DEF EmptyBag, SetToBag

\* A task's handler tells its kind.
LEMMA TaskKind ==
    ASSUME NEW m \in Task
    PROVE  /\ m.handler = "RequestVote" => m \in VoteArgs
           /\ m.handler = "ReplyVote" => m \in VoteReply
           /\ m.handler = "RequestAppendEntries" => m \in AppendEntriesArgs
           /\ m.handler = "ReplyAppendEntries" => m \in AppendEntriesReply
           /\ m.to \in Server
BY DEF Task, VoteArgs, VoteReply, AppendEntriesArgs, AppendEntriesReply

-----------------------------------------------------------------------------
(* What the messages and the index vectors hold.                           *)

\* A vector that has all its slots is not the empty one.
LEMMA VecIsNotNoVec ==
    ASSUME NEW vec \in [Server -> Nat]
    PROVE  vec # NoVec
BY ServerAssumption DEF NoVec

\* The last term of a log.
LEMMA LastTermNat ==
    ASSUME NEW log \in Seq(Entry)
    PROVE  LastTerm(log) \in Nat
<1>1. CASE log = <<>>
  BY <1>1 DEF LastTerm
<1>2. CASE log # <<>>
  <2>1. Len(log) \in 1..Len(log)
    BY <1>2, EmptySeq
  <2>2. log[Len(log)] \in Entry
    BY <2>1, ElementOfSeq
  <2> QED  BY <1>2, <2>2 DEF LastTerm, Entry
<1> QED  BY <1>1, <1>2

\* The last index of a log.
LEMMA LastIndexType ==
    ASSUME NEW log \in Seq(Entry)
    PROVE  LastIndex(log) \in Nat \cup {-1}
BY LenProperties DEF LastIndex

\* A tail of a log is a log.
LEMMA TailOfLog ==
    ASSUME NEW log \in Seq(Entry), NEW n \in Nat
    PROVE  SubSeq(log, n + 1, Len(log)) \in Seq(Entry)
<1>1. Len(log) \in Nat
  BY LenProperties
<1>2. \A i \in n + 1 .. Len(log) : log[i] \in Entry
  BY <1>1, ElementOfSeq
<1> QED  BY <1>1, <1>2, SubSeqProperties

\* What a request for a vote carries.
LEMMA RequestVoteToType ==
    ASSUME TypeOK, NEW s \in Server, NEW id \in Server
    PROVE  RequestVoteTo(s, id) \in Task
<1>1. LastTerm(log_vec[s]) \in Nat
  BY LastTermNat DEF TypeOK
<1>2. LastIndex(log_vec[s]) \in Nat \cup {-1}
  BY LastIndexType DEF TypeOK
<1>3. term[s] + 1 \in Nat
  BY DEF TypeOK
<1>4. RequestVoteTo(s, id) \in VoteArgs
  BY <1>1, <1>2, <1>3 DEF RequestVoteTo, VoteArgs
<1> QED  BY <1>4 DEF Task

\* What a leader sends to a follower.
LEMMA AppendEntriesToType ==
    ASSUME TypeOK, NEW s \in Server, NEW id \in Server, next_index_vec[s] # NoVec
    PROVE  AppendEntriesTo(s, id) \in Task
<1> DEFINE next == next_index_vec[s][id]
           entries == SubSeq(log_vec[s], next + 1, Len(log_vec[s]))
           pre_term == IF next - 1 >= 0 /\ next - 1 < Len(log_vec[s])
                       THEN At(log_vec[s], next - 1).term ELSE 0
<1>1. next \in Nat
  BY DEF TypeOK
<1>2. log_vec[s] \in Seq(Entry)
  BY DEF TypeOK
<1>3. entries \in Seq(Entry)
  BY <1>1, <1>2, TailOfLog
<1>4. pre_term \in Nat
  <2>1. CASE next - 1 >= 0 /\ next - 1 < Len(log_vec[s])
    <3>1. next \in 1..Len(log_vec[s])
      BY <1>1, <1>2, <2>1, LenProperties
    <3>2. log_vec[s][next] \in Entry
      BY <1>2, <3>1, ElementOfSeq
    <3>3. At(log_vec[s], next - 1) = log_vec[s][next]
      BY <1>1 DEF At
    <3> QED  BY <2>1, <3>2, <3>3 DEF Entry
  <2>2. CASE ~(next - 1 >= 0 /\ next - 1 < Len(log_vec[s]))
    BY <2>2
  <2> QED  BY <2>1, <2>2
<1>5. next - 1 \in Nat \cup {-1}
  BY <1>1
<1>6. term[s] \in Nat /\ commit_index[s] \in Nat
  BY DEF TypeOK
<1> HIDE DEF next, entries, pre_term
<1>7. [handler |-> "RequestAppendEntries", to |-> id, term |-> term[s], leader_id |-> s,
       pre_log_index |-> next - 1, pre_log_term |-> pre_term,
       commit_index |-> commit_index[s], log_vec |-> entries] \in AppendEntriesArgs
  BY <1>3, <1>4, <1>5, <1>6 DEF AppendEntriesArgs
<1> QED  BY <1>7 DEF AppendEntriesTo, Task, next, entries, pre_term

\* The index a leader finds in the middle of its vector.
LEMMA MidIndexType ==
    ASSUME NEW vec \in [Server -> Nat], NEW i \in MidIndex(vec)
    PROVE  i \in Nat
BY DEF MidIndex, Slot, Key

\* Whatever the tick leaves in commit_index is an index.
LEMMA NewCommitIndexType ==
    ASSUME TypeOK, NEW s \in Server, NEW c \in NewCommitIndex(s)
    PROVE  c \in Nat
<1>1. commit_index[s] \in Nat
  BY DEF TypeOK
<1>2. CASE state[s] = "Leader" /\ match_index_vec[s] # NoVec
  <2>1. match_index_vec[s] \in [Server -> Nat]
    BY <1>2 DEF TypeOK
  <2>2. PICK i \in MidIndex(match_index_vec[s]) : c \in {commit_index[s], max(i, commit_index[s])}
    BY <1>2 DEF NewCommitIndex
  <2>3. i \in Nat
    BY <2>1, <2>2, MidIndexType
  <2> QED  BY <1>1, <2>2, <2>3 DEF max
<1>3. CASE ~(state[s] = "Leader" /\ match_index_vec[s] # NoVec)
  BY <1>1, <1>3 DEF NewCommitIndex
<1> QED  BY <1>2, <1>3

\* Submitting and running well-typed tasks.
LEMMA SubmitTypedTasks ==
    ASSUME TypeOK, NEW new, new \subseteq Task, Submit(new)
    PROVE  DOMAIN tasks' \subseteq Task
<1>1. DOMAIN tasks \subseteq Task
  BY DEF TypeOK
<1> QED  BY <1>1, SubmitTasks

LEMMA RunTypedTasks ==
    ASSUME TypeOK, NEW m, NEW new, new \subseteq Task, Run(m, new)
    PROVE  DOMAIN tasks' \subseteq Task
<1>1. DOMAIN tasks \subseteq Task
  BY DEF TypeOK
<1> QED  BY <1>1, RunTasks

-----------------------------------------------------------------------------
(* Type correctness: one lemma for each operation that is not immediate.   *)

\* The end of a tick.
LEMMA CommitAndApplyType ==
    ASSUME TypeOK, NEW s \in Server, CommitAndApply(s)
    PROVE  /\ commit_index' \in [Server -> Nat]
           /\ last_applied' \in [Server -> Nat]
           /\ log_vec' = log_vec
<1>1. PICK c \in NewCommitIndex(s) :
          /\ commit_index' = [commit_index EXCEPT ![s] = c]
          /\ last_applied' = [last_applied EXCEPT ![s] = max(@, c + 1)]
          /\ UNCHANGED log_vec
  BY DEF CommitAndApply
<1>2. c \in Nat
  BY <1>1, NewCommitIndexType
<1> QED  BY <1>1, <1>2 DEF TypeOK, max

LEMMA UpdateType ==
    ASSUME TypeOK, NEW s \in Server, Update(s)
    PROVE  TypeOK'
<1>1. CASE UpdateLeader(s)
  <2> DEFINE new == IF next_index_vec[s] = NoVec THEN {}
                    ELSE {AppendEntriesTo(s, id) : id \in Server \ {s}}
  <2>1. new \subseteq Task
    BY AppendEntriesToType
  <2>2. Submit(new)
    BY <1>1 DEF UpdateLeader
  <2> HIDE DEF new
  <2>3. DOMAIN tasks' \subseteq Task
    BY <2>1, <2>2, SubmitTypedTasks
  <2>4. CommitAndApply(s)
    BY <1>1 DEF UpdateLeader
  <2>5. /\ commit_index' \in [Server -> Nat]
        /\ last_applied' \in [Server -> Nat]
        /\ log_vec' = log_vec
    BY <2>4, CommitAndApplyType
  <2> QED  BY <1>1, <2>3, <2>5
        DEF UpdateLeader, TypeOK, switchVars, roleVars, leaderVars
<1>2. CASE UpdateCandidate(s)
  <2>1. CommitAndApply(s)
    BY <1>2 DEF UpdateCandidate
  <2>2. /\ commit_index' \in [Server -> Nat]
        /\ last_applied' \in [Server -> Nat]
        /\ log_vec' = log_vec
    BY <2>1, CommitAndApplyType
  <2> QED  BY <1>2, <2>2
        DEF UpdateCandidate, TypeOK, switchVars, roleVars, leaderVars
<1>3. CASE UpdateFollower(s)
  <2>1. CommitAndApply(s)
    BY <1>3 DEF UpdateFollower
  <2>2. /\ commit_index' \in [Server -> Nat]
        /\ last_applied' \in [Server -> Nat]
        /\ log_vec' = log_vec
    BY <2>1, CommitAndApplyType
  <2>3. heartbeat' \in [Server -> Nat]
    BY <1>3 DEF UpdateFollower, TypeOK
  <2>4. UNCHANGED <<is_stop, vote_count, state, term, votedfor, next_index_vec,
                    match_index_vec, elections, tasks>>
    BY <1>3 DEF UpdateFollower, switchVars, leaderVars
  <2> QED  BY <2>2, <2>3, <2>4 DEF TypeOK
<1>4. CASE UpdateTimeout(s)
  <2>1. CommitAndApply(s)
    BY <1>4 DEF UpdateTimeout
  <2>2. /\ commit_index' \in [Server -> Nat]
        /\ last_applied' \in [Server -> Nat]
        /\ log_vec' = log_vec
    BY <2>1, CommitAndApplyType
  <2>3. /\ heartbeat' \in [Server -> Nat]
        /\ state' \in [Server -> States]
        /\ elections' \in [Server -> Nat]
    BY <1>4 DEF UpdateTimeout, TypeOK, States
  <2>4. UNCHANGED <<is_stop, vote_count, term, votedfor, next_index_vec,
                    match_index_vec, tasks>>
    BY <1>4 DEF UpdateTimeout, switchVars, leaderVars
  <2> QED  BY <2>2, <2>3, <2>4 DEF TypeOK
<1> QED  BY <1>1, <1>2, <1>3, <1>4 DEF Update

LEMMA ElectionType ==
    ASSUME TypeOK, NEW s \in Server, Election(s)
    PROVE  TypeOK'
<1>1. CASE ElectionBreak(s)
  <2>1. elections' \in [Server -> Nat]
    BY <1>1 DEF ElectionBreak, TypeOK
  <2> QED  BY <1>1, <2>1 DEF ElectionBreak, TypeOK, switchVars, roleVars, logVars, leaderVars
<1>2. CASE ElectionRound(s)
  <2> DEFINE new == {RequestVoteTo(s, id) : id \in Server \ {s}}
  <2>1. new \subseteq Task
    BY RequestVoteToType
  <2>2. Submit(new)
    BY <1>2 DEF ElectionRound
  <2> HIDE DEF new
  <2>3. DOMAIN tasks' \subseteq Task
    BY <2>1, <2>2, SubmitTypedTasks
  <2>4. /\ vote_count' \in [Server -> Nat]
        /\ term' \in [Server -> Nat]
        /\ votedfor' \in [Server -> Server \cup {0}]
    BY <1>2 DEF ElectionRound, TypeOK
  <2>5. UNCHANGED <<is_stop, heartbeat, state, log_vec, commit_index, last_applied,
                    next_index_vec, match_index_vec, elections>>
    BY <1>2 DEF ElectionRound, switchVars, logVars, leaderVars
  <2> QED  BY <2>3, <2>4, <2>5 DEF TypeOK
<1> QED  BY <1>1, <1>2 DEF Election

\* Becoming a follower or a leader.
LEMMA ToFollowerType ==
    ASSUME TypeOK, NEW s \in Server, NEW t \in Nat, NEW v \in Server \cup {0},
           ToFollower(s, t, v)
    PROVE  /\ heartbeat' \in [Server -> Nat]
           /\ vote_count' \in [Server -> Nat]
           /\ state' \in [Server -> States]
           /\ term' \in [Server -> Nat]
           /\ votedfor' \in [Server -> Server \cup {0}]
BY DEF ToFollower, TypeOK, States

LEMMA ToLeaderType ==
    ASSUME TypeOK, NEW s \in Server, ToLeader(s),
           switchVars' = switchVars, elections' = elections, DOMAIN tasks' \subseteq Task
    PROVE  TypeOK'
<1>1. log_vec[s] \in Seq(Entry) /\ Len(log_vec[s]) \in Nat
  BY LenProperties DEF TypeOK
<1>2. NewEntry(Len(log_vec[s]), term[s], s) \in Entry
  BY <1>1 DEF TypeOK, NewEntry, Entry
<1>3. Append(log_vec[s], NewEntry(Len(log_vec[s]), term[s], s)) \in Seq(Entry)
  BY <1>1, <1>2, AppendProperties
<1>4. ZeroVec \in [Server -> Nat] /\ ZeroVec # NoVec
  BY VecIsNotNoVec DEF ZeroVec
<1>5. /\ next_index_vec' \in [Server -> [Server -> Nat] \cup {NoVec}]
      /\ match_index_vec' \in [Server -> [Server -> Nat] \cup {NoVec}]
      /\ \A t \in Server : next_index_vec'[t] = NoVec <=> match_index_vec'[t] = NoVec
  BY <1>4 DEF ToLeader, TypeOK
<1> QED  BY <1>3, <1>5 DEF ToLeader, TypeOK, States, switchVars

-----------------------------------------------------------------------------
(* Type correctness: the handlers.                                         *)

LEMMA RequestVoteType ==
    ASSUME TypeOK, NEW m \in Task, RequestVote(m)
    PROVE  TypeOK'
<1> DEFINE s == m.to
           reply == [handler |-> "ReplyVote", to |-> m.candidate_id,
                     term |-> term'[s], vote_granted |-> VoteGranted(m, s)]
<1>1. m \in VoteArgs /\ s \in Server
  BY TaskKind DEF RequestVote
<1>2. m.term \in Nat /\ m.candidate_id \in Server
  BY <1>1 DEF VoteArgs
<1>3. /\ heartbeat' \in [Server -> Nat]
      /\ vote_count' \in [Server -> Nat]
      /\ state' \in [Server -> States]
      /\ term' \in [Server -> Nat]
      /\ votedfor' \in [Server -> Server \cup {0}]
  <2>1. CASE ToFollower(s, m.term, m.candidate_id) \/ ToFollower(s, m.term, 0)
    BY <1>1, <1>2, <2>1, ToFollowerType
  <2>2. CASE UNCHANGED roleVars
    BY <2>2 DEF roleVars, TypeOK
  <2> QED  BY <2>1, <2>2 DEF RequestVote
<1>4. reply \in Task
  <2>1. term'[s] \in Nat
    BY <1>1, <1>3
  <2>2. VoteGranted(m, s) \in BOOLEAN
    BY DEF VoteGranted, LogUpToDate
  <2> QED  BY <1>2, <2>1, <2>2 DEF Task, VoteReply
<1>5. DOMAIN tasks' \subseteq Task
  <2>1. Run(m, {reply})
    BY DEF RequestVote
  <2> HIDE DEF reply
  <2> QED  BY <1>4, <2>1, RunTypedTasks
<1>6. UNCHANGED <<is_stop, log_vec, commit_index, last_applied, next_index_vec,
                  match_index_vec, elections>>
  BY DEF RequestVote, switchVars, logVars, leaderVars
<1> QED  BY <1>3, <1>5, <1>6 DEF TypeOK

LEMMA ReplyVoteType ==
    ASSUME TypeOK, NEW m \in Task, ReplyVote(m)
    PROVE  TypeOK'
<1> DEFINE s == m.to
<1>1. m \in VoteReply /\ s \in Server
  BY TaskKind DEF ReplyVote
<1>2. DOMAIN tasks' \subseteq Task
  BY RunTypedTasks DEF ReplyVote
<1>3. switchVars' = switchVars /\ elections' = elections
  BY DEF ReplyVote
<1>4. CASE UNCHANGED <<roleVars, logVars, leaderVars>>
  BY <1>2, <1>3, <1>4 DEF TypeOK, switchVars, roleVars, logVars, leaderVars
<1>5. CASE ToLeader(s)
  BY <1>1, <1>2, <1>3, <1>5, ToLeaderType
<1>6. CASE CountVote(s)
  <2>1. /\ heartbeat' \in [Server -> Nat]
        /\ vote_count' \in [Server -> Nat]
        /\ UNCHANGED <<state, term, votedfor>>
    BY <1>1, <1>6 DEF CountVote, TypeOK
  <2> QED  BY <1>2, <1>3, <1>6, <2>1 DEF CountVote, TypeOK, switchVars, logVars, leaderVars
<1>7. CASE ToFollower(s, m.term, 0) /\ UNCHANGED <<logVars, leaderVars>>
  <2>1. m.term \in Nat
    BY <1>1 DEF VoteReply
  <2>2. /\ heartbeat' \in [Server -> Nat]
        /\ vote_count' \in [Server -> Nat]
        /\ state' \in [Server -> States]
        /\ term' \in [Server -> Nat]
        /\ votedfor' \in [Server -> Server \cup {0}]
    BY <1>1, <1>7, <2>1, ToFollowerType
  <2>3. UNCHANGED <<is_stop, log_vec, commit_index, last_applied, next_index_vec,
                    match_index_vec, elections>>
    BY <1>3, <1>7 DEF switchVars, logVars, leaderVars
  <2> QED  BY <1>2, <2>2, <2>3 DEF TypeOK
<1> QED  BY <1>4, <1>5, <1>6, <1>7 DEF ReplyVote

\* What becomes of the role when a leader's request is accepted.
LEMMA FollowLeaderType ==
    ASSUME TypeOK, NEW m \in AppendEntriesArgs, FollowLeader(m, m.to)
    PROVE  /\ heartbeat' \in [Server -> Nat]
           /\ vote_count' \in [Server -> Nat]
           /\ state' \in [Server -> States]
           /\ term' \in [Server -> Nat]
           /\ votedfor' \in [Server -> Server \cup {0}]
<1>1. m.to \in Server /\ m.term \in Nat /\ m.leader_id \in Server
  BY DEF AppendEntriesArgs
<1>2. CASE state[m.to] = "Folower"
  <2>1. /\ heartbeat' = [heartbeat EXCEPT ![m.to] = 0]
        /\ term' = [term EXCEPT ![m.to] = m.term]
        /\ UNCHANGED <<vote_count, state, votedfor>>
    BY <1>2 DEF FollowLeader
  <2> QED  BY <1>1, <2>1 DEF TypeOK
<1>3. CASE state[m.to] # "Folower"
  <2>1. ToFollower(m.to, m.term, m.leader_id)
    BY <1>3 DEF FollowLeader
  <2> QED  BY <1>1, <2>1, ToFollowerType
<1> QED  BY <1>2, <1>3

\* Overwriting a log that matches at pre_log_index gives a log.
LEMMA OverwriteType ==
    ASSUME NEW log \in Seq(Entry), NEW m \in AppendEntriesArgs,
           m.pre_log_index >= 0 => HoldsPre(m, log)
    PROVE  /\ SubSeq(log, 1, m.pre_log_index + 1) \in Seq(Entry)
           /\ Len(SubSeq(log, 1, m.pre_log_index + 1)) = m.pre_log_index + 1
           /\ \A i \in 1..m.pre_log_index + 1 :
                  SubSeq(log, 1, m.pre_log_index + 1)[i] = log[i]
           /\ Overwrite(log, m) \in Seq(Entry)
<1>1. m.pre_log_index \in Nat \cup {-1} /\ m.log_vec \in Seq(Entry)
  BY DEF AppendEntriesArgs
<1>2. m.pre_log_index + 1 \in 0..Len(log)
  BY <1>1, LenProperties DEF HoldsPre
<1>3. \A i \in 1..m.pre_log_index + 1 : log[i] \in Entry
  BY <1>1, <1>2, ElementOfSeq, LenProperties
<1>4. /\ SubSeq(log, 1, m.pre_log_index + 1) \in Seq(Entry)
      /\ Len(SubSeq(log, 1, m.pre_log_index + 1)) = m.pre_log_index + 1
      /\ \A i \in 1..m.pre_log_index + 1 :
             SubSeq(log, 1, m.pre_log_index + 1)[i] = log[i]
  <2> DEFINE n == m.pre_log_index + 1
  <2>1. n \in Nat
    BY <1>1
  <2>2. \A i \in 1..n : log[i] \in Entry
    BY <1>3
  <2> HIDE DEF n
  <2>3. /\ SubSeq(log, 1, n) \in Seq(Entry)
        /\ Len(SubSeq(log, 1, n)) = n
        /\ \A i \in 1..n : SubSeq(log, 1, n)[i] = log[i]
    BY <2>1, <2>2, SubSeqProperties
  <2> QED  BY <2>3 DEF n
<1> QED  BY <1>1, <1>4, ConcatProperties DEF Overwrite

\* The answer to a leader's request, once the server's fields are typed.
LEMMA RepliedType ==
    ASSUME TypeOK, NEW m \in AppendEntriesArgs, NEW success \in BOOLEAN,
           term' \in [Server -> Nat], commit_index' \in [Server -> Nat],
           Replied(m, m.to, success)
    PROVE  DOMAIN tasks' \subseteq Task
<1> DEFINE reply == [handler |-> "ReplyAppendEntries", to |-> m.leader_id, id |-> m.to,
                     term |-> term'[m.to], log_count |-> Len(m.log_vec),
                     success |-> success, commit_index |-> commit_index'[m.to]]
<1>1. /\ m.to \in Server /\ m.leader_id \in Server
      /\ Len(m.log_vec) \in Nat
  BY LenProperties DEF AppendEntriesArgs
<1>2. reply \in Task
  <2>1. term'[m.to] \in Nat /\ commit_index'[m.to] \in Nat
    BY <1>1
  <2> QED  BY <1>1, <2>1 DEF Task, AppendEntriesReply
<1>3. Run(m, {reply})
  BY DEF Replied
<1> HIDE DEF reply
<1> QED  BY <1>2, <1>3, RunTypedTasks

LEMMA RequestAppendEntriesType ==
    ASSUME TypeOK, NEW m \in Task, RequestAppendEntries(m)
    PROVE  TypeOK'
<1> DEFINE s == m.to
<1>1. /\ m \in AppendEntriesArgs
      /\ s \in Server
  BY TaskKind DEF RequestAppendEntries
<1>2. /\ m.pre_log_index \in Nat \cup {-1}
      /\ m.commit_index \in Nat
      /\ m.log_vec \in Seq(Entry)
  BY <1>1 DEF AppendEntriesArgs
<1>3. UNCHANGED <<is_stop, next_index_vec, match_index_vec, elections>>
  BY DEF RequestAppendEntries, switchVars, leaderVars
<1>4. CASE StaleLeader(m, s)
  <2>1. /\ UNCHANGED <<heartbeat, vote_count, state, term, votedfor, log_vec,
                       commit_index, last_applied>>
        /\ Replied(m, s, FALSE)
    BY <1>4 DEF StaleLeader, roleVars, logVars
  <2>2. term' \in [Server -> Nat] /\ commit_index' \in [Server -> Nat]
    BY <2>1 DEF TypeOK
  <2>3. DOMAIN tasks' \subseteq Task
    BY <1>1, <2>1, <2>2, RepliedType
  <2> QED  BY <1>3, <2>1, <2>3 DEF TypeOK
<1>5. ASSUME FollowLeader(m, s),
             log_vec' \in [Server -> Seq(Entry)],
             commit_index' \in [Server -> Nat],
             last_applied' = last_applied,
             Run(m, {}) \/ Replied(m, s, TRUE) \/ Replied(m, s, FALSE)
      PROVE  TypeOK'
  <2>1. /\ heartbeat' \in [Server -> Nat]
        /\ vote_count' \in [Server -> Nat]
        /\ state' \in [Server -> States]
        /\ term' \in [Server -> Nat]
        /\ votedfor' \in [Server -> Server \cup {0}]
    BY <1>1, <1>5, FollowLeaderType
  <2>2. DOMAIN tasks' \subseteq Task
    <3>1. CASE Run(m, {})
      BY <3>1, RunTypedTasks
    <3>2. ASSUME NEW success \in BOOLEAN, Replied(m, s, success)
          PROVE  DOMAIN tasks' \subseteq Task
      BY <1>1, <1>5, <2>1, <3>2, RepliedType
    <3> QED  BY <1>5, <3>1, <3>2
  <2> QED  BY <1>3, <1>5, <2>1, <2>2 DEF TypeOK
<1>6. CASE Heartbeat(m, s)
  <2>1. HeartbeatCommit(m, s) \in Nat
    BY <1>1, <1>2 DEF HeartbeatCommit, HoldsPre, min, TypeOK
  <2>2. commit_index' \in [Server -> Nat]
    BY <1>6, <2>1 DEF Heartbeat, TypeOK
  <2>3. /\ FollowLeader(m, s)
        /\ UNCHANGED <<log_vec, last_applied>>
        /\ Run(m, {})
    BY <1>6 DEF Heartbeat
  <2> QED  BY <1>5, <2>2, <2>3 DEF TypeOK
<1>7. CASE KeepEntries(m, s)
  <2>1. /\ FollowLeader(m, s)
        /\ UNCHANGED <<log_vec, commit_index, last_applied>>
        /\ Replied(m, s, TRUE)
    BY <1>7 DEF KeepEntries, logVars
  <2> QED  BY <1>5, <2>1 DEF TypeOK
<1>8. CASE RefuseEntries(m, s)
  <2>1. /\ FollowLeader(m, s)
        /\ UNCHANGED <<log_vec, commit_index, last_applied>>
        /\ Replied(m, s, FALSE)
    BY <1>8 DEF RefuseEntries, logVars
  <2> QED  BY <1>5, <2>1 DEF TypeOK
<1>9. CASE AppendEntries(m, s)
  <2>1. /\ FollowLeader(m, s)
        /\ m.pre_log_index >= 0 => HoldsPre(m, log_vec[s])
        /\ log_vec' = [log_vec EXCEPT ![s] = Overwrite(@, m)]
        /\ commit_index' = [commit_index EXCEPT ![s] =
               IF @ < m.commit_index THEN min(m.commit_index, max(m.pre_log_index, @)) ELSE @]
        /\ last_applied' = last_applied
        /\ Replied(m, s, TRUE)
    BY <1>9 DEF AppendEntries
  <2>2. log_vec[s] \in Seq(Entry)
    BY <1>1 DEF TypeOK
  <2>3. Overwrite(log_vec[s], m) \in Seq(Entry)
    BY <1>1, <2>1, <2>2, OverwriteType
  <2>4. log_vec' \in [Server -> Seq(Entry)]
    BY <2>1, <2>3 DEF TypeOK
  <2>5. commit_index' \in [Server -> Nat]
    BY <1>1, <1>2, <2>1 DEF TypeOK, min, max
  <2> QED  BY <1>5, <2>1, <2>4, <2>5
<1> QED  BY <1>4, <1>6, <1>7, <1>8, <1>9 DEF RequestAppendEntries

LEMMA ReplyAppendEntriesType ==
    ASSUME TypeOK, NEW m \in Task, ReplyAppendEntries(m)
    PROVE  TypeOK'
<1> DEFINE s == m.to
           ignored == state[s] # "Leader" \/ next_index_vec[s] = NoVec
<1>1. /\ m \in AppendEntriesReply
      /\ s \in Server
  BY TaskKind DEF ReplyAppendEntries
<1>2. m.id \in Server /\ m.log_count \in Nat /\ m.commit_index \in Nat
  BY <1>1 DEF AppendEntriesReply
<1>3. DOMAIN tasks' \subseteq Task
  BY RunTypedTasks DEF ReplyAppendEntries
<1>4. UNCHANGED <<is_stop, heartbeat, vote_count, state, term, votedfor, log_vec,
                  commit_index, last_applied, elections>>
  BY DEF ReplyAppendEntries, switchVars, roleVars, logVars
<1>5. CASE UNCHANGED leaderVars
  BY <1>3, <1>4, <1>5 DEF TypeOK, leaderVars
<1>6. ASSUME ~ignored
      PROVE  /\ next_index_vec[s] \in [Server -> Nat]
             /\ match_index_vec[s] \in [Server -> Nat]
  BY <1>1, <1>6 DEF TypeOK
<1>7. ASSUME NEW n \in [Server -> Nat], NEW k \in [Server -> Nat],
             next_index_vec' = [next_index_vec EXCEPT ![s] = n],
             match_index_vec' = [match_index_vec EXCEPT ![s] = k]
      PROVE  TypeOK'
  <2>1. n # NoVec /\ k # NoVec
    BY VecIsNotNoVec
  <2>2. /\ next_index_vec' \in [Server -> [Server -> Nat] \cup {NoVec}]
        /\ match_index_vec' \in [Server -> [Server -> Nat] \cup {NoVec}]
        /\ \A t \in Server : next_index_vec'[t] = NoVec <=> match_index_vec'[t] = NoVec
    BY <1>1, <1>7, <2>1 DEF TypeOK
  <2> QED  BY <1>3, <1>4, <2>2 DEF TypeOK
<1>8. CASE ~ignored /\ RecordSuccess(m, s)
  <2> DEFINE n == [next_index_vec[s] EXCEPT ![m.id] = @ + m.log_count]
             k == [match_index_vec[s] EXCEPT ![m.id] =
                      max(@, next_index_vec[s][m.id] + m.log_count - 1)]
  <2>1. n \in [Server -> Nat] /\ k \in [Server -> Nat]
    BY <1>2, <1>6, <1>8 DEF max
  <2>2. /\ next_index_vec' = [next_index_vec EXCEPT ![s] = n]
        /\ match_index_vec' = [match_index_vec EXCEPT ![s] = k]
    BY <1>8 DEF RecordSuccess
  <2> HIDE DEF n, k
  <2> QED  BY <1>7, <2>1, <2>2
<1>9. CASE ~ignored /\ RecordFailure(m, s)
  <2> DEFINE n == [next_index_vec[s] EXCEPT ![m.id] = m.commit_index + 1]
             k == match_index_vec[s]
  <2>1. n \in [Server -> Nat] /\ k \in [Server -> Nat]
    BY <1>2, <1>6, <1>9
  <2>2. /\ next_index_vec' = [next_index_vec EXCEPT ![s] = n]
        /\ match_index_vec' = [match_index_vec EXCEPT ![s] = k]
    BY <1>1, <1>9 DEF RecordFailure, TypeOK
  <2> HIDE DEF n, k
  <2> QED  BY <1>7, <2>1, <2>2
<1> QED  BY <1>5, <1>8, <1>9 DEF ReplyAppendEntries

-----------------------------------------------------------------------------
(* Type correctness: the environment, and the theorem.                     *)

LEMMA EnvironmentType ==
    ASSUME TypeOK, Environment
    PROVE  TypeOK'
<1>1. ASSUME NEW s \in Server, Start(s)
      PROVE  TypeOK'
  <2>1. StartEntry \in Entry
    BY DEF StartEntry, NewEntry, Entry
  <2>2. <<StartEntry>> \in Seq(Entry)
    BY <2>1
  <2>3. /\ next_index_vec' \in [Server -> [Server -> Nat] \cup {NoVec}]
        /\ match_index_vec' \in [Server -> [Server -> Nat] \cup {NoVec}]
        /\ \A t \in Server : next_index_vec'[t] = NoVec <=> match_index_vec'[t] = NoVec
    BY <1>1 DEF Start, TypeOK
  <2>4. state' \in [Server -> States] /\ log_vec' \in [Server -> Seq(Entry)]
    BY <1>1, <2>2 DEF Start, TypeOK, States
  <2> QED  BY <1>1, <2>3, <2>4 DEF Start, TypeOK
<1>2. ASSUME NEW s \in Server, Stop(s)
      PROVE  TypeOK'
  BY <1>2 DEF Stop, TypeOK, roleVars, logVars, leaderVars
<1>3. ASSUME NEW s \in Server, ReStart(s)
      PROVE  TypeOK'
  <2>1. /\ next_index_vec' \in [Server -> [Server -> Nat] \cup {NoVec}]
        /\ match_index_vec' \in [Server -> [Server -> Nat] \cup {NoVec}]
        /\ \A t \in Server : next_index_vec'[t] = NoVec <=> match_index_vec'[t] = NoVec
    BY <1>3 DEF ReStart, TypeOK
  <2> QED  BY <1>3, <2>1 DEF ReStart, TypeOK, logVars
<1>4. ASSUME NEW s \in Server, NEW v \in Value, AddLog(s, v)
      PROVE  TypeOK'
  <2>1. log_vec[s] \in Seq(Entry) /\ Len(log_vec[s]) \in Nat
    BY LenProperties DEF TypeOK
  <2>2. NewEntry(Len(log_vec[s]), term[s], v) \in Entry
    BY <2>1 DEF TypeOK, NewEntry, Entry
  <2>3. Append(log_vec[s], NewEntry(Len(log_vec[s]), term[s], v)) \in Seq(Entry)
    BY <2>1, <2>2, AppendProperties
  <2>4. log_vec' \in [Server -> Seq(Entry)]
    BY <1>4, <2>3 DEF AddLog, TypeOK
  <2> QED  BY <1>4, <2>4 DEF AddLog, TypeOK, switchVars, roleVars, leaderVars
<1> QED  BY <1>1, <1>2, <1>3, <1>4 DEF Environment

LEMMA HandleType ==
    ASSUME TypeOK, NEW m \in Task, Handle(m)
    PROVE  TypeOK'
<1>1. CASE Dropped(m)
  <2>1. DOMAIN tasks' \subseteq Task
    BY <1>1, RunTypedTasks DEF Dropped
  <2> QED  BY <1>1, <2>1 DEF Dropped, TypeOK, switchVars, roleVars, logVars, leaderVars
<1> QED  BY <1>1, RequestVoteType, ReplyVoteType, RequestAppendEntriesType,
            ReplyAppendEntriesType DEF Handle

LEMMA TypeStep ==
    ASSUME TypeOK, [Next]_vars
    PROVE  TypeOK'
<1>1. ASSUME NEW m \in DOMAIN tasks, Handle(m)
      PROVE  TypeOK'
  <2>1. m \in Task
    BY DEF TypeOK
  <2> QED  BY <1>1, <2>1, HandleType
<1>2. CASE UNCHANGED vars
  BY <1>2 DEF vars, TypeOK, switchVars, roleVars, logVars, leaderVars
<1> QED  BY <1>1, <1>2, EnvironmentType, UpdateType, ElectionType DEF Next

\* The servers' members and the requests in flight stay well typed, and the
\* index vectors are sized together: no handler indexes an empty vector.
THEOREM TypeCorrect == Spec => []TypeOK
<1>1. Init => TypeOK
  BY NoTasks DEF Init, TypeOK, States, NoVec
<1> QED  BY <1>1, TypeStep, PTL DEF Spec

-----------------------------------------------------------------------------
(* Election loops, through stops and restarts.                             *)

\* What the environment does hits only the server that it stops.
LEMMA EnvironmentHits ==
    ASSUME TypeOK, NEW s \in Server
    PROVE  /\ Start(s) \/ ReStart(s) => Hit' \subseteq Hit
           /\ Stop(s) => Hit' \subseteq Hit \cup {s}
           /\ \A v \in Value : AddLog(s, v) => Hit' \subseteq Hit
<1>1. Start(s) => Hit' \subseteq Hit
  BY DEF Start, Hit, Stuck, TypeOK
<1>2. ReStart(s) => Hit' \subseteq Hit
  BY DEF ReStart, Hit, Stuck, TypeOK
<1>3. Stop(s) => Hit' \subseteq Hit \cup {s}
  BY DEF Stop, roleVars, Hit, Stuck, TypeOK
<1>4. \A v \in Value : AddLog(s, v) => Hit' \subseteq Hit
  BY DEF AddLog, switchVars, roleVars, Hit, Stuck
<1> QED  BY <1>1, <1>2, <1>3, <1>4

\* A running server becomes a candidate with a loop, and its loop ends when it is none.
LEMMA LoopsHitNobody ==
    ASSUME TypeOK, NEW s \in Server, Update(s) \/ Election(s)
    PROVE  Hit' \subseteq Hit
<1>1. CASE UpdateTimeout(s)
  <2>1. /\ state' = [state EXCEPT ![s] = "Candidate"]
        /\ elections' = [elections EXCEPT ![s] = @ + 1]
        /\ is_stop' = is_stop /\ ~is_stop[s]
    BY <1>1 DEF UpdateTimeout, switchVars
  <2> QED  BY <2>1 DEF Hit, Stuck, TypeOK
<1>2. CASE UpdateLeader(s) \/ UpdateCandidate(s) \/ UpdateFollower(s)
  BY <1>2 DEF UpdateLeader, UpdateCandidate, UpdateFollower, switchVars, roleVars, Hit, Stuck
<1>3. CASE ElectionBreak(s)
  <2>1. /\ state' = state /\ is_stop' = is_stop
        /\ elections' = [elections EXCEPT ![s] = @ - 1]
        /\ is_stop[s] \/ state[s] # "Candidate"
    BY <1>3 DEF ElectionBreak, switchVars, roleVars
  <2> QED  BY <2>1 DEF Hit, Stuck, TypeOK
<1>4. CASE ElectionRound(s)
  BY <1>4 DEF ElectionRound, switchVars, Hit, Stuck
<1> QED  BY <1>1, <1>2, <1>3, <1>4 DEF Update, Election

\* No handler makes a candidate.
LEMMA TasksHitNobody ==
    ASSUME TypeOK, NEW m \in DOMAIN tasks, Handle(m)
    PROVE  Hit' \subseteq Hit
<1>1. elections' = elections /\ is_stop' = is_stop
  BY DEF Handle, Dropped, RequestVote, ReplyVote, RequestAppendEntries, ReplyAppendEntries,
         switchVars
<1>2. state' = state \/ /\ ~is_stop[m.to]
                        /\ \E to \in {"Folower", "Leader"} : state' = [state EXCEPT ![m.to] = to]
  <2>1. CASE Dropped(m) \/ ReplyAppendEntries(m)
    BY <2>1 DEF Dropped, ReplyAppendEntries, roleVars
  <2>2. CASE RequestVote(m)
    BY <2>2 DEF RequestVote, ToFollower, roleVars
  <2>3. CASE ReplyVote(m)
    BY <2>3 DEF ReplyVote, CountVote, ToFollower, ToLeader, roleVars
  <2>4. CASE RequestAppendEntries(m)
    BY <2>4 DEF RequestAppendEntries, StaleLeader, Heartbeat, KeepEntries, RefuseEntries,
                AppendEntries, FollowLeader, ToFollower, roleVars
  <2> QED  BY <2>1, <2>2, <2>3, <2>4 DEF Handle
<1> QED  BY <1>1, <1>2 DEF Hit, Stuck, TypeOK

\* With more stops allowed for, there may be one more server hit.
LEMMA HitCounts ==
    ASSUME NEW S, NEW T, NEW s, NEW n \in Nat, IsFiniteSet(S), Cardinality(S) <= n
    PROVE  /\ T \subseteq S => Cardinality(T) <= n
           /\ T \subseteq S \cup {s} => Cardinality(T) <= n + 1
<1>1. Cardinality(S) \in Nat
  BY FS_CardinalityType
<1>2. /\ IsFiniteSet(S \cup {s})
      /\ Cardinality(S \cup {s}) <= Cardinality(S) + 1
  BY <1>1, FS_AddElement
<1>3. ASSUME T \subseteq S PROVE Cardinality(T) <= n
  BY <1>1, <1>3, FS_Subset, FS_CardinalityType
<1>4. ASSUME T \subseteq S \cup {s} PROVE Cardinality(T) <= n + 1
  <2>1. /\ Cardinality(T) \in Nat /\ Cardinality(S \cup {s}) \in Nat
        /\ Cardinality(T) <= Cardinality(S \cup {s})
    BY <1>2, <1>4, FS_Subset, FS_CardinalityType
  <2> QED  BY <1>1, <1>2, <2>1
<1> QED  BY <1>3, <1>4

\* A step with prompt tasks is a step of the servers, or a stopped server's tick.
LEMMA TimedIsNext == TimedNext => [Next]_vars
BY DEF TimedNext, StartUp, Crash, Recover, ClientCall, Tick, StoppedTick, Wake, RunTask, Next,
       Environment

LEMMA StuckStep == StuckInv /\ [TimedNext]_timedVars => StuckInv'
<1> SUFFICES ASSUME StuckInv, [TimedNext]_timedVars PROVE StuckInv'
  OBVIOUS
<1>1. TypeOK /\ stops \in Nat /\ Cardinality(Hit) <= stops
  BY DEF StuckInv
<1>2. TypeOK'
  BY <1>1, TypeStep, TimedIsNext DEF timedVars
<1>3. IsFiniteSet(Hit)
  BY ServerAssumption, FS_Subset DEF Hit
<1>4. ASSUME Hit' \subseteq Hit, stops' = stops PROVE StuckInv'
  BY <1>1, <1>2, <1>3, <1>4, HitCounts DEF StuckInv
<1>5. ASSUME NEW s \in Server, Crash(s) PROVE StuckInv'
  <2>1. Hit' \subseteq Hit \cup {s} /\ stops' = stops + 1
    BY <1>1, <1>5, EnvironmentHits DEF Crash
  <2>2. Cardinality(Hit') <= stops + 1
    BY <1>1, <1>3, <2>1, HitCounts, Zenon
  <2> QED  BY <1>1, <1>2, <2>1, <2>2 DEF StuckInv
<1>6. ASSUME NEW s \in Server,
             StartUp(s) \/ Recover(s) \/ \E v \in Value : ClientCall(s, v)
      PROVE  StuckInv'
  BY <1>1, <1>4, <1>6, EnvironmentHits DEF StartUp, Recover, ClientCall
<1>7. ASSUME NEW s \in Server, Tick(s) \/ Wake(s) PROVE StuckInv'
  BY <1>1, <1>4, <1>7, LoopsHitNobody DEF Tick, Wake
<1>8. CASE RunTask
  BY <1>1, <1>4, <1>8, TasksHitNobody DEF RunTask
<1>9. CASE UNCHANGED vars /\ UNCHANGED stops
  BY <1>4, <1>9 DEF vars, switchVars, roleVars, Hit, Stuck
<1> QED
  BY <1>5, <1>6, <1>7, <1>8, <1>9 DEF TimedNext, StoppedTick, timedVars

\* Candidates go on asking for votes through stops and restarts of any servers at any moment: each
\* stop costs one of them its Election loop at most, and no request, reply or split vote does.
THEOREM StuckOnlyByStopsHolds == TimedSpec => []StuckOnlyByStops
<1>1. TimedInit => StuckInv
  <2> SUFFICES ASSUME TimedInit PROVE StuckInv
    OBVIOUS
  <2>1. TypeOK
    BY NoTasks DEF TimedInit, Init, TypeOK, States, NoVec
  <2>2. Hit = {}
    BY DEF TimedInit, Init, Hit
  <2> QED  BY <2>1, <2>2, FS_EmptySet DEF TimedInit, StuckInv
<1>2. StuckInv => StuckOnlyByStops
  <2> SUFFICES ASSUME StuckInv PROVE StuckOnlyByStops
    OBVIOUS
  <2>1. Stuck \subseteq Hit
    BY DEF Hit, Stuck
  <2>2. IsFiniteSet(Hit)
    BY ServerAssumption, FS_Subset DEF Hit
  <2> QED  BY <2>1, <2>2, HitCounts DEF StuckInv, StuckOnlyByStops
<1> QED  BY <1>1, <1>2, StuckStep, PTL DEF TimedSpec

=============================================================================
