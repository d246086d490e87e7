-------------------------- MODULE RaftSteadyProofs --------------------------
(***************************************************************************)
(* Under one elected leader, for any number of servers and with servers    *)
(* stopping and restarting: the logs never diverge, whatever is committed; *)
(* and as long as the leader commits nothing past its own log the servers  *)
(* implement the replicated log.  With prompt tasks it never does, and     *)
(* what it commits a majority holds.                                       *)
(***************************************************************************)
EXTENDS RaftSteady, RaftLogProofs, FiniteSetTheorems

LEMMA SteadyNextIsNext == SteadyNext => Next
BY DEF SteadyNext

LEMMA SteadyInvInit == SteadyInit => SteadyInv
<1> SUFFICES ASSUME SteadyInit PROVE SteadyInv
  OBVIOUS
<1> USE BossAssumption
<1> DEFINE first == NewEntry(1, 1, Boss)
<1>1. /\ StartEntry \in Entry /\ StartEntry.index = 0
      /\ first \in Entry /\ first.index = 1
  BY DEF StartEntry, NewEntry, Entry
<1> HIDE DEF first
<1>2. /\ <<StartEntry>> \in Seq(Entry) /\ Len(<<StartEntry>>) = 1
      /\ <<StartEntry, first>> \in Seq(Entry) /\ Len(<<StartEntry, first>>) = 2
      /\ <<StartEntry>>[1] = StartEntry
      /\ <<StartEntry, first>>[1] = StartEntry /\ <<StartEntry, first>>[2] = first
  BY <1>1
<1>3. log_vec = [s \in Server |->
          IF s = Boss THEN <<StartEntry, first>> ELSE <<StartEntry>>]
  BY DEF SteadyInit, first
<1>4. TypeOK
  <2>1. log_vec \in [Server -> Seq(Entry)]
    BY <1>2, <1>3
  <2>2. ZeroVec \in [Server -> Nat] /\ ZeroVec # NoVec
    BY VecIsNotNoVec DEF ZeroVec
  <2> QED  BY <2>1, <2>2, NoTasks DEF SteadyInit, TypeOK, States
<1>5. LogIndexed
  BY <1>1, <1>2, <1>3 DEF LogIndexed
<1>6. NeverStarted /\ RequestsIndexed /\ SteadyTasks /\ SteadyRoles
  BY NoTasks DEF SteadyInit, NeverStarted, RequestsIndexed, SteadyTasks, SteadyRoles
<1>7. FollowsBoss
  BY <1>2, <1>3 DEF FollowsBoss, Prefix
<1> QED  BY <1>4, <1>5, <1>6, <1>7 DEF SteadyInv, LogInv

-----------------------------------------------------------------------------
(* Prefixes.                                                               *)

LEMMA PrefixTrans ==
    ASSUME NEW a \in Seq(Entry), NEW b \in Seq(Entry), NEW c \in Seq(Entry),
           Prefix(a, b), Prefix(b, c)
    PROVE  Prefix(a, c)
<1>1. Len(a) \in Nat /\ Len(b) \in Nat /\ Len(c) \in Nat
  BY LenProperties
<1> QED  BY <1>1 DEF Prefix

\* Of two prefixes of a log, the shorter is a prefix of the longer.
LEMMA PrefixesCompare ==
    ASSUME NEW a \in Seq(Entry), NEW b \in Seq(Entry), NEW c \in Seq(Entry),
           Prefix(a, c), Prefix(b, c), Len(a) <= Len(b)
    PROVE  Prefix(a, b)
<1>1. Len(a) \in Nat /\ Len(b) \in Nat /\ Len(c) \in Nat
  BY LenProperties
<1> QED  BY <1>1 DEF Prefix

\* A log cut after position c is a prefix of it.
LEMMA CutIsPrefix ==
    ASSUME NEW log \in Seq(Entry), NEW c \in Nat
    PROVE  LET cut == SubSeq(log, 1, min(c + 1, Len(log)))
           IN  /\ cut \in Seq(Entry)
               /\ Len(cut) = min(c + 1, Len(log))
               /\ Prefix(cut, log)
<1> DEFINE n == min(c + 1, Len(log))
<1>1. Len(log) \in Nat
  BY LenProperties
<1>2. n \in Nat /\ n <= Len(log)
  BY <1>1 DEF min
<1> HIDE DEF n
<1>3. \A i \in 1..n : log[i] \in Entry
  BY <1>1, <1>2, ElementOfSeq
<1>4. /\ SubSeq(log, 1, n) \in Seq(Entry)
      /\ Len(SubSeq(log, 1, n)) = n
      /\ \A i \in 1..n : SubSeq(log, 1, n)[i] = log[i]
  BY <1>2, <1>3, SubSeqProperties
<1> QED  BY <1>1, <1>2, <1>4 DEF Prefix, n

\* What a server has committed is a prefix of its log.
LEMMA CommittedIsPrefix ==
    ASSUME TypeOK, NEW s \in Server
    PROVE  /\ Committed(s) \in Seq(Entry)
           /\ Len(Committed(s)) = min(commit_index[s] + 1, Len(log_vec[s]))
           /\ Prefix(Committed(s), log_vec[s])
<1>1. log_vec[s] \in Seq(Entry) /\ commit_index[s] \in Nat
  BY DEF TypeOK
<1> QED  BY <1>1, CutIsPrefix DEF Committed

LEMMA Concat ==
    ASSUME NEW a \in Seq(Entry), NEW b \in Seq(Entry)
    PROVE  /\ Len(a \o b) = Len(a) + Len(b)
           /\ \A i \in 1..Len(a) + Len(b) :
                  (a \o b)[i] = IF i <= Len(a) THEN a[i] ELSE b[i - Len(a)]
BY ConcatProperties

\* Overwriting a prefix of the leader's log with a piece of it leaves a prefix.
LEMMA OverwriteFollows ==
    ASSUME NEW log \in Seq(Entry), NEW boss \in Seq(Entry), NEW m \in AppendEntriesArgs,
           Prefix(log, boss), m.log_vec # <<>>,
           m.pre_log_index >= 0 => HoldsPre(m, log),
           \A i \in 1..Len(m.log_vec) :
               /\ m.pre_log_index + 1 + i <= Len(boss)
               /\ m.log_vec[i] = boss[m.pre_log_index + 1 + i]
    PROVE  Prefix(Overwrite(log, m), boss)
<1> DEFINE kept == SubSeq(log, 1, m.pre_log_index + 1)
           new == kept \o m.log_vec
           p == m.pre_log_index + 1
<1>1. /\ m.pre_log_index \in Nat \cup {-1}
      /\ m.log_vec \in Seq(Entry)
      /\ Len(m.log_vec) \in Nat \ {0}
      /\ Len(log) \in Nat /\ Len(boss) \in Nat
  BY EmptySeq, LenProperties DEF AppendEntriesArgs
<1>2. /\ kept \in Seq(Entry)
      /\ Len(kept) = p
      /\ \A i \in 1..p : kept[i] = log[i]
  BY OverwriteType DEF Overwrite
<1>3. p \in 0..Len(log)
  BY <1>1 DEF HoldsPre
<1> HIDE DEF kept, new
<1>4. /\ Len(new) = p + Len(m.log_vec)
      /\ \A i \in 1..p + Len(m.log_vec) :
             new[i] = IF i <= p THEN kept[i] ELSE m.log_vec[i - p]
  <2>1. /\ Len(kept \o m.log_vec) = Len(kept) + Len(m.log_vec)
        /\ \A i \in 1..Len(kept) + Len(m.log_vec) :
               (kept \o m.log_vec)[i]
                   = IF i <= Len(kept) THEN kept[i] ELSE m.log_vec[i - Len(kept)]
    BY <1>1, <1>2, Concat
  <2> QED  BY <1>2, <2>1 DEF new
<1>5. Len(new) <= Len(boss)
  <2>1. Len(m.log_vec) \in 1..Len(m.log_vec)
    BY <1>1
  <2> QED  BY <1>1, <1>4, <2>1
<1>6. ASSUME NEW i \in 1..Len(new)
      PROVE  new[i] = boss[i]
  <2>1. CASE i <= p
    <3>1. i \in 1..p /\ i \in 1..Len(log)
      BY <1>1, <1>3, <1>4, <2>1
    <3> QED  BY <1>1, <1>2, <1>4, <2>1, <3>1 DEF Prefix
  <2>2. CASE i > p
    <3>1. i - p \in 1..Len(m.log_vec) /\ i = m.pre_log_index + 1 + (i - p)
      BY <1>1, <1>4, <2>2
    <3> QED  BY <1>1, <1>4, <2>2, <3>1
  <2> QED  BY <1>1, <1>4, <2>1, <2>2
<1> QED  BY <1>5, <1>6 DEF Prefix, Overwrite, new, kept

-----------------------------------------------------------------------------
(* The steps.                                                              *)

\* With no votes and no election left, these are all the steps there are.
LEMMA SteadySteps ==
    ASSUME SteadyInv, [SteadyNext]_vars
    PROVE  \/ /\ UNCHANGED <<state, term, elections, log_vec, commit_index>>
              /\ DOMAIN tasks' \subseteq DOMAIN tasks
           \/ \E v \in Value : AddLog(Boss, v)
           \/ UpdateLeader(Boss)
           \/ \E m \in DOMAIN tasks : RequestAppendEntries(m)
<1> DEFINE Quiet == /\ UNCHANGED <<state, term, elections, log_vec, commit_index>>
                    /\ DOMAIN tasks' \subseteq DOMAIN tasks
<1>1. CASE UNCHANGED vars
  <2>1. UNCHANGED <<state, term, elections, log_vec, commit_index, tasks>>
    BY <1>1 DEF vars, roleVars, logVars
  <2> QED  BY <2>1
<1>2. CASE SteadyNext
  <2>1. Next /\ elections' = elections
    BY <1>2 DEF SteadyNext
  <2>2. /\ \A s \in Server : state[s] = IF s = Boss THEN "Leader" ELSE "Folower"
        /\ \A s \in Server : elections[s] = 0
        /\ commit_index \in [Server -> Nat]
    BY DEF SteadyInv, SteadyRoles, LogInv, TypeOK
  <2>3. ASSUME NEW s \in Server, Start(s)
        PROVE  FALSE
    BY <2>2, <2>3 DEF Start
  <2>4. ASSUME NEW s \in Server, Stop(s) \/ ReStart(s)
        PROVE  Quiet
    <3>1. UNCHANGED <<state, term, elections, log_vec, commit_index, tasks>>
      BY <2>4 DEF Stop, ReStart, roleVars, logVars
    <3> QED  BY <3>1
  <2>5. ASSUME NEW s \in Server, NEW v \in Value, AddLog(s, v)
        PROVE  AddLog(Boss, v)
    <3>1. s = Boss
      BY <2>2, <2>5 DEF AddLog
    <3> QED  BY <2>5, <3>1
  <2>6. ASSUME NEW s \in Server, Election(s)
        PROVE  FALSE
    BY <2>2, <2>6 DEF Election, ElectionBreak, ElectionRound
  <2>7. ASSUME NEW s \in Server, UpdateCandidate(s) \/ UpdateTimeout(s)
        PROVE  FALSE
    <3>1. UpdateTimeout(s)
      BY <2>2, <2>7 DEF UpdateCandidate
    <3>2. elections' = [elections EXCEPT ![s] = @ + 1]
      BY <3>1 DEF UpdateTimeout
    <3>3. elections \in [Server -> Nat]
      BY DEF SteadyInv, LogInv, TypeOK
    <3> QED  BY <2>1, <2>2, <3>2, <3>3
  <2>8. ASSUME NEW s \in Server, UpdateLeader(s)
        PROVE  UpdateLeader(Boss)
    <3>1. s = Boss
      BY <2>2, <2>8 DEF UpdateLeader
    <3> QED  BY <2>8, <3>1
  <2>9. ASSUME NEW s \in Server, UpdateFollower(s)
        PROVE  Quiet
    <3>1. /\ UNCHANGED <<state, term, elections, tasks>>
          /\ CommitAndApply(s)
          /\ state[s] # "Leader"
      BY <2>9 DEF UpdateFollower
    <3>2. NewCommitIndex(s) = {commit_index[s]}
      BY <3>1 DEF NewCommitIndex
    <3>3. commit_index' = [commit_index EXCEPT ![s] = commit_index[s]] /\ UNCHANGED log_vec
      BY <3>1, <3>2 DEF CommitAndApply
    <3>4. commit_index' = commit_index
      BY <2>2, <3>3
    <3> QED  BY <3>1, <3>3, <3>4
  <2>10. ASSUME NEW m \in DOMAIN tasks, RequestVote(m) \/ ReplyVote(m)
         PROVE  FALSE
    BY <2>10 DEF RequestVote, ReplyVote, SteadyInv, SteadyTasks, SteadyTask
  <2>11. ASSUME NEW m \in DOMAIN tasks, Dropped(m) \/ ReplyAppendEntries(m)
         PROVE  Quiet
    <3>1. UNCHANGED <<state, term, elections, log_vec, commit_index>> /\ Run(m, {})
      BY <2>11 DEF Dropped, ReplyAppendEntries, roleVars, logVars
    <3>2. DOMAIN tasks' \subseteq DOMAIN tasks
      BY <3>1, RunTasks
    <3> QED  BY <3>1, <3>2
  <2>12. CASE Environment
    BY <2>3, <2>4, <2>5, <2>12 DEF Environment
  <2>13. ASSUME NEW s \in Server, Update(s)
         PROVE  Quiet \/ UpdateLeader(Boss)
    BY <2>7, <2>8, <2>9, <2>13 DEF Update
  <2>14. ASSUME NEW m \in DOMAIN tasks, Handle(m)
         PROVE  Quiet \/ RequestAppendEntries(m)
    BY <2>10, <2>11, <2>14 DEF Handle
  <2> QED  BY <2>1, <2>6, <2>12, <2>13, <2>14 DEF Next
<1> QED  BY <1>1, <1>2

\* Running a leader's request on a follower.
LEMMA FollowerRuns ==
    ASSUME SteadyInv, NEW m \in DOMAIN tasks, RequestAppendEntries(m)
    PROVE  /\ m \in AppendEntriesArgs /\ m.to \in Server /\ m.to # Boss /\ Piece(m)
           /\ UNCHANGED <<state, term, elections>>
           /\ \A r \in DOMAIN tasks' \ DOMAIN tasks :
                  r.handler = "ReplyAppendEntries" /\ SteadyTask(r)
           /\ \/ UNCHANGED <<log_vec, commit_index>>
              \/ m.log_vec = <<>> /\ Heartbeat(m, m.to)
              \/ AppendEntries(m, m.to)
<1> DEFINE s == m.to
<1>1. m \in AppendEntriesArgs /\ s \in Server
  <2>1. m \in Task
    BY DEF SteadyInv, LogInv, TypeOK
  <2> QED  BY <2>1, TaskKind DEF RequestAppendEntries
<1>2. s # Boss /\ m.leader_id = Boss /\ m.term = 1 /\ Piece(m)
  BY DEF RequestAppendEntries, SteadyInv, SteadyTasks, SteadyTask
<1>3. /\ state[s] = "Folower" /\ term[s] = 1
      /\ state \in [Server -> States] /\ term \in [Server -> Nat]
  BY <1>1, <1>2 DEF SteadyInv, SteadyRoles, LogInv, TypeOK
<1>4. ~StaleLeader(m, s)
  BY <1>2, <1>3 DEF StaleLeader
<1>5. FollowLeader(m, s) => UNCHANGED <<state, term>>
  <2>1. ASSUME FollowLeader(m, s)
        PROVE  state' = state /\ term' = [term EXCEPT ![s] = 1]
    BY <1>2, <1>3, <2>1 DEF FollowLeader
  <2> QED  BY <1>1, <1>3, <2>1
<1>6. FollowLeader(m, s)
  BY <1>4 DEF RequestAppendEntries, Heartbeat, KeepEntries, RefuseEntries, AppendEntries
<1>7. UNCHANGED <<state, term, elections>>
  BY <1>5, <1>6 DEF RequestAppendEntries
<1>8. ASSUME NEW success, Replied(m, s, success)
      PROVE  \A r \in DOMAIN tasks' \ DOMAIN tasks :
                 r.handler = "ReplyAppendEntries" /\ SteadyTask(r)
  <2> DEFINE reply == [handler |-> "ReplyAppendEntries", to |-> m.leader_id, id |-> s,
                       term |-> term'[s], log_count |-> Len(m.log_vec),
                       success |-> success, commit_index |-> commit_index'[s]]
  <2>1. Run(m, {reply})
    BY <1>8 DEF Replied
  <2>2. reply.handler = "ReplyAppendEntries" /\ reply.to = Boss
    BY <1>2
  <2> HIDE DEF reply
  <2>3. DOMAIN tasks' \subseteq DOMAIN tasks \cup {reply}
    BY <2>1, RunTasks
  <2> QED  BY <2>2, <2>3 DEF SteadyTask
<1>9. CASE Heartbeat(m, s)
  <2>1. m.log_vec = <<>> /\ Run(m, {})
    BY <1>9 DEF Heartbeat
  <2>2. DOMAIN tasks' \subseteq DOMAIN tasks \cup {}
    BY <2>1, RunTasks
  <2> QED  BY <1>1, <1>2, <1>7, <1>9, <2>1, <2>2
<1>10. CASE KeepEntries(m, s) \/ RefuseEntries(m, s)
  <2>1. UNCHANGED <<log_vec, commit_index>>
    BY <1>10 DEF KeepEntries, RefuseEntries, logVars
  <2>2. \E success : Replied(m, s, success)
    BY <1>10 DEF KeepEntries, RefuseEntries
  <2> QED  BY <1>1, <1>2, <1>7, <1>8, <2>1, <2>2
<1>11. CASE AppendEntries(m, s)
  <2>1. Replied(m, s, TRUE)
    BY <1>11 DEF AppendEntries
  <2> QED  BY <1>1, <1>2, <1>7, <1>8, <1>11, <2>1
<1> QED  BY <1>4, <1>9, <1>10, <1>11 DEF RequestAppendEntries

\* The leader's log only grows, so the requests stay pieces of it.
LEMMA TasksStaySteady ==
    ASSUME SteadyInv, LogInv', Prefix(log_vec[Boss], log_vec'[Boss]),
           \A r \in DOMAIN tasks' \ DOMAIN tasks : SteadyTask(r)
    PROVE  SteadyTasks'
<1> SUFFICES ASSUME NEW m \in DOMAIN tasks'
             PROVE  SteadyTask(m)'
  BY DEF SteadyTasks
<1>1. SteadyTask(m)
  BY DEF SteadyInv, SteadyTasks
<1>2. CASE m.handler = "ReplyAppendEntries" /\ m.to = Boss
  BY <1>2 DEF SteadyTask
<1>3. CASE m.handler = "RequestAppendEntries"
  <2>1. m \in AppendEntriesArgs
    <3>1. m \in Task
      BY DEF LogInv, TypeOK
    <3> QED  BY <1>3, <3>1, TaskKind
  <2>2. Piece(m) /\ m.to # Boss /\ m.leader_id = Boss /\ m.term = 1
    BY <1>1, <1>3 DEF SteadyTask
  <2>3. /\ m.pre_log_index \in Nat \cup {-1} /\ Len(m.log_vec) \in Nat
        /\ Len(log_vec[Boss]) \in Nat /\ Len(log_vec'[Boss]) \in Nat
    BY <2>1, BossAssumption, LenProperties DEF AppendEntriesArgs, SteadyInv, LogInv, TypeOK
  <2>4. ASSUME NEW i \in 1..Len(m.log_vec)
        PROVE  /\ m.pre_log_index + 1 + i <= Len(log_vec'[Boss])
               /\ m.log_vec[i] = log_vec'[Boss][m.pre_log_index + 1 + i]
    <3> DEFINE j == m.pre_log_index + 1 + i
    <3>1. j <= Len(log_vec[Boss]) /\ m.log_vec[i] = log_vec[Boss][j]
      BY <2>2 DEF Piece
    <3>2. j \in 1..Len(log_vec[Boss])
      BY <2>3, <3>1
    <3> HIDE DEF j
    <3>3. log_vec[Boss][j] = log_vec'[Boss][j] /\ j <= Len(log_vec'[Boss])
      BY <2>3, <3>2 DEF Prefix
    <3> QED  BY <3>1, <3>3 DEF j
  <2>5. Piece(m)'
    BY <2>4 DEF Piece
  <2> QED  BY <1>3, <2>2, <2>5 DEF SteadyTask
<1> QED  BY <1>1, <1>2, <1>3 DEF SteadyTask

\* What the leader sends is a piece of its log.
LEMMA LeaderSends ==
    ASSUME SteadyInv, NEW id \in Server \ {Boss}, next_index_vec[Boss] # NoVec
    PROVE  SteadyTask(AppendEntriesTo(Boss, id))
<1> DEFINE next == next_index_vec[Boss][id]
           log == log_vec[Boss]
           n == Len(log)
           entries == SubSeq(log, next + 1, n)
           m == AppendEntriesTo(Boss, id)
<1>1. next \in Nat /\ log \in Seq(Entry) /\ n \in Nat
  BY BossAssumption, LenProperties DEF SteadyInv, LogInv, TypeOK
<1>2. /\ m.log_vec = entries /\ m.pre_log_index = next - 1
      /\ m.handler = "RequestAppendEntries" /\ m.to = id
      /\ m.leader_id = Boss /\ m.term = term[Boss]
  BY DEF AppendEntriesTo
<1>3. term[Boss] = 1
  BY BossAssumption DEF SteadyInv, SteadyRoles
<1>4. \A i \in 1..n : log[i] \in Entry
  BY <1>1, ElementOfSeq
<1> HIDE DEF log, n, entries, m, next
<1>5. /\ Len(entries) = IF next + 1 <= n THEN n - (next + 1) + 1 ELSE 0
      /\ \A i \in 1..n - (next + 1) + 1 : entries[i] = log[next + 1 + i - 1]
  <2>1. \A i \in next + 1 .. n : log[i] \in Entry
    BY <1>1, <1>4
  <2>2. next + 1 \in Int /\ n \in Int
    BY <1>1
  <2> QED  BY <1>1, <2>1, <2>2, SubSeqProperties DEF entries
<1>6. ASSUME NEW i \in 1..Len(entries)
      PROVE  next - 1 + 1 + i <= n /\ entries[i] = log[next - 1 + 1 + i]
  <2>1. i \in 1..n - (next + 1) + 1 /\ next + i \in 1..n
    BY <1>1, <1>5
  <2>2. next + 1 + i - 1 = next + i /\ next - 1 + 1 + i = next + i
    BY <1>1, <2>1
  <2> QED  BY <1>5, <2>1, <2>2
<1>7. Piece(m)
  BY <1>2, <1>6 DEF Piece, log, n
<1> QED  BY <1>2, <1>3, <1>7 DEF SteadyTask, m

-----------------------------------------------------------------------------
(* The invariant.                                                          *)

\* The logs after a step: the leader's has grown, the others follow it.
LEMMA SteadyLogs ==
    ASSUME SteadyInv, [SteadyNext]_vars, LogInv'
    PROVE  Prefix(log_vec[Boss], log_vec'[Boss]) /\ FollowsBoss'
<1>1. /\ log_vec \in [Server -> Seq(Entry)] /\ log_vec' \in [Server -> Seq(Entry)]
      /\ \A s \in Server : Len(log_vec[s]) \in Nat /\ Len(log_vec'[s]) \in Nat
  BY LenProperties DEF SteadyInv, LogInv, TypeOK
<1>2. Boss \in Server
  BY BossAssumption
<1>3. CASE log_vec' = log_vec
  BY <1>1, <1>2, <1>3 DEF SteadyInv, FollowsBoss, Prefix
<1>4. ASSUME NEW v \in Value, AddLog(Boss, v)
      PROVE  Prefix(log_vec[Boss], log_vec'[Boss]) /\ FollowsBoss'
  <2> DEFINE e == NewEntry(Len(log_vec[Boss]), term[Boss], v)
  <2>1. log_vec' = [log_vec EXCEPT ![Boss] = Append(log_vec[Boss], e)]
    BY <1>4 DEF AddLog
  <2>2. e \in Entry
    <3>1. term[Boss] \in Nat
      BY <1>2 DEF SteadyInv, LogInv, TypeOK
    <3> QED  BY <1>1, <1>2, <3>1 DEF NewEntry, Entry
  <2> HIDE DEF e
  <2>3. Prefix(log_vec[Boss], log_vec'[Boss])
    BY <1>1, <1>2, <2>1, <2>2, AppendProperties DEF Prefix
  <2>4. ASSUME NEW s \in Server
        PROVE  Prefix(log_vec'[s], log_vec'[Boss])
    <3>1. CASE s = Boss
      BY <1>1, <3>1 DEF Prefix
    <3>2. CASE s # Boss
      <4>1. log_vec'[s] = log_vec[s] /\ Prefix(log_vec[s], log_vec[Boss])
        BY <1>1, <2>1, <3>2 DEF SteadyInv, FollowsBoss
      <4> QED  BY <1>1, <1>2, <2>3, <4>1, PrefixTrans
    <3> QED  BY <3>1, <3>2
  <2>5. FollowsBoss'
    BY <2>4 DEF FollowsBoss
  <2> QED  BY <2>3, <2>5
<1>5. ASSUME NEW m \in DOMAIN tasks, RequestAppendEntries(m), AppendEntries(m, m.to)
      PROVE  Prefix(log_vec[Boss], log_vec'[Boss]) /\ FollowsBoss'
  <2> DEFINE s == m.to
             new == Overwrite(log_vec[s], m)
  <2>1. m \in AppendEntriesArgs /\ s \in Server /\ s # Boss /\ Piece(m)
    BY <1>5, FollowerRuns
  <2>2. /\ m.log_vec # <<>>
        /\ m.pre_log_index >= 0 => HoldsPre(m, log_vec[s])
        /\ log_vec' = [log_vec EXCEPT ![s] = new]
    BY <1>5 DEF AppendEntries
  <2>3. Prefix(log_vec[s], log_vec[Boss])
    BY <2>1 DEF SteadyInv, FollowsBoss
  <2>4. Prefix(new, log_vec[Boss])
    BY <1>1, <1>2, <2>1, <2>2, <2>3, OverwriteFollows DEF Piece
  <2> HIDE DEF new
  <2>5. /\ log_vec'[Boss] = log_vec[Boss] /\ log_vec'[s] = new
        /\ \A t \in Server \ {s} : log_vec'[t] = log_vec[t]
    BY <1>1, <1>2, <2>1, <2>2
  <2>6. FollowsBoss'
    BY <2>4, <2>5 DEF SteadyInv, FollowsBoss
  <2> QED  BY <1>1, <1>2, <2>5, <2>6 DEF Prefix
<1>6. UpdateLeader(Boss) => log_vec' = log_vec
  BY DEF UpdateLeader, CommitAndApply
<1>7. ASSUME NEW m \in DOMAIN tasks, RequestAppendEntries(m)
      PROVE  log_vec' = log_vec \/ AppendEntries(m, m.to)
  <2>1. Heartbeat(m, m.to) => log_vec' = log_vec
    BY DEF Heartbeat
  <2> QED  BY <1>7, <2>1, FollowerRuns
<1> QED  BY <1>3, <1>4, <1>5, <1>6, <1>7, SteadySteps

LEMMA SteadyInvStep ==
    ASSUME SteadyInv, [SteadyNext]_vars
    PROVE  SteadyInv'
<1>1. LogInv'
  <2>1. LogInv /\ [Next]_vars
    BY SteadyNextIsNext DEF SteadyInv
  <2> QED  BY <2>1, LogInvStep
<1>2. Prefix(log_vec[Boss], log_vec'[Boss]) /\ FollowsBoss'
  BY <1>1, SteadyLogs
<1>3. UNCHANGED <<state, term, elections>>
      /\ \A r \in DOMAIN tasks' \ DOMAIN tasks : SteadyTask(r)
  <2>1. CASE /\ UNCHANGED <<state, term, elections, log_vec, commit_index>>
             /\ DOMAIN tasks' \subseteq DOMAIN tasks
    BY <2>1
  <2>2. ASSUME NEW v \in Value, AddLog(Boss, v)
        PROVE  UNCHANGED <<state, term, elections, tasks>>
    BY <2>2 DEF AddLog, roleVars
  <2>3. CASE UpdateLeader(Boss)
    <3> DEFINE new == IF next_index_vec[Boss] = NoVec THEN {}
                      ELSE {AppendEntriesTo(Boss, id) : id \in Server \ {Boss}}
    <3>1. UNCHANGED <<state, term, elections>> /\ Submit(new)
      BY <2>3 DEF UpdateLeader, roleVars
    <3>2. \A r \in new : SteadyTask(r)
      BY LeaderSends
    <3> HIDE DEF new
    <3>3. DOMAIN tasks' = DOMAIN tasks \cup new
      BY <3>1, SubmitTasks
    <3> QED  BY <3>1, <3>2, <3>3
  <2>4. ASSUME NEW m \in DOMAIN tasks, RequestAppendEntries(m)
        PROVE  /\ UNCHANGED <<state, term, elections>>
               /\ \A r \in DOMAIN tasks' \ DOMAIN tasks : SteadyTask(r)
    BY <2>4, FollowerRuns
  <2> QED  BY <2>1, <2>2, <2>3, <2>4, SteadySteps
<1>4. SteadyTasks'
  BY <1>1, <1>2, <1>3, TasksStaySteady
<1>5. SteadyRoles'
  BY <1>3 DEF SteadyInv, SteadyRoles
<1> QED  BY <1>1, <1>2, <1>4, <1>5 DEF SteadyInv

THEOREM SteadyInvHolds == SteadySpec => []SteadyInv
BY SteadyInvInit, SteadyInvStep, PTL DEF SteadySpec

\* Under one leader no server's log ever leaves the leader's, whatever old or
\* repeated requests it runs.
THEOREM FollowsBossHolds == SteadySpec => []FollowsBoss
<1>1. SteadyInv => FollowsBoss
  BY DEF SteadyInv
<1> QED  BY <1>1, SteadyInvHolds, PTL

LEMMA LogsAgree == SteadyInv => StateMachineSafety
<1> SUFFICES ASSUME SteadyInv, NEW s \in Server, NEW t \in Server
             PROVE  \/ Prefix(Committed(s), Committed(t))
                    \/ Prefix(Committed(t), Committed(s))
  BY DEF StateMachineSafety
<1>1. TypeOK /\ log_vec \in [Server -> Seq(Entry)] /\ Boss \in Server
  BY BossAssumption DEF SteadyInv, LogInv, TypeOK
<1>2. ASSUME NEW u \in Server
      PROVE  /\ Committed(u) \in Seq(Entry) /\ Len(Committed(u)) \in Nat
             /\ Prefix(Committed(u), log_vec[Boss])
  <2>1. Committed(u) \in Seq(Entry) /\ Prefix(Committed(u), log_vec[u])
    BY <1>1, CommittedIsPrefix
  <2>2. Prefix(log_vec[u], log_vec[Boss])
    BY DEF SteadyInv, FollowsBoss
  <2> QED  BY <1>1, <2>1, <2>2, PrefixTrans, LenProperties
<1>3. Len(Committed(s)) <= Len(Committed(t)) \/ Len(Committed(t)) <= Len(Committed(s))
  BY <1>2
<1> QED  BY <1>1, <1>2, <1>3, PrefixesCompare

\* Under one leader no two servers commit different entries, though the leader
\* may commit what no majority holds.
THEOREM StateMachineSafetyHolds == SteadySpec => []StateMachineSafety
BY LogsAgree, SteadyInvHolds, PTL

-----------------------------------------------------------------------------
(* The replicated log.                                                     *)

\* The invariant and the bound of what heartbeats ask for.
SureInv == SteadyInv /\ HeartbeatsSure

\* A request without entries is sent to a follower that is sent all there is,
\* so its pre_log_index is the last index of the leader's log, or past it.
LEMMA HeartbeatSure ==
    ASSUME SteadyInv, CommitWithin, NEW id \in Server, next_index_vec[Boss] # NoVec,
           AppendEntriesTo(Boss, id).log_vec = <<>>
    PROVE  AppendEntriesTo(Boss, id).commit_index <= AppendEntriesTo(Boss, id).pre_log_index
<1> DEFINE next == next_index_vec[Boss][id]
           log == log_vec[Boss]
           n == Len(log)
           entries == SubSeq(log, next + 1, n)
<1>1. /\ next \in Nat /\ log \in Seq(Entry) /\ n \in Nat
      /\ commit_index[Boss] \in Nat
  BY BossAssumption, LenProperties DEF SteadyInv, LogInv, TypeOK
<1>2. /\ AppendEntriesTo(Boss, id).log_vec = entries
      /\ AppendEntriesTo(Boss, id).pre_log_index = next - 1
      /\ AppendEntriesTo(Boss, id).commit_index = commit_index[Boss]
  BY DEF AppendEntriesTo
<1>3. commit_index[Boss] < n
  BY DEF CommitWithin
<1>4. \A i \in 1..n : log[i] \in Entry
  BY <1>1, ElementOfSeq
<1> HIDE DEF log, n, entries, next
<1>5. Len(entries) = IF next + 1 <= n THEN n - (next + 1) + 1 ELSE 0
  <2>1. \A i \in next + 1 .. n : log[i] \in Entry
    BY <1>1, <1>4
  <2>2. next + 1 \in Int /\ n \in Int
    BY <1>1
  <2> QED  BY <1>1, <2>1, <2>2, SubSeqProperties DEF entries
<1>6. Len(entries) = 0
  BY <1>2
<1>7. next >= n
  BY <1>1, <1>5, <1>6
<1> QED  BY <1>1, <1>2, <1>3, <1>7

LEMMA HeartbeatsSureStep ==
    ASSUME SureInv, CommitWithin, [SteadyNext]_vars
    PROVE  HeartbeatsSure'
<1> SUFFICES ASSUME NEW r \in DOMAIN tasks' \ DOMAIN tasks,
                    r.handler = "RequestAppendEntries", r.log_vec = <<>>
             PROVE  r.commit_index <= r.pre_log_index
  BY DEF SureInv, HeartbeatsSure
<1>1. CASE UpdateLeader(Boss)
  <2> DEFINE new == IF next_index_vec[Boss] = NoVec THEN {}
                    ELSE {AppendEntriesTo(Boss, id) : id \in Server \ {Boss}}
  <2>1. Submit(new)
    BY <1>1 DEF UpdateLeader
  <2>2. \A q \in new : q.log_vec = <<>> => q.commit_index <= q.pre_log_index
    BY HeartbeatSure DEF SureInv
  <2> HIDE DEF new
  <2>3. r \in new
    BY <2>1, SubmitTasks
  <2> QED  BY <2>2, <2>3
<1>2. ASSUME NEW v \in Value, AddLog(Boss, v)
      PROVE  FALSE
  BY <1>2 DEF AddLog
<1>3. ASSUME NEW m \in DOMAIN tasks, RequestAppendEntries(m)
      PROVE  FALSE
  <2>1. r.handler = "ReplyAppendEntries"
    BY <1>3, FollowerRuns DEF SureInv
  <2> QED  BY <2>1
<1> QED  BY <1>1, <1>2, <1>3, SteadySteps DEF SureInv

\* The leader's tick never lowers its commit index.
LEMMA TickKeepsCommit ==
    ASSUME TypeOK, NEW s \in Server, NEW c \in NewCommitIndex(s)
    PROVE  c >= commit_index[s]
<1>1. commit_index[s] \in Nat
  BY DEF TypeOK
<1>2. CASE state[s] = "Leader" /\ match_index_vec[s] # NoVec
  <2>1. match_index_vec[s] \in [Server -> Nat]
    BY <1>2 DEF TypeOK
  <2>2. PICK i \in MidIndex(match_index_vec[s]) : c \in {commit_index[s], max(i, commit_index[s])}
    BY <1>2 DEF NewCommitIndex
  <2>3. i \in Nat
    BY <2>1, <2>2, MidIndexType
  <2> QED  BY <1>1, <2>2, <2>3 DEF max
<1>3. CASE ~(state[s] = "Leader" /\ match_index_vec[s] # NoVec)
  BY <1>1, <1>3 DEF NewCommitIndex
<1> QED  BY <1>2, <1>3

\* A step changes what at most one server has committed, and never shortens it.
LEMMA OneCommits ==
    ASSUME SureInv, CommitWithin, [SteadyNext]_vars, SteadyInv'
    PROVE  \E s \in Server :
               /\ \A t \in Server \ {s} : /\ log_vec'[t] = log_vec[t]
                                          /\ commit_index'[t] = commit_index[t]
               /\ Len(Committed(s)) <= Len(Committed(s)')
<1>1. /\ TypeOK /\ TypeOK' /\ Boss \in Server /\ SteadyInv
      /\ log_vec \in [Server -> Seq(Entry)] /\ log_vec' \in [Server -> Seq(Entry)]
      /\ commit_index \in [Server -> Nat] /\ commit_index' \in [Server -> Nat]
      /\ \A s \in Server : Len(log_vec[s]) \in Nat /\ Len(log_vec'[s]) \in Nat
  BY BossAssumption, LenProperties DEF SureInv, SteadyInv, LogInv, TypeOK
<1>2. \A s \in Server :
          /\ Len(Committed(s)) = min(commit_index[s] + 1, Len(log_vec[s]))
          /\ Len(Committed(s)') = min(commit_index'[s] + 1, Len(log_vec'[s]))
  BY <1>1, CutIsPrefix DEF Committed
<1>3. CASE UNCHANGED <<log_vec, commit_index>>
  <2>1. Committed(Boss)' = Committed(Boss)
    BY <1>3 DEF Committed
  <2>2. Len(Committed(Boss)) \in Nat
    BY <1>1, <1>2 DEF min
  <2> QED  BY <1>1, <1>3, <2>1, <2>2
<1>4. ASSUME NEW v \in Value, AddLog(Boss, v)
      PROVE  /\ \A t \in Server \ {Boss} : /\ log_vec'[t] = log_vec[t]
                                           /\ commit_index'[t] = commit_index[t]
             /\ Len(Committed(Boss)) <= Len(Committed(Boss)')
  <2> DEFINE e == NewEntry(Len(log_vec[Boss]), term[Boss], v)
  <2>1. /\ log_vec' = [log_vec EXCEPT ![Boss] = Append(log_vec[Boss], e)]
        /\ commit_index' = commit_index
    BY <1>4 DEF AddLog
  <2>2. Len(log_vec'[Boss]) = Len(log_vec[Boss]) + 1
    <3>1. e \in Entry
      <4>1. term[Boss] \in Nat
        BY <1>1 DEF TypeOK
      <4> QED  BY <1>1, <4>1 DEF NewEntry, Entry
    <3> HIDE DEF e
    <3> QED  BY <1>1, <2>1, <3>1, AppendProperties
  <2> QED  BY <1>1, <1>2, <2>1, <2>2 DEF min
<1>5. CASE UpdateLeader(Boss)
  <2>1. PICK c \in NewCommitIndex(Boss) :
            commit_index' = [commit_index EXCEPT ![Boss] = c] /\ UNCHANGED log_vec
    BY <1>5 DEF UpdateLeader, CommitAndApply
  <2>2. c >= commit_index[Boss] /\ c \in Nat
    BY <1>1, TickKeepsCommit, NewCommitIndexType
  <2>3. /\ \A t \in Server \ {Boss} : /\ log_vec'[t] = log_vec[t]
                                      /\ commit_index'[t] = commit_index[t]
        /\ Len(Committed(Boss)) <= Len(Committed(Boss)')
    BY <1>1, <1>2, <2>1, <2>2 DEF min
  <2> QED  BY <1>1, <2>3
<1>6. ASSUME NEW m \in DOMAIN tasks, RequestAppendEntries(m), m.log_vec = <<>>,
             Heartbeat(m, m.to)
      PROVE  /\ \A t \in Server \ {m.to} : /\ log_vec'[t] = log_vec[t]
                                           /\ commit_index'[t] = commit_index[t]
             /\ Len(Committed(m.to)) <= Len(Committed(m.to)')
  <2> DEFINE c == HeartbeatCommit(m, m.to)
  <2>1. m \in AppendEntriesArgs /\ m.to \in Server
    BY <1>1, <1>6, FollowerRuns
  <2>2. commit_index' = [commit_index EXCEPT ![m.to] = c] /\ UNCHANGED log_vec
    BY <1>6 DEF Heartbeat
  <2>3. m.commit_index <= m.pre_log_index
    BY <1>6 DEF SureInv, HeartbeatsSure, RequestAppendEntries
  <2>4. m.commit_index \in Nat /\ m.pre_log_index \in Nat \cup {-1}
    BY <2>1 DEF AppendEntriesArgs
  <2>5. c >= commit_index[m.to] /\ c \in Nat
    BY <1>1, <2>1, <2>3, <2>4 DEF HeartbeatCommit, min
  <2> HIDE DEF c
  <2>6. commit_index'[m.to] >= commit_index[m.to] /\ log_vec'[m.to] = log_vec[m.to]
    BY <1>1, <2>1, <2>2, <2>5
  <2>7. Len(Committed(m.to)) <= Len(Committed(m.to)')
    BY <1>1, <1>2, <2>1, <2>6 DEF min
  <2> QED  BY <1>1, <2>1, <2>2, <2>7
<1>7. ASSUME NEW m \in DOMAIN tasks, RequestAppendEntries(m), AppendEntries(m, m.to)
      PROVE  /\ \A t \in Server \ {m.to} : /\ log_vec'[t] = log_vec[t]
                                           /\ commit_index'[t] = commit_index[t]
             /\ Len(Committed(m.to)) <= Len(Committed(m.to)')
  <2> DEFINE c == IF commit_index[m.to] < m.commit_index
                  THEN min(m.commit_index, max(m.pre_log_index, commit_index[m.to]))
                  ELSE commit_index[m.to]
             new == Overwrite(log_vec[m.to], m)
  <2>1. m \in AppendEntriesArgs /\ m.to \in Server
    BY <1>1, <1>7, FollowerRuns
  <2>2. /\ commit_index' = [commit_index EXCEPT ![m.to] = c]
        /\ log_vec' = [log_vec EXCEPT ![m.to] = new]
    BY <1>7 DEF AppendEntries
  <2>3. m.commit_index \in Nat /\ m.pre_log_index \in Nat \cup {-1}
    BY <2>1 DEF AppendEntriesArgs
  <2>4. c >= commit_index[m.to] /\ c \in Nat
    BY <1>1, <2>1, <2>3 DEF min, max
  <2> HIDE DEF c, new
  <2>5. commit_index[m.to] < Len(log_vec'[m.to])
    BY <1>7, <2>1, OverwriteBeyondCommit DEF SureInv, SteadyInv
  <2> QED  BY <1>1, <1>2, <2>1, <2>2, <2>4, <2>5 DEF min
<1>8. ASSUME NEW m \in DOMAIN tasks, RequestAppendEntries(m)
      PROVE  \/ UNCHANGED <<log_vec, commit_index>>
             \/ m.log_vec = <<>> /\ Heartbeat(m, m.to) /\ m.to \in Server
             \/ AppendEntries(m, m.to) /\ m.to \in Server
  BY <1>1, <1>8, FollowerRuns
<1> QED  BY <1>1, <1>3, <1>4, <1>5, <1>6, <1>7, <1>8, SteadySteps

\* The step of the replicated log.
LEMMA LearnStep ==
    ASSUME SureInv, CommitWithin, [SteadyNext]_vars, SteadyInv'
    PROVE  [Abstract!Next]_([s \in Server |-> Committed(s)])
<1> DEFINE learned == [s \in Server |-> Committed(s)]
<1>1. /\ TypeOK /\ TypeOK' /\ Boss \in Server /\ SteadyInv
      /\ log_vec \in [Server -> Seq(Entry)] /\ log_vec' \in [Server -> Seq(Entry)]
      /\ commit_index \in [Server -> Nat] /\ commit_index' \in [Server -> Nat]
  BY BossAssumption DEF SureInv, SteadyInv, LogInv, TypeOK
<1>2. PICK s \in Server :
          /\ \A t \in Server \ {s} : log_vec'[t] = log_vec[t] /\ commit_index'[t] = commit_index[t]
          /\ Len(Committed(s)) <= Len(Committed(s)')
  BY OneCommits
<1>3. \A t \in Server \ {s} : Committed(t)' = Committed(t)
  BY <1>2 DEF Committed
<1>4. ASSUME NEW t \in Server
      PROVE  /\ Committed(t) \in Seq(Entry) /\ Committed(t)' \in Seq(Entry)
             /\ Prefix(Committed(t), log_vec[Boss]) /\ Prefix(Committed(t)', log_vec'[Boss])
  <2>1. /\ Committed(t) \in Seq(Entry) /\ Committed(t)' \in Seq(Entry)
        /\ Prefix(Committed(t), log_vec[t]) /\ Prefix(Committed(t)', log_vec'[t])
    BY <1>1, CutIsPrefix DEF Committed
  <2>2. Prefix(log_vec[t], log_vec[Boss]) /\ Prefix(log_vec'[t], log_vec'[Boss])
    BY DEF SureInv, SteadyInv, FollowsBoss
  <2> QED  BY <1>1, <2>1, <2>2, PrefixTrans
<1>5. Prefix(log_vec[Boss], log_vec'[Boss])
  BY SteadyLogs DEF SureInv, SteadyInv
<1>6. Prefix(Committed(s), Committed(s)')
  <2>1. Prefix(Committed(s), log_vec'[Boss])
    BY <1>1, <1>4, <1>5, PrefixTrans
  <2> QED  BY <1>1, <1>2, <1>4, <2>1, PrefixesCompare
<1>7. Abstract!Agreement'
  <2>1. ASSUME NEW u \in Server, NEW t \in Server
        PROVE  Prefix(Committed(u)', Committed(t)') \/ Prefix(Committed(t)', Committed(u)')
    <3>1. Len(Committed(u)') \in Nat /\ Len(Committed(t)') \in Nat
      BY <1>4, LenProperties
    <3>2. Len(Committed(u)') <= Len(Committed(t)') \/ Len(Committed(t)') <= Len(Committed(u)')
      BY <3>1
    <3> QED  BY <1>1, <1>4, <3>2, PrefixesCompare
  <2> QED  BY <2>1 DEF Abstract!Agreement, Abstract!Extends, Prefix
<1>8. CASE Committed(s)' = Committed(s)
  <2>1. learned' = learned
    BY <1>3, <1>8
  <2> QED  BY <2>1
<1>9. CASE Committed(s)' # Committed(s)
  <2>1. Abstract!Learn(s)
    BY <1>3, <1>6, <1>9 DEF Abstract!Learn, Abstract!Extends, Prefix
  <2> QED  BY <1>7, <2>1 DEF Abstract!Next
<1> QED  BY <1>8, <1>9

\* As long as the leader's commit index lies in its log, the servers implement
\* the replicated log: what a server has committed it keeps, and it stays in
\* agreement with the others, whoever stops and restarts.  Without that a late
\* heartbeat moves a follower's commit index back (raft.cc:316).
THEOREM SteadyImplements ==
    SteadySpec /\ []CommitWithin => ImplementsReplicatedLog
<1>1. SteadyInit => HeartbeatsSure
  BY NoTasks DEF SteadyInit, HeartbeatsSure
<1>2. SureInv /\ CommitWithin /\ [SteadyNext]_vars => SureInv'
  BY SteadyInvStep, HeartbeatsSureStep DEF SureInv
<1>3. SureInv => Abstract!Init
  BY LogsAgree DEF SureInv, StateMachineSafety, Prefix,
                   Abstract!Init, Abstract!Agreement, Abstract!Extends
<1>4. SureInv /\ CommitWithin /\ [SteadyNext]_vars
          => [Abstract!Next]_([s \in Server |-> Committed(s)])
  BY SteadyInvStep, LearnStep DEF SureInv
<1>5. SteadyInit => SureInv
  BY <1>1, SteadyInvInit DEF SureInv
<1> QED
  BY <1>2, <1>3, <1>4, <1>5, PTL DEF SteadySpec, ImplementsReplicatedLog, Abstract!Spec

-----------------------------------------------------------------------------
(* With prompt tasks.                                                      *)

LEMMA PromptNextIsSteady == PromptNext => SteadyNext
BY DEF PromptNext, SteadyNext, Next

\* Submitting to an idle pool leaves each submitted task there once.
LEMMA SubmitOnce ==
    ASSUME NEW new, tasks = EmptyBag, Submit(new)
    PROVE  DOMAIN tasks' = new /\ \A m \in new : tasks'[m] = 1
BY DEF Submit, (+), SetToBag, EmptyBag

\* Running a task that is pending once takes it away, and leaves the new ones.
LEMMA RunOnce ==
    ASSUME NEW m \in DOMAIN tasks, \A r \in DOMAIN tasks : tasks[r] = 1,
           NEW new, new \cap DOMAIN tasks = {}, Run(m, new)
    PROVE  /\ DOMAIN tasks' = (DOMAIN tasks \ {m}) \cup new
           /\ \A r \in DOMAIN tasks' : tasks'[r] = 1
<1> DEFINE left == tasks (-) SetToBag({m})
<1>1. /\ DOMAIN left = DOMAIN tasks \ {m}
      /\ \A r \in DOMAIN left : left[r] = 1
  BY DEF (-), SetToBag
<1>2. tasks' = left (+) SetToBag(new)
  BY DEF Run
<1> HIDE DEF left
<1>3. /\ DOMAIN tasks' = DOMAIN left \cup new
      /\ \A r \in DOMAIN tasks' :
             tasks'[r] = (IF r \in DOMAIN left THEN left[r] ELSE 0)
                         + (IF r \in new THEN 1 ELSE 0)
  BY <1>2 DEF (+), SetToBag
<1>4. \A r \in DOMAIN left : r \notin new
  BY <1>1
<1> QED  BY <1>1, <1>3, <1>4

\* A majority holds what reaches the middle of the sorted vector: the two slots
\* that never move are among the lower half (raft.cc:177).
LEMMA MidIndexReached ==
    ASSUME NEW vec \in [Server -> Nat], NEW v \in MidIndex(vec), v # 0
    PROVE  {s \in Server : v <= vec[s]} \in Majority
<1> DEFINE below == {id \in Key : Slot(vec, id) < v}
           reached == {s \in Server : v <= vec[s]}
           mid == Cardinality(Key) \div 2
<1>1. v \in Nat /\ v > 0
  BY MidIndexType
<1>2. 0 \in Key /\ 0 \notin Server /\ Key = Server \cup {0} /\ IsFiniteSet(Server)
  BY ServerAssumption DEF Key
<1>3. /\ IsFiniteSet(Key) /\ Cardinality(Server) \in Nat
      /\ Cardinality(Key) = Cardinality(Server) + 1
  BY <1>2, FS_AddElement, FS_CardinalityType
<1>4. reached = Key \ below /\ below \subseteq Key
  BY <1>1, <1>2 DEF Slot
<1>5. Cardinality(below) <= mid
  BY DEF MidIndex
<1> HIDE DEF below, reached, mid
<1>6. /\ IsFiniteSet(below) /\ IsFiniteSet(reached)
      /\ below \cup reached = Key /\ below \cap reached = {}
  BY <1>3, <1>4, FS_Subset
<1>7. Cardinality(Key) = Cardinality(below) + Cardinality(reached)
  <2>1. Cardinality({}) = 0
    BY FS_EmptySet
  <2>2. Cardinality(below \cup reached)
            = Cardinality(below) + Cardinality(reached) - Cardinality(below \cap reached)
    BY <1>6, FS_Union
  <2>3. Cardinality(below) \in Nat /\ Cardinality(reached) \in Nat
    BY <1>6, FS_CardinalityType
  <2>4. /\ Cardinality(below \cup reached) = Cardinality(Key)
        /\ Cardinality(below \cap reached) = 0
    BY <1>6, <2>1, Zenon
  <2> QED  BY <2>2, <2>3, <2>4
<1>8. Cardinality(reached) * 2 > Cardinality(Server)
  <2>1. Cardinality(below) \in Nat /\ Cardinality(reached) \in Nat
    BY <1>6, FS_CardinalityType
  <2>2. mid * 2 <= Cardinality(Key)
    BY <1>3 DEF mid
  <2> QED  BY <1>3, <1>5, <1>7, <2>1, <2>2 DEF mid
<1>9. reached \in SUBSET Server
  BY DEF reached
<1> QED  BY <1>8, <1>9 DEF Majority, reached

\* A set of servers that includes a majority is one.
LEMMA MajorityGrows ==
    ASSUME NEW S \in Majority, NEW T \in SUBSET Server, S \subseteq T
    PROVE  T \in Majority
<1>1. IsFiniteSet(Server) /\ IsFiniteSet(T) /\ IsFiniteSet(S)
  BY ServerAssumption, FS_Subset
<1>2. Cardinality(S) <= Cardinality(T)
  BY <1>1, FS_Subset
<1>3. Cardinality(S) \in Nat /\ Cardinality(T) \in Nat /\ Cardinality(Server) \in Nat
  BY <1>1, FS_CardinalityType
<1>4. Cardinality(S) * 2 > Cardinality(Server)
  BY DEF Majority
<1> QED  BY <1>2, <1>3, <1>4 DEF Majority

LEMMA AllAreMajority == Server \in Majority
<1>1. Cardinality(Server) \in Nat /\ Cardinality(Server) # 0
  BY ServerAssumption, FS_CardinalityType, FS_EmptySet
<1> QED  BY <1>1 DEF Majority

\* Logs that are no shorter keep reaching the leader's commit index.
LEMMA LongerLogsReach ==
    ASSUME TypeOK, TypeOK', CommitReaches, commit_index'[Boss] = commit_index[Boss],
           \A s \in Server : Len(log_vec[s]) <= Len(log_vec'[s])
    PROVE  CommitReaches'
<1> DEFINE S == {s \in Server : commit_index[Boss] < Len(log_vec[s])}
           T == {s \in Server : commit_index'[Boss] < Len(log_vec'[s])}
<1>1. /\ commit_index[Boss] \in Nat
      /\ \A s \in Server : Len(log_vec[s]) \in Nat /\ Len(log_vec'[s]) \in Nat
  BY BossAssumption, LenProperties DEF TypeOK
<1>2. S \subseteq T /\ T \in SUBSET Server
  BY <1>1
<1>3. T \in Majority
  BY <1>2, MajorityGrows DEF CommitReaches
<1> QED  BY <1>3 DEF CommitReaches

\* The leader's tick commits no more than a majority holds.
LEMMA TickReaches ==
    ASSUME SteadyInv, IndexesHonest, AllCommitWithin, CommitReaches,
           next_index_vec[Boss] = NoVec <=> match_index_vec[Boss] = NoVec,
           NEW c \in NewCommitIndex(Boss)
    PROVE  /\ c < Len(log_vec[Boss])
           /\ {s \in Server : c < Len(log_vec[s])} \in Majority
<1> DEFINE vec == match_index_vec[Boss]
<1>1. /\ Boss \in Server /\ TypeOK /\ commit_index[Boss] \in Nat
      /\ \A s \in Server : Len(log_vec[s]) \in Nat
  BY BossAssumption, LenProperties DEF SteadyInv, LogInv, TypeOK
<1>2. CASE c = commit_index[Boss]
  BY <1>1, <1>2 DEF AllCommitWithin, CommitReaches
<1>3. CASE c # commit_index[Boss]
  <2>1. vec # NoVec /\ vec \in [Server -> Nat]
    BY <1>1, <1>3 DEF NewCommitIndex, TypeOK
  <2>2. PICK v \in MidIndex(vec) : c = max(v, commit_index[Boss])
    BY <1>3, <2>1 DEF NewCommitIndex
  <2>3. v \in Nat
    BY <2>1, <2>2, MidIndexType
  <2>4. c = v /\ v # 0
    BY <1>1, <1>3, <2>2, <2>3 DEF max
  <2>5. \A s \in Server : vec[s] < Len(log_vec[s])
    BY <2>1 DEF IndexesHonest
  <2> HIDE DEF vec
  <2> DEFINE S == {s \in Server : v <= vec[s]}
             T == {s \in Server : v < Len(log_vec[s])}
  <2>6. S \in Majority
    BY <2>1, <2>2, <2>4, MidIndexReached
  <2>7. S \subseteq T /\ T \in SUBSET Server
    BY <1>1, <2>1, <2>3, <2>5
  <2>8. T \in Majority
    BY <2>6, <2>7, MajorityGrows
  <2>9. v < Len(log_vec[Boss])
    <3>1. S # {}
      <4>1. {} \notin Majority
        BY ServerAssumption, FS_EmptySet, FS_CardinalityType DEF Majority
      <4> QED  BY <2>6, <4>1
    <3>2. PICK s \in T : TRUE
      BY <2>7, <3>1
    <3>3. Len(log_vec[s]) <= Len(log_vec[Boss])
      BY DEF SteadyInv, FollowsBoss, Prefix
    <3> QED  BY <1>1, <2>3, <3>3
  <2> QED  BY <2>4, <2>8, <2>9
<1> QED  BY <1>2, <1>3

\* What the pending tasks of a steady leader are.
LEMMA PromptTasks ==
    ASSUME SteadyInv, NEW m \in DOMAIN tasks
    PROVE  \/ /\ m.handler = "RequestAppendEntries"
              /\ m \in AppendEntriesArgs /\ m.to \in Server \ {Boss}
              /\ Follower(m) = m.to
           \/ /\ m.handler = "ReplyAppendEntries"
              /\ m \in AppendEntriesReply /\ m.to = Boss
              /\ Follower(m) = m.id /\ m.id \in Server
<1>1. m \in Task /\ SteadyTask(m)
  BY DEF SteadyInv, LogInv, TypeOK, SteadyTasks
<1>2. m.handler = "RequestAppendEntries" => m \in AppendEntriesArgs /\ m.to \in Server
  BY <1>1, TaskKind
<1>3. m.handler = "ReplyAppendEntries" => m \in AppendEntriesReply
  BY <1>1, TaskKind
<1>4. m \in AppendEntriesReply => m.id \in Server
  BY DEF AppendEntriesReply
<1> QED  BY <1>1, <1>2, <1>3, <1>4 DEF SteadyTask, Follower

\* Logs that are no shorter leave honest what was: the servers' fields and the
\* tasks that are still pending.
LEMMA LongerLogsHonest ==
    ASSUME SteadyInv, TypeOK', IndexesHonest,
           next_index_vec'[Boss] = next_index_vec[Boss],
           match_index_vec'[Boss] = match_index_vec[Boss],
           next_index_vec[Boss] # NoVec, match_index_vec[Boss] # NoVec,
           \A s \in Server : Len(log_vec[s]) <= Len(log_vec'[s])
    PROVE  /\ \A s \in Server : /\ next_index_vec'[Boss][s] <= Len(log_vec'[s])
                                /\ match_index_vec'[Boss][s] < Len(log_vec'[s])
           /\ \A m \in DOMAIN tasks : InFlightHonest(m)'
<1>1. /\ Boss \in Server
      /\ next_index_vec[Boss] \in [Server -> Nat] /\ match_index_vec[Boss] \in [Server -> Nat]
      /\ \A s \in Server : Len(log_vec[s]) \in Nat /\ Len(log_vec'[s]) \in Nat
  BY BossAssumption, LenProperties DEF SteadyInv, LogInv, TypeOK
<1>2. /\ \A s \in Server : /\ next_index_vec[Boss][s] <= Len(log_vec[s])
                           /\ match_index_vec[Boss][s] < Len(log_vec[s])
      /\ \A m \in DOMAIN tasks : InFlightHonest(m)
  BY DEF IndexesHonest
<1>3. \A s \in Server : /\ next_index_vec'[Boss][s] <= Len(log_vec'[s])
                       /\ match_index_vec'[Boss][s] < Len(log_vec'[s])
  <2> SUFFICES ASSUME NEW s \in Server
               PROVE  /\ next_index_vec'[Boss][s] <= Len(log_vec'[s])
                      /\ match_index_vec'[Boss][s] < Len(log_vec'[s])
    OBVIOUS
  <2>1. next_index_vec[Boss][s] \in Nat /\ match_index_vec[Boss][s] \in Nat
    BY <1>1
  <2> QED  BY <1>1, <1>2, <2>1
<1>4. ASSUME NEW m \in DOMAIN tasks
      PROVE  InFlightHonest(m)'
  <2>1. CASE m.handler = "RequestAppendEntries"
    BY <1>2, <2>1 DEF InFlightHonest
  <2>2. CASE m.handler # "RequestAppendEntries"
    <3>1. m \in AppendEntriesReply /\ m.id \in Server
      BY <2>2, PromptTasks
    <3>2. m.log_count \in Nat /\ m.commit_index \in Nat
      BY <3>1 DEF AppendEntriesReply
    <3>3. next_index_vec[Boss][m.id] \in Nat
      BY <1>1, <3>1
    <3>4. /\ Len(log_vec[m.id]) \in Nat /\ Len(log_vec'[m.id]) \in Nat
          /\ Len(log_vec[m.id]) <= Len(log_vec'[m.id])
      BY <1>1, <3>1
    <3>5. CASE m.success
      <4>1. next_index_vec[Boss][m.id] + m.log_count <= Len(log_vec[m.id])
        BY <1>2, <2>2, <3>5 DEF InFlightHonest
      <4>2. next_index_vec[Boss][m.id] + m.log_count <= Len(log_vec'[m.id])
        BY <3>2, <3>3, <3>4, <4>1
      <4> QED  BY <2>2, <3>5, <4>2 DEF InFlightHonest
    <3>6. CASE ~m.success
      <4>1. m.commit_index < Len(log_vec[m.id])
        BY <1>2, <2>2, <3>6 DEF InFlightHonest
      <4> QED  BY <2>2, <3>2, <3>4, <3>6, <4>1 DEF InFlightHonest
    <3> QED  BY <3>5, <3>6
  <2> QED  BY <2>1, <2>2
<1> QED  BY <1>3, <1>4

\* A step that leaves logs and commit indexes alone and submits nothing.
LEMMA QuietPrompt ==
    ASSUME PromptInv, SteadyInv', UNCHANGED <<log_vec, commit_index>>,
           DOMAIN tasks' \subseteq DOMAIN tasks, \A m \in DOMAIN tasks' : tasks'[m] = 1,
           \/ next_index_vec'[Boss] = NoVec
           \/ /\ next_index_vec'[Boss] = next_index_vec[Boss]
              /\ match_index_vec'[Boss] = match_index_vec[Boss]
    PROVE  PromptInv'
<1>1. OneInFlight'
  BY DEF PromptInv, OneInFlight
<1>2. NothingCut'
  BY DEF PromptInv, NothingCut
<1>3. AllCommitWithin' /\ CommitReaches'
  BY DEF PromptInv, AllCommitWithin, CommitReaches
<1>4. IndexesHonest'
  <2>1. CASE next_index_vec'[Boss] = NoVec
    BY <2>1 DEF IndexesHonest
  <2>2. CASE /\ next_index_vec'[Boss] = next_index_vec[Boss]
             /\ match_index_vec'[Boss] = match_index_vec[Boss]
    <3>1. \A m \in DOMAIN tasks : InFlightHonest(m) => InFlightHonest(m)'
      BY <2>2 DEF InFlightHonest
    <3> QED  BY <2>2, <3>1 DEF PromptInv, IndexesHonest
  <2> QED  BY <2>1, <2>2
<1> QED  BY <1>1, <1>2, <1>3, <1>4 DEF PromptInv

\* A client's call.
LEMMA AddLogPrompt ==
    ASSUME PromptInv, SteadyInv', NEW v \in Value, AddLog(Boss, v)
    PROVE  PromptInv'
<1> DEFINE e == NewEntry(Len(log_vec[Boss]), term[Boss], v)
<1>1. /\ Boss \in Server /\ TypeOK /\ TypeOK' /\ SteadyInv
      /\ log_vec \in [Server -> Seq(Entry)]
      /\ \A s \in Server : Len(log_vec[s]) \in Nat /\ Len(log_vec'[s]) \in Nat
      /\ next_index_vec[Boss] = NoVec <=> match_index_vec[Boss] = NoVec
  BY BossAssumption, LenProperties DEF PromptInv, SteadyInv, LogInv, TypeOK
<1>2. /\ log_vec' = [log_vec EXCEPT ![Boss] = Append(log_vec[Boss], e)]
      /\ UNCHANGED <<commit_index, next_index_vec, match_index_vec, tasks>>
  BY DEF AddLog, leaderVars
<1>3. Len(Append(log_vec[Boss], e)) = Len(log_vec[Boss]) + 1
  <2>1. e \in Entry
    BY <1>1 DEF NewEntry, Entry, TypeOK
  <2> HIDE DEF e
  <2> QED  BY <1>1, <2>1, AppendProperties
<1> HIDE DEF e
<1>4. /\ \A s \in Server : Len(log_vec[s]) <= Len(log_vec'[s])
      /\ \A s \in Server \ {Boss} : log_vec'[s] = log_vec[s]
  BY <1>1, <1>2, <1>3
<1>5. OneInFlight'
  BY <1>2 DEF PromptInv, OneInFlight
<1>6. NothingCut'
  BY <1>1, <1>2, <1>4, PromptTasks DEF PromptInv, NothingCut
<1>7. AllCommitWithin'
  <2> SUFFICES ASSUME NEW s \in Server
               PROVE  commit_index[s] < Len(log_vec'[s])
    BY <1>2 DEF AllCommitWithin
  <2>1. commit_index[s] \in Nat /\ commit_index[s] < Len(log_vec[s])
    BY <1>1 DEF TypeOK, PromptInv, AllCommitWithin
  <2> QED  BY <1>1, <1>4, <2>1
<1>8. IndexesHonest'
  BY <1>1, <1>2, <1>4, LongerLogsHonest DEF PromptInv, IndexesHonest
<1>9. CommitReaches'
  BY <1>1, <1>2, <1>4, LongerLogsReach DEF PromptInv
<1> QED  BY <1>5, <1>6, <1>7, <1>8, <1>9 DEF PromptInv

\* The leader's tick, when no task is pending: one request for each follower.
LEMMA TickPrompt ==
    ASSUME PromptInv, SteadyInv', tasks = EmptyBag, UpdateLeader(Boss)
    PROVE  PromptInv'
<1> DEFINE new == IF next_index_vec[Boss] = NoVec THEN {}
                  ELSE {AppendEntriesTo(Boss, id) : id \in Server \ {Boss}}
           next == next_index_vec[Boss]
           n == Len(log_vec[Boss])
<1>1. /\ Boss \in Server /\ TypeOK /\ TypeOK' /\ SteadyInv
      /\ log_vec \in [Server -> Seq(Entry)] /\ commit_index \in [Server -> Nat]
      /\ \A s \in Server : Len(log_vec[s]) \in Nat
      /\ next_index_vec[Boss] = NoVec <=> match_index_vec[Boss] = NoVec
  BY BossAssumption, LenProperties DEF PromptInv, SteadyInv, LogInv, TypeOK
<1>2. /\ Submit(new) /\ UNCHANGED <<next_index_vec, match_index_vec, log_vec>>
      /\ \E c \in NewCommitIndex(Boss) : commit_index' = [commit_index EXCEPT ![Boss] = c]
  BY DEF UpdateLeader, CommitAndApply, leaderVars
<1>3. \A m \in new :
          /\ next # NoVec
          /\ m.handler = "RequestAppendEntries" /\ m.to \in Server \ {Boss}
          /\ m = AppendEntriesTo(Boss, m.to)
          /\ m.pre_log_index = next[m.to] - 1
          /\ m.log_vec = SubSeq(log_vec[Boss], next[m.to] + 1, n)
  BY DEF AppendEntriesTo
<1> HIDE DEF new, next, n
<1>4. DOMAIN tasks' = new /\ \A m \in new : tasks'[m] = 1
  BY <1>2, SubmitOnce
<1>5. OneInFlight'
  BY <1>3, <1>4 DEF OneInFlight, Follower
<1>6. NothingCut'
  <2> SUFFICES ASSUME NEW m \in new
               PROVE  m.pre_log_index + 1 + Len(m.log_vec) >= Len(log_vec[m.to])
    BY <1>2, <1>4 DEF NothingCut
  <2> DEFINE k == next[m.to]
             log == log_vec[Boss]
  <2>1. k \in Nat /\ log \in Seq(Entry) /\ n \in Nat /\ n = Len(log)
    <3>1. next \in [Server -> Nat]
      BY <1>1, <1>3 DEF TypeOK, next
    <3> QED  BY <1>1, <1>3, <3>1 DEF n
  <2>2. Len(log_vec[m.to]) <= n
    BY <1>1, <1>3 DEF SteadyInv, FollowsBoss, Prefix, n
  <2> HIDE DEF k, log
  <2>3. Len(SubSeq(log, k + 1, n)) = IF k + 1 <= n THEN n - (k + 1) + 1 ELSE 0
    <3>1. \A i \in k + 1 .. n : log[i] \in Entry
      BY <2>1, ElementOfSeq
    <3>2. k + 1 \in Int /\ n \in Int
      BY <2>1
    <3> QED  BY <2>1, <3>1, <3>2, SubSeqProperties
  <2>4. m.pre_log_index + 1 = k /\ m.log_vec = SubSeq(log, k + 1, n)
    BY <1>3, <2>1 DEF k, log
  <2>5. Len(log_vec[m.to]) \in Nat
    BY <1>1, <1>3
  <2> QED  BY <2>1, <2>2, <2>3, <2>4, <2>5
<1>7. PICK c \in NewCommitIndex(Boss) : commit_index' = [commit_index EXCEPT ![Boss] = c]
  BY <1>2
<1>8. c < Len(log_vec[Boss]) /\ {s \in Server : c < Len(log_vec[s])} \in Majority
  BY <1>1, TickReaches DEF PromptInv
<1>9. AllCommitWithin' /\ CommitReaches'
  BY <1>1, <1>2, <1>7, <1>8 DEF PromptInv, AllCommitWithin, CommitReaches
<1>10. IndexesHonest'
  <2>1. ASSUME NEW m \in new
        PROVE  InFlightHonest(m)'
    BY <1>2, <1>3, <2>1 DEF InFlightHonest, next
  <2> QED  BY <1>2, <1>4, <2>1 DEF PromptInv, IndexesHonest
<1> QED  BY <1>5, <1>6, <1>9, <1>10 DEF PromptInv

\* A follower's running a request: its log is not cut, it commits within it,
\* and its answer says what its log holds.
LEMMA FollowerAnswers ==
    ASSUME PromptInv, SteadyInv', NEW m \in DOMAIN tasks, RequestAppendEntries(m)
    PROVE  /\ \A t \in Server \ {m.to} : /\ log_vec'[t] = log_vec[t]
                                         /\ commit_index'[t] = commit_index[t]
           /\ Len(log_vec[m.to]) <= Len(log_vec'[m.to])
           /\ commit_index'[m.to] < Len(log_vec'[m.to])
           /\ \E new :
                 /\ Run(m, new)
                 /\ \A r \in new :
                       /\ r.handler = "ReplyAppendEntries" /\ r.id = m.to
                       /\ IF r.success
                          THEN m.pre_log_index + 1 + r.log_count <= Len(log_vec'[m.to])
                          ELSE r.commit_index < Len(log_vec'[m.to])
                 /\ \A r, q \in new : r = q
<1> DEFINE s == m.to
           p == m.pre_log_index
           k == Len(m.log_vec)
           reply(success) ==
               [handler |-> "ReplyAppendEntries", to |-> m.leader_id, id |-> s,
                term |-> term'[s], log_count |-> k, success |-> success,
                commit_index |-> commit_index'[s]]
           Answered ==
               \E new :
                  /\ Run(m, new)
                  /\ \A r \in new :
                        /\ r.handler = "ReplyAppendEntries" /\ r.id = m.to
                        /\ IF r.success
                           THEN m.pre_log_index + 1 + r.log_count <= Len(log_vec'[m.to])
                           ELSE r.commit_index < Len(log_vec'[m.to])
                  /\ \A r, q \in new : r = q
<1>1. /\ m \in AppendEntriesArgs /\ s \in Server /\ s # Boss
      /\ TypeOK /\ TypeOK' /\ SteadyInv
  BY FollowerRuns DEF PromptInv, SteadyInv, LogInv
<1>2. /\ p \in Nat \cup {-1} /\ m.commit_index \in Nat
      /\ m.log_vec \in Seq(Entry) /\ k \in Nat
      /\ log_vec \in [Server -> Seq(Entry)] /\ Len(log_vec[s]) \in Nat
      /\ Len(log_vec'[s]) \in Nat
      /\ commit_index \in [Server -> Nat] /\ commit_index[s] < Len(log_vec[s])
      /\ commit_index[s] \in Nat
  BY <1>1, LenProperties DEF AppendEntriesArgs, TypeOK, PromptInv, AllCommitWithin
<1>3. p + 1 + k >= Len(log_vec[s])
  BY DEF PromptInv, NothingCut, RequestAppendEntries
<1>4. m.term = 1 /\ term[s] = 1
  BY <1>1 DEF SteadyInv, SteadyRoles, SteadyTasks, SteadyTask, RequestAppendEntries
<1>5. ~StaleLeader(m, s)
  BY <1>4 DEF StaleLeader
<1>6. ASSUME NEW success \in BOOLEAN, Run(m, {reply(success)}),
             IF success THEN p + 1 + k <= Len(log_vec'[s])
             ELSE commit_index'[s] < Len(log_vec'[s])
      PROVE  Answered
  <2> DEFINE it == reply(success)
  <2>1. /\ it.handler = "ReplyAppendEntries" /\ it.id = m.to /\ it.success = success
        /\ it.log_count = k /\ it.commit_index = commit_index'[s]
    OBVIOUS
  <2>2. Run(m, {it})
    BY <1>6
  <2> HIDE DEF it
  <2> QED  BY <1>6, <2>1, <2>2
<1> HIDE DEF reply, Answered
<1>7. CASE Heartbeat(m, s)
  <2>1. /\ commit_index' = [commit_index EXCEPT ![s] = HeartbeatCommit(m, s)]
        /\ Run(m, {}) /\ UNCHANGED log_vec
    BY <1>7 DEF Heartbeat
  <2>2. HeartbeatCommit(m, s) < Len(log_vec[s])
    BY <1>2 DEF HeartbeatCommit, HoldsPre, min
  <2>3. commit_index'[s] < Len(log_vec'[s])
    BY <1>1, <1>2, <2>1, <2>2
  <2>4. Answered
    BY <2>1 DEF Answered
  <2> QED  BY <1>2, <2>1, <2>3, <2>4 DEF Answered
<1>8. CASE KeepEntries(m, s)
  <2>1. commit_index[s] >= p + k /\ UNCHANGED <<log_vec, commit_index>>
    BY <1>8 DEF KeepEntries, AlreadyCommitted, logVars
  <2>2. Run(m, {reply(TRUE)})
    BY <1>8 DEF KeepEntries, Replied, reply
  <2>3. p + 1 + k <= Len(log_vec'[s])
    BY <1>2, <2>1
  <2>4. Answered
    BY <1>6, <2>2, <2>3
  <2>5. Len(log_vec[s]) <= Len(log_vec'[s]) /\ commit_index'[s] < Len(log_vec'[s])
    BY <1>2, <2>1
  <2> QED  BY <2>1, <2>4, <2>5 DEF Answered
<1>9. CASE RefuseEntries(m, s)
  <2>1. UNCHANGED <<log_vec, commit_index>>
    BY <1>9 DEF RefuseEntries, logVars
  <2>2. Run(m, {reply(FALSE)})
    BY <1>9 DEF RefuseEntries, Replied, reply
  <2>3. commit_index'[s] < Len(log_vec'[s])
    BY <1>2, <2>1
  <2>4. Answered
    BY <1>6, <2>2, <2>3
  <2> QED  BY <1>2, <2>1, <2>4 DEF Answered
<1>10. CASE AppendEntries(m, s)
  <2> DEFINE new == Overwrite(log_vec[s], m)
             c == IF commit_index[s] < m.commit_index
                  THEN min(m.commit_index, max(p, commit_index[s]))
                  ELSE commit_index[s]
  <2>1. /\ log_vec' = [log_vec EXCEPT ![s] = new]
        /\ commit_index' = [commit_index EXCEPT ![s] = c]
        /\ m.log_vec # <<>> /\ (p >= 0 => HoldsPre(m, log_vec[s]))
    BY <1>10 DEF AppendEntries
  <2>2. Run(m, {reply(TRUE)})
    BY <1>10 DEF AppendEntries, Replied, reply
  <2>3. Len(new) = p + 1 + k
    <3> DEFINE kept == SubSeq(log_vec[s], 1, p + 1)
    <3>1. kept \in Seq(Entry) /\ Len(kept) = p + 1
      BY <1>1, <1>2, <2>1, OverwriteType
    <3> HIDE DEF kept
    <3>2. Len(kept \o m.log_vec) = Len(kept) + Len(m.log_vec)
      BY <1>2, <3>1, Concat
    <3> QED  BY <3>1, <3>2 DEF kept, Overwrite
  <2> HIDE DEF new
  <2>4. k # 0
    BY <1>2, <2>1, EmptySeq
  <2>5. c < p + 1 + k
    <3>1. max(p, commit_index[s]) < p + 1 + k
      BY <1>2, <1>3, <2>4 DEF max
    <3>2. max(p, commit_index[s]) \in Int
      BY <1>2 DEF max
    <3> HIDE DEF p, k
    <3>3. min(m.commit_index, max(p, commit_index[s])) <= max(p, commit_index[s])
      BY <1>2, <3>2 DEF min
    <3>4. p + 1 + k \in Int /\ min(m.commit_index, max(p, commit_index[s])) \in Int
      BY <1>2, <3>2 DEF min
    <3>5. commit_index[s] < p + 1 + k
      BY <1>2, <1>3, <3>4
    <3> QED  BY <3>1, <3>2, <3>3, <3>4, <3>5
  <2> HIDE DEF c
  <2>6. log_vec'[s] = new /\ commit_index'[s] = c
    BY <1>1, <1>2, <2>1
  <2>7. /\ Len(log_vec[s]) <= Len(log_vec'[s])
        /\ commit_index'[s] < Len(log_vec'[s])
        /\ p + 1 + k <= Len(log_vec'[s])
    BY <1>2, <1>3, <2>3, <2>5, <2>6
  <2>8. Answered
    BY <1>6, <2>2, <2>7
  <2> QED  BY <2>1, <2>7, <2>8 DEF Answered
<1> QED  BY <1>5, <1>7, <1>8, <1>9, <1>10 DEF RequestAppendEntries

\* Running a request.
LEMMA RequestPrompt ==
    ASSUME PromptInv, SteadyInv', NEW m \in DOMAIN tasks, RequestAppendEntries(m)
    PROVE  PromptInv'
<1> DEFINE s == m.to
<1>1. /\ m \in AppendEntriesArgs /\ s \in Server /\ s # Boss /\ Follower(m) = s
      /\ m.handler = "RequestAppendEntries"
  BY PromptTasks DEF PromptInv, RequestAppendEntries
<1>2. /\ Boss \in Server /\ TypeOK /\ TypeOK' /\ SteadyInv
      /\ log_vec \in [Server -> Seq(Entry)]
      /\ \A t \in Server : Len(log_vec[t]) \in Nat /\ Len(log_vec'[t]) \in Nat
      /\ next_index_vec[Boss] = NoVec <=> match_index_vec[Boss] = NoVec
  BY BossAssumption, LenProperties DEF PromptInv, SteadyInv, LogInv, TypeOK
<1>3. UNCHANGED <<next_index_vec, match_index_vec>>
  BY DEF RequestAppendEntries, leaderVars
<1>4. /\ \A t \in Server \ {s} : log_vec'[t] = log_vec[t] /\ commit_index'[t] = commit_index[t]
      /\ Len(log_vec[s]) <= Len(log_vec'[s])
      /\ commit_index'[s] < Len(log_vec'[s])
  BY FollowerAnswers
<1>5. \A t \in Server : Len(log_vec[t]) <= Len(log_vec'[t])
  BY <1>2, <1>4
<1>6. PICK new :
          /\ Run(m, new)
          /\ \A r \in new :
                /\ r.handler = "ReplyAppendEntries" /\ r.id = s
                /\ IF r.success
                   THEN m.pre_log_index + 1 + r.log_count <= Len(log_vec'[s])
                   ELSE r.commit_index < Len(log_vec'[s])
          /\ \A r, q \in new : r = q
  BY FollowerAnswers
<1>7. /\ \A r \in DOMAIN tasks : tasks[r] = 1
      /\ \A r \in DOMAIN tasks \ {m} : Follower(r) # s
  BY <1>1 DEF PromptInv, OneInFlight
<1>8. \A r \in new : Follower(r) = s /\ r # m
  BY <1>1, <1>6 DEF Follower
<1>9. /\ DOMAIN tasks' = (DOMAIN tasks \ {m}) \cup new
      /\ \A r \in DOMAIN tasks' : tasks'[r] = 1
  BY <1>6, <1>7, <1>8, RunOnce
<1>10. OneInFlight'
  <2>1. \A r, q \in DOMAIN tasks' : Follower(r) = Follower(q) => r = q
    BY <1>6, <1>7, <1>8, <1>9 DEF PromptInv, OneInFlight
  <2> QED  BY <1>9, <2>1 DEF OneInFlight, Follower
<1>11. NothingCut'
  <2> SUFFICES ASSUME NEW r \in DOMAIN tasks', r.handler = "RequestAppendEntries"
               PROVE  r.pre_log_index + 1 + Len(r.log_vec) >= Len(log_vec'[r.to])
    BY DEF NothingCut
  <2>1. r \in DOMAIN tasks \ {m}
    BY <1>6, <1>9
  <2>2. r.to \in Server \ {s}
    BY <1>2, <1>7, <2>1, PromptTasks
  <2> QED  BY <1>4, <2>1, <2>2 DEF PromptInv, NothingCut
<1>12. AllCommitWithin'
  BY <1>4 DEF PromptInv, AllCommitWithin
<1>13. CommitReaches'
  BY <1>1, <1>2, <1>4, <1>5, LongerLogsReach DEF PromptInv
<1>14. IndexesHonest'
  <2> SUFFICES ASSUME next_index_vec[Boss] # NoVec
               PROVE  /\ \A t \in Server : /\ next_index_vec'[Boss][t] <= Len(log_vec'[t])
                                           /\ match_index_vec'[Boss][t] < Len(log_vec'[t])
                      /\ \A r \in DOMAIN tasks' : InFlightHonest(r)'
    BY <1>3 DEF IndexesHonest
  <2>1. /\ \A t \in Server : /\ next_index_vec'[Boss][t] <= Len(log_vec'[t])
                             /\ match_index_vec'[Boss][t] < Len(log_vec'[t])
        /\ \A r \in DOMAIN tasks : InFlightHonest(r)'
    BY <1>2, <1>3, <1>5, LongerLogsHonest DEF PromptInv
  <2>2. ASSUME NEW r \in new
        PROVE  InFlightHonest(r)'
    <3>1. m.pre_log_index = next_index_vec[Boss][s] - 1
      BY <1>1 DEF PromptInv, IndexesHonest, InFlightHonest
    <3>2. next_index_vec[Boss][s] \in Nat
      BY <1>1, <1>2 DEF TypeOK
    <3>3. m.pre_log_index + 1 = next_index_vec[Boss][s]
      BY <3>1, <3>2
    <3> QED  BY <1>3, <1>6, <3>3 DEF InFlightHonest
  <2> QED  BY <1>9, <2>1, <2>2
<1> QED  BY <1>10, <1>11, <1>12, <1>13, <1>14 DEF PromptInv

\* Running a reply: both indexes of the follower move, and nothing else that is
\* on its way concerns them.
LEMMA ReplyPrompt ==
    ASSUME PromptInv, SteadyInv', NEW m \in DOMAIN tasks, ReplyAppendEntries(m)
    PROVE  PromptInv'
<1> DEFINE t == m.id
<1>1. /\ m \in AppendEntriesReply /\ m.to = Boss /\ t \in Server /\ Follower(m) = t
      /\ m.handler = "ReplyAppendEntries" /\ m.handler # "RequestAppendEntries"
      /\ m.log_count \in Nat /\ m.commit_index \in Nat
  BY PromptTasks DEF PromptInv, ReplyAppendEntries, AppendEntriesReply
<1>2. /\ Boss \in Server /\ TypeOK /\ TypeOK' /\ SteadyInv
      /\ \A u \in Server : Len(log_vec[u]) \in Nat
      /\ next_index_vec[Boss] = NoVec <=> match_index_vec[Boss] = NoVec
  BY BossAssumption, LenProperties DEF PromptInv, SteadyInv, LogInv, TypeOK
<1>3. Run(m, {}) /\ UNCHANGED <<log_vec, commit_index>>
  BY DEF ReplyAppendEntries, logVars
<1>4. /\ \A r \in DOMAIN tasks : tasks[r] = 1
      /\ \A r \in DOMAIN tasks \ {m} : Follower(r) # t
  BY <1>1 DEF PromptInv, OneInFlight
<1>5. DOMAIN tasks' = DOMAIN tasks \ {m} /\ \A r \in DOMAIN tasks' : tasks'[r] = 1
  <2>1. {} \cap DOMAIN tasks = {}
    OBVIOUS
  <2>2. /\ DOMAIN tasks' = (DOMAIN tasks \ {m}) \cup {}
        /\ \A r \in DOMAIN tasks' : tasks'[r] = 1
    BY <1>3, <1>4, <2>1, RunOnce
  <2> QED  BY <2>2
<1>6. CASE UNCHANGED leaderVars
  BY <1>3, <1>5, <1>6, QuietPrompt DEF leaderVars
<1>7. CASE /\ next_index_vec[Boss] # NoVec
           /\ \/ m.success /\ RecordSuccess(m, Boss)
              \/ ~m.success /\ RecordFailure(m, Boss)
  <2> DEFINE next == next_index_vec[Boss]
             match == match_index_vec[Boss]
  <2>1. /\ next \in [Server -> Nat] /\ match \in [Server -> Nat]
        /\ \A u \in Server : next[u] <= Len(log_vec[u]) /\ match[u] < Len(log_vec[u])
        /\ \A r \in DOMAIN tasks : InFlightHonest(r)
    BY <1>2, <1>7 DEF TypeOK, PromptInv, IndexesHonest
  <2>2. /\ \A u \in Server \ {t} : /\ next_index_vec'[Boss][u] = next[u]
                                  /\ match_index_vec'[Boss][u] = match[u]
        /\ \/ /\ m.success
              /\ next_index_vec'[Boss][t] = next[t] + m.log_count
              /\ match_index_vec'[Boss][t] = max(match[t], next[t] + m.log_count - 1)
           \/ /\ ~m.success
              /\ next_index_vec'[Boss][t] = m.commit_index + 1
              /\ match_index_vec'[Boss][t] = match[t]
    <3>1. /\ next_index_vec \in [Server -> [Server -> Nat] \cup {NoVec}]
          /\ match_index_vec \in [Server -> [Server -> Nat] \cup {NoVec}]
      BY <1>2 DEF TypeOK
    <3>2. CASE m.success /\ RecordSuccess(m, Boss)
      <4>1. /\ match_index_vec' = [match_index_vec EXCEPT ![Boss] =
                    [match EXCEPT ![t] = max(match[t], next[t] + m.log_count - 1)]]
            /\ next_index_vec' = [next_index_vec EXCEPT ![Boss] =
                    [next EXCEPT ![t] = next[t] + m.log_count]]
        BY <3>2 DEF RecordSuccess
      <4>2. /\ match_index_vec'[Boss] = [match EXCEPT ![t] = max(match[t], next[t] + m.log_count - 1)]
            /\ next_index_vec'[Boss] = [next EXCEPT ![t] = next[t] + m.log_count]
        BY <1>2, <3>1, <4>1
      <4> QED  BY <1>1, <2>1, <3>2, <4>2
    <3>3. CASE ~m.success /\ RecordFailure(m, Boss)
      <4>1. /\ match_index_vec' = match_index_vec
            /\ next_index_vec' = [next_index_vec EXCEPT ![Boss] =
                    [next EXCEPT ![t] = m.commit_index + 1]]
        BY <3>3 DEF RecordFailure
      <4>2. next_index_vec'[Boss] = [next EXCEPT ![t] = m.commit_index + 1]
        BY <1>2, <3>1, <4>1
      <4> QED  BY <1>1, <2>1, <3>3, <4>1, <4>2
    <3> QED  BY <1>7, <3>2, <3>3
  <2>3. /\ m.success => next[t] + m.log_count <= Len(log_vec[t])
        /\ ~m.success => m.commit_index < Len(log_vec[t])
    BY <1>1, <2>1 DEF InFlightHonest
  <2>4. next[t] \in Nat /\ match[t] \in Nat /\ Len(log_vec[t]) \in Nat /\ match[t] < Len(log_vec[t])
    BY <1>1, <1>2, <2>1
  <2> HIDE DEF next, match
  <2>5. next_index_vec'[Boss][t] <= Len(log_vec[t]) /\ match_index_vec'[Boss][t] < Len(log_vec[t])
    BY <1>1, <2>2, <2>3, <2>4 DEF max
  <2>6. ASSUME NEW r \in DOMAIN tasks \ {m}
        PROVE  InFlightHonest(r)'
    <3>1. r.handler = "RequestAppendEntries" => r.to \in Server \ {t}
      BY <1>2, <1>4, PromptTasks
    <3>2. r.handler # "RequestAppendEntries" => r.id \in Server \ {t}
      BY <1>2, <1>4, PromptTasks
    <3> QED  BY <1>3, <2>1, <2>2, <3>1, <3>2 DEF InFlightHonest, next
  <2>7. IndexesHonest'
    BY <1>3, <1>5, <2>1, <2>2, <2>5, <2>6 DEF IndexesHonest
  <2>8. OneInFlight' /\ NothingCut' /\ AllCommitWithin' /\ CommitReaches'
    BY <1>3, <1>5 DEF PromptInv, OneInFlight, NothingCut, AllCommitWithin, CommitReaches, Follower
  <2> QED  BY <2>7, <2>8 DEF PromptInv
<1> QED  BY <1>1, <1>6, <1>7 DEF ReplyAppendEntries
LEMMA PromptInvInit == SteadyInit => PromptInv
<1> SUFFICES ASSUME SteadyInit PROVE PromptInv
  OBVIOUS
<1>1. SteadyInv /\ DOMAIN tasks = {} /\ Boss \in Server
  BY SteadyInvInit, NoTasks, BossAssumption DEF SteadyInit
<1>2. \A s \in Server : Len(log_vec[s]) \in Nat /\ Len(log_vec[s]) > 0
  <2>1. \A s \in Server : log_vec[s] \in Seq(Entry) /\ log_vec[s] # <<>>
    BY <1>1 DEF SteadyInv, LogInv, LogIndexed, TypeOK, SteadyInit
  <2> QED  BY <2>1, EmptySeq, LenProperties
<1>3. OneInFlight /\ NothingCut
  BY <1>1 DEF OneInFlight, NothingCut
<1>4. AllCommitWithin /\ IndexesHonest
  BY <1>1, <1>2 DEF SteadyInit, ZeroVec, AllCommitWithin, IndexesHonest
<1>5. CommitReaches
  <2>1. {s \in Server : commit_index[Boss] < Len(log_vec[s])} = Server
    BY <1>1, <1>2 DEF SteadyInit
  <2> QED  BY <2>1, AllAreMajority DEF CommitReaches
<1> QED  BY <1>1, <1>3, <1>4, <1>5 DEF PromptInv

LEMMA PromptInvStep ==
    ASSUME PromptInv, [PromptNext]_vars
    PROVE  PromptInv'
<1>1. SteadyInv /\ SteadyInv'
  <2>1. SteadyInv /\ [SteadyNext]_vars
    BY PromptNextIsSteady DEF PromptInv
  <2> QED  BY <2>1, SteadyInvStep
<1>2. /\ \A s \in Server : state[s] = IF s = Boss THEN "Leader" ELSE "Folower"
      /\ Boss \in Server /\ commit_index \in [Server -> Nat]
      /\ next_index_vec \in [Server -> [Server -> Nat] \cup {NoVec}]
      /\ elections \in [Server -> Nat] /\ \A s \in Server : elections[s] = 0
      /\ \A m \in DOMAIN tasks : tasks[m] = 1
  BY <1>1, BossAssumption DEF SteadyInv, SteadyRoles, LogInv, TypeOK, PromptInv, OneInFlight
<1>3. ASSUME UNCHANGED <<log_vec, commit_index, tasks, next_index_vec, match_index_vec>>
      PROVE  PromptInv'
  BY <1>1, <1>2, <1>3, QuietPrompt
<1>4. CASE UNCHANGED vars
  BY <1>3, <1>4 DEF vars, logVars, leaderVars
<1>5. ASSUME NEW s \in Server, Stop(s) \/ ReStart(s)
      PROVE  PromptInv'
  <2>1. CASE Stop(s)
    BY <1>3, <2>1 DEF Stop, logVars, leaderVars
  <2>2. CASE ReStart(s)
    <3>1. /\ UNCHANGED <<log_vec, commit_index, tasks>>
          /\ next_index_vec' = [next_index_vec EXCEPT ![s] = NoVec]
          /\ match_index_vec' = [match_index_vec EXCEPT ![s] = NoVec]
      BY <2>2 DEF ReStart, logVars
    <3>2. \/ next_index_vec'[Boss] = NoVec
          \/ /\ next_index_vec'[Boss] = next_index_vec[Boss]
             /\ match_index_vec'[Boss] = match_index_vec[Boss]
      <4>1. match_index_vec \in [Server -> [Server -> Nat] \cup {NoVec}]
        BY <1>1 DEF SteadyInv, LogInv, TypeOK
      <4> QED  BY <1>2, <3>1, <4>1
    <3> QED  BY <1>1, <1>2, <3>1, <3>2, QuietPrompt
  <2> QED  BY <1>5, <2>1, <2>2
<1>6. ASSUME NEW s \in Server, NEW v \in Value, AddLog(s, v)
      PROVE  PromptInv'
  <2>1. s = Boss
    BY <1>2, <1>6 DEF AddLog
  <2> QED  BY <1>1, <1>6, <2>1, AddLogPrompt
<1>7. CASE Environment
  <2>1. \A s \in Server : ~Start(s)
    BY <1>2 DEF Start
  <2> QED  BY <1>5, <1>6, <1>7, <2>1 DEF Environment
<1>8. ASSUME tasks = EmptyBag, NEW s \in Server, Update(s), UNCHANGED elections
      PROVE  PromptInv'
  <2>1. CASE UpdateLeader(s)
    <3>1. s = Boss
      BY <1>2, <2>1 DEF UpdateLeader
    <3> QED  BY <1>1, <1>8, <2>1, <3>1, TickPrompt
  <2>2. CASE UpdateFollower(s)
    <3>1. CommitAndApply(s) /\ state[s] # "Leader"
          /\ UNCHANGED <<tasks, next_index_vec, match_index_vec>>
      BY <2>2 DEF UpdateFollower, leaderVars
    <3>2. NewCommitIndex(s) = {commit_index[s]}
      BY <3>1 DEF NewCommitIndex
    <3>3. commit_index' = [commit_index EXCEPT ![s] = commit_index[s]] /\ UNCHANGED log_vec
      BY <3>1, <3>2 DEF CommitAndApply
    <3>4. commit_index' = commit_index
      BY <1>2, <3>3
    <3> QED  BY <1>3, <3>1, <3>3, <3>4
  <2>3. ~UpdateCandidate(s)
    BY <1>2 DEF UpdateCandidate
  <2>4. ~UpdateTimeout(s)
    BY <1>2, <1>8 DEF UpdateTimeout
  <2> QED  BY <1>8, <2>1, <2>2, <2>3, <2>4 DEF Update
<1>9. ASSUME NEW m \in DOMAIN tasks, Handle(m)
      PROVE  PromptInv'
  <2>1. m.handler = "RequestAppendEntries" \/ m.handler = "ReplyAppendEntries"
    BY <1>1, PromptTasks
  <2>2. CASE Dropped(m)
    <3>1. Run(m, {}) /\ UNCHANGED <<log_vec, commit_index, next_index_vec, match_index_vec>>
      BY <2>2 DEF Dropped, logVars, leaderVars
    <3>2. {} \cap DOMAIN tasks = {}
      OBVIOUS
    <3>3. /\ DOMAIN tasks' = (DOMAIN tasks \ {m}) \cup {}
          /\ \A r \in DOMAIN tasks' : tasks'[r] = 1
      BY <1>2, <3>1, <3>2, RunOnce
    <3> QED  BY <1>1, <3>1, <3>3, QuietPrompt
  <2>3. CASE RequestAppendEntries(m)
    BY <1>1, <2>3, RequestPrompt
  <2>4. CASE ReplyAppendEntries(m)
    BY <1>1, <2>4, ReplyPrompt
  <2>5. ~RequestVote(m) /\ ~ReplyVote(m)
    BY <2>1 DEF RequestVote, ReplyVote
  <2> QED  BY <1>9, <2>2, <2>3, <2>4, <2>5 DEF Handle
<1> QED  BY <1>4, <1>7, <1>8, <1>9 DEF PromptNext

\* The invariant the prompt leader keeps: one task in flight for each follower,
\* no log is cut, and the leader's vectors are within the logs (raft.cc:352, 381).
THEOREM PromptInvHolds == PromptSpec => []PromptInv
BY PromptInvInit, PromptInvStep, PTL DEF PromptSpec

LEMMA PromptIsHonest == PromptInv => MatchHonest
<1> SUFFICES ASSUME PromptInv, NEW s \in Server, NEW t \in Server,
                    state[s] = "Leader", match_index_vec[s] # NoVec
             PROVE  /\ match_index_vec[s][t] < Len(log_vec[t])
                    /\ match_index_vec[s][t] < Len(log_vec[s])
                    /\ \A i \in 0..match_index_vec[s][t] : At(log_vec[s], i) = At(log_vec[t], i)
  BY DEF MatchHonest
<1>1. s = Boss /\ Boss \in Server
  BY BossAssumption DEF PromptInv, SteadyInv, SteadyRoles
<1>2. /\ match_index_vec[s] \in [Server -> Nat]
      /\ next_index_vec[s] # NoVec
      /\ Len(log_vec[s]) \in Nat /\ Len(log_vec[t]) \in Nat
  BY LenProperties DEF PromptInv, SteadyInv, LogInv, TypeOK
<1>3. match_index_vec[s][t] \in Nat /\ match_index_vec[s][t] < Len(log_vec[t])
  BY <1>1, <1>2 DEF PromptInv, IndexesHonest
<1>4. Prefix(log_vec[t], log_vec[s])
  BY <1>1 DEF PromptInv, SteadyInv, FollowsBoss
<1> QED  BY <1>2, <1>3, <1>4 DEF Prefix, At

\* With prompt tasks the leader's match_index is the truth: the follower holds
\* what the leader counts on, whoever was stopped in between (raft.h:155).
THEOREM MatchHonestHolds == PromptSpec => []MatchHonest
BY PromptIsHonest, PromptInvHolds, PTL

LEMMA PromptIsReplicated == PromptInv => CommitReplicated
<1> SUFFICES ASSUME PromptInv, NEW s \in Server, state[s] = "Leader"
             PROVE  {t \in Server : Prefix(Committed(s), log_vec[t])} \in Majority
  BY DEF CommitReplicated
<1> DEFINE S == {t \in Server : commit_index[s] < Len(log_vec[t])}
           T == {t \in Server : Prefix(Committed(s), log_vec[t])}
<1>1. s = Boss /\ TypeOK
  BY DEF PromptInv, SteadyInv, SteadyRoles, LogInv
<1>2. /\ log_vec \in [Server -> Seq(Entry)] /\ commit_index[s] \in Nat
      /\ \A t \in Server : Len(log_vec[t]) \in Nat
  BY <1>1, LenProperties DEF TypeOK
<1>3. /\ Committed(s) \in Seq(Entry)
      /\ Len(Committed(s)) = min(commit_index[s] + 1, Len(log_vec[s]))
      /\ Prefix(Committed(s), log_vec[s])
  BY <1>1, CommittedIsPrefix
<1>4. S \in Majority
  BY <1>1 DEF PromptInv, CommitReaches
<1>5. ASSUME NEW t \in S
      PROVE  t \in T
  <2>1. Prefix(log_vec[t], log_vec[s])
    BY <1>1 DEF PromptInv, SteadyInv, FollowsBoss
  <2>2. Len(Committed(s)) <= Len(log_vec[t])
    BY <1>2, <1>3 DEF min
  <2> QED  BY <1>2, <1>3, <2>1, <2>2, PrefixesCompare
<1> QED  BY <1>4, <1>5, MajorityGrows

\* What the prompt leader has committed, a majority of the servers holds, though
\* its quorum counts two slots that never move (raft.cc:177).
THEOREM CommitReplicatedHolds == PromptSpec => []CommitReplicated
BY PromptIsReplicated, PromptInvHolds, PTL

\* Under a prompt leader the servers implement the replicated log, whoever stops
\* and restarts: its commit index never leaves its log, as SteadyImplements asks.
THEOREM PromptImplements == PromptSpec => ImplementsReplicatedLog
<1>1. PromptInv => CommitWithin
  BY BossAssumption DEF PromptInv, AllCommitWithin, CommitWithin
<1>2. [PromptNext]_vars => [SteadyNext]_vars
  BY PromptNextIsSteady
<1>3. PromptSpec => SteadySpec
  BY <1>2, PTL DEF PromptSpec, SteadySpec
<1>4. PromptSpec => []CommitWithin
  BY <1>1, PromptInvHolds, PTL
<1> QED  BY <1>3, <1>4, SteadyImplements
=============================================================================
