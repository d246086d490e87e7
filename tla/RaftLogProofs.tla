--------------------------- MODULE RaftLogProofs ---------------------------
(***************************************************************************)
(* The shape of the logs, for any number of servers and any scheduling:    *)
(* every entry is where its index says, a leader only appends to its own   *)
(* log, and no request cuts a log below what its server has committed.     *)
(***************************************************************************)
EXTENDS RaftProofs

\* What a step leaves of LogInv's part about one server's log.
LEMMA OneLog ==
    ASSUME TypeOK, NEW s \in Server, NEW log \in Seq(Entry),
           LogIndexed, NeverStarted,
           log_vec' = [log_vec EXCEPT ![s] = log],
           \A t \in Server : t # s => state'[t] = state[t] /\ is_stop'[t] = is_stop[t],
           state'[s] # "None",
           \A i \in 1..Len(log) : log[i].index = i - 1,
           log # <<>> /\ log[1] = StartEntry
    PROVE  LogIndexed' /\ NeverStarted'
<1>1. log_vec'[s] = log /\ \A t \in Server \ {s} : log_vec'[t] = log_vec[t]
  BY DEF TypeOK
<1>2. LogIndexed'
  BY <1>1 DEF LogIndexed
<1>3. NeverStarted'
  BY <1>1 DEF NeverStarted
<1> QED  BY <1>2, <1>3

\* A step that leaves the logs alone, and starts no server.
LEMMA SameLogs ==
    ASSUME LogIndexed, NeverStarted, log_vec' = log_vec,
           \A t \in Server : state'[t] = "None" <=> state[t] = "None",
           \A t \in Server : state[t] = "None" => is_stop'[t] = is_stop[t]
    PROVE  LogIndexed' /\ NeverStarted'
BY DEF LogIndexed, NeverStarted

\* A step that runs or submits tasks, none of them a request with entries.
LEMMA NoNewRequests ==
    ASSUME RequestsIndexed, NEW new, DOMAIN tasks' \subseteq DOMAIN tasks \cup new,
           \A m \in new : m.handler = "RequestAppendEntries" => RequestIndexed(m)
    PROVE  RequestsIndexed'
<1> SUFFICES ASSUME NEW m \in DOMAIN tasks', m.handler = "RequestAppendEntries"
             PROVE  RequestIndexed(m)'
  BY DEF RequestsIndexed
<1>1. RequestIndexed(m)
  BY DEF RequestsIndexed
<1> QED  BY <1>1 DEF RequestIndexed

LEMMA SameRequests ==
    ASSUME RequestsIndexed, DOMAIN tasks' \subseteq DOMAIN tasks
    PROVE  RequestsIndexed'
BY DEF RequestsIndexed, RequestIndexed

\* Running a task submits nothing, or a reply.
LEMMA RunAndReply ==
    ASSUME RequestsIndexed, NEW m, NEW new, Run(m, new),
           \A r \in new : r.handler # "RequestAppendEntries"
    PROVE  RequestsIndexed'
BY RunTasks, NoNewRequests

\* Appending an entry numbered by the log's length.
LEMMA AppendIndexed ==
    ASSUME NEW log \in Seq(Entry), NEW e \in Entry, e.index = Len(log),
           \A i \in 1..Len(log) : log[i].index = i - 1,
           log # <<>> /\ log[1] = StartEntry
    PROVE  /\ Append(log, e) \in Seq(Entry)
           /\ \A i \in 1..Len(Append(log, e)) : Append(log, e)[i].index = i - 1
           /\ Append(log, e) # <<>> /\ Append(log, e)[1] = StartEntry
<1>1. Len(log) \in Nat \ {0}
  BY EmptySeq
<1>2. /\ Append(log, e) \in Seq(Entry)
      /\ Append(log, e) # <<>>
      /\ Len(Append(log, e)) = Len(log) + 1
      /\ \A i \in 1..Len(log) : Append(log, e)[i] = log[i]
      /\ Append(log, e)[Len(log) + 1] = e
  BY AppendProperties
<1>3. ASSUME NEW i \in 1..Len(log) + 1
      PROVE  Append(log, e)[i].index = i - 1
  BY <1>1, <1>2
<1> QED  BY <1>1, <1>2, <1>3

\* A leader's request carries entries that follow its pre_log_index.
LEMMA AppendEntriesToIndexed ==
    ASSUME LogInv, NEW s \in Server, NEW id \in Server,
           state[s] # "None", next_index_vec[s] # NoVec
    PROVE  RequestIndexed(AppendEntriesTo(s, id))
<1> DEFINE next == next_index_vec[s][id]
           log == log_vec[s]
           n == Len(log)
           entries == SubSeq(log, next + 1, n)
           m == AppendEntriesTo(s, id)
<1>1. next \in Nat /\ log \in Seq(Entry) /\ n \in Nat
  BY LenProperties DEF LogInv, TypeOK
<1>2. m.log_vec = entries /\ m.pre_log_index = next - 1
  BY DEF AppendEntriesTo
<1>3. \A i \in 1..n : log[i].index = i - 1 /\ log[i] \in Entry
  BY <1>1, ElementOfSeq DEF LogInv, LogIndexed
<1>4. log # <<>> /\ log[1] = StartEntry
  BY DEF LogInv, LogIndexed
<1> HIDE DEF log, n, entries, m, next
<1>5. /\ entries \in Seq(Entry)
      /\ Len(entries) = IF next + 1 <= n THEN n - (next + 1) + 1 ELSE 0
      /\ \A i \in 1..n - (next + 1) + 1 : entries[i] = log[next + 1 + i - 1]
  <2>1. \A i \in next + 1 .. n : log[i] \in Entry
    BY <1>1, <1>3
  <2>2. next + 1 \in Int /\ n \in Int
    BY <1>1
  <2> QED  BY <2>1, <2>2, SubSeqProperties DEF entries
<1>6. ASSUME NEW i \in 1..Len(entries)
      PROVE  entries[i].index = next - 1 + i
  <2>1. i \in 1..n - (next + 1) + 1 /\ next + i \in 1..n
    BY <1>1, <1>5
  <2>2. entries[i] = log[next + i]
    BY <1>1, <1>5, <2>1
  <2> QED  BY <1>1, <1>3, <2>1, <2>2
<1>7. ASSUME next = 0, entries # <<>>
      PROVE  entries[1] = StartEntry
  <2>1. Len(entries) \in Nat \ {0}
    BY <1>5, <1>7, EmptySeq
  <2>2. 1 \in 1..n - (next + 1) + 1
    BY <1>1, <1>5, <1>7, <2>1
  <2>3. entries[1] = log[1]
    BY <1>5, <1>7, <2>2
  <2> QED  BY <1>4, <2>3
<1> QED  BY <1>1, <1>2, <1>6, <1>7 DEF RequestIndexed, m

\* Overwriting with a request's entries keeps every entry at its index.
LEMMA OverwriteIndexed ==
    ASSUME NEW log \in Seq(Entry), NEW m \in AppendEntriesArgs,
           m.pre_log_index >= 0 => HoldsPre(m, log),
           m.log_vec # <<>>, RequestIndexed(m),
           \A i \in 1..Len(log) : log[i].index = i - 1,
           log # <<>> /\ log[1] = StartEntry
    PROVE  /\ Overwrite(log, m) \in Seq(Entry)
           /\ Len(Overwrite(log, m)) = m.pre_log_index + 1 + Len(m.log_vec)
           /\ \A i \in 1..Len(Overwrite(log, m)) : Overwrite(log, m)[i].index = i - 1
           /\ Overwrite(log, m) # <<>> /\ Overwrite(log, m)[1] = StartEntry
<1> DEFINE kept == SubSeq(log, 1, m.pre_log_index + 1)
           new == kept \o m.log_vec
           p == m.pre_log_index + 1
<1>1. /\ m.pre_log_index \in Nat \cup {-1}
      /\ m.log_vec \in Seq(Entry)
      /\ Len(m.log_vec) \in Nat \ {0}
  BY EmptySeq DEF AppendEntriesArgs
<1>2. /\ kept \in Seq(Entry)
      /\ Len(kept) = p
      /\ \A i \in 1..p : kept[i] = log[i]
      /\ new \in Seq(Entry)
  BY OverwriteType DEF Overwrite
<1>3. p \in 0..Len(log)
  BY <1>1, LenProperties DEF HoldsPre
<1> HIDE DEF kept, new
<1>4. /\ Len(new) = p + Len(m.log_vec)
      /\ \A i \in 1..p + Len(m.log_vec) :
             new[i] = IF i <= p THEN kept[i] ELSE m.log_vec[i - p]
  <2>1. /\ Len(kept \o m.log_vec) = Len(kept) + Len(m.log_vec)
        /\ \A i \in 1..Len(kept) + Len(m.log_vec) :
               (kept \o m.log_vec)[i]
                   = IF i <= Len(kept) THEN kept[i] ELSE m.log_vec[i - Len(kept)]
    BY <1>1, <1>2, ConcatProperties
  <2> QED  BY <1>2, <2>1 DEF new
<1>5. ASSUME NEW i \in 1..Len(new)
      PROVE  new[i].index = i - 1
  <2>1. CASE i <= p
    <3>1. i \in 1..p /\ i \in 1..Len(log)
      BY <1>1, <1>3, <1>4, <2>1
    <3>2. new[i] = log[i]
      BY <1>1, <1>2, <1>4, <2>1, <3>1
    <3> QED  BY <3>1, <3>2
  <2>2. CASE i > p
    <3>1. i - p \in 1..Len(m.log_vec)
      BY <1>1, <1>4, <2>2
    <3>2. new[i] = m.log_vec[i - p]
      BY <1>1, <1>4, <2>2
    <3>3. m.log_vec[i - p].index = m.pre_log_index + (i - p)
      BY <3>1 DEF RequestIndexed
    <3> QED  BY <1>1, <1>4, <3>2, <3>3
  <2> QED  BY <1>1, <1>4, <2>1, <2>2
<1>6. new[1] = StartEntry
  <2>1. CASE m.pre_log_index >= 0
    <3>1. 1 \in 1..p /\ 1 \in 1..p + Len(m.log_vec)
      BY <1>1, <2>1
    <3> QED  BY <1>2, <1>4, <3>1
  <2>2. CASE m.pre_log_index = -1
    <3>1. 1 \in 1..p + Len(m.log_vec) /\ p = 0
      BY <1>1, <2>2
    <3>2. new[1] = m.log_vec[1]
      BY <1>4, <3>1
    <3> QED  BY <2>2, <3>2 DEF RequestIndexed
  <2> QED  BY <1>1, <2>1, <2>2
<1>7. new # <<>>
  BY <1>1, <1>2, <1>4, EmptySeq
<1> QED  BY <1>1, <1>2, <1>4, <1>5, <1>6, <1>7 DEF Overwrite, new, kept

-----------------------------------------------------------------------------
(* The steps preserve LogInv.                                              *)

LEMMA UpdateLogInv ==
    ASSUME LogInv, NEW s \in Server, Update(s)
    PROVE  LogIndexed' /\ NeverStarted' /\ RequestsIndexed'
<1>1. log_vec' = log_vec /\ is_stop' = is_stop
  BY DEF Update, UpdateLeader, UpdateCandidate, UpdateFollower, UpdateTimeout,
         CommitAndApply, switchVars
<1>2. \A t \in Server : state'[t] = "None" <=> state[t] = "None"
  BY DEF Update, UpdateLeader, UpdateCandidate, UpdateFollower, UpdateTimeout,
         roleVars, LogInv, TypeOK
<1>3. LogIndexed' /\ NeverStarted'
  BY <1>1, <1>2, SameLogs DEF LogInv
<1>4. RequestsIndexed'
  <2>1. CASE UpdateLeader(s)
    <3> DEFINE new == IF next_index_vec[s] = NoVec THEN {}
                      ELSE {AppendEntriesTo(s, id) : id \in Server \ {s}}
    <3>1. state[s] # "None" /\ Submit(new)
      BY <2>1 DEF UpdateLeader
    <3>2. \A m \in new : RequestIndexed(m)
      BY <3>1, AppendEntriesToIndexed
    <3> HIDE DEF new
    <3>3. DOMAIN tasks' = DOMAIN tasks \cup new
      BY <3>1, SubmitTasks
    <3>4. DOMAIN tasks' \subseteq DOMAIN tasks \cup new
      BY <3>3
    <3> QED  BY <3>2, <3>4, NoNewRequests DEF LogInv
  <2>2. CASE ~UpdateLeader(s)
    <3>1. tasks' = tasks
      BY <2>2 DEF Update, UpdateCandidate, UpdateFollower, UpdateTimeout
    <3> QED  BY <3>1, SameRequests DEF LogInv
  <2> QED  BY <2>1, <2>2
<1> QED  BY <1>3, <1>4

LEMMA ElectionLogInv ==
    ASSUME LogInv, NEW s \in Server, Election(s)
    PROVE  LogIndexed' /\ NeverStarted' /\ RequestsIndexed'
<1>1. UNCHANGED <<is_stop, state, log_vec>>
  BY DEF Election, ElectionBreak, ElectionRound, switchVars, roleVars, logVars
<1>2. LogIndexed' /\ NeverStarted'
  BY <1>1, SameLogs DEF LogInv
<1>3. RequestsIndexed'
  <2>1. CASE ElectionBreak(s)
    <3>1. tasks' = tasks
      BY <2>1 DEF ElectionBreak
    <3> QED  BY <3>1, SameRequests DEF LogInv
  <2>2. CASE ElectionRound(s)
    <3> DEFINE new == {RequestVoteTo(s, id) : id \in Server \ {s}}
    <3>1. Submit(new)
      BY <2>2 DEF ElectionRound
    <3>2. \A m \in new : m.handler # "RequestAppendEntries"
      BY DEF RequestVoteTo
    <3> HIDE DEF new
    <3>3. DOMAIN tasks' \subseteq DOMAIN tasks \cup new
      BY <3>1, SubmitTasks
    <3> QED  BY <3>2, <3>3, NoNewRequests DEF LogInv
  <2> QED  BY <2>1, <2>2 DEF Election
<1> QED  BY <1>2, <1>3

LEMMA RequestVoteLogInv ==
    ASSUME LogInv, NEW m \in Task, RequestVote(m)
    PROVE  LogIndexed' /\ NeverStarted' /\ RequestsIndexed'
<1> DEFINE s == m.to
           reply == [handler |-> "ReplyVote", to |-> m.candidate_id,
                     term |-> term'[s], vote_granted |-> VoteGranted(m, s)]
<1>1. s \in Server
  BY TaskKind
<1>2. UNCHANGED <<is_stop, log_vec>> /\ ~is_stop[s]
  BY DEF RequestVote, switchVars, logVars
<1>3. state[s] # "None"
  BY <1>1, <1>2 DEF LogInv, NeverStarted
<1>4. \A t \in Server : state'[t] = "None" <=> state[t] = "None"
  <2>1. state' = state \/ state' = [state EXCEPT ![s] = "Folower"]
    BY DEF RequestVote, ToFollower, roleVars
  <2> QED  BY <1>1, <1>3, <2>1 DEF LogInv, TypeOK
<1>5. LogIndexed' /\ NeverStarted'
  BY <1>2, <1>4, SameLogs DEF LogInv
<1>6. Run(m, {reply})
  BY DEF RequestVote
<1>7. reply.handler # "RequestAppendEntries"
  OBVIOUS
<1> HIDE DEF reply
<1>8. RequestsIndexed'
  BY <1>6, <1>7, RunAndReply DEF LogInv
<1> QED  BY <1>5, <1>8

LEMMA ReplyVoteLogInv ==
    ASSUME LogInv, NEW m \in Task, ReplyVote(m)
    PROVE  LogIndexed' /\ NeverStarted' /\ RequestsIndexed'
<1> DEFINE s == m.to
<1>1. s \in Server
  BY TaskKind
<1>2. is_stop' = is_stop /\ ~is_stop[s] /\ Run(m, {})
  BY DEF ReplyVote, switchVars
<1>3. state[s] # "None"
  BY <1>1, <1>2 DEF LogInv, NeverStarted
<1>4. LogIndexed' /\ NeverStarted'
  <2>1. CASE ToLeader(s)
    <3> DEFINE e == NewEntry(Len(log_vec[s]), term[s], s)
    <3>1. log_vec' = [log_vec EXCEPT ![s] = Append(log_vec[s], e)]
      BY <2>1 DEF ToLeader
    <3>2. state' = [state EXCEPT ![s] = "Leader"]
      BY <2>1 DEF ToLeader
    <3>3. log_vec[s] \in Seq(Entry) /\ Len(log_vec[s]) \in Nat /\ term[s] \in Nat
      BY <1>1, LenProperties DEF LogInv, TypeOK
    <3>4. e \in Entry /\ e.index = Len(log_vec[s])
      BY <1>1, <3>3 DEF NewEntry, Entry
    <3> HIDE DEF e
    <3>5. /\ log_vec[s] # <<>> /\ log_vec[s][1] = StartEntry
          /\ \A i \in 1..Len(log_vec[s]) : log_vec[s][i].index = i - 1
      BY <1>1, <1>3 DEF LogInv, LogIndexed
    <3>6. /\ Append(log_vec[s], e) \in Seq(Entry)
          /\ \A i \in 1..Len(Append(log_vec[s], e)) : Append(log_vec[s], e)[i].index = i - 1
          /\ Append(log_vec[s], e) # <<>> /\ Append(log_vec[s], e)[1] = StartEntry
      BY <3>3, <3>4, <3>5, AppendIndexed
    <3>7. /\ state'[s] # "None"
          /\ \A t \in Server : t # s => state'[t] = state[t] /\ is_stop'[t] = is_stop[t]
      BY <1>1, <1>2, <3>2 DEF LogInv, TypeOK
    <3> QED  BY <1>1, <3>1, <3>6, <3>7, OneLog DEF LogInv
  <2>2. CASE ~ToLeader(s)
    <3>1. log_vec' = log_vec
      BY <2>2 DEF ReplyVote, CountVote, logVars
    <3>2. state' = state \/ state' = [state EXCEPT ![s] = "Folower"]
      BY <2>2 DEF ReplyVote, CountVote, ToFollower, roleVars
    <3>3. \A t \in Server : state'[t] = "None" <=> state[t] = "None"
      BY <1>1, <1>3, <3>2 DEF LogInv, TypeOK
    <3> QED  BY <1>2, <3>1, <3>3, SameLogs DEF LogInv
  <2> QED  BY <2>1, <2>2
<1>5. RequestsIndexed'
  BY <1>2, RunAndReply DEF LogInv
<1> QED  BY <1>4, <1>5

LEMMA RequestAppendEntriesLogInv ==
    ASSUME LogInv, NEW m \in DOMAIN tasks, RequestAppendEntries(m)
    PROVE  LogIndexed' /\ NeverStarted' /\ RequestsIndexed'
<1> DEFINE s == m.to
<1>1. m \in AppendEntriesArgs /\ s \in Server
  <2>1. m \in Task
    BY DEF LogInv, TypeOK
  <2> QED  BY <2>1, TaskKind DEF RequestAppendEntries
<1>2. is_stop' = is_stop /\ ~is_stop[s]
  BY DEF RequestAppendEntries, switchVars
<1>3. state[s] # "None"
  BY <1>1, <1>2 DEF LogInv, NeverStarted
<1>4. state' = state \/ state' = [state EXCEPT ![s] = "Folower"]
  BY DEF RequestAppendEntries, StaleLeader, Heartbeat, KeepEntries, RefuseEntries,
         AppendEntries, FollowLeader, ToFollower, roleVars
<1>5. LogIndexed' /\ NeverStarted'
  <2>1. CASE AppendEntries(m, s)
    <3>1. /\ m.log_vec # <<>>
          /\ m.pre_log_index >= 0 => HoldsPre(m, log_vec[s])
          /\ log_vec' = [log_vec EXCEPT ![s] = Overwrite(log_vec[s], m)]
      BY <2>1 DEF AppendEntries
    <3>2. RequestIndexed(m)
      BY DEF LogInv, RequestsIndexed, RequestAppendEntries
    <3>3. log_vec[s] \in Seq(Entry)
      BY <1>1 DEF LogInv, TypeOK
    <3>4. /\ log_vec[s] # <<>> /\ log_vec[s][1] = StartEntry
          /\ \A i \in 1..Len(log_vec[s]) : log_vec[s][i].index = i - 1
      BY <1>1, <1>3 DEF LogInv, LogIndexed
    <3> DEFINE new == Overwrite(log_vec[s], m)
    <3>5. /\ new \in Seq(Entry)
          /\ \A i \in 1..Len(new) : new[i].index = i - 1
          /\ new # <<>> /\ new[1] = StartEntry
      BY <1>1, <3>1, <3>2, <3>3, <3>4, OverwriteIndexed
    <3> HIDE DEF new
    <3>6. log_vec' = [log_vec EXCEPT ![s] = new]
      BY <3>1 DEF new
    <3>7. /\ state'[s] # "None"
          /\ \A t \in Server : t # s => state'[t] = state[t] /\ is_stop'[t] = is_stop[t]
      BY <1>1, <1>2, <1>3, <1>4 DEF LogInv, TypeOK
    <3> QED  BY <1>1, <3>5, <3>6, <3>7, OneLog DEF LogInv
  <2>2. CASE ~AppendEntries(m, s)
    <3>1. log_vec' = log_vec
      BY <2>2 DEF RequestAppendEntries, StaleLeader, Heartbeat, KeepEntries,
                  RefuseEntries, logVars
    <3>2. \A t \in Server : state'[t] = "None" <=> state[t] = "None"
      BY <1>1, <1>3, <1>4 DEF LogInv, TypeOK
    <3> QED  BY <1>2, <3>1, <3>2, SameLogs DEF LogInv
  <2> QED  BY <2>1, <2>2
<1>6. RequestsIndexed'
  <2>1. CASE Run(m, {})
    BY <2>1, RunAndReply DEF LogInv
  <2>2. ASSUME NEW success, Replied(m, s, success)
        PROVE  RequestsIndexed'
    <3> DEFINE reply == [handler |-> "ReplyAppendEntries", to |-> m.leader_id, id |-> s,
                         term |-> term'[s], log_count |-> Len(m.log_vec),
                         success |-> success, commit_index |-> commit_index'[s]]
    <3>1. Run(m, {reply})
      BY <2>2 DEF Replied
    <3>2. reply.handler # "RequestAppendEntries"
      OBVIOUS
    <3> HIDE DEF reply
    <3> QED  BY <3>1, <3>2, RunAndReply DEF LogInv
  <2> QED  BY <2>1, <2>2 DEF RequestAppendEntries, StaleLeader, Heartbeat, KeepEntries,
                             RefuseEntries, AppendEntries
<1> QED  BY <1>5, <1>6

\* A step of the environment leaves the tasks alone.
LEMMA EnvironmentLogInv ==
    ASSUME LogInv, Environment
    PROVE  LogIndexed' /\ NeverStarted' /\ RequestsIndexed'
<1>1. RequestsIndexed'
  <2>1. tasks' = tasks
    BY DEF Environment, Start, Stop, ReStart, AddLog
  <2> QED  BY <2>1, SameRequests DEF LogInv
<1>2. ASSUME NEW s \in Server, Start(s)
      PROVE  LogIndexed' /\ NeverStarted'
  <2> DEFINE new == <<StartEntry>>
  <2>1. /\ log_vec' = [log_vec EXCEPT ![s] = new]
        /\ state' = [state EXCEPT ![s] = "Folower"]
        /\ is_stop' = [is_stop EXCEPT ![s] = FALSE]
    BY <1>2 DEF Start
  <2>2. StartEntry \in Entry /\ StartEntry.index = 0
    BY DEF StartEntry, NewEntry, Entry
  <2>3. /\ new \in Seq(Entry)
        /\ \A i \in 1..Len(new) : new[i].index = i - 1
        /\ new # <<>> /\ new[1] = StartEntry
    BY <2>2
  <2> HIDE DEF new
  <2>4. /\ state'[s] # "None"
        /\ \A t \in Server : t # s => state'[t] = state[t] /\ is_stop'[t] = is_stop[t]
    BY <2>1 DEF LogInv, TypeOK
  <2> QED  BY <2>1, <2>3, <2>4, OneLog DEF LogInv
<1>3. ASSUME NEW s \in Server, Stop(s) \/ ReStart(s)
      PROVE  LogIndexed' /\ NeverStarted'
  <2>1. log_vec' = log_vec /\ state' = state
    BY <1>3 DEF Stop, ReStart, roleVars, logVars
  <2>2. state[s] # "None"
    BY <1>3 DEF Stop, ReStart, LogInv, NeverStarted
  <2>3. \A t \in Server : t # s => is_stop'[t] = is_stop[t]
    BY <1>3 DEF Stop, ReStart, LogInv, TypeOK
  <2> QED  BY <2>1, <2>2, <2>3, SameLogs DEF LogInv
<1>4. ASSUME NEW s \in Server, NEW v \in Value, AddLog(s, v)
      PROVE  LogIndexed' /\ NeverStarted'
  <2> DEFINE e == NewEntry(Len(log_vec[s]), term[s], v)
             new == Append(log_vec[s], e)
  <2>1. /\ log_vec' = [log_vec EXCEPT ![s] = new]
        /\ state' = state /\ is_stop' = is_stop
        /\ state[s] = "Leader"
    BY <1>4 DEF AddLog, roleVars, switchVars
  <2>2. log_vec[s] \in Seq(Entry) /\ Len(log_vec[s]) \in Nat /\ term[s] \in Nat
    BY LenProperties DEF LogInv, TypeOK
  <2>3. e \in Entry /\ e.index = Len(log_vec[s])
    BY <2>2 DEF NewEntry, Entry
  <2> HIDE DEF e
  <2>4. /\ log_vec[s] # <<>> /\ log_vec[s][1] = StartEntry
        /\ \A i \in 1..Len(log_vec[s]) : log_vec[s][i].index = i - 1
    BY <2>1 DEF LogInv, LogIndexed
  <2>5. /\ new \in Seq(Entry)
        /\ \A i \in 1..Len(new) : new[i].index = i - 1
        /\ new # <<>> /\ new[1] = StartEntry
    BY <2>2, <2>3, <2>4, AppendIndexed
  <2> HIDE DEF new
  <2>6. /\ state'[s] # "None"
        /\ \A t \in Server : t # s => state'[t] = state[t] /\ is_stop'[t] = is_stop[t]
    BY <2>1
  <2> QED  BY <2>1, <2>5, <2>6, OneLog DEF LogInv
<1> QED  BY <1>1, <1>2, <1>3, <1>4 DEF Environment

LEMMA HandleLogInv ==
    ASSUME LogInv, NEW m \in DOMAIN tasks, Handle(m)
    PROVE  LogIndexed' /\ NeverStarted' /\ RequestsIndexed'
<1>1. m \in Task
  BY DEF LogInv, TypeOK
<1>2. CASE Dropped(m) \/ ReplyAppendEntries(m)
  <2>1. /\ UNCHANGED <<is_stop, state, log_vec>>
        /\ Run(m, {})
    BY <1>2 DEF Dropped, ReplyAppendEntries, switchVars, roleVars, logVars
  <2>2. RequestsIndexed'
    BY <2>1, RunAndReply DEF LogInv
  <2>3. LogIndexed' /\ NeverStarted'
    BY <2>1, SameLogs DEF LogInv
  <2> QED  BY <2>2, <2>3
<1> QED  BY <1>1, <1>2, RequestVoteLogInv, ReplyVoteLogInv, RequestAppendEntriesLogInv
         DEF Handle

LEMMA LogInvStep ==
    ASSUME LogInv, [Next]_vars
    PROVE  LogInv'
<1>1. TypeOK'
  BY TypeStep DEF LogInv
<1>2. CASE UNCHANGED vars
  <2>1. UNCHANGED <<is_stop, state, log_vec, tasks>>
    BY <1>2 DEF vars, switchVars, roleVars, logVars
  <2>2. RequestsIndexed'
    BY <2>1, SameRequests DEF LogInv
  <2>3. LogIndexed' /\ NeverStarted'
    BY <2>1, SameLogs DEF LogInv
  <2> QED  BY <1>1, <2>2, <2>3 DEF LogInv
<1>3. CASE Next
  <2>1. LogIndexed' /\ NeverStarted' /\ RequestsIndexed'
    BY <1>3, EnvironmentLogInv, UpdateLogInv, ElectionLogInv, HandleLogInv DEF Next
  <2> QED  BY <1>1, <2>1 DEF LogInv
<1> QED  BY <1>2, <1>3

LEMMA LogInvInit == Init => LogInv
<1> SUFFICES ASSUME Init PROVE LogInv
  OBVIOUS
<1>1. TypeOK
  BY NoTasks DEF Init, TypeOK, States, NoVec
<1>2. LogIndexed /\ NeverStarted
  BY DEF Init, LogIndexed, NeverStarted
<1>3. RequestsIndexed
  BY NoTasks DEF Init, RequestsIndexed
<1> QED  BY <1>1, <1>2, <1>3 DEF LogInv

\* The logs, and the requests in flight, are always numbered without a gap.
THEOREM LogInvHolds == Spec => []LogInv
BY LogInvInit, LogInvStep, PTL DEF Spec

\* However requests are reordered, repeated or built by leaders of different
\* terms, an entry is at the position its index says, after the same Start.
THEOREM LogIndexedHolds == Spec => []LogIndexed
<1>1. LogInv => LogIndexed
  BY DEF LogInv
<1> QED  BY <1>1, LogInvHolds, PTL

-----------------------------------------------------------------------------
(* How one step may change one log.                                        *)

\* A log is left alone, or started, or its server, a leader or becoming one,
\* appends an entry to it, or its server runs a request that overwrites it.
LEMMA LogStep ==
    ASSUME LogInv, [Next]_vars, NEW s \in Server
    PROVE  \/ log_vec'[s] = log_vec[s]
           \/ log_vec[s] = <<>>
           \/ \E e \in Entry : log_vec'[s] = Append(log_vec[s], e)
           \/ \E m \in AppendEntriesArgs :
                  m.to = s /\ AppendEntries(m, s) /\ ~is_stop[s]
<1> DEFINE Goal == \/ log_vec'[s] = log_vec[s]
                   \/ log_vec[s] = <<>>
                   \/ \E e \in Entry : log_vec'[s] = Append(log_vec[s], e)
                   \/ \E m \in AppendEntriesArgs :
                          m.to = s /\ AppendEntries(m, s) /\ ~is_stop[s]
<1>1. /\ log_vec \in [Server -> Seq(Entry)]
      /\ \A t \in Server : Len(log_vec[t]) \in Nat /\ term[t] \in Nat
  BY LenProperties DEF LogInv, TypeOK
<1>2. CASE UNCHANGED log_vec
  BY <1>2
<1>3. ASSUME NEW t \in Server, Start(t)
      PROVE  Goal
  BY <1>1, <1>3 DEF Start, LogInv, NeverStarted
<1>4. ASSUME NEW t \in Server, NEW v \in Value, AddLog(t, v)
      PROVE  Goal
  <2>1. NewEntry(Len(log_vec[t]), term[t], v) \in Entry
    BY <1>1 DEF NewEntry, Entry
  <2> QED  BY <1>1, <1>4, <2>1 DEF AddLog
<1>5. ASSUME NEW t \in Server, ToLeader(t)
      PROVE  Goal
  <2>1. NewEntry(Len(log_vec[t]), term[t], t) \in Entry
    BY <1>1 DEF NewEntry, Entry
  <2> QED  BY <1>1, <1>5, <2>1 DEF ToLeader
<1>6. ASSUME NEW m \in Task, RequestAppendEntries(m)
      PROVE  Goal
  <2>1. m \in AppendEntriesArgs /\ m.to \in Server
    BY <1>6, TaskKind DEF RequestAppendEntries
  <2>2. CASE AppendEntries(m, m.to)
    <3>1. log_vec' = [log_vec EXCEPT ![m.to] = Overwrite(log_vec[m.to], m)]
      BY <2>2 DEF AppendEntries
    <3>2. ~is_stop[m.to]
      BY <1>6 DEF RequestAppendEntries
    <3> QED  BY <1>1, <2>1, <2>2, <3>1, <3>2
  <2>3. CASE ~AppendEntries(m, m.to)
    <3>1. log_vec' = log_vec
      BY <1>6, <2>3 DEF RequestAppendEntries, StaleLeader, Heartbeat, KeepEntries,
                        RefuseEntries, logVars
    <3> QED  BY <3>1
  <2> QED  BY <2>2, <2>3
<1>7. ASSUME NEW m \in DOMAIN tasks, Handle(m)
      PROVE  Goal
  <2>1. m \in Task
    BY DEF LogInv, TypeOK
  <2>2. CASE RequestAppendEntries(m)
    BY <1>6, <2>1, <2>2
  <2>3. CASE ReplyVote(m)
    <3>1. ToLeader(m.to) \/ log_vec' = log_vec
      BY <2>3 DEF ReplyVote, CountVote, logVars
    <3> QED  BY <1>2, <1>5, <2>1, <3>1, TaskKind
  <2>4. CASE Dropped(m) \/ RequestVote(m) \/ ReplyAppendEntries(m)
    BY <1>2, <2>4 DEF Dropped, RequestVote, ReplyAppendEntries, logVars
  <2> QED  BY <1>7, <2>2, <2>3, <2>4 DEF Handle
<1>8. ASSUME NEW t \in Server, Update(t) \/ Election(t)
      PROVE  Goal
  <2>1. log_vec' = log_vec
    BY <1>8 DEF Update, UpdateLeader, UpdateCandidate, UpdateFollower, UpdateTimeout,
                CommitAndApply, Election, ElectionBreak, ElectionRound, logVars
  <2> QED  BY <2>1
<1>9. ASSUME NEW t \in Server, Stop(t) \/ ReStart(t)
      PROVE  Goal
  <2>1. log_vec' = log_vec
    BY <1>9 DEF Stop, ReStart, logVars
  <2> QED  BY <2>1
<1>10. CASE UNCHANGED vars
  BY <1>10 DEF vars, logVars
<1>11. CASE Environment
  BY <1>3, <1>4, <1>9, <1>11 DEF Environment
<1>12. CASE Next
  BY <1>7, <1>8, <1>11, <1>12 DEF Next
<1> QED  BY <1>10, <1>12

\* A request that overwrites a log goes beyond what its server has committed.
LEMMA OverwriteBeyondCommit ==
    ASSUME LogInv, NEW s \in Server, NEW m \in AppendEntriesArgs, AppendEntries(m, s)
    PROVE  commit_index[s] < Len(log_vec'[s])
<1>1. log_vec[s] \in Seq(Entry) /\ commit_index[s] \in Nat
  BY DEF LogInv, TypeOK
<1>2. /\ ~AlreadyCommitted(m, s)
      /\ m.pre_log_index >= 0 => HoldsPre(m, log_vec[s])
      /\ log_vec'[s] = Overwrite(log_vec[s], m)
  BY DEF AppendEntries, LogInv, TypeOK
<1>3. /\ m.pre_log_index \in Nat \cup {-1}
      /\ m.log_vec \in Seq(Entry)
      /\ Len(m.log_vec) \in Nat
  BY LenProperties DEF AppendEntriesArgs
<1>4. commit_index[s] < m.pre_log_index + Len(m.log_vec)
  BY <1>1, <1>2, <1>3 DEF AlreadyCommitted
<1> DEFINE kept == SubSeq(log_vec[s], 1, m.pre_log_index + 1)
<1>5. kept \in Seq(Entry) /\ Len(kept) = m.pre_log_index + 1
  BY <1>1, <1>2, OverwriteType
<1> HIDE DEF kept
<1>6. Len(kept \o m.log_vec) = Len(kept) + Len(m.log_vec)
  BY <1>3, <1>5, ConcatProperties
<1>7. Len(log_vec'[s]) = m.pre_log_index + 1 + Len(m.log_vec)
  BY <1>2, <1>5, <1>6 DEF Overwrite, kept
<1> QED  BY <1>1, <1>3, <1>4, <1>7

\* No request cuts a log to or below what its server has committed.
LEMMA CommittedNotTruncatedStep ==
    ASSUME LogInv, [Next]_vars, NEW s \in Server, commit_index[s] < Len(log_vec[s])
    PROVE  commit_index[s] < Len(log_vec'[s])
<1>1. log_vec[s] \in Seq(Entry) /\ commit_index[s] \in Nat /\ Len(log_vec[s]) \in Nat
  BY LenProperties DEF LogInv, TypeOK
<1>2. CASE log_vec'[s] = log_vec[s]
  BY <1>2
<1>3. CASE log_vec[s] = <<>>
  BY <1>1, <1>3
<1>4. ASSUME NEW e \in Entry, log_vec'[s] = Append(log_vec[s], e)
      PROVE  commit_index[s] < Len(log_vec'[s])
  BY <1>1, <1>4, AppendProperties
<1>5. ASSUME NEW m \in AppendEntriesArgs, AppendEntries(m, s)
      PROVE  commit_index[s] < Len(log_vec'[s])
  BY <1>5, OverwriteBeyondCommit
<1> QED  BY <1>2, <1>3, <1>4, <1>5, LogStep

\* Stale, repeated and reordered requests included, a server never loses the
\* positions it has committed; what is in them is another matter.
THEOREM CommittedNotTruncatedHolds == Spec => CommittedNotTruncated
<1>1. LogInv /\ [Next]_vars =>
          [\A s \in Server :
              commit_index[s] < Len(log_vec[s]) => commit_index[s] < Len(log_vec'[s])]_vars
  BY CommittedNotTruncatedStep
<1> QED  BY <1>1, LogInvHolds, PTL DEF Spec, CommittedNotTruncated

\* A server that is a leader before and after a step only appends: a request
\* that would overwrite its log first turns it into a follower.
LEMMA LeaderAppendOnlyStep ==
    ASSUME LogInv, [Next]_vars, NEW s \in Server,
           state[s] = "Leader", state'[s] = "Leader"
    PROVE  Prefix(log_vec[s], log_vec'[s])
<1>1. log_vec[s] \in Seq(Entry) /\ Len(log_vec[s]) \in Nat
  BY LenProperties DEF LogInv, TypeOK
<1>2. CASE log_vec'[s] = log_vec[s]
  BY <1>1, <1>2 DEF Prefix
<1>3. log_vec[s] # <<>>
  BY DEF LogInv, LogIndexed
<1>4. ASSUME NEW e \in Entry, log_vec'[s] = Append(log_vec[s], e)
      PROVE  Prefix(log_vec[s], log_vec'[s])
  BY <1>1, <1>4, AppendProperties DEF Prefix
<1>5. ASSUME NEW m \in AppendEntriesArgs, AppendEntries(m, s)
      PROVE  FALSE
  <2>1. state' = [state EXCEPT ![s] = "Folower"]
    BY <1>5 DEF AppendEntries, FollowLeader, ToFollower
  <2> QED  BY <2>1 DEF LogInv, TypeOK
<1> QED  BY <1>2, <1>3, <1>4, <1>5, LogStep

\* A leader's own log only grows, whoever else believes to be the leader.
THEOREM LeaderAppendOnlyHolds == Spec => LeaderAppendOnly
<1>1. LogInv /\ [Next]_vars =>
          [\A s \in Server : state[s] = "Leader" /\ state'[s] = "Leader"
              => Prefix(log_vec[s], log_vec'[s])]_vars
  BY LeaderAppendOnlyStep
<1> QED  BY <1>1, LogInvHolds, PTL DEF Spec, LeaderAppendOnly

=============================================================================
