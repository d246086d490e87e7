----------------------------- MODULE RaftTimed ------------------------------
(***************************************************************************)
(* The Raft servers on an idle machine, where their timing works as meant. *)
(*                                                                         *)
(* Nothing in raft.cc forces an order on the tasks, but the constants of   *)
(* the code do suggest one: every server ticks each 300 ms and an Election *)
(* loop sleeps 100 to 300 ms, while a task on an idle pool of 100 threads  *)
(* runs at once.  This module adds these two assumptions to module Raft:   *)
(*   prompt tasks: no tick and no Election wake-up while a task is pending *)
(*                 (the tasks themselves still run in any order);          *)
(*   equal timers: in one 300 ms period every started server ticks once,   *)
(*                 in any order, a stopped one too (without effect).       *)
(***************************************************************************)
EXTENDS RaftProperties

CONSTANT MaxStops  \* bound: how often servers are stopped in all

ASSUME MaxStopsAssumption == MaxStops \in Nat

VARIABLES
    ticked,        \* the servers whose timer has fired in this period
    stops          \* how often servers have been stopped

timedVars == <<vars, ticked, stops>>

Idle == tasks = EmptyBag
AllStarted == \A s \in Server : state[s] # "None"

TimedInit == Init /\ ticked = {} /\ stops = 0

\* The period ends when the last server has ticked.
Fire(s) ==
    /\ AllStarted
    /\ Idle
    /\ s \notin ticked
    /\ ticked' = IF ticked \cup {s} = Server THEN {} ELSE ticked \cup {s}

Tick(s) == Fire(s) /\ Update(s) /\ UNCHANGED stops

\* The stopped server's loop continues to the next iteration.
StoppedTick(s) == Fire(s) /\ is_stop[s] /\ UNCHANGED <<vars, stops>>

Wake(s) == Idle /\ Election(s) /\ UNCHANGED <<ticked, stops>>

RunTask == (\E m \in DOMAIN tasks : Handle(m)) /\ UNCHANGED <<ticked, stops>>

StartUp(s) == Start(s) /\ UNCHANGED <<ticked, stops>>

Crash(s) ==
    /\ stops < MaxStops
    /\ Stop(s)
    /\ stops' = stops + 1
    /\ UNCHANGED ticked

Recover(s) == ReStart(s) /\ UNCHANGED <<ticked, stops>>

ClientCall(s, v) == AddLog(s, v) /\ UNCHANGED <<ticked, stops>>

TimedNext ==
    \/ \E s \in Server : StartUp(s) \/ Crash(s) \/ Recover(s)
    \/ \E s \in Server, v \in Value : ClientCall(s, v)
    \/ \E s \in Server : Tick(s) \/ StoppedTick(s) \/ Wake(s)
    \/ RunTask

TimedSpec == TimedInit /\ [][TimedNext]_timedVars

\* The test starts every server, a timer fires again and again, an Election
\* loop wakes up after its sleep, and a free thread of the pool takes a task.
\* Clients and the calls of Stop and ReStart owe nothing.
Fairness ==
    /\ \A s \in Server : /\ WF_timedVars(StartUp(s))
                         /\ WF_timedVars(Tick(s) \/ StoppedTick(s))
                         /\ WF_timedVars(Wake(s))
    /\ WF_timedVars(RunTask)

FairTimedSpec == TimedSpec /\ Fairness

-----------------------------------------------------------------------------
\* The candidates that no Election loop will ask for votes again.
Stuck == {s \in Server : state[s] = "Candidate" /\ elections[s] = 0}

\* A candidate goes on asking for votes (README.md:50), over split votes and answers of all
\* kinds, unless it was stopped: a loop that wakes up in a stopped server ends, and ReStart
\* begins no other (raft.cc:102-121, 216).  Each stop costs one candidate its loop at most, and
\* nothing else does.
StuckOnlyByStops == Cardinality(Stuck) <= stops

\* The strengthening of StuckOnlyByStops that every step preserves: a server that is stopped
\* may get stuck.
Hit == {s \in Server : state[s] # "None" /\ (is_stop[s] \/ s \in Stuck)}
StuckInv == TypeOK /\ stops \in Nat /\ Cardinality(Hit) <= stops

-----------------------------------------------------------------------------
Leads(s) == state[s] = "Leader" /\ ~is_stop[s]

\* A leader is elected and, while nobody stops, leads ever after, all others
\* following it (README.md:36: it stays leader until it crashes).
LeaderForGood ==
    <>[](\E s \in Server :
            /\ Leads(s)
            /\ \A t \in Server \ {s} : state[t] = "Folower" /\ term[t] = term[s])

\* What a client added is in the end committed and applied on every server, at
\* the same position: the leader repeats its requests until all servers hold
\* all entries (README.md:63), and every commit reaches every follower.
EveryEntryApplied ==
    \A s \in Server : \A i \in 1..MaxLog - 1 :
        (Leads(s) /\ Len(log_vec[s]) > i)
            ~> (\A t \in Server :
                    /\ commit_index[t] >= i
                    /\ At(log_vec[t], i) = At(log_vec[s], i)
                    /\ At(log_vec[t], i).content \in Value => i \in ApplyLogVec(t))

=============================================================================
