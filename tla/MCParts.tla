------------------------------ MODULE MCParts ------------------------------
(***************************************************************************)
(* The smaller parts for TLC, one in each behaviour: they share nothing in *)
(* the code, and here their state spaces are added, not multiplied.        *)
(***************************************************************************)
EXTENDS ReadWriteLock, SpinLock, Semaphore, LockFreeMap, LockFreeList, SlotStore,
        TaskPool, ObjFactory, DetachBlocks, RedisCommand, StringUtil

CONSTANT Parts     \* the parts a run looks at

VARIABLE chosen    \* the part of this behaviour

\* A part that is not chosen has one initial state.
Init ==
    /\ chosen \in Parts
    /\ chosen # "map" => usage = CHOOSE u \in Usages : TRUE
    /\ chosen # "list" => mode = CHOOSE m \in ListUsages : TRUE
    /\ chosen # "blocks" => range = <<0, 0>> /\ wanted = 1
    /\ chosen # "request" => request = CHOOSE r \in ConnectionRequests : TRUE
    /\ chosen # "string" => str = <<>> /\ token = <<>>
    /\ chosen # "spin" => flavour = "spin_mutex"
    /\ LockInit /\ SpinInit /\ SemInit /\ MapInit /\ ListInit /\ SlotInit
    /\ PoolInit /\ FactoryInit /\ LoopInit /\ RequestInit /\ StringInit

Next ==
    /\ UNCHANGED chosen
    /\ IF chosen = "lock" THEN LockNext ELSE UNCHANGED lockVars
    /\ IF chosen = "spin" THEN SpinNext ELSE UNCHANGED spinVars
    /\ IF chosen = "semaphore" THEN SemNext ELSE UNCHANGED semVars
    /\ IF chosen = "map" THEN MapNext ELSE UNCHANGED mapVars
    /\ IF chosen = "list" THEN ListNext ELSE UNCHANGED listVars
    /\ IF chosen = "slot" THEN SlotNext ELSE UNCHANGED slotVars
    /\ IF chosen = "pool" THEN PoolNext ELSE UNCHANGED poolVars
    /\ IF chosen = "factory" THEN FactoryNext ELSE UNCHANGED factoryVars
    /\ IF chosen = "blocks" THEN DetachBlock ELSE UNCHANGED loopVars
    /\ IF chosen = "request" THEN Generate ELSE UNCHANGED requestVars
    /\ IF chosen = "string" THEN StrtokRound ELSE UNCHANGED stringVars

\* What a part that is not chosen waits for never holds in it.
Spec ==
    /\ Init /\ [][Next]_<<chosen, lockVars, spinVars, semVars, mapVars, listVars, slotVars,
                         poolVars, factoryVars, loopVars, requestVars, stringVars>>
    /\ LockFairness /\ SemFairness
    /\ chosen = "pool" => PoolFairness

\* a and c are in one bucket of two, b is in the other.
HashOfKey == [k \in {"a", "b", "c"} |-> CASE k = "a" -> 0 [] k = "b" -> 1 [] k = "c" -> 2]

\* Inserts and removes, inserts and finds, and everything by one thread until the table grows.
MapUsages ==
    {[callers |-> {"t1", "t2"}, calls |-> {"insert", "remove"}, keys |-> {"a", "c"},
      buckets |-> 2, nodes |-> 3],
     [callers |-> {"t1", "t2"}, calls |-> {"insert", "find"}, keys |-> {"a", "c"},
      buckets |-> 2, nodes |-> 3],
     [callers |-> {"t1"}, calls |-> {"insert", "find", "remove", "clear"}, keys |-> {"a", "b"},
      buckets |-> 1, nodes |-> 5]}

PushOrAlone ==
    {[callers |-> {"t1", "t2", "t3"}, calls |-> {"insert"}],
     [callers |-> {"t1"}, calls |-> {"insert", "remove"}]}

SmallNumbers == -1..1

SmallIndices == -3..8

\* A separator, a letter in both cases, and a character as far from the separator as they are.
FewChars == {64, 65, 96, 97}

\* Nothing, a byte, and a line end.
SmallTexts == {<<>>, <<Byte("x")>>, CRLF}
=============================================================================
