---------------------------- MODULE LockFreeMap ----------------------------
(***************************************************************************)
(* LockFreeMap (src/common/collect_utils.cppm): buckets of linked nodes, a *)
(* lock for each bucket, and a table that doubles when it is full.         *)
(*                                                                         *)
(* insert and remove lock their bucket; find locks nothing; resize locks   *)
(* only out other resizes.  A step is what another thread can see at once: *)
(* an atomic operation, a store to a node, or what is done under a lock    *)
(* that everybody who looks takes.  A value is named by the node that      *)
(* holds it, and a node is never used again.                               *)
(*                                                                         *)
(* A thread that touches a deleted node, or a bucket of a table that has   *)
(* been replaced, is undefined behaviour.  NoStaleAccess says that no      *)
(* thread is about to; the model goes on with the old contents, which      *)
(* means nothing after that.  Usages gives the ways the map is used.       *)
(***************************************************************************)
EXTENDS NodeChain, SequencesExt

CONSTANTS
    Caller, NoCaller,   \* the threads; the holder of a mutex that is free
    Key,
    hasher,             \* the hash of each key
    MaxNodes,           \* bound: the nodes there is memory for
    Usages              \* who calls what, for which keys, on a map of how many buckets
                        \* (and, a bound, how many nodes at most)

GROW_THRESHOLD == 4
Node == 1..MaxNodes
Null == 0

ASSUME CallerAssumption == NoCaller \notin Caller
ASSUME MapAssumption == Key # {} /\ hasher \in [Key -> Nat] /\ MaxNodes \in Nat
ASSUME UsagesAssumption ==
    \A u \in Usages : /\ u.callers \subseteq Caller /\ u.keys \subseteq Key
                      /\ u.buckets \in Nat \ {0} /\ u.nodes \in 0..MaxNodes
                      /\ u.calls \subseteq {"insert", "find", "remove", "clear"}

VARIABLES
    usage,          \* the one of Usages this map has
    table,          \* table[i]: head, tail and the holder of bucket_mutex
    new_table,      \* resize's local table
    tables,         \* how many tables there have been
    num_elements,
    resize_mutex,
    node,           \* the heap
    call            \* call[c]: where a thread is, and its local variables

mapVars == <<usage, table, new_table, tables, num_elements, resize_mutex, node, call>>

Bucket == [head |-> Null, tail |-> Null, mutex |-> NoCaller]
NewTable(n) == [i \in 0..n - 1 |-> Bucket]
Size(tbl) == Cardinality(DOMAIN tbl)
IndexIn(tbl, k) == hasher[k] % Size(tbl)

\* mine is the node the call inserts, is at, or deletes; of is the table bucket belongs to.
Idle == [at |-> "out", key |-> CHOOSE k \in Key : TRUE, mine |-> Null, old_tail |-> Null,
         bucket |-> 0, of |-> 0, sure |-> FALSE]

NoNode == [state |-> "unused", key |-> Idle.key, next |-> Null]

MapInit ==
    /\ usage \in Usages
    /\ table = NewTable(usage.buckets)
    /\ new_table = NewTable(0)
    /\ tables = 1
    /\ num_elements = 0
    /\ resize_mutex = NoCaller
    /\ node = [n \in Node |-> NoNode]
    /\ call = [c \in Caller |-> Idle]

-----------------------------------------------------------------------------
Chain(h, first) == Path([n \in Node |-> h[n].next], first, Null)

\* A slip: the next pointer of a moved node still leads into its old bucket.
RehashKeepsNext(moved, n) ==
    LET i == IndexIn(moved.tbl, moved.heap[n].key)
        tail == moved.tbl[i].tail
    IN  [tbl |-> [moved.tbl EXCEPT ![i].head = IF tail # Null THEN @ ELSE n, ![i].tail = n],
         heap |-> IF tail # Null THEN [moved.heap EXCEPT ![tail].next = n] ELSE moved.heap]

\* One node moved by resize: to the end of its bucket of the new table.
Rehash(moved, n) ==
    LET i == IndexIn(moved.tbl, moved.heap[n].key)
        tail == moved.tbl[i].tail
        linked == IF tail # Null THEN [moved.heap EXCEPT ![tail].next = n] ELSE moved.heap
    IN  [tbl |-> [moved.tbl EXCEPT ![i].head = IF tail # Null THEN @ ELSE n, ![i].tail = n],
         heap |-> [linked EXCEPT ![n].next = Null]]

InTableOrder ==
    FlattenSeq([i \in 1..Size(table) |-> Chain(node, table[i - 1].head)])

At(c, place) == call[c].at = place
To(c, place) == call' = [call EXCEPT ![c].at = place]
Returns(c) == call' = [call EXCEPT ![c] = Idle]
Mine(places) == {call[c].mine : c \in {d \in Caller : call[d].at \in places}}

\* The nodes of k whose insert has returned and that no remove has taken out.
Present(k) ==
    {n \in Node : node[n].state = "live" /\ node[n].key = k} \ Mine({"exchange", "link", "delete"})

\* index and bucket, taken before the bucket is locked.
TakesBucket(c, k, place, mine, sure) ==
    call' = [call EXCEPT ![c] = [at |-> place, key |-> k, mine |-> mine, old_tail |-> Null,
                                 bucket |-> IndexIn(table, k), of |-> tables, sure |-> sure]]

Unlocked(c) == table[call[c].bucket].mutex = NoCaller

-----------------------------------------------------------------------------
Calls(c, what) == At(c, "out") /\ what \in usage.calls

\* insert tests the size before it does anything else, without a lock.
TestSize(c, k) ==
    /\ Calls(c, "insert") /\ \E n \in 1..usage.nodes : node[n].state = "unused"
    /\ call' = [call EXCEPT ![c].key = k, ![c].at =
                    IF num_elements >= GROW_THRESHOLD * Size(table) THEN "resize" ELSE "index"]
    /\ UNCHANGED <<usage, table, new_table, tables, num_elements, resize_mutex, node>>

\* resize up to the move of the table: all nodes go to the new one.
ResizeCopy(c) ==
    /\ At(c, "resize") /\ resize_mutex = NoCaller
    /\ resize_mutex' = c
    /\ LET moved == FoldLeft(Rehash, [tbl |-> NewTable(2 * Size(table)), heap |-> node], InTableOrder)
       IN  new_table' = moved.tbl /\ node' = moved.heap
    /\ To(c, "move")
    /\ UNCHANGED <<usage, table, tables, num_elements>>

ResizeMove(c) ==
    /\ At(c, "move")
    /\ table' = new_table
    /\ new_table' = NewTable(0)
    /\ tables' = tables + 1
    /\ resize_mutex' = NoCaller
    /\ To(c, "index")
    /\ UNCHANGED <<usage, num_elements, node>>

NewNode(c) ==
    /\ At(c, "index")
    /\ \E n \in Node :
           /\ node[n].state = "unused" /\ \A m \in 1..n - 1 : node[m].state # "unused"
           /\ node' = [node EXCEPT ![n] = [state |-> "live", key |-> call[c].key, next |-> Null]]
           /\ TakesBucket(c, call[c].key, "exchange", n, FALSE)
    /\ UNCHANGED <<usage, table, new_table, tables, num_elements, resize_mutex>>

\* A slip: the exchange without the lock.
ExchangeTailUnlocked(c) ==
    /\ At(c, "exchange")
    /\ table' = [table EXCEPT ![call[c].bucket].tail = call[c].mine]
    /\ call' = [call EXCEPT ![c].at = "link", ![c].old_tail = table[call[c].bucket].tail]
    /\ UNCHANGED <<usage, new_table, tables, num_elements, resize_mutex, node>>

\* The lock of the bucket, and tail.exchange.
ExchangeTail(c) ==
    /\ At(c, "exchange") /\ Unlocked(c)
    /\ table' = [table EXCEPT ![call[c].bucket].mutex = c, ![call[c].bucket].tail = call[c].mine]
    /\ call' = [call EXCEPT ![c].at = "link", ![c].old_tail = table[call[c].bucket].tail]
    /\ UNCHANGED <<usage, new_table, tables, num_elements, resize_mutex, node>>

\* A slip: the node becomes the head of a bucket that has one.
LinkNodeAsHead(c) ==
    /\ At(c, "link")
    /\ table' = [table EXCEPT ![call[c].bucket].mutex = NoCaller,
                              ![call[c].bucket].head = call[c].mine]
    /\ num_elements' = num_elements + 1
    /\ Returns(c)
    /\ UNCHANGED <<usage, new_table, tables, resize_mutex, node>>

\* The node is reached from its bucket now.  A find sees it before it is counted and the
\* lock is gone, which is no matter: nobody compares the two.
LinkNode(c) ==
    /\ At(c, "link")
    /\ LET n == call[c].mine  old == call[c].old_tail
       IN  /\ node' = IF old # Null THEN [node EXCEPT ![old].next = n] ELSE node
           /\ table' = [table EXCEPT ![call[c].bucket].mutex = NoCaller,
                                     ![call[c].bucket].head = IF old # Null THEN @ ELSE n]
    /\ num_elements' = num_elements + 1
    /\ Returns(c)
    /\ UNCHANGED <<usage, new_table, tables, resize_mutex>>

\* sure remembers whether find must find the key: an insert of it has returned.
FindHead(c, k) ==
    /\ Calls(c, "find")
    /\ TakesBucket(c, k, "walk", table[IndexIn(table, k)].head, Present(k) # {})
    /\ UNCHANGED <<usage, table, new_table, tables, num_elements, resize_mutex, node>>

\* One round of find's loop, or its end.
Walk(c) ==
    /\ At(c, "walk")
    /\ LET n == call[c].mine
       IN  IF n # Null /\ node[n].key # call[c].key
           THEN call' = [call EXCEPT ![c].mine = node[n].next]
           ELSE Returns(c)
    /\ UNCHANGED <<usage, table, new_table, tables, num_elements, resize_mutex, node>>

RemoveIndex(c, k) ==
    /\ Calls(c, "remove")
    /\ TakesBucket(c, k, "unlink", Null, FALSE)
    /\ UNCHANGED <<usage, table, new_table, tables, num_elements, resize_mutex, node>>

NotThere(c) ==
    /\ At(c, "unlink") /\ Unlocked(c)
    /\ LET path == Chain(node, table[call[c].bucket].head)
       IN  \A i \in DOMAIN path : node[path[i]].key # call[c].key
    /\ Returns(c)
    /\ UNCHANGED <<usage, table, new_table, tables, num_elements, resize_mutex, node>>

\* A slip: the tail is left on the node that goes.
UnlinkKeepsTail(c) ==
    /\ At(c, "unlink") /\ Unlocked(c)
    /\ LET b == call[c].bucket
           path == Chain(node, table[b].head)
       IN  \E i \in DOMAIN path :
               /\ node[path[i]].key = call[c].key
               /\ \A j \in 1..i - 1 : node[path[j]].key # call[c].key
               /\ call' = [call EXCEPT ![c].at = "delete", ![c].mine = path[i]]
               /\ IF i = 1
                  THEN /\ table' = [table EXCEPT ![b].mutex = c, ![b].head = node[path[1]].next]
                       /\ node' = node
                  ELSE /\ table' = [table EXCEPT ![b].mutex = c]
                       /\ node' = [node EXCEPT ![path[i - 1]].next = node[path[i]].next]
    /\ UNCHANGED <<usage, new_table, tables, num_elements, resize_mutex>>

\* remove finds the first node of its key and takes it out.
Unlink(c) ==
    /\ At(c, "unlink") /\ Unlocked(c)
    /\ LET b == call[c].bucket
           path == Chain(node, table[b].head)
       IN  \E i \in DOMAIN path :
               LET n == path[i]
                   prev == IF i = 1 THEN Null ELSE path[i - 1]
               IN  /\ node[n].key = call[c].key
                   /\ \A j \in 1..i - 1 : node[path[j]].key # call[c].key
                   /\ call' = [call EXCEPT ![c].at = "delete", ![c].mine = n]
                   /\ table' = [table EXCEPT
                          ![b].mutex = c,
                          ![b].head = IF prev = Null THEN node[n].next ELSE @,
                          ![b].tail = IF @ = n THEN prev ELSE @]
                   /\ node' = IF prev = Null THEN node ELSE [node EXCEPT ![prev].next = node[n].next]
    /\ UNCHANGED <<usage, new_table, tables, num_elements, resize_mutex>>

Delete(c) ==
    /\ At(c, "delete")
    /\ node' = [node EXCEPT ![call[c].mine] = [NoNode EXCEPT !.state = "deleted"]]
    /\ num_elements' = num_elements - 1
    /\ table' = [table EXCEPT ![call[c].bucket].mutex = NoCaller]
    /\ Returns(c)
    /\ UNCHANGED <<usage, new_table, tables, resize_mutex>>

\* clear, by the only thread that uses the map, or the last one.
Clear(c) ==
    /\ Calls(c, "clear")
    /\ node' = [n \in Node |-> IF n \in ToSet(InTableOrder) THEN [NoNode EXCEPT !.state = "deleted"]
                              ELSE node[n]]
    /\ table' = [i \in DOMAIN table |-> [table[i] EXCEPT !.head = Null, !.tail = Null]]
    /\ num_elements' = 0
    /\ UNCHANGED <<usage, new_table, tables, resize_mutex, call>>

MapNext ==
    \E c \in usage.callers :
        \/ \E k \in usage.keys : TestSize(c, k) \/ FindHead(c, k) \/ RemoveIndex(c, k)
        \/ ResizeCopy(c) \/ ResizeMove(c) \/ NewNode(c) \/ ExchangeTail(c) \/ LinkNode(c)
        \/ Walk(c)
        \/ NotThere(c) \/ Unlink(c) \/ Delete(c) \/ Clear(c)

MapSpec == MapInit /\ [][MapNext]_mapVars

-----------------------------------------------------------------------------
\* The table the nodes are in: resize's own between its loop and the move of the table.
Current == IF resize_mutex = NoCaller THEN table ELSE new_table

ChainOf(i) == Chain(node, Current[i].head)
Linked == UNION {ToSet(ChainOf(i)) : i \in DOMAIN Current}

\* When nobody has its lock, a bucket is a chain of nodes that hash to it, each once, and
\* its tail is the last; every node that was made and not deleted is in one chain or in the
\* hands of one call: none leaks, none is in two places (Bucket's comment, line 172).
ChainsWhole ==
    /\ \A i \in DOMAIN Current :
           LET path == ChainOf(i)
           IN  /\ IsInjective(path)
               /\ \A n \in ToSet(path) : node[n].state = "live" /\ IndexIn(Current, node[n].key) = i
               /\ Current[i].mutex = NoCaller => Current[i].tail = IF path = <<>> THEN Null ELSE Last(path)
    /\ {n \in Node : node[n].state = "live"} \ Linked
           = Mine({"exchange", "link", "delete"})

\* No thread is about to touch a deleted node, or a bucket of a table that is gone.
NoStaleAccess ==
    \A c \in Caller :
        /\ call[c].at \in {"exchange", "link", "walk", "unlink", "delete"} => call[c].of = tables
        /\ At(c, "walk") /\ call[c].mine # Null => node[call[c].mine].state = "live"
        /\ At(c, "link") /\ call[c].old_tail # Null => node[call[c].old_tail].state = "live"

\* A find does not miss a key whose insert had returned when the find began, though the find
\* takes no lock (where nothing is removed meanwhile).
FindSees == \A c \in Caller : At(c, "walk") /\ call[c].mine = Null => ~call[c].sure

\* The map is a multimap: two inserts of one key add two elements, a remove takes one.
Contents == LET linked == Linked IN [k \in Key |-> {n \in linked : node[n].key = k}]
AbstractMap == INSTANCE Multimap WITH Element <- Node, contents <- Contents
ImplementsMap == AbstractMap!Spec
=============================================================================
