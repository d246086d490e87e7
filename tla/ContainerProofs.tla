--------------------------- MODULE ContainerProofs ---------------------------
(***************************************************************************)
(* The containers, for all threads and keys, any hash and any number of    *)
(* buckets and nodes.                                                      *)
(***************************************************************************)
EXTENDS LockFreeMap, LockFreeList, FiniteSetTheorems, WellFoundedInduction, TLAPS

-----------------------------------------------------------------------------
\* Numbers: a set of them has a least one, and induction in the form of a set.

LEMMA Least ==
  ASSUME NEW S \in SUBSET Nat, S # {}
  PROVE  \E m \in S : \A k \in S : m <= k
<1> DEFINE R == OpToRel(<, Nat)
<1>1. IsWellFoundedOn(R, Nat)
  BY NatLessThanWellFounded
<1>2. R = {ss \in Nat \X Nat : ss[1] < ss[2]}
  BY DEF OpToRel
<1> HIDE DEF R
<1>3. \E m \in S : \A k \in S : ~(<<k, m>> \in R)
  BY <1>1, WFMin
<1>4. \A k, m \in S : <<k, m>> \notin R => m <= k
  BY <1>2
<1> QED BY <1>3, <1>4

LEMMA SetInduction ==
  ASSUME NEW S, 0 \in S, \A n \in Nat : n \in S => n + 1 \in S
  PROVE  Nat \subseteq S
<1> SUFFICES ASSUME Nat \ S # {} PROVE FALSE OBVIOUS
<1>1. PICK m \in Nat \ S : \A k \in Nat \ S : m <= k
  BY Least
<1>2. m # 0 /\ m - 1 \in Nat /\ m - 1 \notin Nat \ S
  BY <1>1
<1> QED BY <1>1, <1>2

-----------------------------------------------------------------------------
\* p lists the nodes from first on, each once, and ends where next is null.
Follows(p, next, first, null) ==
    /\ p \in Seq(DOMAIN next)
    /\ \A i, j \in 1..Len(p) : p[i] = p[j] => i = j
    /\ first = IF p = <<>> THEN null ELSE p[1]
    /\ \A i \in 1..Len(p) : next[p[i]] = IF i = Len(p) THEN null ELSE p[i + 1]

LEMMA PathIs ==
  ASSUME NEW N, IsFiniteSet(N), NEW null, null \notin N, NEW next \in [N -> N \cup {null}],
         NEW first, NEW p, Follows(p, next, first, null)
  PROVE  Path(next, first, null) = p
<1> DEFINE size == Cardinality(N)
           onward == [n \in DOMAIN next \cup {null} |-> IF n = null THEN null ELSE next[n]]
           After(f) == f = [i \in 0..size |-> IF i = 0 THEN first ELSE onward[f[i - 1]]]
           w == CHOOSE f : After(f)
           Nth(i) == IF i < Len(p) THEN p[i + 1] ELSE null
<1>1. size \in Nat /\ DOMAIN next = N
  BY FS_CardinalityType
<1>2. Path(next, first, null)
        = [i \in 1..Cardinality({j \in 1..size : w[j - 1] # null}) |-> w[i - 1]]
  BY <1>1 DEF Path
<1>3. /\ p \in Seq(N) /\ Len(p) \in Nat /\ \A i \in 1..Len(p) : p[i] \in N
      /\ first = IF p = <<>> THEN null ELSE p[1]
      /\ \A i \in 1..Len(p) : next[p[i]] = IF i = Len(p) THEN null ELSE p[i + 1]
  BY <1>1 DEF Follows
<1>4. Len(p) <= size
  <2>1. p \in Injection(1..Len(p), N)
    BY <1>3 DEF Follows, Injection, IsInjective
  <2>2. Cardinality(1..Len(p)) <= size
    BY <2>1, FS_Injection
  <2> QED BY <2>2, <1>3, FS_Interval
<1>5. Nth(0) = first
  BY <1>3
<1>6. \A i \in 1..size : Nth(i) = onward[Nth(i - 1)]
  BY <1>1, <1>3
\* The recursion has a solution, and only one.
<1>7. After(w)
  <2> DEFINE g == [i \in 0..size |-> Nth(i)]
  <2>1. \A i \in 0..size : g[i] = Nth(i)
    OBVIOUS
  <2>2. \A i \in 0..size : i # 0 => i - 1 \in 0..size /\ i \in 1..size
    BY <1>1
  <2> HIDE DEF g, Nth, onward
  <2>3. \A i \in 0..size : g[i] = IF i = 0 THEN first ELSE onward[g[i - 1]]
    BY <2>1, <2>2, <1>5, <1>6
  <2>4. g = [i \in 0..size |-> g[i]]
    BY DEF g
  <2>5. After(g)
    BY <2>3, <2>4
  <2> HIDE DEF After
  <2> QED BY <2>5
<1>8. \A i \in 0..size : w[i] = IF i = 0 THEN first ELSE onward[w[i - 1]]
  <2> HIDE DEF w
  <2> QED BY <1>7
<1> HIDE DEF w, Nth, onward
<1> DEFINE S == {i \in Nat : i <= size => w[i] = Nth(i)}
<1>9. 0 \in S
  BY <1>1, <1>5, <1>8
<1>10. ASSUME NEW i \in Nat, i \in S PROVE i + 1 \in S
  <2> SUFFICES ASSUME i + 1 <= size PROVE w[i + 1] = Nth(i + 1)
    OBVIOUS
  <2>1. i + 1 \in 1..size /\ i + 1 \in 0..size /\ i + 1 # 0 /\ (i + 1) - 1 = i
    BY <1>1
  <2>2. w[i] = Nth(i)
    BY <1>10, <1>1
  <2> QED BY <2>1, <2>2, <1>6, <1>8
<1>11. \A i \in 0..size : w[i] = Nth(i)
  <2> HIDE DEF S
  <2>1. Nat \subseteq S
    BY <1>9, <1>10, SetInduction
  <2> QED BY <2>1, <1>1 DEF S
<1>12. {j \in 1..size : w[j - 1] # null} = 1..Len(p)
  <2>1. \A j \in 1..size : w[j - 1] # null <=> j <= Len(p)
    <3> TAKE j \in 1..size
    <3>1. w[j - 1] = IF j - 1 < Len(p) THEN p[j] ELSE null
      BY <1>11, <1>1 DEF Nth
    <3> QED BY <3>1, <1>3
  <2> QED BY <2>1, <1>4, <1>3, <1>1
<1>13. Cardinality(1..Len(p)) = Len(p)
  <2>1. 1 \in Int /\ Len(p) \in Int
    BY <1>3
  <2>2. Cardinality(1..Len(p)) = IF 1 > Len(p) THEN 0 ELSE Len(p) - 1 + 1
    BY <2>1, FS_Interval
  <2> QED BY <2>2, <1>3
<1>14. \A i \in 1..Len(p) : w[i - 1] = p[i]
  BY <1>11, <1>4, <1>3, <1>1 DEF Nth
<1>15. Path(next, first, null) = [i \in 1..Len(p) |-> w[i - 1]]
  BY <1>2, <1>12, <1>13
<1>16. p = [i \in 1..Len(p) |-> p[i]]
  BY <1>3
<1> QED BY <1>14, <1>15, <1>16

-----------------------------------------------------------------------------
\* The usages of the theorems: no clear, nodes for which the table need not grow, and no find
\* next to a remove, unless one thread does it all.
Undisturbed(u) ==
    /\ "clear" \notin u.calls
    /\ u.nodes <= GROW_THRESHOLD * u.buckets
    /\ {"find", "remove"} \subseteq u.calls => \A c, d \in u.callers : c = d

UndisturbedSpec == MapSpec /\ Undisturbed(usage)

NextOf(h) == [n \in Node |-> h[n].next]
PathOf(i) == Chain(node, table[i].head)
LastOf(p) == IF p = <<>> THEN Null ELSE p[Len(p)]
InChain(n) == \E i \in DOMAIN table : \E j \in 1..Len(PathOf(i)) : PathOf(i)[j] = n
Owners == {c \in Caller : call[c].at \in {"exchange", "link", "delete"}}
Uncounted == {c \in Caller : call[c].at \in {"exchange", "link"}}
Linking(i) == table[i].mutex # NoCaller /\ call[table[i].mutex].at = "link"

NodeRec == [state : {"unused", "live", "deleted"}, key : Key, next : Node \cup {Null}]
BucketRec == [head : Node \cup {Null}, tail : Node \cup {Null}, mutex : Caller \cup {NoCaller}]
CallRec == [at : {"out", "index", "exchange", "link", "walk", "unlink", "delete"}, key : Key,
            mine : Node \cup {Null}, old_tail : Node \cup {Null}, bucket : Nat, of : Nat,
            sure : BOOLEAN]

MapTypeOK ==
    /\ usage \in Usages /\ Undisturbed(usage)
    /\ table \in [0..usage.buckets - 1 -> BucketRec]
    /\ tables = 1 /\ num_elements \in Int /\ resize_mutex = NoCaller
    /\ node \in [Node -> NodeRec]
    /\ call \in [Caller -> CallRec]

\* A bucket is a chain of its own nodes; its lock is with a call that is changing it; its tail
\* is the last node but while one is being linked.
BucketFits(i) ==
    LET p == PathOf(i)
    IN  /\ Follows(p, NextOf(node), table[i].head, Null)
        /\ \A j \in 1..Len(p) : node[p[j]].state = "live" /\ IndexIn(table, node[p[j]].key) = i
        /\ table[i].mutex # NoCaller =>
               call[table[i].mutex].at \in {"link", "delete"} /\ call[table[i].mutex].bucket = i
        /\ ~Linking(i) => table[i].tail = LastOf(p)

\* A find is at a node of its bucket with, if it must find one, a node of its key ahead.
WalkFits(d) ==
    LET p == PathOf(d.bucket)
    IN  /\ "find" \in usage.calls
        /\ d.mine = Null => ~d.sure
        /\ d.mine # Null => \E j \in 1..Len(p) :
               p[j] = d.mine /\ (d.sure => \E l \in j..Len(p) : node[p[l]].key = d.key)

CallFits(c) ==
    LET d == call[c]
    IN  /\ d.at # "out" => c \in usage.callers
        /\ d.at \notin {"out", "index"} => d.of = 1 /\ d.bucket = IndexIn(table, d.key)
        /\ c \in Owners => /\ d.mine \in Node /\ node[d.mine].state = "live"
                           /\ node[d.mine].key = d.key /\ ~InChain(d.mine)
        /\ c \in Uncounted => node[d.mine].next = Null
        /\ d.at \in {"link", "delete"} => table[d.bucket].mutex = c
        /\ d.at = "link" => table[d.bucket].tail = d.mine /\ d.old_tail = LastOf(PathOf(d.bucket))
        /\ d.at \in {"unlink", "delete"} => "remove" \in usage.calls
        /\ d.at = "walk" => WalkFits(d)

CountedNodes == {n \in Node : node[n].state = "live" /\ \A c \in Uncounted : call[c].mine # n}

\* A live node is in a chain or in the hands of one call, nodes are used in order, and the
\* number of elements is that of the live nodes but those still to be linked.
NodesFit ==
    /\ \A c, d \in Owners : call[c].mine = call[d].mine => c = d
    /\ \A n \in Node : node[n].state = "live" => InChain(n) \/ \E c \in Owners : call[c].mine = n
    /\ \A n \in Node : node[n].state # "unused" => \A m \in 1..n : node[m].state # "unused"
    /\ num_elements = Cardinality(CountedNodes)

MapInv == /\ MapTypeOK
          /\ \A i \in DOMAIN table : BucketFits(i)
          /\ \A c \in Caller : CallFits(c)
          /\ NodesFit

LEMMA NodeFacts ==
  /\ IsFiniteSet(Node) /\ Null \notin Node
  /\ \A S \in SUBSET Node : IsFiniteSet(S)
<1>1. IsFiniteSet(Node)
  BY MapAssumption, FS_Interval DEF Node
<1>2. \A S \in SUBSET Node : IsFiniteSet(S)
  BY <1>1, FS_Subset
<1> QED BY <1>1, <1>2 DEF Node, Null

LEMMA ChainIs ==
  ASSUME NEW h \in [Node -> NodeRec], NEW first, NEW p, Follows(p, NextOf(h), first, Null)
  PROVE  Chain(h, first) = p
<1>1. NextOf(h) \in [Node -> Node \cup {Null}]
  BY DEF NextOf, NodeRec
<1> QED BY <1>1, NodeFacts, PathIs DEF Chain, NextOf

LEMMA Homes ==
  ASSUME MapTypeOK
  PROVE  /\ \A k \in Key : IndexIn(table, k) \in DOMAIN table
         /\ Size(table) = usage.buckets
         /\ usage.buckets \in Nat \ {0} /\ usage.nodes \in 0..MaxNodes
         /\ usage.callers \subseteq Caller /\ usage.keys \subseteq Key
         /\ DOMAIN table \subseteq Nat
<1>1. /\ usage.buckets \in Nat \ {0} /\ usage.nodes \in 0..MaxNodes
      /\ usage.callers \subseteq Caller /\ usage.keys \subseteq Key
  BY UsagesAssumption DEF MapTypeOK
<1>2. DOMAIN table = 0..usage.buckets - 1
  BY DEF MapTypeOK
<1>3. Size(table) = usage.buckets
  <2>1. 0 \in Int /\ usage.buckets - 1 \in Int
    BY <1>1
  <2>2. Cardinality(0..usage.buckets - 1)
          = IF 0 > usage.buckets - 1 THEN 0 ELSE usage.buckets - 1 - 0 + 1
    BY <2>1, FS_Interval
  <2> QED BY <2>2, <1>1, <1>2 DEF Size
<1>4. \A k \in Key : IndexIn(table, k) \in 0..usage.buckets - 1
  BY <1>1, <1>3, MapAssumption DEF IndexIn
<1> QED BY <1>1, <1>2, <1>3, <1>4

\* A chain that starts at the same node and none of whose nodes leads elsewhere is the same.
LEMMA ChainKept ==
  ASSUME MapInv, node' \in [Node -> NodeRec], NEW i \in DOMAIN table,
         table'[i].head = table[i].head,
         \A j \in 1..Len(PathOf(i)) : node'[PathOf(i)[j]].next = node[PathOf(i)[j]].next
  PROVE  PathOf(i)' = PathOf(i) /\ Follows(PathOf(i), NextOf(node'), table'[i].head, Null)
<1> DEFINE p == PathOf(i)
<1>1. Follows(p, NextOf(node), table[i].head, Null) /\ node \in [Node -> NodeRec]
  BY DEF MapInv, MapTypeOK, BucketFits
<1>2. p \in Seq(Node) /\ \A j \in 1..Len(p) : p[j] \in Node /\ InChain(p[j])
  BY <1>1 DEF Follows, NextOf, InChain
<1>3. \A j \in 1..Len(p) : NextOf(node')[p[j]] = NextOf(node)[p[j]]
  BY <1>2 DEF NextOf
<1>4. DOMAIN NextOf(node') = DOMAIN NextOf(node)
  BY DEF NextOf
<1>5. Follows(p, NextOf(node'), table'[i].head, Null)
  BY <1>1, <1>3, <1>4 DEF Follows
<1>6. Chain(node', table'[i].head) = p
  BY <1>5, ChainIs
<1>7. PathOf(i)' = Chain(node', table'[i].head)
  BY DEF PathOf
<1> QED BY <1>5, <1>6, <1>7

\* Each node is in one chain at most, the one of its key.
LEMMA InOneChain ==
  ASSUME MapInv, NEW i \in DOMAIN table, NEW j \in 1..Len(PathOf(i))
  PROVE  /\ PathOf(i) \in Seq(Node) /\ PathOf(i)[j] \in Node /\ InChain(PathOf(i)[j])
         /\ node[PathOf(i)[j]].state = "live" /\ IndexIn(table, node[PathOf(i)[j]].key) = i
BY DEF MapInv, BucketFits, InChain, Follows, NextOf

-----------------------------------------------------------------------------
\* The inductive invariant, action by action.

LEMMA MapInitFits == MapInit /\ Undisturbed(usage) => MapInv
<1> SUFFICES ASSUME MapInit, Undisturbed(usage) PROVE MapInv
  OBVIOUS
<1>0. Idle \in CallRec /\ NoNode \in NodeRec /\ Bucket \in BucketRec
  BY MapAssumption DEF Idle, NoNode, Bucket, CallRec, NodeRec, BucketRec
<1>1. MapTypeOK
  BY <1>0 DEF MapInit, MapTypeOK, NewTable
<1>2. \A n \in Node : node[n].state = "unused"
  BY DEF MapInit, NoNode
<1>3. \A c \in Caller : call[c].at = "out"
  BY DEF MapInit, Idle
<1>4. \A i \in DOMAIN table : table[i] = Bucket
  BY DEF MapInit, NewTable
<1>5. ASSUME NEW i \in DOMAIN table PROVE PathOf(i) = <<>> /\ BucketFits(i)
  <2>1. Follows(<<>>, NextOf(node), Null, Null)
    BY DEF Follows, NextOf
  <2>2. table[i].head = Null /\ table[i].tail = Null /\ table[i].mutex = NoCaller
    BY <1>4 DEF Bucket
  <2>3. PathOf(i) = <<>>
    BY <2>1, <2>2, <1>1, ChainIs DEF PathOf, MapTypeOK
  <2> QED BY <2>1, <2>2, <2>3 DEF BucketFits, Linking, LastOf
<1>6. \A c \in Caller : c \notin Owners /\ c \notin Uncounted
  BY <1>3 DEF Owners, Uncounted
<1>7. \A c \in Caller : CallFits(c)
  BY <1>3, <1>6 DEF CallFits
<1>8. CountedNodes = {} /\ num_elements = 0
  BY <1>2 DEF CountedNodes, MapInit
<1>9. NodesFit
  BY <1>2, <1>6, <1>8, FS_EmptySet DEF NodesFit, Owners
<1> QED BY <1>1, <1>5, <1>7, <1>9 DEF MapInv

\* Steps in which only where one thread is changes, and that thread has no node.
LEMMA OnlyTheCall ==
  ASSUME MapInv, NEW c \in Caller, NEW d \in CallRec,
         UNCHANGED <<usage, table, tables, num_elements, resize_mutex, node>>,
         call' = [call EXCEPT ![c] = d],
         call[c].at \notin {"exchange", "link", "delete"},
         d.at \notin {"exchange", "link", "delete"},
         CallFits(c)'
  PROVE  MapInv'
<1>1. MapTypeOK'
  BY DEF MapInv, MapTypeOK
<1>2. \A b \in Caller : b # c => call'[b] = call[b]
  BY DEF MapInv, MapTypeOK
<1>3. call'[c] = d
  BY DEF MapInv, MapTypeOK
<1>4. Owners' = Owners /\ Uncounted' = Uncounted /\ c \notin Owners /\ c \notin Uncounted
  BY <1>2, <1>3 DEF Owners, Uncounted
<1>5. \A i \in DOMAIN table : PathOf(i)' = PathOf(i)
  BY DEF PathOf
<1>6. \A n : InChain(n)' <=> InChain(n)
  BY <1>5 DEF InChain
<1>7. ASSUME NEW i \in DOMAIN table PROVE BucketFits(i)'
  <2>1. BucketFits(i)
    BY DEF MapInv
  <2>2. table[i].mutex # NoCaller => table[i].mutex \in Caller /\ table[i].mutex # c
    BY <2>1 DEF BucketFits, MapInv, MapTypeOK, BucketRec
  <2>3. Linking(i)' <=> Linking(i)
    BY <2>2, <1>2 DEF Linking
  <2> QED BY <2>1, <2>2, <2>3, <1>2, <1>5 DEF BucketFits
<1>8. ASSUME NEW b \in Caller, b # c PROVE CallFits(b)'
  <2>1. CallFits(b) /\ call[b] \in CallRec
    BY DEF MapInv, MapTypeOK
  <2>2. call[b].at \notin {"out", "index"} => call[b].bucket \in DOMAIN table
    BY <2>1, Homes DEF CallFits, MapInv, CallRec
  <2>3. call[b].at \in {"link", "walk"} => PathOf(call[b].bucket)' = PathOf(call[b].bucket)
    BY <2>2, <1>2, <1>5, <1>8
  <2>4. call[b].at = "walk" => (WalkFits(call[b])' <=> WalkFits(call[b]))
    BY <2>3, <1>2, <1>8 DEF WalkFits
  <2> QED BY <2>1, <2>3, <2>4, <1>2, <1>4, <1>6, <1>8 DEF CallFits
<1>9. CountedNodes' = CountedNodes
  BY <1>2, <1>4 DEF CountedNodes, Uncounted
<1>10. NodesFit'
  <2>1. \A b \in Owners : call'[b] = call[b]
    BY <1>2, <1>4 DEF Owners
  <2>2. NodesFit
    BY DEF MapInv
  <2>3. (\A a, b \in Owners : call[a].mine = call[b].mine => a = b)'
    BY <2>1, <2>2, <1>4 DEF NodesFit
  <2>4. (\A n \in Node : node[n].state = "live" => InChain(n) \/ \E a \in Owners : call[a].mine = n)'
    BY <2>1, <2>2, <1>4, <1>6 DEF NodesFit
  <2> QED BY <2>2, <2>3, <2>4, <1>9 DEF NodesFit
<1> QED BY <1>1, <1>7, <1>8, <1>10 DEF MapInv

\* How many nodes there are, and how many are counted, while insert finds a free one.
LEMMA RoomLeft ==
  ASSUME MapInv, NEW m \in 1..usage.nodes, node[m].state = "unused"
  PROVE  num_elements < GROW_THRESHOLD * Size(table)
<1>1. usage.nodes \in Nat /\ usage.buckets \in Nat /\ Size(table) = usage.buckets /\ m \in Node
  BY Homes, MapAssumption DEF MapInv, Node
<1>2. CountedNodes \subseteq 1..m - 1
  <2> SUFFICES ASSUME NEW n \in CountedNodes, n >= m PROVE FALSE
    BY DEF CountedNodes, Node
  <2>1. n \in Node /\ node[n].state # "unused"
    BY DEF CountedNodes
  <2> QED BY <2>1, <1>1 DEF MapInv, NodesFit, Node
<1>3. IsFiniteSet(1..m - 1) /\ Cardinality(1..m - 1) = m - 1
  <2>1. 1 \in Int /\ m - 1 \in Int /\ m - 1 >= 0
    OBVIOUS
  <2>2. IsFiniteSet(1..m - 1) /\ Cardinality(1..m - 1) = IF 1 > m - 1 THEN 0 ELSE m - 1 - 1 + 1
    BY <2>1, FS_Interval
  <2> QED BY <2>1, <2>2
<1>4. Cardinality(CountedNodes) <= m - 1
  BY <1>2, <1>3, FS_Subset
<1>5. Cardinality(CountedNodes) \in Nat
  BY <1>2, <1>3, FS_Subset, FS_CardinalityType
<1>6. usage.nodes <= GROW_THRESHOLD * usage.buckets
  BY DEF MapInv, MapTypeOK, Undisturbed
<1>7. num_elements = Cardinality(CountedNodes)
  BY DEF MapInv, NodesFit
<1> QED BY <1>1, <1>4, <1>5, <1>6, <1>7 DEF GROW_THRESHOLD

LEMMA TestSizeFits ==
  ASSUME MapInv, NEW c \in usage.callers, NEW k \in usage.keys, TestSize(c, k)
  PROVE  MapInv'
<1> DEFINE d == [call[c] EXCEPT !.key = k, !.at = "index"]
<1>1. c \in Caller /\ k \in Key /\ call[c] \in CallRec /\ call[c].at = "out"
  BY Homes DEF MapInv, MapTypeOK, TestSize, Calls, At
<1>2. call' = [call EXCEPT ![c] = d]
  <2>1. PICK m \in 1..usage.nodes : node[m].state = "unused"
    BY DEF TestSize
  <2>2. ~(num_elements >= GROW_THRESHOLD * Size(table))
    <3>1. num_elements < GROW_THRESHOLD * Size(table)
      BY <2>1, RoomLeft
    <3>2. num_elements \in Int /\ GROW_THRESHOLD * Size(table) \in Int
      BY Homes DEF MapInv, MapTypeOK, GROW_THRESHOLD
    <3> QED BY <3>1, <3>2
  <2>3. call' = [call EXCEPT ![c].key = k, ![c].at = "index"]
    BY <2>2 DEF TestSize
  <2> QED BY <2>3, <1>1 DEF MapInv, MapTypeOK, CallRec
<1>3. d \in CallRec /\ d.at = "index"
  BY <1>1 DEF CallRec
<1>4. CallFits(c)'
  <2>1. call'[c] = d /\ UNCHANGED usage
    BY <1>1, <1>2 DEF TestSize, MapInv, MapTypeOK
  <2> QED BY <2>1, <1>3 DEF CallFits, Owners, Uncounted
<1> HIDE DEF d
<1> QED BY <1>1, <1>2, <1>3, <1>4, OnlyTheCall DEF TestSize

LEMMA RemoveIndexFits ==
  ASSUME MapInv, NEW c \in usage.callers, NEW k \in usage.keys, RemoveIndex(c, k)
  PROVE  MapInv'
<1> DEFINE d == [at |-> "unlink", key |-> k, mine |-> Null, old_tail |-> Null,
                 bucket |-> IndexIn(table, k), of |-> tables, sure |-> FALSE]
<1>1. c \in Caller /\ k \in Key /\ call[c].at = "out" /\ IndexIn(table, k) \in Nat
  BY Homes DEF MapInv, RemoveIndex, Calls, At
<1>2. call' = [call EXCEPT ![c] = d]
  BY DEF RemoveIndex, TakesBucket
<1>3. d \in CallRec /\ d.at = "unlink" /\ tables = 1
  BY <1>1 DEF CallRec, MapInv, MapTypeOK
<1>4. CallFits(c)'
  <2>1. call'[c] = d /\ UNCHANGED <<usage, table>> /\ "remove" \in usage.calls
    BY <1>1, <1>2 DEF RemoveIndex, Calls, MapInv, MapTypeOK
  <2>2. IndexIn(table, k)' = IndexIn(table, k)
    BY <2>1 DEF IndexIn
  <2> QED BY <2>1, <2>2, <1>3 DEF CallFits, Owners, Uncounted
<1> HIDE DEF d
<1> QED BY <1>1, <1>2, <1>3, <1>4, OnlyTheCall DEF RemoveIndex

\* A key an insert of which has returned is in the bucket, behind its head.
LEMMA FindHeadFits ==
  ASSUME MapInv, NEW c \in usage.callers, NEW k \in usage.keys, FindHead(c, k)
  PROVE  MapInv'
<1> DEFINE b == IndexIn(table, k)
           p == PathOf(b)
           d == [at |-> "walk", key |-> k, mine |-> table[b].head, old_tail |-> Null,
                 bucket |-> b, of |-> tables, sure |-> Present(k) # {}]
<1>1. c \in Caller /\ k \in Key /\ call[c].at = "out" /\ b \in Nat /\ b \in DOMAIN table
  BY Homes DEF MapInv, FindHead, Calls, At
<1>2. call' = [call EXCEPT ![c] = d]
  BY DEF FindHead, TakesBucket
<1>3. d \in CallRec /\ d.at = "walk" /\ tables = 1
  <2>1. table[b].head \in Node \cup {Null}
    BY <1>1 DEF MapInv, MapTypeOK, BucketRec
  <2> QED BY <2>1, <1>1 DEF CallRec, MapInv, MapTypeOK
<1>4. Follows(p, NextOf(node), table[b].head, Null) /\ p \in Seq(Node)
  BY <1>1 DEF MapInv, BucketFits, Follows, NextOf
<1>5. d.sure => \E l \in 1..Len(p) : node[p[l]].key = k
  <2> SUFFICES ASSUME NEW n \in Present(k) PROVE \E l \in 1..Len(p) : node[p[l]].key = k
    OBVIOUS
  <2>1. n \in Node /\ node[n].state = "live" /\ node[n].key = k
        /\ ~\E a \in Owners : call[a].mine = n
    BY DEF Present, Mine, Owners
  <2>2. PICK i \in DOMAIN table : \E l \in 1..Len(PathOf(i)) : PathOf(i)[l] = n
    BY <2>1 DEF MapInv, NodesFit, InChain
  <2>3. PICK l \in 1..Len(PathOf(i)) : PathOf(i)[l] = n
    BY <2>2
  <2>4. i = b
    BY <2>1, <2>3, InOneChain
  <2> QED BY <2>1, <2>3, <2>4
<1>6. d.mine = (IF p = <<>> THEN Null ELSE p[1]) /\ d.bucket = b /\ d.key = k
  BY <1>4 DEF Follows
<1>7. WalkFits(d)
  <2>1. "find" \in usage.calls
    BY DEF FindHead, Calls
  <2>2. d.mine = Null => ~d.sure
    <3> SUFFICES ASSUME d.mine = Null PROVE Len(p) = 0
      BY <1>5, <1>4
    <3>1. p # <<>> => p[1] \in Node
      BY <1>4
    <3> QED BY <3>1, <1>6, <1>4, NodeFacts
  <2>3. ASSUME d.mine # Null
        PROVE  \E j \in 1..Len(p) : p[j] = d.mine /\ (d.sure => \E l \in j..Len(p) : node[p[l]].key = d.key)
    <3>1. p # <<>> /\ p[1] = d.mine /\ 1 \in 1..Len(p)
      BY <2>3, <1>6, <1>4
    <3> HIDE DEF d, p
    <3> QED BY <3>1, <1>5, <1>6
  <2> HIDE DEF d, b
  <2> QED BY <2>1, <2>2, <2>3, <1>6 DEF WalkFits
<1>8. CallFits(c)'
  <2>1. call'[c] = d /\ UNCHANGED <<usage, table, node>>
    BY <1>1, <1>2 DEF FindHead, MapInv, MapTypeOK
  <2>2. IndexIn(table, k)' = IndexIn(table, k)
    BY <2>1 DEF IndexIn
  <2>3. c \notin Owners' /\ c \notin Uncounted'
    BY <2>1 DEF Owners, Uncounted
  <2>4. d.of = 1 /\ d.bucket = b /\ d.key = k /\ d.at = "walk"
    BY <1>3
  <2> HIDE DEF d
  <2>5. \A i : PathOf(i)' = PathOf(i)
    BY <2>1 DEF PathOf
  <2>6. WalkFits(call[c])'
    BY <2>1, <2>5, <1>7 DEF WalkFits
  <2> QED BY <2>1, <2>2, <2>3, <2>4, <2>6 DEF CallFits
<1> HIDE DEF d
<1> QED BY <1>1, <1>2, <1>3, <1>8, OnlyTheCall DEF FindHead

LEMMA ReturnFits ==
  ASSUME MapInv, NEW c \in Caller, Returns(c), call[c].at \notin {"exchange", "link", "delete"},
         UNCHANGED <<usage, table, new_table, tables, num_elements, resize_mutex, node>>
  PROVE  MapInv'
<1>1. Idle \in CallRec /\ Idle.at = "out"
  BY MapAssumption DEF Idle, CallRec
<1>2. call' = [call EXCEPT ![c] = Idle]
  BY DEF Returns
<1>3. CallFits(c)'
  <2>1. call'[c] = Idle
    BY <1>2 DEF MapInv, MapTypeOK
  <2> QED BY <2>1, <1>1 DEF CallFits, Owners, Uncounted
<1> HIDE DEF Idle
<1> QED BY <1>1, <1>2, <1>3, OnlyTheCall

LEMMA WalkKeeps ==
  ASSUME MapInv, NEW c \in usage.callers, Walk(c)
  PROVE  MapInv'
<1> DEFINE n == call[c].mine
           b == call[c].bucket
           p == PathOf(b)
<1>1. c \in Caller /\ call[c].at = "walk" /\ call[c] \in CallRec
  BY Homes DEF MapInv, MapTypeOK, Walk, At
<1>2. CASE ~(n # Null /\ node[n].key # call[c].key)
  <2>1. Returns(c)
    BY <1>2 DEF Walk
  <2> QED BY <2>1, <1>1, ReturnFits DEF Walk
<1>3. CASE n # Null /\ node[n].key # call[c].key
  <2> DEFINE d == [call[c] EXCEPT !.mine = node[n].next]
  <2>1. CallFits(c)
    BY <1>1 DEF MapInv
  <2>2. WalkFits(call[c]) /\ call[c].of = 1 /\ b = IndexIn(table, call[c].key) /\ c \in usage.callers
    BY <2>1, <1>1 DEF CallFits
  <2>3. PICK j \in 1..Len(p) : p[j] = n /\ (call[c].sure => \E l \in j..Len(p) : node[p[l]].key = call[c].key)
    BY <2>2, <1>3 DEF WalkFits
  <2>4. b \in DOMAIN table
    BY <2>2, <1>1, Homes DEF MapInv, CallRec
  <2>5. /\ p \in Seq(Node)
        /\ \A i \in 1..Len(p) : p[i] \in Node /\ node[p[i]].next = IF i = Len(p) THEN Null ELSE p[i + 1]
    <3>1. Follows(p, NextOf(node), table[b].head, Null) /\ node \in [Node -> NodeRec]
      BY <2>4 DEF MapInv, MapTypeOK, BucketFits
    <3>2. p \in Seq(Node)
      BY <3>1 DEF Follows, NextOf
    <3>3. \A i \in 1..Len(p) : p[i] \in Node
      BY <3>2
    <3> QED BY <3>1, <3>2, <3>3 DEF Follows, NextOf
  <2>6. d.mine = (IF j = Len(p) THEN Null ELSE p[j + 1]) /\ d.mine \in Node \cup {Null}
    <3>1. d.mine = node[n].next
      BY <1>1 DEF CallRec
    <3> QED BY <3>1, <2>3, <2>5
  <2>7. /\ d.at = "walk" /\ d.key = call[c].key /\ d.bucket = b /\ d.of = 1
        /\ d.sure = call[c].sure /\ d \in CallRec
    BY <1>1, <2>2, <2>6 DEF CallRec
  <2> HIDE DEF d, n, b
  <2>8. call[c].sure => j # Len(p) /\ \E l \in j + 1..Len(p) : node[p[l]].key = d.key
    <3> SUFFICES ASSUME call[c].sure PROVE j # Len(p) /\ \E l \in j + 1..Len(p) : node[p[l]].key = d.key
      OBVIOUS
    <3>1. PICK l \in j..Len(p) : node[p[l]].key = call[c].key
      BY <2>3
    <3>2. l # j
      BY <3>1, <2>3, <1>3
    <3> QED BY <3>1, <3>2, <2>7, <2>5
  <2>9. WalkFits(d)
    <3>1. "find" \in usage.calls
      BY <2>2 DEF WalkFits
    <3>2. d.mine = Null => ~d.sure
      <4> SUFFICES ASSUME d.mine = Null PROVE j = Len(p)
        BY <2>7, <2>8
      <4>1. j # Len(p) => p[j + 1] \in Node
        BY <2>5
      <4> QED BY <4>1, <2>6, NodeFacts
    <3>3. d.mine # Null => \E i \in 1..Len(p) : p[i] = d.mine
                              /\ (d.sure => \E l \in i..Len(p) : node[p[l]].key = d.key)
      <4> SUFFICES ASSUME d.mine # Null PROVE j + 1 \in 1..Len(p) /\ p[j + 1] = d.mine
        BY <2>7, <2>8
      <4> QED BY <2>6, <2>5
    <3> QED BY <3>1, <3>2, <3>3, <2>7 DEF WalkFits
  <2>10. call' = [call EXCEPT ![c] = d]
    <3>1. call' = [call EXCEPT ![c].mine = node[n].next]
      BY <1>3 DEF Walk, n
    <3> QED BY <3>1, <1>1 DEF d, MapInv, MapTypeOK
  <2>11. CallFits(c)'
    <3>1. call'[c] = d /\ UNCHANGED <<usage, table, node>>
      BY <1>1, <2>10 DEF Walk, MapInv, MapTypeOK
    <3>2. \A i : PathOf(i)' = PathOf(i)
      BY <3>1 DEF PathOf
    <3>3. c \notin Owners' /\ c \notin Uncounted'
      BY <3>1, <2>7 DEF Owners, Uncounted
    <3>4. WalkFits(call[c])'
      BY <3>1, <3>2, <2>9 DEF WalkFits
    <3>5. IndexIn(table', d.key) = b
      BY <3>1, <2>2, <2>7
    <3> QED BY <3>1, <3>3, <3>4, <3>5, <2>2, <2>7 DEF CallFits
  <2> QED BY <1>1, <2>7, <2>10, <2>11, OnlyTheCall DEF Walk
<1> QED BY <1>2, <1>3

LEMMA NotThereFits ==
  ASSUME MapInv, NEW c \in usage.callers, NotThere(c)
  PROVE  MapInv'
<1>1. c \in Caller /\ call[c].at = "unlink" /\ Returns(c)
  BY Homes DEF MapInv, NotThere, At
<1> QED BY <1>1, ReturnFits DEF NotThere

\* A step after which the chains have the same nodes as before, under the same keys.
SameElements == \A m \in Node : /\ InChain(m)' <=> InChain(m)
                                /\ InChain(m) => node'[m].key = node[m].key

\* What a step of c leaves as it was for another thread b.
LEMMA OtherCallFits ==
  ASSUME MapInv, NEW b \in Caller, UNCHANGED usage, DOMAIN table' = DOMAIN table,
         call'[b] = call[b],
         b \in Owners => /\ node'[call[b].mine].state = "live" /\ ~InChain(call[b].mine)'
                         /\ node'[call[b].mine].key = node[call[b].mine].key
                         /\ node'[call[b].mine].next = node[call[b].mine].next,
         call[b].at \in {"link", "delete"} =>
             table'[call[b].bucket].mutex = b
             /\ table'[call[b].bucket].tail = table[call[b].bucket].tail,
         call[b].at = "link" => Chain(node', table'[call[b].bucket].head) = PathOf(call[b].bucket),
         call[b].at = "walk" => WalkFits(call[b])'
  PROVE  CallFits(b)'
<1>1. CallFits(b)
  BY DEF MapInv
<1>2. (b \in Owners)' <=> b \in Owners
  BY DEF Owners
<1>3. (b \in Uncounted)' <=> b \in Uncounted
  BY DEF Uncounted
<1>4. Uncounted \subseteq Owners
  BY DEF Uncounted, Owners
<1>5. \A k : IndexIn(table', k) = IndexIn(table, k)
  BY DEF IndexIn, Size
<1>6. \A i : PathOf(i)' = Chain(node', table'[i].head)
  BY DEF PathOf
<1>7. ~InChain(call[b].mine)' <=> ~(InChain(call[b].mine))'
  OBVIOUS
<1> QED BY <1>1, <1>2, <1>3, <1>4, <1>5, <1>6 DEF CallFits

LEMMA NewNodeFits ==
  ASSUME MapInv, NEW c \in usage.callers, NewNode(c)
  PROVE  MapInv' /\ SameElements
<1> DEFINE k == call[c].key
           bk == IndexIn(table, k)
<1>1. c \in Caller /\ call[c].at = "index" /\ call[c] \in CallRec /\ k \in Key /\ bk \in DOMAIN table
      /\ bk \in Nat /\ node \in [Node -> NodeRec] /\ tables = 1 /\ call \in [Caller -> CallRec]
  BY Homes DEF MapInv, MapTypeOK, NewNode, At, CallRec
<1>2. PICK n \in Node :
          /\ node[n].state = "unused" /\ \A m \in 1..n - 1 : node[m].state # "unused"
          /\ node' = [node EXCEPT ![n] = [state |-> "live", key |-> k, next |-> Null]]
          /\ TakesBucket(c, k, "exchange", n, FALSE)
  BY DEF NewNode
<1> DEFINE d == [at |-> "exchange", key |-> k, mine |-> n, old_tail |-> Null,
                 bucket |-> bk, of |-> tables, sure |-> FALSE]
<1>3. call' = [call EXCEPT ![c] = d]
  BY <1>2 DEF TakesBucket
<1>4. d \in CallRec /\ d.at = "exchange" /\ d.mine = n /\ d.key = k /\ d.bucket = bk /\ d.of = 1
  BY <1>1 DEF CallRec
<1> HIDE DEF d
<1>5. call'[c] = d /\ \A b \in Caller : b # c => call'[b] = call[b]
  BY <1>1, <1>3
<1>6. node' \in [Node -> NodeRec] /\ node'[n] = [state |-> "live", key |-> k, next |-> Null]
      /\ \A m \in Node : m # n => node'[m] = node[m]
  BY <1>1, <1>2 DEF NodeRec
<1>7. UNCHANGED <<usage, table, tables, num_elements, resize_mutex>>
  BY DEF NewNode
<1>8. ~InChain(n)
  BY <1>2, InOneChain DEF InChain
<1>9. \A i \in DOMAIN table : PathOf(i)' = PathOf(i) /\ Follows(PathOf(i), NextOf(node'), table'[i].head, Null)
  <2> TAKE i \in DOMAIN table
  <2>1. \A j \in 1..Len(PathOf(i)) : node'[PathOf(i)[j]] = node[PathOf(i)[j]]
    BY <1>6, <1>8, InOneChain
  <2> QED BY <2>1, <1>6, <1>7, ChainKept
<1>10. \A m : InChain(m)' <=> InChain(m)
  BY <1>7, <1>9 DEF InChain
<1>11. Owners' = Owners \cup {c} /\ Uncounted' = Uncounted \cup {c} /\ c \notin Owners
  BY <1>1, <1>4, <1>5 DEF Owners, Uncounted
<1>12. \A b \in Owners : b # c /\ b \in Caller /\ call'[b] = call[b] /\ call[b].mine # n /\ call[b].mine \in Node
  BY <1>2, <1>5, <1>11 DEF MapInv, CallFits, Owners
<1>13. MapTypeOK'
  BY <1>3, <1>4, <1>6, <1>7 DEF MapInv, MapTypeOK
<1>14. ASSUME NEW i \in DOMAIN table PROVE BucketFits(i)'
  <2>1. BucketFits(i)
    BY DEF MapInv
  <2>2. \A j \in 1..Len(PathOf(i)) : node'[PathOf(i)[j]] = node[PathOf(i)[j]]
    BY <1>6, <1>8, InOneChain
  <2>3. table[i].mutex # NoCaller => table[i].mutex \in Caller /\ table[i].mutex # c
    BY <2>1, <1>1 DEF BucketFits, MapInv, MapTypeOK, BucketRec
  <2>4. Linking(i)' <=> Linking(i)
    BY <2>3, <1>5, <1>7 DEF Linking
  <2>5. PathOf(i)' = PathOf(i) /\ Follows(PathOf(i), NextOf(node'), table'[i].head, Null)
    BY <1>9
  <2>6. \A x : IndexIn(table', x) = IndexIn(table, x)
    BY <1>7
  <2>7. NextOf(node)' = NextOf(node')
    BY DEF NextOf
  <2> QED BY <2>1, <2>2, <2>3, <2>4, <2>5, <2>6, <2>7, <1>5, <1>7 DEF BucketFits
<1>15. ASSUME NEW b \in Caller, b # c PROVE CallFits(b)'
  <2>1. CallFits(b) /\ call[b] \in CallRec /\ call'[b] = call[b]
    BY <1>1, <1>5, <1>15 DEF MapInv
  <2>2. call[b].at \notin {"out", "index"} => call[b].bucket \in DOMAIN table
    BY <2>1, Homes DEF CallFits, MapInv, CallRec
  <2>3. call[b].at = "walk" => WalkFits(call[b])'
    <3> SUFFICES ASSUME call[b].at = "walk" PROVE WalkFits(call[b])'
      OBVIOUS
    <3> DEFINE i == call[b].bucket
    <3>1. WalkFits(call[b]) /\ i \in DOMAIN table
      BY <2>1, <2>2 DEF CallFits
    <3>2. PathOf(i)' = Chain(node', table'[i].head) /\ Chain(node', table'[i].head) = PathOf(i)
      BY <3>1, <1>9, <2>1 DEF PathOf
    <3>3. \A l \in 1..Len(PathOf(i)) : node'[PathOf(i)[l]] = node[PathOf(i)[l]]
      BY <3>1, <1>6, <1>8, InOneChain
    <3>4. Len(PathOf(i)) \in Nat
      BY <3>1 DEF MapInv, BucketFits, Follows
    <3> QED BY <3>1, <3>2, <3>3, <3>4, <2>1, <1>7 DEF WalkFits
  <2>4. call[b].at = "link" => Chain(node', table'[call[b].bucket].head) = PathOf(call[b].bucket)
    BY <2>2, <1>9 DEF PathOf
  <2>5. b \in Owners => call[b].mine # n /\ call[b].mine \in Node /\ ~InChain(call[b].mine)
                        /\ node[call[b].mine].state = "live"
    BY <1>12, <2>1 DEF CallFits
  <2>6. ~(InChain(call[b].mine)') <=> ~InChain(call[b].mine)
    BY <1>10, <2>1
  <2>7. call[b].at \in {"link", "delete"} =>
             table'[call[b].bucket].mutex = b
             /\ table'[call[b].bucket].tail = table[call[b].bucket].tail
    BY <2>1, <1>7 DEF CallFits
  <2>8. b \in Owners => node'[call[b].mine] = node[call[b].mine]
    BY <2>5, <1>6
  <2> QED BY <2>1, <2>3, <2>4, <2>5, <2>6, <2>7, <2>8, <1>7, OtherCallFits
<1>16. CallFits(c)'
  <2>1. IndexIn(table', k) = bk
    BY <1>7
  <2>2. ~InChain(call[c].mine)'
    BY <1>4, <1>5, <1>8, <1>10
  <2> QED BY <1>4, <1>5, <1>6, <1>7, <2>1, <2>2 DEF CallFits
<1>17. CountedNodes' = CountedNodes
  <2>1. \A b \in Uncounted' : b # c => b \in Uncounted /\ call'[b] = call[b]
    BY <1>5, <1>11 DEF Uncounted
  <2>2. \A b \in Uncounted : b \in Uncounted' /\ call'[b] = call[b] /\ call[b].mine # n
    BY <1>11, <1>12 DEF Uncounted, Owners
  <2>3. c \in Uncounted' /\ call'[c].mine = n
    BY <1>4, <1>5, <1>11
  <2>4. n \notin CountedNodes /\ n \notin CountedNodes'
    BY <1>2, <2>3 DEF CountedNodes
  <2>5. \A m \in Node : m # n => (m \in CountedNodes <=> m \in CountedNodes')
    BY <1>6, <2>1, <2>2, <2>3 DEF CountedNodes
  <2> QED BY <2>4, <2>5 DEF CountedNodes
<1>18. NodesFit'
  <2>1. NodesFit
    BY DEF MapInv
  <2>2. (\A a, b \in Owners : call[a].mine = call[b].mine => a = b)'
    BY <2>1, <1>4, <1>5, <1>11, <1>12 DEF NodesFit
  <2>3. (\A m \in Node : node[m].state = "live" => InChain(m) \/ \E a \in Owners : call[a].mine = m)'
    <3> SUFFICES ASSUME NEW m \in Node, node'[m].state = "live"
                 PROVE  InChain(m)' \/ \E a \in Owners' : call'[a].mine = m
      OBVIOUS
    <3>1. CASE m = n
      BY <3>1, <1>4, <1>5, <1>11
    <3>2. CASE m # n
      <4>1. InChain(m) \/ \E a \in Owners : call[a].mine = m
        BY <3>2, <1>6, <2>1 DEF NodesFit
      <4> QED BY <4>1, <1>10, <1>11, <1>12
    <3> QED BY <3>1, <3>2
  <2>4. (\A m \in Node : node[m].state # "unused" => \A l \in 1..m : node[l].state # "unused")'
    <3> SUFFICES ASSUME NEW m \in Node, node'[m].state # "unused", NEW l \in 1..m
                 PROVE  node'[l].state # "unused"
      OBVIOUS
    <3>1. l \in Node
      BY MapAssumption DEF Node
    <3>2. CASE m = n
      <4>1. l = n \/ l \in 1..n - 1
        BY <3>2 DEF Node
      <4> QED BY <4>1, <3>1, <1>2, <1>6
    <3>3. CASE m # n
      <4>1. node[l].state # "unused"
        BY <3>3, <1>6, <2>1 DEF NodesFit
      <4> QED BY <4>1, <3>1, <1>6
    <3> QED BY <3>2, <3>3
  <2>5. (num_elements = Cardinality(CountedNodes))'
    BY <2>1, <1>7, <1>17 DEF NodesFit
  <2> QED BY <2>2, <2>3, <2>4, <2>5 DEF NodesFit
<1>19. DOMAIN table' = DOMAIN table
  BY <1>7
<1>20. SameElements
  BY <1>6, <1>8, <1>10 DEF SameElements
<1> QED BY <1>13, <1>14, <1>15, <1>16, <1>18, <1>19, <1>20 DEF MapInv

\* Where a find that is under way is, after a step that leaves its chain and its keys.
LEMMA WalkStays ==
  ASSUME MapInv, NEW b \in Caller, call[b].at = "walk", call'[b] = call[b], UNCHANGED usage,
         Chain(node', table'[call[b].bucket].head) = PathOf(call[b].bucket),
         \A m \in Node : InChain(m) => node'[m].key = node[m].key
  PROVE  WalkFits(call[b])'
<1> DEFINE i == call[b].bucket
<1>1. WalkFits(call[b]) /\ i \in DOMAIN table
  <2>1. CallFits(b) /\ call[b] \in CallRec /\ MapTypeOK
    BY DEF MapInv, MapTypeOK
  <2>2. WalkFits(call[b]) /\ i = IndexIn(table, call[b].key)
    BY <2>1 DEF CallFits
  <2> QED BY <2>1, <2>2, Homes DEF CallRec
<1>2. PathOf(i)' = PathOf(i)
  BY DEF PathOf
<1>3. \A l \in 1..Len(PathOf(i)) : node'[PathOf(i)[l]].key = node[PathOf(i)[l]].key
  BY <1>1, InOneChain
<1>4. Len(PathOf(i)) \in Nat
  BY <1>1 DEF MapInv, BucketFits, Follows
<1> QED BY <1>1, <1>2, <1>3, <1>4 DEF WalkFits

LEMMA ExchangeTailFits ==
  ASSUME MapInv, NEW c \in usage.callers, ExchangeTail(c)
  PROVE  MapInv' /\ SameElements
<1> DEFINE bk == call[c].bucket
           n == call[c].mine
           d == [call[c] EXCEPT !.at = "link", !.old_tail = table[bk].tail]
           t == [table[bk] EXCEPT !.mutex = c, !.tail = n]
<1>1. c \in Caller /\ call[c].at = "exchange" /\ call[c] \in CallRec
      /\ node \in [Node -> NodeRec] /\ call \in [Caller -> CallRec] /\ c \in Owners /\ c \in Uncounted
  BY Homes DEF MapInv, MapTypeOK, ExchangeTail, At, Owners, Uncounted
<1>2. CallFits(c)
  BY <1>1 DEF MapInv
<1>3. bk \in DOMAIN table /\ n \in Node /\ bk = IndexIn(table, call[c].key)
  BY <1>1, <1>2, Homes DEF CallFits, MapInv, CallRec
<1>4. table[bk] \in BucketRec /\ table[bk].mutex = NoCaller /\ table[bk].tail = LastOf(PathOf(bk))
      /\ BucketFits(bk)
  BY <1>3 DEF ExchangeTail, Unlocked, MapInv, MapTypeOK, BucketFits, Linking
<1>5. table' = [table EXCEPT ![bk] = t] /\ call' = [call EXCEPT ![c] = d]
  <2>1. table' = [table EXCEPT ![bk].mutex = c, ![bk].tail = n]
    BY DEF ExchangeTail
  <2>2. call' = [call EXCEPT ![c].at = "link", ![c].old_tail = table[bk].tail]
    BY DEF ExchangeTail
  <2>3. DOMAIN table = 0..usage.buckets - 1
    BY DEF MapInv, MapTypeOK
  <2> QED BY <2>1, <2>2, <2>3, <1>1, <1>3, <1>4 DEF MapInv, MapTypeOK, BucketRec, CallRec
<1>6. /\ d \in CallRec /\ d.at = "link" /\ d.mine = n /\ d.key = call[c].key /\ d.bucket = bk
      /\ d.of = call[c].of /\ d.old_tail = table[bk].tail /\ d.sure = call[c].sure
  BY <1>1, <1>4 DEF CallRec, BucketRec
<1>7. t \in BucketRec /\ t.head = table[bk].head /\ t.tail = n /\ t.mutex = c
  BY <1>1, <1>3, <1>4 DEF BucketRec
<1> HIDE DEF d, t
<1>8. call'[c] = d /\ \A b \in Caller : b # c => call'[b] = call[b]
  BY <1>1, <1>5
<1>9. table'[bk] = t /\ (\A i \in DOMAIN table : i # bk => table'[i] = table[i])
      /\ DOMAIN table' = DOMAIN table
  BY <1>3, <1>5
<1>10. UNCHANGED <<usage, tables, num_elements, resize_mutex, node>>
  BY DEF ExchangeTail
<1>11. \A i \in DOMAIN table : PathOf(i)' = PathOf(i)
  BY <1>7, <1>9, <1>10 DEF PathOf
<1>12. \A m : InChain(m)' <=> InChain(m)
  BY <1>9, <1>11 DEF InChain
<1>13. Owners' = Owners /\ Uncounted' = Uncounted
  BY <1>1, <1>6, <1>8 DEF Owners, Uncounted
<1>14. MapTypeOK'
  BY <1>5, <1>6, <1>7, <1>10 DEF MapInv, MapTypeOK
<1>15. \A k : IndexIn(table', k) = IndexIn(table, k)
  BY <1>9 DEF IndexIn, Size
<1>16. ASSUME NEW i \in DOMAIN table PROVE BucketFits(i)'
  <2>1. BucketFits(i) /\ PathOf(i)' = PathOf(i)
    BY <1>11 DEF MapInv
  <2>2. CASE i = bk
    <3>1. Linking(i)'
      BY <2>2, <1>1, <1>6, <1>7, <1>8, <1>9, CallerAssumption DEF Linking
    <3> QED BY <2>1, <2>2, <3>1, <1>6, <1>7, <1>8, <1>9, <1>10, <1>15 DEF BucketFits
  <2>3. CASE i # bk
    <3>1. table'[i] = table[i]
      BY <2>3, <1>9
    <3>2. table[i].mutex # NoCaller => table[i].mutex \in Caller /\ table[i].mutex # c
      BY <2>1, <1>1 DEF BucketFits, MapInv, MapTypeOK, BucketRec
    <3>3. Linking(i)' <=> Linking(i)
      BY <3>1, <3>2, <1>8 DEF Linking
    <3> QED BY <2>1, <3>1, <3>2, <3>3, <1>8, <1>10, <1>15 DEF BucketFits
  <2> QED BY <2>2, <2>3
<1>17. ASSUME NEW b \in Caller, b # c PROVE CallFits(b)'
  <2>1. CallFits(b) /\ call[b] \in CallRec /\ call'[b] = call[b]
    BY <1>1, <1>8, <1>17 DEF MapInv
  <2>2. call[b].at \notin {"out", "index"} => call[b].bucket \in DOMAIN table
    BY <2>1, Homes DEF CallFits, MapInv, CallRec
  <2>3. call[b].at \in {"link", "delete"} => table[call[b].bucket].mutex = b /\ call[b].bucket # bk
    BY <2>1, <1>4, CallerAssumption DEF CallFits
  <2>4. Chain(node', table'[call[b].bucket].head) = PathOf(call[b].bucket)
        \/ call[b].at \in {"out", "index"}
    BY <2>2, <1>11 DEF PathOf
  <2>5. call[b].at = "walk" => WalkFits(call[b])'
    BY <2>1, <2>4, <1>10, WalkStays
  <2>6. ~(InChain(call[b].mine)') <=> ~InChain(call[b].mine)
    BY <1>12, <2>1
  <2>7. b \in Owners => ~InChain(call[b].mine) /\ node[call[b].mine].state = "live"
    BY <2>1 DEF CallFits
  <2>8. call[b].at \in {"link", "delete"} => table'[call[b].bucket] = table[call[b].bucket]
    BY <2>2, <2>3, <1>9
  <2> QED BY <2>1, <2>3, <2>4, <2>5, <2>6, <2>7, <2>8, <1>9, <1>10, OtherCallFits
<1>18. CallFits(c)'
  <2>1. PathOf(call[c].bucket)' = PathOf(bk)
    BY <1>3, <1>6, <1>8, <1>11
  <2>2. InChain(call[c].mine)' <=> InChain(n)
    BY <1>6, <1>8, <1>12
  <2> QED BY <2>1, <2>2, <1>1, <1>2, <1>3, <1>4, <1>6, <1>7, <1>8, <1>9, <1>10, <1>13, <1>15 DEF CallFits
<1>19. \A b \in Caller : call'[b].mine = call[b].mine
  BY <1>6, <1>8
<1>20. Uncounted \subseteq Caller /\ Owners \subseteq Caller
  BY DEF Uncounted, Owners
<1>21. CountedNodes' = CountedNodes
  BY <1>10, <1>13, <1>19, <1>20 DEF CountedNodes
<1>22. NodesFit'
  <2>1. NodesFit
    BY DEF MapInv
  <2>2. (\A a, b \in Owners : call[a].mine = call[b].mine => a = b)'
    BY <2>1, <1>13, <1>19, <1>20 DEF NodesFit
  <2>3. (\A m \in Node : node[m].state = "live" => InChain(m) \/ \E a \in Owners : call[a].mine = m)'
    BY <2>1, <1>10, <1>12, <1>13, <1>19, <1>20 DEF NodesFit
  <2> QED BY <2>1, <2>2, <2>3, <1>10, <1>21 DEF NodesFit
<1>23. SameElements
  BY <1>10, <1>12 DEF SameElements
<1> QED BY <1>9, <1>14, <1>16, <1>17, <1>18, <1>22, <1>23 DEF MapInv

LEMMA FollowsAppend ==
  ASSUME NEW N, NEW null, null \notin N, NEW next \in [N -> N \cup {null}],
         NEW onward \in [N -> N \cup {null}], NEW first, NEW p, NEW n \in N,
         Follows(p, next, first, null), \A i \in 1..Len(p) : p[i] # n,
         onward[n] = null,
         \A i \in 1..Len(p) : onward[p[i]] = IF i = Len(p) THEN n ELSE next[p[i]]
  PROVE  Follows(Append(p, n), onward, IF p = <<>> THEN n ELSE first, null)
<1> DEFINE q == Append(p, n)
<1>1. /\ p \in Seq(N) /\ Len(p) \in Nat /\ \A i \in 1..Len(p) : p[i] \in N
      /\ \A i, j \in 1..Len(p) : p[i] = p[j] => i = j
      /\ first = IF p = <<>> THEN null ELSE p[1]
      /\ \A i \in 1..Len(p) : next[p[i]] = IF i = Len(p) THEN null ELSE p[i + 1]
  BY DEF Follows
<1>2. q \in Seq(N) /\ Len(q) = Len(p) + 1 /\ q[Len(p) + 1] = n /\ \A i \in 1..Len(p) : q[i] = p[i]
  BY <1>1
<1> HIDE DEF q
<1>3. \A i, j \in 1..Len(q) : q[i] = q[j] => i = j
  BY <1>1, <1>2
<1>4. (IF p = <<>> THEN n ELSE first) = IF q = <<>> THEN null ELSE q[1]
  BY <1>1, <1>2
<1>5. \A i \in 1..Len(q) : onward[q[i]] = IF i = Len(q) THEN null ELSE q[i + 1]
  BY <1>1, <1>2
<1> QED BY <1>2, <1>3, <1>4, <1>5 DEF Follows, q

\* What linking its node does to the chain of c's bucket: the node is its last now.
LEMMA LinkedChain ==
  ASSUME MapInv, NEW c \in usage.callers, LinkNode(c),
         NEW bk, bk = call[c].bucket, NEW n, n = call[c].mine, NEW p, p = PathOf(bk)
  PROVE  /\ c \in Owners /\ c \in Uncounted /\ CallFits(c)
         /\ bk \in DOMAIN table /\ n \in Node
         /\ node' \in [Node -> NodeRec]
         /\ \A m \in Node : node'[m].state = node[m].state /\ node'[m].key = node[m].key
                            /\ (~InChain(m) => node'[m].next = node[m].next)
         /\ table' = [table EXCEPT ![bk] = table'[bk]]
         /\ table'[bk] \in BucketRec /\ table'[bk].mutex = NoCaller /\ table'[bk].tail = n
         /\ PathOf(bk)' = Append(p, n)
         /\ Follows(Append(p, n), NextOf(node'), table'[bk].head, Null)
         /\ \A i \in DOMAIN table : i # bk =>
                PathOf(i)' = PathOf(i) /\ Follows(PathOf(i), NextOf(node'), table'[i].head, Null)
<1> DEFINE old == call[c].old_tail
           t == [table[bk] EXCEPT !.mutex = NoCaller, !.head = IF old # Null THEN @ ELSE n]
<1>1. c \in Caller /\ call[c].at = "link" /\ call[c] \in CallRec
      /\ node \in [Node -> NodeRec] /\ call \in [Caller -> CallRec] /\ c \in Owners /\ c \in Uncounted
  BY Homes DEF MapInv, MapTypeOK, LinkNode, At, Owners, Uncounted
<1>2. CallFits(c)
  BY <1>1 DEF MapInv
<1>3. bk \in DOMAIN table /\ n \in Node /\ old = LastOf(p) /\ table[bk].tail = n /\ ~InChain(n)
      /\ node[n].next = Null
  BY <1>1, <1>2, Homes DEF CallFits, MapInv, CallRec
<1>4. table[bk] \in BucketRec /\ Follows(p, NextOf(node), table[bk].head, Null)
  BY <1>3 DEF MapInv, MapTypeOK, BucketFits
<1>5. /\ p \in Seq(Node) /\ Len(p) \in Nat
      /\ \A j \in 1..Len(p) : p[j] \in Node /\ InChain(p[j]) /\ p[j] # n
      /\ \A i, j \in 1..Len(p) : p[i] = p[j] => i = j
  BY <1>3, <1>4, InOneChain DEF Follows
<1>6. old = IF p = <<>> THEN Null ELSE p[Len(p)]
  BY <1>3 DEF LastOf
<1>7. old # Null <=> p # <<>>
  BY <1>5, <1>6, NodeFacts
<1>8. table' = [table EXCEPT ![bk] = t]
  <2>1. table' = [table EXCEPT ![bk].mutex = NoCaller, ![bk].head = IF old # Null THEN @ ELSE n]
    BY DEF LinkNode
  <2> QED BY <2>1, <1>3, <1>4 DEF MapInv, MapTypeOK, BucketRec
<1>9. table'[bk] = t /\ (\A i \in DOMAIN table : i # bk => table'[i] = table[i])
  BY <1>3, <1>8 DEF MapInv, MapTypeOK
<1>10. t \in BucketRec /\ t.mutex = NoCaller /\ t.tail = n /\ t.head = IF p = <<>> THEN n ELSE table[bk].head
  BY <1>3, <1>4, <1>7 DEF BucketRec
<1> HIDE DEF t
<1>11. node' = IF old # Null THEN [node EXCEPT ![old].next = n] ELSE node
  BY DEF LinkNode
<1>12. /\ node' \in [Node -> NodeRec]
       /\ \A m \in Node : /\ node'[m].state = node[m].state /\ node'[m].key = node[m].key
                          /\ node'[m].next = IF p # <<>> /\ m = old THEN n ELSE node[m].next
  BY <1>1, <1>3, <1>5, <1>6, <1>7, <1>11 DEF NodeRec
<1>13. NextOf(node) \in [Node -> Node \cup {Null}] /\ NextOf(node') \in [Node -> Node \cup {Null}]
  BY <1>1, <1>12 DEF NextOf, NodeRec
<1>14. NextOf(node')[n] = Null
  <2>1. p # <<>> => n # old
    BY <1>5, <1>6
  <2> QED BY <2>1, <1>3, <1>12 DEF NextOf
<1>15. \A i \in 1..Len(p) : NextOf(node')[p[i]] = IF i = Len(p) THEN n ELSE NextOf(node)[p[i]]
  <2> TAKE i \in 1..Len(p)
  <2>1. p # <<>> /\ Len(p) \in 1..Len(p) /\ p[i] \in Node /\ (p[i] = old <=> i = Len(p))
    BY <1>5, <1>6
  <2> QED BY <2>1, <1>12 DEF NextOf
<1>16. Follows(Append(p, n), NextOf(node'), IF p = <<>> THEN n ELSE table[bk].head, Null)
  <2> HIDE DEF old
  <2>1. \A i \in 1..Len(p) : p[i] # n
    BY <1>5
  <2> QED BY <2>1, <1>3, <1>4, <1>13, <1>14, <1>15, NodeFacts, FollowsAppend
<1>17. Follows(Append(p, n), NextOf(node'), table'[bk].head, Null)
  BY <1>9, <1>10, <1>16
<1>18. PathOf(bk)' = Append(p, n)
  BY <1>12, <1>17, ChainIs DEF PathOf
<1>19. ASSUME NEW i \in DOMAIN table, i # bk
       PROVE  PathOf(i)' = PathOf(i) /\ Follows(PathOf(i), NextOf(node'), table'[i].head, Null)
  <2>1. \A j \in 1..Len(PathOf(i)) : node'[PathOf(i)[j]].next = node[PathOf(i)[j]].next
    <3> TAKE j \in 1..Len(PathOf(i))
    <3>1. PathOf(i)[j] \in Node /\ IndexIn(table, node[PathOf(i)[j]].key) = i
      BY InOneChain
    <3>2. p # <<>> => Len(p) \in 1..Len(p) /\ old = p[Len(p)]
      BY <1>5, <1>6
    <3>3. p # <<>> => IndexIn(table, node[old].key) = bk
      BY <3>2, <1>3, InOneChain
    <3> QED BY <3>1, <3>3, <1>12, <1>19
  <2> QED BY <2>1, <1>9, <1>12, <1>19, ChainKept
<1>20. \A m \in Node : ~InChain(m) => node'[m].next = node[m].next
  BY <1>5, <1>6, <1>12
<1>21. table' = [table EXCEPT ![bk] = table'[bk]]
  BY <1>8, <1>9
<1> QED BY <1>1, <1>2, <1>3, <1>9, <1>10, <1>12, <1>17, <1>18, <1>19, <1>20, <1>21

LEMMA LinkNodeFits ==
  ASSUME MapInv, NEW c \in usage.callers, LinkNode(c)
  PROVE  /\ MapInv'
         /\ \E n \in Node : ~InChain(n) /\ \A m \in Node : /\ InChain(m)' <=> InChain(m) \/ m = n
                                                        /\ node'[m].key = node[m].key
<1>0. PICK bk, n, p : bk = call[c].bucket /\ n = call[c].mine /\ p = PathOf(bk)
  OBVIOUS
<1>1. /\ c \in Owners /\ c \in Uncounted /\ CallFits(c)
      /\ bk \in DOMAIN table /\ n \in Node
      /\ node' \in [Node -> NodeRec]
      /\ \A m \in Node : node'[m].state = node[m].state /\ node'[m].key = node[m].key
                         /\ (~InChain(m) => node'[m].next = node[m].next)
      /\ table' = [table EXCEPT ![bk] = table'[bk]]
      /\ table'[bk] \in BucketRec /\ table'[bk].mutex = NoCaller /\ table'[bk].tail = n
      /\ PathOf(bk)' = Append(p, n)
      /\ Follows(Append(p, n), NextOf(node'), table'[bk].head, Null)
      /\ \A i \in DOMAIN table : i # bk =>
             PathOf(i)' = PathOf(i) /\ Follows(PathOf(i), NextOf(node'), table'[i].head, Null)
  BY <1>0, LinkedChain
<1>2. c \in Caller /\ call[c].at = "link" /\ call[c] \in CallRec /\ call \in [Caller -> CallRec]
  BY Homes DEF MapInv, MapTypeOK, LinkNode, At
<1>3. /\ call[c].of = 1 /\ bk = IndexIn(table, call[c].key) /\ node[n].state = "live"
      /\ node[n].key = call[c].key /\ ~InChain(n) /\ table[bk].mutex = c
  BY <1>0, <1>1, <1>2 DEF CallFits
<1>4. Idle \in CallRec /\ Idle.at = "out"
  BY MapAssumption DEF Idle, CallRec
<1>5. call' = [call EXCEPT ![c] = Idle]
  BY DEF LinkNode, Returns
<1>6. call'[c] = Idle /\ \A b \in Caller : b # c => call'[b] = call[b]
  BY <1>2, <1>5
<1>7. (\A i \in DOMAIN table : i # bk => table'[i] = table[i]) /\ DOMAIN table' = DOMAIN table
  BY <1>1
<1>8. UNCHANGED <<usage, tables, resize_mutex>> /\ num_elements' = num_elements + 1
  BY DEF LinkNode
<1>9. p \in Seq(Node) /\ Len(p) \in Nat /\ \A j \in 1..Len(p) : Append(p, n)[j] = p[j]
      /\ Len(Append(p, n)) = Len(p) + 1 /\ Append(p, n)[Len(p) + 1] = n
  BY <1>0, <1>1 DEF MapInv, BucketFits, Follows, NextOf
<1>10. \A m : InChain(m)' <=> InChain(m) \/ m = n
  <2> TAKE m
  <2>1. (\E j \in 1..Len(Append(p, n)) : Append(p, n)[j] = m) <=> (\E j \in 1..Len(p) : p[j] = m) \/ m = n
    BY <1>9
  <2>2. \A i \in DOMAIN table : (\E j \in 1..Len(PathOf(i)') : PathOf(i)'[j] = m)
          <=> (\E j \in 1..Len(PathOf(i)) : PathOf(i)[j] = m) \/ (i = bk /\ m = n)
    BY <2>1, <1>0, <1>1
  <2> QED BY <2>2, <1>1, <1>7 DEF InChain
<1>11. Owners' = Owners \ {c} /\ Uncounted' = Uncounted \ {c}
  BY <1>4, <1>6 DEF Owners, Uncounted
<1>12. \A b \in Owners : b \in Caller /\ call[b].mine \in Node /\ ~InChain(call[b].mine)
                         /\ (b # c => call[b].mine # n)
  BY <1>0, <1>1 DEF MapInv, CallFits, Owners, NodesFit
<1>13. MapTypeOK'
  <2>1. call' \in [Caller -> CallRec]
    BY <1>2, <1>4, <1>5
  <2>2. table \in [0..usage.buckets - 1 -> BucketRec] /\ num_elements \in Int
    BY DEF MapInv, MapTypeOK
  <2>3. table' \in [0..usage.buckets - 1 -> BucketRec] /\ num_elements' \in Int
    BY <2>2, <1>1, <1>8
  <2> QED BY <2>1, <2>3, <1>1, <1>8 DEF MapInv, MapTypeOK
<1>14. \A k : IndexIn(table', k) = IndexIn(table, k)
  BY <1>7 DEF IndexIn, Size
<1>15. ASSUME NEW i \in DOMAIN table PROVE BucketFits(i)'
  <2>1. BucketFits(i)
    BY DEF MapInv
  <2>2. NextOf(node)' = NextOf(node')
    BY DEF NextOf
  <2>3. CASE i = bk
    <3>1. \A j \in 1..Len(Append(p, n)) : node'[Append(p, n)[j]].state = "live"
             /\ IndexIn(table', node'[Append(p, n)[j]].key) = bk
      <4> TAKE j \in 1..Len(Append(p, n))
      <4>1. CASE j = Len(p) + 1
        BY <4>1, <1>1, <1>3, <1>9, <1>14
      <4>2. CASE j \in 1..Len(p)
        <5>1. p[j] \in Node /\ node[p[j]].state = "live" /\ IndexIn(table, node[p[j]].key) = bk
          BY <4>2, <1>0, <1>1, InOneChain
        <5> QED BY <4>2, <5>1, <1>1, <1>9, <1>14
      <4> QED BY <4>1, <4>2, <1>9
    <3>2. LastOf(Append(p, n)) = n
      BY <1>9 DEF LastOf
    <3> QED BY <2>2, <2>3, <3>1, <3>2, <1>1 DEF BucketFits
  <2>4. CASE i # bk
    <3>1. table'[i] = table[i] /\ PathOf(i)' = PathOf(i)
          /\ Follows(PathOf(i), NextOf(node'), table'[i].head, Null)
      BY <2>4, <1>1, <1>7
    <3>2. table[i].mutex # NoCaller => table[i].mutex \in Caller /\ table[i].mutex # c
      BY <2>1, <2>4, <1>0 DEF BucketFits, MapInv, MapTypeOK, BucketRec
    <3>3. Linking(i)' <=> Linking(i)
      BY <3>1, <3>2, <1>6 DEF Linking
    <3>4. \A j \in 1..Len(PathOf(i)) : node'[PathOf(i)[j]].state = node[PathOf(i)[j]].state
                                       /\ node'[PathOf(i)[j]].key = node[PathOf(i)[j]].key
      BY <1>1, InOneChain
    <3> QED BY <2>1, <2>2, <3>1, <3>2, <3>3, <3>4, <1>6, <1>14 DEF BucketFits
  <2> QED BY <2>3, <2>4
<1>16. ASSUME NEW b \in Caller, b # c PROVE CallFits(b)'
  <2>1. CallFits(b) /\ call[b] \in CallRec /\ call'[b] = call[b]
    BY <1>2, <1>6, <1>16 DEF MapInv
  <2>2. call[b].at \notin {"out", "index"} => call[b].bucket \in DOMAIN table
    BY <2>1, Homes DEF CallFits, MapInv, CallRec
  <2>3. call[b].at \in {"link", "delete"} => table[call[b].bucket].mutex = b /\ call[b].bucket # bk
    BY <2>1, <1>3, <1>16 DEF CallFits
  <2>4. call[b].at \in {"link", "delete"} => table'[call[b].bucket] = table[call[b].bucket]
    BY <2>2, <2>3, <1>7
  <2>5. call[b].at = "link" => Chain(node', table'[call[b].bucket].head) = PathOf(call[b].bucket)
    BY <2>2, <2>3, <1>1 DEF PathOf
  <2>6. b \in Owners => ~InChain(call[b].mine) /\ node[call[b].mine].state = "live"
                        /\ call[b].mine \in Node /\ call[b].mine # n
    BY <2>1, <1>12, <1>16 DEF CallFits
  <2>7. InChain(call[b].mine)' <=> InChain(call[b].mine) \/ call[b].mine = n
    BY <1>10, <2>1
  <2>8. call[b].at = "walk" => WalkFits(call[b])'
    <3> SUFFICES ASSUME call[b].at = "walk" PROVE WalkFits(call[b])'
      OBVIOUS
    <3>1. PICK i : i = call[b].bucket /\ i \in DOMAIN table
      BY <2>2
    <3>2. WalkFits(call[b])
      BY <2>1 DEF CallFits
    <3>3. \A l \in 1..Len(PathOf(i)) : PathOf(i)[l] \in Node /\ node'[PathOf(i)[l]].key = node[PathOf(i)[l]].key
      BY <1>1, <3>1, InOneChain
    <3>4. Len(PathOf(i)) \in Nat
      BY <3>1 DEF MapInv, BucketFits, Follows
    <3>5. /\ Len(PathOf(i)') \in Nat /\ Len(PathOf(i)') >= Len(PathOf(i))
          /\ \A l \in 1..Len(PathOf(i)) : PathOf(i)'[l] = PathOf(i)[l]
      BY <3>1, <3>4, <1>0, <1>1, <1>9
    <3>6. PathOf(call[b].bucket)' = PathOf(i)'
      BY <3>1, <2>1
    <3> HIDE <3>6
    <3>7. WalkFits(call[b])' <=>
            LET q == PathOf(i)'
            IN  /\ "find" \in usage.calls
                /\ call[b].mine = Null => ~call[b].sure
                /\ call[b].mine # Null => \E j \in 1..Len(q) :
                       q[j] = call[b].mine
                       /\ (call[b].sure => \E l \in j..Len(q) : node'[q[l]].key = call[b].key)
      BY <3>6, <2>1, <1>8 DEF WalkFits
    <3> QED BY <3>1, <3>2, <3>3, <3>4, <3>5, <3>7 DEF WalkFits
  <2> QED BY <2>1, <2>3, <2>4, <2>5, <2>6, <2>7, <2>8, <1>1, <1>7, <1>8, OtherCallFits
<1>17. CallFits(c)'
  BY <1>4, <1>6, <1>11 DEF CallFits, Uncounted
<1>18. CountedNodes' = CountedNodes \cup {n} /\ n \notin CountedNodes
  <2>1. Uncounted \subseteq Owners /\ Uncounted \subseteq Caller
    BY DEF Uncounted, Owners
  <2>2. n \notin CountedNodes
    BY <1>0, <1>1 DEF CountedNodes
  <2>3. n \in CountedNodes'
    BY <2>1, <1>1, <1>3, <1>6, <1>11, <1>12 DEF CountedNodes
  <2>4. \A m \in Node : m # n => (m \in CountedNodes <=> m \in CountedNodes')
    BY <2>1, <1>0, <1>1, <1>6, <1>11 DEF CountedNodes
  <2> QED BY <2>2, <2>3, <2>4 DEF CountedNodes
<1>19. NodesFit'
  <2>1. NodesFit
    BY DEF MapInv
  <2>2. (\A a, b \in Owners : call[a].mine = call[b].mine => a = b)'
    BY <2>1, <1>6, <1>11, <1>12 DEF NodesFit
  <2>3. (\A m \in Node : node[m].state = "live" => InChain(m) \/ \E a \in Owners : call[a].mine = m)'
    BY <2>1, <1>0, <1>1, <1>6, <1>10, <1>11, <1>12 DEF NodesFit
  <2>4. (\A m \in Node : node[m].state # "unused" => \A l \in 1..m : node[l].state # "unused")'
    <3>1. \A m \in Node : 1..m \subseteq Node
      BY MapAssumption DEF Node
    <3> QED BY <2>1, <3>1, <1>1 DEF NodesFit
  <2>5. Cardinality(CountedNodes \cup {n}) = Cardinality(CountedNodes) + 1
    <3>1. IsFiniteSet(CountedNodes)
      BY NodeFacts DEF CountedNodes
    <3> QED BY <3>1, <1>18, FS_AddElement
  <2> QED BY <2>1, <2>2, <2>3, <2>4, <2>5, <1>8, <1>18 DEF NodesFit
<1>20. MapInv'
  BY <1>7, <1>13, <1>15, <1>16, <1>17, <1>19 DEF MapInv
<1> QED BY <1>1, <1>3, <1>10, <1>20

\* q is p without its i-th node; onward leads past that node, and elsewhere where next does.
IsWithout(q, p, i) ==
    Len(q) = Len(p) - 1 /\ \A j \in 1..Len(q) : q[j] = IF j < i THEN p[j] ELSE p[j + 1]
LeadsPast(onward, next, p, i) ==
    \A j \in 1..Len(p) : onward[p[j]] = IF j = i - 1 THEN next[p[i]] ELSE next[p[j]]

LEMMA FollowsWithout ==
  ASSUME NEW N, NEW null, null \notin N, NEW next \in [N -> N \cup {null}],
         NEW onward \in [N -> N \cup {null}], NEW first, NEW p, NEW i \in 1..Len(p),
         Follows(p, next, first, null), LeadsPast(onward, next, p, i),
         NEW q \in Seq(N), IsWithout(q, p, i)
  PROVE  Follows(q, onward, IF i = 1 THEN next[p[1]] ELSE first, null)
<1>1. /\ p \in Seq(N) /\ Len(p) \in Nat /\ \A j \in 1..Len(p) : p[j] \in N
      /\ \A j, k \in 1..Len(p) : p[j] = p[k] => j = k
      /\ first = IF p = <<>> THEN null ELSE p[1]
      /\ \A j \in 1..Len(p) : next[p[j]] = IF j = Len(p) THEN null ELSE p[j + 1]
  BY DEF Follows
<1>2. Len(p) - 1 \in Nat
  BY <1>1
<1>3. q \in Seq(N) /\ Len(q) = Len(p) - 1
      /\ \A j \in 1..Len(q) : q[j] = IF j < i THEN p[j] ELSE p[j + 1]
  BY DEF IsWithout
<1>4. \A j, k \in 1..Len(q) : q[j] = q[k] => j = k
  <2> TAKE j, k \in 1..Len(q)
  <2> DEFINE b(l) == IF l < i THEN l ELSE l + 1
  <2>1. b(j) \in 1..Len(p) /\ b(k) \in 1..Len(p) /\ q[j] = p[b(j)] /\ q[k] = p[b(k)]
    BY <1>1, <1>3
  <2>2. b(j) = b(k) => j = k
    BY <1>3, <1>2
  <2> HIDE DEF b
  <2> QED BY <2>1, <2>2, <1>1
<1>5. (IF i = 1 THEN next[p[1]] ELSE first) = IF q = <<>> THEN null ELSE q[1]
  <2>1. q = <<>> <=> Len(p) = 1
    BY <1>1, <1>3
  <2>2. p # <<>>
    BY <1>1
  <2>3. CASE i = 1
    BY <2>1, <2>3, <1>1, <1>3
  <2>4. CASE i # 1
    <3>1. Len(p) # 1 /\ 1 \in 1..Len(q) /\ 1 < i
      BY <2>4, <1>1, <1>3
    <3>2. q[1] = p[1] /\ q # <<>>
      BY <3>1, <2>1, <1>3
    <3> QED BY <3>2, <2>2, <2>4, <1>1
  <2> QED BY <2>3, <2>4
<1>6. \A j \in 1..Len(q) : onward[q[j]] = IF j = Len(q) THEN null ELSE q[j + 1]
  <2>0. \A j \in 1..Len(p) : onward[p[j]] = IF j = i - 1 THEN next[p[i]] ELSE next[p[j]]
    BY DEF LeadsPast
  <2> TAKE j \in 1..Len(q)
  <2>1. CASE j < i
    <3>1. j \in 1..Len(p) /\ q[j] = p[j] /\ j # Len(p)
      BY <2>1, <1>1, <1>3
    <3>2. CASE j = i - 1
      <4>1. onward[q[j]] = next[p[i]]
        BY <2>0, <3>1, <3>2
      <4> QED BY <4>1, <3>2, <1>1, <1>3
    <3>3. CASE j # i - 1
      <4>1. onward[q[j]] = p[j + 1]
        BY <2>0, <3>1, <3>3, <1>1
      <4>2. j + 1 \in 1..Len(q) /\ j + 1 < i /\ j # Len(q)
        BY <2>1, <3>3, <1>1, <1>3
      <4>3. q[j + 1] = p[j + 1]
        BY <4>2, <1>3
      <4> QED BY <4>1, <4>2, <4>3
    <3> QED BY <3>2, <3>3
  <2>2. CASE ~(j < i)
    <3>1. j + 1 \in 1..Len(p) /\ q[j] = p[j + 1] /\ j + 1 # i - 1
      BY <2>2, <1>1, <1>3
    <3>2. onward[q[j]] = IF j + 1 = Len(p) THEN null ELSE p[j + 1 + 1]
      BY <2>0, <3>1, <1>1
    <3>3. CASE j = Len(q)
      BY <3>2, <3>3, <1>1, <1>3
    <3>4. CASE j # Len(q)
      <4>1. j + 1 \in 1..Len(q) /\ ~(j + 1 < i) /\ j + 1 # Len(p)
        BY <2>2, <3>4, <1>1, <1>3
      <4>2. q[j + 1] = p[j + 1 + 1]
        BY <4>1, <1>3
      <4> QED BY <4>1, <4>2, <3>2, <3>4
    <3> QED BY <3>3, <3>4
  <2> QED BY <2>1, <2>2
<1>7. Follows(q, onward, IF i = 1 THEN next[p[1]] ELSE first, null)
  BY <1>3, <1>4, <1>5, <1>6 DEF Follows
<1> QED BY <1>7

\* What remove does to the chain p of bucket bk: q is left, all but one node in their order.
UnlinkOf(c, bk, p, i, q) ==
    /\ Len(p) \in Nat /\ \A j \in 1..Len(p) : p[j] \in Node
    /\ \A j, k \in 1..Len(p) : p[j] = p[k] => j = k
    /\ bk \in DOMAIN table /\ table[bk].mutex = NoCaller
    /\ node[p[i]].key = call[c].key
    /\ call' = [call EXCEPT ![c] = [call[c] EXCEPT !.at = "delete", !.mine = p[i]]]
    /\ node' \in [Node -> NodeRec]
    /\ \A m \in Node : node'[m].state = node[m].state /\ node'[m].key = node[m].key
                       /\ (~InChain(m) => node'[m].next = node[m].next)
    /\ table' = [table EXCEPT ![bk] = table'[bk]]
    /\ table'[bk] \in BucketRec /\ table'[bk].mutex = c /\ table'[bk].tail = LastOf(q)
    /\ q \in Seq(Node) /\ IsWithout(q, p, i)
    /\ PathOf(bk)' = q
    /\ Follows(q, NextOf(node'), table'[bk].head, Null)
    /\ \A b \in DOMAIN table : b # bk =>
           PathOf(b)' = PathOf(b) /\ Follows(PathOf(b), NextOf(node'), table'[b].head, Null)

LEMMA UnlinkedChain ==
  ASSUME MapInv, NEW c \in usage.callers, Unlink(c),
         NEW bk, bk = call[c].bucket, NEW p, p = PathOf(bk)
  PROVE  \E q : \E i \in 1..Len(p) : UnlinkOf(c, bk, p, i, q)
<1>1. c \in Caller /\ call[c].at = "unlink" /\ call[c] \in CallRec
      /\ node \in [Node -> NodeRec] /\ call \in [Caller -> CallRec] /\ CallFits(c)
  BY Homes DEF MapInv, MapTypeOK, Unlink, At
<1>2. bk \in DOMAIN table
  BY <1>1, Homes DEF CallFits, MapInv, CallRec
<1>3. table[bk] \in BucketRec /\ Follows(p, NextOf(node), table[bk].head, Null) /\ table[bk].mutex = NoCaller
      /\ table[bk].tail = LastOf(p)
  BY <1>2 DEF MapInv, MapTypeOK, BucketFits, Unlink, Unlocked, Linking
<1>4. /\ p \in Seq(Node) /\ Len(p) \in Nat
      /\ \A j \in 1..Len(p) : p[j] \in Node /\ InChain(p[j]) /\ IndexIn(table, node[p[j]].key) = bk
      /\ \A k, j \in 1..Len(p) : p[k] = p[j] => k = j
  BY <1>2, <1>3, InOneChain DEF Follows
<1> DEFINE prev(i) == IF i = 1 THEN Null ELSE p[i - 1]
<1>5. PICK i \in 1..Len(p) :
         /\ node[p[i]].key = call[c].key
         /\ call' = [call EXCEPT ![c].at = "delete", ![c].mine = p[i]]
         /\ table' = [table EXCEPT ![bk].mutex = c,
                                   ![bk].head = IF prev(i) = Null THEN node[p[i]].next ELSE @,
                                   ![bk].tail = IF @ = p[i] THEN prev(i) ELSE @]
         /\ node' = IF prev(i) = Null THEN node ELSE [node EXCEPT ![prev(i)].next = node[p[i]].next]
  <2> DEFINE path == Chain(node, table[call[c].bucket].head)
             before(i) == IF i = 1 THEN Null ELSE path[i - 1]
  <2>1. \E i \in DOMAIN path :
         /\ node[path[i]].key = call[c].key
         /\ call' = [call EXCEPT ![c].at = "delete", ![c].mine = path[i]]
         /\ table' = [table EXCEPT ![call[c].bucket].mutex = c,
                                   ![call[c].bucket].head = IF before(i) = Null THEN node[path[i]].next ELSE @,
                                   ![call[c].bucket].tail = IF @ = path[i] THEN before(i) ELSE @]
         /\ node' = IF before(i) = Null THEN node
                    ELSE [node EXCEPT ![before(i)].next = node[path[i]].next]
    BY DEF Unlink
  <2>2. path = p /\ DOMAIN p = 1..Len(p) /\ \A i : before(i) = prev(i)
    BY <1>4 DEF PathOf
  <2> HIDE DEF path, before, prev
  <2>3. PICK i \in DOMAIN path :
         /\ node[path[i]].key = call[c].key
         /\ call' = [call EXCEPT ![c].at = "delete", ![c].mine = path[i]]
         /\ table' = [table EXCEPT ![call[c].bucket].mutex = c,
                                   ![call[c].bucket].head = IF before(i) = Null THEN node[path[i]].next ELSE @,
                                   ![call[c].bucket].tail = IF @ = path[i] THEN before(i) ELSE @]
         /\ node' = IF before(i) = Null THEN node
                    ELSE [node EXCEPT ![before(i)].next = node[path[i]].next]
    BY <2>1
  <2>4. before(i) = prev(i) /\ path[i] = p[i] /\ i \in 1..Len(p)
    BY <2>2
  <2> QED BY <2>3, <2>4
<1> DEFINE t == [table[bk] EXCEPT !.mutex = c,
                                  !.head = IF prev(i) = Null THEN node[p[i]].next ELSE @,
                                  !.tail = IF @ = p[i] THEN prev(i) ELSE @]
<1>6. call' = [call EXCEPT ![c] = [call[c] EXCEPT !.at = "delete", !.mine = p[i]]]
  BY <1>1, <1>5 DEF CallRec
<1>7. table' = [table EXCEPT ![bk] = t]
  BY <1>2, <1>3, <1>5 DEF MapInv, MapTypeOK, BucketRec
<1>8. prev(i) \in Node \cup {Null} /\ (prev(i) = Null <=> i = 1)
  BY <1>4, NodeFacts
<1>9. /\ t \in BucketRec /\ t.mutex = c
      /\ t.head = IF i = 1 THEN node[p[1]].next ELSE table[bk].head
      /\ t.tail = IF LastOf(p) = p[i] THEN prev(i) ELSE LastOf(p)
  <2>1. node[p[i]].next \in Node \cup {Null} /\ p[i] \in Node
    BY <1>1, <1>4 DEF NodeRec
  <2> HIDE DEF prev
  <2> QED BY <2>1, <1>1, <1>3, <1>8 DEF BucketRec
<1> HIDE DEF t
<1>10. table'[bk] = t /\ \A b \in DOMAIN table : b # bk => table'[b] = table[b]
  BY <1>2, <1>7
<1>11. /\ node' \in [Node -> NodeRec]
       /\ \A m \in Node : /\ node'[m].state = node[m].state /\ node'[m].key = node[m].key
                          /\ node'[m].next = IF i # 1 /\ m = prev(i) THEN node[p[i]].next ELSE node[m].next
  <2>1. node[p[i]].next \in Node \cup {Null}
    BY <1>1, <1>4 DEF NodeRec
  <2> HIDE DEF prev
  <2> QED BY <2>1, <1>1, <1>5, <1>8 DEF NodeRec
<1>12. NextOf(node) \in [Node -> Node \cup {Null}] /\ NextOf(node') \in [Node -> Node \cup {Null}]
  BY <1>1, <1>11 DEF NextOf, NodeRec
<1>13. \A j \in 1..Len(p) : NextOf(node')[p[j]] = IF j = i - 1 THEN NextOf(node)[p[i]] ELSE NextOf(node)[p[j]]
  <2> TAKE j \in 1..Len(p)
  <2>1. (i # 1 /\ p[j] = prev(i)) <=> j = i - 1
    BY <1>4
  <2> HIDE DEF prev
  <2> QED BY <2>1, <1>4, <1>11 DEF NextOf
<1>14. PICK q : /\ Follows(q, NextOf(node'), IF i = 1 THEN NextOf(node)[p[1]] ELSE table[bk].head, Null)
                /\ Len(q) = Len(p) - 1
                /\ \A j \in 1..Len(q) : q[j] = IF j < i THEN p[j] ELSE p[j + 1]
  <2>1. PICK next, onward : next = NextOf(node) /\ onward = NextOf(node')
    OBVIOUS
  <2>2. PICK first : first = table[bk].head
    OBVIOUS
  <2>3. /\ i \in 1..Len(p) /\ next \in [Node -> Node \cup {Null}] /\ onward \in [Node -> Node \cup {Null}]
        /\ Null \notin Node /\ Follows(p, next, first, Null)
        /\ LeadsPast(onward, next, p, i)
    BY <2>1, <2>2, <1>3, <1>5, <1>12, <1>13, NodeFacts DEF LeadsPast
  <2>4. PICK q : q = [j \in 1..Len(p) - 1 |-> IF j < i THEN p[j] ELSE p[j + 1]]
    OBVIOUS
  <2>6. Len(p) - 1 \in Nat
    <3>1. Len(p) \in Nat
      BY <1>4
    <3> QED BY <3>1
  <2>7. q \in Seq(Node) /\ IsWithout(q, p, i)
    BY <2>4, <2>6, <1>4 DEF IsWithout
  <2> HIDE <2>4
  <2>5. Follows(q, onward, IF i = 1 THEN next[p[1]] ELSE first, Null)
    BY <2>3, <2>7, FollowsWithout
  <2> QED BY <2>1, <2>2, <2>5, <2>7 DEF IsWithout
<1>15. Follows(q, NextOf(node'), table'[bk].head, Null)
  <2>1. NextOf(node)[p[1]] = node[p[1]].next
    BY <1>4 DEF NextOf
  <2> QED BY <2>1, <1>9, <1>10, <1>14
<1>16. q \in Seq(Node)
  BY <1>15 DEF Follows, NextOf
<1>17. PathOf(bk)' = q
  BY <1>11, <1>15, ChainIs DEF PathOf
<1>18. t.tail = LastOf(q)
  <2>1. LastOf(p) = p[Len(p)] /\ Len(p) \in 1..Len(p)
    BY <1>4 DEF LastOf
  <2>2. LastOf(p) = p[i] <=> i = Len(p)
    BY <2>1, <1>4
  <2>3. q = <<>> <=> Len(p) = 1
    <3>1. q = <<>> <=> Len(q) = 0
      BY <1>16
    <3> QED BY <3>1, <1>14, <1>4
  <2>4. CASE i = Len(p)
    <3>1. CASE i = 1
      BY <2>2, <2>3, <2>4, <3>1, <1>9 DEF LastOf
    <3>2. CASE i # 1
      <4>1. LastOf(q) = q[Len(p) - 1] /\ Len(p) - 1 \in 1..Len(q)
        BY <2>3, <2>4, <3>2, <1>4, <1>14 DEF LastOf
      <4> QED BY <4>1, <2>2, <2>4, <3>2, <1>4, <1>9, <1>14
    <3> QED BY <3>1, <3>2
  <2>5. CASE i # Len(p)
    <3>1. LastOf(q) = q[Len(p) - 1] /\ Len(p) - 1 \in 1..Len(q)
      BY <2>3, <2>5, <1>4, <1>14 DEF LastOf
    <3>2. q[Len(p) - 1] = p[Len(p)]
      BY <3>1, <2>5, <1>4, <1>14
    <3> QED BY <3>1, <3>2, <2>1, <2>2, <2>5, <1>9
  <2> QED BY <2>4, <2>5
<1>19. ASSUME NEW b \in DOMAIN table, b # bk
       PROVE  PathOf(b)' = PathOf(b) /\ Follows(PathOf(b), NextOf(node'), table'[b].head, Null)
  <2>1. \A j \in 1..Len(PathOf(b)) : node'[PathOf(b)[j]].next = node[PathOf(b)[j]].next
    <3> TAKE j \in 1..Len(PathOf(b))
    <3>1. PathOf(b)[j] \in Node /\ IndexIn(table, node[PathOf(b)[j]].key) = b
      BY InOneChain
    <3>2. i # 1 => IndexIn(table, node[prev(i)].key) = bk
      BY <1>4
    <3> HIDE DEF prev
    <3> QED BY <3>1, <3>2, <1>11, <1>19
  <2> QED BY <2>1, <1>10, <1>11, <1>19, ChainKept
<1>20. \A m \in Node : ~InChain(m) => node'[m].next = node[m].next
  BY <1>4, <1>11
<1>21. table' = [table EXCEPT ![bk] = table'[bk]]
  BY <1>7, <1>10
<1>22. /\ Len(p) \in Nat /\ \A j \in 1..Len(p) : p[j] \in Node
       /\ \A j, k \in 1..Len(p) : p[j] = p[k] => j = k
       /\ bk \in DOMAIN table /\ table[bk].mutex = NoCaller
       /\ node[p[i]].key = call[c].key
       /\ call' = [call EXCEPT ![c] = [call[c] EXCEPT !.at = "delete", !.mine = p[i]]]
       /\ node' \in [Node -> NodeRec]
       /\ \A m \in Node : node'[m].state = node[m].state /\ node'[m].key = node[m].key
                          /\ (~InChain(m) => node'[m].next = node[m].next)
  BY <1>2, <1>3, <1>4, <1>5, <1>6, <1>11, <1>20
<1>23. /\ table' = [table EXCEPT ![bk] = table'[bk]]
       /\ table'[bk] \in BucketRec /\ table'[bk].mutex = c /\ table'[bk].tail = LastOf(q)
       /\ q \in Seq(Node) /\ IsWithout(q, p, i)
       /\ PathOf(bk)' = q
       /\ Follows(q, NextOf(node'), table'[bk].head, Null)
  BY <1>9, <1>10, <1>14, <1>15, <1>16, <1>17, <1>18, <1>21 DEF IsWithout
<1> QED BY <1>19, <1>22, <1>23 DEF UnlinkOf

LEMMA UnlinkFits ==
  ASSUME MapInv, NEW c \in usage.callers, Unlink(c)
  PROVE  /\ MapInv'
         /\ \E n \in Node : InChain(n) /\ \A m \in Node : /\ InChain(m)' <=> InChain(m) /\ m # n
                                                       /\ node'[m].key = node[m].key
<1>0. PICK bk, p : bk = call[c].bucket /\ p = PathOf(bk)
  OBVIOUS
<1>some. PICK q : \E j \in 1..Len(p) : UnlinkOf(c, bk, p, j, q)
  BY <1>0, UnlinkedChain
<1>unlinked. PICK i \in 1..Len(p) : UnlinkOf(c, bk, p, i, q)
  BY <1>some
<1>1. /\ Len(p) \in Nat /\ \A j \in 1..Len(p) : p[j] \in Node
      /\ \A j, k \in 1..Len(p) : p[j] = p[k] => j = k
      /\ bk \in DOMAIN table /\ table[bk].mutex = NoCaller
      /\ node[p[i]].key = call[c].key
      /\ call' = [call EXCEPT ![c] = [call[c] EXCEPT !.at = "delete", !.mine = p[i]]]
      /\ node' \in [Node -> NodeRec]
      /\ \A m \in Node : node'[m].state = node[m].state /\ node'[m].key = node[m].key
                         /\ (~InChain(m) => node'[m].next = node[m].next)
      /\ table' = [table EXCEPT ![bk] = table'[bk]]
      /\ table'[bk] \in BucketRec /\ table'[bk].mutex = c /\ table'[bk].tail = LastOf(q)
      /\ q \in Seq(Node) /\ Len(q) = Len(p) - 1
      /\ \A j \in 1..Len(q) : q[j] = IF j < i THEN p[j] ELSE p[j + 1]
      /\ PathOf(bk)' = q
      /\ Follows(q, NextOf(node'), table'[bk].head, Null)
      /\ \A b \in DOMAIN table : b # bk =>
             PathOf(b)' = PathOf(b) /\ Follows(PathOf(b), NextOf(node'), table'[b].head, Null)
  BY <1>unlinked DEF UnlinkOf, IsWithout
<1>2. c \in Caller /\ call[c].at = "unlink" /\ call[c] \in CallRec /\ call \in [Caller -> CallRec]
      /\ CallFits(c)
  BY Homes DEF MapInv, MapTypeOK, Unlink, At
<1>3. PICK n : n = p[i] /\ n \in Node /\ InChain(n) /\ node[n].state = "live" /\ IndexIn(table, node[n].key) = bk
  BY <1>0, <1>1, InOneChain
<1>4. PICK d : d = [call[c] EXCEPT !.at = "delete", !.mine = n]
  OBVIOUS
<1>5. /\ d \in CallRec /\ d.at = "delete" /\ d.mine = n /\ d.key = call[c].key /\ d.bucket = bk
      /\ d.of = call[c].of
  BY <1>0, <1>2, <1>3, <1>4 DEF CallRec
<1>6. call' = [call EXCEPT ![c] = d]
  BY <1>1, <1>3, <1>4
<1>7. call'[c] = d /\ \A b \in Caller : b # c => call'[b] = call[b]
  BY <1>2, <1>6
<1>8. (\A b \in DOMAIN table : b # bk => table'[b] = table[b]) /\ DOMAIN table' = DOMAIN table
  BY <1>1
<1>9. UNCHANGED <<usage, tables, resize_mutex, num_elements>>
  BY DEF Unlink
<1>10. \A m : (\E j \in 1..Len(q) : q[j] = m) <=> (\E j \in 1..Len(p) : p[j] = m) /\ m # n
  <2> TAKE m
  <2>1. ASSUME NEW j \in 1..Len(q), q[j] = m PROVE (\E k \in 1..Len(p) : p[k] = m) /\ m # n
    <3>1. j \in 1..Len(p) /\ j + 1 \in 1..Len(p)
      BY <1>1
    <3>2. CASE j < i
      BY <2>1, <3>1, <3>2, <1>1, <1>3
    <3>3. CASE ~(j < i)
      BY <2>1, <3>1, <3>3, <1>1, <1>3
    <3> QED BY <3>2, <3>3
  <2>2. ASSUME NEW k \in 1..Len(p), p[k] = m, m # n PROVE \E j \in 1..Len(q) : q[j] = m
    <3>1. k # i
      BY <2>2, <1>3
    <3>2. CASE k < i
      <4>1. k \in 1..Len(q) /\ q[k] = p[k]
        BY <3>2, <1>1
      <4> QED BY <4>1, <2>2
    <3>3. CASE k > i
      <4>1. k - 1 \in 1..Len(q) /\ ~(k - 1 < i) /\ k - 1 + 1 = k
        BY <3>3, <1>1
      <4>2. q[k - 1] = p[k]
        BY <4>1, <1>1
      <4> QED BY <4>1, <4>2, <2>2
    <3> QED BY <3>1, <3>2, <3>3
  <2> QED BY <2>1, <2>2
<1>11. \A m : InChain(m)' <=> InChain(m) /\ m # n
  <2> TAKE m
  <2>1. ASSUME NEW b \in DOMAIN table, b # bk
        PROVE  (\E j \in 1..Len(PathOf(b)') : PathOf(b)'[j] = m)
                 <=> (\E j \in 1..Len(PathOf(b)) : PathOf(b)[j] = m) /\ m # n
    <3>1. \A j \in 1..Len(PathOf(b)) : PathOf(b)[j] # n
      BY <2>1, <1>3, InOneChain
    <3>2. PathOf(b)' = PathOf(b)
      BY <1>1, <2>1
    <3> QED BY <3>1, <3>2
  <2>2. (\E j \in 1..Len(PathOf(bk)') : PathOf(bk)'[j] = m)
          <=> (\E j \in 1..Len(PathOf(bk)) : PathOf(bk)[j] = m) /\ m # n
    <3>1. PathOf(bk)' = q /\ PathOf(bk) = p
      BY <1>0, <1>1
    <3> QED BY <3>1, <1>10
  <2>3. \A b \in DOMAIN table : (\E j \in 1..Len(PathOf(b)') : PathOf(b)'[j] = m)
                 <=> (\E j \in 1..Len(PathOf(b)) : PathOf(b)[j] = m) /\ m # n
    BY <2>1, <2>2
  <2> QED BY <2>3, <1>8 DEF InChain
<1>12. Owners' = Owners \cup {c} /\ Uncounted' = Uncounted /\ c \notin Owners /\ c \notin Uncounted
  BY <1>2, <1>5, <1>7 DEF Owners, Uncounted
<1>13. \A b \in Owners : b \in Caller /\ b # c /\ call[b].mine \in Node /\ ~InChain(call[b].mine)
                         /\ call[b].mine # n
  BY <1>3, <1>12 DEF MapInv, CallFits, Owners
<1>14. MapTypeOK'
  <2>1. call' \in [Caller -> CallRec]
    BY <1>2, <1>5, <1>6
  <2>2. table \in [0..usage.buckets - 1 -> BucketRec]
    BY DEF MapInv, MapTypeOK
  <2>3. table' \in [0..usage.buckets - 1 -> BucketRec]
    BY <2>2, <1>1
  <2> QED BY <2>1, <2>3, <1>1, <1>9 DEF MapInv, MapTypeOK
<1>15. \A k : IndexIn(table', k) = IndexIn(table, k)
  BY <1>8 DEF IndexIn, Size
<1>16. ASSUME NEW b \in DOMAIN table PROVE BucketFits(b)'
  <2>1. BucketFits(b)
    BY DEF MapInv
  <2>2. NextOf(node)' = NextOf(node')
    BY DEF NextOf
  <2>3. CASE b = bk
    <3>1. \A j \in 1..Len(q) : node'[q[j]].state = "live" /\ IndexIn(table', node'[q[j]].key) = bk
      <4> TAKE j \in 1..Len(q)
      <4>1. PICK k \in 1..Len(p) : q[j] = p[k]
        BY <1>10
      <4>2. p[k] \in Node /\ node[p[k]].state = "live" /\ IndexIn(table, node[p[k]].key) = bk
        BY <1>0, <1>1, InOneChain
      <4> QED BY <4>1, <4>2, <1>1, <1>15
    <3>2. table'[bk].mutex = c /\ call'[c].at = "delete" /\ call'[c].bucket = bk /\ ~Linking(bk)'
      BY <1>1, <1>5, <1>7 DEF Linking
    <3> QED BY <2>2, <2>3, <3>1, <3>2, <1>1 DEF BucketFits
  <2>4. CASE b # bk
    <3>1. table'[b] = table[b] /\ PathOf(b)' = PathOf(b)
          /\ Follows(PathOf(b), NextOf(node'), table'[b].head, Null)
      BY <2>4, <1>1, <1>8
    <3>2. table[b].mutex # NoCaller => table[b].mutex \in Caller /\ table[b].mutex # c
      BY <2>1, <1>2 DEF BucketFits, MapInv, MapTypeOK, BucketRec
    <3>3. Linking(b)' <=> Linking(b)
      BY <3>1, <3>2, <1>7 DEF Linking
    <3>4. \A j \in 1..Len(PathOf(b)) : node'[PathOf(b)[j]].state = node[PathOf(b)[j]].state
                                       /\ node'[PathOf(b)[j]].key = node[PathOf(b)[j]].key
      BY <1>1, InOneChain
    <3> QED BY <2>1, <2>2, <3>1, <3>2, <3>3, <3>4, <1>7, <1>15 DEF BucketFits
  <2> QED BY <2>3, <2>4
<1>17. ASSUME NEW b \in Caller, b # c PROVE CallFits(b)'
  <2>1. CallFits(b) /\ call[b] \in CallRec /\ call'[b] = call[b]
    BY <1>2, <1>7, <1>17 DEF MapInv
  <2>2. call[b].at \notin {"out", "index"} => call[b].bucket \in DOMAIN table
    BY <2>1, Homes DEF CallFits, MapInv, CallRec
  <2>3. call[b].at \in {"link", "delete"} => table[call[b].bucket].mutex = b /\ call[b].bucket # bk
    BY <2>1, <1>1, CallerAssumption DEF CallFits
  <2>4. call[b].at \in {"link", "delete"} => table'[call[b].bucket] = table[call[b].bucket]
    BY <2>2, <2>3, <1>8
  <2>5. call[b].at = "link" => Chain(node', table'[call[b].bucket].head) = PathOf(call[b].bucket)
    BY <2>2, <2>3, <1>1 DEF PathOf
  <2>6. b \in Owners => ~InChain(call[b].mine) /\ node[call[b].mine].state = "live"
                        /\ call[b].mine \in Node
    BY <2>1, <1>13 DEF CallFits
  <2>7. InChain(call[b].mine)' <=> InChain(call[b].mine) /\ call[b].mine # n
    BY <1>11, <2>1
\* Nobody else is in find: one that is would be a caller, and one remove is under way.
  <2>8. call[b].at # "walk"
    <3> SUFFICES ASSUME call[b].at = "walk" PROVE FALSE
      OBVIOUS
    <3>1. "find" \in usage.calls /\ b \in usage.callers
      BY <2>1 DEF CallFits, WalkFits
    <3>2. "remove" \in usage.calls
      BY <1>2 DEF CallFits
    <3> QED BY <3>1, <3>2, <1>17 DEF MapInv, MapTypeOK, Undisturbed
  <2> QED BY <2>1, <2>3, <2>4, <2>5, <2>6, <2>7, <2>8, <1>1, <1>8, <1>9, OtherCallFits
<1>18. CallFits(c)'
  <2>1. "remove" \in usage.calls /\ call[c].of = 1 /\ bk = IndexIn(table, call[c].key)
    BY <1>0, <1>2 DEF CallFits
  <2>2. c \notin Uncounted'
    BY <1>12
  <2>3. ~(InChain(call[c].mine)')
    BY <1>5, <1>7, <1>11
  <2>4. /\ call'[c].mine \in Node /\ node'[call'[c].mine].state = "live"
        /\ node'[call'[c].mine].key = call'[c].key
    BY <1>1, <1>3, <1>5, <1>7
  <2>5. d.of = 1 /\ d.bucket = IndexIn(table', d.key) /\ table'[d.bucket].mutex = c
    <3>1. IndexIn(table', d.key) = IndexIn(table, d.key)
      BY <1>15
    <3> QED BY <3>1, <2>1, <1>1, <1>5
  <2> QED BY <2>1, <2>2, <2>3, <2>4, <2>5, <1>5, <1>7, <1>9 DEF CallFits
<1>19. CountedNodes' = CountedNodes
  <2>1. \A b \in Uncounted : call'[b] = call[b]
    BY <1>7, <1>12 DEF Uncounted
  <2> QED BY <2>1, <1>1, <1>12 DEF CountedNodes
<1>20. NodesFit'
  <2>1. NodesFit
    BY DEF MapInv
  <2>2. (\A a, b \in Owners : call[a].mine = call[b].mine => a = b)'
    BY <2>1, <1>5, <1>7, <1>12, <1>13 DEF NodesFit
  <2>3. (\A m \in Node : node[m].state = "live" => InChain(m) \/ \E a \in Owners : call[a].mine = m)'
    <3> SUFFICES ASSUME NEW m \in Node, node'[m].state = "live"
                 PROVE  InChain(m)' \/ \E a \in Owners' : call'[a].mine = m
      OBVIOUS
    <3>1. CASE m = n
      BY <3>1, <1>5, <1>7, <1>12
    <3>2. CASE m # n
      <4>1. InChain(m) \/ \E a \in Owners : call[a].mine = m
        BY <1>1, <2>1 DEF NodesFit
      <4> QED BY <4>1, <3>2, <1>7, <1>11, <1>12, <1>13
    <3> QED BY <3>1, <3>2
  <2>4. (\A m \in Node : node[m].state # "unused" => \A l \in 1..m : node[l].state # "unused")'
    <3>1. \A m \in Node : 1..m \subseteq Node
      BY MapAssumption DEF Node
    <3> QED BY <2>1, <3>1, <1>1 DEF NodesFit
  <2> QED BY <2>1, <2>2, <2>3, <2>4, <1>9, <1>19 DEF NodesFit
<1>21. MapInv'
  BY <1>8, <1>14, <1>16, <1>17, <1>18, <1>20 DEF MapInv
<1> QED BY <1>1, <1>3, <1>11, <1>21

LEMMA DeleteFits ==
  ASSUME MapInv, NEW c \in usage.callers, Delete(c)
  PROVE  MapInv' /\ SameElements
<1>0. PICK bk, n : bk = call[c].bucket /\ n = call[c].mine
  OBVIOUS
<1>1. c \in Caller /\ call[c].at = "delete" /\ call[c] \in CallRec /\ call \in [Caller -> CallRec]
      /\ CallFits(c) /\ node \in [Node -> NodeRec] /\ c \in Owners /\ c \notin Uncounted
  BY Homes DEF MapInv, MapTypeOK, Delete, At, Owners, Uncounted
<1>2. /\ bk \in DOMAIN table /\ table[bk].mutex = c /\ n \in Node /\ node[n].state = "live" /\ ~InChain(n)
  BY <1>0, <1>1, Homes DEF CallFits, MapInv, CallRec
<1>3. table[bk] \in BucketRec
  BY <1>2 DEF MapInv, MapTypeOK
<1>4. PICK t : t = [table[bk] EXCEPT !.mutex = NoCaller]
  OBVIOUS
<1>5. t \in BucketRec /\ t.mutex = NoCaller /\ t.head = table[bk].head /\ t.tail = table[bk].tail
  BY <1>3, <1>4 DEF BucketRec
<1>6. table' = [table EXCEPT ![bk] = t]
  <2>1. table' = [table EXCEPT ![bk].mutex = NoCaller]
    BY <1>0 DEF Delete
  <2> QED BY <2>1, <1>2, <1>4 DEF MapInv, MapTypeOK
<1>7. table'[bk] = t /\ (\A b \in DOMAIN table : b # bk => table'[b] = table[b]) /\ DOMAIN table' = DOMAIN table
  BY <1>2, <1>6
<1>8. PICK gone : gone = [NoNode EXCEPT !.state = "deleted"]
  OBVIOUS
<1>9. gone \in NodeRec /\ gone.state = "deleted"
  BY <1>8, MapAssumption DEF NoNode, Idle, NodeRec
<1>10. node' = [node EXCEPT ![n] = gone]
  BY <1>0, <1>8 DEF Delete
<1>11. node' \in [Node -> NodeRec] /\ node'[n] = gone /\ \A m \in Node : m # n => node'[m] = node[m]
  BY <1>1, <1>2, <1>9, <1>10
<1>12. Idle \in CallRec /\ Idle.at = "out"
  BY MapAssumption DEF Idle, CallRec
<1>13. call' = [call EXCEPT ![c] = Idle]
  BY DEF Delete, Returns
<1>14. call'[c] = Idle /\ \A b \in Caller : b # c => call'[b] = call[b]
  BY <1>1, <1>13
<1>15. UNCHANGED <<usage, tables, resize_mutex>> /\ num_elements' = num_elements - 1
  BY DEF Delete
<1>16. \A b \in DOMAIN table : PathOf(b)' = PathOf(b) /\ Follows(PathOf(b), NextOf(node'), table'[b].head, Null)
  <2> TAKE b \in DOMAIN table
  <2>1. \A j \in 1..Len(PathOf(b)) : node'[PathOf(b)[j]] = node[PathOf(b)[j]]
    BY <1>2, <1>11, InOneChain
  <2>2. table'[b].head = table[b].head
    BY <1>5, <1>7
  <2> QED BY <2>1, <2>2, <1>11, ChainKept
<1>17. \A m : InChain(m)' <=> InChain(m)
  BY <1>7, <1>16 DEF InChain
<1>18. Owners' = Owners \ {c} /\ Uncounted' = Uncounted
  BY <1>1, <1>12, <1>14 DEF Owners, Uncounted
<1>19. \A b \in Owners : b \in Caller /\ call[b].mine \in Node /\ (b # c => call[b].mine # n)
  BY <1>0, <1>1 DEF MapInv, CallFits, Owners, NodesFit
<1>20. MapTypeOK'
  <2>1. call' \in [Caller -> CallRec]
    BY <1>1, <1>12, <1>13
  <2>2. table \in [0..usage.buckets - 1 -> BucketRec] /\ num_elements \in Int
    BY DEF MapInv, MapTypeOK
  <2>3. table' \in [0..usage.buckets - 1 -> BucketRec] /\ num_elements' \in Int
    <3>1. table' \in [0..usage.buckets - 1 -> BucketRec]
      BY <2>2, <1>5, <1>6
    <3>2. num_elements' \in Int
      BY <2>2, <1>15
    <3> QED BY <3>1, <3>2
  <2> QED BY <2>1, <2>3, <1>11, <1>15 DEF MapInv, MapTypeOK
<1>21. \A k : IndexIn(table', k) = IndexIn(table, k)
  BY <1>7 DEF IndexIn, Size
<1>22. ASSUME NEW b \in DOMAIN table PROVE BucketFits(b)'
  <2>1. BucketFits(b)
    BY DEF MapInv
  <2>2. NextOf(node)' = NextOf(node')
    BY DEF NextOf
  <2>3. \A j \in 1..Len(PathOf(b)) : node'[PathOf(b)[j]] = node[PathOf(b)[j]]
    BY <1>2, <1>11, InOneChain
  <2>4. PathOf(b)' = PathOf(b) /\ Follows(PathOf(b), NextOf(node'), table'[b].head, Null)
    BY <1>16
  <2>5. CASE b = bk
    <3>1. ~Linking(bk)
      BY <1>1, <1>2 DEF Linking
    <3> QED BY <2>1, <2>2, <2>3, <2>4, <2>5, <3>1, <1>5, <1>7, <1>21 DEF BucketFits, Linking
  <2>6. CASE b # bk
    <3>1. table'[b] = table[b]
      BY <2>6, <1>7
    <3>2. table[b].mutex # NoCaller => table[b].mutex \in Caller /\ table[b].mutex # c
      BY <2>1, <2>6, <1>0 DEF BucketFits, MapInv, MapTypeOK, BucketRec
    <3>3. Linking(b)' <=> Linking(b)
      BY <3>1, <3>2, <1>14 DEF Linking
    <3> QED BY <2>1, <2>2, <2>3, <2>4, <3>1, <3>2, <3>3, <1>14, <1>21 DEF BucketFits
  <2> QED BY <2>5, <2>6
<1>23. ASSUME NEW b \in Caller, b # c PROVE CallFits(b)'
  <2>1. CallFits(b) /\ call[b] \in CallRec /\ call'[b] = call[b]
    BY <1>1, <1>14, <1>23 DEF MapInv
  <2>2. call[b].at \notin {"out", "index"} => call[b].bucket \in DOMAIN table
    BY <2>1, Homes DEF CallFits, MapInv, CallRec
  <2>3. call[b].at \in {"link", "delete"} => table[call[b].bucket].mutex = b /\ call[b].bucket # bk
    BY <2>1, <1>2, <1>23 DEF CallFits
  <2>4. call[b].at \in {"link", "delete"} => table'[call[b].bucket] = table[call[b].bucket]
    BY <2>2, <2>3, <1>7
  <2>5. call[b].at \in {"link", "walk"} => Chain(node', table'[call[b].bucket].head) = PathOf(call[b].bucket)
    BY <2>2, <1>16 DEF PathOf
  <2>6. b \in Owners => ~InChain(call[b].mine) /\ node[call[b].mine].state = "live"
                        /\ call[b].mine \in Node /\ call[b].mine # n
    BY <2>1, <1>19, <1>23 DEF CallFits
  <2>7. InChain(call[b].mine)' <=> InChain(call[b].mine)
    BY <1>17, <2>1
  <2>8. call[b].at = "walk" => WalkFits(call[b])'
    <3>1. \A m \in Node : InChain(m) => node'[m].key = node[m].key
      BY <1>2, <1>11
    <3> QED BY <3>1, <2>1, <2>5, <1>15, WalkStays
  <2>9. b \in Owners => node'[call[b].mine] = node[call[b].mine]
    BY <2>6, <1>11
  <2> QED BY <2>1, <2>3, <2>4, <2>5, <2>6, <2>7, <2>8, <2>9, <1>7, <1>15, OtherCallFits
<1>24. CallFits(c)'
  BY <1>1, <1>12, <1>14, <1>18 DEF CallFits
<1>25. CountedNodes' = CountedNodes \ {n} /\ n \in CountedNodes
  <2>1. Uncounted \subseteq Owners /\ c \notin Uncounted /\ \A b \in Uncounted : call'[b] = call[b]
    BY <1>1, <1>14 DEF Uncounted, Owners
  <2>2. n \in CountedNodes
    BY <2>1, <1>2, <1>19 DEF CountedNodes
  <2>3. n \notin CountedNodes'
    BY <1>9, <1>11 DEF CountedNodes
  <2>4. \A m \in Node : m # n => (m \in CountedNodes <=> m \in CountedNodes')
    BY <2>1, <1>11, <1>18 DEF CountedNodes
  <2> QED BY <2>2, <2>3, <2>4 DEF CountedNodes
<1>26. NodesFit'
  <2>1. NodesFit
    BY DEF MapInv
  <2>2. (\A a, b \in Owners : call[a].mine = call[b].mine => a = b)'
    BY <2>1, <1>14, <1>18, <1>19 DEF NodesFit
  <2>3. (\A m \in Node : node[m].state = "live" => InChain(m) \/ \E a \in Owners : call[a].mine = m)'
    BY <2>1, <1>0, <1>9, <1>11, <1>14, <1>17, <1>18, <1>19 DEF NodesFit
  <2>4. (\A m \in Node : node[m].state # "unused" => \A l \in 1..m : node[l].state # "unused")'
    <3>1. \A m \in Node : 1..m \subseteq Node
      BY MapAssumption DEF Node
    <3>2. \A m \in Node : node'[m].state = "unused" <=> node[m].state = "unused"
      BY <1>2, <1>9, <1>11
    <3> QED BY <2>1, <3>1, <3>2 DEF NodesFit
  <2>5. Cardinality(CountedNodes \ {n}) = Cardinality(CountedNodes) - 1
    <3>1. IsFiniteSet(CountedNodes)
      BY NodeFacts DEF CountedNodes
    <3> QED BY <3>1, <1>25, FS_RemoveElement
  <2> QED BY <2>1, <2>2, <2>3, <2>4, <2>5, <1>15, <1>25 DEF NodesFit
<1>27. SameElements
  BY <1>2, <1>11, <1>17 DEF SameElements
<1> QED BY <1>7, <1>20, <1>22, <1>23, <1>24, <1>26, <1>27 DEF MapInv

-----------------------------------------------------------------------------
\* No thread resizes, and none clears: every step is one of the lemmas'.
LEMMA MapSteps ==
  ASSUME MapInv, [MapNext]_mapVars
  PROVE  \/ UNCHANGED <<table, node>>
         \/ \E c \in usage.callers : NewNode(c) \/ ExchangeTail(c) \/ LinkNode(c) \/ Unlink(c) \/ Delete(c)
<1>1. CASE UNCHANGED mapVars
  BY <1>1 DEF mapVars
<1>2. CASE MapNext
  <2>1. PICK c \in usage.callers :
          \/ \E k \in usage.keys : TestSize(c, k) \/ FindHead(c, k) \/ RemoveIndex(c, k)
          \/ ResizeCopy(c) \/ ResizeMove(c) \/ NewNode(c) \/ ExchangeTail(c) \/ LinkNode(c)
          \/ Walk(c) \/ NotThere(c) \/ Unlink(c) \/ Delete(c) \/ Clear(c)
    BY <1>2 DEF MapNext
  <2>2. c \in Caller /\ call[c].at \notin {"resize", "move"} /\ "clear" \notin usage.calls
    BY Homes DEF MapInv, MapTypeOK, CallRec, Undisturbed
  <2>3. ~ResizeCopy(c) /\ ~ResizeMove(c) /\ ~Clear(c)
    BY <2>2 DEF ResizeCopy, ResizeMove, Clear, At, Calls
  <2>4. (\E k \in usage.keys : TestSize(c, k) \/ FindHead(c, k) \/ RemoveIndex(c, k)) \/ Walk(c) \/ NotThere(c)
          => UNCHANGED <<table, node>>
    BY DEF TestSize, FindHead, RemoveIndex, Walk, NotThere
  <2> QED BY <2>1, <2>3, <2>4
<1> QED BY <1>1, <1>2

LEMMA MapInvSteps ==
  ASSUME MapInv, [MapNext]_mapVars
  PROVE  MapInv'
<1>1. CASE UNCHANGED mapVars
  <2>1. UNCHANGED <<usage, table, tables, num_elements, resize_mutex, node, call>>
    BY <1>1 DEF mapVars
  <2>2. MapTypeOK' /\ NodesFit'
    BY <2>1 DEF MapInv, MapTypeOK, NodesFit, InChain, PathOf, Owners, CountedNodes, Uncounted
  <2>3. \A i \in DOMAIN table' : BucketFits(i)'
    BY <2>1 DEF MapInv, BucketFits, PathOf, NextOf, Linking
  <2>4. \A c \in Caller : CallFits(c)'
    BY <2>1 DEF MapInv, CallFits, WalkFits, PathOf, InChain, Owners, Uncounted
  <2> QED BY <2>2, <2>3, <2>4 DEF MapInv
<1>2. CASE MapNext
  <2>1. PICK c \in usage.callers :
          \/ \E k \in usage.keys : TestSize(c, k) \/ FindHead(c, k) \/ RemoveIndex(c, k)
          \/ ResizeCopy(c) \/ ResizeMove(c) \/ NewNode(c) \/ ExchangeTail(c) \/ LinkNode(c)
          \/ Walk(c) \/ NotThere(c) \/ Unlink(c) \/ Delete(c) \/ Clear(c)
    BY <1>2 DEF MapNext
  <2>2. c \in Caller /\ call[c].at \notin {"resize", "move"} /\ "clear" \notin usage.calls
    BY Homes DEF MapInv, MapTypeOK, CallRec, Undisturbed
  <2>3. ~ResizeCopy(c) /\ ~ResizeMove(c) /\ ~Clear(c)
    BY <2>2 DEF ResizeCopy, ResizeMove, Clear, At, Calls
  <2> QED BY <2>1, <2>3, TestSizeFits, FindHeadFits, RemoveIndexFits, NewNodeFits, ExchangeTailFits,
             LinkNodeFits, WalkKeeps, NotThereFits, UnlinkFits, DeleteFits
<1> QED BY <1>1, <1>2

\* The inductive invariant of the map holds, however many threads, keys, buckets and nodes.
THEOREM MapInvHolds == UndisturbedSpec => []MapInv
<1>1. MapInit /\ Undisturbed(usage) => MapInv
  BY MapInitFits
<1>2. MapInv /\ [MapNext]_mapVars => MapInv'
  BY MapInvSteps
<1> QED BY <1>1, <1>2, PTL DEF UndisturbedSpec, MapSpec

LEMMA LinkedIs ==
  ASSUME MapInv
  PROVE  /\ Current = table
         /\ Linked = {n \in Node : InChain(n)}
         /\ Contents = [k \in Key |-> {n \in Node : InChain(n) /\ node[n].key = k}]
<1>1. Current = table
  BY DEF Current, MapInv, MapTypeOK
<1>2. \A i : ChainOf(i) = PathOf(i)
  BY <1>1 DEF ChainOf, PathOf
<1>3. \A i \in DOMAIN table : ToSet(PathOf(i)) = {n \in Node : \E j \in 1..Len(PathOf(i)) : PathOf(i)[j] = n}
  <2> TAKE i \in DOMAIN table
  <2>1. PathOf(i) \in Seq(Node)
    BY DEF MapInv, BucketFits, Follows, NextOf
  <2>2. DOMAIN PathOf(i) = 1..Len(PathOf(i)) /\ \A j \in 1..Len(PathOf(i)) : PathOf(i)[j] \in Node
    BY <2>1
  <2> QED BY <2>2 DEF ToSet
<1>4. Linked = {n \in Node : InChain(n)}
  BY <1>1, <1>2, <1>3 DEF Linked, InChain
<1> QED BY <1>1, <1>4 DEF Contents

\* Every bucket is a chain of its own live nodes, each once, its tail is the last of them, and
\* no node is lost or in two places: inserts and removes under one lock do not disturb each
\* other, nor do finds without it.
THEOREM ChainsWholeHolds == UndisturbedSpec => []ChainsWhole
<1>1. ASSUME MapInv PROVE ChainsWhole
  <2>1. Current = table /\ Linked = {n \in Node : InChain(n)}
    BY <1>1, LinkedIs
  <2>2. ASSUME NEW i \in DOMAIN table
        PROVE  LET path == ChainOf(i)
               IN  /\ IsInjective(path)
                   /\ \A n \in ToSet(path) : node[n].state = "live" /\ IndexIn(table, node[n].key) = i
                   /\ table[i].mutex = NoCaller => table[i].tail = IF path = <<>> THEN Null ELSE Last(path)
    <3>1. ChainOf(i) = PathOf(i)
      BY <2>1 DEF ChainOf, PathOf
    <3>2. BucketFits(i) /\ PathOf(i) \in Seq(Node)
      BY <1>1 DEF MapInv, BucketFits, Follows, NextOf
    <3>3. IsInjective(PathOf(i))
      BY <3>2 DEF BucketFits, Follows, IsInjective
    <3>4. \A n \in ToSet(PathOf(i)) : node[n].state = "live" /\ IndexIn(table, node[n].key) = i
      BY <3>2 DEF BucketFits, ToSet
    <3>5. table[i].mutex = NoCaller => table[i].tail = LastOf(PathOf(i))
      BY <3>2 DEF BucketFits, Linking
    <3> QED BY <3>1, <3>3, <3>4, <3>5 DEF LastOf, Last
  <2>3. {n \in Node : node[n].state = "live"} \ Linked = Mine({"exchange", "link", "delete"})
    <3>1. Mine({"exchange", "link", "delete"}) = {call[c].mine : c \in Owners}
      BY DEF Mine, Owners
    <3>2. \A c \in Owners : call[c].mine \in Node /\ node[call[c].mine].state = "live" /\ ~InChain(call[c].mine)
      BY <1>1 DEF MapInv, CallFits, Owners
    <3>3. \A n \in Node : node[n].state = "live" => InChain(n) \/ \E c \in Owners : call[c].mine = n
      BY <1>1 DEF MapInv, NodesFit
    <3> QED BY <2>1, <3>1, <3>2, <3>3
  <2> QED BY <2>1, <2>2, <2>3 DEF ChainsWhole
<1> QED BY <1>1, MapInvHolds, PTL

\* As long as the table does not grow, no thread is about to touch a bucket of another table or
\* a deleted node: what the size test, find and remove read before they lock stays good.
THEOREM NoStaleAccessHolds == UndisturbedSpec => []NoStaleAccess
<1>1. ASSUME MapInv PROVE NoStaleAccess
  <2> SUFFICES ASSUME NEW c \in Caller
               PROVE  /\ call[c].at \in {"exchange", "link", "walk", "unlink", "delete"} => call[c].of = tables
                      /\ At(c, "walk") /\ call[c].mine # Null => node[call[c].mine].state = "live"
                      /\ At(c, "link") /\ call[c].old_tail # Null => node[call[c].old_tail].state = "live"
    BY DEF NoStaleAccess
  <2>1. CallFits(c) /\ tables = 1 /\ call[c] \in CallRec /\ MapTypeOK
    BY <1>1 DEF MapInv, MapTypeOK
  <2>2. call[c].at \notin {"out", "index"} => call[c].bucket \in DOMAIN table
    BY <2>1, Homes DEF CallFits, CallRec
  <2>3. At(c, "walk") /\ call[c].mine # Null => node[call[c].mine].state = "live"
    BY <1>1, <2>1, <2>2, InOneChain DEF CallFits, WalkFits, At
  <2>4. At(c, "link") /\ call[c].old_tail # Null => node[call[c].old_tail].state = "live"
    <3> SUFFICES ASSUME At(c, "link"), call[c].old_tail # Null PROVE node[call[c].old_tail].state = "live"
      OBVIOUS
    <3>1. PICK i \in DOMAIN table : i = call[c].bucket
      BY <2>2 DEF At
    <3>2. call[c].old_tail = LastOf(PathOf(i))
      BY <2>1, <3>1 DEF CallFits, At
    <3>3. PathOf(i) \in Seq(Node)
      BY <1>1 DEF MapInv, BucketFits, Follows, NextOf
    <3>4. PathOf(i) # <<>> /\ Len(PathOf(i)) \in 1..Len(PathOf(i))
      BY <3>2, <3>3 DEF LastOf
    <3> QED BY <1>1, <3>2, <3>4, InOneChain DEF LastOf
  <2> QED BY <2>1, <2>3, <2>4 DEF CallFits
<1> QED BY <1>1, MapInvHolds, PTL

\* A find that takes no lock sees every key whose insert returned before it began.
THEOREM FindSeesHolds == UndisturbedSpec => []FindSees
<1>1. MapInv => FindSees
  BY DEF MapInv, CallFits, WalkFits, FindSees, At
<1> QED BY <1>1, MapInvHolds, PTL

\* The map implements the multimap: linking a node adds it, unlinking takes it, and every other
\* step of any thread leaves the contents as they are.
THEOREM MapImplements == UndisturbedSpec => ImplementsMap
<1>0. MapInv' => Contents' = [k \in Key |-> {n \in Node : InChain(n)' /\ node'[n].key = k}]
  <2>1. MapInv => Contents = [k \in Key |-> {n \in Node : InChain(n) /\ node[n].key = k}]
    BY LinkedIs
  <2>2. (MapInv => Contents = [k \in Key |-> {n \in Node : InChain(n) /\ node[n].key = k}])'
    BY <2>1, PTL
  <2> QED BY <2>2
<1>1. ASSUME MapInit, Undisturbed(usage) PROVE AbstractMap!Init
  <2>1. MapInv
    BY <1>1, MapInitFits
  <2>2. \A n \in Node : ~InChain(n)
    <3>1. \A n \in Node : InChain(n) => node[n].state = "live"
      BY <2>1, InOneChain DEF InChain
    <3>2. \A n \in Node : node[n].state = "unused"
      BY <1>1 DEF MapInit, NoNode
    <3> QED BY <3>1, <3>2
  <2>3. Contents = [k \in Key |-> {}]
    BY <2>1, <2>2, LinkedIs
  <2> QED BY <2>3 DEF AbstractMap!Init
<1>2. ASSUME MapInv, [MapNext]_mapVars PROVE [AbstractMap!Next]_Contents
  <2>1. MapInv'
    BY <1>2, MapInvSteps
  <2> DEFINE Was == [k \in Key |-> {n \in Node : InChain(n) /\ node[n].key = k}]
  <2>2. Contents = Was
    BY <1>2, LinkedIs
  <2>3. Contents' = [k \in Key |-> {n \in Node : InChain(n)' /\ node'[n].key = k}]
    BY <2>1, <1>0
  <2>4. CASE UNCHANGED <<table, node>>
    <3>1. \A n : InChain(n)' <=> InChain(n)
      BY <2>4 DEF InChain, PathOf
    <3> QED BY <2>2, <2>3, <2>4, <3>1
  <2>5. ASSUME SameElements PROVE UNCHANGED Contents
    <3>1. \A n \in Node : (InChain(n)' <=> InChain(n)) /\ (InChain(n) => node'[n].key = node[n].key)
      BY <2>5 DEF SameElements
    <3>2. \A k \in Key : {n \in Node : InChain(n)' /\ node'[n].key = k}
                            = {n \in Node : InChain(n) /\ node[n].key = k}
      BY <3>1
    <3> QED BY <2>2, <2>3, <3>2
  <2>6. ASSUME NEW c \in usage.callers, LinkNode(c) PROVE AbstractMap!Next
    <3>1. PICK n \in Node : ~InChain(n) /\ \A m \in Node : /\ InChain(m)' <=> InChain(m) \/ m = n
                                                           /\ node'[m].key = node[m].key
      BY <1>2, <2>6, LinkNodeFits
    <3>2. PICK k : k = node[n].key /\ k \in Key
      BY <1>2 DEF MapInv, MapTypeOK, NodeRec
    <3>3. Contents' = [Contents EXCEPT ![k] = @ \cup {n}]
      BY <2>2, <2>3, <3>1, <3>2
    <3>4. \A other \in Key : n \notin Contents[other]
      BY <2>2, <3>1
    <3>5. AbstractMap!Add(k, n)
      BY <3>3, <3>4 DEF AbstractMap!Add
    <3> QED BY <3>2, <3>5 DEF AbstractMap!Next
  <2>7. ASSUME NEW c \in usage.callers, Unlink(c) PROVE AbstractMap!Next
    <3>1. PICK n \in Node : InChain(n) /\ \A m \in Node : /\ InChain(m)' <=> InChain(m) /\ m # n
                                                          /\ node'[m].key = node[m].key
      BY <1>2, <2>7, UnlinkFits
    <3>2. PICK k : k = node[n].key /\ k \in Key
      BY <1>2 DEF MapInv, MapTypeOK, NodeRec
    <3>3. Contents' = [Contents EXCEPT ![k] = @ \ {n}]
      BY <2>2, <2>3, <3>1, <3>2
    <3>4. n \in Contents[k]
      BY <2>2, <3>1, <3>2
    <3>5. AbstractMap!Take(k, n)
      BY <3>3, <3>4 DEF AbstractMap!Take
    <3> QED BY <3>2, <3>5 DEF AbstractMap!Next
  <2> QED BY <1>2, <2>4, <2>5, <2>6, <2>7, MapSteps, NewNodeFits, ExchangeTailFits, DeleteFits
<1>3. UndisturbedSpec => AbstractMap!Init /\ [][AbstractMap!Next]_Contents
  BY <1>1, <1>2, MapInvHolds, PTL DEF UndisturbedSpec, MapSpec
<1> QED BY <1>3 DEF ImplementsMap, AbstractMap!Spec

-----------------------------------------------------------------------------
(* LockFreeList.                                                           *)

\* The usages of the theorems: a thread that removes is the only one there is.
RemovesAlone(u) == "remove" \in u.calls => \A p, q \in u.callers : p = q

OrderlySpec == ListSpec /\ RemovesAlone(mode)

NextCell(h) == [n \in Cell |-> h[n].next]
ListPath == Path([n \in Cell |-> cell[n].next], head, NoCell)
OnList(n) == \E i \in 1..Len(ListPath) : ListPath[i] = n

CellRec == [state : {"unused", "live", "deleted"}, data : Data, next : Cell \cup {NoCell}]
LocalRec == [at : {"out", "swap", "added", "walk", "unlink", "free"}, val : Data,
             curr : Cell \cup {NoCell}, prev : Cell \cup {NoCell}, expected : Cell \cup {NoCell}]

ListTypeOK ==
    /\ mode \in ListUsages /\ RemovesAlone(mode)
    /\ head \in Cell \cup {NoCell} /\ listSize \in Int
    /\ cell \in [Cell -> CellRec]
    /\ local \in [Pusher -> LocalRec]

\* The list is a chain of live cells.
ListFits ==
    /\ Follows(ListPath, NextCell(cell), head, NoCell)
    /\ \A i \in 1..Len(ListPath) : cell[ListPath[i]].state = "live"

\* An insert's cell is its own until the swap, and leads to the head it expects; a remove is at
\* a cell of the list, with the one before it at hand, or has taken its cell out.
LocalFits(p) ==
    LET l == local[p]
    IN  /\ l.at # "out" => p \in mode.callers
        /\ l.at = "swap" => /\ l.curr \in Cell /\ cell[l.curr].state = "live"
                            /\ cell[l.curr].next = l.expected /\ ~OnList(l.curr)
        /\ l.at \in {"walk", "unlink", "free"} => "remove" \in mode.calls
        /\ l.at \in {"walk", "unlink"} =>
               \E i \in 1..Len(ListPath) :
                   l.curr = ListPath[i] /\ l.prev = IF i = 1 THEN NoCell ELSE ListPath[i - 1]
        /\ l.at = "free" => l.curr \in Cell /\ ~OnList(l.curr)

OwnCells ==
    \A p, q \in Pusher :
        local[p].at = "swap" /\ local[q].at = "swap" /\ local[p].curr = local[q].curr => p = q

ListInv == ListTypeOK /\ ListFits /\ (\A p \in Pusher : LocalFits(p)) /\ OwnCells

LEMMA CellFacts == IsFiniteSet(Cell) /\ NoCell \notin Cell /\ Out \in LocalRec
<1>1. IsFiniteSet(Cell)
  BY CellAssumption, FS_Interval DEF Cell
<1>2. NoCell \notin Cell
  BY DEF Cell, NoCell
<1>3. (CHOOSE d \in Data : TRUE) \in Data
  BY CellAssumption
<1> QED BY <1>1, <1>2, <1>3 DEF Out, LocalRec

\* A thread and its record, and what makes a new one of it.
LEMMA ListHomes ==
  ASSUME ListInv, NEW p \in mode.callers
  PROVE  /\ p \in Pusher /\ local[p] \in LocalRec /\ LocalFits(p)
         /\ local \in [Pusher -> LocalRec] /\ cell \in [Cell -> CellRec]
         /\ ListPath \in Seq(Cell) /\ Len(ListPath) \in Nat
         /\ \A i \in 1..Len(ListPath) : ListPath[i] \in Cell /\ OnList(ListPath[i])
         /\ \A n : OnList(n) => n \in Cell /\ cell[n].state = "live"
<1>1. p \in Pusher
  BY ListUsagesAssumption DEF ListInv, ListTypeOK
<1>2. ListPath \in Seq(Cell)
  BY DEF ListInv, ListFits, Follows, NextCell
<1> QED BY <1>1, <1>2 DEF ListInv, ListTypeOK, ListFits, OnList

\* A step that leaves the links of the list's cells leaves the list.
LEMMA ListKept ==
  ASSUME ListInv, cell' \in [Cell -> CellRec], UNCHANGED head,
         \A n \in Cell : OnList(n) => cell'[n].next = cell[n].next
  PROVE  ListPath' = ListPath /\ Follows(ListPath, NextCell(cell'), head', NoCell)
<1>1. PICK p, next : p = ListPath /\ next = NextCell(cell')
  OBVIOUS
<1>2. next \in [Cell -> Cell \cup {NoCell}]
  BY <1>1 DEF NextCell, CellRec
<1>3. Follows(p, NextCell(cell), head, NoCell)
  BY <1>1 DEF ListInv, ListFits
<1>4. \A i \in 1..Len(p) : p[i] \in Cell /\ OnList(p[i])
  BY <1>1, <1>3 DEF Follows, NextCell, OnList
<1>5. Follows(p, next, head', NoCell)
  BY <1>1, <1>3, <1>4 DEF Follows, NextCell
<1>6. Path(next, head', NoCell) = p
  BY <1>2, <1>5, CellFacts, PathIs
<1> QED BY <1>1, <1>5, <1>6 DEF ListPath, NextCell

\* A step of p leaves every other thread's record fit: no remove is under way in those.
LEMMA OtherLocalFits ==
  ASSUME ListInv, NEW p \in mode.callers, NEW q \in Pusher, q # p, UNCHANGED mode,
         local'[q] = local[q],
         local[q].at = "swap" =>
             /\ cell'[local[q].curr].state = "live" /\ ~OnList(local[q].curr)'
             /\ cell'[local[q].curr].next = cell[local[q].curr].next
  PROVE  LocalFits(q)'
<1>1. LocalFits(q) /\ RemovesAlone(mode)
  BY DEF ListInv, ListTypeOK
<1>2. local[q].at \notin {"walk", "unlink", "free"}
  BY <1>1 DEF LocalFits, RemovesAlone
<1> QED BY <1>1, <1>2 DEF LocalFits

\* A step after which the list has the same cells as before, with the same data.
SameCells == \A n \in Cell : /\ OnList(n)' <=> OnList(n)
                             /\ OnList(n) => cell'[n].data = cell[n].data

LEMMA ListInitFits == ListInit /\ RemovesAlone(mode) => ListInv /\ ListPath = <<>>
<1> SUFFICES ASSUME ListInit, RemovesAlone(mode) PROVE ListInv /\ ListPath = <<>>
  OBVIOUS
<1>1. cell \in [Cell -> CellRec] /\ local \in [Pusher -> LocalRec]
  <2>1. Out \in LocalRec /\ Out.val \in Data
    BY CellFacts DEF LocalRec
  <2> QED BY <2>1 DEF ListInit, CellRec
<1>2. ListTypeOK
  BY <1>1 DEF ListInit, ListTypeOK
<1>3. Follows(<<>>, NextCell(cell), head, NoCell)
  BY DEF Follows, NextCell, ListInit
<1>4. NextCell(cell) \in [Cell -> Cell \cup {NoCell}]
  BY <1>1 DEF NextCell, CellRec
<1>5. ListPath = <<>>
  BY <1>3, <1>4, CellFacts, PathIs DEF ListPath, NextCell
<1>6. ListFits
  BY <1>3, <1>5 DEF ListFits
<1>7. (\A p \in Pusher : LocalFits(p)) /\ OwnCells
  BY DEF ListInit, Out, LocalFits, OwnCells
<1> QED BY <1>2, <1>5, <1>6, <1>7 DEF ListInv

\* A new cell is on nobody's list and in nobody's hands.
LEMMA PrepareFits ==
  ASSUME ListInv, NEW p \in mode.callers, NEW d \in Data, NEW n \in Cell, Prepare(p, d, n)
  PROVE  ListInv' /\ SameCells
<1>1. /\ p \in Pusher /\ local[p] \in LocalRec /\ local[p].at = "out"
      /\ local \in [Pusher -> LocalRec] /\ cell \in [Cell -> CellRec]
      /\ cell[n].state = "unused" /\ head \in Cell \cup {NoCell}
  BY ListHomes DEF Prepare, Is, ListInv, ListTypeOK
<1>2. /\ cell' \in [Cell -> CellRec] /\ \A m \in Cell : m # n => cell'[m] = cell[m]
      /\ cell'[n] = [state |-> "live", data |-> d, next |-> head]
  BY <1>1 DEF Prepare, CellRec
<1>3. PICK r : r = [local[p] EXCEPT !.at = "swap", !.curr = n, !.expected = head]
  OBVIOUS
<1>4. local' = [local EXCEPT ![p] = r]
  BY <1>1, <1>3 DEF Prepare, LocalRec
<1>5. r \in LocalRec /\ r.at = "swap" /\ r.curr = n /\ r.expected = head
  BY <1>1, <1>3 DEF LocalRec
<1>6. local' \in [Pusher -> LocalRec] /\ local'[p] = r /\ \A q \in Pusher : q # p => local'[q] = local[q]
  BY <1>1, <1>4, <1>5
<1>7. ~OnList(n) /\ \A m : OnList(m) => m \in Cell /\ cell[m].state = "live"
  BY <1>1, ListHomes
<1>8. ListPath' = ListPath /\ Follows(ListPath, NextCell(cell'), head', NoCell)
  BY <1>2, <1>7, ListKept DEF Prepare
<1>9. \A m : OnList(m)' <=> OnList(m)
  BY <1>8 DEF OnList
<1>10. SameCells
  BY <1>2, <1>7, <1>9 DEF SameCells
<1>11. ListTypeOK'
  BY <1>2, <1>6 DEF Prepare, ListInv, ListTypeOK
<1>12. ListFits'
  <2>1. \A i \in 1..Len(ListPath) : ListPath[i] \in Cell /\ OnList(ListPath[i])
    BY ListHomes
  <2>2. \A i \in 1..Len(ListPath) : cell'[ListPath[i]].state = "live"
    BY <2>1, <1>2, <1>7
  <2> QED BY <1>8, <2>2 DEF ListFits
<1>13. \A q \in Pusher : local[q].at = "swap" => local[q].curr \in Cell /\ local[q].curr # n /\ ~OnList(local[q].curr)
  BY <1>1 DEF ListInv, LocalFits
<1>14. LocalFits(p)'
  BY <1>2, <1>5, <1>6, <1>7, <1>9 DEF LocalFits, Prepare
<1>15. ASSUME NEW q \in Pusher, q # p PROVE LocalFits(q)'
  <2>1. local[q].at = "swap" => cell'[local[q].curr] = cell[local[q].curr] /\ ~OnList(local[q].curr)'
    BY <1>2, <1>6, <1>9, <1>13, <1>15
  <2>2. local[q].at = "swap" => cell[local[q].curr].state = "live"
    BY DEF ListInv, LocalFits
  <2> QED BY <2>1, <2>2, <1>6, <1>15, OtherLocalFits DEF Prepare
<1>16. OwnCells'
  BY <1>5, <1>6, <1>13 DEF ListInv, OwnCells
<1> QED BY <1>10, <1>11, <1>12, <1>14, <1>15, <1>16 DEF ListInv

LEMMA SwapFailsFits ==
  ASSUME ListInv, NEW p \in mode.callers, SwapFails(p)
  PROVE  ListInv' /\ SameCells
<1>1. /\ p \in Pusher /\ local[p] \in LocalRec /\ local[p].at = "swap" /\ LocalFits(p)
      /\ local \in [Pusher -> LocalRec] /\ cell \in [Cell -> CellRec]
      /\ head \in Cell \cup {NoCell}
  BY ListHomes DEF SwapFails, Is, ListInv, ListTypeOK
<1>2. PICK n : n = local[p].curr /\ n \in Cell /\ cell[n].state = "live" /\ ~OnList(n)
  BY <1>1 DEF LocalFits
<1>3. cell' = [cell EXCEPT ![n].next = head]
  BY <1>2 DEF SwapFails
<1>4. /\ cell' \in [Cell -> CellRec] /\ \A m \in Cell : m # n => cell'[m] = cell[m]
      /\ cell'[n].state = "live" /\ cell'[n].next = head
  BY <1>1, <1>2, <1>3 DEF CellRec
<1>5. PICK r : r = [local[p] EXCEPT !.expected = head]
  OBVIOUS
<1>6. local' = [local EXCEPT ![p] = r]
  BY <1>1, <1>5 DEF SwapFails, LocalRec
<1>7. r \in LocalRec /\ r.at = "swap" /\ r.curr = n /\ r.expected = head
  BY <1>1, <1>2, <1>5 DEF LocalRec
<1>8. local' \in [Pusher -> LocalRec] /\ local'[p] = r /\ \A q \in Pusher : q # p => local'[q] = local[q]
  BY <1>1, <1>6, <1>7
<1>9. ListPath' = ListPath /\ Follows(ListPath, NextCell(cell'), head', NoCell)
  BY <1>2, <1>4, ListKept DEF SwapFails
<1>10. \A m : OnList(m)' <=> OnList(m)
  BY <1>9 DEF OnList
<1>11. \A m : OnList(m) => m \in Cell /\ m # n /\ cell[m].state = "live"
  BY <1>2, ListHomes
<1>12. SameCells
  BY <1>4, <1>10, <1>11 DEF SameCells
<1>13. ListTypeOK'
  BY <1>4, <1>8 DEF SwapFails, ListInv, ListTypeOK
<1>14. ListFits'
  <2>1. \A i \in 1..Len(ListPath) : ListPath[i] \in Cell /\ OnList(ListPath[i])
    BY ListHomes
  <2>2. \A i \in 1..Len(ListPath) : cell'[ListPath[i]].state = "live"
    BY <2>1, <1>4, <1>11
  <2> QED BY <1>9, <2>2 DEF ListFits
<1>15. LocalFits(p)'
  BY <1>1, <1>2, <1>4, <1>7, <1>8, <1>10 DEF LocalFits, SwapFails
<1>16. ASSUME NEW q \in Pusher, q # p PROVE LocalFits(q)'
  <2>1. local[q].at = "swap" =>
          local[q].curr \in Cell /\ local[q].curr # n /\ ~OnList(local[q].curr) /\ cell[local[q].curr].state = "live"
    BY <1>1, <1>2, <1>16 DEF ListInv, LocalFits, OwnCells
  <2>2. local[q].at = "swap" => cell'[local[q].curr] = cell[local[q].curr] /\ ~OnList(local[q].curr)'
    BY <2>1, <1>4, <1>8, <1>10, <1>16
  <2> QED BY <2>1, <2>2, <1>8, <1>16, OtherLocalFits DEF SwapFails
<1>17. OwnCells'
  BY <1>1, <1>2, <1>7, <1>8 DEF ListInv, OwnCells
<1> QED BY <1>12, <1>13, <1>14, <1>15, <1>16, <1>17 DEF ListInv

\* q is p with n before it.
IsPush(q, n, p) == Len(q) = Len(p) + 1 /\ q[1] = n /\ \A i \in 1..Len(p) : q[i + 1] = p[i]

LEMMA FollowsPush ==
  ASSUME NEW N, NEW null, null \notin N, NEW next \in [N -> N \cup {null}],
         NEW first, NEW p, NEW n \in N,
         Follows(p, next, first, null), \A i \in 1..Len(p) : p[i] # n, next[n] = first,
         NEW q \in Seq(N), IsPush(q, n, p)
  PROVE  Follows(q, next, n, null)
<1>1. /\ p \in Seq(N) /\ Len(p) \in Nat /\ \A i \in 1..Len(p) : p[i] \in N
      /\ \A i, j \in 1..Len(p) : p[i] = p[j] => i = j
      /\ first = IF p = <<>> THEN null ELSE p[1]
      /\ \A i \in 1..Len(p) : next[p[i]] = IF i = Len(p) THEN null ELSE p[i + 1]
      /\ p = <<>> <=> Len(p) = 0
  BY DEF Follows
<1>2. /\ Len(q) = Len(p) + 1 /\ q[1] = n /\ q # <<>>
      /\ \A i \in 1..Len(p) : q[i + 1] = p[i]
      /\ \A i \in 1..Len(q) : i = 1 \/ (i - 1 \in 1..Len(p) /\ q[i] = p[i - 1])
  <2>1. Len(q) = Len(p) + 1 /\ q[1] = n /\ \A i \in 1..Len(p) : q[i + 1] = p[i]
    BY DEF IsPush
  <2>2. \A i \in 1..Len(q) : i = 1 \/ (i - 1 \in 1..Len(p) /\ i = (i - 1) + 1)
    BY <2>1, <1>1
  <2>3. \A i \in 1..Len(q) : i = 1 \/ (i - 1 \in 1..Len(p) /\ q[i] = p[i - 1])
    <3> TAKE i \in 1..Len(q)
    <3> SUFFICES ASSUME i # 1 PROVE i - 1 \in 1..Len(p) /\ q[i] = p[i - 1]
      OBVIOUS
    <3>1. PICK k \in 1..Len(p) : k = i - 1 /\ i = k + 1
      BY <2>2
    <3>2. q[k + 1] = p[k]
      BY <2>1
    <3> QED BY <3>1, <3>2
  <2>4. q # <<>>
    BY <2>1, <1>1
  <2> QED BY <2>1, <2>3, <2>4
<1>3. \A i, j \in 1..Len(q) : q[i] = q[j] => i = j
  <2> TAKE i, j \in 1..Len(q)
  <2>1. (i = 1 \/ (i - 1 \in 1..Len(p) /\ q[i] = p[i - 1])) /\ (j = 1 \/ (j - 1 \in 1..Len(p) /\ q[j] = p[j - 1]))
    BY <1>2
  <2>2. i # 1 /\ j # 1 /\ q[i] = q[j] => i - 1 = j - 1
    BY <2>1, <1>1
  <2>3. (i = 1 /\ j # 1) \/ (i # 1 /\ j = 1) => q[i] # q[j]
    BY <2>1, <1>2
  <2>4. i \in Int /\ j \in Int
    BY <1>1, <1>2
  <2> QED BY <2>2, <2>3, <2>4
<1>4. \A i \in 1..Len(q) : next[q[i]] = IF i = Len(q) THEN null ELSE q[i + 1]
  <2> TAKE i \in 1..Len(q)
  <2>1. CASE i = 1
    <3>1. CASE p = <<>>
      BY <2>1, <3>1, <1>1, <1>2
    <3>2. CASE p # <<>>
      <4>1. 1 \in 1..Len(p) /\ q[2] = p[1]
        BY <3>2, <1>1, <1>2
      <4> QED BY <2>1, <3>2, <4>1, <1>1, <1>2
    <3> QED BY <3>1, <3>2
  <2>2. CASE i # 1
    <3>1. i - 1 \in 1..Len(p) /\ q[i] = p[i - 1]
      BY <2>2, <1>2
    <3>2. next[p[i - 1]] = IF i - 1 = Len(p) THEN null ELSE p[i - 1 + 1]
      BY <3>1, <1>1
    <3>3. i # Len(q) => i \in 1..Len(p) /\ q[i + 1] = p[i]
      BY <2>2, <1>1, <1>2
    <3> QED BY <3>1, <3>2, <3>3, <1>1, <1>2
  <2> QED BY <2>1, <2>2
<1> QED BY <1>2, <1>3, <1>4 DEF Follows

\* The swap puts the cell at the head: it leads to the head there was, which is the expected one.
LEMMA SwapFits ==
  ASSUME ListInv, NEW p \in mode.callers, Swap(p)
  PROVE  /\ ListInv'
         /\ \E n \in Cell : ~OnList(n) /\ \A m \in Cell : /\ OnList(m)' <=> OnList(m) \/ m = n
                                                          /\ cell'[m].data = cell[m].data
<1>1. /\ p \in Pusher /\ local[p] \in LocalRec /\ local[p].at = "swap" /\ LocalFits(p)
      /\ local \in [Pusher -> LocalRec] /\ cell \in [Cell -> CellRec]
      /\ ListPath \in Seq(Cell) /\ Len(ListPath) \in Nat
      /\ \A i \in 1..Len(ListPath) : ListPath[i] \in Cell /\ OnList(ListPath[i])
      /\ \A m : OnList(m) => m \in Cell /\ cell[m].state = "live"
  BY ListHomes DEF Swap, Is
<1>2. PICK n : /\ n = local[p].curr /\ n \in Cell /\ cell[n].state = "live" /\ ~OnList(n)
               /\ cell[n].next = head /\ head' = n
  BY <1>1 DEF LocalFits, Swap
<1>3. UNCHANGED <<mode, listSize, cell>> /\ local' = [local EXCEPT ![p].at = "added"]
  BY DEF Swap
<1>4. PICK r : r = [local[p] EXCEPT !.at = "added"]
  OBVIOUS
<1>5. r \in LocalRec /\ r.at = "added"
  BY <1>1, <1>4 DEF LocalRec
<1>6. local' \in [Pusher -> LocalRec] /\ local'[p] = r /\ \A q \in Pusher : q # p => local'[q] = local[q]
  BY <1>1, <1>3, <1>4, <1>5
<1>7. PICK path, next : path = ListPath /\ next = NextCell(cell)
  OBVIOUS
<1>8. PICK q : q = [i \in 1..Len(path) + 1 |-> IF i = 1 THEN n ELSE path[i - 1]]
  OBVIOUS
<1>9. q \in Seq(Cell) /\ IsPush(q, n, path)
  <2>1. Len(path) + 1 \in Nat
    BY <1>1, <1>7
  <2>2. \A i \in 1..Len(path) + 1 : (IF i = 1 THEN n ELSE path[i - 1]) \in Cell
    BY <1>1, <1>2, <1>7
  <2>3. q \in Seq(Cell) /\ Len(q) = Len(path) + 1 /\ \A i \in 1..Len(path) + 1 : q[i] = IF i = 1 THEN n ELSE path[i - 1]
    BY <2>1, <2>2, <1>8
  <2>4. \A i \in 1..Len(path) : i + 1 \in 1..Len(path) + 1 /\ i + 1 # 1 /\ (i + 1) - 1 = i
    BY <1>1, <1>7
  <2>5. 1 \in 1..Len(path) + 1
    BY <2>1, <1>1, <1>7
  <2> QED BY <2>3, <2>4, <2>5 DEF IsPush
<1>10. Follows(q, next, n, NoCell)
  <2>1. next \in [Cell -> Cell \cup {NoCell}] /\ next[n] = head
    BY <1>1, <1>2, <1>7 DEF NextCell, CellRec
  <2>2. Follows(path, next, head, NoCell) /\ \A i \in 1..Len(path) : path[i] # n
    BY <1>1, <1>2, <1>7 DEF ListInv, ListFits
  <2> QED BY <2>1, <2>2, <1>2, <1>9, CellFacts, FollowsPush
<1>11. ListPath' = q
  <2>1. next \in [Cell -> Cell \cup {NoCell}]
    BY <1>1, <1>7 DEF NextCell, CellRec
  <2>2. Path(next, n, NoCell) = q
    BY <2>1, <1>10, CellFacts, PathIs
  <2> QED BY <2>2, <1>2, <1>3, <1>7 DEF ListPath, NextCell
<1>12. Len(q) = Len(path) + 1 /\ q[1] = n /\ (\A i \in 1..Len(path) : q[i + 1] = path[i])
       /\ \A i \in 1..Len(q) : i = 1 \/ (i - 1 \in 1..Len(path) /\ q[i] = path[i - 1])
  <2>1. Len(q) = Len(path) + 1 /\ q[1] = n /\ \A i \in 1..Len(path) : q[i + 1] = path[i]
    BY <1>9 DEF IsPush
  <2>2. \A i \in 1..Len(q) : i = 1 \/ (i - 1 \in 1..Len(path) /\ i = (i - 1) + 1)
    BY <2>1, <1>1, <1>7
  <2>3. \A i \in 1..Len(q) : i = 1 \/ (i - 1 \in 1..Len(path) /\ q[i] = path[i - 1])
    <3> TAKE i \in 1..Len(q)
    <3> SUFFICES ASSUME i # 1 PROVE i - 1 \in 1..Len(path) /\ q[i] = path[i - 1]
      OBVIOUS
    <3>1. PICK k \in 1..Len(path) : k = i - 1 /\ i = k + 1
      BY <2>2
    <3>2. q[k + 1] = path[k]
      BY <2>1
    <3> QED BY <3>1, <3>2
  <2> QED BY <2>1, <2>3
<1>13. \A m : OnList(m)' <=> OnList(m) \/ m = n
  <2>1. \A m : OnList(m)' <=> \E i \in 1..Len(q) : q[i] = m
    BY <1>11 DEF OnList
  <2>2. \A m : OnList(m) <=> \E i \in 1..Len(path) : path[i] = m
    BY <1>7 DEF OnList
  <2>3. \A i \in 1..Len(path) : i + 1 \in 1..Len(q)
    BY <1>1, <1>7, <1>12
  <2>4. 1 \in 1..Len(q)
    BY <1>1, <1>7, <1>12
  <2> QED BY <2>1, <2>2, <2>3, <2>4, <1>12
<1>14. ListTypeOK'
  BY <1>2, <1>3, <1>6 DEF ListInv, ListTypeOK
<1>15. ListFits'
  <2>1. \A i \in 1..Len(q) : cell[q[i]].state = "live"
    BY <1>1, <1>2, <1>7, <1>12
  <2> QED BY <2>1, <1>2, <1>3, <1>7, <1>10, <1>11 DEF ListFits
<1>16. LocalFits(p)'
  BY <1>1, <1>3, <1>5, <1>6 DEF LocalFits
<1>17. ASSUME NEW b \in Pusher, b # p PROVE LocalFits(b)'
  <2>1. local[b].at = "swap" => local[b].curr # n /\ ~OnList(local[b].curr) /\ cell[local[b].curr].state = "live"
    BY <1>1, <1>2, <1>17 DEF ListInv, LocalFits, OwnCells
  <2>2. local[b].at = "swap" => cell'[local[b].curr] = cell[local[b].curr] /\ ~OnList(local[b].curr)'
    BY <2>1, <1>3, <1>6, <1>13, <1>17
  <2> QED BY <2>1, <2>2, <1>3, <1>6, <1>17, OtherLocalFits
<1>18. OwnCells'
  BY <1>5, <1>6 DEF ListInv, OwnCells
<1> QED BY <1>2, <1>3, <1>13, <1>14, <1>15, <1>16, <1>17, <1>18 DEF ListInv

\* A step of p in its own record, to a place from which it reads the list, or out.
LEMMA OnlyLocal ==
  ASSUME ListInv, NEW p \in mode.callers, UNCHANGED <<mode, head, cell>>, listSize' \in Int,
         NEW r \in LocalRec, local' = [local EXCEPT ![p] = r], r.at \in {"out", "walk", "unlink"},
         r.at # "out" => /\ "remove" \in mode.calls
                         /\ \E i \in 1..Len(ListPath) :
                                r.curr = ListPath[i] /\ r.prev = IF i = 1 THEN NoCell ELSE ListPath[i - 1]
  PROVE  ListInv' /\ SameCells
<1>1. p \in Pusher /\ local \in [Pusher -> LocalRec] /\ cell \in [Cell -> CellRec]
  BY ListHomes
<1>2. local' \in [Pusher -> LocalRec] /\ local'[p] = r /\ \A q \in Pusher : q # p => local'[q] = local[q]
  BY <1>1
<1>3. ListPath' = ListPath
  BY DEF ListPath
<1>4. \A m : OnList(m)' <=> OnList(m)
  BY <1>3 DEF OnList
<1>5. ListTypeOK' /\ ListFits'
  BY <1>2, <1>3 DEF ListInv, ListTypeOK, ListFits
<1>6. LocalFits(p)'
  BY <1>1, <1>2, <1>3 DEF LocalFits
<1>7. ASSUME NEW q \in Pusher, q # p PROVE LocalFits(q)'
  <2>1. local[q].at = "swap" => ~OnList(local[q].curr) /\ cell[local[q].curr].state = "live"
    BY DEF ListInv, LocalFits
  <2>2. local[q].at = "swap" => cell'[local[q].curr] = cell[local[q].curr] /\ ~OnList(local[q].curr)'
    BY <2>1, <1>2, <1>4, <1>7
  <2> QED BY <2>1, <2>2, <1>2, <1>7, OtherLocalFits
<1>8. OwnCells'
  BY <1>2 DEF ListInv, OwnCells
<1> QED BY <1>4, <1>5, <1>6, <1>7, <1>8 DEF ListInv, SameCells

LEMMA CountAddedFits ==
  ASSUME ListInv, NEW p \in mode.callers, CountAdded(p)
  PROVE  ListInv' /\ SameCells
<1>1. Out \in LocalRec /\ Out.at = "out"
  BY CellFacts DEF Out
<1>2. listSize' \in Int
  BY DEF CountAdded, ListInv, ListTypeOK
<1>3. UNCHANGED <<mode, head, cell>> /\ local' = [local EXCEPT ![p] = Out]
  BY DEF CountAdded
<1> QED BY <1>1, <1>2, <1>3, OnlyLocal

\* A remove that arrives at the cell after its last one is out, or at a cell of the list.
LEMMA ArrivesFits ==
  ASSUME ListInv, NEW p \in mode.callers, UNCHANGED <<mode, head, cell, listSize>>,
         "remove" \in mode.calls, NEW d \in Data, NEW prev \in Cell \cup {NoCell},
         NEW curr \in Cell \cup {NoCell}, Arrives(p, d, prev, curr),
         curr # NoCell => \E i \in 1..Len(ListPath) :
             curr = ListPath[i] /\ prev = IF i = 1 THEN NoCell ELSE ListPath[i - 1]
  PROVE  ListInv' /\ SameCells
<1>1. /\ p \in Pusher /\ local[p] \in LocalRec /\ local \in [Pusher -> LocalRec] /\ listSize' \in Int
  BY ListHomes DEF ListInv, ListTypeOK
<1>2. CASE curr = NoCell
  <2>1. Out \in LocalRec /\ Out.at = "out" /\ local' = [local EXCEPT ![p] = Out]
    BY <1>2, CellFacts DEF Out, Arrives
  <2> QED BY <2>1, <1>1, OnlyLocal
<1>3. CASE curr # NoCell
  <2>1. PICK place \in {"walk", "unlink"} :
          local' = [local EXCEPT ![p].at = place, ![p].val = d, ![p].prev = prev, ![p].curr = curr]
    BY <1>3 DEF Arrives
  <2>2. PICK r : r = [local[p] EXCEPT !.at = place, !.val = d, !.prev = prev, !.curr = curr]
    OBVIOUS
  <2>3. local' = [local EXCEPT ![p] = r]
    BY <1>1, <2>1, <2>2 DEF LocalRec
  <2>4. r \in LocalRec /\ r.at = place /\ r.prev = prev /\ r.curr = curr
    BY <1>1, <2>2 DEF LocalRec
  <2> QED BY <1>1, <1>3, <2>3, <2>4, OnlyLocal
<1> QED BY <1>2, <1>3

LEMMA RemoveHeadFits ==
  ASSUME ListInv, NEW p \in mode.callers, NEW d \in Data, RemoveHead(p, d)
  PROVE  ListInv' /\ SameCells
<1>1. Follows(ListPath, NextCell(cell), head, NoCell) /\ head \in Cell \cup {NoCell}
  BY DEF ListInv, ListFits, ListTypeOK
<1>2. ListPath \in Seq(Cell)
  BY ListHomes
<1>3. head # NoCell => head = ListPath[1] /\ 1 \in 1..Len(ListPath)
  BY <1>1, <1>2 DEF Follows
<1> QED BY <1>1, <1>3, ArrivesFits DEF RemoveHead

LEMMA RemoveWalkFits ==
  ASSUME ListInv, NEW p \in mode.callers, RemoveWalk(p)
  PROVE  ListInv' /\ SameCells
<1>1. /\ p \in Pusher /\ local[p] \in LocalRec /\ local[p].at = "walk" /\ LocalFits(p)
      /\ cell \in [Cell -> CellRec] /\ ListPath \in Seq(Cell) /\ Len(ListPath) \in Nat
      /\ \A i \in 1..Len(ListPath) : ListPath[i] \in Cell
  BY ListHomes DEF RemoveWalk, Is
<1>2. PICK i \in 1..Len(ListPath) : local[p].curr = ListPath[i]
  BY <1>1 DEF LocalFits
<1>3. cell[ListPath[i]].next = IF i = Len(ListPath) THEN NoCell ELSE ListPath[i + 1]
  BY <1>1 DEF ListInv, ListFits, Follows, NextCell
<1>4. PICK curr, prev, d : curr = cell[ListPath[i]].next /\ prev = ListPath[i] /\ d = local[p].val
  OBVIOUS
<1>5. curr \in Cell \cup {NoCell} /\ prev \in Cell \cup {NoCell} /\ d \in Data
  BY <1>1, <1>4 DEF CellRec, LocalRec
<1>6. curr # NoCell => i + 1 \in 1..Len(ListPath) /\ curr = ListPath[i + 1] /\ prev = ListPath[(i + 1) - 1]
                       /\ i + 1 # 1
  BY <1>1, <1>3, <1>4
<1>7. Arrives(p, d, prev, curr) /\ UNCHANGED <<mode, head, cell, listSize>>
  BY <1>2, <1>4 DEF RemoveWalk
<1>8. "remove" \in mode.calls
  BY <1>1 DEF LocalFits
<1> QED BY <1>5, <1>6, <1>7, <1>8, ArrivesFits

\* The one thread there is takes its cell out of the list.
LEMMA UnlinksFits ==
  ASSUME ListInv, NEW p \in mode.callers, Unlinks(p)
  PROVE  /\ ListInv'
         /\ \E n \in Cell : OnList(n) /\ \A m \in Cell : /\ OnList(m)' <=> OnList(m) /\ m # n
                                                         /\ cell'[m].data = cell[m].data
<1>1. /\ p \in Pusher /\ local[p] \in LocalRec /\ local[p].at = "unlink" /\ LocalFits(p)
      /\ local \in [Pusher -> LocalRec] /\ cell \in [Cell -> CellRec]
      /\ ListPath \in Seq(Cell) /\ Len(ListPath) \in Nat
      /\ \A i \in 1..Len(ListPath) : ListPath[i] \in Cell /\ OnList(ListPath[i])
      /\ \A m : OnList(m) => m \in Cell /\ cell[m].state = "live"
  BY ListHomes DEF Unlinks, Is
<1>2. PICK path, next, first : path = ListPath /\ next = NextCell(cell) /\ first = head
  OBVIOUS
<1>3. PICK i \in 1..Len(path) : local[p].curr = path[i] /\ local[p].prev = IF i = 1 THEN NoCell ELSE path[i - 1]
  BY <1>1, <1>2 DEF LocalFits
<1>4. PICK n, prev : n = path[i] /\ prev = local[p].prev
  OBVIOUS
<1>5. /\ n \in Cell /\ OnList(n) /\ (i = 1 => prev = NoCell)
      /\ (i # 1 => i - 1 \in 1..Len(path) /\ prev = path[i - 1] /\ prev \in Cell /\ prev # NoCell)
  BY <1>1, <1>2, <1>3, <1>4, CellFacts
<1>6. /\ Follows(path, next, first, NoCell) /\ next \in [Cell -> Cell \cup {NoCell}]
      /\ \A j, k \in 1..Len(path) : path[j] = path[k] => j = k
      /\ \A m \in Cell : next[m] = cell[m].next
  BY <1>1, <1>2 DEF ListInv, ListFits, Follows, NextCell, CellRec
<1>7. /\ cell' \in [Cell -> CellRec]
      /\ \A m \in Cell : /\ cell'[m].state = cell[m].state /\ cell'[m].data = cell[m].data
                         /\ cell'[m].next = IF i # 1 /\ m = prev THEN next[n] ELSE next[m]
      /\ head' = IF i = 1 THEN next[n] ELSE head
  <2>1. n = local[p].curr
    BY <1>3, <1>4
  <2>2. CASE i = 1
    <3>1. prev = NoCell /\ cell' = cell /\ head' = cell[n].next
      BY <2>1, <2>2, <1>4, <1>5 DEF Unlinks
    <3> QED BY <3>1, <2>2, <1>1, <1>5, <1>6
  <2>3. CASE i # 1
    <3>1. prev \in Cell /\ prev # NoCell
      BY <2>3, <1>5
    <3>2. cell' = [cell EXCEPT ![prev].next = cell[n].next] /\ head' = head
      BY <2>1, <3>1, <1>4 DEF Unlinks
    <3>3. cell[n].next = next[n] /\ next[n] \in Cell \cup {NoCell}
      BY <1>5, <1>6
    <3>4. cell' = [cell EXCEPT ![prev] = [cell[prev] EXCEPT !.next = next[n]]]
      BY <3>1, <3>2, <3>3, <1>1
    <3>5. [cell[prev] EXCEPT !.next = next[n]] \in CellRec
      BY <3>1, <3>3, <1>1 DEF CellRec
    <3> QED BY <3>1, <3>2, <3>4, <3>5, <2>3, <1>1, <1>6 DEF CellRec
  <2> QED BY <2>2, <2>3
<1>8. PICK onward : onward = NextCell(cell')
  OBVIOUS
<1>9. /\ onward \in [Cell -> Cell \cup {NoCell}]
      /\ \A m \in Cell : onward[m] = IF i # 1 /\ m = prev THEN next[n] ELSE next[m]
  BY <1>7, <1>8 DEF NextCell, CellRec
<1>10. LeadsPast(onward, next, path, i)
  <2> SUFFICES ASSUME NEW j \in 1..Len(path)
               PROVE  onward[path[j]] = IF j = i - 1 THEN next[path[i]] ELSE next[path[j]]
    BY DEF LeadsPast
  <2>1. path[j] \in Cell
    BY <1>1, <1>2
  <2>2. i # 1 => (path[j] = prev <=> j = i - 1)
    BY <1>5, <1>6
  <2>3. j = i - 1 => i # 1
    BY <1>1, <1>2
  <2> QED BY <2>1, <2>2, <2>3, <1>4, <1>9
<1>11. PICK q : q = [j \in 1..Len(path) - 1 |-> IF j < i THEN path[j] ELSE path[j + 1]]
  OBVIOUS
<1>12. q \in Seq(Cell) /\ IsWithout(q, path, i)
  <2>1. Len(path) - 1 \in Nat
    BY <1>1, <1>2
  <2>2. \A j \in 1..Len(path) - 1 : (IF j < i THEN path[j] ELSE path[j + 1]) \in Cell
    BY <1>1, <1>2
  <2> QED BY <2>1, <2>2, <1>11 DEF IsWithout
<1>13. Follows(q, onward, head', NoCell)
  <2>1. Follows(q, onward, IF i = 1 THEN next[path[1]] ELSE first, NoCell)
    BY <1>6, <1>9, <1>10, <1>12, CellFacts, FollowsWithout
  <2>2. head' = IF i = 1 THEN next[path[1]] ELSE first
    BY <1>2, <1>4, <1>7
  <2> QED BY <2>1, <2>2
<1>14. ListPath' = q
  <2>1. PICK top : top = head'
    OBVIOUS
  <2>2. Path(onward, top, NoCell) = q
    BY <2>1, <1>9, <1>13, CellFacts, PathIs
  <2> QED BY <2>1, <2>2, <1>8 DEF ListPath, NextCell
<1>15. Len(q) = Len(path) - 1 /\ \A j \in 1..Len(q) : q[j] = IF j < i THEN path[j] ELSE path[j + 1]
  BY <1>12 DEF IsWithout
<1>16. \A m : OnList(m)' <=> OnList(m) /\ m # n
  <2>1. \A m : OnList(m)' <=> \E j \in 1..Len(q) : q[j] = m
    BY <1>14 DEF OnList
  <2>2. \A m : OnList(m) <=> \E j \in 1..Len(path) : path[j] = m
    BY <1>2 DEF OnList
  <2>3. ASSUME NEW j \in 1..Len(q)
        PROVE  \E k \in 1..Len(path) : k # i /\ q[j] = path[k]
    <3>1. CASE j < i
      <4>1. j \in 1..Len(path) /\ j # i /\ q[j] = path[j]
        BY <3>1, <1>1, <1>2, <1>15
      <4> QED BY <4>1
    <3>2. CASE ~(j < i)
      <4>1. j + 1 \in 1..Len(path) /\ j + 1 # i /\ q[j] = path[j + 1]
        BY <3>2, <1>1, <1>2, <1>15
      <4> QED BY <4>1
    <3> QED BY <3>1, <3>2
  <2>4. ASSUME NEW k \in 1..Len(path), k # i
        PROVE  \E j \in 1..Len(q) : q[j] = path[k]
    <3>1. CASE k < i
      <4>1. k \in 1..Len(q) /\ q[k] = path[k]
        BY <3>1, <1>1, <1>2, <1>15
      <4> QED BY <4>1
    <3>2. CASE k > i
      <4>1. PICK j : j = k - 1
        OBVIOUS
      <4>2. j \in 1..Len(q) /\ ~(j < i) /\ j + 1 = k
        BY <3>2, <4>1, <1>1, <1>2, <1>15
      <4> QED BY <4>2, <1>15
    <3>3. k < i \/ k > i
      BY <2>4, <1>1, <1>2
    <3> QED BY <3>1, <3>2, <3>3
  <2>5. \A k \in 1..Len(path) : path[k] = n <=> k = i
    BY <1>4, <1>6
  <2> QED BY <2>1, <2>2, <2>3, <2>4, <2>5
<1>17. PICK r : r = [local[p] EXCEPT !.at = "free"]
  OBVIOUS
<1>18. r \in LocalRec /\ r.at = "free" /\ r.curr = n
  BY <1>1, <1>3, <1>4, <1>17 DEF LocalRec
<1>19. local' \in [Pusher -> LocalRec] /\ local'[p] = r /\ \A b \in Pusher : b # p => local'[b] = local[b]
  BY <1>1, <1>17, <1>18 DEF Unlinks
<1>20. UNCHANGED <<mode, listSize>> /\ head' \in Cell \cup {NoCell} /\ "remove" \in mode.calls /\ p \in mode.callers
  BY <1>1, <1>5, <1>6, <1>7 DEF Unlinks, ListInv, ListTypeOK, LocalFits
<1>21. ListTypeOK'
  BY <1>7, <1>19, <1>20 DEF ListInv, ListTypeOK
<1>22. ListFits'
  <2>1. \A j \in 1..Len(q) : q[j] \in Cell /\ OnList(q[j])'
    BY <1>12, <1>14 DEF OnList
  <2>2. \A j \in 1..Len(q) : cell'[q[j]].state = "live"
    BY <2>1, <1>1, <1>7, <1>16
  <2> QED BY <2>2, <1>8, <1>13, <1>14 DEF ListFits
<1>23. LocalFits(p)'
  BY <1>5, <1>16, <1>18, <1>19, <1>20 DEF LocalFits
<1>24. ASSUME NEW b \in Pusher, b # p PROVE local[b].at = "out"
  <2>1. local[b].at # "out" => b \in mode.callers
    BY DEF ListInv, LocalFits
  <2> QED BY <2>1, <1>20, <1>24 DEF ListInv, ListTypeOK, RemovesAlone
<1>25. ASSUME NEW b \in Pusher, b # p PROVE LocalFits(b)'
  BY <1>19, <1>20, <1>24, <1>25, OtherLocalFits
<1>26. OwnCells'
  BY <1>18, <1>19 DEF ListInv, OwnCells
<1> QED BY <1>5, <1>7, <1>16, <1>21, <1>22, <1>23, <1>25, <1>26 DEF ListInv

LEMMA FreeFits ==
  ASSUME ListInv, NEW p \in mode.callers, Free(p)
  PROVE  ListInv' /\ SameCells
<1>1. /\ p \in Pusher /\ local[p].at = "free" /\ LocalFits(p)
      /\ local \in [Pusher -> LocalRec] /\ cell \in [Cell -> CellRec]
  BY ListHomes DEF Free, Is
<1>2. PICK n : n = local[p].curr /\ n \in Cell /\ ~OnList(n) /\ "remove" \in mode.calls
  BY <1>1 DEF LocalFits
<1>3. cell' = [cell EXCEPT ![n].state = "deleted"] /\ local' = [local EXCEPT ![p] = Out]
      /\ UNCHANGED <<mode, head>> /\ listSize' \in Int
  BY <1>2 DEF Free, ListInv, ListTypeOK
<1>4. cell' \in [Cell -> CellRec] /\ (\A m \in Cell : m # n => cell'[m] = cell[m])
      /\ \A m \in Cell : cell'[m].next = cell[m].next /\ cell'[m].data = cell[m].data
  BY <1>1, <1>2, <1>3 DEF CellRec
<1>5. ListPath' = ListPath /\ Follows(ListPath, NextCell(cell'), head', NoCell)
  BY <1>3, <1>4, ListKept
<1>6. \A m : OnList(m)' <=> OnList(m)
  BY <1>5 DEF OnList
<1>7. Out \in LocalRec /\ Out.at = "out"
  BY CellFacts DEF Out
<1>8. local' \in [Pusher -> LocalRec] /\ local'[p] = Out /\ \A b \in Pusher : b # p => local'[b] = local[b]
  BY <1>1, <1>3, <1>7
<1>9. ListTypeOK'
  BY <1>3, <1>4, <1>8 DEF ListInv, ListTypeOK
<1>10. ListFits'
  <2>1. \A i \in 1..Len(ListPath) : ListPath[i] \in Cell /\ OnList(ListPath[i]) /\ cell[ListPath[i]].state = "live"
    BY ListHomes
  <2>2. \A i \in 1..Len(ListPath) : cell'[ListPath[i]].state = "live"
    BY <2>1, <1>2, <1>4
  <2> QED BY <2>2, <1>5 DEF ListFits
<1>11. LocalFits(p)'
  BY <1>7, <1>8 DEF LocalFits
<1>12. ASSUME NEW b \in Pusher, b # p PROVE LocalFits(b)'
  <2>1. local[b].at # "out" => b \in mode.callers
    BY DEF ListInv, LocalFits
  <2>2. local[b].at = "out"
    BY <2>1, <1>2, <1>12 DEF ListInv, ListTypeOK, RemovesAlone
  <2> QED BY <2>2, <1>3, <1>8, <1>12, OtherLocalFits
<1>13. OwnCells'
  BY <1>7, <1>8 DEF ListInv, OwnCells
<1> QED BY <1>4, <1>6, <1>9, <1>10, <1>11, <1>12, <1>13 DEF ListInv, SameCells

\* Every step keeps the invariant and the list's cells, but for a swap, which puts a cell on
\* the list, and for Unlinks, which takes one off.
ListSteps ==
    \/ SameCells
    \/ \E n \in Cell : ~OnList(n) /\ \A m \in Cell : /\ OnList(m)' <=> OnList(m) \/ m = n
                                                     /\ cell'[m].data = cell[m].data
    \/ \E n \in Cell : OnList(n) /\ \A m \in Cell : /\ OnList(m)' <=> OnList(m) /\ m # n
                                                    /\ cell'[m].data = cell[m].data

LEMMA ListInvSteps ==
  ASSUME ListInv, [ListNext]_listVars
  PROVE  ListInv' /\ ListSteps
<1>1. CASE UNCHANGED listVars
  <2>1. UNCHANGED <<mode, head, listSize, cell, local>>
    BY <1>1 DEF listVars
  <2>2. \A n : OnList(n)' <=> OnList(n)
    BY <2>1 DEF OnList, ListPath
  <2>3. ListTypeOK' /\ ListFits' /\ OwnCells'
    BY <2>1 DEF ListInv, ListTypeOK, ListFits, ListPath, NextCell, OwnCells
  <2>4. ASSUME NEW p \in Pusher PROVE LocalFits(p)'
    BY <2>1, <2>2, <2>4 DEF ListInv, LocalFits, ListPath
  <2> QED BY <2>1, <2>2, <2>3, <2>4 DEF ListInv, ListSteps, SameCells
<1>2. CASE ListNext
  <2>1. PICK p \in mode.callers :
          \/ \E d \in Data : (\E n \in Cell : Prepare(p, d, n)) \/ RemoveHead(p, d)
          \/ SwapFails(p) \/ Swap(p) \/ CountAdded(p)
          \/ RemoveWalk(p) \/ Unlinks(p) \/ Free(p)
    BY <1>2 DEF ListNext
  <2> QED BY <2>1, PrepareFits, RemoveHeadFits, SwapFailsFits, SwapFits, CountAddedFits,
             RemoveWalkFits, UnlinksFits, FreeFits DEF ListSteps
<1> QED BY <1>1, <1>2

\* Pushes by any number of threads keep the list a chain of live cells that are nobody's own.
THEOREM ListInvHolds == OrderlySpec => []ListInv
<1>1. ListInit /\ RemovesAlone(mode) => ListInv
  BY ListInitFits
<1>2. ListInv /\ [ListNext]_listVars => ListInv'
  BY ListInvSteps
<1> QED BY <1>1, <1>2, PTL DEF OrderlySpec, ListSpec

LEMMA ElementsAre ==
  ASSUME ListInv
  PROVE  Elements = [d \in Data |-> {n \in Cell : OnList(n) /\ cell[n].data = d}]
<1>1. ListPath \in Seq(Cell)
  BY DEF ListInv, ListFits, Follows, NextCell
<1>2. DOMAIN ListPath = 1..Len(ListPath) /\ \A i \in 1..Len(ListPath) : ListPath[i] \in Cell
  BY <1>1
<1>3. InList = {n \in Cell : OnList(n)}
  <2>1. InList = ToSet(ListPath)
    BY DEF InList, ListPath
  <2> QED BY <2>1, <1>2 DEF ToSet, OnList
<1>4. \A d \in Data : {n \in InList : cell[n].data = d} = {n \in Cell : OnList(n) /\ cell[n].data = d}
  BY <1>3
<1> QED BY <1>4 DEF Elements

\* The list implements the bag: a swap that succeeds adds its element, an unlink takes one.
THEOREM ListImplements == OrderlySpec => ImplementsBag
<1>1. ListInv' => Elements' = [d \in Data |-> {n \in Cell : OnList(n)' /\ cell'[n].data = d}]
  <2>1. ListInv => Elements = [d \in Data |-> {n \in Cell : OnList(n) /\ cell[n].data = d}]
    BY ElementsAre
  <2>2. (ListInv => Elements = [d \in Data |-> {n \in Cell : OnList(n) /\ cell[n].data = d}])'
    BY <2>1, PTL
  <2> QED BY <2>2
<1>2. ASSUME ListInit, RemovesAlone(mode) PROVE AbstractList!Init
  <2>1. ListInv /\ \A n \in Cell : ~OnList(n)
    BY <1>2, ListInitFits DEF OnList
  <2>2. Elements = [d \in Data |-> {}]
    BY <2>1, ElementsAre
  <2> QED BY <2>2 DEF AbstractList!Init
<1>3. ASSUME ListInv, [ListNext]_listVars PROVE [AbstractList!Next]_Elements
  <2>1. ListInv' /\ ListSteps
    BY <1>3, ListInvSteps
  <2>2. Elements = [d \in Data |-> {n \in Cell : OnList(n) /\ cell[n].data = d}]
    BY <1>3, ElementsAre
  <2>3. Elements' = [d \in Data |-> {n \in Cell : OnList(n)' /\ cell'[n].data = d}]
    BY <2>1, <1>1
  <2>4. CASE SameCells
    <3>1. \A d \in Data : {n \in Cell : OnList(n)' /\ cell'[n].data = d}
                            = {n \in Cell : OnList(n) /\ cell[n].data = d}
      BY <2>4 DEF SameCells
    <3> QED BY <2>2, <2>3, <3>1
  <2>5. ASSUME NEW n \in Cell, ~OnList(n),
               \A m \in Cell : /\ OnList(m)' <=> OnList(m) \/ m = n
                               /\ cell'[m].data = cell[m].data
        PROVE  AbstractList!Next
    <3>1. PICK d : d = cell[n].data /\ d \in Data
      BY <1>3 DEF ListInv, ListTypeOK, CellRec
    <3>2. Elements' = [Elements EXCEPT ![d] = @ \cup {n}]
      BY <2>2, <2>3, <2>5, <3>1
    <3>3. \A other \in Data : n \notin Elements[other]
      BY <2>2, <2>5
    <3>4. AbstractList!Add(d, n)
      BY <3>2, <3>3 DEF AbstractList!Add
    <3> QED BY <3>1, <3>4 DEF AbstractList!Next
  <2>6. ASSUME NEW n \in Cell, OnList(n),
               \A m \in Cell : /\ OnList(m)' <=> OnList(m) /\ m # n
                               /\ cell'[m].data = cell[m].data
        PROVE  AbstractList!Next
    <3>1. PICK d : d = cell[n].data /\ d \in Data
      BY <1>3 DEF ListInv, ListTypeOK, CellRec
    <3>2. Elements' = [Elements EXCEPT ![d] = @ \ {n}]
      BY <2>2, <2>3, <2>6, <3>1
    <3>3. n \in Elements[d]
      BY <2>2, <2>6, <3>1
    <3>4. AbstractList!Take(d, n)
      BY <3>2, <3>3 DEF AbstractList!Take
    <3> QED BY <3>1, <3>4 DEF AbstractList!Next
  <2> QED BY <2>1, <2>4, <2>5, <2>6 DEF ListSteps
<1>4. OrderlySpec => AbstractList!Init /\ [][AbstractList!Next]_Elements
  BY <1>2, <1>3, ListInvHolds, PTL DEF OrderlySpec, ListSpec
<1> QED BY <1>4 DEF ImplementsBag, AbstractList!Spec
=============================================================================
