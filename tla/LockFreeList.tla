---------------------------- MODULE LockFreeList ----------------------------
(***************************************************************************)
(* LockFreeList (src/common/collect_utils.cppm): a stack of linked nodes.  *)
(*                                                                         *)
(* insert pushes with a compare-and-swap; remove loads and stores one      *)
(* atomic pointer after the other.  A step is one atomic operation on a    *)
(* pointer or on listSize that others can see.  ListUsages gives the ways  *)
(* the list is used: pushes by any number of threads, or everything by     *)
(* one.  A remove next to another operation loses a push at the head or    *)
(* leaves a pointer to a deleted node, and is not among them.              *)
(***************************************************************************)
EXTENDS NodeChain, SequencesExt

CONSTANTS
    Pusher,         \* the threads
    Data,
    MaxCells,       \* bound: the nodes there is memory for
    ListUsages      \* who calls what

ASSUME CellAssumption == Data # {} /\ MaxCells \in Nat
ASSUME ListUsagesAssumption ==
    \A u \in ListUsages : u.callers \subseteq Pusher /\ u.calls \subseteq {"insert", "remove"}

VARIABLES
    mode,           \* the one of ListUsages this list has
    head,
    listSize,
    cell,           \* the heap
    local           \* where each thread is, and its local variables

listVars == <<mode, head, listSize, cell, local>>

Cell == 1..MaxCells
NoCell == 0

Out == [at |-> "out", val |-> CHOOSE d \in Data : TRUE, curr |-> NoCell, prev |-> NoCell, expected |-> NoCell]

ListInit ==
    /\ mode \in ListUsages
    /\ head = NoCell
    /\ listSize = 0
    /\ cell = [n \in Cell |-> [state |-> "unused", data |-> Out.val, next |-> NoCell]]
    /\ local = [p \in Pusher |-> Out]

Is(p, place) == local[p].at = place

\* insert up to the loop: a new node, and the head as it is now.
Prepare(p, d, n) ==
    /\ Is(p, "out") /\ "insert" \in mode.calls
    /\ cell[n].state = "unused" /\ \A m \in 1..n - 1 : cell[m].state # "unused"
    /\ cell' = [cell EXCEPT ![n] = [state |-> "live", data |-> d, next |-> head]]
    /\ local' = [local EXCEPT ![p].at = "swap", ![p].curr = n, ![p].expected = head]
    /\ UNCHANGED <<mode, head, listSize>>

\* A slip: the node's next pointer stays what it was when the swap failed.
SwapFailsKeepsNext(p) ==
    /\ Is(p, "swap")
    /\ local' = [local EXCEPT ![p].expected = head]
    /\ UNCHANGED <<mode, head, listSize, cell>>

\* The swap fails, as a weak one may for no reason: expected is the head there is now, and the
\* loop makes it the node's successor.
SwapFails(p) ==
    /\ Is(p, "swap")
    /\ local' = [local EXCEPT ![p].expected = head]
    /\ cell' = [cell EXCEPT ![local[p].curr].next = head]
    /\ UNCHANGED <<mode, head, listSize>>

Swap(p) ==
    /\ Is(p, "swap") /\ head = local[p].expected
    /\ head' = local[p].curr
    /\ local' = [local EXCEPT ![p].at = "added"]
    /\ UNCHANGED <<mode, listSize, cell>>

CountAdded(p) ==
    /\ Is(p, "added")
    /\ listSize' = listSize + 1
    /\ local' = [local EXCEPT ![p] = Out]
    /\ UNCHANGED <<mode, head, cell>>

\* remove at the node curr: the one it looks for, or another one.
Arrives(p, d, prev, curr) ==
    IF curr = NoCell THEN local' = [local EXCEPT ![p] = Out]
    ELSE local' = [local EXCEPT ![p].at = IF cell[curr].data = d THEN "unlink" ELSE "walk",
                                ![p].val = d, ![p].prev = prev, ![p].curr = curr]

RemoveHead(p, d) ==
    /\ Is(p, "out") /\ "remove" \in mode.calls
    /\ Arrives(p, d, NoCell, head)
    /\ UNCHANGED <<mode, head, listSize, cell>>

RemoveWalk(p) ==
    /\ Is(p, "walk")
    /\ Arrives(p, local[p].val, local[p].curr, cell[local[p].curr].next)
    /\ UNCHANGED <<mode, head, listSize, cell>>

Unlinks(p) ==
    /\ Is(p, "unlink")
    /\ LET curr == local[p].curr
           prev == local[p].prev
       IN  IF prev # NoCell
           THEN cell' = [cell EXCEPT ![prev].next = cell[curr].next] /\ UNCHANGED head
           ELSE head' = cell[curr].next /\ UNCHANGED cell
    /\ local' = [local EXCEPT ![p].at = "free"]
    /\ UNCHANGED <<mode, listSize>>

Free(p) ==
    /\ Is(p, "free")
    /\ cell' = [cell EXCEPT ![local[p].curr].state = "deleted"]
    /\ listSize' = listSize - 1
    /\ local' = [local EXCEPT ![p] = Out]
    /\ UNCHANGED <<mode, head>>

ListNext ==
    \E p \in mode.callers :
        \/ \E d \in Data : \/ \E n \in Cell : Prepare(p, d, n)
                           \/ RemoveHead(p, d)
        \/ SwapFails(p) \/ Swap(p) \/ CountAdded(p)
        \/ RemoveWalk(p) \/ Unlinks(p) \/ Free(p)

ListSpec == ListInit /\ [][ListNext]_listVars

-----------------------------------------------------------------------------
InList == ToSet(Path([n \in Cell |-> cell[n].next], head, NoCell))
\* The list is a bag of elements, each push adds one, each remove takes one.
Elements == LET inList == InList IN [d \in Data |-> {n \in inList : cell[n].data = d}]
AbstractList == INSTANCE Multimap WITH Key <- Data, Element <- Cell, contents <- Elements
ImplementsBag == AbstractList!Spec
=============================================================================
