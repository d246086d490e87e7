---------------------------- MODULE DetachBlocks ----------------------------
(***************************************************************************)
(* detach_blocks of BS::thread_pool: a range of indices is divided into    *)
(* blocks, and one task is submitted for each block.  detach_loop,         *)
(* submit_blocks and submit_loop divide their range in the same way.       *)
(*                                                                         *)
(* Indices are integers here: the class computes with the index type T and *)
(* with std::size_t, and all its values lie between first_index and        *)
(* index_after_last as long as the length of the range is a value of T.    *)
(***************************************************************************)
EXTENDS Integers, Sequences

CONSTANTS
    Index,       \* the indices the ranges are made of
    Threads,     \* the sizes of the pools
    Requests     \* the num_blocks callers ask for, 0 for the default

ASSUME IndexAssumption == Index \subseteq Int
ASSUME ThreadsAssumption == Threads \subseteq Nat \ {0}
ASSUME RequestsAssumption == Requests \subseteq Nat

VARIABLES
    range,       \* the arguments first_index and index_after_last
    wanted,      \* the number of blocks asked for, the default filled in
    blks,        \* the object of class blocks
    blk,         \* the loop variable
    submitted    \* the ranges of the tasks submitted so far

loopVars == <<range, wanted, blks, blk, submitted>>

min(a, b) == IF a <= b THEN a ELSE b

-----------------------------------------------------------------------------
(* Class blocks.                                                           *)

Empty(first, last) ==
    [first_index |-> first, index_after_last |-> last,
     num_blocks |-> 0, block_size |-> 0, remainder |-> 0]

\* The constructor, for a range that is not empty.  A block is never empty then, so the
\* code's correction for block_size = 0 has nothing to correct (DivideFacts).
Divide(first, last, n) ==
    LET total_size == last - first
        num == min(n, total_size)
    IN  [first_index |-> first, index_after_last |-> last, num_blocks |-> num,
         block_size |-> total_size \div num, remainder |-> total_size % num]

blocks(first, last, n) ==
    IF last > first THEN Divide(first, last, n) ELSE Empty(first, last)

start(b, k) == b.first_index + k * b.block_size + min(k, b.remainder)

\* A slip: the last block is as long as the others.
endPlain(b, k) == start(b, k) + b.block_size

end(b, k) == IF k = b.num_blocks - 1 THEN b.index_after_last ELSE start(b, k + 1)

-----------------------------------------------------------------------------
LoopInit ==
    /\ range \in Index \X Index
    /\ \E num_blocks \in Requests, thread_count \in Threads :
           wanted = IF num_blocks # 0 THEN num_blocks ELSE thread_count
    /\ blks = blocks(range[1], range[2], wanted)
    /\ blk = 0
    /\ submitted = <<>>

\* One iteration of the loop: detach_task with one block.
DetachBlock ==
    /\ blk < blks.num_blocks
    /\ submitted' = Append(submitted, [from |-> start(blks, blk), to |-> end(blks, blk)])
    /\ blk' = blk + 1
    /\ UNCHANGED <<range, wanted, blks>>

LoopSpec == LoopInit /\ [][DetachBlock]_loopVars

-----------------------------------------------------------------------------
FirstIndex == range[1]
AfterLast == range[2]

InBlock(i, k) == submitted[k].from <= i /\ i < submitted[k].to

ExactlyOne(i) ==
    \E k \in DOMAIN submitted :
        /\ InBlock(i, k)
        /\ \A j \in DOMAIN submitted : InBlock(i, j) => j = k

\* When the loop ends, every index of the range is in one block and only one
\* (the documentation: equivalent to a loop over the range, line 1303).
EachIndexOnce == blk = blks.num_blocks => \A i \in FirstIndex..AfterLast - 1 : ExactlyOne(i)

\* No task is empty or leaves the range, and no two differ by more than one index.
Balanced ==
    /\ \A k \in DOMAIN submitted :
           /\ FirstIndex <= submitted[k].from /\ submitted[k].to <= AfterLast
           /\ submitted[k].to > submitted[k].from
    /\ \A j, k \in DOMAIN submitted :
           submitted[j].to - submitted[j].from <= submitted[k].to - submitted[k].from + 1

\* There are never more tasks than were asked for (line 1305: the maximum number
\* of blocks), nor fewer than that if the range has the indices for it.
AsManyAsAsked ==
    blk = blks.num_blocks /\ AfterLast > FirstIndex => Len(submitted) = min(wanted, AfterLast - FirstIndex)

=============================================================================
