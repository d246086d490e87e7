----------------------------- MODULE DataProofs -----------------------------
(***************************************************************************)
(* The key-value store, for all keys, values and times; detach_blocks,     *)
(* which divides every range exactly, whatever its length and the number   *)
(* of blocks asked for; the functions on strings, for every alphabet and   *)
(* every length; and the requests of the Redis client, which are read back *)
(* from their bytes whatever the callers' texts, numbers and lists are.    *)
(***************************************************************************)
EXTENDS SlotStore, DetachBlocks, StringUtil, RedisCommand, SequenceTheorems, WellFoundedInduction, TLAPS

-----------------------------------------------------------------------------
(* Expiration in the key-value store.                                      *)

\* A key has a time only after an EXPIRE that no removal followed.
TimedAreThese == \A k \in Name : expiration_times[k] # Absent => k \in timed

SlotInv == SlotTypeOK /\ TimedAreThese

LEMMA SlotInvInit == SlotInit => SlotInv
  BY DEF SlotInit, SlotInv, SlotTypeOK, TimedAreThese

\* HSET replaces one field of a map by a text.
LEMMA HsetType ==
  ASSUME SlotTypeOK, NEW k \in Name, NEW f \in Field, NEW text \in Text,
         data[k] # Absent, data[k].type = "Map"
  PROVE  [data EXCEPT ![k].items[f] = text] \in [Name -> StringValue \cup MapValue \cup {Absent}]
  <1>1. data[k] \in MapValue
    BY DEF SlotTypeOK, StringValue, MapValue
  <1>2. data[k].items \in [Field -> Text \cup {Absent}] /\ data[k].type = "Map"
    BY <1>1 DEF MapValue
  <1>3. [data[k].items EXCEPT ![f] = text] \in [Field -> Text \cup {Absent}]
    BY <1>2
  <1>4. [data[k] EXCEPT !.items = [data[k].items EXCEPT ![f] = text]] \in MapValue
    BY <1>1, <1>3 DEF MapValue
  <1> QED  BY <1>4 DEF SlotTypeOK

LEMMA SlotInvStep == SlotInv /\ [SlotNext]_slotVars => SlotInv'
  <1> SUFFICES ASSUME SlotInv, [SlotNext]_slotVars PROVE SlotInv'  OBVIOUS
  <1> USE DEF SlotInv
  <1>1. CASE UNCHANGED slotVars  BY <1>1 DEF slotVars, SlotTypeOK, TimedAreThese
  <1>2. CASE Tick  BY <1>2 DEF Tick, SlotTypeOK, TimedAreThese
  <1>3. ASSUME NEW k \in Name, NEW v \in StringValue \cup {EmptyMap}, set_value(k, v)
        PROVE  SlotInv'
    <2>1. v \in StringValue \cup MapValue  BY DEF EmptyMap, MapValue
    <2> QED  BY <1>3, <2>1 DEF set_value, SlotTypeOK, TimedAreThese
  <1>4. ASSUME NEW k \in Name, Drop(k), UNCHANGED now PROVE SlotInv'
    BY <1>4 DEF Drop, SlotTypeOK, TimedAreThese
  <1>5. ASSUME NEW k \in Name, get_value(k) PROVE SlotInv'
    <2>1. CASE Expired(k)  BY <1>4, <1>5, <2>1 DEF get_value
    <2>2. CASE ~Expired(k)  BY <1>5, <2>2 DEF get_value, SlotTypeOK, TimedAreThese
    <2> QED  BY <2>1, <2>2
  <1>6. ASSUME NEW k \in Name, remove(k) PROVE SlotInv'  BY <1>4, <1>6 DEF remove
  <1>7. ASSUME NEW k \in Name, NEW ttl \in Ttl, set_expiration(k, ttl) PROVE SlotInv'
    <2>1. now + ttl \in Int  BY TimeAssumption DEF SlotTypeOK
    <2> QED  BY <1>7, <2>1 DEF set_expiration, SlotTypeOK, TimedAreThese
  <1>8. ASSUME NEW k \in Name, NEW f \in Field, NEW text \in Text, hset(k, f, text)
        PROVE  SlotInv'
    <2>1. data' \in [Name -> StringValue \cup MapValue \cup {Absent}]
      BY <1>8, HsetType DEF hset, SlotTypeOK
    <2> QED  BY <1>8, <2>1 DEF hset, SlotTypeOK, TimedAreThese
  <1> QED  BY <1>1, <1>2, <1>3, <1>5, <1>6, <1>7, <1>8 DEF SlotNext

LEMMA SlotInvariant == SlotSpec => []SlotInv
  BY SlotInvInit, SlotInvStep, PTL DEF SlotSpec

\* The two maps hold values and times of their kinds.
THEOREM SlotTypeCorrect == SlotSpec => []SlotTypeOK
  <1>1. SlotInv => SlotTypeOK  BY DEF SlotInv
  <1> QED  BY <1>1, SlotInvariant, PTL

\* A value under a key that nobody timed since the key was last gone never expires.
THEOREM UntimedAreKept == SlotSpec => []KeptUnlessTimed
  <1>1. SlotInv => KeptUnlessTimed
    BY DEF SlotInv, TimedAreThese, KeptUnlessTimed, Shown, Expired
  <1> QED  BY <1>1, SlotInvariant, PTL

-----------------------------------------------------------------------------
\* Dropping a key takes its own answer away and no other.
LEMMA DropShows ==
  ASSUME SlotTypeOK, NEW k \in Name, Drop(k), now' = now
  PROVE  Shown(k)' = Absent /\ \A j \in Name \ {k} : Shown(j)' = Shown(j)
  BY DEF SlotTypeOK, Drop, Shown, Expired

LEMMA GetShows ==
  ASSUME SlotTypeOK, NEW k \in Name, get_value(k)
  PROVE  \A j \in Name : Shown(j)' = Shown(j)
  <1>1. CASE Expired(k)
    <2>1. Shown(k) = Absent  BY <1>1 DEF Shown
    <2> QED  BY <1>1, <2>1, DropShows DEF get_value
  <1>2. CASE ~Expired(k)  BY <1>2 DEF get_value, Shown, Expired
  <1> QED  BY <1>1, <1>2

\* Time only takes answers away.
LEMMA TickShows ==
  ASSUME SlotTypeOK, Tick
  PROVE  now' > now /\ \A j \in Name : Shown(j)' = Shown(j) \/ Shown(j)' = Absent
  BY AbsentAssumption DEF SlotTypeOK, Tick, Shown, Expired

\* A step that keeps the entries of all keys but one, and the time, keeps their answers.
LEMMA OthersShow ==
  ASSUME NEW k \in Name, now' = now,
         \A j \in Name \ {k} : data'[j] = data[j] /\ expiration_times'[j] = expiration_times[j]
  PROVE  \A j \in Name \ {k} : Shown(j)' = Shown(j)
  BY DEF Shown, Expired

LEMMA AnswersStep ==
  ASSUME SlotTypeOK, [SlotNext]_slotVars, NEW k \in Name
  PROVE  /\ get_value(k) => \A j \in Name : Shown(j)' = Shown(j)
         /\ Shown(k)' # Shown(k) => \/ \A j \in Name \ {k} : Shown(j)' = Shown(j)
                                    \/ now' > now /\ Shown(k)' = Absent
  <1> DEFINE Alone(i) == \A j \in Name \ {i} : Shown(j)' = Shown(j)
  <1>1. get_value(k) => \A j \in Name : Shown(j)' = Shown(j)  BY GetShows
  <1>2. CASE UNCHANGED slotVars  BY <1>1, <1>2 DEF slotVars, Shown, Expired
  <1>3. CASE Tick  BY <1>1, <1>3, TickShows
  <1>4. ASSUME NEW i \in Name, Alone(i)
        PROVE  Shown(k)' # Shown(k) => Alone(k)
    BY <1>4
  <1>5. ASSUME NEW i \in Name, get_value(i) \/ remove(i) PROVE Alone(i)
    BY <1>5, GetShows, DropShows DEF remove
  <1>6. ASSUME NEW i \in Name, NEW v, set_value(i, v) PROVE Alone(i)
    <2>1. \A j \in Name \ {i} : data'[j] = data[j] /\ expiration_times'[j] = expiration_times[j]
      BY <1>6 DEF set_value, SlotTypeOK
    <2> QED  BY <1>6, <2>1, OthersShow DEF set_value
  <1>7. ASSUME NEW i \in Name, NEW ttl, set_expiration(i, ttl) PROVE Alone(i)
    <2>1. \A j \in Name \ {i} : data'[j] = data[j] /\ expiration_times'[j] = expiration_times[j]
      BY <1>7 DEF set_expiration, SlotTypeOK
    <2> QED  BY <1>7, <2>1, OthersShow DEF set_expiration
  <1>8. ASSUME NEW i \in Name, NEW f, NEW text, hset(i, f, text) PROVE Alone(i)
    <2>1. \A j \in Name \ {i} : data'[j] = data[j] /\ expiration_times'[j] = expiration_times[j]
      BY <1>8 DEF hset, SlotTypeOK
    <2> QED  BY <1>8, <2>1, OthersShow DEF hset
  <1>9. CASE \E i \in Name : Alone(i)  BY <1>1, <1>4, <1>9
  <1> HIDE DEF Alone
  <1> QED  BY <1>1, <1>2, <1>3, <1>5, <1>6, <1>7, <1>8, <1>9 DEF SlotNext

\* A GET, which may delete, changes no answer; another command changes the answer for its own
\* key only; time only takes answers away.
THEOREM AnswersAreStable == SlotSpec => AnswersChange
  <1>1. SlotTypeOK /\ [SlotNext]_slotVars
          => [\A k \in Name :
                 /\ get_value(k) => \A j \in Name : Shown(j)' = Shown(j)
                 /\ Shown(k)' # Shown(k) => \/ \A j \in Name \ {k} : Shown(j)' = Shown(j)
                                            \/ now' > now /\ Shown(k)' = Absent]_slotVars
    BY AnswersStep
  <1> QED  BY <1>1, SlotTypeCorrect, PTL DEF SlotSpec, AnswersChange

-----------------------------------------------------------------------------
(* Arithmetic of class blocks.                                             *)

LEMMA Division ==
    ASSUME NEW a \in Nat, NEW n \in Nat \ {0}
    PROVE  /\ a \div n \in Nat
           /\ a % n \in 0..n-1
           /\ a = n * (a \div n) + (a % n)
OBVIOUS

\* What the constructor makes of a range that is not empty.
LEMMA DivideFacts ==
    ASSUME NEW first \in Int, NEW last \in Int, last > first, NEW n \in Nat \ {0}
    PROVE  LET b == Divide(first, last, n)
           IN  /\ b.first_index = first /\ b.index_after_last = last
               /\ b.num_blocks \in 1..n
               /\ b.num_blocks = min(n, last - first)
               /\ b.block_size \in Nat \ {0}
               /\ b.remainder \in 0..b.num_blocks - 1
               /\ last - first = b.num_blocks * b.block_size + b.remainder
<1> DEFINE total == last - first
           num == min(n, total)
<1>1. total \in Nat \ {0} /\ num \in 1..n /\ num <= total
  BY DEF min
<1>2. /\ total \div num \in Nat
      /\ total % num \in 0..num-1
      /\ total = num * (total \div num) + (total % num)
  <2>1. total \in Nat /\ num \in Nat \ {0}
    BY <1>1
  <2> HIDE DEF total, num
  <2> QED  BY <2>1, Division
<1>3. total \div num # 0
  <2>1. ASSUME total \div num = 0
        PROVE  FALSE
    <3>1. num * (total \div num) = 0
      BY <2>1, <1>1
    <3> HIDE DEF total, num
    <3> QED  BY <1>1, <1>2, <3>1
  <2> QED  BY <2>1
<1> QED  BY <1>1, <1>2, <1>3 DEF Divide

\* Where block k starts: at the first index, and then a block after the one before.
LEMMA StartFacts ==
    ASSUME NEW b, b.first_index \in Int, b.num_blocks \in Nat, b.block_size \in Nat,
           b.remainder \in Nat, NEW k \in Nat
    PROVE  /\ start(b, k) \in Int
           /\ start(b, 0) = b.first_index
           /\ start(b, k + 1) - start(b, k) =
                  b.block_size + (IF k < b.remainder THEN 1 ELSE 0)
<1>1. k * b.block_size \in Nat
  OBVIOUS
<1>2. (k + 1) * b.block_size = k * b.block_size + b.block_size
  OBVIOUS
<1>3. 0 * b.block_size = 0
  OBVIOUS
<1>4. start(b, 0) = b.first_index
  BY <1>3 DEF start, min
<1>5. /\ start(b, k) = b.first_index + k * b.block_size + (IF k <= b.remainder THEN k ELSE b.remainder)
      /\ start(b, k + 1) = b.first_index + (k + 1) * b.block_size
                              + (IF k + 1 <= b.remainder THEN k + 1 ELSE b.remainder)
  BY DEF start, min
<1> DEFINE kb == k * b.block_size
           kb1 == (k + 1) * b.block_size
<1>6. kb \in Nat /\ kb1 = kb + b.block_size
  BY <1>1, <1>2
<1> HIDE DEF kb, kb1
<1>7. /\ start(b, k) = b.first_index + kb + (IF k <= b.remainder THEN k ELSE b.remainder)
      /\ start(b, k + 1) = b.first_index + kb1
                              + (IF k + 1 <= b.remainder THEN k + 1 ELSE b.remainder)
  BY <1>5 DEF kb, kb1
<1> QED  BY <1>4, <1>6, <1>7

\* No block starts after the end of the last one.
LEMMA StartBefore ==
    ASSUME NEW b, b.first_index \in Int, b.num_blocks \in Nat, b.block_size \in Nat,
           b.remainder \in 0..b.num_blocks, NEW k \in 0..b.num_blocks
    PROVE  start(b, k) <= start(b, b.num_blocks)
<1> DEFINE n == b.num_blocks
           s == b.block_size
           d == n - k
<1>1. d \in Nat /\ n = k + d
  OBVIOUS
<1>2. k * s \in Nat /\ d * s \in Nat
  BY <1>1
<1>3. (k + d) * s = k * s + d * s
  BY <1>1
<1>4. k * s <= n * s
  BY <1>1, <1>2, <1>3
<1>5. min(k, b.remainder) <= min(n, b.remainder)
  BY DEF min
<1>6. k * s \in Int /\ n * s \in Int /\ min(k, b.remainder) \in Int /\ min(n, b.remainder) \in Int
  BY <1>2, <1>1 DEF min
<1>7. start(b, k) = b.first_index + k * s + min(k, b.remainder)
      /\ start(b, n) = b.first_index + n * s + min(n, b.remainder)
  BY DEF start
<1> HIDE DEF n, s, d
<1> QED  BY <1>4, <1>5, <1>6, <1>7 DEF n

-----------------------------------------------------------------------------
(* The loop.                                                               *)

\* The object of class blocks, as the constructor leaves it.
Divided ==
    /\ range \in Int \X Int
    /\ wanted \in Nat \ {0}
    /\ blks = blocks(FirstIndex, AfterLast, wanted)

\* The tasks submitted so far cover the range up to the start of block blk, each
\* index once, and each task is its block.
Covered ==
    /\ submitted \in Seq([from : Int, to : Int])
    /\ blk = Len(submitted)
    /\ blk \in 0..blks.num_blocks
    /\ \A k \in DOMAIN submitted :
           /\ submitted[k].from = start(blks, k - 1)
           /\ submitted[k].to = start(blks, k)
           /\ FirstIndex <= submitted[k].from
           /\ submitted[k].to <= start(blks, blk)
    /\ \A i \in FirstIndex..start(blks, blk) - 1 : ExactlyOne(i)

BlocksInv == Divided /\ Covered

\* A range that is not empty: every block has an index, and the last block ends
\* with the range.
LEMMA BlocksFacts ==
    ASSUME Divided
    PROVE  /\ blks.num_blocks \in Nat /\ blks.first_index = FirstIndex
           /\ blks.block_size \in Nat /\ blks.remainder \in Nat
           /\ blks.remainder <= blks.num_blocks
           /\ AfterLast <= FirstIndex => blks.num_blocks = 0
           /\ AfterLast > FirstIndex =>
                  /\ blks.num_blocks = min(wanted, AfterLast - FirstIndex)
                  /\ blks.num_blocks > 0
                  /\ blks.block_size > 0
                  /\ blks.index_after_last = AfterLast
                  /\ start(blks, blks.num_blocks) = AfterLast
<1>1. FirstIndex \in Int /\ AfterLast \in Int
  BY DEF Divided, FirstIndex, AfterLast
<1>2. CASE AfterLast <= FirstIndex
  <2>1. blks = Empty(FirstIndex, AfterLast)
    BY <1>1, <1>2 DEF Divided, blocks
  <2> QED  BY <1>1, <1>2, <2>1 DEF Empty
<1>3. CASE AfterLast > FirstIndex
  <2>1. blks = Divide(FirstIndex, AfterLast, wanted)
    BY <1>1, <1>3 DEF Divided, blocks
  <2>2. /\ blks.first_index = FirstIndex /\ blks.index_after_last = AfterLast
        /\ blks.num_blocks \in 1..wanted
        /\ blks.num_blocks = min(wanted, AfterLast - FirstIndex)
        /\ blks.block_size \in Nat \ {0}
        /\ blks.remainder \in 0..blks.num_blocks - 1
        /\ AfterLast - FirstIndex = blks.num_blocks * blks.block_size + blks.remainder
    BY <1>1, <1>3, <2>1, DivideFacts DEF Divided
  <2>3. wanted \in Nat
    BY DEF Divided
  <2>4. blks.num_blocks \in Nat /\ blks.num_blocks > 0
    BY <2>2, <2>3
  <2>5. blks.num_blocks * blks.block_size \in Nat
    BY <2>2, <2>4
  <2>6. min(blks.num_blocks, blks.remainder) = blks.remainder
    BY <2>2, <2>4 DEF min
  <2>7. start(blks, blks.num_blocks) = AfterLast
    BY <1>1, <2>2, <2>4, <2>5, <2>6 DEF start
  <2>8. blks.remainder \in Nat /\ blks.remainder <= blks.num_blocks
    BY <2>2, <2>4
  <2>9. blks.block_size \in Nat /\ blks.block_size > 0
    BY <2>2
  <2> QED  BY <1>1, <1>3, <2>2, <2>4, <2>7, <2>8, <2>9
<1> QED  BY <1>1, <1>2, <1>3

LEMMA BlocksInit == LoopInit => BlocksInv
<1> SUFFICES ASSUME LoopInit PROVE BlocksInv
  OBVIOUS
<1>1. range \in Int \X Int
  BY IndexAssumption DEF LoopInit
<1>2. wanted \in Nat \ {0}
  BY ThreadsAssumption, RequestsAssumption DEF LoopInit
<1>3. Divided
  BY <1>1, <1>2 DEF LoopInit, Divided, FirstIndex, AfterLast
<1>4. start(blks, 0) = FirstIndex
  BY <1>1, <1>3, BlocksFacts, StartFacts DEF FirstIndex
<1> QED  BY <1>1, <1>3, <1>4, BlocksFacts DEF LoopInit, BlocksInv, Covered, FirstIndex

LEMMA BlocksNext == BlocksInv /\ [DetachBlock]_loopVars => BlocksInv'
<1> SUFFICES ASSUME BlocksInv, [DetachBlock]_loopVars PROVE BlocksInv'
  OBVIOUS
<1>1. CASE UNCHANGED loopVars
  BY <1>1 DEF loopVars, BlocksInv, Divided, Covered, FirstIndex, AfterLast, ExactlyOne, InBlock
<1>2. CASE DetachBlock
  <2>1. Divided /\ FirstIndex \in Int /\ AfterLast \in Int
    BY DEF BlocksInv, Divided, FirstIndex, AfterLast
  <2>2. blks' = blks /\ FirstIndex' = FirstIndex /\ AfterLast' = AfterLast /\ Divided'
    BY <1>2, <2>1 DEF DetachBlock, Divided, FirstIndex, AfterLast
  <2>3. /\ blk \in Nat /\ blk < blks.num_blocks /\ blk + 1 \in 0..blks.num_blocks
        /\ AfterLast > FirstIndex
    BY <1>2, <2>1, BlocksFacts DEF DetachBlock, BlocksInv, Covered
  <2> DEFINE a == start(blks, blk)
             z == start(blks, blk + 1)
  <2>4. a \in Int /\ z \in Int /\ a < z /\ FirstIndex <= a
    <3>1. a \in Int /\ z \in Int /\ a < z
      BY <2>1, <2>3, BlocksFacts, StartFacts
    <3>2. CASE blk = 0
      <4>1. start(blks, 0) = FirstIndex
        BY <2>1, BlocksFacts, StartFacts
      <4> QED  BY <2>1, <3>1, <3>2, <4>1
    <3>3. CASE blk # 0
      <4>1. blk \in DOMAIN submitted
        BY <3>3 DEF BlocksInv, Covered
      <4>2. /\ FirstIndex <= submitted[blk].from
            /\ submitted[blk].from = start(blks, blk - 1)
        BY <4>1 DEF BlocksInv, Covered
      <4>3. blk - 1 \in Nat /\ (blk - 1) + 1 = blk
        BY <2>3, <3>3
      <4>4. start(blks, blk - 1) \in Int /\ start(blks, blk - 1) < a
        BY <2>1, <2>3, <4>3, BlocksFacts, StartFacts
      <4> QED  BY <2>1, <3>1, <4>2, <4>4
    <3> QED  BY <3>1, <3>2, <3>3
  <2>5. end(blks, blk) = z
    BY <2>1, <2>3, BlocksFacts DEF end
  <2>6. submitted' = Append(submitted, [from |-> a, to |-> z]) /\ blk' = blk + 1
    BY <1>2, <2>5 DEF DetachBlock
  <2> HIDE DEF a, z
  <2>7. /\ submitted' \in Seq([from : Int, to : Int])
        /\ blk' = Len(submitted')
        /\ DOMAIN submitted' = DOMAIN submitted \cup {blk + 1}
        /\ \A k \in DOMAIN submitted : submitted'[k] = submitted[k]
        /\ submitted'[blk + 1] = [from |-> a, to |-> z]
        /\ DOMAIN submitted = 1..blk
    BY <2>4, <2>6 DEF BlocksInv, Covered
  <2>8. \A k \in DOMAIN submitted : submitted[k] \in [from : Int, to : Int]
    <3> DEFINE Block == [from : Int, to : Int]
    <3>1. submitted \in Seq(Block)
      BY DEF BlocksInv, Covered
    <3> HIDE DEF Block
    <3>2. \A k \in DOMAIN submitted : submitted[k] \in Block
      BY <3>1, ElementOfSeq
    <3> QED  BY <3>2 DEF Block
  <2>9. \A k \in DOMAIN submitted' :
            /\ submitted'[k].from = start(blks, k - 1)
            /\ submitted'[k].to = start(blks, k)
            /\ FirstIndex <= submitted'[k].from
            /\ submitted'[k].to <= z
    <3>1. ASSUME NEW k \in DOMAIN submitted
          PROVE  /\ submitted'[k].from = start(blks, k - 1)
                 /\ submitted'[k].to = start(blks, k)
                 /\ FirstIndex <= submitted'[k].from
                 /\ submitted'[k].to <= z
      <4>1. submitted[k].to \in Int /\ submitted[k].to <= a
        BY <2>8 DEF BlocksInv, Covered, a
      <4> QED  BY <2>4, <2>7, <4>1 DEF BlocksInv, Covered
    <3>2. (blk + 1) - 1 = blk
      BY <2>3
    <3> QED  BY <2>4, <2>7, <3>1, <3>2 DEF a, z
  <2>10. ASSUME NEW i \in FirstIndex..z - 1
        PROVE  ExactlyOne(i)'
    <3>1. \A k \in DOMAIN submitted : InBlock(i, k)' <=> InBlock(i, k)
      BY <2>7 DEF InBlock
    <3>2. \A k : k = blk + 1 => (InBlock(i, k)' <=> a <= i)
      BY <2>4, <2>7 DEF InBlock
    <3>3. \A k \in DOMAIN submitted : InBlock(i, k) => i < a
      <4> TAKE k \in DOMAIN submitted
      <4>1. submitted[k].to \in Int /\ submitted[k].to <= a
        BY <2>8 DEF BlocksInv, Covered, a
      <4> QED  BY <2>1, <2>4, <4>1 DEF InBlock
    <3>4. CASE i < a
      <4>1. i \in FirstIndex..a - 1
        BY <2>1, <2>4, <3>4
      <4>2. ExactlyOne(i)
        BY <4>1 DEF BlocksInv, Covered, a
      <4>3. \A k : k = blk + 1 => ~InBlock(i, k)'
        BY <2>1, <2>4, <3>2, <3>4
      <4> QED  BY <2>7, <3>1, <4>2, <4>3 DEF ExactlyOne
    <3>5. CASE ~(i < a)
      <4>1. \A k : k = blk + 1 => InBlock(i, k)'
        BY <2>1, <2>4, <3>2, <3>5
      <4>2. \A k \in DOMAIN submitted' : InBlock(i, k)' => k = blk + 1
        BY <2>7, <3>1, <3>3, <3>5
      <4> QED  BY <2>7, <4>1, <4>2 DEF ExactlyOne
    <3> QED  BY <3>4, <3>5
  <2>11. start(blks, blk)' = z /\ \A k : start(blks, k)' = start(blks, k)
    BY <2>2, <2>6 DEF start, z
  <2>12. Covered'
    BY <2>2, <2>3, <2>6, <2>7, <2>9, <2>10, <2>11 DEF Covered
  <2> QED  BY <2>2, <2>12 DEF BlocksInv
<1> QED  BY <1>1, <1>2

\* The inductive invariant: the tasks submitted so far cover the range up to the
\* start of the next block, each index once.
THEOREM BlocksInvHolds == LoopSpec => []BlocksInv
BY BlocksInit, BlocksNext, PTL DEF LoopSpec

\* When detach_blocks returns, every index of the range is in one block and only
\* one, for every range, pool and number of blocks asked for.
THEOREM EachIndexOnceHolds == LoopSpec => []EachIndexOnce
<1>1. BlocksInv => EachIndexOnce
  <2> SUFFICES ASSUME BlocksInv, blk = blks.num_blocks, NEW i \in FirstIndex..AfterLast - 1
               PROVE  ExactlyOne(i)
    BY DEF EachIndexOnce
  <2>1. FirstIndex \in Int /\ AfterLast \in Int /\ AfterLast > FirstIndex
    BY DEF BlocksInv, Divided, FirstIndex, AfterLast
  <2>2. start(blks, blk) = AfterLast
    BY <2>1, BlocksFacts DEF BlocksInv
  <2> QED  BY <2>2 DEF BlocksInv, Covered
<1> QED  BY <1>1, BlocksInvHolds, PTL

\* No task is empty or leaves the range, and two of them differ by at most one
\* index: the blocks are balanced, for every range, pool and number of blocks.
THEOREM BalancedHolds == LoopSpec => []Balanced
<1>1. BlocksInv => Balanced
  <2> SUFFICES ASSUME BlocksInv PROVE Balanced
    OBVIOUS
  <2>1. Divided /\ FirstIndex \in Int /\ AfterLast \in Int
    BY DEF BlocksInv, Divided, FirstIndex, AfterLast
  <2>2. ASSUME NEW k \in DOMAIN submitted
        PROVE  /\ FirstIndex <= submitted[k].from /\ submitted[k].to <= AfterLast
               /\ submitted[k].from \in Int /\ submitted[k].to \in Int
               /\ submitted[k].to - submitted[k].from \in blks.block_size..blks.block_size + 1
               /\ submitted[k].to > submitted[k].from
    <3>1. k \in Nat \ {0} /\ k <= blks.num_blocks /\ blks.num_blocks \in Nat
      <4>1. DOMAIN submitted = 1..Len(submitted) /\ Len(submitted) \in Nat
        BY LenProperties DEF BlocksInv, Covered
      <4>2. blks.num_blocks \in Nat
        BY <2>1, BlocksFacts
      <4>3. Len(submitted) <= blks.num_blocks
        BY <4>1, <4>2 DEF BlocksInv, Covered
      <4> QED BY <4>1, <4>2, <4>3
    <3>2. AfterLast > FirstIndex /\ blks.block_size > 0
      BY <2>1, <3>1, BlocksFacts
    <3>3. k - 1 \in Nat /\ (k - 1) + 1 = k
      BY <3>1
    <3>4. /\ start(blks, k - 1) \in Int /\ start(blks, k) \in Int
          /\ start(blks, k) - start(blks, k - 1) \in blks.block_size..blks.block_size + 1
      BY <2>1, <3>3, BlocksFacts, StartFacts
    <3>5. start(blks, k) <= AfterLast
      <4>1. k \in 0..blks.num_blocks /\ blks.remainder \in 0..blks.num_blocks
        BY <2>1, <3>1, BlocksFacts
      <4>2. blks.first_index \in Int
        BY <2>1, BlocksFacts
      <4> QED  BY <2>1, <3>2, <4>1, <4>2, BlocksFacts, StartBefore
    <3>6. /\ FirstIndex <= submitted[k].from
          /\ submitted[k].from = start(blks, k - 1) /\ submitted[k].to = start(blks, k)
      BY DEF BlocksInv, Covered
    <3>7. blks.block_size \in Nat
      BY <2>1, BlocksFacts
    <3> QED  BY <3>2, <3>4, <3>5, <3>6, <3>7
  <2> QED  BY <2>1, <2>2, BlocksFacts DEF Balanced
<1> QED  BY <1>1, BlocksInvHolds, PTL

\* Never more tasks than asked for, nor fewer if the range has the indices.
THEOREM AsManyAsAskedHolds == LoopSpec => []AsManyAsAsked
<1>1. BlocksInv => AsManyAsAsked
  BY BlocksFacts DEF BlocksInv, Covered, AsManyAsAsked
<1> QED  BY <1>1, BlocksInvHolds, PTL

-----------------------------------------------------------------------------
(* The strings.                                                            *)

\* A set of positions has a least one and a greatest one.
LEMMA HasLeast ==
  ASSUME NEW S \in SUBSET Nat, S # {}
  PROVE  \E m \in S : \A k \in S : m <= k
<1> DEFINE R == OpToRel(<, Nat)
<1>1. IsWellFoundedOn(R, Nat)
  BY NatLessThanWellFounded
<1>2. R = {ss \in Nat \X Nat : ss[1] < ss[2]}
  BY DEF OpToRel
<1> HIDE DEF R
<1>3. \E m \in S : \A k \in S : ~(<<k, m>> \in R)
  BY <1>1, WFMin
<1>4. \A k, m \in S : <<k, m>> \notin R => m <= k
  BY <1>2
<1> QED BY <1>3, <1>4

LEMMA LeastFacts ==
  ASSUME NEW S \in SUBSET Nat, S # {}
  PROVE  Least(S) \in S /\ \A j \in S : Least(S) <= j
  BY HasLeast DEF Least

LEMMA GreatestFacts ==
  ASSUME NEW n \in Nat, NEW S \in SUBSET (0..n), S # {}
  PROVE  Greatest(S) \in S /\ \A j \in S : j <= Greatest(S)
<1> DEFINE T == {n - i : i \in S}
<1>0. T \in SUBSET Nat /\ T # {}
  <2>1. \A i \in S : n - i \in Nat
    OBVIOUS
  <2> QED BY <2>1
<1>1. PICK m \in T : \A k \in T : m <= k
  <2> HIDE DEF T
  <2> QED BY <1>0, HasLeast
<1>2. PICK i \in S : m = n - i
  BY <1>1
<1>3. \A j \in S : i >= j
  BY <1>1, <1>2
<1> QED BY <1>3 DEF Greatest

\* npos is no position, and no sum of two: it is what + 1 wraps to 0.
LEMMA NposFacts ==
  /\ npos \in Nat /\ MaxLength + MaxToken < npos
  /\ Wrap(npos + 1) = 0
  /\ \A n \in 0..npos : Wrap(n) = n
  /\ \A n \in 1..npos : Wrap(-n) = npos + 1 - n
<1>1. npos \in Nat /\ MaxLength + MaxToken < npos /\ npos + 1 = 2^SizeBits
  BY SizeAssumption DEF npos
<1>2. \A n, m \in Nat : n < m => n % m = n
  BY SMT
<1>3. ASSUME NEW m \in Nat, NEW n \in 1..m PROVE (-n) % m = m - n
  BY SMT
<1>4. \A m \in Nat : m > 0 => m % m = 0
  BY SMT
<1>5. \A n \in Int : Wrap(n) = n % (npos + 1)
  BY <1>1 DEF Wrap
<1>6. Wrap(npos + 1) = 0
  BY <1>1, <1>4, <1>5
<1>7. \A n \in 0..npos : Wrap(n) = n
  BY <1>1, <1>2, <1>5
<1>8. \A n \in 1..npos : Wrap(-n) = npos + 1 - n
  <2> TAKE n \in 1..npos
  <2>1. n \in Nat /\ npos + 1 \in Nat /\ n < npos + 1 /\ n > 0 /\ -n \in Int
    BY <1>1
  <2> DEFINE m == npos + 1
  <2>2. m \in Nat /\ n \in 1..m
    BY <2>1
  <2>3. Wrap(-n) = (-n) % m
    BY <2>1, <1>5
  <2> HIDE DEF m
  <2>4. (-n) % m = m - n
    BY <2>2, <1>3
  <2>5. Wrap(-n) = m - n
    BY <2>3, <2>4
  <2> QED BY <1>1, <2>5 DEF m
<1> QED BY <1>1, <1>6, <1>7, <1>8

LEMMA StringsFacts ==
  ASSUME NEW n \in Nat, NEW s \in Strings(n)
  PROVE  s \in Seq(Char) /\ Len(s) \in 0..n
  BY DEF Strings

LEMMA WithoutFacts ==
  ASSUME NEW s \in Seq(Char), NEW n \in Nat
  PROVE  /\ Without(s, n) \in Seq(Char)
         /\ Len(Without(s, n)) = IF n <= Len(s) THEN Len(s) - n ELSE 0
         /\ \A i \in 1..Len(s) - n : Without(s, n)[i] = s[n + i]
<1>1. \A i \in n + 1..Len(s) : s[i] \in Char
  OBVIOUS
<1> QED BY <1>1, SubSeqProperties DEF Without

LEMMA UpToFacts ==
  ASSUME NEW s \in Seq(Char), NEW n \in Nat
  PROVE  /\ UpTo(s, n) \in Seq(Char)
         /\ Len(UpTo(s, n)) = IF n >= Len(s) THEN Len(s) ELSE n
         /\ \A i \in 1..Len(UpTo(s, n)) : UpTo(s, n)[i] = s[i]
<1>1. n < Len(s) => \A i \in 1..n : s[i] \in Char
  OBVIOUS
<1> QED BY <1>1, SubSeqProperties DEF UpTo

LEMMA PrefixFacts ==
  ASSUME NEW s \in Seq(Char), NEW t \in Seq(Char)
  PROVE  IsPrefix(s, t) <=> Len(s) <= Len(t) /\ \A i \in 1..Len(s) : s[i] = t[i]
<1>1. SubSeq(s, 1, Len(s)) = s
  BY SubSeqFull
<1>2. ASSUME Len(s) <= Len(t)
      PROVE  /\ SubSeq(t, 1, Len(s)) \in Seq(Char) /\ Len(SubSeq(t, 1, Len(s))) = Len(s)
             /\ \A i \in 1..Len(s) : SubSeq(t, 1, Len(s))[i] = t[i]
  BY <1>2, SubSeqProperties
<1>3. Len(s) <= Len(t) => (s = SubSeq(t, 1, Len(s)) <=> \A i \in 1..Len(s) : s[i] = t[i])
  BY <1>2, SeqEqual
<1> QED BY <1>1, <1>3 DEF IsPrefix

LEMMA ReverseFacts ==
  ASSUME NEW s \in Seq(Char)
  PROVE  /\ Reverse(s) \in Seq(Char) /\ Len(Reverse(s)) = Len(s)
         /\ \A i \in 1..Len(s) : Reverse(s)[i] = s[Len(s) - i + 1]
  BY DEF Reverse

LEMMA SuffixFacts ==
  ASSUME NEW s \in Seq(Char), NEW t \in Seq(Char)
  PROVE  IsSuffix(s, t) <=> /\ Len(s) <= Len(t)
                            /\ \A i \in 1..Len(s) : s[i] = t[Len(t) - Len(s) + i]
<1>1. IsSuffix(s, t) <=> /\ Len(s) <= Len(t)
                         /\ \A i \in 1..Len(s) : Reverse(s)[i] = Reverse(t)[i]
  BY ReverseFacts, PrefixFacts DEF IsSuffix
<1>2. IsSuffix(s, t) <=> /\ Len(s) <= Len(t)
                         /\ \A i \in 1..Len(s) : s[Len(s) - i + 1] = t[Len(t) - i + 1]
  BY <1>1, ReverseFacts
<1>3. ASSUME \A i \in 1..Len(s) : s[Len(s) - i + 1] = t[Len(t) - i + 1], NEW i \in 1..Len(s)
      PROVE  s[i] = t[Len(t) - Len(s) + i]
  <2>1. Len(s) - i + 1 \in 1..Len(s) /\ Len(s) - (Len(s) - i + 1) + 1 = i
        /\ Len(t) - (Len(s) - i + 1) + 1 = Len(t) - Len(s) + i
    OBVIOUS
  <2> QED BY <1>3, <2>1
<1>4. ASSUME \A i \in 1..Len(s) : s[i] = t[Len(t) - Len(s) + i], NEW i \in 1..Len(s)
      PROVE  s[Len(s) - i + 1] = t[Len(t) - i + 1]
  <2>1. Len(s) - i + 1 \in 1..Len(s) /\ Len(t) - Len(s) + (Len(s) - i + 1) = Len(t) - i + 1
    OBVIOUS
  <2> QED BY <1>4, <2>1
<1> QED BY <1>2, <1>3, <1>4

LEMMA OnlyFacts ==
  ASSUME NEW s \in Seq(Char), NEW t
  PROVE  Only(s, t) <=> \A i \in 1..Len(s) : s[i] \in ToSet(t)
<1>1. ToSet(s) = {s[i] : i \in 1..Len(s)}
  BY DEF ToSet
<1> QED BY <1>1 DEF Only

\* A character is in no position from 0 that is not one of the string, from 1.
LEMMA NotOfFacts ==
  ASSUME NEW s \in Seq(Char), NEW t
  PROVE  /\ NotOf(s, t) \in SUBSET (0..Len(s)) /\ \A i \in NotOf(s, t) : i < Len(s)
         /\ \A i \in 1..Len(s) : i - 1 \in NotOf(s, t) <=> s[i] \notin ToSet(t)
  BY DEF NotOf, Positions, CharAt

LEMMA TrimHolds ==
  ASSUME NEW s \in Strings(MaxLength), NEW t,
         NEW u, u = Trim(s, t)
  PROVE  /\ \E n \in 0..Len(s) : /\ IsPrefix(u, Without(s, n)) /\ Only(UpTo(s, n), t)
                                 /\ Only(Without(s, n + Len(u)), t)
         /\ u # <<>> => Head(u) \notin ToSet(t) /\ Last(u) \notin ToSet(t)
<1> DEFINE l == find_first_not_of(s, t)
           m == TrimLeft(s, t)
           r == find_last_not_of(m, t)
<1>0. s \in Seq(Char) /\ Len(s) \in 0..MaxLength /\ MaxLength \in Nat /\ MaxToken \in Nat
  BY StringsFacts, SizeAssumption
<1>1. u = UpTo(m, Wrap(r + 1)) /\ m = Without(s, l)
  BY DEF Trim, TrimRight, TrimLeft
<1>2. CASE NotOf(s, t) = {}
  <2>1. l = npos
    BY <1>2 DEF find_first_not_of, Least
  <2>2. m \in Seq(Char) /\ Len(m) = 0
    <3>1. npos \in Nat /\ ~(npos <= Len(s)) /\ s \in Seq(Char)
      BY <1>0, NposFacts
    <3>2. Without(s, npos) \in Seq(Char) /\ Len(Without(s, npos)) = 0
      BY <3>1, WithoutFacts
    <3> QED BY <1>1, <2>1, <3>2
  <2>3. NotOf(m, t) = {}
    BY <2>2 DEF NotOf, Positions
  <2>4. r = npos
    BY <2>3 DEF find_last_not_of, Greatest
  <2>5. u \in Seq(Char) /\ Len(u) = 0
    <3>1. u = UpTo(m, 0)
      BY <1>1, <2>4, NposFacts
    <3> HIDE DEF m
    <3>2. UpTo(m, 0) = m
      BY <2>2 DEF UpTo
    <3> QED BY <2>2, <3>1, <3>2
  <2>6. u = <<>>
    BY <2>5
  <2>7. \A i \in 1..Len(s) : s[i] \in ToSet(t)
    BY <1>0, <1>2, NotOfFacts
  <2>8. Without(s, 0) = s
    BY <1>0, SubSeqFull DEF Without
  <2>10. UpTo(s, 0) \in Seq(Char) /\ Len(UpTo(s, 0)) = 0
    BY <1>0, UpToFacts
  <2>9. IsPrefix(u, Without(s, 0)) /\ Only(UpTo(s, 0), t) /\ Only(Without(s, 0), t)
    BY <1>0, <2>5, <2>7, <2>8, <2>10, PrefixFacts, OnlyFacts
  <2> QED BY <1>0, <2>5, <2>6, <2>9
<1>3. CASE NotOf(s, t) # {}
  <2>1. l \in NotOf(s, t) /\ \A j \in NotOf(s, t) : l <= j
    <3>1. NotOf(s, t) \in SUBSET Nat
      BY <1>0, NotOfFacts
    <3>2. Least(NotOf(s, t)) \in NotOf(s, t) /\ \A j \in NotOf(s, t) : Least(NotOf(s, t)) <= j
      BY <1>3, <3>1, Zenon, LeastFacts
    <3> QED BY <3>2, Zenon DEF find_first_not_of
  <2>2. l \in 0..Len(s) - 1
    BY <1>0, <2>1, NotOfFacts
  <2> HIDE DEF l
  <2>3. /\ m \in Seq(Char) /\ Len(m) = Len(s) - l
        /\ \A i \in 1..Len(s) - l : m[i] = s[l + i]
    <3>1. m = Without(s, l) /\ l \in Nat /\ l <= Len(s)
      BY <1>0, <1>1, <2>2
    <3> HIDE DEF m
    <3> QED BY <1>0, <3>1, WithoutFacts
  <2> HIDE DEF m
  <2>4. s[l + 1] \notin ToSet(t) /\ \A i \in 1..l : s[i] \in ToSet(t)
    <3>1. l + 1 \in 1..Len(s) /\ (l + 1) - 1 = l
      BY <1>0, <2>2
    <3>2. \A i \in 1..l : i \in 1..Len(s) /\ i - 1 < l /\ i - 1 \in Nat
      BY <1>0, <2>2
    <3> QED BY <1>0, <2>1, <2>2, <3>1, <3>2, NotOfFacts
  <2>5. m[1] \notin ToSet(t) /\ 0 \in NotOf(m, t)
    <3>1. m[1] \notin ToSet(t)
      BY <1>0, <2>2, <2>3, <2>4
    <3>2. 1 \in 1..Len(m) /\ 1 - 1 = 0
      BY <1>0, <2>2, <2>3
    <3> QED BY <2>3, <3>1, <3>2, NotOfFacts
  <2>6. r \in NotOf(m, t) /\ \A j \in NotOf(m, t) : j <= r
    <3>1. NotOf(m, t) \in SUBSET (0..Len(m)) /\ NotOf(m, t) # {} /\ Len(m) \in Nat
      BY <2>3, <2>5, NotOfFacts
    <3> QED BY <3>1, GreatestFacts DEF find_last_not_of
  <2>7. r \in 0..Len(m) - 1
    BY <2>3, <2>6, NotOfFacts
  <2> HIDE DEF r
  <2>8. m[r + 1] \notin ToSet(t) /\ \A i \in r + 2..Len(m) : m[i] \in ToSet(t)
    <3>1. r + 1 \in 1..Len(m) /\ (r + 1) - 1 = r
      BY <2>3, <2>7
    <3>2. \A i \in r + 2..Len(m) : i \in 1..Len(m) /\ ~(i - 1 <= r)
      BY <2>3, <2>7
    <3> QED BY <2>3, <2>6, <3>1, <3>2, NotOfFacts
  <2>9. Wrap(r + 1) = r + 1
    BY <1>0, <2>2, <2>3, <2>7, NposFacts
  <2>10. u \in Seq(Char) /\ Len(u) = r + 1 /\ \A i \in 1..r + 1 : u[i] = m[i]
    BY <1>1, <2>3, <2>7, <2>9, UpToFacts
  <2>11. IsPrefix(u, Without(s, l))
    BY <1>1, <2>3, <2>7, <2>10, PrefixFacts
  <2>12. Only(UpTo(s, l), t)
    BY <1>0, <2>2, <2>4, UpToFacts, OnlyFacts
  <2>13. Only(Without(s, l + Len(u)), t)
    <3> DEFINE w == Without(s, l + Len(u))
    <3>1. l + Len(u) = l + r + 1 /\ l + r + 1 \in 0..Len(s)
      BY <1>0, <2>2, <2>3, <2>7, <2>10
    <3>2. /\ w \in Seq(Char) /\ Len(w) = Len(s) - (l + r + 1)
          /\ \A i \in 1..Len(w) : w[i] = s[l + r + 1 + i]
      <4>1. l + Len(u) \in Nat /\ l + Len(u) <= Len(s)
        BY <3>1
      <4>2. /\ w \in Seq(Char) /\ Len(w) = Len(s) - (l + Len(u))
            /\ \A i \in 1..Len(s) - (l + Len(u)) : w[i] = s[l + Len(u) + i]
        BY <1>0, <4>1, WithoutFacts
      <4> QED BY <3>1, <4>2
    <3> HIDE DEF w
    <3>3. ASSUME NEW i \in 1..Len(w) PROVE w[i] \in ToSet(t)
      <4>1. r + 1 + i \in r + 2..Len(m) /\ r + 1 + i \in 1..Len(s) - l
        <5>1. l \in Int /\ r \in Int /\ i \in Int /\ Len(s) \in Int
          BY <1>0, <2>2, <2>7, <3>2
        <5>2. 1 <= i /\ i <= Len(s) - (l + r + 1) /\ 0 <= r /\ Len(m) = Len(s) - l
          BY <2>3, <2>7, <3>2
        <5> QED BY <5>1, <5>2
      <4>2. l + (r + 1 + i) = l + r + 1 + i
        BY <2>2, <2>7, <3>2
      <4> QED BY <2>3, <2>8, <3>2, <4>1, <4>2
    <3> QED BY <3>2, <3>3, OnlyFacts DEF w
  <2>14. Head(u) = u[1] /\ Last(u) = u[Len(u)]
    BY <2>10 DEF Last
  <2>15. Head(u) \notin ToSet(t) /\ Last(u) \notin ToSet(t)
    BY <2>5, <2>7, <2>8, <2>10, <2>14
  <2>16. l \in 0..Len(s)
    BY <1>0, <2>2
  <2> QED BY <2>11, <2>12, <2>13, <2>15, <2>16
<1> QED BY <1>2, <1>3

\* An occurrence at i is a prefix of what follows the first i characters.
LEMMA OccurrencesFacts ==
  ASSUME NEW s \in Seq(Char), NEW t \in Seq(Char)
  PROVE  /\ Occurrences(s, t) \in SUBSET (0..Len(s))
         /\ \A i \in 0..Len(s) : i \in Occurrences(s, t) <=> IsPrefix(t, Without(s, i))
         /\ \A i \in 0..Len(s) : i \in Occurrences(s, t) <=>
                /\ i + Len(t) <= Len(s)
                /\ \A j \in 1..Len(t) : t[j] = s[i + j]
<1>1. Occurrences(s, t) \in SUBSET (0..Len(s))
  BY DEF Occurrences
<1>2. ASSUME NEW i \in 0..Len(s)
      PROVE  IsPrefix(t, Without(s, i)) <=>
                /\ i + Len(t) <= Len(s)
                /\ \A j \in 1..Len(t) : t[j] = s[i + j]
  <2> DEFINE w == Without(s, i)
  <2>0. i \in Nat /\ i <= Len(s)
    OBVIOUS
  <2>1. w \in Seq(Char) /\ Len(w) = Len(s) - i /\ \A j \in 1..Len(s) - i : w[j] = s[i + j]
    BY <2>0, WithoutFacts
  <2> HIDE DEF w
  <2>2. IsPrefix(t, w) <=> Len(t) <= Len(w) /\ \A j \in 1..Len(t) : t[j] = w[j]
    BY <2>1, PrefixFacts
  <2>3. Len(t) <= Len(w) <=> i + Len(t) <= Len(s)
    BY <2>1
  <2>4. i + Len(t) <= Len(s) => \A j \in 1..Len(t) : w[j] = s[i + j]
    BY <2>1
  <2>5. IsPrefix(t, w) <=> i + Len(t) <= Len(s) /\ \A j \in 1..Len(t) : t[j] = s[i + j]
    BY <2>2, <2>3, <2>4
  <2> QED BY <2>5 DEF w
<1>3. ASSUME NEW i \in 0..Len(s), i + Len(t) <= Len(s)
      PROVE  SubSeq(s, i + 1, i + Len(t)) = t <=> \A j \in 1..Len(t) : t[j] = s[i + j]
  <2> DEFINE w == SubSeq(s, i + 1, i + Len(t))
  <2>1. \A j \in i + 1..i + Len(t) : s[j] \in Char
    BY <1>3
  <2>2. w \in Seq(Char) /\ Len(w) = Len(t) /\ \A j \in 1..Len(t) : w[j] = s[i + j]
    BY <1>3, <2>1, SubSeqProperties
  <2> HIDE DEF w
  <2>3. w = t <=> \A j \in 1..Len(t) : t[j] = s[i + j]
    BY <2>2, SeqEqual
  <2> QED BY <2>3 DEF w
<1>4. \A i \in 0..Len(s) : i \in Occurrences(s, t) <=>
          i + Len(t) <= Len(s) /\ SubSeq(s, i + 1, i + Len(t)) = t
  BY DEF Occurrences
<1> QED BY <1>1, <1>2, <1>3, <1>4

LEMMA FoundHolds ==
  ASSUME NEW s \in Strings(MaxLength), NEW t \in Strings(MaxToken)
  PROVE  /\ StartsWith(s, t) <=> IsPrefix(t, s)
         /\ contains(s, t) <=> \E n \in 0..Len(s) : IsPrefix(t, Without(s, n))
         /\ EndsWith(s, t) <=> IsSuffix(t, s) \/ Len(t) = Len(s) + 1
<1>0. /\ s \in Seq(Char) /\ Len(s) \in 0..MaxLength /\ MaxLength \in Nat
      /\ t \in Seq(Char) /\ Len(t) \in 0..MaxToken /\ MaxToken \in Nat
  BY StringsFacts, SizeAssumption
<1> DEFINE O == Occurrences(s, t)
<1>1. O \in SUBSET (0..Len(s)) /\ O \in SUBSET Nat
  BY <1>0, OccurrencesFacts
<1>2. O = {} => find(s, t) = npos /\ rfind(s, t) = npos
  BY DEF find, rfind, Least, Greatest
<1>3. O # {} => /\ find(s, t) \in O /\ \A j \in O : find(s, t) <= j
                /\ rfind(s, t) \in O /\ \A j \in O : j <= rfind(s, t)
  <2> HIDE DEF O
  <2>1. O # {} => Least(O) \in O /\ \A j \in O : Least(O) <= j
    BY <1>1, LeastFacts
  <2>2. O # {} => Greatest(O) \in O /\ \A j \in O : j <= Greatest(O)
    <3>1. Len(s) \in Nat /\ O \in SUBSET (0..Len(s))
      BY <1>0, <1>1
    <3> QED BY <3>1, GreatestFacts
  <2> QED BY <2>1, <2>2 DEF find, rfind, O
<1>4. npos \notin 0..Len(s)
  BY <1>0, NposFacts
<1>8. \A j \in O : j \in Nat
  BY <1>1
<1> HIDE DEF O
<1>5. StartsWith(s, t) <=> IsPrefix(t, s)
  <2>1. find(s, t) = 0 <=> 0 \in O
    <3>1. 0 \in 0..Len(s) /\ npos # 0
      BY <1>0, <1>4
    <3>2. CASE O = {}
      BY <1>2, <3>1, <3>2
    <3>3. CASE O # {}
      BY <1>8, <1>3, <3>3
    <3> QED BY <3>2, <3>3
  <2>2. 0 \in O <=> IsPrefix(t, s)
    BY <1>0, OccurrencesFacts, PrefixFacts DEF O
  <2> QED BY <2>1, <2>2 DEF StartsWith
<1>6. contains(s, t) <=> \E n \in 0..Len(s) : IsPrefix(t, Without(s, n))
  <2>1. find(s, t) # npos <=> O # {}
    BY <1>1, <1>2, <1>3, <1>4
  <2>2. O # {} <=> \E n \in 0..Len(s) : n \in O
    BY <1>1
  <2>3. \A n \in 0..Len(s) : n \in O <=> IsPrefix(t, Without(s, n))
    BY <1>0, OccurrencesFacts DEF O
  <2> QED BY <2>1, <2>2, <2>3 DEF contains
<1>7. EndsWith(s, t) <=> IsSuffix(t, s) \/ Len(t) = Len(s) + 1
  <2>1. CASE Len(t) <= Len(s)
    <3> DEFINE d == Len(s) - Len(t)
    <3>1. d \in 0..Len(s) /\ Wrap(d) = d
      BY <1>0, <2>1, NposFacts
    <3>2. d \in O <=> IsSuffix(t, s)
      BY <1>0, <2>1, <3>1, OccurrencesFacts, SuffixFacts DEF O
    <3>3. \A j \in O : j <= d
      BY <1>0, <1>1, OccurrencesFacts DEF O
    <3> HIDE DEF d
    <3>4. rfind(s, t) = d <=> d \in O
      <4>1. CASE O = {}
        BY <1>2, <1>4, <3>1, <4>1
      <4>2. CASE O # {}
        BY <1>8, <1>3, <3>1, <3>3, <4>2
      <4> QED BY <4>1, <4>2
    <3>5. Len(t) # Len(s) + 1
      BY <1>0, <2>1
    <3> QED BY <3>1, <3>2, <3>4, <3>5 DEF EndsWith, d
  <2>2. CASE Len(t) > Len(s)
    <3>1. O = {}
      BY <1>0, <1>1, <2>2, OccurrencesFacts DEF O
    <3>2. Len(t) - Len(s) \in 1..npos /\ Len(s) - Len(t) = -(Len(t) - Len(s))
      BY <1>0, <2>2, NposFacts
    <3>3. Wrap(Len(s) - Len(t)) = npos + 1 - (Len(t) - Len(s))
      BY <3>2, NposFacts
    <3>4. Wrap(Len(s) - Len(t)) = npos <=> Len(t) = Len(s) + 1
      <4>1. npos \in Int
        BY NposFacts
      <4>2. npos + 1 - (Len(t) - Len(s)) = npos <=> Len(t) = Len(s) + 1
        BY <1>0, <4>1
      <4> QED BY <3>3, <4>2
    <3>5. ~IsSuffix(t, s)
      BY <1>0, <2>2, SuffixFacts
    <3> QED BY <1>2, <3>1, <3>4, <3>5 DEF EndsWith
  <2> QED BY <1>0, <2>1, <2>2
<1> QED BY <1>5, <1>6, <1>7

LEMMA EqualsHolds ==
  ASSUME NEW s \in Seq(Char), NEW t \in Seq(Char)
  PROVE  EqualsIgnoreCase(s, t) <=> EqualsIgnoreCaseSample(s, t)
<1>1. \A a, b \in 0..127 :
          Lower(a) = Lower(b) <=>
              a = b \/ (charIsLetter(a) /\ charIsLetter(b) /\ a - b \in {32, -32})
  <2> TAKE a, b \in 0..127
  <2>1. charIsLetter(a) <=> (65 <= a /\ a <= 90) \/ (97 <= a /\ a <= 122)
    BY DEF charIsLetter
  <2>2. charIsLetter(b) <=> (65 <= b /\ b <= 90) \/ (97 <= b /\ b <= 122)
    BY DEF charIsLetter
  <2>3. Lower(a) = IF 65 <= a /\ a <= 90 THEN a + 32 ELSE a
    BY DEF Lower
  <2>4. Lower(b) = IF 65 <= b /\ b <= 90 THEN b + 32 ELSE b
    BY DEF Lower
  <2>5. a - b \in {32, -32} <=> a = b + 32 \/ b = a + 32
    OBVIOUS
  <2> QED BY <2>1, <2>2, <2>3, <2>4, <2>5
<1>2. \A i \in 1..Len(s) : s[i] \in 0..127
  BY CharAssumption, ElementOfSeq
<1>3. \A i \in 1..Len(t) : t[i] \in 0..127
  BY CharAssumption, ElementOfSeq
<1>4. DOMAIN s = 1..Len(s) /\ DOMAIN t = 1..Len(t)
  OBVIOUS
<1>5. ToLower(s) = ToLower(t) <=>
          Len(s) = Len(t) /\ \A i \in 1..Len(s) : Lower(s[i]) = Lower(t[i])
  <2>1. ASSUME ToLower(s) = ToLower(t)
        PROVE  Len(s) = Len(t) /\ \A i \in 1..Len(s) : Lower(s[i]) = Lower(t[i])
    <3>1. DOMAIN ToLower(s) = 1..Len(s) /\ DOMAIN ToLower(t) = 1..Len(t)
      BY <1>4 DEF ToLower
    <3>2. Len(s) = Len(t)
      BY <2>1, <3>1
    <3>3. ASSUME NEW i \in 1..Len(s) PROVE Lower(s[i]) = Lower(t[i])
      <4>1. ToLower(s)[i] = Lower(s[i]) /\ ToLower(t)[i] = Lower(t[i])
        BY <1>4, <3>2 DEF ToLower
      <4> QED BY <2>1, <4>1
    <3> QED BY <3>2, <3>3
  <2>2. ASSUME Len(s) = Len(t), \A i \in 1..Len(s) : Lower(s[i]) = Lower(t[i])
        PROVE  ToLower(s) = ToLower(t)
    BY <1>4, <2>2 DEF ToLower
  <2> QED BY <2>1, <2>2
<1>6. EqualsIgnoreCase(s, t) <=>
          Len(s) = Len(t) /\ \A i \in 1..Len(s) :
              s[i] = t[i] \/ (charIsLetter(s[i]) /\ charIsLetter(t[i]) /\ s[i] - t[i] \in {32, -32})
  BY <1>4 DEF EqualsIgnoreCase
<1> QED BY <1>1, <1>2, <1>3, <1>5, <1>6 DEF EqualsIgnoreCaseSample

\* A piece goes to the separator after its beginning, or to the end of the string.
PieceEnd(s, i, j) ==
    /\ j \in i..Len(s) + 1
    /\ j = Len(s) + 1 \/ s[j] = separator
    /\ \A k \in i..j - 1 : s[k] # separator

LEMMA PieceFacts ==
  ASSUME str \in Seq(Char), NEW i \in 1..Len(str) + 1, NEW j, PieceEnd(str, i, j)
  PROVE  PieceAt(i) = SubSeq(str, i, j - 1)
<1>1. \A k : PieceEnd(str, i, k) => k = j
  <2> SUFFICES ASSUME NEW k, PieceEnd(str, i, k), k # j PROVE FALSE
    OBVIOUS
  <2>1. j \in Int /\ k \in Int /\ Len(str) \in Nat
    BY DEF PieceEnd
  <2>2. CASE k < j
    <3>1. k \in i..j - 1 /\ k # Len(str) + 1
      BY <2>1, <2>2 DEF PieceEnd
    <3> QED BY <3>1 DEF PieceEnd
  <2>3. CASE j < k
    <3>1. j \in i..k - 1 /\ j # Len(str) + 1
      BY <2>1, <2>3 DEF PieceEnd
    <3> QED BY <3>1 DEF PieceEnd
  <2> QED BY <2>1, <2>2, <2>3
<1> DEFINE End(k) == /\ k = Len(str) + 1 \/ str[k] = separator
                     /\ \A h \in i..k - 1 : str[h] # separator
           e == CHOOSE k \in i..Len(str) + 1 : End(k)
<1>2. j \in i..Len(str) + 1 /\ End(j)
  BY DEF PieceEnd
<1>3. e \in i..Len(str) + 1 /\ End(e)
  BY <1>2
<1>4. PieceEnd(str, i, e)
  BY <1>3 DEF PieceEnd
<1>5. e = j
  BY <1>1, <1>4
<1>6. PieceAt(i) = SubSeq(str, i, e - 1)
  BY DEF PieceAt
<1> QED BY <1>5, <1>6

\* The separator found from newPos is the end of the piece that begins there.
LEMMA NextSeparator ==
  ASSUME str \in Strings(MaxLength), newPos \in 0..Len(str),
         NEW pos, pos = find_first_of(str, separator, newPos)
  PROVE  /\ pos # npos => /\ pos \in newPos..Len(str) - 1
                          /\ PieceEnd(str, newPos + 1, pos + 1) /\ str[pos + 1] = separator
         /\ pos = npos => PieceEnd(str, newPos + 1, Len(str) + 1)
<1> DEFINE S == {i \in Positions(str) : i >= newPos /\ CharAt(str, i) = separator}
<1>0. str \in Seq(Char) /\ Len(str) \in 0..MaxLength /\ MaxLength \in Nat /\ MaxToken \in Nat
  BY StringsFacts, SizeAssumption
<1>1. pos = Least(S)
  BY DEF find_first_of
<1>2. /\ S \in SUBSET Nat
      /\ \A i \in S : i \in newPos..Len(str) - 1
      /\ \A i \in newPos..Len(str) - 1 : i \in S <=> str[i + 1] = separator
  BY <1>0 DEF Positions, CharAt
<1> HIDE DEF S
<1>3. CASE S = {}
  <2>1. pos = npos
    BY <1>1, <1>3 DEF Least
  <2>2. ASSUME NEW k \in newPos + 1..Len(str) PROVE str[k] # separator
    <3>1. k - 1 \in newPos..Len(str) - 1 /\ (k - 1) + 1 = k
      BY <1>0
    <3> QED BY <1>2, <1>3, <3>1
  <2>3. PieceEnd(str, newPos + 1, Len(str) + 1)
    BY <1>0, <2>2 DEF PieceEnd
  <2> QED BY <2>1, <2>3
<1>4. CASE S # {}
  <2>1. pos \in S /\ \A j \in S : pos <= j
    BY <1>1, <1>2, <1>4, LeastFacts
  <2>2. pos \in newPos..Len(str) - 1 /\ str[pos + 1] = separator
    BY <1>2, <2>1
  <2>3. pos # npos
    BY <1>0, <2>2, NposFacts
  <2>4. ASSUME NEW k \in newPos + 1..pos PROVE str[k] # separator
    <3>1. k - 1 \in newPos..Len(str) - 1 /\ (k - 1) + 1 = k /\ ~(pos <= k - 1)
      BY <1>0, <2>2
    <3> QED BY <1>2, <2>1, <3>1
  <2>5. PieceEnd(str, newPos + 1, pos + 1)
    BY <1>0, <2>2, <2>4 DEF PieceEnd
  <2> QED BY <2>2, <2>3, <2>5
<1> QED BY <1>3, <1>4

\* Between one call's newPos and the next there is one beginning, if the piece is not empty or
\* ends the string.
LEMMA NextBeginnings ==
  ASSUME str \in Seq(Char), newPos \in 0..Len(str), newPos = 0 \/ str[newPos] = separator,
         NEW j, PieceEnd(str, newPos + 1, j)
  PROVE  /\ \A b \in Beginnings : newPos < b /\ b <= j => b = newPos + 1
         /\ newPos + 1 \in Beginnings <=> j > newPos + 1 \/ j = Len(str) + 1
<1>0. j \in newPos + 1..Len(str) + 1 /\ Len(str) \in Nat
  BY DEF PieceEnd
<1>1. ASSUME NEW b \in Beginnings, newPos < b, b <= j, b # newPos + 1 PROVE FALSE
  <2>1. b \in 1..Len(str) + 1 /\ b # 1 /\ str[b - 1] = separator
    BY <1>0, <1>1 DEF Beginnings
  <2>2. b - 1 \in newPos + 1..j - 1
    BY <1>0, <1>1, <2>1
  <2> QED BY <2>1, <2>2 DEF PieceEnd
<1>2. newPos + 1 \in Beginnings <=> newPos + 1 = Len(str) + 1 \/ str[newPos + 1] # separator
  <2>1. newPos + 1 \in 1..Len(str) + 1 /\ (newPos + 1 = 1 \/ str[(newPos + 1) - 1] = separator)
    BY <1>0
  <2> QED BY <2>1 DEF Beginnings
<1>3. CASE j > newPos + 1
  <2>1. newPos + 1 \in newPos + 1..j - 1
    BY <1>0, <1>3
  <2> QED BY <1>1, <1>2, <1>3, <2>1 DEF PieceEnd
<1>4. CASE j = newPos + 1
  <2>1. j = Len(str) + 1 \/ str[newPos + 1] = separator
    BY <1>4 DEF PieceEnd
  <2> QED BY <1>0, <1>1, <1>2, <1>4, <2>1
<1> QED BY <1>0, <1>3, <1>4

\* What StrtokRound cuts out of the string is the piece that begins at newPos.
LEMMA SubstrIsPiece ==
  ASSUME str \in Strings(MaxLength), newPos \in 0..Len(str),
         NEW pos, pos = npos \/ pos \in newPos..Len(str) - 1,
         NEW j, j = IF pos = npos THEN Len(str) + 1 ELSE pos + 1
  PROVE  /\ substr(str, newPos, pos - newPos) = SubSeq(str, newPos + 1, j - 1)
         /\ SubSeq(str, newPos + 1, j - 1) \in Strings(MaxLength)
<1> DEFINE w == Without(str, newPos)
           p == SubSeq(str, newPos + 1, j - 1)
<1>0. str \in Seq(Char) /\ Len(str) \in 0..MaxLength /\ MaxLength \in Nat /\ MaxToken \in Nat
  BY StringsFacts, SizeAssumption
<1>1. /\ w \in Seq(Char) /\ Len(w) = Len(str) - newPos
      /\ \A i \in 1..Len(str) - newPos : w[i] = str[newPos + i]
  BY <1>0, WithoutFacts
<1>2. npos \in Nat /\ MaxLength < npos
  BY <1>0, NposFacts
<1>3. j \in newPos + 1..Len(str) + 1
  BY <1>0, <1>2
<1>4. \A i \in newPos + 1..j - 1 : str[i] \in Char
  BY <1>0, <1>3
<1>5. p \in Seq(Char) /\ Len(p) = j - 1 - newPos /\ \A i \in 1..Len(p) : p[i] = str[newPos + i]
  <2> DEFINE e == j - 1
  <2>1. e \in Int /\ newPos + 1 \in Int /\ newPos + 1 <= e + 1 /\ \A i \in newPos + 1..e : str[i] \in Char
    BY <1>0, <1>3, <1>4
  <2> HIDE DEF e
  <2> DEFINE q == SubSeq(str, newPos + 1, e)
  <2>2. /\ q \in Seq(Char)
        /\ Len(q) = IF newPos + 1 <= e THEN e - (newPos + 1) + 1 ELSE 0
        /\ \A i \in 1..e - (newPos + 1) + 1 : q[i] = str[newPos + 1 + i - 1]
    BY <2>1, SubSeqProperties
  <2>3. p = q
    BY DEF e
  <2> HIDE DEF p, q
  <2>4. Len(p) = e - newPos /\ \A i \in 1..Len(p) : p[i] = str[newPos + i]
    <3>1. e - (newPos + 1) + 1 = e - newPos /\ Len(q) = e - newPos
      BY <2>1, <2>2
    <3>2. ASSUME NEW i \in 1..Len(q) PROVE q[i] = str[newPos + i]
      <4>1. i \in 1..e - (newPos + 1) + 1 /\ newPos + 1 + i - 1 = newPos + i
        BY <2>1, <3>1
      <4> QED BY <2>2, <4>1
    <3> QED BY <2>3, <3>1, <3>2
  <2> QED BY <2>2, <2>3, <2>4 DEF e
<1> HIDE DEF w, p
<1>6. p \in Strings(MaxLength)
  <2>1. Len(p) \in 0..MaxLength
    BY <1>0, <1>3, <1>5
  <2>2. p \in [1..Len(p) -> Char]
    BY <1>5
  <2> QED BY <2>1, <2>2 DEF Strings
<1>7. UpTo(w, pos - newPos) = p
  <2>1. CASE pos = npos
    <3>1. pos - newPos >= Len(w)
      BY <1>0, <1>1, <1>2, <2>1
    <3>2. UpTo(w, pos - newPos) = w
      BY <3>1 DEF UpTo
    <3>4. Len(w) = Len(p)
      BY <1>0, <1>1, <1>5, <2>1
    <3>3. ASSUME NEW i \in 1..Len(w) PROVE w[i] = p[i]
      <4>1. w[i] = str[newPos + i]
        BY <1>1
      <4>2. p[i] = str[newPos + i]
        BY <1>5, <3>4
      <4> QED BY <4>1, <4>2
    <3> QED BY <1>1, <1>5, <3>2, <3>3, <3>4, SeqEqual
  <2>2. CASE pos # npos
    <3>1. j = pos + 1 /\ pos \in Int /\ pos - newPos \in Nat /\ pos - newPos < Len(w)
      BY <1>0, <1>1, <1>2, <2>2
    <3> DEFINE u == UpTo(w, pos - newPos)
    <3>2. u \in Seq(Char) /\ Len(u) = pos - newPos /\ \A i \in 1..Len(u) : u[i] = w[i]
      <4> DEFINE d == pos - newPos
      <4>1. d \in Nat /\ d < Len(w) /\ u = UpTo(w, d)
        BY <3>1
      <4> HIDE DEF d, u
      <4>2. u \in Seq(Char) /\ Len(u) = d /\ \A i \in 1..Len(u) : u[i] = w[i]
        BY <1>1, <4>1, UpToFacts
      <4> QED BY <4>2 DEF d
    <3> HIDE DEF u
    <3>3. Len(u) = Len(p) /\ \A i \in 1..Len(u) : u[i] = p[i]
      <4>1. Len(u) = Len(p) /\ Len(u) \in Nat /\ Len(u) < Len(w)
        <5>1. j - 1 - newPos = pos - newPos
          BY <1>0, <3>1
        <5> QED BY <1>5, <3>1, <3>2, <5>1
      <4>2. \A i \in 1..Len(u) : i \in 1..Len(str) - newPos /\ i \in 1..Len(p)
        BY <1>1, <4>1
      <4> QED BY <1>1, <1>5, <3>2, <4>1, <4>2
    <3>4. u = p
      BY <1>5, <3>2, <3>3, SeqEqual
    <3> QED BY <3>4 DEF u
  <2> QED BY <2>1, <2>2
<1> QED BY <1>6, <1>7 DEF substr, w, p

LEMMA StrtokInvInit == StringInit => StrtokInv
<1> SUFFICES ASSUME StringInit PROVE StrtokInv
  OBVIOUS
<1>1. str \in Strings(MaxLength) /\ token \in Strings(MaxToken) /\ Len(str) \in Nat
  BY StringsFacts, SizeAssumption DEF StringInit
<1>2. newPos = 0 /\ arr = <<>> /\ found_all = FALSE
  BY DEF StringInit
<1>3. Before(newPos) = {}
  BY <1>1, <1>2 DEF Before, Beginnings
<1>4. arr \in [DOMAIN arr -> {}] /\ DOMAIN arr = {}
  BY <1>2
<1>5. ListsPieces({})
  BY <1>4 DEF ListsPieces, InOrder
<1>6. ListsPieces(Before(newPos))
  BY <1>3, <1>5 DEF Before
<1>7. arr \in Seq(Strings(MaxLength))
  BY <1>2
<1>8. newPos \in 0..Len(str) /\ found_all \in BOOLEAN /\ StrtokPieces
  <2>1. newPos \in 0..Len(str)
    BY <1>1, <1>2
  <2>2. found_all \in BOOLEAN /\ StrtokPieces
    BY <1>2, Zenon DEF StrtokPieces
  <2> QED BY <2>1, <2>2
<1> QED BY <1>1, <1>2, <1>6, <1>7, <1>8 DEF StrtokInv

LEMMA StrtokInvStep == StrtokInv /\ [StrtokRound]_stringVars => StrtokInv'
<1>1. ASSUME StrtokInv, StrtokRound PROVE StrtokInv'
  <2> DEFINE b == newPos + 1
  <2>0. PICK pos : pos = find_first_of(str, separator, newPos)
    OBVIOUS
  <2>1. PICK j : j = IF pos = npos THEN Len(str) + 1 ELSE pos + 1
    OBVIOUS
  <2>2. /\ str \in Strings(MaxLength) /\ newPos \in 0..Len(str) /\ str \in Seq(Char)
        /\ newPos = 0 \/ str[newPos] = separator
        /\ arr \in Seq(Strings(MaxLength)) /\ Len(str) \in 0..MaxLength
        /\ token \in Strings(MaxToken) /\ Len(str) \in Nat
    BY <1>1, StringsFacts, SizeAssumption DEF StrtokInv
  <2>3. /\ ~found_all
        /\ arr' = IF pos > newPos THEN Append(arr, substr(str, newPos, pos - newPos)) ELSE arr
        /\ found_all' = (pos = npos)
        /\ newPos' = IF pos = npos THEN newPos ELSE pos + 1
        /\ str' = str /\ token' = token
    BY <1>1, <2>0 DEF StrtokRound
  <2>4. /\ pos # npos => /\ pos \in newPos..Len(str) - 1
                         /\ PieceEnd(str, b, pos + 1) /\ str[pos + 1] = separator
        /\ pos = npos => PieceEnd(str, b, Len(str) + 1)
    BY <2>0, <2>2, NextSeparator
  <2>5. PieceEnd(str, b, j)
    BY <2>1, <2>4
  <2>6. /\ substr(str, newPos, pos - newPos) = SubSeq(str, b, j - 1)
        /\ SubSeq(str, b, j - 1) \in Strings(MaxLength)
    BY <2>1, <2>2, <2>4, SubstrIsPiece
  <2>7. PieceAt(b) = SubSeq(str, b, j - 1)
    <3>1. b \in 1..Len(str) + 1
      BY <2>2
    <3> QED BY <2>2, <2>5, <3>1, PieceFacts
  <2>8. /\ \A c \in Beginnings : newPos < c /\ c <= j => c = b
        /\ b \in Beginnings <=> j > b \/ j = Len(str) + 1
    BY <2>2, <2>5, NextBeginnings
  <2>9. npos \in Nat /\ Len(str) < npos
    BY <2>2, NposFacts, SizeAssumption
  <2>10. b \in Beginnings <=> pos > newPos
    BY <2>1, <2>2, <2>4, <2>8, <2>9
  <2>11. \A c \in Beginnings : c \in 1..Len(str) + 1
    BY DEF Beginnings
  <2> DEFINE O == Before(newPos)
             N == Before(j)
  <2>12. j \in b..Len(str) + 1 /\ b \in Nat /\ b = newPos + 1
    BY <2>2, <2>5 DEF PieceEnd
  <2>13. N = IF pos > newPos THEN O \cup {b} ELSE O
    BY <2>2, <2>8, <2>10, <2>11, <2>12 DEF Before
  <2>14. \A c \in O : c \in Nat /\ c < b
    BY <2>2, <2>11, <2>12 DEF Before
  <2>15. PICK starts \in [DOMAIN arr -> O] :
            /\ InOrder(starts)
            /\ \A c \in O : \E n \in DOMAIN arr : starts[n] = c
            /\ \A n \in DOMAIN arr : arr[n] = PieceAt(starts[n])
    BY <1>1, <2>3 DEF StrtokInv, ListsPieces
  <2>16. arr' \in Seq(Strings(MaxLength))
    BY <2>2, <2>3, <2>6, AppendProperties
  <2>17. \E s \in [DOMAIN arr' -> N] :
            /\ InOrder(s)
            /\ \A c \in N : \E n \in DOMAIN arr' : s[n] = c
            /\ \A n \in DOMAIN arr' : arr'[n] = PieceAt(s[n])
    <3> HIDE DEF b, O, N
    <3>1. CASE pos > newPos
      <4> DEFINE l == Len(arr) + 1
                 s == [n \in 1..l |-> IF n = l THEN b ELSE starts[n]]
      <4>1. /\ arr' = Append(arr, PieceAt(b)) /\ Len(arr) \in Nat
            /\ DOMAIN arr = 1..Len(arr) /\ DOMAIN arr' = 1..l
            /\ arr'[l] = PieceAt(b) /\ \A n \in 1..Len(arr) : arr'[n] = arr[n]
        BY <2>2, <2>3, <2>6, <2>7, <3>1
      <4>2. N = O \cup {b}
        BY <2>13, <3>1
      <4>3. s \in [DOMAIN arr' -> N]
        BY <4>1, <4>2
      <4>4. s[l] = b /\ l \in 1..l /\ \A n \in 1..Len(arr) : n \in 1..l /\ s[n] = starts[n]
        BY <4>1
      <4>5. \A n \in 1..l : n # l => n \in 1..Len(arr)
        BY <4>1
      <4>10. \A n \in 1..Len(arr) : starts[n] \in O
        BY <4>1
      <4>11. DOMAIN s = 1..l
        OBVIOUS
      <4> HIDE DEF s, l
      <4>6. InOrder(s)
        <5> SUFFICES ASSUME NEW m \in 1..l, NEW n \in 1..l, m < n PROVE s[m] < s[n]
          BY <4>11 DEF InOrder
        <5>1. m \in 1..Len(arr)
          BY <4>1, <4>5 DEF l
        <5>2. CASE n = l
          BY <2>14, <4>4, <4>10, <5>1, <5>2
        <5>3. CASE n # l
          BY <2>15, <4>1, <4>4, <4>5, <5>1, <5>3 DEF InOrder
        <5> QED BY <5>2, <5>3
      <4>7. \A c \in N : \E n \in DOMAIN arr' : s[n] = c
        BY <2>15, <4>1, <4>2, <4>4
      <4>8. \A n \in DOMAIN arr' : arr'[n] = PieceAt(s[n])
        BY <2>15, <4>1, <4>4, <4>5
      <4> QED BY <4>3, <4>6, <4>7, <4>8
    <3>2. CASE ~(pos > newPos)
      BY <2>3, <2>13, <2>15, <3>2
    <3> QED BY <3>1, <3>2
  <2>18. ListsPieces(N)'
    <3>1. \A i : PieceAt(i)' = PieceAt(i)
      BY <2>3 DEF PieceAt
    <3>2. Beginnings' = Beginnings
      BY <2>3 DEF Beginnings
    <3>3. N' = N
      BY <3>2 DEF Before
    <3> HIDE DEF N
    <3> QED BY <2>17, <3>1, <3>3 DEF ListsPieces
  <2>19. newPos' \in 0..Len(str) /\ (newPos' = 0 \/ str[newPos'] = separator)
    BY <2>2, <2>3, <2>4
  <2>20. ~found_all' => ListsPieces(Before(newPos))'
    <3> SUFFICES ASSUME pos # npos PROVE ListsPieces(Before(newPos))'
      BY <2>3
    <3>1. newPos' = j
      BY <2>1, <2>3
    <3>2. N' = Before(newPos)'
      BY <3>1 DEF Before
    <3> QED BY <2>18, <3>2
  <2>21. StrtokPieces'
    <3> SUFFICES ASSUME pos = npos PROVE ListsPieces(Beginnings)'
      BY <2>3 DEF StrtokPieces
    <3>1. j = Len(str) + 1 /\ Beginnings' = Beginnings
      BY <2>1, <2>3 DEF Beginnings
    <3>2. N' = Beginnings'
      BY <2>2, <2>11, <3>1 DEF Before
    <3> QED BY <2>18, <3>2
  <2> QED BY <2>2, <2>3, <2>16, <2>19, <2>20, <2>21 DEF StrtokInv
<1>2. ASSUME StrtokInv, UNCHANGED stringVars PROVE StrtokInv'
  <2>1. str' = str /\ token' = token /\ newPos' = newPos /\ arr' = arr /\ found_all' = found_all
    BY <1>2 DEF stringVars
  <2>2. \A i : PieceAt(i)' = PieceAt(i)
    BY <2>1 DEF PieceAt
  <2>3. Beginnings' = Beginnings
    BY <2>1 DEF Beginnings
  <2>4. Before(newPos)' = Before(newPos)
    BY <2>1, <2>3 DEF Before
  <2>5. ListsPieces(Before(newPos)) => ListsPieces(Before(newPos))'
    BY <2>1, <2>2, <2>4 DEF ListsPieces
  <2>6. ListsPieces(Beginnings) => ListsPieces(Beginnings)'
    BY <2>1, <2>2, <2>3 DEF ListsPieces
  <2> QED BY <1>2, <2>1, <2>5, <2>6 DEF StrtokInv, StrtokPieces
<1> QED BY <1>1, <1>2

LEMMA StrtokInvHolds == StringSpec => []StrtokInv
  BY StrtokInvInit, StrtokInvStep, PTL DEF StringSpec

\* The functions are what their comments say, EndsWith with the exception of the strings that are
\* shorter by one (StringUtil.tla), for all strings, whatever the characters, the bounds and the
\* width of std::size_t.
THEOREM StringsAgreeHolds == StringSpec => []StringsAgree
<1>1. StrtokInv => StringsAgree
  <2> SUFFICES ASSUME StrtokInv PROVE StringsAgree
    OBVIOUS
  <2>1. str \in Strings(MaxLength) /\ token \in Strings(MaxToken) /\ StrtokPieces
    BY DEF StrtokInv
  <2>2. str \in Seq(Char) /\ token \in Seq(Char)
    BY <2>1, StringsFacts, SizeAssumption
  <2>3. Trimmed
    BY <2>1, TrimHolds DEF Trimmed
  <2>4. Found
    BY <2>1, FoundHolds DEF Found
  <2>5. EqualsIgnoreCase(str, token) <=> EqualsIgnoreCaseSample(str, token)
    BY <2>2, EqualsHolds
  <2> QED BY <2>1, <2>3, <2>4, <2>5 DEF StringsAgree
<1> QED BY <1>1, StrtokInvHolds, PTL

-----------------------------------------------------------------------------
(* Requests on the wire.                                                   *)

LEMMA SetInduction ==
  ASSUME NEW S, 0 \in S, \A n \in Nat : n \in S => n + 1 \in S
  PROVE  Nat \subseteq S
<1> SUFFICES ASSUME Nat \ S # {} PROVE FALSE
  OBVIOUS
<1>1. PICK m \in Nat \ S : \A k \in Nat \ S : m <= k
  BY HasLeast
<1>2. m # 0 /\ m - 1 \in Nat /\ m - 1 \notin Nat \ S
  BY <1>1
<1> QED BY <1>1, <1>2

\* F is the first n of the sequences, one after the other; o[i] is the length of the first i.
Joined(F, seqs, n) ==
    \E o \in [0..n -> Nat] :
        /\ o[0] = 0 /\ o[n] = Len(F)
        /\ \A i \in 1..n : /\ o[i] = o[i - 1] + Len(seqs[i]) /\ o[i] <= Len(F)
                           /\ \A k \in 1..Len(seqs[i]) : F[o[i - 1] + k] = seqs[i][k]

LEMMA JoinOne ==
  ASSUME NEW S, NEW t \in Seq(S), NEW seqs, seqs[1] = t
  PROVE  Joined(t, seqs, 1)
<1> DEFINE o == [j \in 0..1 |-> IF j = 0 THEN 0 ELSE Len(t)]
<1>1. o \in [0..1 -> Nat] /\ o[0] = 0 /\ o[1] = Len(t) /\ Len(t) \in Nat
  OBVIOUS
<1> HIDE DEF o
<1>2. ASSUME NEW i \in 1..1
      PROVE  /\ o[i] = o[i - 1] + Len(seqs[i]) /\ o[i] <= Len(t)
             /\ \A k \in 1..Len(seqs[i]) : t[o[i - 1] + k] = seqs[i][k]
  <2>1. i = 1 /\ i - 1 = 0
    OBVIOUS
  <2> QED BY <1>1, <2>1
<1> QED BY <1>1, <1>2 DEF Joined

LEMMA JoinNext ==
  ASSUME NEW S, NEW F \in Seq(S), NEW t \in Seq(S), NEW seqs, NEW n \in Nat,
         seqs[n + 1] = t, \A i \in 1..n : seqs[i] \in Seq(S), Joined(F, seqs, n)
  PROVE  F \o t \in Seq(S) /\ Joined(F \o t, seqs, n + 1)
<1> DEFINE G == F \o t
           l == n + 1
<1>1. /\ G \in Seq(S) /\ Len(G) = Len(F) + Len(t) /\ Len(F) \in Nat /\ Len(t) \in Nat
      /\ \A k \in 1..Len(F) : G[k] = F[k]
      /\ \A k \in 1..Len(t) : G[Len(F) + k] = t[k]
  OBVIOUS
<1>2. PICK o \in [0..n -> Nat] :
        /\ o[0] = 0 /\ o[n] = Len(F)
        /\ \A i \in 1..n : /\ o[i] = o[i - 1] + Len(seqs[i]) /\ o[i] <= Len(F)
                           /\ \A k \in 1..Len(seqs[i]) : F[o[i - 1] + k] = seqs[i][k]
  BY DEF Joined
<1> DEFINE p == [j \in 0..l |-> IF j = l THEN Len(G) ELSE o[j]]
<1>3. /\ p \in [0..l -> Nat] /\ p[l] = Len(G) /\ l \in Nat /\ l # 0 /\ l - 1 = n
      /\ \A j \in 0..n : p[j] = o[j] /\ j # l
  BY <1>1
<1>4. \A i \in 1..l : i = l \/ (i \in 1..n /\ i \in 0..n /\ i - 1 \in 0..n)
  OBVIOUS
<1> HIDE DEF G, l, p
<1>5. ASSUME NEW i \in 1..l
      PROVE  /\ p[i] = p[i - 1] + Len(seqs[i]) /\ p[i] <= Len(G)
             /\ \A k \in 1..Len(seqs[i]) : G[p[i - 1] + k] = seqs[i][k]
  <2>1. CASE i = l
    <3>1. p[i] = Len(G) /\ p[i - 1] = Len(F) /\ seqs[i] = t
      BY <1>2, <1>3, <2>1 DEF l
    <3> QED BY <1>1, <3>1
  <2>2. CASE i # l
    <3>1. i \in 1..n /\ p[i] = o[i] /\ p[i - 1] = o[i - 1] /\ o[i] \in Nat /\ o[i - 1] \in Nat
      BY <1>3, <1>4, <2>2
    <3>2. o[i] = o[i - 1] + Len(seqs[i]) /\ o[i] <= Len(F) /\ Len(seqs[i]) \in Nat
      BY <1>2, <3>1
    <3>3. ASSUME NEW k \in 1..Len(seqs[i]) PROVE G[o[i - 1] + k] = seqs[i][k]
      <4> DEFINE e == o[i - 1]
                 b == Len(seqs[i])
      <4>1. Len(F) \in Nat /\ k \in Nat /\ 1 <= k /\ k <= b /\ b \in Nat
        BY <1>1, <3>2
      <4>2. e + k \in Nat /\ 1 <= e + k /\ e + k <= Len(F)
        <5>1. e \in Nat /\ e + b <= Len(F)
          BY <3>1, <3>2
        <5> HIDE DEF e, b
        <5> QED BY <4>1, <5>1
      <4>3. o[i - 1] + k \in 1..Len(F)
        BY <4>1, <4>2
      <4>4. F[o[i - 1] + k] = seqs[i][k]
        BY <1>2, <3>1
      <4> QED BY <1>1, <4>3, <4>4
    <3> QED BY <1>1, <3>1, <3>2, <3>3
  <2> QED BY <2>1, <2>2
<1>6. p[0] = 0
  BY <1>2, <1>3
<1>7. Joined(G, seqs, l)
  BY <1>3, <1>5, <1>6 DEF Joined
<1> QED BY <1>1, <1>7 DEF G, l

\* What the library's FlattenSeq returns.
LEMMA FlattenFacts ==
  ASSUME NEW S, NEW seqs \in Seq(Seq(S))
  PROVE  /\ FlattenSeq(seqs) \in Seq(S)
         /\ seqs # <<>> => Joined(FlattenSeq(seqs), seqs, Len(seqs))
<1> DEFINE n == Len(seqs)
           Solves(h, m) == h = [i \in 1..m |-> IF i = 1 THEN seqs[i] ELSE h[i - 1] \o seqs[i]]
<1>1. CASE n = 0
  <2>1. seqs = <<>> /\ FlattenSeq(seqs) = seqs
    BY <1>1 DEF FlattenSeq
  <2>2. <<>> \in Seq(S)
    BY EmptySeq
  <2> QED BY <2>1, <2>2
<1>2. CASE n # 0
  <2>0. n \in Nat /\ \A i \in 1..n : seqs[i] \in Seq(S)
    OBVIOUS
  <2> DEFINE T == {m \in Nat : \E h : Solves(h, m)}
  <2>1. 0 \in T
    <3> DEFINE h == [i \in 1..0 |-> {}]
    <3>1. Solves(h, 0)
      OBVIOUS
    <3> QED BY <3>1
  <2>2. ASSUME NEW m \in Nat, m \in T PROVE m + 1 \in T
    <3>1. PICK h : Solves(h, m)
      BY <2>2
    <3> DEFINE l == m + 1
               g == [i \in 1..l |-> IF i = 1 THEN seqs[i] ELSE
                                    IF i = l THEN h[m] \o seqs[l] ELSE h[i]]
    <3>2. ASSUME NEW i \in 1..l
          PROVE  g[i] = IF i = 1 THEN seqs[i] ELSE g[i - 1] \o seqs[i]
      <4>1. \A k \in 1..m : g[k] = h[k]
        <5> TAKE k \in 1..m
        <5>1. k \in 1..l /\ k # l
          OBVIOUS
        <5>2. CASE k = 1
          BY <3>1, <5>1, <5>2
        <5>3. CASE k # 1
          BY <5>1, <5>3
        <5> QED BY <5>2, <5>3
      <4>2. CASE i = 1
        BY <4>2
      <4>3. CASE i # 1 /\ i = l
        <5>1. i - 1 = m /\ m \in 1..m
          BY <4>3
        <5> QED BY <4>1, <4>3, <5>1
      <4>4. CASE i # 1 /\ i # l
        <5>1. i - 1 \in 1..m /\ i \in 1..m
          BY <4>4
        <5>2. h[i] = h[i - 1] \o seqs[i]
          BY <3>1, <4>4, <5>1
        <5> QED BY <4>1, <4>4, <5>1, <5>2
      <4> QED BY <4>2, <4>3, <4>4
    <3>3. Solves(g, l)
      <4>1. g = [i \in 1..l |-> g[i]]
        OBVIOUS
      <4> HIDE DEF g
      <4> QED BY <3>2, <4>1
    <3>4. l \in Nat
      OBVIOUS
    <3> QED BY <3>3, <3>4
  <2>3. Nat \subseteq T
    <3> HIDE DEF T
    <3> QED BY <2>1, <2>2, SetInduction
  <2>4. \E h : Solves(h, n)
    BY <2>0, <2>3
  <2> DEFINE f == CHOOSE h : Solves(h, n)
  <2>5. Solves(f, n)
    BY <2>4
  <2>6. FlattenSeq(seqs) = f[n]
    BY <1>2 DEF FlattenSeq
  <2> HIDE DEF f
  <2>7. \A i \in 1..n : f[i] = IF i = 1 THEN seqs[i] ELSE f[i - 1] \o seqs[i]
    BY <2>5
  <2> DEFINE U == {m \in Nat : m + 1 \in 1..n =>
                                   f[m + 1] \in Seq(S) /\ Joined(f[m + 1], seqs, m + 1)}
  <2>8. 0 \in U
    <3>1. f[1] = seqs[1] /\ 1 \in 1..n
      BY <1>2, <2>0, <2>7
    <3>2. f[1] \in Seq(S) /\ Joined(f[1], seqs, 1)
      BY <2>0, <3>1, JoinOne
    <3> QED BY <3>2
  <2>9. ASSUME NEW m \in Nat, m \in U PROVE m + 1 \in U
    <3> DEFINE l == m + 1
    <3>1. SUFFICES ASSUME l + 1 \in 1..n PROVE f[l + 1] \in Seq(S) /\ Joined(f[l + 1], seqs, l + 1)
      OBVIOUS
    <3>2. l \in 1..n /\ l \in Nat /\ l + 1 # 1 /\ (l + 1) - 1 = l
      BY <2>0, <3>1
    <3>3. f[l] \in Seq(S) /\ Joined(f[l], seqs, l)
      BY <2>9, <3>2
    <3> HIDE DEF l
    <3>4. f[l + 1] = f[l] \o seqs[l + 1]
      BY <2>7, <3>1, <3>2
    <3>5. \A i \in 1..l : seqs[i] \in Seq(S)
      BY <2>0, <3>2
    <3> QED BY <2>0, <3>1, <3>2, <3>3, <3>4, <3>5, JoinNext
  <2>10. Nat \subseteq U
    <3> HIDE DEF U
    <3> QED BY <2>8, <2>9, SetInduction
  <2>11. f[n] \in Seq(S) /\ Joined(f[n], seqs, n)
    <3>1. n - 1 \in Nat /\ (n - 1) + 1 = n /\ n \in 1..n
      BY <1>2, <2>0
    <3>2. n - 1 \in U
      BY <2>10, <3>1
    <3> QED BY <3>1, <3>2
  <2> QED BY <2>6, <2>11
<1> QED BY <1>1, <1>2

\* What a text is made of, and a request.
Names ==
    {r.command : r \in ClientRequests}
        \cup {"NX", "XX", "EX", "PX", "WITHSCORES", "LIMIT", "COUNT", "STREAMS"}
Bytes == UNION {ToSet(w) : w \in Words}
Symbol ==
    Bytes \cup {Byte("CR"), Byte("LF")}
        \cup ({"keyword"} \X Names) \cup ({"number", "*", "$"} \X Int)
Part == Seq(Symbol)
Options == [nx : BOOLEAN, xx : BOOLEAN, ex : Int, px : Int]
Whole(r) == r.parts \in Seq(Part) /\ r.options \in Options

LEMMA TextFacts ==
  /\ Words \subseteq Part
  /\ \A k \in Names : Keyword(k) \in Part
  /\ \A n \in Int : to_string(n) \in Part
<1>1. Bytes \subseteq Symbol
  BY DEF Symbol
<1>2. ASSUME NEW w \in Words PROVE w \in Part
  <2>1. w \in Seq(Bytes)
    BY WordsAssumption DEF Bytes
  <2> QED BY <1>1, <2>1, SeqMonotonic DEF Part
<1>3. ASSUME NEW k \in Names PROVE Keyword(k) \in Part
  <2>1. <<"keyword", k>> \in {"keyword"} \X Names
    OBVIOUS
  <2>2. <<"keyword", k>> \in Symbol
    BY <2>1 DEF Symbol
  <2> QED BY <2>2 DEF Keyword, Part
<1>4. ASSUME NEW n \in Int PROVE to_string(n) \in Part
  <2>1. <<"number", n>> \in {"number", "*", "$"} \X Int
    OBVIOUS
  <2>2. <<"number", n>> \in Symbol
    BY <2>1 DEF Symbol
  <2> QED BY <2>2 DEF to_string, Part
<1> QED BY <1>2, <1>3, <1>4

LEMMA ConcatFacts ==
  ASSUME NEW S, NEW s \in Seq(S), NEW t \in Seq(S)
  PROVE  /\ s \o t \in Seq(S) /\ Len(s \o t) = Len(s) + Len(t)
         /\ \A k \in 1..Len(s) : (s \o t)[k] = s[k]
         /\ \A k \in 1..Len(t) : (s \o t)[Len(s) + k] = t[k]
  OBVIOUS

LEMMA HeadFacts ==
  ASSUME NEW S, NEW x \in S, NEW e \in Seq(S)
  PROVE  <<x>> \o e \in Seq(S) /\ Len(<<x>> \o e) = 1 + Len(e) /\ (<<x>> \o e)[1] = x
<1>1. <<x>> \in Seq(S)
  OBVIOUS
<1> QED BY <1>1

LEMMA AfterHead ==
  ASSUME NEW S, NEW x \in S, NEW e \in Seq(S), Len(e) = 2, NEW t \in Seq(S)
  PROVE  /\ (<<x>> \o e) \o t \in Seq(S)
         /\ Len((<<x>> \o e) \o t) = 3 + Len(t)
         /\ ((<<x>> \o e) \o t)[1] = x
         /\ \A k \in 1..Len(t) : ((<<x>> \o e) \o t)[3 + k] = t[k]
<1> DEFINE a == <<x>> \o e
<1>1. a \in Seq(S) /\ Len(a) = 3 /\ a[1] = x
  <2>1. <<x>> \o e \in Seq(S) /\ Len(<<x>> \o e) = 1 + Len(e) /\ (<<x>> \o e)[1] = x
    BY Zenon, HeadFacts
  <2>2. a \in Seq(S) /\ Len(a) = 1 + Len(e) /\ a[1] = x
    BY <2>1
  <2> HIDE DEF a
  <2> QED BY <2>2
<1> HIDE DEF a
<1>2. /\ a \o t \in Seq(S) /\ Len(a \o t) = Len(a) + Len(t)
      /\ \A k \in 1..Len(a) : (a \o t)[k] = a[k]
      /\ \A k \in 1..Len(t) : (a \o t)[Len(a) + k] = t[k]
  <2>1. a \in Seq(S)
    BY <1>1
  <2> QED BY <2>1
<1>3. /\ a \o t \in Seq(S) /\ Len(a \o t) = 3 + Len(t) /\ (a \o t)[1] = x
      /\ \A k \in 1..Len(t) : (a \o t)[3 + k] = t[k]
  <2>1. 1 \in 1..Len(a)
    BY <1>1
  <2> QED BY <1>1, <1>2, <2>1
<1> QED BY <1>3 DEF a

LEMMA LineEndFacts == CRLF \in Seq(Symbol) /\ Len(CRLF) = 2
<1>1. Byte("CR") \in Symbol /\ Byte("LF") \in Symbol
  BY DEF Symbol
<1> QED BY <1>1 DEF CRLF

LEMMA BulkFacts ==
  ASSUME NEW t \in Part
  PROVE  /\ Bulk(t) \in Seq(Symbol) /\ Len(Bulk(t)) = Len(t) + 5
         /\ Bulk(t)[1] = <<"$", Len(t)>>
         /\ \A k \in 1..Len(t) : Bulk(t)[3 + k] = t[k]
<1>1. t \in Seq(Symbol) /\ Len(t) \in Nat
  BY DEF Part
<1>2. CRLF \in Seq(Symbol) /\ Len(CRLF) = 2
  BY LineEndFacts
<1>3. <<"$", Len(t)>> \in Symbol
  <2>1. <<"$", Len(t)>> \in {"number", "*", "$"} \X Int
    BY <1>1
  <2> QED BY <2>1 DEF Symbol
<1> DEFINE b == (<<<<"$", Len(t)>>>> \o CRLF) \o t
<1>5. /\ b \in Seq(Symbol) /\ Len(b) = 3 + Len(t) /\ b[1] = <<"$", Len(t)>>
      /\ \A k \in 1..Len(t) : b[3 + k] = t[k]
  <2>1. PICK x \in Symbol : x = <<"$", Len(t)>>
    BY <1>3
  <2>2. PICK e \in Seq(Symbol) : e = CRLF /\ Len(e) = 2
    BY <1>2
  <2>3. /\ (<<x>> \o e) \o t \in Seq(Symbol)
        /\ Len((<<x>> \o e) \o t) = 3 + Len(t)
        /\ ((<<x>> \o e) \o t)[1] = x
        /\ \A k \in 1..Len(t) : ((<<x>> \o e) \o t)[3 + k] = t[k]
    BY <1>1, <2>2, AfterHead
  <2>4. b = (<<x>> \o e) \o t
    BY <2>1, <2>2
  <2> HIDE DEF b
  <2> QED BY <2>1, <2>3, <2>4
<1>8. Bulk(t) = b \o CRLF
  BY DEF Bulk
<1> HIDE DEF b
<1>6. /\ b \o CRLF \in Seq(Symbol) /\ Len(b \o CRLF) = Len(b) + Len(CRLF)
      /\ \A k \in 1..Len(b) : (b \o CRLF)[k] = b[k]
  <2>1. CRLF \in Seq(Symbol) /\ b \in Seq(Symbol)
    BY <1>2, <1>5
  <2> QED BY <2>1, Zenon, ConcatFacts
<1>7. 1 \in 1..Len(b) /\ \A k \in 1..Len(t) : 3 + k \in 1..Len(b)
  BY <1>1, <1>5
<1>9. Len(b \o CRLF) = Len(t) + 5
  BY <1>1, <1>2, <1>5, <1>6
<1>10. (b \o CRLF)[1] = <<"$", Len(t)>>
  BY <1>5, <1>6, <1>7
<1>11. \A k \in 1..Len(t) : (b \o CRLF)[3 + k] = t[k]
  BY <1>5, <1>6, <1>7
<1> QED BY <1>6, <1>8, <1>9, <1>10, <1>11

LEMMA WhenFacts ==
  ASSUME NEW S, NEW s \in Seq(S), NEW condition
  PROVE  When(condition, s) \in Seq(S)
  BY EmptySeq DEF When

LEMMA PartsFacts ==
  ASSUME NEW r, Whole(r), r.command \in Names
  PROVE  all_parts(r) \in Seq(Part) /\ Len(all_parts(r)) >= 1
<1> DEFINE first == <<Keyword(r.command)>>
<1>1. r.command \in Names /\ r.parts \in Seq(Part) /\ r.options \in Options
  BY DEF Whole
<1>2. first \in Seq(Part) /\ Len(first) = 1
  <2>1. Keyword(r.command) \in Part
    BY <1>1, TextFacts
  <2> QED BY <2>1
<1>3. OptionParts(r.options) \in Seq(Part)
  <2> DEFINE o == r.options
  <2>1. o.ex \in Int /\ o.px \in Int
    BY <1>1 DEF Options
  <2> HIDE DEF o
  <2>2. /\ When(o.nx, <<Keyword("NX")>>) \in Seq(Part)
        /\ When(o.xx, <<Keyword("XX")>>) \in Seq(Part)
        /\ When(o.ex # -1, <<Keyword("EX"), to_string(o.ex)>>) \in Seq(Part)
        /\ When(o.px # -1, <<Keyword("PX"), to_string(o.px)>>) \in Seq(Part)
    <3>1. "NX" \in Names /\ "XX" \in Names /\ "EX" \in Names /\ "PX" \in Names
      BY DEF Names
    <3>2. /\ Keyword("NX") \in Part /\ Keyword("XX") \in Part
          /\ Keyword("EX") \in Part /\ Keyword("PX") \in Part
          /\ to_string(o.ex) \in Part /\ to_string(o.px) \in Part
      BY <2>1, <3>1, TextFacts
    <3>3. /\ <<Keyword("NX")>> \in Seq(Part) /\ <<Keyword("XX")>> \in Seq(Part)
          /\ <<Keyword("EX"), to_string(o.ex)>> \in Seq(Part)
          /\ <<Keyword("PX"), to_string(o.px)>> \in Seq(Part)
      BY <3>2
    <3> QED BY <3>3, WhenFacts
  <2>3. OptionParts(o) \in Seq(Part)
    BY <2>2, ConcatFacts DEF OptionParts
  <2> QED BY <2>3 DEF o
<1> HIDE DEF first
<1>4. first \o r.parts \in Seq(Part) /\ Len(first \o r.parts) >= 1
  BY <1>1, <1>2, ConcatFacts
<1>5. all_parts(r) = (first \o r.parts) \o OptionParts(r.options)
  BY DEF all_parts, first
<1>6. PICK p : p = first \o r.parts
  OBVIOUS
<1>7. PICK o : o = OptionParts(r.options)
  OBVIOUS
<1>8. p \in Seq(Part) /\ o \in Seq(Part) /\ Len(p) \in Nat /\ Len(o) \in Nat /\ Len(p) >= 1
  BY <1>3, <1>4, <1>6, <1>7
<1>9. p \o o \in Seq(Part) /\ Len(p \o o) = Len(p) + Len(o)
  BY <1>8, ConcatFacts
<1>10. all_parts(r) = p \o o
  BY <1>5, <1>6, <1>7
<1> QED BY <1>8, <1>9, <1>10

\* The bytes on the wire: three at the head, then the parts from the places o says.
Laid(bytes, parts, o) ==
    /\ bytes \in Seq(Symbol) /\ bytes[1] = <<"*", Len(parts)>>
    /\ o \in [0..Len(parts) -> Nat] /\ o[0] = 0 /\ Len(bytes) = 3 + o[Len(parts)]
    /\ \A i \in 1..Len(parts) :
           /\ o[i] = o[i - 1] + 5 + Len(parts[i]) /\ 3 + o[i] <= Len(bytes)
           /\ bytes[4 + o[i - 1]] = <<"$", Len(parts[i])>>
           /\ \A k \in 1..Len(parts[i]) : bytes[6 + o[i - 1] + k] = parts[i][k]

LEMMA WireIsLaid ==
  ASSUME NEW r, Whole(r), r.command \in Names
  PROVE  \E o : Laid(generate_command(r), all_parts(r), o)
<1> DEFINE parts == all_parts(r)
           n == Len(parts)
           bulks == [i \in DOMAIN parts |-> Bulk(parts[i])]
           F == FlattenSeq(bulks)
           bytes == (<<<<"*", n>>>> \o CRLF) \o F
<1>1. parts \in Seq(Part) /\ n \in Nat /\ n >= 1 /\ DOMAIN parts = 1..n
  BY PartsFacts
<1> HIDE DEF parts, n
<1>2. /\ bulks \in Seq(Seq(Symbol)) /\ Len(bulks) = n
      /\ \A i \in 1..n : bulks[i] = Bulk(parts[i]) /\ parts[i] \in Part
  <2>1. \A i \in 1..n : parts[i] \in Part
    BY <1>1 DEF n
  <2>2. \A i \in 1..n : Bulk(parts[i]) \in Seq(Symbol)
    BY <2>1, BulkFacts
  <2>3. bulks \in [1..n -> Seq(Symbol)]
    BY <1>1, <2>2
  <2> QED BY <1>1, <2>1, <2>3
<1> HIDE DEF bulks
<1>3. F \in Seq(Symbol) /\ Joined(F, bulks, n)
  <2>1. bulks # <<>>
    BY <1>1, <1>2
  <2> QED BY <1>2, <2>1, FlattenFacts
<1> HIDE DEF F
<1>4. <<"*", n>> \in Symbol
  <2>1. <<"*", n>> \in {"number", "*", "$"} \X Int
    BY <1>1
  <2> QED BY <2>1 DEF Symbol
<1>5. /\ bytes \in Seq(Symbol) /\ Len(bytes) = 3 + Len(F) /\ bytes[1] = <<"*", n>>
      /\ \A k \in 1..Len(F) : bytes[3 + k] = F[k]
      /\ Len(F) \in Nat
  <2>1. Len(F) \in Nat
    BY <1>3
  <2>2. /\ bytes \in Seq(Symbol) /\ Len(bytes) = 3 + Len(F) /\ bytes[1] = <<"*", n>>
        /\ \A k \in 1..Len(F) : bytes[3 + k] = F[k]
    <3>1. PICK x \in Symbol : x = <<"*", n>>
      BY <1>4
    <3>2. PICK e \in Seq(Symbol) : e = CRLF /\ Len(e) = 2
      BY LineEndFacts
    <3>3. /\ (<<x>> \o e) \o F \in Seq(Symbol)
          /\ Len((<<x>> \o e) \o F) = 3 + Len(F)
          /\ ((<<x>> \o e) \o F)[1] = x
          /\ \A k \in 1..Len(F) : ((<<x>> \o e) \o F)[3 + k] = F[k]
      BY <1>3, <3>2, AfterHead
    <3>4. bytes = (<<x>> \o e) \o F
      BY <3>1, <3>2
    <3> HIDE DEF bytes
    <3> QED BY <3>1, <3>3, <3>4
  <2> QED BY <2>1, <2>2
<1> HIDE DEF bytes
<1>6. PICK o \in [0..n -> Nat] :
        /\ o[0] = 0 /\ o[n] = Len(F)
        /\ \A i \in 1..n : /\ o[i] = o[i - 1] + Len(bulks[i]) /\ o[i] <= Len(F)
                           /\ \A k \in 1..Len(bulks[i]) : F[o[i - 1] + k] = bulks[i][k]
  BY <1>3 DEF Joined
<1>7. ASSUME NEW i \in 1..n
      PROVE  /\ o[i] = o[i - 1] + 5 + Len(parts[i]) /\ 3 + o[i] <= Len(bytes)
             /\ bytes[4 + o[i - 1]] = <<"$", Len(parts[i])>>
             /\ \A k \in 1..Len(parts[i]) : bytes[6 + o[i - 1] + k] = parts[i][k]
  <2> DEFINE t == parts[i]
             e == o[i - 1]
             b == Bulk(t)
  <2>1. /\ b \in Seq(Symbol) /\ Len(b) = Len(t) + 5 /\ Len(t) \in Nat
        /\ b[1] = <<"$", Len(t)>> /\ \A k \in 1..Len(t) : b[3 + k] = t[k]
    <3>1. t \in Part /\ Len(t) \in Nat
      BY <1>2 DEF Part
    <3> HIDE DEF t
    <3> QED BY <3>1, BulkFacts
  <2>2. bulks[i] = b
    BY <1>2
  <2>3. e \in Nat /\ o[i] \in Nat
    BY <1>1
  <2> HIDE DEF e, b, t
  <2>4. /\ o[i] = e + Len(b) /\ o[i] <= Len(F)
        /\ \A k \in 1..Len(b) : F[e + k] = b[k]
    BY <1>6, <2>2 DEF e
  <2>5. \A k \in 1..Len(b) : bytes[3 + (e + k)] = b[k]
    <3> TAKE k \in 1..Len(b)
    <3>1. e + k \in 1..Len(F)
      BY <1>5, <2>1, <2>3, <2>4
    <3> QED BY <1>5, <2>4, <3>1
  <2>6. bytes[4 + e] = <<"$", Len(t)>>
    <3>1. 1 \in 1..Len(b) /\ 3 + (e + 1) = 4 + e
      BY <2>1, <2>3
    <3> QED BY <2>1, <2>5, <3>1
  <2>7. ASSUME NEW k \in 1..Len(t) PROVE bytes[6 + e + k] = t[k]
    <3>1. 3 + k \in 1..Len(b) /\ 3 + (e + (3 + k)) = 6 + e + k
      BY <2>1, <2>3
    <3> QED BY <2>1, <2>5, <3>1
  <2>8. o[i] = e + 5 + Len(t) /\ 3 + o[i] <= Len(bytes)
    BY <1>5, <2>1, <2>3, <2>4
  <2> QED BY <2>6, <2>7, <2>8 DEF e, t
<1>8. Laid(bytes, parts, o)
  BY <1>5, <1>6, <1>7 DEF Laid, n
<1>9. generate_command(r) = bytes
  BY DEF generate_command, bytes, F, bulks, parts, n
<1> QED BY <1>8, <1>9 DEF parts

\* What Read has found after i parts.
ReadSoFar(parts, o, i) == [pos |-> 4 + o[i], parts |-> SubSeq(parts, 1, i)]
ReadNext(bytes, before) ==
    IF ~(before.pos + 2 < Len(bytes) /\ bytes[before.pos][1] = "$") THEN before
    ELSE [pos |-> before.pos + 5 + bytes[before.pos][2],
          parts |-> Append(before.parts, SubSeq(bytes, before.pos + 3, before.pos + 2 + bytes[before.pos][2]))]

LEMMA ReadsOneMore ==
  ASSUME NEW parts \in Seq(Part), NEW bytes, NEW o, Laid(bytes, parts, o),
         NEW i \in 1..Len(parts)
  PROVE  ReadNext(bytes, ReadSoFar(parts, o, i - 1)) = ReadSoFar(parts, o, i)
<1> DEFINE e == o[i - 1]
           t == parts[i]
           l == Len(t)
           p == 4 + e
           found == SubSeq(parts, 1, i - 1)
<1>1. /\ bytes \in Seq(Symbol) /\ o \in [0..Len(parts) -> Nat]
      /\ o[i] = e + 5 + l /\ 3 + o[i] <= Len(bytes)
      /\ bytes[p] = <<"$", l>>
      /\ \A k \in 1..l : bytes[6 + e + k] = t[k]
  BY DEF Laid
<1>2. t \in Seq(Symbol) /\ l \in Nat
  <2>1. t \in Part
    OBVIOUS
  <2> QED BY <2>1 DEF Part
<1>3. e \in Nat
  <2>1. i - 1 \in 0..Len(parts)
    OBVIOUS
  <2> QED BY <1>1, <2>1
<1> HIDE DEF e, t, l, p
<1>4. p \in Nat /\ p + 2 < Len(bytes) /\ Len(bytes) \in Nat /\ p = 4 + e
  <2>1. p \in Nat /\ p = 4 + e /\ Len(bytes) \in Nat
    BY <1>1, <1>3 DEF p
  <2> QED BY <1>1, <1>2, <1>3, <2>1
<1>5. bytes[p][1] = "$" /\ bytes[p][2] = l
  BY <1>1
<1>6. SubSeq(bytes, p + 3, p + 2 + l) = t
  <2> DEFINE w == SubSeq(bytes, p + 3, p + 2 + l)
             f == p + 3
             h == p + 2 + l
  <2>1. f \in Int /\ h \in Int /\ h - f + 1 = l /\ \A k \in f..h : bytes[k] \in Symbol
    <3>1. f \in Int /\ h \in Int /\ h - f + 1 = l /\ 1 <= f /\ h <= Len(bytes)
      BY <1>1, <1>2, <1>3, <1>4
    <3> QED BY <1>1, <3>1
  <2>2. \A k \in 1..l : f + k - 1 = 6 + e + k
    BY <1>2, <1>3, <1>4
  <2>3. w = SubSeq(bytes, f, h)
    OBVIOUS
  <2> HIDE DEF w, f, h
  <2>4. /\ w \in Seq(Symbol) /\ Len(w) = IF f <= h THEN h - f + 1 ELSE 0
        /\ \A k \in 1..h - f + 1 : w[k] = bytes[f + k - 1]
    BY <2>1, <2>3, SubSeqProperties
  <2>5. Len(w) = l
    BY <1>2, <2>1, <2>4
  <2>6. \A k \in 1..l : w[k] = t[k]
    BY <1>1, <2>1, <2>2, <2>4
  <2>7. w = t
    BY <1>2, <2>4, <2>5, <2>6, SeqEqual DEF l
  <2> QED BY <2>7 DEF w
<1>7. Append(found, t) = SubSeq(parts, 1, i)
  <2>1. SubSeq(parts, 1, i) = SubSeq(parts, 1, i - 1) \o <<parts[i]>>
    <3>1. 1 \in 1..Len(parts) /\ i \in 1..Len(parts)
      OBVIOUS
    <3> QED BY <3>1, SubSeqRecursiveSecond
  <2>2. found \in Seq(Part) /\ parts[i] \in Part
    <3>1. \A k \in 1..i - 1 : parts[k] \in Part
      OBVIOUS
    <3> QED BY <3>1, SubSeqProperties
  <2> HIDE DEF found
  <2>3. Append(found, parts[i]) = found \o <<parts[i]>>
    BY <2>2, AppendIsConcat
  <2> QED BY <2>1, <2>3 DEF t, found
<1>8. p + 5 + l = 4 + o[i]
  BY <1>1, <1>2, <1>3, <1>4
<1> DEFINE b == ReadSoFar(parts, o, i - 1)
<1>9. b.pos = p /\ b.parts = found
  BY DEF ReadSoFar, p, e
<1> HIDE DEF b, found
<1>10. ReadNext(bytes, b) = [pos |-> p + 5 + l, parts |-> Append(found, t)]
  BY <1>4, <1>5, <1>6, <1>9 DEF ReadNext
<1>11. ReadSoFar(parts, o, i) = [pos |-> 4 + o[i], parts |-> SubSeq(parts, 1, i)]
  BY DEF ReadSoFar
<1> QED BY <1>7, <1>8, <1>10, <1>11 DEF b

LEMMA ReadsLaid ==
  ASSUME NEW parts \in Seq(Part), NEW bytes, NEW o, Laid(bytes, parts, o)
  PROVE  Read(bytes) = [parts |-> parts, rest |-> <<>>]
<1> DEFINE n == Len(parts)
           count == bytes[1][2]
           F(i) == ReadSoFar(parts, o, i)
           Solves(h) == h = [i \in 0..count |->
                                IF i = 0 THEN [pos |-> 4, parts |-> <<>>]
                                ELSE ReadNext(bytes, h[i - 1])]
<1>1. /\ count = n /\ n \in Nat /\ bytes \in Seq(Symbol) /\ o[0] = 0
      /\ o \in [0..n -> Nat] /\ Len(bytes) = 3 + o[n]
  BY DEF Laid
<1>2. F(0) = [pos |-> 4, parts |-> <<>>]
  <2>1. SubSeq(parts, 1, 0) = <<>>
    BY SubSeqEmpty
  <2> QED BY <1>1, <2>1 DEF ReadSoFar
<1>3. \A i \in 1..n : ReadNext(bytes, F(i - 1)) = F(i)
  BY ReadsOneMore
<1> HIDE DEF F, n, count
<1>4. Solves([i \in 0..count |-> F(i)])
  <2> DEFINE h == [i \in 0..count |-> F(i)]
  <2>1. ASSUME NEW i \in 0..count
        PROVE  h[i] = IF i = 0 THEN [pos |-> 4, parts |-> <<>>] ELSE ReadNext(bytes, h[i - 1])
    <3>1. CASE i = 0
      BY <1>2, <3>1
    <3>2. CASE i # 0
      <4>1. i - 1 \in 0..count /\ i \in 1..n
        BY <1>1, <3>2
      <4> QED BY <1>3, <3>2, <4>1
    <3> QED BY <3>1, <3>2
  <2>2. h = [i \in 0..count |-> h[i]]
    OBVIOUS
  <2> HIDE DEF h
  <2>3. Solves(h)
    BY <2>1, <2>2
  <2> QED BY <2>3 DEF h
<1> DEFINE f == CHOOSE h : Solves(h)
<1>5. Solves(f)
  BY <1>4
<1>6. Read(bytes) = [parts |-> f[count].parts, rest |-> SubSeq(bytes, f[count].pos, Len(bytes))]
  BY DEF Read, ReadNext, count
<1> HIDE DEF f
<1>7. \A i \in 0..count :
          f[i] = IF i = 0 THEN [pos |-> 4, parts |-> <<>>] ELSE ReadNext(bytes, f[i - 1])
  BY <1>5
<1> DEFINE T == {i \in Nat : i <= n => f[i] = F(i)}
<1>8. 0 \in T
  BY <1>1, <1>2, <1>7
<1>9. ASSUME NEW i \in Nat, i \in T PROVE i + 1 \in T
  <2> SUFFICES ASSUME i + 1 <= n PROVE f[i + 1] = F(i + 1)
    OBVIOUS
  <2>1. i + 1 \in 1..n /\ i + 1 \in 0..count /\ (i + 1) - 1 = i /\ i + 1 # 0 /\ f[i] = F(i)
    BY <1>1, <1>9
  <2> QED BY <1>3, <1>7, <2>1
<1>10. f[n] = F(n)
  <2>1. Nat \subseteq T
    <3> HIDE DEF T
    <3> QED BY <1>8, <1>9, SetInduction
  <2>2. n \in T
    BY <1>1, <2>1
  <2> QED BY <1>1, <2>2
<1>11. f[count].pos = 4 + o[n] /\ f[count].parts = SubSeq(parts, 1, n)
  BY <1>1, <1>10 DEF F, ReadSoFar
<1>12. SubSeq(parts, 1, n) = parts
  BY SubSeqFull DEF n
<1>13. SubSeq(bytes, 4 + o[n], Len(bytes)) = <<>>
  <2>1. 4 + o[n] \in Int /\ Len(bytes) \in Int /\ Len(bytes) < 4 + o[n]
    <3>1. n \in 0..n /\ o[n] \in Nat
      BY <1>1
    <3> QED BY <1>1, <3>1
  <2> QED BY <2>1, SubSeqEmpty
<1> QED BY <1>6, <1>11, <1>12, <1>13

-----------------------------------------------------------------------------
(* What the functions of the client pass to generate_command.              *)

PartsOnly(P) == P \subseteq Seq(Part)
AllWhole(R) == \A r \in R : Whole(r)

LEMMA CommandsWhole ==
  ASSUME NEW names, NEW P, PartsOnly(P)
  PROVE  AllWhole(Commands(names, P))
<1>1. NoOptions \in Options
  BY DEF NoOptions, Options
<1> QED BY <1>1 DEF AllWhole, Whole, Commands, PartsOnly

LEMMA FixedParts == \A n \in Nat : PartsOnly(Fixed(n))
<1> SUFFICES ASSUME NEW n \in Nat, NEW l \in [1..n -> Words] PROVE l \in Seq(Part)
  BY DEF PartsOnly, Fixed
<1>1. l \in [1..n -> Part]
  BY TextFacts
<1> QED BY <1>1

LEMMA ListsParts == PartsOnly(Lists)
<1> SUFFICES ASSUME NEW n \in 0..MaxList, NEW l \in [1..n -> Words] PROVE l \in Seq(Part)
  BY DEF PartsOnly, Lists
<1>1. l \in [1..n -> Part] /\ n \in Nat
  BY TextFacts, NumbersAssumption
<1> QED BY <1>1

LEMMA JoinedParts ==
  ASSUME NEW p \in Seq(Part), NEW q \in Seq(Part)
  PROVE  p \o q \in Seq(Part)
  OBVIOUS

LEMMA ConsParts ==
  ASSUME NEW k \in Words, NEW l \in Seq(Part)
  PROVE  Cons(k, l) \in Seq(Part)
<1>1. k \in Part
  BY TextFacts
<1>2. <<k>> \in Seq(Part)
  BY <1>1
<1>3. <<k>> \o l \in Seq(Part)
  BY <1>2, JoinedParts
<1> QED BY <1>3 DEF Cons

LEMMA KeyAndParts ==
  ASSUME NEW L, PartsOnly(L)
  PROVE  PartsOnly(KeyAnd(L))
<1> SUFFICES ASSUME NEW e \in KeyAnd(L) PROVE e \in Seq(Part)
  BY DEF PartsOnly
<1>1. PICK k \in Words, l \in L : e = Cons(k, l)
  BY DEF KeyAnd
<1>2. l \in Seq(Part)
  BY DEF PartsOnly
<1> QED BY <1>1, <1>2, ConsParts

LEMMA NumbersParts == \A n \in Nat : PartsOnly(WithNumbers(n))
<1> SUFFICES ASSUME NEW n \in Nat, NEW e \in WithNumbers(n) PROVE e \in Seq(Part)
  BY DEF PartsOnly
<1>1. PICK k \in Words, x \in [1..n -> Numbers] : e = Cons(k, AsTexts(x))
  BY DEF WithNumbers
<1>2. \A i \in 1..n : to_string(x[i]) \in Part
  <2> TAKE i \in 1..n
  <2>1. x[i] \in Int
    BY NumbersAssumption
  <2> QED BY <2>1, TextFacts
<1>3. AsTexts(x) \in [1..n -> Part]
  BY <1>2 DEF AsTexts
<1>4. AsTexts(x) \in Seq(Part)
  BY <1>3
<1> QED BY <1>1, <1>4, ConsParts

LEMMA MapsFacts ==
  ASSUME NEW m \in Maps
  PROVE  Flat(m) \in Seq(Part) /\ Flat(Swapped(m)) \in Seq(Part)
<1>1. PICK n \in 0..MaxList : m \in [1..n -> Words \X Words]
  BY DEF Maps
<1>2. n \in Nat /\ DOMAIN m = 1..n
  BY <1>1, NumbersAssumption
<1>3. ASSUME NEW i \in 1..n
      PROVE  m[i] \in Seq(Part) /\ <<to_string(i), m[i][1]>> \in Seq(Part)
  <2>1. PICK a \in Words, b \in Words : m[i] = <<a, b>>
    BY <1>1
  <2>2. a \in Part /\ b \in Part /\ to_string(i) \in Part
    BY TextFacts
  <2>3. <<a, b>> \in Seq(Part) /\ <<to_string(i), a>> \in Seq(Part)
    BY <2>2
  <2>4. m[i][1] = a
    BY <2>1
  <2> QED BY <2>1, <2>3, <2>4
<1>4. m \in [1..n -> Seq(Part)] /\ Swapped(m) \in [1..n -> Seq(Part)]
  BY <1>1, <1>2, <1>3 DEF Swapped
<1>5. m \in Seq(Seq(Part)) /\ Swapped(m) \in Seq(Seq(Part))
  BY <1>2, <1>4
<1> QED BY <1>5, FlattenFacts DEF Flat

LEMMA MapsParts == PartsOnly({Flat(m) : m \in Maps}) /\ PartsOnly({Flat(Swapped(m)) : m \in Maps})
  BY MapsFacts DEF PartsOnly

LEMMA RangedParts ==
  ASSUME NEW P, PartsOnly(P)
  PROVE  PartsOnly(Ranged(P))
<1>1. <<>> \in Seq(Part) /\ <<Keyword("WITHSCORES")>> \in Seq(Part)
  <2>1. "WITHSCORES" \in Names
    BY DEF Names
  <2>2. Keyword("WITHSCORES") \in Part
    BY <2>1, TextFacts
  <2> QED BY <2>2
<1> SUFFICES ASSUME NEW p \in P, NEW s \in {<<>>, <<Keyword("WITHSCORES")>>}
             PROVE  p \o s \in Seq(Part)
  BY DEF PartsOnly, Ranged
<1>2. p \in Seq(Part) /\ s \in Seq(Part)
  BY <1>1 DEF PartsOnly
<1> QED BY <1>2, JoinedParts

LEMMA LimitedParts ==
  ASSUME NEW P, PartsOnly(P)
  PROVE  PartsOnly(Limited(P))
<1> SUFFICES ASSUME NEW e \in Limited(P) PROVE e \in Seq(Part)
  BY DEF PartsOnly
<1>1. PICK p \in P, x \in Numbers, y \in Numbers : e = p \o Limit(x, y)
  BY DEF Limited
<1>2. "LIMIT" \in Names /\ x \in Int /\ y \in Int
  BY NumbersAssumption DEF Names
<1>3. Keyword("LIMIT") \in Part /\ to_string(x) \in Part /\ to_string(y) \in Part
  BY <1>2, TextFacts
<1>4. <<Keyword("LIMIT"), to_string(x), to_string(y)>> \in Seq(Part)
  BY <1>3
<1>5. Limit(x, y) \in Seq(Part)
  BY <1>4, WhenFacts DEF Limit
<1>6. p \in Seq(Part)
  BY DEF PartsOnly
<1> QED BY <1>1, <1>5, <1>6, JoinedParts

LEMMA AdditionsParts == PartsOnly(Additions)
<1> SUFFICES ASSUME NEW e \in Additions PROVE e \in Seq(Part)
  BY DEF PartsOnly
<1>1. PICK p \in Fixed(2), l \in Lists : e = p \o l
  BY DEF Additions
<1>2. p \in Seq(Part) /\ l \in Seq(Part)
  BY FixedParts, ListsParts DEF PartsOnly
<1> QED BY <1>1, <1>2, JoinedParts

LEMMA ReadsParts == PartsOnly(Reads)
<1> SUFFICES ASSUME NEW n \in Numbers, NEW s \in Lists, NEW ids \in Lists
             PROVE  XReadParts(n, s, ids) \in Seq(Part)
  BY DEF PartsOnly, Reads
<1>1. "COUNT" \in Names /\ "STREAMS" \in Names /\ n \in Int
  BY NumbersAssumption DEF Names
<1>2. Keyword("COUNT") \in Part /\ Keyword("STREAMS") \in Part /\ to_string(n) \in Part
  BY <1>1, TextFacts
<1>3. <<Keyword("COUNT"), to_string(n)>> \in Seq(Part) /\ <<Keyword("STREAMS")>> \in Seq(Part)
  BY <1>2
<1>4. s \in Seq(Part) /\ ids \in Seq(Part)
  BY ListsParts DEF PartsOnly
<1> DEFINE w == When(n # -1, <<Keyword("COUNT"), to_string(n)>>)
           q == <<Keyword("STREAMS")>>
<1>5. w \in Seq(Part) /\ q \in Seq(Part)
  BY <1>3, WhenFacts
<1>6. XReadParts(n, s, ids) = w \o q \o s \o ids
  BY DEF XReadParts
<1> HIDE DEF w, q
<1>7. w \o q \in Seq(Part)
  BY <1>5, JoinedParts
<1>8. (w \o q) \o s \in Seq(Part)
  BY <1>4, <1>7, JoinedParts
<1>9. ((w \o q) \o s) \o ids \in Seq(Part)
  BY <1>4, <1>8, JoinedParts
<1> QED BY <1>6, <1>9

LEMMA AndWordParts ==
  ASSUME NEW L, PartsOnly(L)
  PROVE  PartsOnly(AndWord(L))
<1> SUFFICES ASSUME NEW l \in L, NEW w \in Words PROVE Append(l, w) \in Seq(Part)
  BY DEF PartsOnly, AndWord
<1>1. l \in Seq(Part) /\ w \in Part
  BY TextFacts DEF PartsOnly
<1> QED BY <1>1

LEMMA SetRequestsWhole ==
  AllWhole([command : {"SET"}, parts : Fixed(2), options : SetOptions])
<1> SUFFICES ASSUME NEW r \in [command : {"SET"}, parts : Fixed(2), options : SetOptions]
             PROVE  Whole(r)
  BY DEF AllWhole
<1>1. r.parts \in Seq(Part)
  <2>1. r.parts \in Fixed(2) /\ 2 \in Nat
    OBVIOUS
  <2> QED BY <2>1, FixedParts DEF PartsOnly
<1>2. r.options \in Options
  BY NumbersAssumption DEF SetOptions, Options
<1> QED BY <1>1, <1>2 DEF Whole

LEMMA FewParts ==
  /\ PartsOnly({<<>>})
  /\ PartsOnly(Fixed(1)) /\ PartsOnly(Fixed(2)) /\ PartsOnly(Fixed(3)) /\ PartsOnly(Fixed(4))
  /\ PartsOnly(WithNumbers(1)) /\ PartsOnly(WithNumbers(2)) /\ PartsOnly(WithNumbers(3))
<1>1. PartsOnly({<<>>})
  BY EmptySeq DEF PartsOnly
<1>2. 1 \in Nat /\ 2 \in Nat /\ 3 \in Nat /\ 4 \in Nat
  OBVIOUS
<1> QED BY <1>1, <1>2, Zenon, FixedParts, NumbersParts

LEMMA ClientRequestsWhole == AllWhole(ClientRequests)
<1>0. \A names, P : PartsOnly(P) => AllWhole(Commands(names, P))
  BY CommandsWhole
<1>12. \A R, Q : AllWhole(R) /\ AllWhole(Q) => AllWhole(R \cup Q)
  BY DEF AllWhole
<1>1. PartsOnly(KeyAnd(Lists))
  BY Zenon, ListsParts, KeyAndParts
<1>2. AllWhole(ConnectionRequests)
  BY <1>0, <1>12, Zenon, FewParts DEF ConnectionRequests
<1>3. AllWhole(StringRequests)
  BY <1>0, <1>12, Zenon, FewParts, ListsParts, MapsParts, SetRequestsWhole DEF StringRequests
<1>4. AllWhole(HashRequests)
  <2>1. PartsOnly(KeyAnd({Flat(m) : m \in Maps}))
    BY Zenon, MapsParts, KeyAndParts
  <2> QED BY <1>0, <1>12, <1>1, <2>1, Zenon, FewParts DEF HashRequests
<1>5. AllWhole(ListRequests)
  BY <1>0, <1>12, <1>1, Zenon, FewParts DEF ListRequests
<1>6. AllWhole(SetRequests)
  BY <1>0, <1>12, <1>1, Zenon, FewParts, ListsParts DEF SetRequests
<1>7. AllWhole(SortedSetRequests)
  <2>1. PartsOnly(KeyAnd({Flat(Swapped(m)) : m \in Maps}))
    BY Zenon, MapsParts, KeyAndParts
  <2>2. PartsOnly(Ranged(WithNumbers(2))) /\ PartsOnly(Limited(Ranged(Fixed(3))))
    BY Zenon, FewParts, RangedParts, LimitedParts
  <2> QED BY <1>0, <1>12, <1>1, <2>1, <2>2, Zenon, FewParts DEF SortedSetRequests
<1>8. AllWhole(KeyRequests)
  BY <1>0, <1>12, Zenon, FewParts, ListsParts DEF KeyRequests
<1>9. AllWhole(PubSubRequests)
  BY <1>0, <1>12, Zenon, FewParts, ListsParts DEF PubSubRequests
<1>10. AllWhole(StreamRequests)
  BY <1>0, <1>12, Zenon, FewParts, AdditionsParts, ReadsParts DEF StreamRequests
<1>11. AllWhole(GeoRequests)
  <2>1. PartsOnly(AndWord(WithNumbers(2))) /\ PartsOnly(AndWord(WithNumbers(3)))
    BY Zenon, FewParts, AndWordParts
  <2> QED BY <1>0, <1>12, <2>1, Zenon, FewParts DEF GeoRequests
<1> QED BY <1>12, <1>2, <1>3, <1>4, <1>5, <1>6, <1>7, <1>8, <1>9, <1>10, <1>11, Zenon
        DEF ClientRequests

\* The wire is empty, or it carries the request.
RequestInv ==
    /\ request \in ClientRequests
    /\ wire = <<>> \/ wire = generate_command(request)

\* Theorem: whatever the callers pass, a request is read back from its bytes as its command,
\* parts and options, with nothing left over.
THEOREM ReadsBackHolds == RequestSpec => []ReadsBack
<1>1. RequestInit => RequestInv
  BY DEF RequestInit, RequestInv
<1>2. RequestInv /\ [Generate]_requestVars => RequestInv'
  BY DEF RequestInv, Generate, requestVars
<1>3. RequestInv => ReadsBack
  <2> SUFFICES ASSUME request \in ClientRequests, wire = generate_command(request)
               PROVE  Read(wire) = [parts |-> all_parts(request), rest |-> <<>>]
    BY DEF RequestInv, ReadsBack
  <2>1. Whole(request) /\ request.command \in Names
    BY ClientRequestsWhole DEF AllWhole, Names
  <2>2. PICK o : Laid(wire, all_parts(request), o)
    BY <2>1, WireIsLaid
  <2>3. all_parts(request) \in Seq(Part)
    BY <2>1, PartsFacts
  <2> QED BY <2>2, <2>3, Zenon, ReadsLaid
<1> QED BY <1>1, <1>2, <1>3, PTL DEF RequestSpec
=============================================================================
