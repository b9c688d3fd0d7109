----------------------------- MODULE PoolProofs -----------------------------
(***************************************************************************)
(* The pool allocator for every number of blocks, every block size and     *)
(* every order of operations, over any number of lives of the pool.        *)
(***************************************************************************)
EXTENDS Pool, ListProofs

-----------------------------------------------------------------------------
(* The free list *)

ListType ==
  /\ next \in [Block -> Block \cup {NULL}]
  /\ live \in [Block -> 0..block_size]
  /\ phase \in {"none", "ready"}

(***************************************************************************)
(* The list from free_list has exactly the free blocks.  This is           *)
(* ListComplete without the recursive walk, so that a step can be followed *)
(* without induction; ListSound, which alone would allow a ring of free    *)
(* blocks beside the list, follows too.                                    *)
(***************************************************************************)
ListInv == ListType /\ Chain(free_list, next, FreeBlocks)

\* Sizes of blocks: a whole number of granules, at least one.
LEMMA SizeFacts ==
  /\ block_size \in Nat \ {0} /\ block_size % 8 = 0
  /\ Granules \in Nat \ {0}
<1>1. ASSUME NEW x \in Nat, x >= 8
      PROVE  LET bs == 8 * ((x + 8 - 1) \div 8)
             IN bs \in Nat \ {0} /\ bs % 8 = 0 /\ bs \div 8 \in Nat \ {0}
  BY <1>1
<1> QED BY <1>1, PoolAssumption DEF block_size, align_up, Granules,
                                    sizeof_pool_free_node

\* Blocks are numbers below total_blocks; none is NULL.
LEMMA BlockFacts ==
  /\ Block \subseteq Nat /\ NULL \notin Block /\ 0 \in Block
  /\ IsFiniteSet(Block) /\ Cardinality(Block) = total_blocks
<1>1. Block \subseteq Nat /\ NULL \notin Block /\ 0 \in Block
  BY PoolAssumption DEF Block, NULL
<1>2. total_blocks - 1 \in Int /\ 0 \in Int
  BY PoolAssumption
<1>3. /\ IsFiniteSet(Block)
      /\ Cardinality(Block) = IF 0 > total_blocks - 1 THEN 0
                              ELSE (total_blocks - 1) - 0 + 1
  BY <1>2, FS_Interval DEF Block
<1> QED BY <1>1, <1>3, PoolAssumption

LEMMA FreeFacts == FreeBlocks \subseteq Block /\ NULL \notin FreeBlocks
  BY BlockFacts DEF FreeBlocks

\* What the client holds and the size of a block.
LEMMA RequestFacts ==
  ASSUME NEW n \in Sizes, n # 0, n <= block_size
  PROVE  n \in 1..block_size
  BY PoolAssumption, SizeFacts

LEMMA InitList == Init => ListInv
<1> SUFFICES ASSUME Init PROVE ListInv
  OBVIOUS
<1>1. FreeBlocks = {} /\ free_list = NULL
  BY DEF Init, FreeBlocks
<1>2. ListType
  BY SizeFacts DEF Init, ListType
<1> QED BY <1>1, <1>2, ChainEmpty DEF ListInv

\* make_pool_allocator threads one list through all blocks.
LEMMA MakeList ==
  ASSUME ListInv, NEW own \in BOOLEAN, Make(own)
  PROVE  ListInv'
<1>1. /\ phase' = "ready" /\ free_list' = 0
      /\ next' = [i \in Block |-> initial_link(i)]
      /\ live' = [i \in Block |-> 0]
  BY DEF Make
<1>2. ASSUME NEW i \in Block
      PROVE  initial_link(i) \in Block \cup {NULL}
  BY PoolAssumption DEF initial_link, Block, NULL
<1>3. FreeBlocks' = Block
  BY <1>1 DEF FreeBlocks
<1>4. ListType'
  BY <1>1, <1>2, SizeFacts DEF ListType
<1>5. Chain(0, next', 0..(total_blocks - 1))
  BY <1>1, PoolAssumption, ChainArray DEF Block, initial_link
<1> QED BY <1>1, <1>3, <1>4, <1>5 DEF ListInv, Block

\* pool_alloc_fn takes the head.
LEMMA AllocList ==
  ASSUME ListInv, NEW n \in Sizes, Alloc(n)
  PROVE  /\ ListInv'
         /\ free_list \in FreeBlocks
         /\ FreeBlocks' = FreeBlocks \ {free_list}
<1> DEFINE h == free_list
<1>1. /\ phase = "ready" /\ phase' = "ready" /\ n # 0 /\ h # NULL
      /\ free_list' = next[h]
      /\ next' = [next EXCEPT ![h] = NULL]
      /\ live' = [live EXCEPT ![h] = n]
      /\ n \in 1..block_size
  BY RequestFacts DEF Alloc, pop
<1>2. ASSUME NEW x \in FreeBlocks \ {h} PROVE next'[x] = next[x]
  BY <1>1, FreeFacts DEF ListInv, ListType
<1>3. h \in FreeBlocks /\ Chain(next[h], next', FreeBlocks \ {h})
  BY <1>1, <1>2, FreeFacts, ChainPop DEF ListInv
<1>4. h \in Block
  BY <1>3, FreeFacts
<1>5. FreeBlocks' = FreeBlocks \ {h}
  BY <1>1, <1>4 DEF FreeBlocks, ListInv, ListType
<1>6. ListType'
  BY <1>1, <1>4 DEF ListInv, ListType
<1> QED BY <1>1, <1>3, <1>5, <1>6 DEF ListInv

\* pool_free_fn puts the block before the head.
LEMMA FreeList ==
  ASSUME ListInv, NEW b \in Block, Free(b)
  PROVE  /\ ListInv'
         /\ b \notin FreeBlocks
         /\ FreeBlocks' = FreeBlocks \cup {b}
<1>1. /\ phase = "ready" /\ phase' = "ready" /\ live[b] # 0
      /\ free_list' = b
      /\ next' = [next EXCEPT ![b] = free_list]
      /\ live' = [live EXCEPT ![b] = 0]
  BY DEF Free
<1>2. b \notin FreeBlocks
  BY <1>1 DEF FreeBlocks
<1>3. FreeBlocks' = FreeBlocks \cup {b}
  BY <1>1 DEF FreeBlocks, ListInv, ListType
<1>4. free_list \in Block \cup {NULL}
  BY FreeFacts, ChainHead DEF ListInv
<1>5. ListType'
  BY <1>1, <1>4, SizeFacts DEF ListInv, ListType
<1>6. next'[b] = free_list /\ b # NULL
  BY <1>1, BlockFacts DEF ListInv, ListType
<1>7. ASSUME NEW x \in FreeBlocks PROVE next'[x] = next[x]
  BY <1>1, <1>2, <1>7, FreeFacts DEF ListInv, ListType
<1>8. Chain(b, next', FreeBlocks \cup {b})
  BY <1>2, <1>6, <1>7, ChainPush DEF ListInv
<1> QED BY <1>1, <1>2, <1>3, <1>5, <1>8 DEF ListInv

\* pool_realloc_fn leaves the list alone, and the block held.
LEMMA ReallocList ==
  ASSUME ListInv, NEW b \in Block, NEW n \in Sizes, Realloc(b, n)
  PROVE  ListInv' /\ FreeBlocks' = FreeBlocks
<1>1. /\ live[b] # 0 /\ n \in 1..block_size
      /\ live' = [live EXCEPT ![b] = n]
      /\ UNCHANGED <<phase, free_list, next>>
  BY RequestFacts DEF Realloc, realloc_fits
<1>2. FreeBlocks' = FreeBlocks
  BY <1>1 DEF FreeBlocks, ListInv, ListType
<1>3. ListType'
  BY <1>1 DEF ListInv, ListType
<1> QED BY <1>1, <1>2, <1>3 DEF ListInv

LEMMA DestroyList ==
  ASSUME ListInv, Destroy
  PROVE  ListInv'
<1>1. FreeBlocks' = {} /\ free_list' = NULL
  BY DEF Destroy, FreeBlocks
<1>2. ListType'
  BY SizeFacts DEF Destroy, ListType
<1>3. Chain(NULL, next', {})
  BY ChainEmpty
<1> QED BY <1>1, <1>2, <1>3 DEF ListInv

\* A refusal changes nothing.
LEMMA RefusalsStutter ==
  /\ MakeFails => UNCHANGED vars
  /\ \A n \in Sizes : AllocNull(n) => UNCHANGED vars
  BY DEF MakeFails, AllocNull

LEMMA NextList == ListInv /\ [Next]_vars => ListInv'
<1> SUFFICES ASSUME ListInv, [Next]_vars PROVE ListInv'
  OBVIOUS
<1>1. CASE UNCHANGED vars
  BY <1>1 DEF vars, ListInv, ListType, FreeBlocks
<1> QED BY <1>1, RefusalsStutter, MakeList, AllocList, FreeList, ReallocList,
           DestroyList DEF Next

\* The list invariant holds in every reachable state.
LEMMA ListInvariance == Spec => []ListInv
  BY InitList, NextList, PTL DEF Spec

(***************************************************************************)
(* For every pool: the list that pool_alloc_fn pops and pool_free_fn       *)
(* pushes leads only through free blocks, and no block is on it twice, so  *)
(* no block that a client holds is ever handed out.                        *)
(***************************************************************************)
THEOREM FreeListSound == Spec => []ListSound
<1>1. ASSUME ListInv PROVE ListSound
  <2>1. /\ free_list \in FreeBlocks \cup {NULL}
        /\ \A x \in FreeBlocks : /\ next[x] \in FreeBlocks \cup {NULL}
                                 /\ next[x] # free_list
        /\ \A x, y \in FreeBlocks : next[x] # NULL /\ next[x] = next[y] => x = y
    BY <1>1, FreeFacts, ChainHead DEF ListInv
  <2> QED BY <2>1 DEF ListSound
<1> QED BY ListInvariance, <1>1, PTL

(***************************************************************************)
(* For every pool: no free block is ever lost from the list; following the *)
(* links from free_list meets all of them and ends, within as many links   *)
(* as the pool has blocks.                                                 *)
(***************************************************************************)
THEOREM NoBlockLost == Spec => []ListComplete
<1>1. ASSUME ListInv PROVE ListComplete
  <2>1. /\ WalkEnds(free_list, next, Cardinality(Block))
        /\ Walked(free_list, next, Cardinality(Block)) = FreeBlocks
    <3>1. /\ NULL \notin FreeBlocks /\ Chain(free_list, next, FreeBlocks)
          /\ FreeBlocks \subseteq Block /\ IsFiniteSet(Block)
      BY <1>1, BlockFacts, FreeFacts DEF ListInv
    <3> QED BY ONLY <3>1, ChainWalk
  <2> QED BY <2>1, BlockFacts DEF ListComplete
<1> QED BY ListInvariance, <1>1, PTL

-----------------------------------------------------------------------------
(* The child's memory *)

(***************************************************************************)
(* For every pool: pool_destroy_fn gives back exactly what                 *)
(* make_pool_allocator took of the child, and nothing when the buffer was  *)
(* the caller's.                                                           *)
(***************************************************************************)
THEOREM ChildGetsAllBack == Spec => []ChildBalanced
<1>1. Init => ChildBalanced
  BY DEF Init, ChildBalanced
<1>2. ChildBalanced /\ [Next]_vars => ChildBalanced'
  <2> SUFFICES ASSUME ChildBalanced, [Next]_vars PROVE ChildBalanced'
    OBVIOUS
  <2>1. ASSUME NEW own \in BOOLEAN, Make(own) PROVE ChildBalanced'
    BY <2>1 DEF Make, ChildBalanced, block_size
  <2>2. ASSUME Destroy PROVE ChildBalanced'
    <3>1. block_size * total_blocks \in Int
      BY SizeFacts, PoolAssumption
    <3>2. child' = 0
      BY <2>2, <3>1 DEF Destroy, ChildBalanced, returned
    <3>3. phase' = "none"
      BY <2>2 DEF Destroy
    <3> QED BY <3>2, <3>3 DEF ChildBalanced
  <2>3. ASSUME UNCHANGED <<phase, own_buffer, child>> PROVE ChildBalanced'
    BY <2>3 DEF ChildBalanced
  <2> QED BY <2>1, <2>2, <2>3, RefusalsStutter
          DEF Next, vars, Alloc, Free, Realloc
<1> QED BY <1>1, <1>2, PTL DEF Spec

-----------------------------------------------------------------------------
(* The shadow *)

\* Blocks do not share granules, and the header is the first of its block.
LEMMA BodyFacts ==
  ASSUME NEW i \in Block, NEW j \in Block
  PROVE  /\ Header(i) \subseteq Body(i)
         /\ i # j => Body(i) \cap Body(j) = {}
<1> DEFINE G == Granules
<1>1. i \in Nat /\ j \in Nat /\ G \in Nat \ {0}
  BY BlockFacts, SizeFacts
<1> HIDE DEF G
<1>2. ASSUME NEW a \in Nat, NEW b \in Nat
      PROVE  /\ a * G \in Nat /\ (a + 1) * G \in Nat
             /\ (a + 1) * G = a * G + G
             /\ a < b => (a + 1) * G <= b * G
  <2>1. a * G \in Nat /\ (a + 1) * G \in Nat /\ (a + 1) * G = a * G + G
    BY <1>1
  <2>2. ASSUME a < b PROVE (a + 1) * G <= b * G
    <3>1. PICK d \in Nat : b = (a + 1) + d
      <4>1. b - (a + 1) \in Nat /\ b = (a + 1) + (b - (a + 1))
        BY <2>2
      <4> QED BY <4>1
    <3>2. b * G = (a + 1) * G + d * G /\ d * G \in Nat
      BY <1>1, <3>1
    <3> QED BY <2>1, <3>2
  <2> QED BY <2>1, <2>2
<1>3. /\ i * G \in Nat /\ j * G \in Nat
      /\ (i + 1) * G = i * G + G /\ (j + 1) * G = j * G + G
      /\ i < j => (i + 1) * G <= j * G
      /\ j < i => (j + 1) * G <= i * G
  BY <1>1, <1>2
<1>4. Header(i) = {i * G} /\ Body(i) = (i * G)..((i + 1) * G - 1)
      /\ Body(j) = (j * G)..((j + 1) * G - 1)
  BY DEF Header, Body, G
<1>5. Header(i) \subseteq Body(i)
  BY <1>1, <1>3, <1>4
<1>6. ASSUME i # j PROVE Body(i) \cap Body(j) = {}
  <2>1. i < j \/ j < i
    BY <1>1, <1>6
  <2> QED BY <1>1, <1>3, <1>4, <2>1
<1> QED BY <1>5, <1>6

\* The blocks that clients hold.
HeldBlocks == {i \in Block : live[i] # 0}

\* ShadowExact granule by granule.
Shadow ==
  \A x : x \in unpoisoned <=> \/ \E i \in HeldBlocks : x \in Body(i)
                              \/ \E i \in FreeBlocks : x \in Header(i)

LEMMA ShadowForm ==
  ASSUME phase = "ready"
  PROVE  ShadowExact <=> Shadow
<1>1. ShadowExact <=>
        unpoisoned = UNION ({Body(i) : i \in HeldBlocks}
                            \cup {Header(i) : i \in FreeBlocks})
  BY DEF ShadowExact, HeldBlocks
<1> QED BY <1>1 DEF Shadow

ShadowInv == phase = "ready" => Shadow

\* make_pool_allocator unpoisons the headers of all blocks.
LEMMA MakeShadow ==
  ASSUME NEW own \in BOOLEAN, Make(own)
  PROVE  ShadowInv'
<1>1. /\ unpoisoned' = UNION {Header(i) : i \in Block}
      /\ FreeBlocks' = Block /\ HeldBlocks' = {}
  BY DEF Make, FreeBlocks, HeldBlocks
<1>2. \A i : Header(i)' = Header(i) /\ Body(i)' = Body(i)
  BY DEF Header, Body, Granules, block_size
<1> QED BY <1>1, <1>2 DEF ShadowInv, Shadow

\* pool_alloc_fn unpoisons the whole block it hands out.
LEMMA AllocShadow ==
  ASSUME ListInv, ShadowInv, NEW n \in Sizes, Alloc(n)
  PROVE  ShadowInv'
<1> DEFINE h == free_list
<1>1. /\ h \in FreeBlocks /\ h \in Block
      /\ FreeBlocks' = FreeBlocks \ {h}
  BY AllocList, FreeFacts
<1>2. /\ phase = "ready" /\ n # 0
      /\ unpoisoned' = unpoisoned \cup Body(h)
      /\ live' = [live EXCEPT ![h] = n]
  BY DEF Alloc
<1>3. HeldBlocks' = HeldBlocks \cup {h}
  BY <1>1, <1>2 DEF HeldBlocks, ListInv, ListType
<1>4. \A i : Header(i)' = Header(i) /\ Body(i)' = Body(i)
  BY DEF Header, Body, Granules, block_size
<1>5. Header(h) \subseteq Body(h)
  BY <1>1, BodyFacts
<1>6. Shadow
  BY <1>2 DEF ShadowInv
<1>7. Shadow'
  BY <1>1, <1>2, <1>3, <1>4, <1>5, <1>6 DEF Shadow
<1> QED BY <1>7 DEF ShadowInv

\* pool_free_fn poisons the block but for its header, and touches no other
\* block.
LEMMA FreeShadow ==
  ASSUME ListInv, ShadowInv, NEW b \in Block, Free(b)
  PROVE  ShadowInv'
<1>1. b \notin FreeBlocks /\ FreeBlocks' = FreeBlocks \cup {b}
  BY FreeList
<1>2. /\ phase = "ready" /\ live[b] # 0
      /\ unpoisoned' = (unpoisoned \ Body(b)) \cup Header(b)
      /\ live' = [live EXCEPT ![b] = 0]
  BY DEF Free, free_shadow
<1>3. b \in HeldBlocks /\ HeldBlocks' = HeldBlocks \ {b}
  BY <1>2 DEF HeldBlocks, ListInv, ListType
<1>4. \A i : Header(i)' = Header(i) /\ Body(i)' = Body(i)
  BY DEF Header, Body, Granules, block_size
<1>5. Shadow
  BY <1>2 DEF ShadowInv
<1>6. \A i \in HeldBlocks \ {b} : \A x \in Body(i) : x \notin Body(b)
  BY BodyFacts DEF HeldBlocks
<1>7. \A i \in FreeBlocks : \A x \in Header(i) : x \notin Body(b)
  BY <1>1, BodyFacts, FreeFacts
<1>8. Shadow'
  BY <1>1, <1>2, <1>3, <1>4, <1>5, <1>6, <1>7 DEF Shadow
<1> QED BY <1>8 DEF ShadowInv

LEMMA NextShadow == ListInv /\ ShadowInv /\ [Next]_vars => ShadowInv'
<1> SUFFICES ASSUME ListInv, ShadowInv, [Next]_vars PROVE ShadowInv'
  OBVIOUS
<1>1. CASE UNCHANGED vars
  BY <1>1 DEF vars, ShadowInv, Shadow, HeldBlocks, FreeBlocks, Header, Body,
              Granules, block_size
<1>2. ASSUME Destroy PROVE ShadowInv'
  BY <1>2 DEF Destroy, ShadowInv
<1>3. ASSUME NEW b \in Block, NEW n \in Sizes, Realloc(b, n) PROVE ShadowInv'
  <2>1. FreeBlocks' = FreeBlocks
    BY <1>3, ReallocList
  <2>2. HeldBlocks' = HeldBlocks /\ UNCHANGED <<phase, unpoisoned>>
    BY <1>3 DEF Realloc, HeldBlocks, ListInv, ListType
  <2>3. \A i : Header(i)' = Header(i) /\ Body(i)' = Body(i)
    BY DEF Header, Body, Granules, block_size
  <2> QED BY <2>1, <2>2, <2>3 DEF ShadowInv, Shadow
<1> QED BY <1>1, <1>2, <1>3, RefusalsStutter, MakeShadow, AllocShadow,
           FreeShadow DEF Next

(***************************************************************************)
(* For every pool: accessible are exactly the blocks that clients hold and *)
(* the headers the free list needs.                                        *)
(***************************************************************************)
THEOREM PoolShadowExact == Spec => []ShadowExact
<1>1. Init => ShadowInv
  BY DEF Init, ShadowInv
<1>2. ShadowInv => ShadowExact
  <2>1. CASE phase = "ready"
    BY <2>1, ShadowForm DEF ShadowInv
  <2>2. CASE phase # "ready"
    BY <2>2 DEF ShadowExact
  <2> QED BY <2>1, <2>2
<1> QED BY <1>1, <1>2, NextShadow, ListInvariance, PTL DEF Spec

-----------------------------------------------------------------------------
(* The pool as a heap *)

\* Where blocks lie: apart, aligned and within the buffer.
LEMMA AddressFacts ==
  ASSUME NEW i \in Block, NEW j \in Block
  PROVE  /\ i * block_size \in Addrs
         /\ (i * block_size) \div block_size = i
         /\ i * block_size \in Nat
         /\ (i * block_size) % 8 = 0
         /\ i * block_size + block_size <= block_size * total_blocks
         /\ i # j => \/ i * block_size + block_size <= j * block_size
                     \/ j * block_size + block_size <= i * block_size
         /\ i # j => i * block_size # j * block_size
<1> DEFINE bs == block_size
<1>1. i \in Nat /\ j \in Nat /\ bs \in Nat \ {0} /\ bs % 8 = 0
      /\ total_blocks \in Nat
  BY BlockFacts, SizeFacts, PoolAssumption
<1>2. i <= total_blocks - 1
  BY DEF Block
<1>3. i * bs \in Addrs
  BY DEF Addrs
<1> HIDE DEF bs
<1>4. ASSUME NEW a \in Nat, NEW b \in Nat, a < b
      PROVE  a * bs + bs <= b * bs
  <2>1. PICK d \in Nat : b = a + 1 + d
    <3>1. b - (a + 1) \in Nat /\ b = a + 1 + (b - (a + 1))
      BY <1>4
    <3> QED BY <3>1
  <2>2. b * bs = a * bs + bs + d * bs /\ d * bs \in Nat /\ a * bs \in Nat
    BY <1>1, <2>1
  <2> QED BY <1>1, <2>2
<1>5. i * bs \in Nat /\ j * bs \in Nat /\ (i * bs) \div bs = i
  BY <1>1
<1>6. (i * bs) % 8 = 0
  <2>1. PICK q \in Nat : bs = 8 * q
    <3>1. bs \div 8 \in Nat /\ bs = 8 * (bs \div 8)
      BY <1>1
    <3> QED BY <3>1
  <2>2. i * bs = 8 * (i * q) /\ i * q \in Nat
    BY <1>1, <2>1
  <2> QED BY <2>2
<1>7. i * bs + bs <= bs * total_blocks
  <2>1. i < total_blocks
    BY <1>1, <1>2
  <2>2. i * bs + bs <= total_blocks * bs
    BY <1>1, <1>4, <2>1
  <2>3. total_blocks * bs = bs * total_blocks
    BY <1>1
  <2> QED BY <2>2, <2>3
<1>8. i # j => i * bs + bs <= j * bs \/ j * bs + bs <= i * bs
  <2>1. i # j => i < j \/ j < i
    BY <1>1
  <2> QED BY <1>1, <1>4, <2>1
<1>9. i # j => i * bs # j * bs
  BY <1>1, <1>5, <1>8
<1> QED BY <1>3, <1>5, <1>6, <1>7, <1>8, <1>9 DEF bs

\* The heap that clients see.
HeapLive == [a \in Addrs |-> live[a \div block_size]]

\* The size at a block's address is the block's, and every address is one.
LEMMA HeapLiveFacts ==
  /\ \A i \in Block : HeapLive[i * block_size] = live[i]
  /\ \A a \in Addrs : \E i \in Block :
       a = i * block_size /\ HeapLive[a] = live[i]
  BY AddressFacts DEF HeapLive, Addrs

\* Setting the size of one block sets it at one address.
LEMMA HeapLiveStep ==
  ASSUME ListInv, NEW i \in Block, NEW n, live' = [live EXCEPT ![i] = n]
  PROVE  HeapLive' = [HeapLive EXCEPT ![i * block_size] = n]
<1>1. HeapLive' = [a \in Addrs |-> live'[a \div block_size]]
  BY DEF HeapLive, Addrs, block_size, Block
<1>2. ASSUME NEW a \in Addrs
      PROVE  live'[a \div block_size]
               = IF a = i * block_size THEN n ELSE HeapLive[a]
  <2>1. PICK j \in Block : a = j * block_size
    BY DEF Addrs
  <2>2. a \div block_size = j /\ HeapLive[a] = live[j]
        /\ (a = i * block_size <=> i = j)
    BY <2>1, AddressFacts, HeapLiveFacts
  <2>3. live'[j] = IF i = j THEN n ELSE live[j]
    BY DEF ListInv, ListType
  <2> QED BY <2>2, <2>3
<1> QED BY <1>1, <1>2 DEF HeapLive

\* A block of at most block_size bytes at its place is clear of every other
\* block.
LEMMA BlockVacant ==
  ASSUME ListInv, NEW i \in Block, NEW n \in 1..block_size, NEW X,
         live[i] = 0 \/ i * block_size \in X
  PROVE  Contract!Vacant(i * block_size, n, X)
<1>1. (i * block_size) % 8 = 0
  BY AddressFacts
<1>2. i * block_size + n <= block_size * total_blocks
  <2>1. /\ i * block_size + block_size <= block_size * total_blocks
        /\ i * block_size \in Nat /\ block_size \in Nat
        /\ block_size * total_blocks \in Nat
    BY AddressFacts, SizeFacts, PoolAssumption
  <2> QED BY <2>1
<1>3. ASSUME NEW b \in Addrs \ X
      PROVE  \/ HeapLive[b] = 0
             \/ i * block_size + n <= b
             \/ b + HeapLive[b] <= i * block_size
  <2>1. PICK j \in Block : b = j * block_size /\ HeapLive[b] = live[j]
    BY HeapLiveFacts
  <2>2. CASE j = i
    BY <1>3, <2>1, <2>2
  <2>3. CASE j # i
    <3>1. /\ i * block_size \in Nat /\ b \in Nat
          /\ i * block_size + block_size <= b \/ b + block_size <= i * block_size
      BY <2>1, <2>3, AddressFacts
    <3>2. live[j] \in 0..block_size /\ block_size \in Nat
      BY SizeFacts DEF ListInv, ListType
    <3> QED BY <2>1, <3>1, <3>2
  <2> QED BY <2>2, <2>3
<1> QED BY <1>1, <1>2, <1>3 DEF Contract!Vacant, Contract!Apart, HeapLive

LEMMA InitHeap == Init => Contract!Init
  BY AddressFacts DEF Init, Contract!Init, Addrs

\* Every step of the pool is a step of the heap, or one it does not see.
LEMMA NextHeap ==
  ASSUME ListInv, [Next]_vars
  PROVE  Contract!Next \/ HeapLive' = HeapLive
<1>1. ASSUME UNCHANGED vars PROVE HeapLive' = HeapLive
  BY <1>1 DEF vars, HeapLive, Addrs, block_size, Block
<1>2. ASSUME live' = [i \in Block |-> 0] PROVE Contract!allo_destroy
  BY <1>2, AddressFacts DEF Contract!allo_destroy, Addrs, block_size, Block
<1>3. ASSUME NEW n \in Sizes, Alloc(n) PROVE Contract!allo_alloc
  <2> DEFINE h == free_list
  <2>1. /\ h \in Block /\ live[h] = 0 /\ n \in 1..block_size
        /\ live' = [live EXCEPT ![h] = n]
    BY <1>3, AllocList, RequestFacts DEF Alloc, FreeBlocks
  <2>2. HeapLive' = [HeapLive EXCEPT ![h * block_size] = n]
    BY <2>1, HeapLiveStep
  <2>3. Contract!Vacant(h * block_size, n, {})
    BY <2>1, BlockVacant
  <2>4. h * block_size \in Addrs /\ n \in Sizes \ {0}
    BY <2>1, AddressFacts
  <2> HIDE DEF h
  <2> QED BY <2>2, <2>3, <2>4 DEF Contract!allo_alloc, HeapLive
<1>4. ASSUME NEW b \in Block, Free(b) PROVE Contract!allo_free
  <2>1. live[b] # 0 /\ live' = [live EXCEPT ![b] = 0]
    BY <1>4 DEF Free
  <2>2. /\ HeapLive' = [HeapLive EXCEPT ![b * block_size] = 0]
        /\ HeapLive[b * block_size] # 0 /\ b * block_size \in Addrs
    BY <2>1, HeapLiveStep, HeapLiveFacts, AddressFacts
  <2> QED BY <2>2 DEF Contract!allo_free, HeapLive
<1>5. ASSUME NEW b \in Block, NEW n \in Sizes, Realloc(b, n)
      PROVE  Contract!allo_realloc
  <2> DEFINE a == b * block_size
  <2>1. /\ live[b] # 0 /\ n \in 1..block_size
        /\ live' = [live EXCEPT ![b] = n]
    BY <1>5, RequestFacts DEF Realloc, realloc_fits
  <2>2. /\ HeapLive' = [HeapLive EXCEPT ![a] = n]
        /\ HeapLive[a] # 0 /\ a \in Addrs /\ n \in Sizes \ {0}
    <3>1. HeapLive' = [HeapLive EXCEPT ![a] = n]
      BY <2>1, HeapLiveStep
    <3>2. HeapLive[a] # 0 /\ a \in Addrs /\ n # 0
      BY <2>1, HeapLiveFacts, AddressFacts
    <3> QED BY <3>1, <3>2
  <2>3. Contract!Vacant(a, n, {a})
    BY <2>1, BlockVacant
  <2> HIDE DEF a
  <2>4. HeapLive' = [HeapLive EXCEPT ![a] = 0, ![a] = n]
    BY <2>2 DEF HeapLive
  <2> QED BY <2>2, <2>3, <2>4 DEF Contract!allo_realloc, HeapLive
<1>6. ASSUME NEW n \in Sizes, AllocNull(n) PROVE HeapLive' = HeapLive
  BY <1>1, <1>6, RefusalsStutter
<1>7. ASSUME MakeFails PROVE HeapLive' = HeapLive
  BY <1>1, <1>7, RefusalsStutter
<1>8. ASSUME NEW own \in BOOLEAN, Make(own) PROVE Contract!allo_destroy
  BY <1>2, <1>8 DEF Make
<1>9. ASSUME Destroy PROVE Contract!allo_destroy
  BY <1>2, <1>9 DEF Destroy
<1> QED BY <1>1, <1>3, <1>4, <1>5, <1>6, <1>7, <1>8, <1>9
        DEF Next, Contract!Next

(***************************************************************************)
(* Every pool keeps the contract of allo.h: a block it hands out lies in   *)
(* the buffer, is aligned to 8 bytes and shares no byte with another live  *)
(* block; what the client holds changes only by its own calls.             *)
(***************************************************************************)
THEOREM PoolIsHeap == Spec => ImplementsHeap
<1>1. ListInv /\ [Next]_vars => [Contract!Next]_HeapLive
  BY NextHeap
<1> QED BY InitHeap, <1>1, ListInvariance, PTL
        DEF Spec, ImplementsHeap, Contract!Spec, HeapLive
=============================================================================
