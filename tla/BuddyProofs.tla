---------------------------- MODULE BuddyProofs ----------------------------
(***************************************************************************)
(* Proofs about the buddy allocator for every buffer size, smallest block  *)
(* and set of requests.                                                    *)
(***************************************************************************)
EXTENDS Buddy, ListProofs, TLAPS

-----------------------------------------------------------------------------
(* The tree: powers of two, nodes, bits, addresses *)

\* Powers of two within the buffer are positive, double and grow.
LEMMA PowFacts ==
  ASSUME NEW n \in 0..max_order
  PROVE  /\ Pow2(n) \in Nat \ {0}
         /\ Pow2(n + 1) = 2 * Pow2(n)
         /\ Pow2(n + 1) \in Nat \ {0}
         /\ \A m \in 0..n : Pow2(m) <= Pow2(n)
<1>1. /\ Pow2(n) \in Nat \ {0}
      /\ Pow2(n + 1) = 2 * Pow2(n)
      /\ \A m \in 0..n : Pow2(m) <= Pow2(n)
  BY PowAssumption
<1> QED BY <1>1

\* Every level is the exponent of a power within the buffer.
LEMMA LevelFacts ==
  /\ min_order \in Nat /\ max_order \in Nat /\ min_order <= max_order
  /\ num_levels \in Nat \ {0}
  /\ 0 \in Levels
  /\ \A l \in Levels : /\ l \in Nat
                       /\ l \in 0..max_order
                       /\ max_order - l \in 0..max_order
  BY OrderAssumption DEF num_levels, Levels

\* A node is a pair of a level and an index within the level.
LEMMA NodeFacts ==
  ASSUME NEW n \in Node
  PROVE  /\ n = <<n[1], n[2]>>
         /\ n[1] \in Levels /\ n[1] \in Nat
         /\ n[2] \in Nat /\ n[2] < Pow2(n[1])
  BY LevelFacts DEF Node

\* ... and every such pair is a node.
LEMMA NodeIntro ==
  ASSUME NEW l \in Levels, NEW i \in Nat, i < Pow2(l)
  PROVE  <<l, i>> \in Node
<1>1. num_levels - 1 \in 0..max_order /\ l \in 0..(num_levels - 1)
  BY OrderAssumption DEF num_levels, Levels
<1>2. /\ Pow2((num_levels - 1) + 1) = 2 * Pow2(num_levels - 1)
      /\ Pow2(num_levels - 1) \in Nat
      /\ Pow2(l) <= Pow2(num_levels - 1)
  BY <1>1, PowFacts
<1>3. (num_levels - 1) + 1 = num_levels
  BY LevelFacts
<1>4. Pow2(num_levels) = 2 * Pow2(num_levels - 1)
  BY <1>2, <1>3
<1>5. Pow2(l) \in Nat
  BY PowFacts, LevelFacts
<1>6. i \in 0..Pow2(num_levels)
  BY <1>2, <1>4, <1>5
<1> QED BY <1>6 DEF Node

\* The root is a node, and it is the only one of its level.
LEMMA RootNode == /\ <<0, 0>> \in Node
                  /\ \A n \in Node : n[1] = 0 => n = <<0, 0>>
<1>1. Pow2(0) = 1
  BY PowAssumption
<1> QED BY <1>1, NodeFacts, NodeIntro, LevelFacts

\* No two nodes share a bit: node_index numbers the tree level by level.
LEMMA NodeIndexInjective ==
  ASSUME NEW m \in Node, NEW n \in Node,
         node_index(m[1], m[2]) = node_index(n[1], n[2])
  PROVE  m = n
<1> DEFINE a == m[1]  i == m[2]  b == n[1]  j == n[2]
<1>1. /\ a \in Nat /\ b \in Nat /\ i \in Nat /\ j \in Nat
      /\ i < Pow2(a) /\ j < Pow2(b)
      /\ a \in 0..max_order /\ b \in 0..max_order
      /\ m = <<a, i>> /\ n = <<b, j>>
  BY NodeFacts, LevelFacts
<1>2. Pow2(a) \in Nat /\ Pow2(b) \in Nat
  BY <1>1, PowFacts
<1>3. Pow2(a) + i = Pow2(b) + j
  BY <1>1, <1>2 DEF node_index
<1>4. CASE a = b
  <2>1. i = j
    BY <1>1, <1>2, <1>3, <1>4
  <2> QED BY <2>1, <1>1, <1>4
<1>5. CASE a < b
  <2>1. a + 1 \in 0..b
    BY <1>1, <1>5
  <2>2. Pow2(a + 1) <= Pow2(b) /\ Pow2(a + 1) = 2 * Pow2(a)
    BY <2>1, <1>1, PowFacts
  <2> HIDE DEF a, b, i, j
  <2> QED BY <2>2, <1>1, <1>2, <1>3
<1>6. CASE b < a
  <2>1. b + 1 \in 0..a
    BY <1>1, <1>6
  <2>2. Pow2(b + 1) <= Pow2(a) /\ Pow2(b + 1) = 2 * Pow2(b)
    BY <2>1, <1>1, PowFacts
  <2> HIDE DEF a, b, i, j
  <2> QED BY <2>2, <1>1, <1>2, <1>3
<1> QED BY <1>1, <1>4, <1>5, <1>6

\* Setting or clearing a block's bit changes what get_bit says of that block
\* and of no other.
LEMMA BitFacts ==
  ASSUME NEW bits, NEW m \in Node, NEW n \in Node
  PROVE  /\ get_bit(set_bit(bits, m[1], m[2]), n[1], n[2])
              <=> n = m \/ get_bit(bits, n[1], n[2])
         /\ get_bit(clear_bit(bits, m[1], m[2]), n[1], n[2])
              <=> n # m /\ get_bit(bits, n[1], n[2])
  BY NodeIndexInjective DEF get_bit, set_bit, clear_bit

\* What the provers need of products.
LEMMA Products ==
  ASSUME NEW i \in Nat, NEW s \in Nat \ {0}
  PROVE  /\ i * s \in Nat
         /\ (i + 1) * s \in Nat
         /\ (i + 1) * s = i * s + s
         /\ (i * s) \div s = i
         /\ (2 * i) * s = i * (2 * s)
         /\ ((2 * i + 1) + 1) * s = (i + 1) * (2 * s)
  OBVIOUS

\* Where a block starts and ends.
LEMMA Geometry ==
  ASSUME NEW l \in Levels, NEW i \in Nat
  PROVE  /\ level_size(l) \in Nat \ {0}
         /\ Start(l, i) \in Nat
         /\ End(l, i) \in Nat
         /\ End(l, i) = Start(l, i) + level_size(l)
         /\ Start(l, i) < End(l, i)
         /\ Start(l, i) \div level_size(l) = i
<1>1. level_size(l) \in Nat \ {0}
  BY PowFacts, LevelFacts DEF level_size
<1>2. /\ Start(l, i) \in Nat
      /\ End(l, i) \in Nat
      /\ End(l, i) = Start(l, i) + level_size(l)
      /\ Start(l, i) \div level_size(l) = i
  BY <1>1, Products DEF Start, End
<1> QED BY <1>1, <1>2

\* The children of a block cut it in half.
LEMMA Halves ==
  ASSUME NEW l \in Levels, l + 1 \in Levels, NEW i \in Nat
  PROVE  /\ Start(l + 1, 2 * i) = Start(l, i)
         /\ End(l + 1, 2 * i) = Start(l + 1, 2 * i + 1)
         /\ End(l + 1, 2 * i + 1) = End(l, i)
<1>1. /\ max_order - (l + 1) \in 0..max_order
      /\ (max_order - (l + 1)) + 1 = max_order - l
  BY LevelFacts
<1>2. level_size(l) = 2 * level_size(l + 1) /\ level_size(l + 1) \in Nat \ {0}
  BY <1>1, PowFacts DEF level_size
<1> QED BY <1>2, Products DEF Start, End

\* A block and its buddy are the two children of their parent.
LEMMA BuddyFacts ==
  ASSUME NEW i \in Nat
  PROVE  /\ parent_idx(i) \in Nat
         /\ buddy_idx(i) \in Nat
         /\ buddy_idx(buddy_idx(i)) = i
         /\ buddy_idx(2 * i + 1) = 2 * i
         /\ buddy_idx(2 * i) = 2 * i + 1
         /\ \/ i = 2 * parent_idx(i) /\ buddy_idx(i) = 2 * parent_idx(i) + 1
            \/ i = 2 * parent_idx(i) + 1 /\ buddy_idx(i) = 2 * parent_idx(i)
<1>1. CASE i % 2 = 0
  BY <1>1 DEF parent_idx, buddy_idx
<1>2. CASE i % 2 = 1
  BY <1>2 DEF parent_idx, buddy_idx
<1> QED BY <1>1, <1>2

\* The children, the buddy and the parent of a node are nodes.
LEMMA Family ==
  ASSUME NEW l \in Levels, NEW i \in Nat, <<l, i>> \in Node
  PROVE  /\ l + 1 \in Levels => /\ <<l + 1, 2 * i>> \in Node
                                /\ <<l + 1, 2 * i + 1>> \in Node
         /\ l > 0 => /\ l - 1 \in Levels
                     /\ <<l, buddy_idx(i)>> \in Node
                     /\ <<l - 1, parent_idx(i)>> \in Node
<1>1. i < Pow2(l) /\ Pow2(l) \in Nat
  BY NodeFacts, PowFacts, LevelFacts
<1>2. ASSUME l + 1 \in Levels
      PROVE  <<l + 1, 2 * i>> \in Node /\ <<l + 1, 2 * i + 1>> \in Node
  <2>1. Pow2(l + 1) = 2 * Pow2(l)
    BY PowFacts, LevelFacts
  <2>2. 2 * i + 1 < Pow2(l + 1) /\ 2 * i < Pow2(l + 1)
    BY <2>1, <1>1
  <2> QED BY <2>2, <1>2, NodeIntro
<1>3. ASSUME l > 0
      PROVE  /\ l - 1 \in Levels
             /\ <<l, buddy_idx(i)>> \in Node
             /\ <<l - 1, parent_idx(i)>> \in Node
  <2>1. l - 1 \in Levels /\ (l - 1) + 1 = l
    BY <1>3, LevelFacts DEF Levels
  <2>2. Pow2(l) = 2 * Pow2(l - 1) /\ Pow2(l - 1) \in Nat
    BY <2>1, PowFacts, LevelFacts
  <2>3. /\ parent_idx(i) \in Nat /\ buddy_idx(i) \in Nat
        /\ \/ i = 2 * parent_idx(i) /\ buddy_idx(i) = 2 * parent_idx(i) + 1
           \/ i = 2 * parent_idx(i) + 1 /\ buddy_idx(i) = 2 * parent_idx(i)
    BY BuddyFacts
  <2>4. buddy_idx(i) < Pow2(l) /\ parent_idx(i) < Pow2(l - 1)
    BY <2>2, <2>3, <1>1
  <2> QED BY <2>1, <2>3, <2>4, NodeIntro
<1> QED BY <1>2, <1>3

-----------------------------------------------------------------------------
(* The free lists *)

\* Pushing a block that is not listed keeps the lists consistent.
LEMMA PushKeepsLinks ==
  ASSUME TypeOK, LinksConsistent,
         NEW l \in Levels, NEW i \in Nat,
         <<l, i>> \in Node \ FreeBlocks,
         list_push(l, i),
         FreeBlocks' = FreeBlocks \cup {<<l, i>>}
  PROVE  /\ LinksConsistent'
         /\ free_lists' \in [Levels -> Int]
         /\ \A k \in Levels : free_lists'[k] = NULL \/ <<k, free_lists'[k]>> \in Node
         /\ next' \in [Node -> Int]
         /\ prev' \in [Node -> Int]
<1> DEFINE h == free_lists[l]
<1> USE DEF NULL
<1>0. FreeBlocks \subseteq Node
  BY DEF FreeBlocks
<1>1. /\ free_lists \in [Levels -> Int] /\ next \in [Node -> Int]
      /\ prev \in [Node -> Int]
      /\ \A k \in Levels : free_lists[k] = NULL \/ <<k, free_lists[k]>> \in Node
  BY DEF TypeOK
<1>2. /\ next' = [next EXCEPT ![<<l, i>>] = h]
      /\ prev' = [n \in Node |-> IF n = <<l, i>> THEN NULL
                                 ELSE IF n = <<l, h>> THEN i ELSE prev[n]]
      /\ free_lists' = [free_lists EXCEPT ![l] = i]
  BY DEF list_push
<1>3. /\ free_lists' \in [Levels -> Int]
      /\ next' \in [Node -> Int]
      /\ prev' \in [Node -> Int]
  BY <1>1, <1>2
<1>4. \A k \in Levels : free_lists'[k] = NULL \/ <<k, free_lists'[k]>> \in Node
  BY <1>1, <1>2
<1>5. \A k \in Levels : free_lists'[k] # NULL =>
        /\ <<k, free_lists'[k]>> \in FreeBlocks'
        /\ prev'[<<k, free_lists'[k]>>] = NULL
  <2> TAKE k \in Levels
  <2> HAVE free_lists'[k] # NULL
  <2>1. CASE k = l
    BY <2>1, <1>1, <1>2
  <2>2. CASE k # l
    <3>1. /\ free_lists'[k] = free_lists[k]
          /\ <<k, free_lists[k]>> \in FreeBlocks
          /\ prev[<<k, free_lists[k]>>] = NULL
      BY <2>2, <1>1, <1>2 DEF LinksConsistent
    <3> QED BY <3>1, <2>2, <1>0, <1>2
  <2> QED BY <2>1, <2>2
<1>6. ASSUME NEW n \in FreeBlocks'
      PROVE  /\ next'[n] # NULL => /\ <<n[1], next'[n]>> \in FreeBlocks'
                                   /\ prev'[<<n[1], next'[n]>>] = n[2]
             /\ prev'[n] # NULL => /\ <<n[1], prev'[n]>> \in FreeBlocks'
                                   /\ next'[<<n[1], prev'[n]>>] = n[2]
             /\ prev'[n] = NULL => free_lists'[n[1]] = n[2]
  <2>1. CASE n = <<l, i>>
    <3>1. next'[n] = h /\ prev'[n] = NULL /\ free_lists'[l] = i
      BY <2>1, <1>1, <1>2
    <3>2. h # NULL => <<l, h>> \in FreeBlocks /\ <<l, h>> # <<l, i>>
      BY <1>0 DEF LinksConsistent
    <3> QED BY <2>1, <3>1, <3>2, <1>0, <1>2
  <2>2. CASE n # <<l, i>>
    <3>1. /\ n \in FreeBlocks /\ n \in Node /\ n = <<n[1], n[2]>>
          /\ n[1] \in Levels /\ n[2] \in Nat
      BY <2>2, <1>0, NodeFacts
    <3>2. next'[n] = next[n]
      BY <3>1, <2>2, <1>1, <1>2
    <3>3. next[n] # NULL => /\ <<n[1], next[n]>> \in FreeBlocks
                            /\ prev[<<n[1], next[n]>>] = n[2]
      BY <3>1 DEF LinksConsistent
    <3>4. \A k \in Levels : free_lists[k] # NULL => prev[<<k, free_lists[k]>>] = NULL
      BY DEF LinksConsistent
    <3>5. next[n] # NULL => /\ <<n[1], next[n]>> \in FreeBlocks'
                            /\ prev'[<<n[1], next[n]>>] = n[2]
      <4> HAVE next[n] # NULL
      <4>1. <<n[1], next[n]>> # <<l, i>>
        BY <3>3
      <4>2. <<n[1], next[n]>> # <<l, h>>
        BY <3>3, <3>4, <3>1
      <4> QED BY <4>1, <4>2, <3>3, <1>0, <1>2
    <3>6. CASE n = <<l, h>>
      <4>1. prev'[n] = i /\ next'[<<l, i>>] = h
        BY <3>6, <2>2, <3>1, <1>1, <1>2
      <4> QED BY <4>1, <3>6, <3>2, <3>5
    <3>7. CASE n # <<l, h>>
      <4>1. prev'[n] = prev[n]
        BY <3>7, <2>2, <3>1, <1>2
      <4>2. prev[n] # NULL => /\ <<n[1], prev[n]>> \in FreeBlocks
                              /\ next[<<n[1], prev[n]>>] = n[2]
        BY <3>1 DEF LinksConsistent
      <4>3. prev[n] # NULL => /\ <<n[1], prev[n]>> \in FreeBlocks'
                              /\ next'[<<n[1], prev[n]>>] = n[2]
        BY <4>2, <1>0, <1>1, <1>2
      <4>4. prev[n] = NULL => free_lists[n[1]] = n[2]
        BY <3>1 DEF LinksConsistent
      <4>5. prev[n] = NULL => free_lists'[n[1]] = n[2]
        BY <4>4, <3>7, <3>1, <1>1, <1>2
      <4> QED BY <4>1, <4>3, <4>5, <3>2, <3>5
    <3> QED BY <3>6, <3>7
  <2> QED BY <2>1, <2>2
<1>7. ASSUME NEW n \in Node \ FreeBlocks'
      PROVE  next'[n] = NULL /\ prev'[n] = NULL
  <2>1. next[n] = NULL /\ prev[n] = NULL /\ n # <<l, i>>
    BY DEF LinksConsistent
  <2>2. n # <<l, h>>
    <3> SUFFICES ASSUME n = <<l, h>> PROVE FALSE
      OBVIOUS
    <3>1. h # NULL
      BY NodeFacts
    <3> QED BY <3>1 DEF LinksConsistent
  <2> QED BY <2>1, <2>2, <1>1, <1>2
<1>8. LinksConsistent'
  BY <1>5, <1>6, <1>7 DEF LinksConsistent
<1> QED BY <1>3, <1>4, <1>8

\* Unlinking a listed block keeps the lists consistent.
LEMMA RemoveKeepsLinks ==
  ASSUME TypeOK, LinksConsistent,
         NEW l \in Levels, NEW i \in Nat,
         <<l, i>> \in FreeBlocks,
         list_remove(l, i),
         FreeBlocks' = FreeBlocks \ {<<l, i>>}
  PROVE  /\ LinksConsistent'
         /\ free_lists' \in [Levels -> Int]
         /\ \A k \in Levels : free_lists'[k] = NULL \/ <<k, free_lists'[k]>> \in Node
         /\ next' \in [Node -> Int]
         /\ prev' \in [Node -> Int]
<1> DEFINE b == <<l, i>>  p == prev[b]  q == next[b]
<1> USE DEF NULL
<1>0. FreeBlocks \subseteq Node /\ b \in Node
  BY DEF FreeBlocks
<1>1. /\ free_lists \in [Levels -> Int] /\ next \in [Node -> Int]
      /\ prev \in [Node -> Int]
      /\ \A k \in Levels : free_lists[k] = NULL \/ <<k, free_lists[k]>> \in Node
      /\ p \in Int /\ q \in Int
  BY <1>0 DEF TypeOK
<1>2. /\ next' = [n \in Node |-> IF n = b THEN NULL
                                 ELSE IF n = <<l, p>> THEN q ELSE next[n]]
      /\ prev' = [n \in Node |-> IF n = b THEN NULL
                                 ELSE IF n = <<l, q>> THEN p ELSE prev[n]]
      /\ free_lists' = IF p = NULL THEN [free_lists EXCEPT ![l] = q]
                                   ELSE free_lists
  BY DEF list_remove
<1>3. /\ q # NULL => <<l, q>> \in FreeBlocks /\ prev[<<l, q>>] = i
      /\ p # NULL => <<l, p>> \in FreeBlocks /\ next[<<l, p>>] = i
      /\ p = NULL => free_lists[l] = i
  BY DEF LinksConsistent
<1>4. /\ free_lists' \in [Levels -> Int]
      /\ next' \in [Node -> Int]
      /\ prev' \in [Node -> Int]
  <2> HIDE DEF p, q, b
  <2> QED BY <1>1, <1>2
<1>5. \A k \in Levels : free_lists'[k] = NULL \/ <<k, free_lists'[k]>> \in Node
  <2> HIDE DEF p, q
  <2> QED BY <1>0, <1>1, <1>2, <1>3
<1>6. ASSUME NEW k \in Levels, free_lists'[k] # NULL
      PROVE  /\ <<k, free_lists'[k]>> \in FreeBlocks'
             /\ prev'[<<k, free_lists'[k]>>] = NULL
  <2>1. CASE k = l /\ p = NULL
    <3>1. free_lists'[k] = q /\ q # NULL
      BY <2>1, <1>1, <1>2, <1>6
    <3>2. <<l, q>> # b
      BY <3>1, <2>1, <1>0, <1>3
    <3> QED BY <3>1, <3>2, <2>1, <1>0, <1>2, <1>3
  <2>2. CASE ~(k = l /\ p = NULL)
    <3>1. free_lists'[k] = free_lists[k]
      BY <2>2, <1>1, <1>2
    <3>2. /\ <<k, free_lists[k]>> \in FreeBlocks
          /\ prev[<<k, free_lists[k]>>] = NULL
      BY <3>1, <1>6 DEF LinksConsistent
    <3>3. <<k, free_lists[k]>> # b
      BY <3>2, <2>2
    <3>4. <<k, free_lists[k]>> # <<l, q>>
      <4> SUFFICES ASSUME <<k, free_lists[k]>> = <<l, q>> PROVE FALSE
        OBVIOUS
      <4>1. q # NULL
        BY <3>1, <1>6
      <4> QED BY <4>1, <3>2, <1>3
    <3> QED BY <3>1, <3>2, <3>3, <3>4, <1>0, <1>2
  <2> QED BY <2>1, <2>2
<1>7. ASSUME NEW n \in FreeBlocks'
      PROVE  /\ next'[n] # NULL => /\ <<n[1], next'[n]>> \in FreeBlocks'
                                   /\ prev'[<<n[1], next'[n]>>] = n[2]
             /\ prev'[n] # NULL => /\ <<n[1], prev'[n]>> \in FreeBlocks'
                                   /\ next'[<<n[1], prev'[n]>>] = n[2]
             /\ prev'[n] = NULL => free_lists'[n[1]] = n[2]
  <2>1. /\ n \in FreeBlocks /\ n # b /\ n \in Node /\ n = <<n[1], n[2]>>
        /\ n[1] \in Levels /\ n[2] \in Nat
    BY <1>0, <1>7, NodeFacts
  <2>2. /\ next[n] # NULL => /\ <<n[1], next[n]>> \in FreeBlocks
                             /\ prev[<<n[1], next[n]>>] = n[2]
        /\ prev[n] # NULL => /\ <<n[1], prev[n]>> \in FreeBlocks
                             /\ next[<<n[1], prev[n]>>] = n[2]
        /\ prev[n] = NULL => free_lists[n[1]] = n[2]
    BY <2>1 DEF LinksConsistent
  <2>3. next'[n] # NULL => /\ <<n[1], next'[n]>> \in FreeBlocks'
                           /\ prev'[<<n[1], next'[n]>>] = n[2]
    <3>1. CASE n = <<l, p>>
      <4>1. next'[n] = q /\ n[1] = l /\ n[2] = p /\ p # NULL
        BY <3>1, <2>1, <1>2
      <4>2. q # NULL => <<l, q>> # b
        BY <4>1, <3>1, <2>1, <1>3
      <4> QED BY <4>1, <4>2, <1>0, <1>2, <1>3
    <3>2. CASE n # <<l, p>>
      <4>1. next'[n] = next[n]
        BY <3>2, <2>1, <1>2
      <4>2. next[n] # NULL => /\ <<n[1], next[n]>> # b
                              /\ <<n[1], next[n]>> # <<l, q>>
        BY <3>2, <2>1, <2>2, <1>3
      <4> QED BY <4>1, <4>2, <2>2, <1>0, <1>2
    <3> QED BY <3>1, <3>2
  <2>4. /\ prev'[n] # NULL => /\ <<n[1], prev'[n]>> \in FreeBlocks'
                              /\ next'[<<n[1], prev'[n]>>] = n[2]
        /\ prev'[n] = NULL => free_lists'[n[1]] = n[2]
    <3>1. CASE n = <<l, q>>
      <4>1. prev'[n] = p /\ n[1] = l /\ n[2] = q /\ q # NULL
        BY <3>1, <2>1, <1>2
      <4>2. p # NULL => <<l, p>> # b
        BY <4>1, <3>1, <2>1, <1>3
      <4>3. p = NULL => free_lists'[l] = q
        BY <1>1, <1>2
      <4> QED BY <4>1, <4>2, <4>3, <1>0, <1>2, <1>3
    <3>2. CASE n # <<l, q>>
      <4>1. prev'[n] = prev[n]
        BY <3>2, <2>1, <1>2
      <4>2. prev[n] # NULL => /\ <<n[1], prev[n]>> # b
                              /\ <<n[1], prev[n]>> # <<l, p>>
        BY <3>2, <2>1, <2>2, <1>3
      <4>3. prev[n] = NULL => free_lists'[n[1]] = n[2]
        BY <2>1, <2>2, <1>1, <1>2, <1>3
      <4> QED BY <4>1, <4>2, <4>3, <2>2, <1>0, <1>2
    <3> QED BY <3>1, <3>2
  <2> QED BY <2>3, <2>4
<1>8. ASSUME NEW n \in Node \ FreeBlocks'
      PROVE  next'[n] = NULL /\ prev'[n] = NULL
  <2>1. CASE n = b
    BY <2>1, <1>0, <1>2
  <2>2. CASE n # b
    <3>1. /\ n \notin FreeBlocks /\ next[n] = NULL /\ prev[n] = NULL
          /\ n = <<n[1], n[2]>> /\ n[2] # NULL
      BY <2>2, <1>8, NodeFacts DEF LinksConsistent
    <3>2. n # <<l, p>> /\ n # <<l, q>>
      BY <3>1, <1>3
    <3> QED BY <3>1, <3>2, <2>2, <1>2
  <2> QED BY <2>1, <2>2
<1>9. LinksConsistent'
  BY <1>6, <1>7, <1>8 DEF LinksConsistent
<1> QED BY <1>4, <1>5, <1>9

-----------------------------------------------------------------------------
(* The inductive invariant *)

(***************************************************************************)
(* That the blocks partition the buffer is not inductive on its own: that  *)
(* the head of a list may be taken needs the links to agree with the bits, *)
(* and that a freed size leads back to its block needs LevelFromSize.      *)
(***************************************************************************)
IInv == /\ TypeOK
        /\ NoOverlap
        /\ NoLeak
        /\ LevelFromSize
        /\ LinksConsistent
        /\ Coalesced

\* A request that has a level fits the blocks of that level.
LEMMA TargetLevel ==
  ASSUME NEW s \in Sizes
  PROVE  /\ target_level(s) \in Int
         /\ target_level(s) >= 0 => /\ target_level(s) \in Levels
                                    /\ s <= level_size(target_level(s))
<1> DEFINE o == get_order(s)
           c == IF o < min_order THEN min_order ELSE o
<1>1. /\ o \in Nat /\ s <= Pow2(o) /\ s \in Nat
      /\ min_order \in Nat /\ max_order \in Nat /\ min_order <= max_order
  BY SizesAssumption, OrderAssumption
<1>2. target_level(s) = max_order - c /\ c \in Nat /\ c >= min_order /\ o <= c
  BY <1>1 DEF target_level
<1>3. ASSUME target_level(s) >= 0
      PROVE  target_level(s) \in Levels /\ s <= level_size(target_level(s))
  <2> HIDE DEF o, c
  <2>1. c \in 0..max_order /\ o \in 0..c /\ max_order - (max_order - c) = c
    BY <1>1, <1>2, <1>3
  <2>2. Pow2(o) <= Pow2(c) /\ Pow2(c) \in Nat /\ Pow2(o) \in Nat
    BY <2>1, PowFacts, <1>1
  <2>3. s <= level_size(target_level(s))
    BY <2>1, <2>2, <1>1, <1>2 DEF level_size
  <2>4. target_level(s) \in Levels
    BY <1>1, <1>2, <1>3, <2>1 DEF Levels, num_levels
  <2> QED BY <2>3, <2>4
<1> QED BY <1>1, <1>2, <1>3

\* Granules of the shadow are integers.
LEMMA ShadowType ==
  ASSUME NEW l \in Levels, NEW i \in Nat
  PROVE  Header(l, i) \subseteq Int /\ Body(l, i) \subseteq Int
  BY Geometry DEF Header, Body, sizeof_buddy_node

\* Being disjoint is symmetric, and no block is disjoint from itself.
LEMMA DisjointFacts ==
  ASSUME NEW m \in Node, NEW n \in Node
  PROVE  /\ Disjoint(m, n) <=> Disjoint(n, m)
         /\ ~ Disjoint(m, m)
  BY NodeFacts, Geometry DEF Disjoint

\* What is clear of a block is clear of its halves, and of the block when it
\* is clear of both halves; the halves are clear of each other and not of it.
LEMMA SplitDisjoint ==
  ASSUME NEW l \in Levels, l + 1 \in Levels, NEW i \in Nat, NEW m \in Node
  PROVE  /\ Disjoint(m, <<l, i>>) <=> /\ Disjoint(m, <<l + 1, 2 * i>>)
                                      /\ Disjoint(m, <<l + 1, 2 * i + 1>>)
         /\ Disjoint(<<l + 1, 2 * i>>, <<l + 1, 2 * i + 1>>)
         /\ ~ Disjoint(<<l + 1, 2 * i>>, <<l, i>>)
         /\ ~ Disjoint(<<l + 1, 2 * i + 1>>, <<l, i>>)
<1>1. /\ m[1] \in Levels /\ m[2] \in Nat
      /\ Start(m[1], m[2]) \in Nat /\ End(m[1], m[2]) \in Nat
      /\ Start(m[1], m[2]) < End(m[1], m[2])
  BY NodeFacts, Geometry
<1>2. 2 * i \in Nat /\ 2 * i + 1 \in Nat
  OBVIOUS
<1>3. /\ Start(l, i) \in Nat /\ End(l, i) \in Nat
      /\ Start(l + 1, 2 * i) \in Nat /\ End(l + 1, 2 * i) \in Nat
      /\ Start(l + 1, 2 * i + 1) \in Nat /\ End(l + 1, 2 * i + 1) \in Nat
      /\ Start(l + 1, 2 * i) < End(l + 1, 2 * i)
      /\ Start(l + 1, 2 * i + 1) < End(l + 1, 2 * i + 1)
  BY <1>2, Geometry
<1>4. /\ Start(l + 1, 2 * i) = Start(l, i)
      /\ End(l + 1, 2 * i) = Start(l + 1, 2 * i + 1)
      /\ End(l + 1, 2 * i + 1) = End(l, i)
  BY Halves
<1> QED BY <1>1, <1>3, <1>4 DEF Disjoint

\* A step that only moves blocks between the lists, the clients and the
\* running call keeps the partition.
LEMMA SameBlocks ==
  ASSUME NoOverlap, NoLeak, Blocks' = Blocks,
         FreeBlocks' \cap HeldBlocks' = {},
         InHand' \cap (FreeBlocks' \cup HeldBlocks') = {}
  PROVE  NoOverlap' /\ NoLeak'
  BY DEF NoOverlap, NoLeak, total_size, Disjoint, Start, End, level_size

\* A set of levels that is not empty has a greatest member.
LEMMA GreatestLevel ==
  ASSUME NEW T \in SUBSET Levels, T # {}
  PROVE  \E l \in T : \A m \in T : m <= l
<1> DEFINE D == {num_levels - l : l \in T}
<1>1. D \subseteq Nat /\ D # {}
  <2>1. \A l \in Levels : num_levels - l \in Nat
    BY LevelFacts DEF Levels
  <2>2. D \subseteq Nat
    BY <2>1
  <2>3. PICK l \in T : TRUE
    OBVIOUS
  <2>4. num_levels - l \in D
    OBVIOUS
  <2> QED BY <2>2, <2>4
<1>3. PICK x \in D : \A y \in D : x <= y
  BY <1>1, LeastNumber
<1>4. PICK l \in T : x = num_levels - l
  OBVIOUS
<1>5. ASSUME NEW m \in T
      PROVE  m <= l
  <2>1. num_levels - l <= num_levels - m
    BY <1>3, <1>4
  <2> QED BY <2>1, LevelFacts
<1> QED BY <1>5

\* The search of buddy_alloc_fn stops at a level that has a free block.
LEMMA SearchFindsBlock ==
  ASSUME TypeOK, LinksConsistent, NEW s \in Sizes, Candidates(s) # {}
  PROVE  /\ search_level(s) \in Levels
         /\ search_level(s) <= target_level(s)
         /\ free_lists[search_level(s)] \in Nat
         /\ <<search_level(s), free_lists[search_level(s)]>> \in FreeBlocks
<1>1. Candidates(s) \in SUBSET Levels
  BY DEF Candidates
<1>2. \E l \in Candidates(s) : \A m \in Candidates(s) : m <= l
  BY <1>1, GreatestLevel
<1>3. search_level(s) \in Candidates(s)
  BY <1>2 DEF search_level
<1>4. /\ search_level(s) \in Levels
      /\ search_level(s) <= target_level(s)
      /\ free_lists[search_level(s)] # NULL
  BY <1>3 DEF Candidates
<1>5. <<search_level(s), free_lists[search_level(s)]>> \in FreeBlocks
  BY <1>4 DEF LinksConsistent
<1> QED BY <1>4, <1>5, NodeFacts DEF FreeBlocks

\* Setting or clearing the bit of a block puts it among the free blocks or
\* takes it from them.
LEMMA FreeBlocksStep ==
  ASSUME NEW c \in Node
  PROVE  /\ bitset' = set_bit(bitset, c[1], c[2])
              => FreeBlocks' = FreeBlocks \cup {c}
         /\ bitset' = clear_bit(bitset, c[1], c[2])
              => FreeBlocks' = FreeBlocks \ {c}
         /\ bitset' = bitset => FreeBlocks' = FreeBlocks
<1>1. FreeBlocks' = {n \in Node : get_bit(bitset', n[1], n[2])}
  BY DEF FreeBlocks, get_bit, node_index, Node, Levels, num_levels
<1>2. ASSUME bitset' = set_bit(bitset, c[1], c[2])
      PROVE  FreeBlocks' = FreeBlocks \cup {c}
  <2>1. \A n \in Node : get_bit(bitset', n[1], n[2])
                          <=> n = c \/ get_bit(bitset, n[1], n[2])
    BY <1>2, BitFacts
  <2> QED BY <1>1, <2>1 DEF FreeBlocks
<1>3. ASSUME bitset' = clear_bit(bitset, c[1], c[2])
      PROVE  FreeBlocks' = FreeBlocks \ {c}
  <2>1. \A n \in Node : get_bit(bitset', n[1], n[2])
                          <=> n # c /\ get_bit(bitset, n[1], n[2])
    BY <1>3, BitFacts
  <2> QED BY <1>1, <2>1 DEF FreeBlocks
<1> QED BY <1>1, <1>2, <1>3 DEF FreeBlocks

BitsetType == bitset \subseteq {node_index(n[1], n[2]) : n \in Node}

\* Setting or clearing the bit of a block leaves only bits of blocks.
LEMMA BitsetStep ==
  ASSUME BitsetType, NEW c \in Node,
         \/ bitset' = set_bit(bitset, c[1], c[2])
         \/ bitset' = clear_bit(bitset, c[1], c[2])
         \/ bitset' = bitset
  PROVE  BitsetType'
  BY DEF BitsetType, set_bit, clear_bit

\* Entry of buddy_alloc_fn: the head of a list goes to the call.
LEMMA AllocStep ==
  ASSUME IInv, pc = "idle", NEW s \in Sizes, NEW r,
         r = NoBlock \/ r \in HeldBlocks, buddy_alloc(s, r)
  PROVE  IInv'
<1> USE DEF IInv
<1> DEFINE l == search_level(s)  i == free_lists[l]  c == <<l, i>>
<1>1. /\ l \in Levels /\ l <= target_level(s) /\ i \in Nat
      /\ c \in FreeBlocks /\ c \in Node
  BY SearchFindsBlock DEF buddy_alloc, FreeBlocks
<1>2. /\ s # 0 /\ target_level(s) >= 0
      /\ list_remove(l, i)
      /\ bitset' = clear_bit(bitset, l, i)
      /\ unpoisoned' = unpoisoned \cup Header(l, i)
      /\ level' = l /\ index' = i
      /\ pc' = "split" /\ size' = s /\ old' = r /\ live' = live
  BY DEF buddy_alloc
<1> HIDE DEF l, i
<1>3. FreeBlocks' = FreeBlocks \ {c}
  BY <1>1, <1>2, FreeBlocksStep
<1>4. HeldBlocks' = HeldBlocks
  BY <1>2 DEF HeldBlocks
<1>5. InHand = {} /\ InHand' = {c}
  BY <1>2 DEF InHand
<1>6. /\ LinksConsistent'
      /\ free_lists' \in [Levels -> Int]
      /\ \A k \in Levels : free_lists'[k] = NULL \/ <<k, free_lists'[k]>> \in Node
      /\ next' \in [Node -> Int]
      /\ prev' \in [Node -> Int]
  BY <1>1, <1>2, <1>3, RemoveKeepsLinks
<1>7. NoOverlap' /\ NoLeak'
  <2>1. FreeBlocks \cap HeldBlocks = {}
    BY DEF NoOverlap
  <2>2. Blocks' = Blocks
    BY <1>1, <1>3, <1>4, <1>5 DEF Blocks
  <2> QED BY <2>1, <2>2, <1>1, <1>3, <1>4, <1>5, SameBlocks
<1>8. BitsetType'
  BY <1>1, <1>2, BitsetStep DEF TypeOK, BitsetType
<1>9. unpoisoned' \subseteq Int
  BY <1>1, <1>2, ShadowType DEF TypeOK
<1>10. target_level(s) \in Levels
  BY <1>2, TargetLevel
<1>11. TypeOK'
  BY <1>1, <1>2, <1>4, <1>6, <1>8, <1>9, <1>10 DEF TypeOK, BitsetType
<1>12. LevelFromSize'
  BY <1>2, <1>4 DEF LevelFromSize
<1>13. Coalesced'
  BY <1>3 DEF Coalesced
<1> QED BY <1>6, <1>7, <1>11, <1>12, <1>13

\* One iteration of the split loop puts the right half among the free blocks
\* and nothing else.
LEMMA SplitEffect ==
  ASSUME IInv, Split,
         NEW c, c = <<level, index>>,
         NEW L, L = <<level + 1, 2 * index>>,
         NEW R, R = <<level + 1, 2 * index + 1>>
  PROVE  /\ c \in Node /\ level \in Levels /\ level \in Nat /\ index \in Nat
         /\ size \in Sizes /\ target_level(size) \in Levels
         /\ level + 1 \in Levels /\ level + 1 <= target_level(size)
         /\ L \in Node /\ R \in Node /\ 2 * index \in Nat /\ 2 * index + 1 \in Nat
         /\ L \notin FreeBlocks \cup HeldBlocks /\ R \notin FreeBlocks \cup HeldBlocks
         /\ L # R
         /\ FreeBlocks' = FreeBlocks \cup {R}
<1> USE DEF IInv
<1>1. /\ c \in Node /\ level \in Levels /\ level \in Nat /\ index \in Nat
      /\ size \in Sizes /\ target_level(size) \in Levels
      /\ level < target_level(size)
  BY NodeFacts DEF TypeOK, Split
<1>2. level + 1 \in Levels /\ level + 1 <= target_level(size)
  BY <1>1, LevelFacts DEF Levels
<1>3. L \in Node /\ R \in Node /\ 2 * index \in Nat /\ 2 * index + 1 \in Nat
  <2>1. L \in Node /\ R \in Node
    BY <1>1, <1>2, Family
  <2>2. 2 * index \in Nat /\ 2 * index + 1 \in Nat
    BY <1>1
  <2> QED BY <2>1, <2>2
<1>4. /\ pc = "split" /\ pc' = "split"
      /\ level' = level + 1 /\ index' = 2 * index
      /\ unpoisoned' = unpoisoned \cup Header(level + 1, 2 * index + 1)
      /\ list_push(level + 1, 2 * index + 1)
      /\ bitset' = clear_bit(set_bit(bitset, R[1], R[2]), L[1], L[2])
      /\ live' = live /\ size' = size /\ old' = old
  BY DEF Split
<1>5. InHand = {c} /\ InHand' = {L}
  BY <1>4 DEF InHand
<1>6. L \notin FreeBlocks \cup HeldBlocks /\ R \notin FreeBlocks \cup HeldBlocks
  <2>1. L # c /\ R # c
    BY <1>1
  <2>2. ~ Disjoint(L, c) /\ ~ Disjoint(R, c)
    BY <1>1, <1>2, SplitDisjoint
  <2> QED BY <2>1, <2>2, <1>5 DEF NoOverlap, Blocks
<1>7. L # R
  BY <1>3
<1>8. FreeBlocks' = FreeBlocks \cup {R}
  <2>1. FreeBlocks' = {n \in Node : get_bit(bitset', n[1], n[2])}
    BY DEF FreeBlocks, get_bit, node_index, Node, Levels, num_levels
  <2>2. ASSUME NEW n \in Node
        PROVE  get_bit(bitset', n[1], n[2])
                 <=> n # L /\ (n = R \/ get_bit(bitset, n[1], n[2]))
    <3> DEFINE b == set_bit(bitset, R[1], R[2])
    <3>0. L \in Node /\ R \in Node
      BY <1>3
    <3>1. get_bit(b, n[1], n[2]) <=> n = R \/ get_bit(bitset, n[1], n[2])
      BY ONLY <3>0, n \in Node, BitFacts
    <3>2. get_bit(clear_bit(b, L[1], L[2]), n[1], n[2])
            <=> n # L /\ get_bit(b, n[1], n[2])
      <4> HIDE DEF b
      <4> QED BY ONLY <3>0, n \in Node, BitFacts
    <3> QED BY <3>1, <3>2, <1>4
  <2>3. ~ get_bit(bitset, L[1], L[2])
    BY <1>3, <1>6 DEF FreeBlocks
  <2> QED BY <2>1, <2>2, <2>3, <1>3, <1>7 DEF FreeBlocks
<1> QED BY <1>1, <1>2, <1>3, <1>6, <1>7, <1>8

\* One iteration of the split loop: the block in hand becomes its two halves.
LEMMA SplitStep ==
  ASSUME IInv, Split
  PROVE  IInv'
<1> USE DEF IInv
<1> DEFINE c == <<level, index>>
           L == <<level + 1, 2 * index>>
           R == <<level + 1, 2 * index + 1>>
<1>1. c \in Node /\ level \in Levels /\ level \in Nat /\ index \in Nat
  BY SplitEffect
<1>2. level + 1 \in Levels /\ level + 1 <= target_level(size)
  BY SplitEffect
<1>3. L \in Node /\ R \in Node /\ 2 * index \in Nat /\ 2 * index + 1 \in Nat
  BY SplitEffect
<1>4. /\ pc = "split" /\ pc' = "split"
      /\ level' = level + 1 /\ index' = 2 * index
      /\ unpoisoned' = unpoisoned \cup Header(level + 1, 2 * index + 1)
      /\ list_push(level + 1, 2 * index + 1)
      /\ bitset' = clear_bit(set_bit(bitset, R[1], R[2]), L[1], L[2])
      /\ live' = live /\ size' = size /\ old' = old
  BY DEF Split
<1>5. InHand = {c} /\ InHand' = {L}
  BY <1>4 DEF InHand
<1>6. L \notin FreeBlocks \cup HeldBlocks /\ R \notin FreeBlocks \cup HeldBlocks
  BY SplitEffect
<1>7. L # R
  BY SplitEffect
<1>8. FreeBlocks' = FreeBlocks \cup {R}
  BY SplitEffect
<1>9. HeldBlocks' = HeldBlocks
  BY <1>4 DEF HeldBlocks
<1>10. Blocks' = (Blocks \ {c}) \cup {L, R}
  <2>1. c \notin FreeBlocks \cup HeldBlocks
    BY <1>5 DEF NoOverlap
  <2> QED BY <2>1, <1>5, <1>8, <1>9 DEF Blocks
<1>11. Blocks \subseteq Node
  BY <1>1, <1>5 DEF Blocks, FreeBlocks, HeldBlocks
<1>12. NoOverlap'
  <2>1. ASSUME NEW m \in Blocks \ {c}
        PROVE  Disjoint(m, L) /\ Disjoint(m, R)
    <3>1. Disjoint(m, c)
      BY <1>5, <2>1 DEF NoOverlap, Blocks
    <3> QED BY <3>1, <1>1, <1>2, <1>11, SplitDisjoint
  <2>2. Disjoint(L, R)
    BY <1>1, <1>2, SplitDisjoint
  <2>3. \A m, n \in Blocks' : m # n => Disjoint(m, n)
    <3> SUFFICES ASSUME NEW m \in Blocks', NEW n \in Blocks', m # n
                 PROVE  Disjoint(m, n)
      OBVIOUS
    <3>1. m \in Node /\ n \in Node
      BY <1>3, <1>10, <1>11
    <3>2. CASE m \in Blocks \ {c} /\ n \in Blocks \ {c}
      BY <3>2 DEF NoOverlap
    <3> HIDE DEF L, R, c
    <3>3. CASE m \in Blocks \ {c} /\ n \in {L, R}
      BY <3>3, <2>1
    <3>4. CASE m \in {L, R} /\ n \in Blocks \ {c}
      BY <3>1, <3>4, <2>1, DisjointFacts
    <3>5. CASE m \in {L, R} /\ n \in {L, R}
      BY <3>1, <3>5, <2>2, DisjointFacts
    <3> QED BY <3>2, <3>3, <3>4, <3>5, <1>10
  <2>4. FreeBlocks' \cap HeldBlocks' = {}
    BY <1>6, <1>8, <1>9 DEF NoOverlap
  <2>5. InHand' \cap (FreeBlocks' \cup HeldBlocks') = {}
    BY <1>5, <1>6, <1>7, <1>8, <1>9
  <2> QED BY <2>3, <2>4, <2>5 DEF NoOverlap, Disjoint, Start, End, level_size
<1>13. NoLeak'
  <2> SUFFICES ASSUME NEW x \in 0..(total_size - 1)
               PROVE  \E n \in Blocks' : Start(n[1], n[2]) <= x /\ x < End(n[1], n[2])
    BY DEF NoLeak, total_size, Start, End, level_size
  <2>1. PICK n \in Blocks : Start(n[1], n[2]) <= x /\ x < End(n[1], n[2])
    BY DEF NoLeak
  <2>2. CASE n # c
    BY <2>1, <2>2, <1>10
  <2>3. CASE n = c
    <3>1. /\ Start(level + 1, 2 * index) = Start(level, index)
          /\ End(level + 1, 2 * index) = Start(level + 1, 2 * index + 1)
          /\ End(level + 1, 2 * index + 1) = End(level, index)
          /\ End(level + 1, 2 * index) \in Nat
      BY <1>1, <1>2, <1>3, Halves, Geometry
    <3>2. x \in Int
      OBVIOUS
    <3>3. \/ Start(L[1], L[2]) <= x /\ x < End(L[1], L[2])
          \/ Start(R[1], R[2]) <= x /\ x < End(R[1], R[2])
      BY <2>1, <2>3, <3>1, <3>2
    <3> QED BY <3>3, <1>10
  <2> QED BY <2>2, <2>3
<1>14. /\ LinksConsistent'
       /\ free_lists' \in [Levels -> Int]
       /\ \A k \in Levels : free_lists'[k] = NULL \/ <<k, free_lists'[k]>> \in Node
       /\ next' \in [Node -> Int]
       /\ prev' \in [Node -> Int]
  BY <1>2, <1>3, <1>4, <1>6, <1>8, PushKeepsLinks
<1>15. BitsetType'
  BY <1>3, <1>4 DEF TypeOK, BitsetType, set_bit, clear_bit
<1>16. unpoisoned' \subseteq Int
  BY <1>2, <1>3, <1>4, ShadowType DEF TypeOK
<1>17. TypeOK'
  BY <1>2, <1>3, <1>4, <1>9, <1>14, <1>15, <1>16 DEF TypeOK, BitsetType
<1>18. LevelFromSize'
  BY <1>4, <1>9 DEF LevelFromSize
<1>19. Coalesced'
  <2> SUFFICES ASSUME NEW n \in FreeBlocks', n[1] > 0,
                      <<n[1], buddy_idx(n[2])>> \in FreeBlocks'
               PROVE  FALSE
    BY DEF Coalesced
  <2>1. n \in Node /\ n = <<n[1], n[2]>> /\ n[2] \in Nat
    BY <1>3, <1>8, NodeFacts DEF FreeBlocks
  <2>2. buddy_idx(2 * index + 1) = 2 * index
    BY <1>1, BuddyFacts
  <2>3. CASE n = R
    BY <2>2, <2>3, <1>6, <1>7, <1>8
  <2>4. CASE n # R
    <3>1. n \in FreeBlocks
      BY <2>4, <1>8
    <3>2. <<n[1], buddy_idx(n[2])>> = R
      BY <3>1, <1>8 DEF Coalesced
    <3>3. n = L
      BY <3>2, <2>1, <2>2, BuddyFacts
    <3> QED BY <3>1, <3>3, <1>6
  <2> QED BY <2>3, <2>4
<1> QED BY <1>12, <1>13, <1>14, <1>17, <1>18, <1>19

\* Return of buddy_alloc_fn: the block in hand goes to the client.
LEMMA AllocReturnStep ==
  ASSUME IInv, AllocReturn
  PROVE  IInv'
<1> USE DEF IInv
<1> DEFINE c == <<level, index>>
<1>1. /\ c \in Node /\ level \in Levels /\ index \in Nat
      /\ size \in Sizes /\ size # 0 /\ level = target_level(size)
  BY NodeFacts DEF TypeOK, AllocReturn
<1>2. /\ pc = "split" /\ pc' = "idle" /\ old = NoBlock /\ old' = old
      /\ unpoisoned' = unpoisoned \cup Body(level, index)
      /\ live' = [live EXCEPT ![c] = size]
      /\ level' = 0 /\ index' = 0 /\ size' = 0
      /\ free_lists' = free_lists /\ next' = next /\ prev' = prev
      /\ bitset' = bitset
  BY DEF AllocReturn
<1>3. live \in [Node -> Sizes \cup {0}] /\ live' \in [Node -> Sizes \cup {0}]
  BY <1>1, <1>2 DEF TypeOK
<1>4. HeldBlocks' = HeldBlocks \cup {c}
  BY <1>1, <1>2, <1>3 DEF HeldBlocks
<1>5. FreeBlocks' = FreeBlocks
  BY <1>1, <1>2, FreeBlocksStep
<1>6. InHand = {c} /\ InHand' = {}
  BY <1>2 DEF InHand
<1>7. NoOverlap' /\ NoLeak'
  <2>1. Blocks' = Blocks
    BY <1>4, <1>5, <1>6 DEF Blocks
  <2>2. FreeBlocks' \cap HeldBlocks' = {}
    BY <1>4, <1>5, <1>6 DEF NoOverlap
  <2> QED BY <2>1, <2>2, <1>6, SameBlocks
<1>8. LinksConsistent'
  BY <1>2, <1>5 DEF LinksConsistent
<1>9. Coalesced'
  BY <1>5 DEF Coalesced
<1>10. LevelFromSize'
  <2>1. size <= level_size(level)
    BY <1>1, TargetLevel, LevelFacts
  <2> QED BY <2>1, <1>1, <1>2, <1>3, <1>4 DEF LevelFromSize
<1>11. unpoisoned' \subseteq Int
  BY <1>1, <1>2, ShadowType DEF TypeOK
<1>12. TypeOK'
  BY <1>2, <1>3, <1>11, RootNode DEF TypeOK
<1> QED BY <1>7, <1>8, <1>9, <1>10, <1>12

\* The level and the index buddy_free_fn derives are those of the block.
LEMMA FreeFindsBlock ==
  ASSUME LevelFromSize, NEW n \in HeldBlocks
  PROVE  free_level(live[n]) = n[1] /\ free_index(n) = n[2]
<1>1. /\ n \in Node /\ n[1] \in Levels /\ n[2] \in Nat
      /\ n[1] = target_level(live[n])
  BY NodeFacts DEF HeldBlocks, LevelFromSize
<1> QED BY <1>1, Geometry DEF free_level, free_index

\* Entry of buddy_free_fn: the client's block goes to the call.
LEMMA FreeStep ==
  ASSUME IInv, NEW n \in Node, Free(n)
  PROVE  IInv'
<1> USE DEF IInv
<1>1. /\ n = <<n[1], n[2]>> /\ n[1] \in Levels /\ n[2] \in Nat
      /\ n \in HeldBlocks
  BY NodeFacts DEF Free, HeldBlocks
<1>2. /\ pc = "idle" /\ pc' = "merge"
      /\ live' = [live EXCEPT ![n] = 0]
      /\ level' = n[1] /\ index' = n[2]
      /\ unpoisoned' = unpoisoned \ Body(n[1], n[2])
      /\ free_lists' = free_lists /\ next' = next /\ prev' = prev
      /\ bitset' = bitset /\ size' = size /\ old' = old
  BY <1>1, FreeFindsBlock DEF Free, poison
<1>3. live \in [Node -> Sizes \cup {0}] /\ live' \in [Node -> Sizes \cup {0}]
  BY <1>2 DEF TypeOK
<1>4. HeldBlocks' = HeldBlocks \ {n}
  BY <1>2, <1>3 DEF HeldBlocks
<1>5. FreeBlocks' = FreeBlocks
  BY <1>2, FreeBlocksStep
<1>6. InHand = {} /\ InHand' = {n}
  BY <1>1, <1>2 DEF InHand
<1>7. NoOverlap' /\ NoLeak'
  <2>1. Blocks' = Blocks
    BY <1>1, <1>4, <1>5, <1>6 DEF Blocks
  <2>2. FreeBlocks' \cap HeldBlocks' = {}
    BY <1>4, <1>5 DEF NoOverlap
  <2>3. InHand' \cap (FreeBlocks' \cup HeldBlocks') = {}
    BY <1>1, <1>4, <1>5, <1>6 DEF NoOverlap
  <2> QED BY <2>1, <2>2, <2>3, SameBlocks
<1>8. LinksConsistent'
  BY <1>2, <1>5 DEF LinksConsistent
<1>9. Coalesced'
  BY <1>5 DEF Coalesced
<1>10. LevelFromSize'
  BY <1>2, <1>3, <1>4 DEF LevelFromSize, HeldBlocks
<1>11. TypeOK'
  BY <1>1, <1>2, <1>3 DEF TypeOK
<1> QED BY <1>7, <1>8, <1>9, <1>10, <1>11

\* realloc has its new block: that one goes to the client, the old one to
\* the call.
LEMMA ReallocMoveStep ==
  ASSUME IInv, ReallocMove
  PROVE  IInv'
<1> USE DEF IInv
<1> DEFINE c == <<level, index>>
<1>1. /\ c \in Node /\ level \in Levels /\ index \in Nat
      /\ size \in Sizes /\ size # 0 /\ level = target_level(size)
      /\ old \in HeldBlocks /\ old \in Node
  BY NodeFacts DEF TypeOK, ReallocMove, HeldBlocks
<1>2. /\ old = <<old[1], old[2]>> /\ old[1] \in Levels /\ old[2] \in Nat
  BY <1>1, NodeFacts
<1>3. /\ pc = "split" /\ pc' = "merge" /\ old' = NoBlock
      /\ live' = [live EXCEPT ![c] = size, ![old] = 0]
      /\ unpoisoned' = (unpoisoned \cup Body(level, index)) \ Body(old[1], old[2])
      /\ level' = old[1] /\ index' = old[2] /\ size' = 0
      /\ free_lists' = free_lists /\ next' = next /\ prev' = prev
      /\ bitset' = bitset
  BY <1>1, FreeFindsBlock DEF ReallocMove, poison
<1>4. live \in [Node -> Sizes \cup {0}] /\ live' \in [Node -> Sizes \cup {0}]
  BY <1>1, <1>3 DEF TypeOK
<1>5. InHand = {c} /\ InHand' = {old}
  BY <1>2, <1>3 DEF InHand
<1>6. c # old /\ c \notin FreeBlocks /\ old \notin FreeBlocks
  BY <1>1, <1>5 DEF NoOverlap
<1>7. HeldBlocks' = (HeldBlocks \ {old}) \cup {c}
  <2> HIDE DEF c
  <2> QED BY <1>1, <1>3, <1>4, <1>6 DEF HeldBlocks
<1>8. FreeBlocks' = FreeBlocks
  BY <1>1, <1>3, FreeBlocksStep
<1>9. NoOverlap' /\ NoLeak'
  <2>1. Blocks' = Blocks
    BY <1>1, <1>5, <1>7, <1>8 DEF Blocks
  <2>2. FreeBlocks' \cap HeldBlocks' = {}
    BY <1>6, <1>7, <1>8 DEF NoOverlap
  <2>3. InHand' \cap (FreeBlocks' \cup HeldBlocks') = {}
    BY <1>5, <1>6, <1>7, <1>8
  <2> QED BY <2>1, <2>2, <2>3, SameBlocks
<1>10. LinksConsistent'
  BY <1>3, <1>8 DEF LinksConsistent
<1>11. Coalesced'
  BY <1>8 DEF Coalesced
<1>12. LevelFromSize'
  <2>1. size <= level_size(level)
    BY <1>1, TargetLevel, LevelFacts
  <2>2. ASSUME NEW n \in HeldBlocks'
        PROVE  n[1] = target_level(live'[n]) /\ live'[n] <= level_size(n[1])
    <3>1. CASE n = c
      BY <3>1, <2>1, <1>1, <1>3, <1>4, <1>6
    <3>2. CASE n # c
      <4>1. n \in HeldBlocks /\ n # old /\ live'[n] = live[n]
        <5> HIDE DEF c
        <5> QED BY <3>2, <1>3, <1>4, <1>7 DEF HeldBlocks
      <4> QED BY <4>1 DEF LevelFromSize
    <3> QED BY <3>1, <3>2
  <2> QED BY <2>2 DEF LevelFromSize, target_level, level_size, get_order
<1>13. unpoisoned' \subseteq Int
  BY <1>1, <1>3, ShadowType DEF TypeOK
<1>14. TypeOK'
  BY <1>1, <1>2, <1>3, <1>4, <1>13 DEF TypeOK
<1> QED BY <1>9, <1>10, <1>11, <1>12, <1>14

\* One iteration of the merge loop: the block in hand and its free buddy
\* become their parent.
LEMMA MergeStep ==
  ASSUME IInv, Merge
  PROVE  IInv'
<1> USE DEF IInv
<1> DEFINE j == buddy_idx(index)
           p == parent_idx(index)
           c == <<level, index>>
           b == <<level, j>>
<1>1. /\ c \in Node /\ level \in Levels /\ level \in Nat /\ index \in Nat
      /\ level > 0 /\ get_bit(bitset, level, j)
  BY NodeFacts DEF TypeOK, Merge, BuddyFree
<1>a. /\ level - 1 \in Levels /\ b \in Node /\ <<level - 1, p>> \in Node
  BY <1>1, Family
<1>b. PICK k \in Levels : level = k + 1 /\ level - 1 = k
  BY <1>1, <1>a
<1> DEFINE P == <<k, p>>
           L == <<k + 1, 2 * p>>
           R == <<k + 1, 2 * p + 1>>
<1>2. k + 1 \in Levels /\ b \in Node /\ P \in Node
  BY <1>1, <1>a, <1>b
<1>3. /\ p \in Nat /\ j \in Nat
      /\ \/ c = L /\ b = R
         \/ c = R /\ b = L
  <2>1. /\ p \in Nat /\ j \in Nat
        /\ \/ index = 2 * p /\ j = 2 * p + 1
           \/ index = 2 * p + 1 /\ j = 2 * p
    BY <1>1, BuddyFacts
  <2> QED BY <2>1, <1>b
<1>4. b \in FreeBlocks
  BY <1>1, <1>2 DEF FreeBlocks
<1>5. /\ pc = "merge" /\ pc' = "merge"
      /\ list_remove(level, j)
      /\ unpoisoned' = unpoisoned \ Header(level, j)
      /\ bitset' = clear_bit(bitset, level, j)
      /\ level' = k /\ index' = p
      /\ live' = live /\ size' = size /\ old' = old
  BY <1>b DEF Merge
<1>6. InHand = {c} /\ InHand' = {P}
  BY <1>5 DEF InHand
<1> HIDE DEF j, p
<1>7. FreeBlocks' = FreeBlocks \ {b}
  BY <1>2, <1>5, FreeBlocksStep
<1>8. HeldBlocks' = HeldBlocks
  BY <1>5 DEF HeldBlocks
<1>9. /\ c \notin FreeBlocks \cup HeldBlocks
      /\ b \notin HeldBlocks
      /\ P # c /\ P # b
  BY <1>1, <1>b, <1>4, <1>6 DEF NoOverlap
<1>10. Blocks' = (Blocks \ {c, b}) \cup {P}
  BY <1>6, <1>7, <1>8, <1>9 DEF Blocks
<1>11. Blocks \subseteq Node /\ c \in Blocks /\ b \in Blocks
  BY <1>1, <1>4, <1>6 DEF Blocks, FreeBlocks, HeldBlocks
<1>12. ~ Disjoint(c, P) /\ ~ Disjoint(P, c)
  <2>1. ~ Disjoint(L, P) /\ ~ Disjoint(R, P)
    BY <1>2, <1>3, SplitDisjoint
  <2> QED BY <2>1, <1>1, <1>2, <1>3, DisjointFacts
<1>13. P \notin FreeBlocks \cup HeldBlocks
  BY <1>9, <1>11, <1>12 DEF NoOverlap, Blocks
<1>14. NoOverlap'
  <2>1. ASSUME NEW m \in Blocks \ {c, b}
        PROVE  Disjoint(m, P)
    <3>1. Disjoint(m, c) /\ Disjoint(m, b)
      BY <1>11, <2>1 DEF NoOverlap
    <3>2. Disjoint(m, L) /\ Disjoint(m, R)
      BY <3>1, <1>3
    <3> QED BY <3>2, <1>2, <1>3, <1>11, SplitDisjoint
  <2>2. \A m, n \in Blocks' : m # n => Disjoint(m, n)
    <3> SUFFICES ASSUME NEW m \in Blocks', NEW n \in Blocks', m # n
                 PROVE  Disjoint(m, n)
      OBVIOUS
    <3>1. m \in Node /\ n \in Node
      BY <1>2, <1>10, <1>11
    <3> HIDE DEF P, c, b
    <3>2. CASE m \in Blocks \ {c, b} /\ n \in Blocks \ {c, b}
      BY <3>2 DEF NoOverlap
    <3>3. CASE m \in Blocks \ {c, b} /\ n = P
      BY <3>3, <2>1
    <3>4. CASE m = P /\ n \in Blocks \ {c, b}
      BY <3>1, <3>4, <2>1, DisjointFacts
    <3> QED BY <3>2, <3>3, <3>4, <1>10
  <2>3. FreeBlocks' \cap HeldBlocks' = {}
    BY <1>7, <1>8 DEF NoOverlap
  <2>4. InHand' \cap (FreeBlocks' \cup HeldBlocks') = {}
    BY <1>6, <1>7, <1>8, <1>13
  <2> QED BY <2>2, <2>3, <2>4 DEF NoOverlap, Disjoint, Start, End, level_size
<1>15. NoLeak'
  <2> SUFFICES ASSUME NEW x \in 0..(total_size - 1)
               PROVE  \E n \in Blocks' : Start(n[1], n[2]) <= x /\ x < End(n[1], n[2])
    BY DEF NoLeak, total_size, Start, End, level_size
  <2>1. PICK n \in Blocks : Start(n[1], n[2]) <= x /\ x < End(n[1], n[2])
    BY DEF NoLeak
  <2>2. CASE n \notin {c, b}
    BY <2>1, <2>2, <1>10
  <2>3. CASE n \in {c, b}
    <3>1. n = L \/ n = R
      BY <2>3, <1>3
    <3>2. 2 * p \in Nat /\ 2 * p + 1 \in Nat
      BY <1>3
    <3>3. /\ Start(L[1], L[2]) = Start(P[1], P[2])
          /\ End(L[1], L[2]) = Start(R[1], R[2])
          /\ End(R[1], R[2]) = End(P[1], P[2])
      BY <1>2, <1>3, Halves
    <3>4. /\ Start(L[1], L[2]) \in Nat /\ End(L[1], L[2]) \in Nat
          /\ Start(R[1], R[2]) \in Nat /\ End(R[1], R[2]) \in Nat
          /\ Start(L[1], L[2]) < End(L[1], L[2])
          /\ Start(R[1], R[2]) < End(R[1], R[2])
      BY <3>2, <1>1, <1>2, Geometry
    <3>5. x \in Int
      OBVIOUS
    <3>6. Start(P[1], P[2]) <= x /\ x < End(P[1], P[2])
      <4> HIDE DEF L, R, P
      <4> QED BY <2>1, <3>1, <3>3, <3>4, <3>5
    <3> QED BY <3>6, <1>10
  <2> QED BY <2>2, <2>3
<1>16. /\ LinksConsistent'
       /\ free_lists' \in [Levels -> Int]
       /\ \A m \in Levels : free_lists'[m] = NULL \/ <<m, free_lists'[m]>> \in Node
       /\ next' \in [Node -> Int]
       /\ prev' \in [Node -> Int]
  BY <1>1, <1>3, <1>4, <1>5, <1>7, RemoveKeepsLinks
<1>17. BitsetType'
  BY <1>2, <1>5, BitsetStep DEF TypeOK, BitsetType
<1>18. TypeOK'
  BY <1>2, <1>5, <1>8, <1>16, <1>17 DEF TypeOK, BitsetType
<1>19. LevelFromSize'
  BY <1>5, <1>8 DEF LevelFromSize
<1>20. Coalesced'
  BY <1>7 DEF Coalesced
<1> QED BY <1>14, <1>15, <1>16, <1>18, <1>19, <1>20

\* The end of the merge loop: the block in hand goes to its list.
LEMMA FreeReturnStep ==
  ASSUME IInv, FreeReturn
  PROVE  IInv'
<1> USE DEF IInv
<1> DEFINE c == <<level, index>>
<1>1. c \in Node /\ level \in Levels /\ level \in Nat /\ index \in Nat
  BY NodeFacts DEF TypeOK
<1>2. /\ pc = "merge" /\ pc' = "idle"
      /\ bitset' = set_bit(bitset, level, index)
      /\ unpoisoned' = unpoisoned \cup Header(level, index)
      /\ list_push(level, index)
      /\ level' = 0 /\ index' = 0
      /\ live' = live /\ size' = size /\ old' = old
      /\ ~ BuddyFree
  BY DEF FreeReturn
<1>3. FreeBlocks' = FreeBlocks \cup {c}
  BY <1>1, <1>2, FreeBlocksStep
<1>4. HeldBlocks' = HeldBlocks
  BY <1>2 DEF HeldBlocks
<1>5. InHand = {c} /\ InHand' = {}
  BY <1>2 DEF InHand
<1>6. c \notin FreeBlocks \cup HeldBlocks
  BY <1>5 DEF NoOverlap
<1>7. NoOverlap' /\ NoLeak'
  <2>1. Blocks' = Blocks
    BY <1>3, <1>4, <1>5 DEF Blocks
  <2>2. FreeBlocks' \cap HeldBlocks' = {}
    BY <1>3, <1>4, <1>6 DEF NoOverlap
  <2> QED BY <2>1, <2>2, <1>5, SameBlocks
<1>8. /\ LinksConsistent'
      /\ free_lists' \in [Levels -> Int]
      /\ \A k \in Levels : free_lists'[k] = NULL \/ <<k, free_lists'[k]>> \in Node
      /\ next' \in [Node -> Int]
      /\ prev' \in [Node -> Int]
  BY <1>1, <1>2, <1>3, <1>6, PushKeepsLinks
<1>9. BitsetType'
  BY <1>1, <1>2, BitsetStep DEF TypeOK, BitsetType
<1>10. unpoisoned' \subseteq Int
  BY <1>1, <1>2, ShadowType DEF TypeOK
<1>11. TypeOK'
  BY <1>2, <1>4, <1>8, <1>9, <1>10, RootNode DEF TypeOK, BitsetType
<1>12. LevelFromSize'
  BY <1>2, <1>4 DEF LevelFromSize
<1>13. Coalesced'
  <2> SUFFICES ASSUME NEW n \in FreeBlocks', n[1] > 0,
                      <<n[1], buddy_idx(n[2])>> \in FreeBlocks'
               PROVE  FALSE
    BY DEF Coalesced
  <2>1. n \in Node /\ n = <<n[1], n[2]>> /\ n[2] \in Nat
    BY <1>1, <1>3, NodeFacts DEF FreeBlocks
  <2>2. level > 0 => <<level, buddy_idx(index)>> \notin FreeBlocks
    BY <1>2 DEF BuddyFree, FreeBlocks
  <2>3. buddy_idx(n[2]) # n[2] /\ buddy_idx(buddy_idx(n[2])) = n[2]
    <3>1. buddy_idx(n[2]) # n[2]
      BY <2>1 DEF buddy_idx
    <3> QED BY <3>1, <2>1, BuddyFacts
  <2>4. CASE n = c
    BY <2>2, <2>3, <2>4, <1>3
  <2>5. CASE n # c
    <3>1. n \in FreeBlocks
      BY <2>5, <1>3
    <3>2. <<n[1], buddy_idx(n[2])>> = c
      BY <3>1, <1>3 DEF Coalesced
    <3> QED BY <3>1, <3>2, <2>1, <2>2, <2>3
  <2> QED BY <2>4, <2>5
<1> QED BY <1>7, <1>8, <1>11, <1>12, <1>13

-----------------------------------------------------------------------------
(* What the other steps do to the division of the memory *)

\* Entry of buddy_alloc_fn: a free block goes to the call.
LEMMA AllocEffect ==
  ASSUME IInv, pc = "idle", NEW s \in Sizes, NEW r, buddy_alloc(s, r)
  PROVE  \E c \in FreeBlocks :
           /\ c \in Node /\ c[1] \in Levels /\ c[2] \in Nat /\ c = <<c[1], c[2]>>
           /\ list_remove(c[1], c[2])
           /\ FreeBlocks' = FreeBlocks \ {c}
           /\ HeldBlocks' = HeldBlocks
           /\ unpoisoned' = unpoisoned \cup Header(c[1], c[2])
           /\ pc' = "split" /\ level' = c[1] /\ index' = c[2] /\ live' = live
<1> DEFINE l == search_level(s)  i == free_lists[l]  c == <<l, i>>
<1>1. /\ l \in Levels /\ i \in Nat /\ c \in FreeBlocks /\ c \in Node
  BY SearchFindsBlock DEF buddy_alloc, FreeBlocks, IInv
<1>2. /\ list_remove(l, i)
      /\ bitset' = clear_bit(bitset, l, i)
      /\ unpoisoned' = unpoisoned \cup Header(l, i)
      /\ level' = l /\ index' = i /\ pc' = "split" /\ live' = live
  BY DEF buddy_alloc
<1> HIDE DEF l, i
<1>3. FreeBlocks' = FreeBlocks \ {c}
  BY <1>1, <1>2, FreeBlocksStep
<1>4. HeldBlocks' = HeldBlocks
  BY <1>2 DEF HeldBlocks
<1> QED BY <1>1, <1>2, <1>3, <1>4

\* An iteration of the merge loop: the free buddy is swallowed.
LEMMA MergeEffect ==
  ASSUME IInv, Merge, NEW b, b = <<level, buddy_idx(index)>>
  PROVE  /\ b \in FreeBlocks /\ b \in Node /\ b[1] \in Levels /\ b[2] \in Nat
         /\ list_remove(b[1], b[2])
         /\ FreeBlocks' = FreeBlocks \ {b}
         /\ HeldBlocks' = HeldBlocks
         /\ unpoisoned' = unpoisoned \ Header(b[1], b[2])
<1>1. /\ <<level, index>> \in Node /\ level \in Levels /\ index \in Nat
      /\ level > 0 /\ get_bit(bitset, level, buddy_idx(index))
  BY NodeFacts DEF IInv, TypeOK, Merge, BuddyFree
<1>2. b \in Node
  BY <1>1, Family
<1>3. /\ list_remove(b[1], b[2])
      /\ bitset' = clear_bit(bitset, b[1], b[2])
      /\ unpoisoned' = unpoisoned \ Header(b[1], b[2])
      /\ live' = live
  BY DEF Merge
<1>4. b \in FreeBlocks
  BY <1>1, <1>2 DEF FreeBlocks
<1>5. FreeBlocks' = FreeBlocks \ {b}
  BY <1>2, <1>3, FreeBlocksStep
<1>6. HeldBlocks' = HeldBlocks
  BY <1>3 DEF HeldBlocks
<1>7. b[1] \in Levels /\ b[2] \in Nat
  BY <1>2, NodeFacts
<1> QED BY <1>2, <1>3, <1>4, <1>5, <1>6, <1>7

\* The end of the merge loop: the block in hand becomes free.
LEMMA FreeReturnEffect ==
  ASSUME IInv, FreeReturn, NEW c, c = <<level, index>>
  PROVE  /\ c \in Node \ FreeBlocks /\ c[1] \in Levels /\ c[2] \in Nat
         /\ list_push(c[1], c[2])
         /\ FreeBlocks' = FreeBlocks \cup {c}
         /\ HeldBlocks' = HeldBlocks
         /\ unpoisoned' = unpoisoned \cup Header(c[1], c[2])
<1>1. /\ c \in Node /\ c[1] \in Levels /\ c[2] \in Nat
  BY NodeFacts DEF IInv, TypeOK
<1>2. /\ list_push(c[1], c[2])
      /\ bitset' = set_bit(bitset, c[1], c[2])
      /\ unpoisoned' = unpoisoned \cup Header(c[1], c[2])
      /\ live' = live /\ pc = "merge"
  BY DEF FreeReturn
<1>3. c \notin FreeBlocks
  BY <1>2 DEF IInv, NoOverlap, InHand
<1>4. FreeBlocks' = FreeBlocks \cup {c}
  BY <1>1, <1>2, FreeBlocksStep
<1>5. HeldBlocks' = HeldBlocks
  BY <1>2 DEF HeldBlocks
<1> QED BY <1>1, <1>2, <1>3, <1>4, <1>5

\* The return of buddy_alloc_fn: the block in hand is the client's.
LEMMA AllocReturnEffect ==
  ASSUME IInv, AllocReturn, NEW c, c = <<level, index>>
  PROVE  /\ c \in Node \ HeldBlocks /\ size \in Sizes \ {0} /\ live[c] = 0
         /\ c[1] = target_level(size) /\ c[1] \in Levels
         /\ live' = [live EXCEPT ![c] = size]
         /\ HeldBlocks' = HeldBlocks \cup {c}
         /\ FreeBlocks' = FreeBlocks
         /\ unpoisoned' = unpoisoned \cup Body(c[1], c[2])
<1>1. /\ c \in Node /\ size \in Sizes \ {0} /\ c[1] = target_level(size)
      /\ live \in [Node -> Sizes \cup {0}] /\ c[1] \in Levels
  BY NodeFacts DEF IInv, TypeOK, AllocReturn
<1>2. /\ unpoisoned' = unpoisoned \cup Body(c[1], c[2])
      /\ live' = [live EXCEPT ![c] = size] /\ pc = "split" /\ bitset' = bitset
  BY DEF AllocReturn
<1>3. c \notin HeldBlocks
  BY <1>2 DEF IInv, NoOverlap, InHand
<1>4. HeldBlocks' = HeldBlocks \cup {c}
  BY <1>1, <1>2 DEF HeldBlocks
<1>5. FreeBlocks' = FreeBlocks
  BY <1>1, <1>2, FreeBlocksStep
<1>6. live[c] = 0
  BY <1>1, <1>3 DEF HeldBlocks
<1> QED BY <1>1, <1>2, <1>3, <1>4, <1>5, <1>6

\* Entry of buddy_free_fn: the client gives its block up.
LEMMA FreeEffect ==
  ASSUME IInv, NEW n \in Node, Free(n)
  PROVE  /\ n \in HeldBlocks
         /\ live' = [live EXCEPT ![n] = 0]
         /\ HeldBlocks' = HeldBlocks \ {n}
         /\ FreeBlocks' = FreeBlocks
         /\ unpoisoned' = unpoisoned \ Body(n[1], n[2])
<1>1. n \in HeldBlocks
  BY DEF Free, HeldBlocks
<1>2. /\ live' = [live EXCEPT ![n] = 0] /\ bitset' = bitset
      /\ unpoisoned' = unpoisoned \ Body(n[1], n[2])
      /\ live \in [Node -> Sizes \cup {0}]
  BY <1>1, FreeFindsBlock DEF Free, poison, IInv, TypeOK
<1>3. HeldBlocks' = HeldBlocks \ {n}
  BY <1>2 DEF HeldBlocks
<1>4. FreeBlocks' = FreeBlocks
  BY <1>2, FreeBlocksStep
<1> QED BY <1>1, <1>2, <1>3, <1>4

\* realloc exchanges the block in hand for the client's old one.
LEMMA ReallocMoveEffect ==
  ASSUME IInv, ReallocMove, NEW c, c = <<level, index>>, NEW o, o = old
  PROVE  /\ c \in Node \ HeldBlocks /\ size \in Sizes \ {0} /\ live[c] = 0
         /\ c[1] = target_level(size) /\ c[1] \in Levels
         /\ o \in HeldBlocks /\ o \in Node /\ c # o
         /\ live' = [live EXCEPT ![c] = size, ![o] = 0]
         /\ HeldBlocks' = (HeldBlocks \ {o}) \cup {c}
         /\ FreeBlocks' = FreeBlocks
         /\ unpoisoned' = (unpoisoned \cup Body(c[1], c[2])) \ Body(o[1], o[2])
<1>1. /\ c \in Node /\ size \in Sizes \ {0} /\ c[1] = target_level(size)
      /\ live \in [Node -> Sizes \cup {0}] /\ c[1] \in Levels
      /\ o \in HeldBlocks /\ o \in Node
  BY NodeFacts DEF IInv, TypeOK, ReallocMove, HeldBlocks
<1>2. /\ unpoisoned' = (unpoisoned \cup Body(c[1], c[2])) \ Body(o[1], o[2])
      /\ live' = [live EXCEPT ![c] = size, ![o] = 0]
      /\ pc = "split" /\ bitset' = bitset
  BY <1>1, FreeFindsBlock DEF ReallocMove, poison, IInv
<1>3. c \notin HeldBlocks /\ c # o
  BY <1>1, <1>2 DEF IInv, NoOverlap, InHand
<1>4. HeldBlocks' = (HeldBlocks \ {o}) \cup {c}
  BY <1>1, <1>2, <1>3 DEF HeldBlocks
<1>5. FreeBlocks' = FreeBlocks
  BY <1>1, <1>2, FreeBlocksStep
<1>6. live[c] = 0
  BY <1>1, <1>3 DEF HeldBlocks
<1> QED BY <1>1, <1>2, <1>3, <1>4, <1>5, <1>6

-----------------------------------------------------------------------------
(* The lists hold exactly what the bitset says *)

(***************************************************************************)
(* LinksConsistent alone allows a ring beside the list.  That there is     *)
(* none is a second invariant, inductive in the presence of the first.     *)
(***************************************************************************)
Chains == \A l \in Levels : Chain(free_lists[l], list_links(l), FreeAt(l))

\* FreeAt and FreeBlocks are two views of the bitset, before and after a step.
LEMMA FreeAtFacts ==
  ASSUME NEW l \in Levels
  PROVE  /\ \A i : i \in FreeAt(l) <=> <<l, i>> \in FreeBlocks
         /\ \A i : i \in FreeAt(l)' <=> <<l, i>> \in FreeBlocks'
         /\ \A i \in 0..(Pow2(l) - 1) : /\ list_links(l)[i] = next[<<l, i>>]
                                        /\ list_links(l)'[i] = next'[<<l, i>>]
         /\ FreeAt(l) \subseteq 0..(Pow2(l) - 1)
         /\ FreeAt(l)' \subseteq 0..(Pow2(l) - 1)
         /\ NULL \notin FreeAt(l)
<1>1. Pow2(l) \in Nat
  BY PowFacts, LevelFacts
<1>2. \A i : i \in 0..(Pow2(l) - 1) <=> <<l, i>> \in Node
  <2> SUFFICES ASSUME NEW i
               PROVE  i \in 0..(Pow2(l) - 1) <=> <<l, i>> \in Node
    OBVIOUS
  <2>1. ASSUME i \in 0..(Pow2(l) - 1) PROVE <<l, i>> \in Node
    BY <1>1, <2>1, NodeIntro
  <2>2. ASSUME <<l, i>> \in Node PROVE i \in 0..(Pow2(l) - 1)
    BY <1>1, <2>2, NodeFacts
  <2> QED BY <2>1, <2>2
<1>3. \A i : i \in FreeAt(l) <=> <<l, i>> \in FreeBlocks
  BY <1>2 DEF FreeAt, FreeBlocks
<1>4. FreeAt(l)' = {i \in 0..(Pow2(l) - 1) : get_bit(bitset', l, i)}
  BY DEF FreeAt, get_bit, node_index
<1>5. FreeBlocks' = {n \in Node : get_bit(bitset', n[1], n[2])}
  BY DEF FreeBlocks, get_bit, node_index, Node, Levels, num_levels
<1>6. \A i : i \in FreeAt(l)' <=> <<l, i>> \in FreeBlocks'
  BY <1>2, <1>4, <1>5
<1>7. \A i \in 0..(Pow2(l) - 1) : /\ list_links(l)[i] = next[<<l, i>>]
                                  /\ list_links(l)'[i] = next'[<<l, i>>]
  BY DEF list_links
<1>8. FreeAt(l) \subseteq 0..(Pow2(l) - 1) /\ FreeAt(l)' \subseteq 0..(Pow2(l) - 1)
  BY <1>4 DEF FreeAt
<1>9. NULL \notin FreeAt(l)
  BY <1>1 DEF FreeAt, NULL
<1> QED BY <1>3, <1>6, <1>7, <1>8, <1>9

\* The lists of a level that a step leaves alone.
LEMMA OtherLevels ==
  ASSUME NEW k \in Levels,
         Chain(free_lists[k], list_links(k), FreeAt(k)),
         free_lists'[k] = free_lists[k], FreeAt(k)' = FreeAt(k),
         \A i \in 0..(Pow2(k) - 1) : next'[<<k, i>>] = next[<<k, i>>]
  PROVE  Chain(free_lists'[k], list_links(k)', FreeAt(k)')
<1> DEFINE link2 == list_links(k)'
<1>1. \A x \in FreeAt(k) : link2[x] = list_links(k)[x]
  BY FreeAtFacts
<1> HIDE DEF link2
<1>2. Chain(free_lists[k], link2, FreeAt(k))
  BY <1>1, ChainFrame
<1> QED BY <1>2 DEF link2

\* Pushing a block that is not listed keeps the lists complete.
LEMMA PushKeepsChains ==
  ASSUME TypeOK, Chains,
         NEW l \in Levels, NEW i \in Nat,
         <<l, i>> \in Node \ FreeBlocks,
         list_push(l, i),
         FreeBlocks' = FreeBlocks \cup {<<l, i>>}
  PROVE  Chains'
<1>1. /\ free_lists \in [Levels -> Int] /\ next \in [Node -> Int]
      /\ next' = [next EXCEPT ![<<l, i>>] = free_lists[l]]
      /\ free_lists' = [free_lists EXCEPT ![l] = i]
  BY DEF TypeOK, list_push
<1>2. ASSUME NEW k \in Levels, k # l
      PROVE  Chain(free_lists'[k], list_links(k)', FreeAt(k)')
  <2>1. free_lists'[k] = free_lists[k]
    BY <1>1, <1>2
  <2>2. \A x : x \in FreeAt(k)' <=> x \in FreeAt(k)
    BY <1>2, FreeAtFacts
  <2>3. FreeAt(k)' = FreeAt(k)
    BY <2>2 DEF FreeAt
  <2>4. \A x \in 0..(Pow2(k) - 1) : <<k, x>> \in Node
    BY NodeIntro, PowFacts, LevelFacts
  <2>5. \A x \in 0..(Pow2(k) - 1) : next'[<<k, x>>] = next[<<k, x>>]
    BY <2>4, <1>1, <1>2
  <2> QED BY <2>1, <2>3, <2>5, OtherLevels DEF Chains
<1>3. Chain(free_lists'[l], list_links(l)', FreeAt(l)')
  <2> DEFINE link2 == list_links(l)'
  <2>1. i \in 0..(Pow2(l) - 1)
    BY NodeFacts, PowFacts, LevelFacts
  <2>2. free_lists'[l] = i /\ link2[i] = free_lists[l] /\ i # NULL
    BY <2>1, <1>1, FreeAtFacts DEF NULL
  <2>3. i \notin FreeAt(l)
    BY FreeAtFacts
  <2>4. \A x \in FreeAt(l) : link2[x] = list_links(l)[x]
    <3> SUFFICES ASSUME NEW x \in FreeAt(l) PROVE link2[x] = list_links(l)[x]
      OBVIOUS
    <3>1. x \in 0..(Pow2(l) - 1) /\ <<l, x>> \in FreeBlocks
      BY FreeAtFacts
    <3>2. <<l, x>> \in Node /\ <<l, x>> # <<l, i>>
      BY <3>1 DEF FreeBlocks
    <3>3. next'[<<l, x>>] = next[<<l, x>>]
      BY <3>2, <1>1
    <3> QED BY <3>1, <3>3, FreeAtFacts
  <2>5. FreeAt(l)' = FreeAt(l) \cup {i}
    <3>1. \A x : x \in FreeAt(l)' <=> x \in FreeAt(l) \/ x = i
      BY FreeAtFacts
    <3> HIDE DEF FreeAt
    <3> QED BY <3>1
  <2>6. Chain(free_lists[l], list_links(l), FreeAt(l))
    BY DEF Chains
  <2> HIDE DEF link2
  <2>7. Chain(i, link2, FreeAt(l) \cup {i})
    BY <2>2, <2>3, <2>4, <2>6, ChainPush
  <2> QED BY <2>2, <2>5, <2>7 DEF link2
<1>4. \A k \in Levels : Chain(free_lists'[k], list_links(k)', FreeAt(k)')
  BY <1>2, <1>3
<1> QED BY <1>4 DEF Chains, Levels, num_levels

\* Unlinking a listed block, wherever it is, keeps the lists complete.
LEMMA RemoveKeepsChains ==
  ASSUME TypeOK, LinksConsistent, Chains,
         NEW l \in Levels, NEW i \in Nat,
         <<l, i>> \in FreeBlocks,
         list_remove(l, i),
         FreeBlocks' = FreeBlocks \ {<<l, i>>}
  PROVE  Chains'
<1> DEFINE b == <<l, i>>  p == prev[b]  q == next[b]
<1>1. /\ free_lists \in [Levels -> Int]
      /\ next' = [n \in Node |-> IF n = b THEN NULL
                                 ELSE IF n = <<l, p>> THEN q ELSE next[n]]
      /\ free_lists' = IF p = NULL THEN [free_lists EXCEPT ![l] = q]
                                   ELSE free_lists
  BY DEF TypeOK, list_remove
<1> HIDE DEF p, q
<1>2. ASSUME NEW k \in Levels, k # l
      PROVE  Chain(free_lists'[k], list_links(k)', FreeAt(k)')
  <2>1. free_lists'[k] = free_lists[k]
    BY <1>1, <1>2
  <2>2. \A x : x \in FreeAt(k)' <=> x \in FreeAt(k)
    BY <1>2, FreeAtFacts
  <2>3. FreeAt(k)' = FreeAt(k)
    BY <2>2 DEF FreeAt
  <2>4. \A x \in 0..(Pow2(k) - 1) : <<k, x>> \in Node
    BY NodeIntro, PowFacts, LevelFacts
  <2>5. \A x \in 0..(Pow2(k) - 1) : next'[<<k, x>>] = next[<<k, x>>]
    BY <2>4, <1>1, <1>2
  <2> QED BY <2>1, <2>3, <2>5, OtherLevels DEF Chains
<1>3. Chain(free_lists'[l], list_links(l)', FreeAt(l)')
  <2> DEFINE link == list_links(l)
             link2 == list_links(l)'
             head2 == free_lists'[l]
  <2>1. b \in Node /\ i \in FreeAt(l) /\ i \in 0..(Pow2(l) - 1) /\ i # NULL
    BY FreeAtFacts DEF FreeBlocks, NULL
  <2>2. /\ p # NULL => <<l, p>> \in FreeBlocks /\ next[<<l, p>>] = i
        /\ p = NULL => free_lists[l] = i
        /\ free_lists[l] = i => p = NULL
    BY <2>1 DEF LinksConsistent, p
  <2>3. link[i] = q
    BY <2>1, FreeAtFacts DEF q
  <2>4. head2 = IF free_lists[l] = i THEN link[i] ELSE free_lists[l]
    BY <2>2, <2>3, <1>1
  <2>5. ASSUME NEW x \in FreeAt(l) \ {i}
        PROVE  link2[x] = IF link[x] = i THEN link[i] ELSE link[x]
    <3>1. /\ x \in 0..(Pow2(l) - 1) /\ <<l, x>> \in FreeBlocks
          /\ <<l, x>> \in Node /\ x # NULL
      BY FreeAtFacts DEF FreeBlocks
    <3>2. link[x] = next[<<l, x>>] /\ link2[x] = next'[<<l, x>>]
      BY <3>1, FreeAtFacts
    <3>3. next[<<l, x>>] = i <=> p = x
      <4>1. ASSUME next[<<l, x>>] = i PROVE p = x
        BY <4>1, <3>1, <2>1 DEF LinksConsistent, p
      <4>2. ASSUME p = x PROVE next[<<l, x>>] = i
        BY <4>2, <3>1, <2>2
      <4> QED BY <4>1, <4>2
    <3>4. next'[<<l, x>>] = IF x = p THEN q ELSE next[<<l, x>>]
      BY <3>1, <1>1
    <3> QED BY <3>2, <3>3, <3>4, <2>3
  <2>6. FreeAt(l)' = FreeAt(l) \ {i}
    <3>1. \A x : x \in FreeAt(l)' <=> x \in FreeAt(l) /\ x # i
      BY FreeAtFacts
    <3> HIDE DEF FreeAt
    <3> QED BY <3>1
  <2>7. Chain(free_lists[l], link, FreeAt(l)) /\ NULL \notin FreeAt(l)
    BY FreeAtFacts DEF Chains
  <2> HIDE DEF link, link2, head2
  <2>8. Chain(head2, link2, FreeAt(l) \ {i})
    BY ONLY <2>1, <2>4, <2>5, <2>7, ChainRemove
  <2> QED BY <2>6, <2>8 DEF link2, head2
<1>4. \A k \in Levels : Chain(free_lists'[k], list_links(k)', FreeAt(k)')
  BY <1>2, <1>3
<1> QED BY <1>4 DEF Chains, Levels, num_levels

\* Lists and bits that a step leaves alone.
LEMMA SameChains ==
  ASSUME Chains, free_lists' = free_lists, next' = next, bitset' = bitset
  PROVE  Chains'
  BY DEF Chains, list_links, FreeAt, get_bit, node_index, Levels, num_levels

-----------------------------------------------------------------------------
(* The theorems *)

\* make_buddy_allocator leaves the whole buffer as one free block.
LEMMA InitInv == Init => IInv
<1> SUFFICES ASSUME Init PROVE IInv
  OBVIOUS
<1>1. bitset = set_bit({}, 0, 0) /\ <<0, 0>> \in Node
  BY RootNode DEF Init
<1>2. FreeBlocks = {<<0, 0>>}
  <2>1. \A n \in Node : get_bit(bitset, n[1], n[2]) <=> n = <<0, 0>>
    <3> SUFFICES ASSUME NEW n \in Node
                 PROVE  get_bit(bitset, n[1], n[2]) <=> n = <<0, 0>>
      OBVIOUS
    <3>1. ~ get_bit({}, n[1], n[2])
      BY DEF get_bit
    <3> QED BY <3>1, <1>1, BitFacts
  <2> QED BY <2>1, <1>1 DEF FreeBlocks
<1>3. HeldBlocks = {} /\ InHand = {}
  BY DEF Init, HeldBlocks, InHand
<1>4. NoOverlap
  BY <1>2, <1>3 DEF NoOverlap, Blocks
<1>5. NoLeak
  <2>1. /\ level_size(0) = total_size /\ total_size \in Nat
        /\ Start(0, 0) = 0 /\ End(0, 0) = total_size
    BY LevelFacts, PowFacts DEF level_size, total_size, Start, End
  <2>2. <<0, 0>> \in Blocks
    BY <1>2 DEF Blocks
  <2>3. ASSUME NEW x \in 0..(total_size - 1)
        PROVE  Start(0, 0) <= x /\ x < End(0, 0)
    BY <2>1
  <2> QED BY <2>2, <2>3 DEF NoLeak
<1>6. LevelFromSize
  BY <1>3 DEF LevelFromSize
<1>7. LinksConsistent
  <2>1. /\ free_lists = [l \in Levels |-> IF l = 0 THEN 0 ELSE NULL]
        /\ next = [n \in Node |-> NULL] /\ prev = [n \in Node |-> NULL]
    BY DEF Init
  <2>2. \A l \in Levels : free_lists[l] # NULL => l = 0 /\ free_lists[l] = 0
    BY <2>1
  <2>3. free_lists[0] = 0 /\ \A n \in Node : next[n] = NULL /\ prev[n] = NULL
    BY <2>1, LevelFacts
  <2> QED BY <2>2, <2>3, <1>1, <1>2 DEF LinksConsistent
<1>8. Coalesced
  BY <1>2 DEF Coalesced
<1>9. BitsetType
  BY <1>1 DEF BitsetType, set_bit
<1>10. unpoisoned \subseteq Int
  BY ShadowType, LevelFacts DEF Init
<1>11. TypeOK
  BY <1>1, <1>9, <1>10, LevelFacts DEF Init, TypeOK, BitsetType, NULL, NoBlock
<1> QED BY <1>4, <1>5, <1>6, <1>7, <1>8, <1>11 DEF IInv

\* Every step of the allocator keeps the invariant.
LEMMA NextInv == IInv /\ [Next]_vars => IInv'
<1> SUFFICES ASSUME IInv, [Next]_vars PROVE IInv'
  OBVIOUS
<1>1. ASSUME NEW s \in Sizes, Alloc(s) PROVE IInv'
  BY <1>1, AllocStep DEF Alloc
<1>2. ASSUME NEW n \in Node, NEW s \in Sizes, Realloc(n, s) PROVE IInv'
  BY <1>2, AllocStep DEF Realloc, HeldBlocks
<1>3. CASE UNCHANGED vars
  BY <1>3 DEF vars, IInv, TypeOK, BitsetType, NoOverlap, NoLeak, LevelFromSize,
       LinksConsistent, Coalesced, FreeBlocks, HeldBlocks, InHand, Blocks,
       Disjoint, get_bit
<1>4. ASSUME NEW s \in Sizes, AllocNull(s) PROVE IInv'
  BY <1>3, <1>4 DEF AllocNull
<1> QED
  BY <1>1, <1>2, <1>3, <1>4, FreeStep, SplitStep, AllocReturnStep,
     ReallocMoveStep, MergeStep, FreeReturnStep
  DEF Next, Client, Running

\* The inductive invariant holds in every reachable state.
THEOREM Invariance == Spec => []IInv
  BY InitInv, NextInv, PTL DEF Spec

\* The locals of buddy_alloc_fn, buddy_free_fn and buddy_realloc_fn always
\* name blocks of the tree, whatever the buffer and the requests.
THEOREM TypeCorrect == Spec => []TypeOK
<1>1. IInv => TypeOK
  BY DEF IInv
<1> QED BY <1>1, Invariance, PTL

\* No byte is ever in two blocks: not in two clients' blocks, not in a
\* client's and a free one, not in one that a call is splitting or merging.
THEOREM NoByteShared == Spec => []NoOverlap
<1>1. IInv => NoOverlap
  BY DEF IInv
<1> QED BY <1>1, Invariance, PTL

\* No byte of the buffer is ever lost by splitting and merging.
THEOREM NoByteLost == Spec => []NoLeak
<1>1. IInv => NoLeak
  BY DEF IInv
<1> QED BY <1>1, Invariance, PTL

\* The doubly linked free lists and the bitset stay consistent.
THEOREM ListsSound == Spec => []LinksConsistent
<1>1. IInv => LinksConsistent
  BY DEF IInv
<1> QED BY <1>1, Invariance, PTL

\* A size leads buddy_free_fn back to the block that was handed out for it.
THEOREM SizeFindsBlock == Spec => []LevelFromSize
<1>1. IInv => LevelFromSize
  BY DEF IInv
<1> QED BY <1>1, Invariance, PTL

\* Two buddies are never both free.
THEOREM EagerMerging == Spec => []Coalesced
<1>1. IInv => Coalesced
  BY DEF IInv
<1> QED BY <1>1, Invariance, PTL

\* Every step keeps the lists complete.
LEMMA ChainsStep ==
  ASSUME IInv, Chains, [Next]_vars
  PROVE  Chains'
<1> USE DEF IInv
<1>1. ASSUME NEW s \in Sizes, NEW r, pc = "idle", buddy_alloc(s, r) PROVE Chains'
  <2>1. PICK c \in FreeBlocks :
          /\ c \in Node /\ c[1] \in Levels /\ c[2] \in Nat /\ c = <<c[1], c[2]>>
          /\ list_remove(c[1], c[2]) /\ FreeBlocks' = FreeBlocks \ {c}
    BY <1>1, AllocEffect
  <2> QED BY <2>1, RemoveKeepsChains
<1>2. ASSUME Split PROVE Chains'
  <2> DEFINE l == level + 1  i == 2 * index + 1
  <2>1. /\ l \in Levels /\ i \in Nat /\ <<l, i>> \in Node \ FreeBlocks
        /\ FreeBlocks' = FreeBlocks \cup {<<l, i>>}
    BY <1>2, SplitEffect
  <2>2. list_push(l, i)
    BY <1>2 DEF Split
  <2> HIDE DEF l, i
  <2> QED BY <2>1, <2>2, PushKeepsChains
<1>3. ASSUME Merge PROVE Chains'
  <2> DEFINE b == <<level, buddy_idx(index)>>
  <2>1. /\ b \in FreeBlocks /\ level \in Levels /\ buddy_idx(index) \in Nat
        /\ list_remove(level, buddy_idx(index)) /\ FreeBlocks' = FreeBlocks \ {b}
    BY <1>3, MergeEffect
  <2> QED BY <2>1, RemoveKeepsChains
<1>4. ASSUME FreeReturn PROVE Chains'
  <2>1. /\ <<level, index>> \in Node \ FreeBlocks /\ level \in Levels /\ index \in Nat
        /\ list_push(level, index)
        /\ FreeBlocks' = FreeBlocks \cup {<<level, index>>}
    BY <1>4, FreeReturnEffect
  <2> QED BY <2>1, PushKeepsChains
<1>5. ASSUME \/ UNCHANGED vars
             \/ \E n \in Node : Free(n)
             \/ AllocReturn
             \/ ReallocMove
             \/ \E s \in Sizes : AllocNull(s)
      PROVE  Chains'
  <2>1. free_lists' = free_lists /\ next' = next /\ bitset' = bitset
    BY <1>5 DEF vars, Free, AllocReturn, ReallocMove, AllocNull
  <2> QED BY <2>1, SameChains
<1>6. ASSUME NEW s \in Sizes, Alloc(s) PROVE Chains'
  BY <1>1, <1>6 DEF Alloc
<1>7. ASSUME NEW n \in Node, NEW s \in Sizes, Realloc(n, s) PROVE Chains'
  BY <1>1, <1>7 DEF Realloc
<1> QED BY <1>2, <1>3, <1>4, <1>5, <1>6, <1>7 DEF Next, Client, Running

\* make_buddy_allocator leaves the root alone on the list of its level.
LEMMA InitChains == Init => Chains
<1> SUFFICES ASSUME Init, NEW l \in Levels
             PROVE  Chain(free_lists[l], list_links(l), FreeAt(l))
  BY DEF Chains
<1>1. free_lists[l] = IF l = 0 THEN 0 ELSE NULL
  BY DEF Init
<1>2. \A n \in Node : n \in FreeBlocks <=> n = <<0, 0>>
  <2> SUFFICES ASSUME NEW n \in Node
               PROVE  get_bit(bitset, n[1], n[2]) <=> n = <<0, 0>>
    BY DEF FreeBlocks
  <2>1. ~ get_bit({}, n[1], n[2])
    BY DEF get_bit
  <2>2. bitset = set_bit({}, 0, 0) /\ <<0, 0>> \in Node
    BY RootNode DEF Init
  <2> QED BY <2>1, <2>2, BitFacts
<1>3. \A x : x \in FreeAt(l) <=> l = 0 /\ x = 0
  <2>1. \A x : x \in FreeAt(l) <=> <<l, x>> \in FreeBlocks
    BY FreeAtFacts
  <2>2. \A x : <<l, x>> \in FreeBlocks <=> <<l, x>> = <<0, 0>>
    BY <1>2, RootNode DEF FreeBlocks
  <2> QED BY <2>1, <2>2
<1>4. CASE l # 0
  <2>1. \A x : x \notin FreeAt(l)
    BY <1>3, <1>4
  <2>2. FreeAt(l) = {}
    BY <2>1
  <2> QED BY <2>2, <1>1, <1>4, ChainEmpty
<1>5. CASE l = 0
  <2>1. \A x : x \in FreeAt(l) <=> x = 0
    BY <1>3, <1>5
  <2>2. FreeAt(l) = {} \cup {0} /\ 0 # NULL
    BY <2>1 DEF NULL
  <2>3. list_links(l)[0] = NULL
    <3>1. 0 \in 0..(Pow2(l) - 1)
      BY <2>1, FreeAtFacts
    <3> QED BY <3>1, <1>5, FreeAtFacts, RootNode DEF Init
  <2>4. Chain(NULL, list_links(l), {})
    BY ChainEmpty
  <2> DEFINE link == list_links(l)
  <2> HIDE DEF link
  <2>5. Chain(0, link, {} \cup {0})
    BY <2>2, <2>3, <2>4, ChainPush DEF link
  <2> QED BY <2>2, <2>5, <1>1, <1>5 DEF link
<1> QED BY <1>4, <1>5

\* Both invariants hold in every reachable state.
LEMMA ChainsInvariance == Spec => [](IInv /\ Chains)
<1>1. IInv /\ Chains /\ [Next]_vars => Chains'
  BY ChainsStep
<1> QED BY <1>1, InitInv, NextInv, InitChains, PTL DEF Spec

(***************************************************************************)
(* The two records of what is free never disagree: walking the list of a   *)
(* level from its head ends, and meets each block whose bit is set and no  *)
(* other, also inside the loops of buddy_alloc_fn and buddy_free_fn.       *)
(***************************************************************************)
THEOREM ListsAreTheBitset == Spec => []ListsMatchBitset
<1>1. ASSUME Chains PROVE ListsMatchBitset
  <2> SUFFICES ASSUME NEW l \in Levels
               PROVE  /\ WalkEnds(free_lists[l], list_links(l), Pow2(l))
                      /\ Walked(free_lists[l], list_links(l), Pow2(l)) = FreeAt(l)
    BY DEF ListsMatchBitset
  <2> DEFINE B == 0..(Pow2(l) - 1)
  <2>1. Pow2(l) \in Nat \ {0}
    BY PowFacts, LevelFacts
  <2>2. IsFiniteSet(B) /\ Cardinality(B) = Pow2(l)
    BY <2>1, FS_Interval
  <2>3. /\ Chain(free_lists[l], list_links(l), FreeAt(l))
        /\ FreeAt(l) \subseteq B /\ NULL \notin FreeAt(l)
    BY <1>1, FreeAtFacts DEF Chains
  <2> HIDE DEF B
  <2> QED BY <2>2, <2>3, ChainWalk
<1> QED BY <1>1, ChainsInvariance, PTL

-----------------------------------------------------------------------------
(* A request is refused only when it must be *)

\* Products grow with their factors.
LEMMA Factors ==
  ASSUME NEW a \in Nat, NEW b \in Nat, NEW s \in Nat \ {0}
  PROVE  /\ a * s \in Nat
         /\ a <= b => a * s <= b * s
         /\ a * s < b * s => a < b
<1>1. \A x \in Nat : x * s \in Nat
  OBVIOUS
<1>2. ASSUME NEW x \in Nat, NEW y \in Nat, x <= y PROVE x * s <= y * s
  <2>1. PICK d \in Nat : y = x + d
    <3>1. y - x \in Nat /\ y = x + (y - x)
      BY <1>2
    <3> QED BY <3>1
  <2>2. y * s = x * s + d * s
    BY <2>1
  <2> QED BY <2>2, <1>1
<1>3. ASSUME a * s < b * s PROVE a < b
  <2>1. b <= a => b * s <= a * s
    BY <1>2
  <2> QED BY <2>1, <1>1, <1>3
<1> QED BY <1>1, <1>2, <1>3

\* Exponents add.
LEMMA PowSum ==
  ASSUME NEW a \in Nat, NEW b \in Nat, a + b <= max_order
  PROVE  Pow2(a + b) = Pow2(a) * Pow2(b)
<1> DEFINE T == {x \in Nat : a + x <= max_order /\ Pow2(a + x) # Pow2(a) * Pow2(x)}
<1>0. max_order \in Nat
  BY OrderAssumption
<1> SUFFICES ASSUME T # {} PROVE FALSE
  OBVIOUS
<1>1. PICK x \in T : \A y \in T : x <= y
  <2>1. T \in SUBSET Nat
    OBVIOUS
  <2> HIDE DEF T
  <2> QED BY <2>1, LeastNumber
<1>2. x \in Nat /\ a + x <= max_order /\ Pow2(a + x) # Pow2(a) * Pow2(x)
  BY <1>1
<1>3. Pow2(a) \in Nat
  BY <1>0, <1>2, PowFacts
<1>4. x # 0
  <2>1. Pow2(0) = 1 /\ a + 0 = a /\ Pow2(a) * 1 = Pow2(a)
    BY PowAssumption, <1>3
  <2> QED BY <2>1, <1>2
<1> DEFINE y == x - 1
<1>5. y \in Nat /\ a + y <= max_order /\ y + 1 = x /\ ~ (x <= y)
      /\ (a + y) + 1 = a + x
  BY <1>0, <1>2, <1>4
<1> HIDE DEF y
<1>6. Pow2(a + y) = Pow2(a) * Pow2(y)
  BY <1>1, <1>5
<1>7. Pow2(y + 1) = 2 * Pow2(y) /\ Pow2(y) \in Nat
  <2>1. y \in 0..max_order
    BY <1>0, <1>5
  <2> QED BY <2>1, PowFacts
<1>8. Pow2((a + y) + 1) = 2 * Pow2(a + y)
  <2>1. a + y \in 0..max_order
    BY <1>0, <1>5
  <2> QED BY <2>1, PowFacts
<1>9. Pow2(a + x) = 2 * (Pow2(a) * Pow2(y)) /\ Pow2(x) = 2 * Pow2(y)
  BY <1>5, <1>6, <1>7, <1>8
<1>10. ASSUME NEW u \in Nat, NEW v \in Nat PROVE 2 * (u * v) = u * (2 * v)
  OBVIOUS
<1> QED BY <1>2, <1>3, <1>7, <1>9, <1>10

\* The bytes of n are bytes of m.
Inside(n, m) == /\ Start(m[1], m[2]) <= Start(n[1], n[2])
                /\ End(n[1], n[2]) <= End(m[1], m[2])

\* Two blocks that share a byte are nested, the smaller in the larger; of the
\* same size, they are one.
LEMMA Nested ==
  ASSUME NEW m \in Node, NEW n \in Node, m[1] <= n[1], ~ Disjoint(m, n)
  PROVE  /\ Inside(n, m)
         /\ m[1] = n[1] => m = n
<1> DEFINE s == level_size(n[1])  i == m[2]  j == n[2]
           e == n[1] - m[1]  K == Pow2(e)
<1>1. /\ m[1] \in Levels /\ n[1] \in Levels /\ i \in Nat /\ j \in Nat
      /\ m = <<m[1], i>> /\ n = <<n[1], j>>
  BY NodeFacts
<1>2. /\ e \in 0..max_order /\ e \in Nat /\ max_order - n[1] \in Nat
      /\ e + (max_order - n[1]) = max_order - m[1]
      /\ max_order - m[1] <= max_order
  BY <1>1, LevelFacts
<1>3. /\ s \in Nat \ {0} /\ K \in Nat \ {0}
      /\ level_size(m[1]) = K * s
  <2>1. Pow2(e + (max_order - n[1])) = Pow2(e) * Pow2(max_order - n[1])
    <3> HIDE DEF e
    <3> QED BY <1>2, PowSum
  <2>2. s \in Nat \ {0} /\ K \in Nat \ {0}
    BY <1>1, <1>2, PowFacts, LevelFacts DEF level_size
  <2> QED BY <2>1, <2>2, <1>2 DEF level_size
<1> DEFINE p == i * K  q == (i + 1) * K
<1>4. /\ Start(m[1], m[2]) = p * s /\ End(m[1], m[2]) = q * s
      /\ Start(n[1], n[2]) = j * s /\ End(n[1], n[2]) = (j + 1) * s
  <2>1. ASSUME NEW x \in Nat, NEW y \in Nat, NEW z \in Nat
        PROVE  x * (y * z) = (x * y) * z
    OBVIOUS
  <2> HIDE DEF s, K, i, j
  <2>2. i * (K * s) = p * s /\ (i + 1) * (K * s) = q * s
    BY <2>1, <1>1, <1>3
  <2> QED BY <2>2, <1>3 DEF Start, End, s, i, j
<1>5. p \in Nat /\ q \in Nat /\ j + 1 \in Nat
  <2> HIDE DEF K, i, j
  <2> QED BY <1>1, <1>3
<1> HIDE DEF s, K, p, q, i, j
<1>6. ~ (q * s <= j * s) /\ ~ ((j + 1) * s <= p * s)
  BY <1>4 DEF Disjoint
<1>7. j < q /\ p < j + 1
  <2>1. q <= j => q * s <= j * s
    BY <1>1, <1>3, <1>5, Factors
  <2>2. j + 1 <= p => (j + 1) * s <= p * s
    BY <1>3, <1>5, Factors
  <2> QED BY <2>1, <2>2, <1>1, <1>5, <1>6
<1>8. p * s <= j * s /\ (j + 1) * s <= q * s
  <2>1. p <= j /\ j + 1 <= q
    BY <1>1, <1>5, <1>7
  <2> QED BY <2>1, <1>1, <1>3, <1>5, Factors
<1>9. Inside(n, m)
  BY <1>4, <1>8 DEF Inside
<1>10. ASSUME m[1] = n[1] PROVE m = n
  <2>1. e = 0
    BY <1>1, <1>10, LevelFacts
  <2>2. K = 1
    BY <2>1, PowAssumption DEF K
  <2>3. p = i /\ q = i + 1
    BY <2>2, <1>1 DEF p, q
  <2>4. i = j
    BY <2>3, <1>1, <1>7
  <2> QED BY <2>4, <1>1, <1>10
<1> QED BY <1>9, <1>10

\* Blocks that share a byte are not disjoint.
LEMMA CommonByte ==
  ASSUME NEW m \in Node, NEW n \in Node, NEW x \in Int,
         Start(m[1], m[2]) <= x, x < End(m[1], m[2]),
         Start(n[1], n[2]) <= x, x < End(n[1], n[2])
  PROVE  ~ Disjoint(m, n)
<1>1. /\ Start(m[1], m[2]) \in Nat /\ End(m[1], m[2]) \in Nat
      /\ Start(n[1], n[2]) \in Nat /\ End(n[1], n[2]) \in Nat
  BY NodeFacts, Geometry
<1> QED BY <1>1 DEF Disjoint

\* Every block lies in the buffer.
LEMMA InBuffer ==
  ASSUME NEW n \in Node
  PROVE  End(n[1], n[2]) <= total_size /\ total_size \in Nat
<1>1. n[1] \in Levels /\ n[2] \in Nat /\ n[2] < Pow2(n[1])
  BY NodeFacts
<1>2. /\ n[1] \in Nat /\ max_order - n[1] \in Nat
      /\ n[1] + (max_order - n[1]) = max_order
  BY <1>1, LevelFacts
<1>3. total_size = Pow2(n[1]) * level_size(n[1])
  BY <1>2, PowSum DEF total_size, level_size
<1>4. Pow2(n[1]) \in Nat /\ level_size(n[1]) \in Nat \ {0}
  BY <1>1, PowFacts, LevelFacts, Geometry
<1>5. n[2] + 1 \in Nat /\ n[2] + 1 <= Pow2(n[1])
  BY <1>1, <1>4
<1>6. (n[2] + 1) * level_size(n[1]) <= Pow2(n[1]) * level_size(n[1])
  BY <1>4, <1>5, Factors
<1>7. Pow2(n[1]) * level_size(n[1]) \in Nat
  BY <1>4, Factors
<1> QED BY <1>3, <1>6, <1>7 DEF End

\* When no call runs and a block is clear of every held one, some free block
\* is at least as large: the smallest free block within it would otherwise
\* have a free buddy.
LEMMA ClearMeansFree ==
  ASSUME IInv, pc = "idle", NEW n \in Node,
         \A h \in HeldBlocks : Disjoint(n, h)
  PROVE  \E g \in FreeBlocks : g[1] <= n[1]
<1> SUFFICES ASSUME \A g \in FreeBlocks : ~ (g[1] <= n[1])
             PROVE  FALSE
  OBVIOUS
<1>0. FreeBlocks \subseteq Node /\ HeldBlocks \subseteq Node
  BY DEF FreeBlocks, HeldBlocks
<1>1. ASSUME NEW b \in Node, Inside(b, n)
      PROVE  \E g \in FreeBlocks : ~ Disjoint(g, n) /\ ~ Disjoint(g, b)
  <2> DEFINE x == Start(b[1], b[2])
  <2>1. /\ x \in Nat /\ x < End(b[1], b[2])
        /\ End(b[1], b[2]) \in Nat /\ End(b[1], b[2]) <= total_size
        /\ total_size \in Nat
    BY NodeFacts, Geometry, InBuffer
  <2>2. /\ Start(n[1], n[2]) <= x /\ End(b[1], b[2]) <= End(n[1], n[2])
        /\ End(n[1], n[2]) \in Nat /\ Start(n[1], n[2]) \in Nat
    BY <1>1, NodeFacts, Geometry DEF Inside
  <2> HIDE DEF x
  <2>3. x \in 0..(total_size - 1)
    BY <2>1
  <2>4. PICK g \in Blocks : Start(g[1], g[2]) <= x /\ x < End(g[1], g[2])
    BY <2>3 DEF IInv, NoLeak
  <2>5. g \in FreeBlocks \/ g \in HeldBlocks
    BY DEF Blocks, InHand
  <2>6. g \in Node
    BY <2>5, <1>0
  <2>7. x < End(n[1], n[2]) /\ x \in Int
    BY <2>1, <2>2
  <2>8. ~ Disjoint(g, n) /\ ~ Disjoint(n, g)
    BY <2>2, <2>4, <2>6, <2>7, CommonByte
  <2>9. ~ Disjoint(g, b)
    <3>1. Start(b[1], b[2]) <= x
      BY <2>1 DEF x
    <3> QED BY <3>1, <2>1, <2>4, <2>6, <2>7, CommonByte
  <2> QED BY <2>5, <2>8, <2>9
<1> DEFINE T == {g[1] : g \in {f \in FreeBlocks : ~ Disjoint(f, n)}}
<1>2. T \in SUBSET Levels /\ T # {}
  <2>1. T \subseteq Levels
    BY <1>0, NodeFacts
  <2>2. Inside(n, n)
    BY NodeFacts, Geometry DEF Inside
  <2>3. \E g \in FreeBlocks : ~ Disjoint(g, n)
    BY <2>2, <1>1
  <2> QED BY <2>1, <2>3
<1>3. PICK d \in T : \A t \in T : t <= d
  <2> HIDE DEF T
  <2> QED BY <1>2, GreatestLevel
<1>4. PICK f \in FreeBlocks : ~ Disjoint(f, n) /\ f[1] = d
  OBVIOUS
<1>5. \A g \in FreeBlocks : ~ Disjoint(g, n) => g[1] <= f[1]
  BY <1>3, <1>4
<1> HIDE DEF T
<1> DEFINE l == f[1]  i == f[2]
           b == <<l, buddy_idx(i)>>
<1>6. /\ f \in Node /\ f = <<l, i>> /\ l \in Levels /\ l \in Nat /\ i \in Nat
      /\ n[1] \in Levels /\ n[1] \in Nat /\ ~ (l <= n[1])
  BY <1>0, NodeFacts
<1>7. l > 0 /\ n[1] <= l - 1 /\ (l - 1) + 1 = l
  BY <1>6
<1>8. l - 1 \in Levels /\ b \in Node /\ <<l - 1, parent_idx(i)>> \in Node
  BY <1>6, <1>7, Family
<1> DEFINE P == <<l - 1, parent_idx(i)>>
<1>9. /\ parent_idx(i) \in Nat /\ Inside(f, P) /\ Inside(b, P)
      /\ ~ Disjoint(P, b) /\ ~ Disjoint(P, f)
  <2> DEFINE k == l - 1  p == parent_idx(i)
             L == <<k + 1, 2 * p>>  R == <<k + 1, 2 * p + 1>>
  <2>1. k \in Levels /\ k + 1 \in Levels /\ k + 1 = l /\ P \in Node
    BY <1>6, <1>7, <1>8
  <2>2. /\ p \in Nat
        /\ \/ i = 2 * p /\ buddy_idx(i) = 2 * p + 1
           \/ i = 2 * p + 1 /\ buddy_idx(i) = 2 * p
    BY <1>6, BuddyFacts
  <2>3. (f = L /\ b = R) \/ (f = R /\ b = L)
    BY <2>1, <2>2, <1>6
  <2>4. Inside(L, P) /\ Inside(R, P)
    <3> HIDE DEF k, p
    <3>1. /\ Start(k + 1, 2 * p) = Start(k, p)
          /\ End(k + 1, 2 * p) = Start(k + 1, 2 * p + 1)
          /\ End(k + 1, 2 * p + 1) = End(k, p)
      BY <2>1, <2>2, Halves
    <3>2. 2 * p \in Nat /\ 2 * p + 1 \in Nat
      BY <2>2
    <3>3. /\ Start(k + 1, 2 * p) < End(k + 1, 2 * p)
          /\ Start(k + 1, 2 * p + 1) < End(k + 1, 2 * p + 1)
          /\ Start(k + 1, 2 * p) \in Nat /\ End(k + 1, 2 * p) \in Nat
          /\ Start(k + 1, 2 * p + 1) \in Nat /\ End(k + 1, 2 * p + 1) \in Nat
      BY <2>1, <3>2, Geometry
    <3>4. P = <<k, p>>
      BY DEF k, p
    <3> HIDE DEF P
    <3> QED BY <3>1, <3>3, <3>4 DEF Inside
  <2>5. ~ Disjoint(L, P) /\ ~ Disjoint(R, P)
    <3> HIDE DEF k, p
    <3>1. ~ Disjoint(L, <<k, p>>) /\ ~ Disjoint(R, <<k, p>>)
      BY <2>1, <2>2, SplitDisjoint
    <3> QED BY <3>1 DEF k, p
  <2>6. ~ Disjoint(f, P) /\ ~ Disjoint(b, P) /\ Inside(f, P) /\ Inside(b, P)
    <3> HIDE DEF L, R, P, b
    <3> QED BY <2>3, <2>4, <2>5
  <2> QED BY <2>2, <2>6, <1>6, <1>8, DisjointFacts
<1>10. Inside(f, n) /\ Inside(P, n) /\ Inside(b, n)
  <2> HIDE DEF b, P
  <2>1. ~ Disjoint(n, f)
    BY <1>4, <1>6, DisjointFacts
  <2>2. Inside(f, n)
    BY <2>1, <1>6, Nested
  <2>3. /\ Start(f[1], f[2]) < End(f[1], f[2])
        /\ Start(f[1], f[2]) \in Nat /\ End(f[1], f[2]) \in Nat
        /\ Start(n[1], n[2]) \in Nat /\ End(n[1], n[2]) \in Nat
        /\ Start(P[1], P[2]) \in Nat /\ End(P[1], P[2]) \in Nat
        /\ Start(b[1], b[2]) \in Nat /\ End(b[1], b[2]) \in Nat
    BY <1>6, <1>8, NodeFacts, Geometry DEF P
  <2>4. ~ Disjoint(n, P)
    BY <2>2, <2>3, <1>9 DEF Disjoint, Inside
  <2>5. Inside(P, n)
    BY <2>4, <1>7, <1>8, Nested DEF P
  <2>6. Inside(b, n)
    BY <2>3, <2>5, <1>9 DEF Inside
  <2> QED BY <2>2, <2>5, <2>6
<1>11. PICK g \in FreeBlocks : ~ Disjoint(g, n) /\ ~ Disjoint(g, b)
  BY <1>1, <1>8, <1>10
<1>12. g \in Node /\ g[1] \in Nat /\ g[1] <= l
  BY <1>0, <1>5, <1>11, NodeFacts
<1>13. CASE g[1] = l
  <2>1. g = b
    <3> HIDE DEF b
    <3>1. b[1] = l
      BY DEF b
    <3> QED BY <3>1, <1>8, <1>11, <1>12, <1>13, <1>6, Nested
  <2> QED BY <2>1, <1>4, <1>7 DEF IInv, Coalesced
<1>14. CASE g[1] # l
  <2>1. g[1] <= l - 1 /\ g # f
    BY <1>6, <1>12, <1>14
  <2> HIDE DEF b, P
  <2>2. b[1] = l /\ P[1] = l - 1 /\ P \in Node
    BY <1>8 DEF b, P
  <2>3. Inside(b, g)
    BY <2>2, <1>8, <1>11, <1>12, Nested
  <2>4. /\ Start(f[1], f[2]) < End(f[1], f[2])
        /\ Start(b[1], b[2]) < End(b[1], b[2])
        /\ Start(f[1], f[2]) \in Nat /\ End(f[1], f[2]) \in Nat
        /\ Start(g[1], g[2]) \in Nat /\ End(g[1], g[2]) \in Nat
        /\ Start(P[1], P[2]) \in Nat /\ End(P[1], P[2]) \in Nat
        /\ Start(b[1], b[2]) \in Nat /\ End(b[1], b[2]) \in Nat
    BY <2>2, <1>6, <1>8, <1>12, NodeFacts, Geometry
  <2>5. ~ Disjoint(g, P)
    BY <2>3, <2>4, <1>9 DEF Disjoint, Inside
  <2>6. Inside(P, g)
    BY <2>1, <2>2, <2>5, <1>12, Nested
  <2>7. ~ Disjoint(g, f)
    BY <2>4, <2>6, <1>9 DEF Disjoint, Inside
  <2>8. Disjoint(g, f)
    BY <2>1, <1>4, <1>11 DEF IInv, NoOverlap, Blocks
  <2> QED BY <2>7, <2>8
<1> QED BY <1>13, <1>14

(***************************************************************************)
(* buddy_alloc_fn never refuses what it has: whatever the history of calls *)
(* was, when some block of the request's size is clear of every block the  *)
(* clients hold, the search finds a list with a block.  After everything   *)
(* is freed that is the whole buffer.                                      *)
(***************************************************************************)
THEOREM RefusesOnlyWhenFull == Spec => []NoFalseRefusal
<1>1. ASSUME IInv, Chains PROVE NoFalseRefusal
  <2> SUFFICES ASSUME pc = "idle", NEW s \in Sizes, NEW n \in Node,
                      n[1] = target_level(s),
                      \A h \in HeldBlocks : Disjoint(n, h)
               PROVE  Candidates(s) # {}
    BY DEF NoFalseRefusal
  <2>1. PICK g \in FreeBlocks : g[1] <= n[1]
    BY <1>1, ClearMeansFree
  <2>2. g \in Node /\ g[1] \in Levels /\ g = <<g[1], g[2]>>
    BY NodeFacts DEF FreeBlocks
  <2>3. g[2] \in FreeAt(g[1]) /\ NULL \notin FreeAt(g[1])
    BY <2>2, FreeAtFacts
  <2>4. free_lists[g[1]] # NULL
    BY <2>2, <2>3, <1>1, ChainHead DEF Chains
  <2>5. g[1] \in Candidates(s)
    BY <2>1, <2>2, <2>4 DEF Candidates
  <2> QED BY <2>5
<1> QED BY <1>1, ChainsInvariance, PTL

-----------------------------------------------------------------------------
(* The ASan shadow *)

\* Blocks are whole granules.
LEMMA Granules ==
  ASSUME NEW n \in Node
  PROVE  \E k, e \in Nat : /\ k < e
                           /\ Start(n[1], n[2]) = 16 * k
                           /\ End(n[1], n[2]) = 16 * e
                           /\ Header(n[1], n[2]) = {k}
                           /\ Body(n[1], n[2]) = k..(e - 1)
<1> DEFINE o == max_order - n[1]
<1>1. /\ n[1] \in Levels /\ n[2] \in Nat /\ o \in 0..max_order /\ min_order <= o
      /\ max_order \in Nat /\ min_order \in Nat
  BY NodeFacts, LevelFacts DEF Levels, num_levels
<1> HIDE DEF o
<1>2. 4 <= min_order
  <2> SUFFICES ASSUME min_order < 4 PROVE FALSE
    BY <1>1
  <2>1. Pow2(min_order) >= 16
    BY OrderAssumption DEF sizeof_buddy_node
  <2>2. min_order \in {0, 1, 2, 3} /\ min_order <= max_order
    BY <1>1, OrderAssumption
  <2>3. Pow2(0) = 1
    BY PowAssumption
  <2>4. ASSUME 1 <= max_order PROVE Pow2(1) = 2
    <3>1. Pow2(0 + 1) = 2 * Pow2(0)
      BY <1>1, PowFacts
    <3> QED BY <3>1, <2>3
  <2>5. ASSUME 2 <= max_order PROVE Pow2(2) = 4
    <3>1. Pow2(1 + 1) = 2 * Pow2(1)
      BY <1>1, <2>5, PowFacts
    <3> QED BY <3>1, <2>4, <2>5, <1>1
  <2>6. ASSUME 3 <= max_order PROVE Pow2(3) = 8
    <3>1. Pow2(2 + 1) = 2 * Pow2(2)
      BY <1>1, <2>6, PowFacts
    <3> QED BY <3>1, <2>5, <2>6, <1>1
  <2> QED BY <2>1, <2>2, <2>3, <2>4, <2>5, <2>6, <1>1
<1>3. Pow2(4) = 16
  <2>1. 4 <= max_order
    BY <1>1, <1>2
  <2>2. /\ Pow2(0 + 1) = 2 * Pow2(0) /\ Pow2(1 + 1) = 2 * Pow2(1)
        /\ Pow2(2 + 1) = 2 * Pow2(2) /\ Pow2(3 + 1) = 2 * Pow2(3)
    BY <1>1, <2>1, PowFacts
  <2>3. Pow2(0) = 1
    BY PowAssumption
  <2>4. Pow2(1) = 2
    BY <2>2, <2>3
  <2>5. Pow2(2) = 4
    BY <2>2, <2>4
  <2>6. Pow2(3) = 8
    BY <2>2, <2>5
  <2> QED BY <2>2, <2>6
<1> DEFINE g == Pow2(o - 4)
<1>4. level_size(n[1]) = 16 * g /\ g \in Nat \ {0}
  <2>1. o - 4 \in Nat /\ 4 + (o - 4) = o /\ o - 4 \in 0..max_order /\ o <= max_order
    BY <1>1, <1>2
  <2>2. Pow2(4 + (o - 4)) = Pow2(4) * Pow2(o - 4)
    BY <2>1, PowSum
  <2>3. Pow2(o - 4) \in Nat \ {0}
    BY <2>1, PowFacts
  <2> QED BY <2>1, <2>2, <2>3, <1>3 DEF level_size, o
<1> HIDE DEF g
<1> DEFINE i == n[2]  k == i * g  e == (i + 1) * g
<1>5. k \in Nat /\ e \in Nat /\ e = k + g
  <2> HIDE DEF i
  <2> QED BY <1>1, <1>4, Products DEF i
<1>6. Start(n[1], n[2]) = 16 * k /\ End(n[1], n[2]) = 16 * e
  <2>1. ASSUME NEW x \in Nat, NEW y \in Nat PROVE x * (16 * y) = 16 * (x * y)
    OBVIOUS
  <2> HIDE DEF i
  <2>2. i \in Nat /\ i + 1 \in Nat
    BY <1>1 DEF i
  <2> QED BY <2>1, <2>2, <1>4 DEF Start, End, i
<1> HIDE DEF k, e
<1>7. (16 * k) \div 16 = k /\ (16 * e) \div 16 = e
  BY <1>5
<1>8. k < e /\ Header(n[1], n[2]) = {k} /\ Body(n[1], n[2]) = k..(e - 1)
  BY <1>4, <1>5, <1>6, <1>7 DEF Header, Body, sizeof_buddy_node
<1> QED BY <1>5, <1>6, <1>8

\* A block's header is within it, and blocks that are clear of each other
\* have no granule in common.
LEMMA GranulesApart ==
  ASSUME NEW m \in Node, NEW n \in Node
  PROVE  /\ Header(m[1], m[2]) \subseteq Body(m[1], m[2])
         /\ Disjoint(m, n) =>
              Body(m[1], m[2]) \cap Body(n[1], n[2]) = {}
<1>1. PICK k \in Nat, e \in Nat :
        /\ k < e
        /\ Start(m[1], m[2]) = 16 * k /\ End(m[1], m[2]) = 16 * e
        /\ Header(m[1], m[2]) = {k} /\ Body(m[1], m[2]) = k..(e - 1)
  BY Granules
<1>2. PICK p \in Nat, q \in Nat :
        /\ p < q
        /\ Start(n[1], n[2]) = 16 * p /\ End(n[1], n[2]) = 16 * q
        /\ Header(n[1], n[2]) = {p} /\ Body(n[1], n[2]) = p..(q - 1)
  BY Granules
<1>3. Header(m[1], m[2]) \subseteq Body(m[1], m[2])
  BY <1>1
<1>4. ASSUME Disjoint(m, n)
      PROVE  Body(m[1], m[2]) \cap Body(n[1], n[2]) = {}
  <2>1. e <= p \/ q <= k
    BY <1>1, <1>2, <1>4 DEF Disjoint
  <2> QED BY <2>1, <1>1, <1>2
<1> QED BY <1>3, <1>4

\* The granules the invariant ShadowExact allows, for a division of the memory.
Owned(H, F, W) ==
  {x \in Int : \/ \E n \in H : x \in Body(n[1], n[2])
               \/ \E n \in F \cup W : x \in Header(n[1], n[2])}

\* The block being split, whose header is accessible.
Splitting == IF pc = "split" THEN {<<level, index>>} ELSE {}

\* ShadowExact, before and after a step, in terms of that set.
LEMMA ShadowOwned ==
  ASSUME TypeOK
  PROVE  ShadowExact <=> unpoisoned = Owned(HeldBlocks, FreeBlocks, Splitting)
<1> DEFINE U == UNION ({Body(n[1], n[2]) : n \in HeldBlocks}
                       \cup {Header(n[1], n[2]) : n \in FreeBlocks}
                       \cup (IF pc = "split" THEN {Header(level, index)} ELSE {}))
           O == Owned(HeldBlocks, FreeBlocks, Splitting)
<1>1. /\ HeldBlocks \subseteq Node /\ FreeBlocks \subseteq Node
      /\ Splitting \subseteq Node
  BY DEF HeldBlocks, FreeBlocks, Splitting, TypeOK
<1>2. \A n \in Node : /\ Header(n[1], n[2]) \subseteq Int
                      /\ Body(n[1], n[2]) \subseteq Int
  BY NodeFacts, ShadowType
<1>3. ASSUME NEW x \in U PROVE x \in O
  <2>1. CASE \E n \in HeldBlocks : x \in Body(n[1], n[2])
    BY <2>1, <1>1, <1>2 DEF Owned
  <2>2. CASE \E n \in FreeBlocks : x \in Header(n[1], n[2])
    BY <2>2, <1>1, <1>2 DEF Owned
  <2>3. CASE pc = "split" /\ x \in Header(level, index)
    <3>1. \E n \in Splitting : x \in Header(n[1], n[2])
      BY <2>3 DEF Splitting
    <3> QED BY <3>1, <1>1, <1>2 DEF Owned
  <2> QED BY <2>1, <2>2, <2>3
<1>4. ASSUME NEW x \in O PROVE x \in U
  <2>1. CASE \E n \in HeldBlocks : x \in Body(n[1], n[2])
    BY <2>1
  <2>2. CASE \E n \in FreeBlocks : x \in Header(n[1], n[2])
    BY <2>2
  <2>3. CASE \E n \in Splitting : x \in Header(n[1], n[2])
    <3>1. pc = "split" /\ x \in Header(level, index)
      BY <2>3 DEF Splitting
    <3> QED BY <3>1
  <2> QED BY <2>1, <2>2, <2>3, <1>4 DEF Owned
<1>5. U = O
  <2> HIDE DEF U, O
  <2> QED BY <1>3, <1>4
<1> QED BY <1>5 DEF ShadowExact

\* The shadow is what the division of the memory makes it.
Shadowed == unpoisoned = Owned(HeldBlocks, FreeBlocks, Splitting)

\* It still is after a step that changes both alike.
LEMMA ShadowedIntro ==
  ASSUME unpoisoned' \subseteq Int,
         \A x \in Int : x \in unpoisoned' <=>
                          \/ \E n \in HeldBlocks' : x \in Body(n[1], n[2])
                          \/ \E n \in FreeBlocks' : x \in Header(n[1], n[2])
                          \/ \E n \in Splitting' : x \in Header(n[1], n[2])
  PROVE  Shadowed'
<1>1. unpoisoned' = Owned(HeldBlocks', FreeBlocks', Splitting')
  BY DEF Owned
<1> QED BY <1>1 DEF Shadowed, Owned, Body, Header, Start, End, level_size,
                    sizeof_buddy_node

\* Every step keeps the shadow exact.
LEMMA ShadowStep ==
  ASSUME IInv, IInv', Shadowed, [Next]_vars
  PROVE  Shadowed'
<1> DEFINE Hd(n) == Header(n[1], n[2])
           Bd(n) == Body(n[1], n[2])
<1>0. /\ HeldBlocks \subseteq Node /\ FreeBlocks \subseteq Node
      /\ Splitting \subseteq Node
      /\ unpoisoned' \subseteq Int
  BY DEF HeldBlocks, FreeBlocks, Splitting, IInv, TypeOK
<1>a. \A n \in Node : /\ Hd(n) \subseteq Int /\ Bd(n) \subseteq Int
                      /\ Hd(n) \subseteq Bd(n)
  BY NodeFacts, ShadowType, GranulesApart
<1>b. \A x \in Int : x \in unpoisoned <=>
                       \/ \E n \in HeldBlocks : x \in Bd(n)
                       \/ \E n \in FreeBlocks : x \in Hd(n)
                       \/ \E n \in Splitting : x \in Hd(n)
  BY DEF Shadowed, Owned
<1>c. \A m, n \in Node : Disjoint(m, n) => Bd(m) \cap Bd(n) = {}
  BY GranulesApart
<1>d. \A m, n \in HeldBlocks \cup FreeBlocks \cup InHand : m # n => Disjoint(m, n)
  BY DEF IInv, NoOverlap, Blocks
<1>e. FreeBlocks \cap HeldBlocks = {}
  BY DEF IInv, NoOverlap
<1>f. Splitting = (IF pc = "split" THEN InHand ELSE {})
      /\ Splitting' = (IF pc' = "split" THEN {<<level', index'>>} ELSE {})
  BY DEF Splitting, InHand
<1>1. ASSUME NEW s \in Sizes, NEW r, pc = "idle", buddy_alloc(s, r)
      PROVE  Shadowed'
  <2>1. PICK c \in FreeBlocks :
          /\ c \in Node /\ c = <<c[1], c[2]>>
          /\ FreeBlocks' = FreeBlocks \ {c} /\ HeldBlocks' = HeldBlocks
          /\ unpoisoned' = unpoisoned \cup Hd(c)
          /\ pc' = "split" /\ level' = c[1] /\ index' = c[2]
    BY <1>1, AllocEffect
  <2>2. Splitting = {} /\ Splitting' = {c}
    BY <2>1, <1>1, <1>f
  <2> HIDE DEF Hd, Bd
  <2>3. \A x \in Int : x \in unpoisoned' <=>
                         \/ \E n \in HeldBlocks' : x \in Bd(n)
                         \/ \E n \in FreeBlocks' : x \in Hd(n)
                         \/ \E n \in Splitting' : x \in Hd(n)
    BY <2>1, <2>2, <1>b
  <2> QED BY <2>3, <1>0, ShadowedIntro DEF Hd, Bd
<1>2. ASSUME Split PROVE Shadowed'
  <2> DEFINE c == <<level, index>>
             L == <<level + 1, 2 * index>>
             R == <<level + 1, 2 * index + 1>>
  <2>1. /\ c \in Node /\ L \in Node /\ R \in Node
        /\ level \in Levels /\ level + 1 \in Levels /\ index \in Nat
        /\ FreeBlocks' = FreeBlocks \cup {R}
    BY <1>2, SplitEffect
  <2>2. /\ Splitting = {c} /\ Splitting' = {L} /\ HeldBlocks' = HeldBlocks
        /\ unpoisoned' = unpoisoned \cup Hd(R)
    BY <1>2 DEF Split, Splitting, HeldBlocks
  <2>3. Hd(L) = Hd(c)
    BY <2>1, Halves DEF Header
  <2> HIDE DEF Hd, Bd, c, L, R
  <2>4. \A x \in Int : x \in unpoisoned' <=>
                         \/ \E n \in HeldBlocks' : x \in Bd(n)
                         \/ \E n \in FreeBlocks' : x \in Hd(n)
                         \/ \E n \in Splitting' : x \in Hd(n)
    BY <2>1, <2>2, <2>3, <1>b
  <2> QED BY <2>4, <1>0, ShadowedIntro DEF Hd, Bd
<1>3. ASSUME AllocReturn PROVE Shadowed'
  <2> DEFINE c == <<level, index>>
  <2>1. /\ c \in Node /\ HeldBlocks' = HeldBlocks \cup {c}
        /\ FreeBlocks' = FreeBlocks /\ unpoisoned' = unpoisoned \cup Bd(c)
    BY <1>3, AllocReturnEffect
  <2>2. Splitting = {c} /\ Splitting' = {}
    BY <1>3 DEF AllocReturn, Splitting
  <2> HIDE DEF Hd, Bd, c
  <2>3. \A x \in Int : x \in unpoisoned' <=>
                         \/ \E n \in HeldBlocks' : x \in Bd(n)
                         \/ \E n \in FreeBlocks' : x \in Hd(n)
                         \/ \E n \in Splitting' : x \in Hd(n)
    BY <2>1, <2>2, <1>a, <1>b
  <2> QED BY <2>3, <1>0, ShadowedIntro DEF Hd, Bd
<1>4. ASSUME NEW m \in Node, Free(m) PROVE Shadowed'
  <2>1. /\ m \in HeldBlocks /\ HeldBlocks' = HeldBlocks \ {m}
        /\ FreeBlocks' = FreeBlocks /\ unpoisoned' = unpoisoned \ Bd(m)
    BY <1>4, FreeEffect
  <2>2. Splitting = {} /\ Splitting' = {}
    BY <1>4 DEF Free, Splitting
  <2> HIDE DEF Hd, Bd
  <2>3. \A n \in (HeldBlocks \ {m}) \cup FreeBlocks : Bd(m) \cap Bd(n) = {}
    BY <2>1, <1>0, <1>c, <1>d, <1>e
  <2>4. \A n \in FreeBlocks : Hd(n) \subseteq Bd(n)
    BY <1>0, <1>a
  <2>5. \A x \in Int : x \in unpoisoned' <=>
                         \/ \E n \in HeldBlocks' : x \in Bd(n)
                         \/ \E n \in FreeBlocks' : x \in Hd(n)
                         \/ \E n \in Splitting' : x \in Hd(n)
    BY <2>1, <2>2, <2>3, <2>4, <1>b
  <2> QED BY <2>5, <1>0, ShadowedIntro DEF Hd, Bd
<1>5. ASSUME ReallocMove PROVE Shadowed'
  <2> DEFINE c == <<level, index>>  o == old
  <2>1. /\ c \in Node /\ o \in HeldBlocks /\ c # o
        /\ HeldBlocks' = (HeldBlocks \ {o}) \cup {c}
        /\ FreeBlocks' = FreeBlocks
        /\ unpoisoned' = (unpoisoned \cup Bd(c)) \ Bd(o)
    BY <1>5, ReallocMoveEffect
  <2>2. Splitting = {c} /\ Splitting' = {} /\ InHand = {c}
    BY <1>5 DEF ReallocMove, Splitting, InHand
  <2> HIDE DEF Hd, Bd, c, o
  <2>3. /\ \A n \in (HeldBlocks \ {o}) \cup FreeBlocks : Bd(o) \cap Bd(n) = {}
        /\ Bd(o) \cap Bd(c) = {}
    BY <2>1, <2>2, <1>0, <1>c, <1>d, <1>e
  <2>4. (\A n \in FreeBlocks : Hd(n) \subseteq Bd(n)) /\ Hd(c) \subseteq Bd(c)
    BY <2>1, <1>0, <1>a
  <2>5. \A x \in Int : x \in unpoisoned' <=>
                         \/ \E n \in HeldBlocks' : x \in Bd(n)
                         \/ \E n \in FreeBlocks' : x \in Hd(n)
                         \/ \E n \in Splitting' : x \in Hd(n)
    BY <2>1, <2>2, <2>3, <2>4, <1>b
  <2> QED BY <2>5, <1>0, ShadowedIntro DEF Hd, Bd
<1>6. ASSUME Merge PROVE Shadowed'
  <2> DEFINE b == <<level, buddy_idx(index)>>
  <2>1. /\ b \in FreeBlocks /\ b \in Node
        /\ FreeBlocks' = FreeBlocks \ {b} /\ HeldBlocks' = HeldBlocks
        /\ unpoisoned' = unpoisoned \ Hd(b)
    BY <1>6, MergeEffect
  <2>2. Splitting = {} /\ Splitting' = {}
    BY <1>6 DEF Merge, Splitting
  <2> HIDE DEF Hd, Bd, b
  <2>3. \A n \in HeldBlocks \cup (FreeBlocks \ {b}) : Bd(b) \cap Bd(n) = {}
    BY <2>1, <1>0, <1>c, <1>d, <1>e
  <2>4. (\A n \in FreeBlocks : Hd(n) \subseteq Bd(n)) /\ Hd(b) \subseteq Bd(b)
    BY <2>1, <1>0, <1>a
  <2>5. \A x \in Int : x \in unpoisoned' <=>
                         \/ \E n \in HeldBlocks' : x \in Bd(n)
                         \/ \E n \in FreeBlocks' : x \in Hd(n)
                         \/ \E n \in Splitting' : x \in Hd(n)
    BY <2>1, <2>2, <2>3, <2>4, <1>b
  <2> QED BY <2>5, <1>0, ShadowedIntro DEF Hd, Bd
<1>7. ASSUME FreeReturn PROVE Shadowed'
  <2> DEFINE c == <<level, index>>
  <2>1. /\ c \in Node /\ FreeBlocks' = FreeBlocks \cup {c}
        /\ HeldBlocks' = HeldBlocks /\ unpoisoned' = unpoisoned \cup Hd(c)
    BY <1>7, FreeReturnEffect
  <2>2. Splitting = {} /\ Splitting' = {}
    BY <1>7 DEF FreeReturn, Splitting
  <2> HIDE DEF Hd, Bd, c
  <2>3. \A x \in Int : x \in unpoisoned' <=>
                         \/ \E n \in HeldBlocks' : x \in Bd(n)
                         \/ \E n \in FreeBlocks' : x \in Hd(n)
                         \/ \E n \in Splitting' : x \in Hd(n)
    BY <2>1, <2>2, <1>b
  <2> QED BY <2>3, <1>0, ShadowedIntro DEF Hd, Bd
<1>8. ASSUME UNCHANGED vars PROVE Shadowed'
  <2>1. /\ HeldBlocks' = HeldBlocks /\ FreeBlocks' = FreeBlocks
        /\ Splitting' = Splitting /\ unpoisoned' = unpoisoned
    BY <1>8 DEF vars, HeldBlocks, FreeBlocks, Splitting, get_bit
  <2> QED BY <2>1, <1>0, <1>b, ShadowedIntro
<1>9. ASSUME NEW s \in Sizes, Alloc(s) PROVE Shadowed'
  BY <1>1, <1>9 DEF Alloc
<1>10. ASSUME NEW n \in Node, NEW s \in Sizes, Realloc(n, s) PROVE Shadowed'
  BY <1>1, <1>10 DEF Realloc
<1>11. ASSUME NEW s \in Sizes, AllocNull(s) PROVE Shadowed'
  BY <1>8, <1>11 DEF AllocNull
<1> QED BY <1>2, <1>3, <1>4, <1>5, <1>6, <1>7, <1>8, <1>9, <1>10, <1>11
        DEF Next, Client, Running

(***************************************************************************)
(* The shadow is exact in every state: a client may access its block and   *)
(* nothing else, a freed block is poisoned but for the list header, and    *)
(* the header too once the block is swallowed by a merge.                  *)
(***************************************************************************)
THEOREM ShadowIsExact == Spec => []ShadowExact
<1>1. Init => Shadowed
  <2> SUFFICES ASSUME Init PROVE Shadowed
    OBVIOUS
  <2>1. /\ TypeOK /\ unpoisoned = Header(0, 0)
        /\ HeldBlocks = {} /\ pc = "idle"
    BY InitInv DEF Init, IInv, HeldBlocks
  <2>2. FreeBlocks = {<<0, 0>>}
    <3>1. \A n \in Node : n \in FreeBlocks <=> n = <<0, 0>>
      <4> SUFFICES ASSUME NEW n \in Node
                   PROVE  get_bit(bitset, n[1], n[2]) <=> n = <<0, 0>>
        BY DEF FreeBlocks
      <4>1. ~ get_bit({}, n[1], n[2])
        BY DEF get_bit
      <4>2. bitset = set_bit({}, 0, 0) /\ <<0, 0>> \in Node
        BY RootNode DEF Init
      <4> QED BY <4>1, <4>2, BitFacts
    <3> QED BY <3>1, RootNode DEF FreeBlocks
  <2>3. ShadowExact
    BY <2>1, <2>2 DEF ShadowExact
  <2> QED BY <2>1, <2>3, ShadowOwned DEF Shadowed
<1>2. IInv /\ Shadowed => ShadowExact
  BY ShadowOwned DEF IInv, Shadowed
<1>3. IInv /\ Shadowed /\ [Next]_vars => Shadowed'
  BY ShadowStep, NextInv
<1> QED BY <1>1, <1>2, <1>3, Invariance, PTL DEF Spec

-----------------------------------------------------------------------------
(* The refinement *)

\* Every block starts at one of the addresses a client may be given.
LEMMA StartFacts ==
  ASSUME NEW n \in Node
  PROVE  /\ Start(n[1], n[2]) \in Addrs
         /\ Start(n[1], n[2]) \in Nat
         /\ Start(n[1], n[2]) % 8 = 0
<1> DEFINE D == num_levels - 1  e == D - n[1]  K == Pow2(e)  i == n[2]
           g == level_size(D)
<1>1. /\ n[1] \in Levels /\ n[1] \in Nat /\ i \in Nat /\ i < Pow2(n[1])
  BY NodeFacts
<1>2. /\ D \in Levels /\ D \in 0..max_order /\ e \in Nat /\ e \in 0..max_order
      /\ max_order - D \in Nat
      /\ n[1] + e = D /\ D <= max_order
      /\ e + (max_order - D) = max_order - n[1] /\ max_order - n[1] <= max_order
  BY <1>1, LevelFacts DEF Levels
<1> HIDE DEF D, e
<1>3. /\ K \in Nat \ {0} /\ g \in Nat \ {0}
      /\ level_size(n[1]) = K * g
      /\ Pow2(D) = Pow2(n[1]) * K /\ Pow2(n[1]) \in Nat
  <2>1. K \in Nat \ {0} /\ g \in Nat \ {0} /\ Pow2(n[1]) \in Nat
    BY <1>1, <1>2, PowFacts, LevelFacts, Geometry
  <2>2. Pow2(e + (max_order - D)) = Pow2(e) * Pow2(max_order - D)
    BY <1>2, PowSum
  <2>3. Pow2(n[1] + e) = Pow2(n[1]) * Pow2(e)
    BY <1>1, <1>2, PowSum
  <2> QED BY <2>1, <2>2, <2>3, <1>2 DEF level_size
<1> HIDE DEF K, g
<1> DEFINE j == i * K
<1>4. Start(n[1], n[2]) = j * g
  <2>1. ASSUME NEW x \in Nat, NEW y \in Nat, NEW z \in Nat
        PROVE  x * (y * z) = (x * y) * z
    OBVIOUS
  <2> QED BY <2>1, <1>1, <1>3 DEF Start
<1>5. j \in Nat /\ j < Pow2(D)
  <2>1. i + 1 \in Nat /\ i + 1 <= Pow2(n[1])
    BY <1>1, <1>3
  <2>2. (i + 1) * K <= Pow2(n[1]) * K /\ (i + 1) * K = i * K + K /\ i * K \in Nat
    BY <2>1, <1>1, <1>3, Factors, Products
  <2> HIDE DEF i
  <2>3. Pow2(n[1]) * K \in Nat
    BY <1>3, Factors
  <2> QED BY <2>2, <2>3, <1>3
<1>6. j \in 0..(Pow2(D) - 1)
  <2>1. Pow2(D) \in Nat
    BY <1>2, PowFacts
  <2> HIDE DEF j
  <2> QED BY <2>1, <1>5
<1> HIDE DEF j
<1>7. Start(n[1], n[2]) \in Addrs
  BY <1>4, <1>6 DEF Addrs, Start, D, g
<1>8. PICK k \in Nat : Start(n[1], n[2]) = 16 * k
  BY Granules
<1> QED BY <1>7, <1>8

\* Blocks that are clear of each other start at different addresses.
LEMMA StartsDiffer ==
  ASSUME NEW m \in Node, NEW n \in Node, Disjoint(m, n)
  PROVE  Start(m[1], m[2]) # Start(n[1], n[2])
  BY NodeFacts, Geometry DEF Disjoint

\* What the client sees when it holds the blocks H, of sizes s.
View(H, s) ==
  [a \in Addrs |->
     IF \E n \in H : Start(n[1], n[2]) = a
       THEN s[CHOOSE n \in H : Start(n[1], n[2]) = a]
       ELSE 0]

\* At the start of a held block it has the block's size, elsewhere 0 ...
LEMMA ViewFacts ==
  ASSUME NEW H \in SUBSET Node, NEW s,
         \A m, n \in H : m # n => Disjoint(m, n)
  PROVE  /\ \A n \in H : View(H, s)[Start(n[1], n[2])] = s[n]
         /\ \A a \in Addrs : (\A n \in H : Start(n[1], n[2]) # a)
                               => View(H, s)[a] = 0
<1>1. ASSUME NEW n \in H PROVE View(H, s)[Start(n[1], n[2])] = s[n]
  <2> DEFINE a == Start(n[1], n[2])
             c == CHOOSE m \in H : Start(m[1], m[2]) = a
  <2>1. c \in H /\ Start(c[1], c[2]) = a
    OBVIOUS
  <2> HIDE DEF c
  <2>2. c = n
    BY <2>1, StartsDiffer
  <2>3. a \in Addrs
    BY StartFacts
  <2>4. View(H, s)[a] = s[c]
    BY <2>3 DEF View, c
  <2> QED BY <2>2, <2>4
<1>2. ASSUME NEW a \in Addrs, \A n \in H : Start(n[1], n[2]) # a
      PROVE  View(H, s)[a] = 0
  BY <1>2 DEF View
<1> QED BY <1>1, <1>2

\* ... and it is the only such function.
LEMMA ViewIs ==
  ASSUME NEW H \in SUBSET Node, NEW s,
         \A m, n \in H : m # n => Disjoint(m, n),
         NEW f, f = [a \in Addrs |-> f[a]],
         \A n \in H : f[Start(n[1], n[2])] = s[n],
         \A a \in Addrs : (\A n \in H : Start(n[1], n[2]) # a) => f[a] = 0
  PROVE  View(H, s) = f
<1>1. ASSUME NEW a \in Addrs PROVE View(H, s)[a] = f[a]
  <2>1. CASE \E n \in H : Start(n[1], n[2]) = a
    <3>1. PICK n \in H : Start(n[1], n[2]) = a
      BY <2>1
    <3>2. View(H, s)[Start(n[1], n[2])] = s[n]
      BY ViewFacts
    <3> QED BY <3>1, <3>2
  <2>2. CASE \A n \in H : Start(n[1], n[2]) # a
    BY <2>2, ViewFacts
  <2> QED BY <2>1, <2>2
<1>2. View(H, s) = [a \in Addrs |-> View(H, s)[a]]
  BY DEF View
<1> QED BY <1>1, <1>2

\* The client's view before and after a step.
LEMMA HeapLiveViews ==
  /\ HeapLive = View(HeldBlocks, live)
  /\ HeapLive' = View(HeldBlocks', live')
<1>1. HeapLive = View(HeldBlocks, live)
  BY DEF HeapLive, View
<1>2. HeapLive' = View(HeldBlocks', live')
  BY DEF HeapLive, View, Addrs, Start, level_size, num_levels
<1> QED BY <1>1, <1>2

\* The blocks clients hold, and the view of them.
LEMMA HeldFacts ==
  ASSUME IInv
  PROVE  /\ HeldBlocks \in SUBSET Node
         /\ \A m, n \in HeldBlocks : m # n => Disjoint(m, n)
         /\ \A n \in HeldBlocks : /\ HeapLive[Start(n[1], n[2])] = live[n]
                                  /\ live[n] \in Nat \ {0}
                                  /\ live[n] <= level_size(n[1])
         /\ \A a \in Addrs : (\A n \in HeldBlocks : Start(n[1], n[2]) # a)
                               => HeapLive[a] = 0
         /\ HeapLive = [a \in Addrs |-> HeapLive[a]]
<1>1. HeldBlocks \in SUBSET Node
  BY DEF HeldBlocks
<1>2. \A m, n \in HeldBlocks : m # n => Disjoint(m, n)
  BY DEF IInv, NoOverlap, Blocks
<1>3. \A n \in HeldBlocks : live[n] \in Nat \ {0} /\ live[n] <= level_size(n[1])
  <2>1. Sizes \cup {0} \subseteq Nat
    BY SizesAssumption
  <2> QED BY <2>1, <1>1 DEF HeldBlocks, IInv, TypeOK, LevelFromSize
<1>4. HeapLive = [a \in Addrs |-> HeapLive[a]]
  BY DEF HeapLive
<1>5. /\ \A n \in HeldBlocks :
           View(HeldBlocks, live)[Start(n[1], n[2])] = live[n]
      /\ \A a \in Addrs : (\A n \in HeldBlocks : Start(n[1], n[2]) # a)
                            => View(HeldBlocks, live)[a] = 0
  BY <1>1, <1>2, ViewFacts
<1>6. HeapLive = View(HeldBlocks, live)
  BY HeapLiveViews
<1> QED BY <1>1, <1>2, <1>3, <1>4, <1>5, <1>6

\* The block a call hands out lies in the buffer, aligned, and clear of what
\* clients hold.
LEMMA HandedVacant ==
  ASSUME IInv, NEW c \in Node, NEW s \in Nat, s <= level_size(c[1]),
         \A n \in HeldBlocks : Disjoint(c, n), NEW E
  PROVE  /\ Contract!Vacant(Start(c[1], c[2]), s, E)
         /\ \A n \in HeldBlocks :
              Contract!Apart(Start(n[1], n[2]), live[n], Start(c[1], c[2]), s)
<1> DEFINE a == Start(c[1], c[2])
<1>1. /\ a \in Nat /\ a % 8 = 0 /\ level_size(c[1]) \in Nat
      /\ End(c[1], c[2]) = a + level_size(c[1])
      /\ End(c[1], c[2]) <= total_size /\ total_size \in Nat
  BY StartFacts, NodeFacts, Geometry, InBuffer
<1> HIDE DEF a
<1>2. a + s <= total_size
  BY <1>1
<1>3. ASSUME NEW n \in HeldBlocks
      PROVE  /\ Contract!Apart(Start(n[1], n[2]), live[n], a, s)
             /\ Contract!Apart(a, s, Start(n[1], n[2]), live[n])
  <2>1. n \in Node /\ live[n] \in Nat /\ live[n] <= level_size(n[1])
    BY HeldFacts
  <2>2. /\ Start(n[1], n[2]) \in Nat /\ level_size(n[1]) \in Nat
        /\ End(n[1], n[2]) = Start(n[1], n[2]) + level_size(n[1])
    BY <2>1, NodeFacts, Geometry
  <2>3. \/ End(c[1], c[2]) <= Start(n[1], n[2])
        \/ End(n[1], n[2]) <= a
    BY DEF Disjoint, a
  <2> QED BY <2>1, <2>2, <2>3, <1>1 DEF Contract!Apart
<1>4. ASSUME NEW b \in Addrs
      PROVE  HeapLive[b] = 0 \/ Contract!Apart(a, s, b, HeapLive[b])
  BY <1>3, HeldFacts
<1>5. Contract!Vacant(a, s, E)
  BY <1>1, <1>2, <1>4 DEF Contract!Vacant
<1> QED BY <1>3, <1>5 DEF a

\* Every step of the allocator is a step of the heap, or one it does not see.
LEMMA NextHeap ==
  ASSUME IInv, IInv', [Next]_vars
  PROVE  Contract!Next \/ HeapLive' = HeapLive
<1> DEFINE at(n) == Start(n[1], n[2])
<1>a. \A m, n \in HeldBlocks' : m # n => Disjoint(m, n)
  BY DEF IInv, NoOverlap, Blocks, Disjoint, Start, End, level_size
<1>b. ASSUME live' = live PROVE HeapLive' = HeapLive
  <2>1. HeldBlocks' = HeldBlocks
    BY <1>b DEF HeldBlocks
  <2> QED BY <1>b, <2>1, HeapLiveViews
<1>c. \A n \in Node : at(n) \in Addrs
  BY StartFacts
<1>d. live \in [Node -> Sizes \cup {0}]
  BY DEF IInv, TypeOK
<1>e. HeapLive = [a \in Addrs |-> HeapLive[a]]
  BY HeldFacts
<1>1. ASSUME AllocReturn PROVE Contract!allo_alloc
  <2> DEFINE c == <<level, index>>
  <2>1. /\ c \in Node \ HeldBlocks /\ size \in Sizes \ {0}
        /\ c[1] = target_level(size) /\ c[1] \in Levels
        /\ live' = [live EXCEPT ![c] = size]
        /\ HeldBlocks' = HeldBlocks \cup {c}
    BY <1>1, AllocReturnEffect
  <2> HIDE DEF c
  <2>2. size <= level_size(c[1]) /\ size \in Nat
    BY <2>1, TargetLevel, LevelFacts, SizesAssumption
  <2>3. \A n \in HeldBlocks : Disjoint(c, n) /\ at(n) # at(c)
    BY <2>1, <1>a, HeldFacts, StartsDiffer
  <2> DEFINE f == [HeapLive EXCEPT ![at(c)] = size]
  <2>4. HeapLive' = f
    <3> HIDE DEF at
    <3>1. f = [a \in Addrs |-> IF a = at(c) THEN size ELSE HeapLive[a]]
      BY <1>e
    <3> HIDE DEF f
    <3>2. f = [a \in Addrs |-> f[a]]
      BY <3>1
    <3>3. \A n \in HeldBlocks' : f[at(n)] = live'[n]
      <4> SUFFICES ASSUME NEW n \in HeldBlocks' PROVE f[at(n)] = live'[n]
        OBVIOUS
      <4>1. CASE n = c
        BY <4>1, <3>1, <2>1, <1>c, <1>d
      <4>2. CASE n # c
        <5>1. n \in HeldBlocks /\ n \in Node
          BY <4>2, <2>1 DEF HeldBlocks
        <5>2. f[at(n)] = HeapLive[at(n)]
          BY <5>1, <3>1, <2>3, <1>c
        <5>3. HeapLive[at(n)] = live[n]
          BY <5>1, HeldFacts DEF at
        <5> QED BY <5>1, <5>2, <5>3, <4>2, <2>1, <1>d
      <4> QED BY <4>1, <4>2
    <3>4. \A a \in Addrs : (\A n \in HeldBlocks' : at(n) # a) => f[a] = 0
      <4> SUFFICES ASSUME NEW a \in Addrs, \A n \in HeldBlocks' : at(n) # a
                   PROVE  f[a] = 0
        OBVIOUS
      <4>1. a # at(c) /\ \A n \in HeldBlocks : at(n) # a
        BY <2>1
      <4> QED BY <4>1, <3>1, HeldFacts DEF at
    <3>5. HeldBlocks' \in SUBSET Node
      BY <2>1, HeldFacts
    <3>6. View(HeldBlocks', live') = f
      BY <3>2, <3>3, <3>4, <3>5, <1>a, ViewIs DEF at
    <3> QED BY <3>6, HeapLiveViews
  <2>5. Contract!Vacant(at(c), size, {})
    BY <2>1, <2>2, <2>3, HandedVacant
  <2>6. at(c) \in Addrs
    BY <2>1, <1>c
  <2> HIDE DEF at
  <2> QED BY <2>1, <2>4, <2>5, <2>6 DEF Contract!allo_alloc
<1>2. ASSUME NEW m \in Node, Free(m) PROVE Contract!allo_free
  <2>1. /\ m \in HeldBlocks /\ live' = [live EXCEPT ![m] = 0]
        /\ HeldBlocks' = HeldBlocks \ {m}
    BY <1>2, FreeEffect
  <2> DEFINE f == [HeapLive EXCEPT ![at(m)] = 0]
  <2>2. \A n \in HeldBlocks' : at(n) # at(m)
    BY <2>1, HeldFacts, StartsDiffer
  <2>3. HeapLive' = f
    <3> HIDE DEF at
    <3>1. f = [a \in Addrs |-> IF a = at(m) THEN 0 ELSE HeapLive[a]]
      BY <1>e
    <3> HIDE DEF f
    <3>2. f = [a \in Addrs |-> f[a]]
      BY <3>1
    <3>3. \A n \in HeldBlocks' : f[at(n)] = live'[n]
      <4> SUFFICES ASSUME NEW n \in HeldBlocks' PROVE f[at(n)] = live'[n]
        OBVIOUS
      <4>1. n \in HeldBlocks /\ n \in Node /\ n # m
        BY <2>1 DEF HeldBlocks
      <4>2. f[at(n)] = HeapLive[at(n)]
        BY <4>1, <3>1, <2>2, <1>c
      <4>3. HeapLive[at(n)] = live[n]
        BY <4>1, HeldFacts DEF at
      <4> QED BY <4>1, <4>2, <4>3, <2>1, <1>d
    <3>4. \A a \in Addrs : (\A n \in HeldBlocks' : at(n) # a) => f[a] = 0
      <4> SUFFICES ASSUME NEW a \in Addrs, \A n \in HeldBlocks' : at(n) # a,
                          a # at(m)
                   PROVE  f[a] = 0
        BY <3>1
      <4>1. \A n \in HeldBlocks : at(n) # a
        BY <2>1
      <4> QED BY <4>1, <3>1, HeldFacts DEF at
    <3>5. HeldBlocks' \in SUBSET Node
      BY <2>1, HeldFacts
    <3>6. View(HeldBlocks', live') = f
      BY <3>2, <3>3, <3>4, <3>5, <1>a, ViewIs DEF at
    <3> QED BY <3>6, HeapLiveViews
  <2>4. at(m) \in Addrs /\ HeapLive[at(m)] # 0
    BY <2>1, <1>c, HeldFacts
  <2> HIDE DEF at
  <2> QED BY <2>3, <2>4 DEF Contract!allo_free
<1>3. ASSUME ReallocMove PROVE Contract!allo_realloc
  <2> DEFINE c == <<level, index>>  o == old
  <2>1. /\ c \in Node \ HeldBlocks /\ size \in Sizes \ {0}
        /\ c[1] = target_level(size) /\ c[1] \in Levels
        /\ o \in HeldBlocks /\ o \in Node /\ c # o
        /\ live' = [live EXCEPT ![c] = size, ![o] = 0]
        /\ HeldBlocks' = (HeldBlocks \ {o}) \cup {c}
    BY <1>3, ReallocMoveEffect
  <2>2. InHand = {c}
    BY <1>3 DEF ReallocMove, InHand
  <2> HIDE DEF c, o
  <2>3. size <= level_size(c[1]) /\ size \in Nat
    BY <2>1, TargetLevel, LevelFacts, SizesAssumption
  <2>4. /\ \A n \in HeldBlocks : Disjoint(c, n) /\ at(n) # at(c)
        /\ \A n \in HeldBlocks : n # o => at(n) # at(o)
    <3>1. \A n \in HeldBlocks : Disjoint(c, n)
      BY <2>1, <2>2 DEF IInv, NoOverlap, Blocks
    <3> QED BY <3>1, <2>1, HeldFacts, StartsDiffer
  <2> DEFINE f == [HeapLive EXCEPT ![at(o)] = 0, ![at(c)] = size]
  <2>5. HeapLive' = f
    <3> HIDE DEF at
    <3>1. f = [a \in Addrs |-> IF a = at(c) THEN size
                               ELSE IF a = at(o) THEN 0 ELSE HeapLive[a]]
      BY <1>e, <1>c, <2>1
    <3> HIDE DEF f
    <3>2. f = [a \in Addrs |-> f[a]]
      BY <3>1
    <3>3. \A n \in HeldBlocks' : f[at(n)] = live'[n]
      <4> SUFFICES ASSUME NEW n \in HeldBlocks' PROVE f[at(n)] = live'[n]
        OBVIOUS
      <4>1. CASE n = c
        BY <4>1, <3>1, <2>1, <1>c, <1>d
      <4>2. CASE n # c
        <5>1. n \in HeldBlocks /\ n \in Node /\ n # o
          BY <4>2, <2>1 DEF HeldBlocks
        <5>2. f[at(n)] = HeapLive[at(n)]
          BY <5>1, <3>1, <2>4, <1>c
        <5>3. HeapLive[at(n)] = live[n]
          BY <5>1, HeldFacts DEF at
        <5> QED BY <5>1, <5>2, <5>3, <4>2, <2>1, <1>d
      <4> QED BY <4>1, <4>2
    <3>4. \A a \in Addrs : (\A n \in HeldBlocks' : at(n) # a) => f[a] = 0
      <4> SUFFICES ASSUME NEW a \in Addrs, \A n \in HeldBlocks' : at(n) # a
                   PROVE  f[a] = 0
        OBVIOUS
      <4>1. a # at(c) /\ \A n \in HeldBlocks : n # o => at(n) # a
        BY <2>1
      <4>2. CASE a = at(o)
        BY <4>1, <4>2, <3>1
      <4>3. CASE a # at(o)
        <5>1. \A n \in HeldBlocks : at(n) # a
          BY <4>1, <4>3
        <5> QED BY <5>1, <4>1, <4>3, <3>1, HeldFacts DEF at
      <4> QED BY <4>2, <4>3
    <3>5. HeldBlocks' \in SUBSET Node
      BY <2>1, HeldFacts
    <3>6. View(HeldBlocks', live') = f
      BY <3>2, <3>3, <3>4, <3>5, <1>a, ViewIs DEF at
    <3> QED BY <3>6, HeapLiveViews
  <2>6. /\ Contract!Vacant(at(c), size, {at(o)})
        /\ Contract!Apart(at(o), live[o], at(c), size)
    BY <2>1, <2>3, <2>4, HandedVacant
  <2>7. /\ at(c) \in Addrs /\ at(o) \in Addrs
        /\ HeapLive[at(o)] = live[o] /\ live[o] # 0
    BY <2>1, <1>c, HeldFacts
  <2> HIDE DEF at
  <2> QED BY <2>1, <2>5, <2>6, <2>7 DEF Contract!allo_realloc
<1>4. ASSUME NEW s \in Sizes, NEW r, buddy_alloc(s, r) PROVE live' = live
  BY <1>4 DEF buddy_alloc
<1>5. ASSUME \/ UNCHANGED vars
             \/ \E s \in Sizes : Alloc(s)
             \/ \E s \in Sizes : AllocNull(s)
             \/ \E n \in Node, s \in Sizes : Realloc(n, s)
             \/ Split
             \/ Merge
             \/ FreeReturn
      PROVE  live' = live
  BY <1>4, <1>5 DEF vars, Alloc, AllocNull, Realloc, Split, Merge, FreeReturn
<1> QED BY <1>b, <1>1, <1>2, <1>3, <1>5 DEF Next, Client, Running, Contract!Next

\* A new allocator is an empty heap.
LEMMA InitHeap == Init => Contract!Init
<1> SUFFICES ASSUME Init PROVE HeapLive = [a \in Addrs |-> 0]
  BY DEF Contract!Init
<1>1. HeldBlocks = {}
  BY DEF Init, HeldBlocks
<1> QED BY <1>1 DEF HeapLive

(***************************************************************************)
(* The buddy allocator keeps the contract of allo.h for every buffer,      *)
(* smallest block and set of requests: what it hands out lies in the       *)
(* buffer, is aligned to 8 bytes and shares no byte with a live block;     *)
(* realloc's new block shares none with the old one it copies from; and    *)
(* the loops in between are invisible to the client.                       *)
(***************************************************************************)
THEOREM BuddyIsHeap == Spec => ImplementsHeap
<1>1. IInv /\ IInv' /\ [Next]_vars => [Contract!Next]_HeapLive
  BY NextHeap
<1> QED BY InitHeap, <1>1, Invariance, PTL
        DEF Spec, ImplementsHeap, Contract!Spec, HeapLive

=============================================================================
