---------------------------- MODULE ArenaProofs -----------------------------
(***************************************************************************)
(* The arena allocator for every child that keeps the contract of allo.h,  *)
(* every block size and every set of requests of which none is so large    *)
(* that a sum wraps.                                                       *)
(***************************************************************************)
EXTENDS Arena, ListProofs

\* No request is within a block and its header of SIZE_MAX.
NoWrap ==
  \A n \in Sizes \cup {block_size} :
    sizeof_arena_block + block_size + n <= WordMax

\* The blocks the child has granted and not been given back.
Owned == {b \in Bases : child[b] # 0}

Types ==
  /\ phase \in {"none", "ready", "destroy", "release"}
  /\ next \in [Bases -> Bases \cup {NULL}]
  /\ bsize \in [Bases -> 0..WordMax]
  /\ offset \in [Bases -> Nat]
  /\ \A b \in Bases : offset[b] <= bsize[b]
  /\ child \in [Bases -> 0..WordMax]
  /\ saved \in Bases \cup {NULL}
  /\ live \in [Ptrs -> Sizes \cup {0}]

\* The chain lists what is owned; arena_destroy_fn has the rest of it in front
\* of its cursor.
Linked ==
  /\ phase = "none" => first = NULL /\ curr = NULL /\ Owned = {}
  /\ phase = "ready" => /\ Chain(first, next, Owned)
                        /\ current \in Owned /\ bsize[current] = block_size
                        /\ curr = NULL
  /\ phase = "destroy" => Chain(curr, next, Owned)
  /\ phase = "release" => Chain(curr, next, Owned) /\ curr # NULL /\ saved = next[curr]

\* The headers say what the child granted.
Headed ==
  /\ \A b \in Owned : child[b] = sizeof_arena_block + bsize[b]
  /\ \A b \in Bases \ Owned : bsize[b] = 0

\* The child's blocks share no byte (its contract).
OwnedApart ==
  /\ \A b \in Owned : b + child[b] <= Extent
  /\ \A b, c \in Owned : b # c => b + child[b] <= c \/ c + child[c] <= b

\* p bytes from the start of block b, below its offset.
Below(p, n, b) ==
  block_start(b) <= p /\ p + n <= block_start(b) + offset[b]

Inside ==
  /\ phase # "ready" => Held = {}
  /\ \A p \in Held : \E b \in Owned : Below(p, live[p], b)

HeldApart ==
  \A p, q \in Held : p # q => p + live[p] <= q \/ q + live[q] <= p

Usable == \A p \in Held : \A x \in Bytes(p, live[p]) : x \in unpoisoned

\* The header of a block can be read until the block is given back.
Readable == \A b \in Owned : \A x \in Bytes(b, sizeof_arena_block) : x \in unpoisoned

\* Nothing past the offset of a block is accessible, until it is given back.
Sealed ==
  \A b \in Owned :
    \A x \in Bytes(block_start(b) + offset[b], bsize[b] - offset[b]) :
      x \notin unpoisoned

IInv ==
  /\ Types /\ Linked /\ Headed /\ OwnedApart
  /\ Inside /\ HeldApart /\ Usable /\ Readable /\ Sealed

-----------------------------------------------------------------------------
(* Words and addresses *)

\* A sum that fits a word does not wrap.
LEMMA WrapFits ==
  ASSUME NEW x \in 0..WordMax
  PROVE  wrap(x) = x
<1> DEFINE M == WordMax + 1
           q == x \div M
<1>1. M \in Nat \ {0} /\ x \in Nat /\ x < M
  BY ArenaAssumption
<1> HIDE DEF M
<1>2. q \in Int /\ x = M * q + (x % M) /\ x % M \in 0..(M - 1)
  BY <1>1
<1> HIDE DEF q
<1>3. q = 0
  <2>1. ASSUME q >= 1 PROVE FALSE
    <3>1. PICK d \in Nat : q = 1 + d
      <4>1. q - 1 \in Nat /\ q = 1 + (q - 1)
        BY <1>2, <2>1
      <4> QED BY <4>1
    <3>2. M * q = M + M * d /\ M * d \in Nat
      BY <1>1, <3>1
    <3> QED BY <1>1, <1>2, <3>2
  <2>2. ASSUME q <= -1 PROVE FALSE
    <3>1. PICK d \in Nat : q = -1 - d
      <4>1. -1 - q \in Nat /\ q = -1 - (-1 - q)
        BY <1>2, <2>2
      <4> QED BY <4>1
    <3>2. M * q = -M - M * d /\ M * d \in Nat
      BY <1>1, <3>1
    <3> QED BY <1>1, <1>2, <3>2
  <2> QED BY <1>2, <2>1, <2>2
<1>4. x % M = x
  BY <1>1, <1>2, <1>3
<1> QED BY <1>4 DEF wrap, M

LEMMA SizeFacts ==
  /\ WordMax \in Nat /\ Extent \in Nat /\ block_size \in Nat \ {0}
  /\ \A n \in Sizes : n \in Nat
  /\ \A b \in Bases : b \in Nat /\ b % 8 = 0 /\ b # NULL /\ block_start(b) = b + 24
  /\ \A p \in Ptrs : p \in Nat
  /\ NULL \notin Bases
  BY ArenaAssumption DEF NULL, Ptrs, Alignment, block_start, sizeof_arena_block

\* Rounding an offset up: at most seven bytes, to a multiple of eight.
LEMMA AlignFacts ==
  ASSUME NoWrap, NEW x \in 0..block_size
  PROVE  /\ align_up(x) \in Nat
         /\ x <= align_up(x) /\ align_up(x) <= x + 7
         /\ align_up(x) % 8 = 0
<1>1. x + 8 - 1 \in 0..WordMax
  BY SizeFacts DEF NoWrap, sizeof_arena_block
<1>2. align_up(x) = 8 * ((x + 8 - 1) \div 8)
  BY <1>1, WrapFits DEF align_up, Alignment
<1> QED BY <1>2, SizeFacts

\* An owned block.
LEMMA OwnedFacts ==
  ASSUME IInv, NEW b \in Owned
  PROVE  /\ b \in Bases /\ b \in Nat /\ b # NULL /\ block_start(b) = b + 24
         /\ child[b] \in Nat /\ child[b] = 24 + bsize[b]
         /\ bsize[b] \in Nat /\ offset[b] \in Nat /\ offset[b] <= bsize[b]
         /\ b + child[b] <= Extent
<1>1. b \in Bases
  BY DEF Owned
<1>2. child[b] \in 0..WordMax /\ bsize[b] \in 0..WordMax /\ offset[b] \in Nat
      /\ offset[b] <= bsize[b]
  BY <1>1 DEF IInv, Types
<1>3. child[b] = 24 + bsize[b] /\ b + child[b] <= Extent
  BY DEF IInv, Headed, OwnedApart, sizeof_arena_block
<1> QED BY <1>1, <1>2, <1>3, SizeFacts

\* A held block and the arena block it lies in.
LEMMA HeldFacts ==
  ASSUME IInv, NEW p \in Held
  PROVE  /\ p \in Ptrs /\ p \in Nat /\ live[p] \in Nat \ {0}
         /\ phase = "ready"
         /\ \E b \in Owned : b + 24 <= p /\ p + live[p] <= b + 24 + offset[b]
<1>1. p \in Ptrs /\ live[p] # 0 /\ live[p] \in Sizes \cup {0}
  BY DEF Held, IInv, Types
<1>2. p \in Nat /\ live[p] \in Nat \ {0}
  BY <1>1, SizeFacts
<1>3. phase = "ready"
  BY DEF IInv, Inside
<1>4. PICK b \in Owned : Below(p, live[p], b)
  BY DEF IInv, Inside
<1>5. block_start(b) = b + 24
  BY OwnedFacts
<1> QED BY <1>1, <1>2, <1>3, <1>4, <1>5 DEF Below

\* Ranges inside two owned blocks share nothing unless the blocks are one.
LEMMA RangesApart ==
  ASSUME IInv, NEW b \in Owned, NEW c \in Owned, b # c,
         NEW p \in Nat, NEW m \in Nat, b + 24 <= p, p + m <= b + child[b],
         NEW q \in Nat, NEW n \in Nat, c + 24 <= q, q + n <= c + child[c]
  PROVE  p + m <= q \/ q + n <= p
<1>1. b \in Nat /\ c \in Nat /\ child[b] \in Nat /\ child[c] \in Nat
  BY OwnedFacts
<1>2. b + child[b] <= c \/ c + child[c] <= b
  BY DEF IInv, OwnedApart
<1> QED BY <1>1, <1>2

\* What the child grants is clear of every block it granted before.
LEMMA GrantFacts ==
  ASSUME NoWrap, IInv, NEW b \in Bases, NEW m \in Sizes \cup {block_size},
         child_grants(b, m)
  PROVE  /\ b \notin Owned /\ b \in Nat /\ m \in Nat
         /\ wrap(sizeof_arena_block + m) = 24 + m
         /\ 24 + m \in 1..WordMax
         /\ b + 24 + m <= Extent
         /\ \A c \in Owned : b + 24 + m <= c \/ c + child[c] <= b
<1>1. m \in Nat /\ b \in Nat /\ block_size \in Nat /\ WordMax \in Nat
  BY SizeFacts
<1>2. 24 + m \in 1..WordMax /\ 24 + m \in 0..WordMax
  BY <1>1 DEF NoWrap, sizeof_arena_block
<1>3. wrap(sizeof_arena_block + m) = 24 + m
  BY <1>2, WrapFits DEF sizeof_arena_block
<1>4. child[b] = 0 /\ ChildHeap!Vacant(b, 24 + m, {})
  BY <1>3 DEF child_grants
<1>5. b + (24 + m) <= Extent
      /\ \A c \in Bases \ {} :
           child[c] = 0 \/ b + (24 + m) <= c \/ c + child[c] <= b
  BY <1>4 DEF ChildHeap!Vacant, ChildHeap!Apart
<1>6. b + (24 + m) = b + 24 + m
  BY <1>1
<1> QED BY <1>1, <1>2, <1>3, <1>4, <1>5, <1>6 DEF Owned

-----------------------------------------------------------------------------
(* Parts of steps *)

\* The child grants b: the blocks are still apart.
LEMMA GrantStep ==
  ASSUME NoWrap, IInv, NEW b \in Bases, NEW m \in Sizes \cup {block_size},
         child_grants(b, m),
         child' = [child EXCEPT ![b] = wrap(sizeof_arena_block + m)],
         bsize' = [bsize EXCEPT ![b] = m]
  PROVE  /\ child' \in [Bases -> 0..WordMax] /\ bsize' \in [Bases -> 0..WordMax]
         /\ child'[b] = 24 + m /\ bsize'[b] = m
         /\ \A c \in Bases \ {b} : child'[c] = child[c] /\ bsize'[c] = bsize[c]
         /\ Owned' = Owned \cup {b}
         /\ OwnedApart' /\ Headed'
<1>1. /\ b \notin Owned /\ b \in Nat /\ m \in Nat
      /\ wrap(sizeof_arena_block + m) = 24 + m
      /\ 24 + m \in 1..WordMax
      /\ b + 24 + m <= Extent
      /\ \A c \in Owned : b + 24 + m <= c \/ c + child[c] <= b
  BY GrantFacts
<1>2. /\ child' \in [Bases -> 0..WordMax] /\ bsize' \in [Bases -> 0..WordMax]
      /\ child'[b] = 24 + m /\ bsize'[b] = m
      /\ \A c \in Bases \ {b} : child'[c] = child[c] /\ bsize'[c] = bsize[c]
  <2>1. 24 + m \in 0..WordMax /\ m \in 0..WordMax
    BY <1>1, SizeFacts
  <2> QED BY <1>1, <2>1 DEF IInv, Types
<1>3. Owned' = Owned \cup {b}
  <2>1. 24 + m # 0
    BY <1>1
  <2> QED BY <1>2, <2>1 DEF Owned
<1>4. OwnedApart'
  <2>1. ASSUME NEW c \in Owned', c # b
        PROVE  c \in Owned /\ child'[c] = child[c]
    BY <1>2, <1>3, <2>1 DEF Owned
  <2>2. ASSUME NEW c \in Owned' PROVE c + child'[c] <= Extent
    <3>1. b + (24 + m) <= Extent
      BY <1>1
    <3> QED BY <1>2, <2>1, <3>1, OwnedFacts
  <2>3. ASSUME NEW c \in Owned', NEW d \in Owned', c # d
        PROVE  c + child'[c] <= d \/ d + child'[d] <= c
    <3>1. \A e \in Owned : b + (24 + m) <= e \/ e + child[e] <= b
      BY <1>1
    <3>2. CASE c = b
      BY <1>2, <2>1, <2>3, <3>1, <3>2
    <3>3. CASE d = b
      BY <1>2, <2>1, <2>3, <3>1, <3>3
    <3>4. CASE c # b /\ d # b
      BY <2>1, <2>3, <3>4 DEF IInv, OwnedApart
    <3> QED BY <3>2, <3>3, <3>4
  <2> QED BY <2>2, <2>3 DEF OwnedApart
<1>5. Headed'
  <2>1. ASSUME NEW c \in Owned' PROVE child'[c] = sizeof_arena_block + bsize'[c]
    <3>1. CASE c = b
      BY <1>2, <3>1 DEF sizeof_arena_block
    <3>2. CASE c # b
      BY <1>2, <1>3, <3>2 DEF IInv, Headed, Owned
    <3> QED BY <3>1, <3>2
  <2>2. ASSUME NEW c \in Bases \ Owned' PROVE bsize'[c] = 0
    BY <1>2, <1>3 DEF IInv, Headed
  <2> QED BY <2>1, <2>2 DEF Headed, sizeof_arena_block
<1> QED BY <1>2, <1>3, <1>4, <1>5

\* A block of n bytes at p, clear of those that are held.
LEMMA HandOut ==
  ASSUME IInv, NEW p \in Ptrs, NEW n \in Sizes \ {0}, NEW drop,
         live' = [q \in Ptrs |-> IF q = p THEN n ELSE IF q \in drop THEN 0 ELSE live[q]],
         \A q \in Held : q + live[q] <= p \/ p + n <= q
  PROVE  /\ live' \in [Ptrs -> Sizes \cup {0}]
         /\ live'[p] = n /\ p \in Held'
         /\ \A q \in Held' : q # p => q \in Held /\ live'[q] = live[q]
         /\ HeldApart'
<1>1. live' \in [Ptrs -> Sizes \cup {0}]
  BY DEF IInv, Types
<1>2. live'[p] = n
  OBVIOUS
<1>3. Held' = {q \in Ptrs : live'[q] # 0}
  BY DEF Held, Ptrs, Alignment
<1>4. ASSUME NEW q \in Held', q # p PROVE q \in Held /\ live'[q] = live[q]
  BY <1>3, <1>4 DEF Held
<1>5. ASSUME NEW q \in Held', NEW r \in Held', q # r
      PROVE  q + live'[q] <= r \/ r + live'[r] <= q
  <2>1. CASE q = p
    BY <1>2, <1>4, <1>5, <2>1
  <2>2. CASE r = p
    BY <1>2, <1>4, <1>5, <2>2
  <2>3. CASE q # p /\ r # p
    BY <1>4, <1>5, <2>3 DEF IInv, HeldApart
  <2> QED BY <2>1, <2>2, <2>3
<1>6. HeldApart'
  BY <1>5 DEF HeldApart
<1> QED BY <1>1, <1>2, <1>3, <1>4, <1>6

\* The memory of a block just granted is clear of everything held.
LEMMA NewBlockFacts ==
  ASSUME NoWrap, IInv, NEW b \in Bases, NEW m \in Sizes \cup {block_size},
         child_grants(b, m), NEW n \in Sizes \ {0}, n <= m
  PROVE  /\ block_start(b) = b + 24 /\ b \in Nat /\ m \in Nat /\ n \in Nat \ {0}
         /\ b + 24 \in Ptrs /\ b + 24 + m <= Extent /\ b + 24 + n <= Extent
         /\ \A q \in Held : q + live[q] <= b \/ b + 24 + m <= q
         /\ \A q \in Held : q + live[q] <= b + 24 \/ b + 24 + n <= q
<1>1. /\ b \in Nat /\ m \in Nat /\ b + 24 + m <= Extent
      /\ \A c \in Owned : b + 24 + m <= c \/ c + child[c] <= b
  BY GrantFacts
<1>2. n \in Nat \ {0} /\ block_start(b) = b + 24 /\ b % 8 = 0 /\ Extent \in Nat
  BY SizeFacts
<1>3. b + 24 \in Ptrs
  BY <1>1, <1>2 DEF Ptrs, Alignment
<1>4. ASSUME NEW q \in Held PROVE q + live[q] <= b \/ b + 24 + m <= q
  <2>1. PICK c \in Owned : c + 24 <= q /\ q + live[q] <= c + 24 + offset[c]
    BY HeldFacts
  <2>2. q \in Nat /\ live[q] \in Nat
    BY HeldFacts
  <2>3. /\ c \in Nat /\ child[c] \in Nat /\ child[c] = 24 + bsize[c]
        /\ bsize[c] \in Nat /\ offset[c] \in Nat /\ offset[c] <= bsize[c]
    BY OwnedFacts
  <2> QED BY <1>1, <2>1, <2>2, <2>3
<1>5. ASSUME NEW q \in Held PROVE q + live[q] <= b + 24 \/ b + 24 + n <= q
  <2>1. q \in Nat /\ live[q] \in Nat
    BY HeldFacts
  <2> QED BY <1>1, <1>2, <1>4, <2>1
<1> QED BY <1>1, <1>2, <1>3, <1>4, <1>5

\* The current block and its memory past the offset.
LEMMA CurrentFacts ==
  ASSUME IInv, phase = "ready"
  PROVE  /\ current \in Owned /\ current \in Bases /\ current \in Nat
         /\ block_start(current) = current + 24
         /\ bsize[current] = block_size /\ offset[current] \in 0..block_size
         /\ child[current] = 24 + block_size
         /\ current + 24 + block_size <= Extent
         /\ \A q \in Held : \/ q + live[q] <= current + 24 + offset[current]
                            \/ current + 24 + block_size <= q
         /\ \A q \in Held : \/ current + 24 <= q
                            \/ q + live[q] <= current
<1>1. current \in Owned /\ bsize[current] = block_size
  BY DEF IInv, Linked
<1>2. /\ current \in Bases /\ current \in Nat /\ block_start(current) = current + 24
      /\ child[current] = 24 + bsize[current] /\ child[current] \in Nat
      /\ offset[current] \in Nat /\ offset[current] <= bsize[current]
      /\ current + child[current] <= Extent
  BY <1>1, OwnedFacts
<1>3. block_size \in Nat
  BY SizeFacts
<1>4. ASSUME NEW q \in Held
      PROVE  /\ \/ q + live[q] <= current + 24 + offset[current]
                \/ current + 24 + block_size <= q
             /\ \/ current + 24 <= q
                \/ q + live[q] <= current
  <2>1. PICK c \in Owned : c + 24 <= q /\ q + live[q] <= c + 24 + offset[c]
    BY HeldFacts
  <2>2. q \in Nat /\ live[q] \in Nat
    BY HeldFacts
  <2>3. CASE c = current
    BY <2>1, <2>3
  <2>4. CASE c # current
    <3>1. /\ c \in Nat /\ child[c] \in Nat /\ child[c] = 24 + bsize[c]
          /\ bsize[c] \in Nat /\ offset[c] \in Nat /\ offset[c] <= bsize[c]
      BY OwnedFacts
    <3>2. c + child[c] <= current \/ current + child[current] <= c
      BY <1>1, <2>4 DEF IInv, OwnedApart
    <3> QED BY <1>1, <1>2, <1>3, <2>1, <2>2, <3>1, <3>2
  <2> QED BY <2>3, <2>4
<1> QED BY <1>1, <1>2, <1>3, <1>4

\* Where a block that fits is put.
LEMMA BumpFacts ==
  ASSUME NoWrap, IInv, phase = "ready",
         NEW n \in Sizes \ {0}, n <= block_size, fits(n)
  PROVE  LET p == block_start(current) + align_up(offset[current])
         IN  /\ p \in Ptrs /\ p \in Nat /\ n \in Nat \ {0}
             /\ align_up(offset[current]) \in Nat
             /\ offset[current] <= align_up(offset[current])
             /\ wrap(align_up(offset[current]) + n) = align_up(offset[current]) + n
             /\ align_up(offset[current]) + n <= block_size
             /\ p + n <= Extent
             /\ \A q \in Held : q + live[q] <= p \/ p + n <= q
<1> DEFINE a == align_up(offset[current])
           p == current + 24 + a
<1>1. /\ current \in Nat /\ block_start(current) = current + 24 /\ current \in Bases
      /\ bsize[current] = block_size /\ offset[current] \in 0..block_size
      /\ current + 24 + block_size <= Extent
      /\ \A q \in Held : \/ q + live[q] <= current + 24 + offset[current]
                         \/ current + 24 + block_size <= q
  BY CurrentFacts
<1>2. a \in Nat /\ offset[current] <= a /\ a <= offset[current] + 7 /\ a % 8 = 0
  BY <1>1, AlignFacts
<1>3. n \in Nat \ {0} /\ block_size \in Nat /\ current % 8 = 0 /\ Extent \in Nat
      /\ WordMax \in Nat
  BY <1>1, SizeFacts
<1> HIDE DEF a
<1>4. a + n \in 0..WordMax
  <2>1. 24 + block_size + block_size <= WordMax
    BY DEF NoWrap, sizeof_arena_block
  <2> QED BY <1>1, <1>2, <1>3, <2>1
<1>5. wrap(a + n) = a + n
  BY <1>4, WrapFits
<1>6. a + n <= block_size
  BY <1>1, <1>5 DEF fits, a
<1>7. p \in Nat /\ p + n <= Extent /\ p % 8 = 0
  BY <1>1, <1>2, <1>3, <1>6
<1>8. p \in Ptrs
  BY <1>3, <1>7 DEF Ptrs, Alignment
<1>9. ASSUME NEW q \in Held PROVE q + live[q] <= p \/ p + n <= q
  <2>1. q \in Nat /\ live[q] \in Nat
    BY HeldFacts
  <2> QED BY <1>1, <1>2, <1>3, <1>6, <2>1
<1> QED BY <1>1, <1>2, <1>3, <1>5, <1>6, <1>7, <1>8, <1>9 DEF a

\* A byte of an owned block's memory lies in no other owned block's.
LEMMA BytesApart ==
  ASSUME IInv, NEW b \in Owned, NEW c \in Owned, NEW x \in Int,
         b + 24 <= x, x < b + 24 + bsize[b], c + 24 <= x, x < c + 24 + bsize[c]
  PROVE  b = c
<1>1. /\ b \in Nat /\ child[b] = 24 + bsize[b] /\ bsize[b] \in Nat
      /\ c \in Nat /\ child[c] = 24 + bsize[c] /\ bsize[c] \in Nat
  BY OwnedFacts
<1>2. b # c => b + child[b] <= c \/ c + child[c] <= b
  BY DEF IInv, OwnedApart
<1> QED BY <1>1, <1>2

\* A call that takes no block from the child leaves the chain as it is.
LEMMA ChainKept ==
  ASSUME IInv, phase' = phase, first' = first, current' = current, next' = next,
         bsize' = bsize, child' = child, curr' = curr, saved' = saved
  PROVE  Linked' /\ Headed' /\ OwnedApart'
<1>1. Owned' = Owned
  BY DEF Owned
<1>2. Linked'
  <2>1. phase' = "none" => first' = NULL /\ curr' = NULL /\ Owned' = {}
    BY <1>1 DEF IInv, Linked
  <2>2. phase' = "ready" =>
          /\ Chain(first', next', Owned')
          /\ current' \in Owned' /\ bsize'[current'] = block_size /\ curr' = NULL
    BY <1>1 DEF IInv, Linked
  <2>3. phase' = "destroy" => Chain(curr', next', Owned')
    BY <1>1 DEF IInv, Linked
  <2>4. phase' = "release" =>
          Chain(curr', next', Owned') /\ curr' # NULL /\ saved' = next'[curr']
    BY <1>1 DEF IInv, Linked
  <2> QED BY <2>1, <2>2, <2>3, <2>4 DEF Linked, NULL
<1>3. Headed'
  BY <1>1 DEF IInv, Headed, sizeof_arena_block
<1>4. OwnedApart'
  BY <1>1 DEF IInv, OwnedApart
<1> QED BY <1>2, <1>3, <1>4

\* The shadow of a block just granted: its header is open, its memory closed,
\* and nothing else has changed.
LEMMA FreshFacts ==
  ASSUME NoWrap, IInv, NEW b \in Bases, NEW m \in Sizes \cup {block_size},
         child_grants(b, m)
  PROVE  /\ \A x \in Bytes(b, 24) : x \in fresh(b, m)
         /\ \A x \in Bytes(b + 24, m) : x \notin fresh(b, m)
         /\ \A x \in Int : x < b \/ b + 24 + m <= x =>
              (x \in fresh(b, m) <=> x \in unpoisoned)
<1>1. b \in Nat /\ m \in Nat /\ wrap(sizeof_arena_block + m) = 24 + m
  BY GrantFacts
<1>2. block_start(b) = b + 24
  BY SizeFacts
<1>3. fresh(b, m) = (unpoisoned \cup (b..(b + (24 + m) - 1))) \ ((b + 24)..(b + 24 + m - 1))
  BY <1>1, <1>2 DEF fresh, granted, Bytes
<1> QED BY <1>1, <1>3 DEF Bytes

\* No header lies in what a client holds.
LEMMA HeaderApart ==
  ASSUME IInv, NEW p \in Held, NEW c \in Owned, NEW x \in Bytes(c, 24)
  PROVE  x \in Int /\ x \notin Bytes(p, live[p])
<1>1. PICK b \in Owned : b + 24 <= p /\ p + live[p] <= b + 24 + offset[b]
  BY HeldFacts
<1>2. p \in Nat /\ live[p] \in Nat
  BY HeldFacts
<1>3. /\ b \in Nat /\ child[b] = 24 + bsize[b] /\ bsize[b] \in Nat
      /\ offset[b] \in Nat /\ offset[b] <= bsize[b]
      /\ c \in Nat /\ child[c] = 24 + bsize[c] /\ bsize[c] \in Nat
  BY OwnedFacts
<1>4. b # c => b + child[b] <= c \/ c + child[c] <= b
  BY DEF IInv, OwnedApart
<1>5. x \in Int /\ c <= x /\ x < c + 24
  BY <1>3 DEF Bytes
<1> QED BY <1>1, <1>2, <1>3, <1>4, <1>5 DEF Bytes

-----------------------------------------------------------------------------
(* Steps *)

LEMMA InitInv == Init => IInv
<1> SUFFICES ASSUME Init PROVE IInv
  OBVIOUS
<1>1. Owned = {} /\ Held = {}
  BY DEF Init, Owned, Held
<1>2. \A b \in Bases : bsize[b] = 0 /\ offset[b] = 0
  BY DEF Init
<1>3. Types
  BY SizeFacts DEF Init, Types
<1>4. Linked /\ Headed /\ OwnedApart
  BY <1>1, <1>2 DEF Init, Linked, Headed, OwnedApart
<1>5. Inside /\ HeldApart /\ Usable
  BY <1>1 DEF Inside, HeldApart, Usable
<1>6. Readable /\ Sealed
  BY <1>1 DEF Readable, Sealed
<1> QED BY <1>3, <1>4, <1>5, <1>6 DEF IInv

LEMMA MakeStep ==
  ASSUME NoWrap, IInv, NEW b \in Bases, Make(b)
  PROVE  IInv'
<1>1. /\ phase = "none" /\ phase' = "ready" /\ child_grants(b, block_size)
      /\ first' = b /\ current' = b
      /\ next' = [next EXCEPT ![b] = NULL]
      /\ bsize' = [bsize EXCEPT ![b] = block_size]
      /\ offset' = [offset EXCEPT ![b] = 0]
      /\ child' = [child EXCEPT ![b] = wrap(sizeof_arena_block + block_size)]
      /\ unpoisoned' = fresh(b, block_size)
      /\ curr' = curr /\ saved' = saved /\ live' = live
  BY DEF Make
<1>2. block_size \in Sizes \cup {block_size}
  OBVIOUS
<1>3. /\ child' \in [Bases -> 0..WordMax] /\ bsize' \in [Bases -> 0..WordMax]
      /\ bsize'[b] = block_size
      /\ \A c \in Bases \ {b} : bsize'[c] = bsize[c]
      /\ Owned' = Owned \cup {b} /\ OwnedApart' /\ Headed'
  BY <1>1, <1>2, GrantStep
<1>4. first = NULL /\ curr = NULL /\ Owned = {} /\ Held = {}
      /\ \A c \in Bases : bsize[c] = 0 /\ offset[c] \in Nat /\ offset[c] <= bsize[c]
  BY <1>1 DEF IInv, Linked, Inside, Headed, Types
<1>5. /\ offset' \in [Bases -> Nat] /\ offset'[b] = 0
      /\ \A c \in Bases \ {b} : offset'[c] = offset[c]
      /\ next' \in [Bases -> Bases \cup {NULL}] /\ next'[b] = NULL
  BY <1>1 DEF IInv, Types
<1>6. Types'
  <2>1. \A c \in Bases : offset'[c] <= bsize'[c]
    BY <1>3, <1>4, <1>5, SizeFacts
  <2>2. live' \in [Ptrs -> Sizes \cup {0}] /\ saved' \in Bases \cup {NULL}
    BY <1>1 DEF IInv, Types
  <2> QED BY <1>1, <1>3, <1>5, <2>1, <2>2 DEF Types, Ptrs, Alignment, WordMax, NULL
<1>7. Linked'
  <2>1. Chain(b, next', {} \cup {b})
    <3>1. Chain(NULL, next, {})
      BY ChainEmpty
    <3>2. b # NULL
      BY SizeFacts
    <3> QED BY <1>5, <3>1, <3>2, ChainPush
  <2>2. Chain(first', next', Owned')
    BY <1>1, <1>3, <1>4, <2>1
  <2>3. /\ current' \in Owned' /\ bsize'[current'] = block_size /\ curr' = NULL
    BY <1>1, <1>3, <1>4
  <2> QED BY <1>1, <2>2, <2>3 DEF Linked, NULL, Chain, InOrder, Owned
<1>8. Held' = {}
  BY <1>1, <1>4 DEF Held, Ptrs, Alignment
<1>9. Inside' /\ HeldApart' /\ Usable'
  BY <1>1, <1>8 DEF Inside, HeldApart, Usable
<1>10. /\ \A x \in Bytes(b, 24) : x \in unpoisoned'
       /\ \A x \in Bytes(b + 24, block_size) : x \notin unpoisoned'
  BY <1>1, <1>2, FreshFacts
<1>11. Readable'
  BY <1>3, <1>4, <1>10 DEF Readable, Bytes, sizeof_arena_block
<1>12. Sealed'
  <2>1. ASSUME NEW c \in Owned',
               NEW x \in Bytes(block_start(c) + offset'[c], bsize'[c] - offset'[c])
        PROVE  x \notin unpoisoned'
    <3>1. c = b
      BY <1>3, <1>4
    <3>2. x \in Bytes(b + 24, block_size)
      BY <1>3, <1>5, <2>1, <3>1, SizeFacts DEF Bytes
    <3> QED BY <1>10, <3>2
  <2> QED BY <2>1 DEF Sealed, Bytes, block_start, sizeof_arena_block
<1> QED BY <1>3, <1>6, <1>7, <1>9, <1>11, <1>12 DEF IInv

\* A block of m bytes is linked in, and n of them are handed out.
LEMMA NewBlockStep ==
  ASSUME NoWrap, IInv, phase = "ready", NEW b \in Bases,
         NEW m \in Sizes \cup {block_size}, NEW n \in Sizes \ {0}, n <= m,
         NEW drop,
         child_grants(b, m),
         next' = link_after(b),
         bsize' = [bsize EXCEPT ![b] = m],
         offset' = [offset EXCEPT ![b] = n],
         child' = [child EXCEPT ![b] = wrap(sizeof_arena_block + m)],
         hand_out(fresh(b, m), block_start(b), n, drop),
         current' = current \/ (current' = b /\ m = block_size),
         phase' = phase, first' = first, curr' = curr, saved' = saved
  PROVE  IInv'
<1>1. /\ block_start(b) = b + 24 /\ b \in Nat /\ m \in Nat /\ n \in Nat \ {0}
      /\ b + 24 \in Ptrs
      /\ \A q \in Held : q + live[q] <= b \/ b + 24 + m <= q
      /\ \A q \in Held : q + live[q] <= b + 24 \/ b + 24 + n <= q
  BY NewBlockFacts
<1>2. /\ child' \in [Bases -> 0..WordMax] /\ bsize' \in [Bases -> 0..WordMax]
      /\ bsize'[b] = m
      /\ \A c \in Bases \ {b} : child'[c] = child[c] /\ bsize'[c] = bsize[c]
      /\ Owned' = Owned \cup {b} /\ OwnedApart' /\ Headed'
  BY GrantStep
<1>3. b \notin Owned
  BY GrantFacts
<1>4. current \in Owned /\ current \in Bases /\ bsize[current] = block_size
  BY CurrentFacts
<1>5. /\ offset' \in [Bases -> Nat] /\ offset'[b] = n
      /\ \A c \in Bases \ {b} : offset'[c] = offset[c]
  BY <1>1 DEF IInv, Types
<1>6. /\ next' \in [Bases -> Bases \cup {NULL}]
      /\ next'[current] = b /\ next'[b] = next[current]
      /\ \A c \in Bases \ {b, current} : next'[c] = next[c]
  BY <1>3, <1>4 DEF link_after, IInv, Types
<1>7. /\ unpoisoned' = fresh(b, m) \cup Bytes(b + 24, n)
      /\ live' = [q \in Ptrs |-> IF q = b + 24 THEN n
                                 ELSE IF q \in drop THEN 0 ELSE live[q]]
  BY <1>1 DEF hand_out
<1>8. /\ live' \in [Ptrs -> Sizes \cup {0}]
      /\ live'[b + 24] = n
      /\ \A q \in Held' : q # b + 24 => q \in Held /\ live'[q] = live[q]
      /\ HeldApart'
  <2> DEFINE p == b + 24
  <2>1. /\ p \in Ptrs /\ \A q \in Held : q + live[q] <= p \/ p + n <= q
        /\ live' = [q \in Ptrs |-> IF q = p THEN n
                                   ELSE IF q \in drop THEN 0 ELSE live[q]]
    BY <1>1, <1>7
  <2> HIDE DEF p
  <2>2. /\ live' \in [Ptrs -> Sizes \cup {0}]
        /\ live'[p] = n
        /\ \A q \in Held' : q # p => q \in Held /\ live'[q] = live[q]
        /\ HeldApart'
    BY ONLY <2>1, IInv, n \in Sizes \ {0}, HandOut
  <2> QED BY <2>2 DEF p
<1>9. Types'
  <2>1. \A c \in Bases : offset'[c] <= bsize'[c]
    BY <1>2, <1>5 DEF IInv, Types
  <2> QED BY <1>2, <1>5, <1>6, <1>8, <2>1
          DEF IInv, Types, Ptrs, Alignment, WordMax, NULL
<1>10. Linked'
  <2>1. Chain(first, next', Owned \cup {b})
    <3>1. Chain(first, next, Owned) /\ NULL \notin Owned /\ b # NULL
      BY SizeFacts DEF IInv, Linked, Owned
    <3>2. \A x \in Owned \ {current} : next'[x] = next[x]
      BY <1>3, <1>6 DEF Owned
    <3> QED BY ONLY <1>3, <1>4, <1>6, <3>1, <3>2, ChainInsert
  <2>2. Chain(first', next', Owned')
    BY <1>2, <2>1
  <2>3. current' \in Owned' /\ bsize'[current'] = block_size
    BY <1>2, <1>3, <1>4
  <2>4. curr' = NULL
    BY DEF IInv, Linked
  <2> QED BY <2>2, <2>3, <2>4 DEF Linked, NULL, Chain, InOrder, Owned
<1>11. Inside'
  <2>1. ASSUME NEW p \in Held'
        PROVE  \E c \in Owned' : block_start(c) <= p
                                 /\ p + live'[p] <= block_start(c) + offset'[c]
    <3>1. CASE p = b + 24
      <4>1. block_start(b) <= p /\ p + live'[p] <= block_start(b) + offset'[b]
        BY <1>1, <1>5, <1>8, <3>1
      <4> QED BY <1>2, <4>1
    <3>2. CASE p # b + 24
      <4>1. p \in Held /\ live'[p] = live[p]
        BY <1>8, <3>2
      <4>2. PICK c \in Owned : Below(p, live[p], c)
        BY <4>1 DEF IInv, Inside
      <4>3. c \in Owned' /\ offset'[c] = offset[c]
        BY <1>2, <1>3, <1>5 DEF Owned
      <4> QED BY <4>1, <4>2, <4>3 DEF Below
    <3> QED BY <3>1, <3>2
  <2> QED BY <2>1 DEF Inside, Below, block_start, sizeof_arena_block
<1>12. Usable'
  <2>1. ASSUME NEW p \in Held', NEW x \in Bytes(p, live'[p])
        PROVE  x \in unpoisoned'
    <3>1. CASE p = b + 24
      BY <1>7, <1>8, <2>1, <3>1
    <3>2. CASE p # b + 24
      <4>1. p \in Held /\ live'[p] = live[p] /\ p \in Nat /\ live[p] \in Nat
        BY <1>8, <3>2, HeldFacts
      <4>2. x \in unpoisoned
        BY <2>1, <4>1 DEF IInv, Usable
      <4>3. x \in Int /\ (x < b \/ b + 24 + m <= x)
        <5>1. p + live[p] <= b \/ b + 24 + m <= p
          BY <1>1, <4>1
        <5> QED BY <1>1, <2>1, <4>1, <5>1 DEF Bytes
      <4> QED BY <1>7, <4>2, <4>3, FreshFacts
    <3> QED BY <3>1, <3>2
  <2> QED BY <2>1 DEF Usable, Bytes
<1>13. ASSUME NEW c \in Owned', c # b, NEW x \in Int, c <= x, x < c + 24 + bsize[c]
       PROVE  /\ c \in Owned
              /\ x \in unpoisoned' <=> x \in unpoisoned
  <2>1. c \in Owned
    BY <1>2, <1>13
  <2>2. b + 24 + m <= c \/ c + child[c] <= b
    BY <2>1, GrantFacts
  <2>3. c \in Nat /\ child[c] = 24 + bsize[c] /\ bsize[c] \in Nat
    BY <2>1, OwnedFacts
  <2>4. x < b \/ b + 24 + m <= x
    BY <1>1, <1>13, <2>2, <2>3
  <2>5. x \notin Bytes(b + 24, n)
    BY <1>1, <2>4 DEF Bytes
  <2>6. x \in fresh(b, m) <=> x \in unpoisoned
    BY <2>4, FreshFacts
  <2> QED BY <1>7, <2>1, <2>5, <2>6
<1>14. Readable'
  <2>1. ASSUME NEW c \in Owned', NEW x \in Bytes(c, 24) PROVE x \in unpoisoned'
    <3>1. CASE c = b
      BY <1>7, <2>1, <3>1, FreshFacts
    <3>2. CASE c # b
      <4>1. c \in Owned
        BY <1>2, <3>2
      <4>2. c \in Nat /\ bsize[c] \in Nat
        BY <4>1, OwnedFacts
      <4>3. x \in Int /\ c <= x /\ x < c + 24 + bsize[c]
        BY <2>1, <4>2 DEF Bytes
      <4>4. x \in unpoisoned
        BY <2>1, <4>1 DEF IInv, Readable, sizeof_arena_block
      <4> QED BY <1>13, <3>2, <4>3, <4>4
    <3> QED BY <3>1, <3>2
  <2> QED BY <2>1 DEF Readable, Bytes, sizeof_arena_block
<1>15. Sealed'
  <2>1. ASSUME NEW c \in Owned',
               NEW x \in Bytes(block_start(c) + offset'[c], bsize'[c] - offset'[c])
        PROVE  x \notin unpoisoned'
    <3>1. CASE c = b
      <4>1. x \in Int /\ b + 24 + n <= x /\ x < b + 24 + m
        BY <1>1, <1>2, <1>5, <2>1, <3>1 DEF Bytes
      <4>2. x \in Bytes(b + 24, m) /\ x \notin Bytes(b + 24, n)
        BY <1>1, <4>1 DEF Bytes
      <4> QED BY <1>7, <4>2, FreshFacts
    <3>2. CASE c # b
      <4>1. c \in Owned /\ c \in Bases
        BY <1>2, <3>2 DEF Owned
      <4>2. bsize'[c] = bsize[c] /\ offset'[c] = offset[c]
        BY <1>2, <1>5, <3>2, <4>1
      <4>3. bsize[c] \in Nat /\ offset[c] \in Nat /\ block_start(c) = c + 24 /\ c \in Nat
        BY <4>1, OwnedFacts
      <4>4. x \notin unpoisoned
        BY <2>1, <4>1, <4>2 DEF IInv, Sealed
      <4>5. x \in Int /\ c <= x /\ x < c + 24 + bsize[c]
        BY <2>1, <4>2, <4>3 DEF Bytes
      <4> QED BY <1>13, <3>2, <4>4, <4>5
    <3> QED BY <3>1, <3>2
  <2> QED BY <2>1 DEF Sealed, Bytes, block_start, sizeof_arena_block
<1> QED BY <1>2, <1>8, <1>9, <1>10, <1>11, <1>12, <1>14, <1>15 DEF IInv

\* The current block has room.
LEMMA BumpStep ==
  ASSUME NoWrap, IInv, phase = "ready", NEW n \in Sizes, NEW drop,
         alloc_bump(n, drop)
  PROVE  IInv'
<1> DEFINE a == align_up(offset[current])
           p == block_start(current) + a
           k == current
<1>1. /\ n \in Sizes \ {0} /\ n <= block_size /\ fits(n)
      /\ offset' = [offset EXCEPT ![k] = wrap(a + n)]
      /\ unpoisoned' = unpoisoned \cup Bytes(p, n)
      /\ live' = [q \in Ptrs |-> IF q = p THEN n
                                 ELSE IF q \in drop THEN 0 ELSE live[q]]
      /\ phase' = phase /\ first' = first /\ current' = current /\ next' = next
      /\ bsize' = bsize /\ child' = child /\ curr' = curr
      /\ saved' = saved
  BY DEF alloc_bump, hand_out
<1>2. /\ p \in Ptrs /\ p \in Nat /\ n \in Nat \ {0} /\ a \in Nat /\ offset[k] <= a
      /\ wrap(a + n) = a + n /\ a + n <= block_size
      /\ \A q \in Held : q + live[q] <= p \/ p + n <= q
  BY <1>1, BumpFacts
<1>3. /\ k \in Owned /\ k \in Bases /\ k \in Nat /\ block_start(k) = k + 24
      /\ bsize[k] = block_size /\ offset[k] \in 0..block_size
  BY CurrentFacts
<1>4. p = k + 24 + a /\ block_size \in Nat
  BY <1>3, SizeFacts
<1> HIDE DEF a, p, k
<1>5. /\ offset' \in [Bases -> Nat] /\ offset'[k] = a + n
      /\ \A c \in Bases \ {k} : offset'[c] = offset[c]
  BY <1>1, <1>2, <1>3 DEF IInv, Types
<1>6. /\ live' \in [Ptrs -> Sizes \cup {0}]
      /\ live'[p] = n
      /\ \A q \in Held' : q # p => q \in Held /\ live'[q] = live[q]
      /\ HeldApart'
  BY ONLY <1>1, <1>2, IInv, HandOut
<1>7. Owned' = Owned
  BY <1>1 DEF Owned
<1>8. Types'
  <2>1. \A c \in Bases : offset'[c] <= bsize'[c]
    BY <1>1, <1>2, <1>3, <1>5 DEF IInv, Types
  <2> QED BY <1>1, <1>5, <1>6, <2>1 DEF IInv, Types, Ptrs, Alignment, WordMax, NULL
<1>9. Linked' /\ Headed' /\ OwnedApart'
  BY <1>1, ChainKept
<1>10. Inside'
  <2>1. ASSUME NEW q \in Held'
        PROVE  \E c \in Owned' : block_start(c) <= q
                                 /\ q + live'[q] <= block_start(c) + offset'[c]
    <3>1. CASE q = p
      <4>1. block_start(k) <= q /\ q + live'[q] <= block_start(k) + offset'[k]
        BY <1>2, <1>3, <1>4, <1>5, <1>6, <3>1
      <4> QED BY <1>3, <1>7, <4>1
    <3>2. CASE q # p
      <4>1. q \in Held /\ live'[q] = live[q] /\ q \in Nat /\ live[q] \in Nat
        BY <1>6, <3>2, HeldFacts
      <4>2. PICK c \in Owned : Below(q, live[q], c)
        BY <4>1 DEF IInv, Inside
      <4>3. c \in Bases /\ block_start(c) \in Nat /\ offset[c] \in Nat
            /\ offset'[c] \in Nat /\ offset[c] <= offset'[c]
        BY <1>2, <1>5, OwnedFacts
      <4>4. block_start(c) <= q /\ q + live'[q] <= block_start(c) + offset'[c]
        BY <4>1, <4>2, <4>3 DEF Below
      <4> QED BY <1>7, <4>4
    <3> QED BY <3>1, <3>2
  <2> QED BY <1>1, <2>1 DEF Inside, Below, block_start, sizeof_arena_block
<1>11. Usable'
  <2>1. ASSUME NEW q \in Held', NEW x \in Bytes(q, live'[q])
        PROVE  x \in unpoisoned'
    <3>1. CASE q = p
      BY <1>1, <1>6, <2>1, <3>1
    <3>2. CASE q # p
      BY <1>1, <1>6, <2>1, <3>2 DEF IInv, Usable
    <3> QED BY <3>1, <3>2
  <2> QED BY <2>1 DEF Usable, Bytes
<1>12. Readable'
  BY <1>1, <1>7 DEF IInv, Readable, Bytes, sizeof_arena_block
<1>13. Sealed'
  <2>1. ASSUME NEW c \in Owned',
               NEW x \in Bytes(block_start(c) + offset'[c], bsize'[c] - offset'[c])
        PROVE  x \notin unpoisoned'
    <3>1. bsize[c] \in Nat /\ offset[c] \in Nat /\ block_start(c) = c + 24 /\ c \in Nat
          /\ offset[c] <= bsize[c]
      BY <1>7, OwnedFacts
    <3>2. x \in Int /\ c + 24 + offset'[c] <= x /\ x < c + 24 + bsize[c]
      BY <1>1, <1>2, <1>5, <1>7, <2>1, <3>1 DEF Bytes, Owned
    <3>3. offset[c] <= offset'[c] /\ offset'[c] \in Nat
      BY <1>2, <1>5, <1>7, <3>1 DEF Owned
    <3>4. x \notin unpoisoned
      <4>1. x \in Bytes(block_start(c) + offset[c], bsize[c] - offset[c])
        BY <3>1, <3>2, <3>3 DEF Bytes
      <4> QED BY <1>7, <4>1 DEF IInv, Sealed
    <3>5. x \notin Bytes(p, n)
      <4> SUFFICES ASSUME x \in Bytes(p, n) PROVE FALSE
        OBVIOUS
      <4>1. k + 24 + a <= x /\ x < k + 24 + a + n
        BY <1>2, <1>3, <1>4 DEF Bytes
      <4>2. c \in Owned
        BY <1>7
      <4>3. c = k
        <5>1. /\ k + 24 <= x /\ x < k + 24 + bsize[k]
              /\ c + 24 <= x /\ x < c + 24 + bsize[c]
          BY <1>2, <1>3, <1>4, <3>1, <3>2, <3>3, <4>1
        <5> QED BY <1>3, <3>2, <4>2, <5>1, BytesApart
      <4> QED BY <1>2, <1>3, <1>5, <3>2, <4>1, <4>3
    <3> QED BY <1>1, <3>4, <3>5
  <2> QED BY <2>1 DEF Sealed, Bytes, block_start, sizeof_arena_block
<1> QED BY <1>6, <1>8, <1>9, <1>10, <1>11, <1>12, <1>13 DEF IInv

\* arena_alloc_fn, and the move of arena_realloc_fn.
LEMMA AllocStep ==
  ASSUME NoWrap, IInv, phase = "ready", NEW n \in Sizes, NEW drop,
         arena_alloc(n, drop)
  PROVE  IInv'
<1>1. n \in Nat /\ block_size \in Nat \ {0}
  BY SizeFacts
<1>2. ASSUME NEW b \in Bases, alloc_large(b, n, drop) PROVE IInv'
  <2>1. n \in Sizes \cup {block_size} /\ n \in Sizes \ {0} /\ n <= n
    BY <1>1, <1>2 DEF alloc_large
  <2> QED BY <1>2, <2>1, NewBlockStep DEF alloc_large
<1>3. ASSUME NEW b \in Bases, alloc_new_block(b, n, drop) PROVE IInv'
  <2>1. block_size \in Sizes \cup {block_size} /\ n \in Sizes \ {0} /\ n <= block_size
    BY <1>3 DEF alloc_new_block
  <2> QED BY <1>3, <2>1, NewBlockStep DEF alloc_new_block
<1> QED BY <1>2, <1>3, BumpStep DEF arena_alloc

LEMMA FreeStep ==
  ASSUME IInv, NEW p \in Ptrs, Free(p)
  PROVE  IInv'
<1>1. /\ phase = "ready" /\ p \in Held
      /\ live' = [live EXCEPT ![p] = 0]
      /\ \A x \in unpoisoned' : x \in unpoisoned
      /\ \A x \in unpoisoned : x \notin Bytes(p, live[p]) => x \in unpoisoned'
      /\ phase' = phase /\ first' = first /\ current' = current /\ next' = next
      /\ bsize' = bsize /\ offset' = offset /\ child' = child /\ curr' = curr
      /\ saved' = saved
  BY DEF Free, chain, Held
<1>2. Owned' = Owned
  BY <1>1 DEF Owned
<1>3. live' \in [Ptrs -> Sizes \cup {0}]
      /\ \A q \in Held' : q \in Held /\ q # p /\ live'[q] = live[q]
  BY <1>1 DEF IInv, Types, Held, Ptrs, Alignment
<1>4. Types'
  BY <1>1, <1>3 DEF IInv, Types, Ptrs, Alignment, WordMax, NULL
<1>5. Linked' /\ Headed' /\ OwnedApart'
  BY <1>1, ChainKept
<1>6. Inside' /\ HeldApart'
  BY <1>1, <1>2, <1>3 DEF IInv, Inside, HeldApart, Below, block_start,
                          sizeof_arena_block
<1>7. Usable'
  <2>1. ASSUME NEW q \in Held', NEW x \in Bytes(q, live'[q])
        PROVE  x \in unpoisoned'
    <3>1. q \in Held /\ q # p /\ live'[q] = live[q]
      BY <1>3
    <3>2. q \in Nat /\ live[q] \in Nat /\ p \in Nat /\ live[p] \in Nat
      BY <1>1, <3>1, HeldFacts
    <3>3. p + live[p] <= q \/ q + live[q] <= p
      BY <1>1, <3>1 DEF IInv, HeldApart
    <3>4. x \notin Bytes(p, live[p])
      BY <2>1, <3>1, <3>2, <3>3 DEF Bytes
    <3> QED BY <1>1, <2>1, <3>1, <3>4 DEF IInv, Usable
  <2> QED BY <2>1 DEF Usable, Bytes
<1>8. Readable'
  <2>1. ASSUME NEW c \in Owned, NEW x \in Bytes(c, 24) PROVE x \in unpoisoned'
    <3>1. x \in unpoisoned
      BY <2>1 DEF IInv, Readable, sizeof_arena_block
    <3>2. x \notin Bytes(p, live[p])
      BY <1>1, <2>1, HeaderApart
    <3> QED BY <1>1, <3>1, <3>2
  <2> QED BY <1>2, <2>1 DEF Readable, Bytes, sizeof_arena_block
<1>9. Sealed'
  BY <1>1, <1>2 DEF IInv, Sealed, Bytes, block_start, sizeof_arena_block
<1> QED BY <1>4, <1>5, <1>6, <1>7, <1>8, <1>9 DEF IInv

\* A block that gives up bytes at its end and leaves the rest as it is.
LEMMA ShrinkStep ==
  ASSUME IInv, NEW p \in Ptrs, NEW n \in Sizes, ReallocShrink(p, n)
  PROVE  IInv'
<1>1. /\ phase = "ready" /\ p \in Held /\ n # 0 /\ n < live[p]
      /\ live' = [live EXCEPT ![p] = n] /\ unpoisoned' = unpoisoned
      /\ phase' = phase /\ first' = first /\ current' = current /\ next' = next
      /\ bsize' = bsize /\ offset' = offset /\ child' = child /\ curr' = curr
      /\ saved' = saved
  BY DEF ReallocShrink, chain, Held
<1>2. Owned' = Owned
  BY <1>1 DEF Owned
<1>3. live' \in [Ptrs -> Sizes \cup {0}]
  BY <1>1 DEF IInv, Types
<1>4. ASSUME NEW q \in Held'
      PROVE  /\ q \in Held /\ q \in Nat /\ live[q] \in Nat
             /\ live'[q] \in Nat /\ live'[q] <= live[q]
  <2>1. q \in Ptrs /\ live'[q] # 0
    BY DEF Held, Ptrs, Alignment
  <2>2. q \in Held
    BY <1>1, <2>1 DEF Held, IInv, Types
  <2>3. q \in Nat /\ live[q] \in Nat /\ n \in Nat
    BY <2>2, HeldFacts, SizeFacts
  <2>4. live'[q] = IF q = p THEN n ELSE live[q]
    BY <1>1, <2>1 DEF IInv, Types
  <2> QED BY <1>1, <2>2, <2>3, <2>4
<1>5. Types'
  BY <1>1, <1>3 DEF IInv, Types, Ptrs, Alignment, WordMax, NULL
<1>6. Linked' /\ Headed' /\ OwnedApart'
  BY <1>1, ChainKept
<1>7. Inside'
  <2>1. ASSUME NEW q \in Held'
        PROVE  \E c \in Owned' : block_start(c) <= q
                                 /\ q + live'[q] <= block_start(c) + offset'[c]
    <3>1. PICK c \in Owned : Below(q, live[q], c)
      BY <1>4 DEF IInv, Inside
    <3>2. block_start(c) \in Nat /\ offset[c] \in Nat
      BY OwnedFacts
    <3> QED BY <1>1, <1>2, <1>4, <3>1, <3>2 DEF Below
  <2> QED BY <1>1, <2>1 DEF Inside, Below, block_start, sizeof_arena_block
<1>8. HeldApart'
  <2>1. ASSUME NEW q \in Held', NEW r \in Held', q # r
        PROVE  q + live'[q] <= r \/ r + live'[r] <= q
    <3>1. q + live[q] <= r \/ r + live[r] <= q
      BY <1>4, <2>1 DEF IInv, HeldApart
    <3> QED BY <1>4, <3>1
  <2> QED BY <2>1 DEF HeldApart
<1>9. Usable'
  <2>1. ASSUME NEW q \in Held', NEW x \in Bytes(q, live'[q])
        PROVE  x \in unpoisoned
    <3>1. x \in Bytes(q, live[q])
      BY <1>4, <2>1 DEF Bytes
    <3> QED BY <1>4, <3>1 DEF IInv, Usable
  <2> QED BY <1>1, <2>1 DEF Usable, Bytes
<1>10. Readable' /\ Sealed'
  BY <1>1, <1>2 DEF IInv, Readable, Sealed, Bytes, block_start, sizeof_arena_block
<1> QED BY <1>5, <1>6, <1>7, <1>8, <1>9, <1>10 DEF IInv

\* The last block of the current one, and where it may end.
LEMMA InPlaceFacts ==
  ASSUME NoWrap, IInv, NEW p \in Held, NEW n \in Sizes \ {0}, InPlace(p, n)
  PROVE  /\ phase = "ready" /\ p \in Ptrs /\ p \in Nat /\ n \in Nat \ {0}
         /\ live[p] \in Nat \ {0}
         /\ current \in Owned /\ current \in Bases /\ current \in Nat
         /\ block_start(current) = current + 24
         /\ bsize[current] = block_size /\ offset[current] \in 0..block_size
         /\ current + 24 <= p /\ p + live[p] = current + 24 + offset[current]
         /\ wrap(p - block_start(current) + n) = p - (current + 24) + n
         /\ p - (current + 24) + n <= block_size
         /\ p + n <= Extent
         /\ \A q \in Held : q # p => q + live[q] <= p \/ current + 24 + block_size <= q
<1>1. /\ p \in Ptrs /\ p \in Nat /\ live[p] \in Nat \ {0} /\ phase = "ready"
  BY HeldFacts
<1>2. /\ current \in Owned /\ current \in Bases /\ current \in Nat
      /\ block_start(current) = current + 24
      /\ bsize[current] = block_size /\ offset[current] \in 0..block_size
      /\ current + 24 + block_size <= Extent
      /\ \A q \in Held : \/ q + live[q] <= current + 24 + offset[current]
                         \/ current + 24 + block_size <= q
  BY <1>1, CurrentFacts
<1>3. n \in Nat \ {0} /\ block_size \in Nat /\ WordMax \in Nat /\ Extent \in Nat
  BY SizeFacts
<1>4. current + 24 <= p /\ p + live[p] = current + 24 + offset[current]
  BY <1>2 DEF InPlace, is_last_alloc
<1>5. p - (current + 24) + n \in 0..WordMax
  <2>1. 24 + block_size + n <= WordMax
    BY DEF NoWrap, sizeof_arena_block
  <2> QED BY <1>1, <1>2, <1>3, <1>4, <2>1
<1>6. wrap(p - block_start(current) + n) = p - (current + 24) + n
  BY <1>2, <1>5, WrapFits
<1>7. p - (current + 24) + n <= block_size
  BY <1>2, <1>6 DEF InPlace
<1>8. ASSUME NEW q \in Held, q # p
      PROVE  q + live[q] <= p \/ current + 24 + block_size <= q
  <2>1. q \in Nat /\ live[q] \in Nat \ {0}
    BY HeldFacts
  <2>2. p + live[p] <= q \/ q + live[q] <= p
    BY <1>8 DEF IInv, HeldApart
  <2> QED BY <1>1, <1>2, <1>4, <2>1, <2>2
<1>9. p + n <= Extent
  BY <1>1, <1>2, <1>3, <1>7
<1> QED BY <1>1, <1>2, <1>3, <1>4, <1>6, <1>7, <1>8, <1>9

\* The last block changes its size where it is, and the offset with it.
LEMMA InPlaceStep ==
  ASSUME NoWrap, IInv, NEW p \in Ptrs, NEW n \in Sizes, ReallocInPlace(p, n)
  PROVE  IInv'
<1> DEFINE k == current
           o == p - (k + 24) + n
<1>1. /\ p \in Held /\ n \in Sizes \ {0} /\ InPlace(p, n)
      /\ offset' = [offset EXCEPT ![k] = wrap(p - block_start(k) + n)]
      /\ unpoisoned' = resize_shadow(p, n)
      /\ live' = [live EXCEPT ![p] = n]
      /\ phase' = phase /\ first' = first /\ current' = current /\ next' = next
      /\ bsize' = bsize /\ child' = child /\ curr' = curr
      /\ saved' = saved
  BY DEF ReallocInPlace, Held
<1>2. /\ phase = "ready" /\ p \in Nat /\ n \in Nat \ {0} /\ live[p] \in Nat \ {0}
      /\ k \in Owned /\ k \in Bases /\ k \in Nat /\ block_start(k) = k + 24
      /\ bsize[k] = block_size /\ offset[k] \in 0..block_size
      /\ k + 24 <= p /\ p + live[p] = k + 24 + offset[k]
      /\ wrap(p - block_start(k) + n) = o /\ o <= block_size
      /\ \A q \in Held : q # p => q + live[q] <= p \/ k + 24 + block_size <= q
  BY <1>1, InPlaceFacts
<1>3. o \in Nat /\ k + 24 + o = p + n /\ block_size \in Nat
  BY <1>2, SizeFacts
<1> HIDE DEF k, o
<1>4. /\ offset' \in [Bases -> Nat] /\ offset'[k] = o
      /\ \A c \in Bases \ {k} : offset'[c] = offset[c]
  BY <1>1, <1>2, <1>3 DEF IInv, Types
<1>5. live' \in [Ptrs -> Sizes \cup {0}] /\ live'[p] = n
      /\ \A q \in Held' : q # p => q \in Held /\ live'[q] = live[q]
  BY <1>1 DEF IInv, Types, Held, Ptrs, Alignment
<1>6. Owned' = Owned
  BY <1>1 DEF Owned
<1>7. Types'
  <2>1. \A c \in Bases : offset'[c] <= bsize'[c]
    BY <1>1, <1>2, <1>4 DEF IInv, Types
  <2> QED BY <1>1, <1>4, <1>5, <2>1 DEF IInv, Types, Ptrs, Alignment, WordMax, NULL
<1>8. Linked' /\ Headed' /\ OwnedApart'
  BY <1>1, ChainKept
<1>9. ASSUME NEW q \in Held', q # p
      PROVE  /\ q \in Held /\ live'[q] = live[q] /\ q \in Nat /\ live[q] \in Nat
             /\ q + live[q] <= p \/ k + 24 + block_size <= q
  BY <1>2, <1>5, <1>9, HeldFacts
<1>10. Inside'
  <2>1. ASSUME NEW q \in Held'
        PROVE  \E c \in Owned' : block_start(c) <= q
                                 /\ q + live'[q] <= block_start(c) + offset'[c]
    <3>1. CASE q = p
      <4>1. block_start(k) <= q /\ q + live'[q] <= block_start(k) + offset'[k]
        BY <1>2, <1>3, <1>4, <1>5, <3>1
      <4> QED BY <1>2, <1>6, <4>1
    <3>2. CASE q # p
      <4>1. PICK c \in Owned : Below(q, live[q], c)
        BY <1>9, <3>2 DEF IInv, Inside
      <4>2. c \in Bases /\ c \in Nat /\ block_start(c) = c + 24 /\ offset[c] \in Nat
        BY OwnedFacts
      <4>3. CASE c = k
        <5>1. q + live[q] <= p
          BY <1>2, <1>3, <1>9, <3>2, <4>1, <4>2, <4>3, HeldFacts DEF Below
        <5>2. block_start(k) <= q /\ q + live'[q] <= block_start(k) + offset'[k]
          BY <1>2, <1>3, <1>4, <1>9, <3>2, <4>1, <4>2, <4>3, <5>1 DEF Below
        <5> QED BY <1>2, <1>6, <5>2
      <4>4. CASE c # k
        BY <1>4, <1>6, <1>9, <3>2, <4>1, <4>2, <4>4 DEF Below
      <4> QED BY <4>3, <4>4
    <3> QED BY <3>1, <3>2
  <2> QED BY <1>1, <1>2, <2>1 DEF Inside, Below, block_start, sizeof_arena_block
<1>11. HeldApart'
  <2>1. ASSUME NEW q \in Held', q # p PROVE q + live'[q] <= p \/ p + n <= q
    BY <1>2, <1>3, <1>9, <2>1
  <2>2. ASSUME NEW q \in Held', NEW r \in Held', q # r
        PROVE  q + live'[q] <= r \/ r + live'[r] <= q
    <3>1. CASE q = p
      BY <1>5, <2>1, <2>2, <3>1
    <3>2. CASE r = p
      BY <1>5, <2>1, <2>2, <3>2
    <3>3. CASE q # p /\ r # p
      BY <1>5, <2>2, <3>3 DEF IInv, HeldApart
    <3> QED BY <3>1, <3>2, <3>3
  <2> QED BY <2>2 DEF HeldApart
<1>12. /\ \A x \in unpoisoned : x \notin (p + n)..(p + live[p] - 1) => x \in unpoisoned'
       /\ \A x \in Bytes(p, n) : x \in unpoisoned'
       /\ \A x \in unpoisoned' : x \in unpoisoned \/ x \in Bytes(p, n)
       /\ \A x \in (p + n)..(p + live[p] - 1) : x \notin unpoisoned'
  <2>1. \A x \in Bytes(p, live[p]) : x \in unpoisoned
    BY <1>1 DEF IInv, Usable
  <2>2. CASE n > live[p]
    <3>1. Bytes(p + live[p], n - live[p]) = (p + live[p])..(p + n - 1)
      <4>1. (p + live[p]) + (n - live[p]) - 1 = p + n - 1
        BY <1>2
      <4> QED BY <4>1 DEF Bytes
    <3>2. unpoisoned' = unpoisoned \cup ((p + live[p])..(p + n - 1))
      BY <1>1, <2>2, <3>1 DEF resize_shadow
    <3> QED BY <1>2, <2>1, <2>2, <3>2 DEF Bytes
  <2>3. CASE ~(n > live[p])
    <3>1. Bytes(p + n, live[p] - n) = (p + n)..(p + live[p] - 1)
      <4>1. (p + n) + (live[p] - n) - 1 = p + live[p] - 1
        BY <1>2
      <4> QED BY <4>1 DEF Bytes
    <3>2. unpoisoned' = unpoisoned \ ((p + n)..(p + live[p] - 1))
      BY <1>1, <2>3, <3>1 DEF resize_shadow
    <3> QED BY <1>2, <2>1, <2>3, <3>2 DEF Bytes
  <2> QED BY <2>2, <2>3
<1>13. Usable'
  <2>1. ASSUME NEW q \in Held', NEW x \in Bytes(q, live'[q])
        PROVE  x \in unpoisoned'
    <3>1. CASE q = p
      BY <1>5, <1>12, <2>1, <3>1
    <3>2. CASE q # p
      <4>1. x \in unpoisoned
        BY <1>9, <2>1, <3>2 DEF IInv, Usable
      <4>2. x \notin (p + n)..(p + live[p] - 1)
        <5>1. q + live[q] <= p \/ k + 24 + block_size <= q
          BY <1>9, <3>2
        <5>2. x \in Int /\ q <= x /\ x < q + live[q]
          BY <1>9, <2>1, <3>2 DEF Bytes
        <5> QED BY <1>2, <1>3, <1>9, <3>2, <5>1, <5>2
      <4> QED BY <1>12, <4>1, <4>2
    <3> QED BY <3>1, <3>2
  <2> QED BY <2>1 DEF Usable, Bytes
<1>14. Readable'
  <2>1. ASSUME NEW c \in Owned, NEW x \in Bytes(c, 24) PROVE x \in unpoisoned'
    <3>1. x \in unpoisoned
      BY <2>1 DEF IInv, Readable, sizeof_arena_block
    <3>2. x \in Int /\ x \notin Bytes(p, live[p])
      BY <1>1, <2>1, HeaderApart
    <3>3. x \notin (p + n)..(p + live[p] - 1)
      BY <1>2, <3>2 DEF Bytes
    <3> QED BY <1>12, <3>1, <3>3
  <2> QED BY <1>6, <2>1 DEF Readable, Bytes, sizeof_arena_block
<1>15. Sealed'
  <2>1. ASSUME NEW c \in Owned',
               NEW x \in Bytes(block_start(c) + offset'[c], bsize'[c] - offset'[c])
        PROVE  x \notin unpoisoned'
    <3>1. bsize[c] \in Nat /\ offset[c] \in Nat /\ block_start(c) = c + 24 /\ c \in Nat
          /\ offset[c] <= bsize[c]
      BY <1>6, OwnedFacts
    <3>2. x \in Int /\ c + 24 + offset'[c] <= x /\ x < c + 24 + bsize[c]
          /\ offset'[c] \in Nat
      BY <1>1, <1>4, <1>6, <2>1, <3>1 DEF Bytes, Owned
    <3>3. CASE c = k
      <4>1. p + n <= x /\ x < k + 24 + block_size
        BY <1>2, <1>3, <1>4, <3>2, <3>3
      <4>2. CASE x < p + live[p]
        <5>1. x \in (p + n)..(p + live[p] - 1)
          BY <1>2, <3>2, <4>1, <4>2
        <5> QED BY <1>12, <5>1
      <4>3. CASE ~(x < p + live[p])
        <5>1. x \in Bytes(block_start(k) + offset[k], bsize[k] - offset[k])
          BY <1>2, <1>3, <3>2, <4>1, <4>3 DEF Bytes
        <5>2. x \notin unpoisoned
          BY <1>2, <5>1 DEF IInv, Sealed
        <5>3. x \notin Bytes(p, n)
          BY <1>2, <3>2, <4>1 DEF Bytes
        <5> QED BY <1>12, <5>2, <5>3
      <4> QED BY <4>2, <4>3
    <3>4. CASE c # k
      <4>1. x \notin unpoisoned
        BY <1>1, <1>4, <1>6, <2>1, <3>4, OwnedFacts DEF IInv, Sealed
      <4>2. c \in Owned
        BY <1>6
      <4>3. x \notin Bytes(p, n)
        <5> SUFFICES ASSUME x \in Bytes(p, n) PROVE FALSE
          OBVIOUS
        <5>1. p <= x /\ x < p + n
          BY <1>2 DEF Bytes
        <5>2. /\ k + 24 <= x /\ x < k + 24 + bsize[k]
              /\ c + 24 <= x /\ x < c + 24 + bsize[c]
          BY <1>2, <1>3, <3>1, <3>2, <5>1
        <5> QED BY <1>2, <3>2, <3>4, <4>2, <5>2, BytesApart
      <4> QED BY <1>12, <4>1, <4>3
    <3> QED BY <3>3, <3>4
  <2> QED BY <2>1 DEF Sealed, Bytes, block_start, sizeof_arena_block
<1> QED BY <1>7, <1>8, <1>10, <1>11, <1>13, <1>14, <1>15 DEF IInv

LEMMA DestroyStep ==
  ASSUME IInv, Destroy
  PROVE  IInv'
<1>1. /\ phase = "ready" /\ phase' = "destroy" /\ curr' = first
      /\ live' = [p \in Ptrs |-> 0] /\ unpoisoned' = unpoisoned
      /\ first' = first /\ current' = current /\ next' = next
      /\ bsize' = bsize /\ offset' = offset /\ child' = child /\ saved' = saved
  BY DEF Destroy, chain
<1>2. Owned' = Owned /\ Owned \in SUBSET Bases
  BY <1>1 DEF Owned
<1>3. Chain(first, next, Owned)
  BY <1>1 DEF IInv, Linked
<1>4. Linked'
  <2>1. Chain(curr', next', Owned')
    BY <1>1, <1>2, <1>3
  <2> QED BY <1>1, <2>1 DEF Linked, NULL
<1>5. Types'
  BY <1>1 DEF IInv, Types, Ptrs, Alignment, WordMax, NULL
<1>6. Headed' /\ OwnedApart'
  BY <1>1, <1>2 DEF IInv, Headed, OwnedApart, sizeof_arena_block
<1>7. Held' = {}
  BY <1>1 DEF Held, Ptrs, Alignment
<1>8. Inside' /\ HeldApart' /\ Usable'
  BY <1>7 DEF Inside, HeldApart, Usable
<1>9. Readable' /\ Sealed'
  BY <1>1, <1>2 DEF IInv, Readable, Sealed, Bytes, block_start, sizeof_arena_block
<1> QED BY <1>4, <1>5, <1>6, <1>8, <1>9 DEF IInv

\* The link is read while the block is still the arena's.
LEMMA DestroyNextStep ==
  ASSUME IInv, DestroyNext
  PROVE  IInv'
<1>1. /\ phase = "destroy" /\ curr # NULL /\ phase' = "release"
      /\ saved' = next[curr] /\ curr' = curr
      /\ first' = first /\ current' = current /\ next' = next
      /\ bsize' = bsize /\ offset' = offset /\ child' = child
      /\ unpoisoned' = unpoisoned /\ live' = live
  BY DEF DestroyNext, chain
<1>2. Owned' = Owned /\ NULL \notin Owned
  BY <1>1, SizeFacts DEF Owned
<1>3. Chain(curr, next, Owned)
  BY <1>1 DEF IInv, Linked
<1>4. curr \in Bases
  <2>1. curr \in Owned \cup {NULL}
    BY <1>2, <1>3, ChainHead
  <2> QED BY <1>1, <2>1 DEF Owned
<1>5. Linked'
  <2>1. Chain(curr', next', Owned') /\ curr' # NULL /\ saved' = next'[curr']
    BY <1>1, <1>2, <1>3
  <2> QED BY <1>1, <2>1 DEF Linked, NULL
<1>6. Types'
  <2>1. next[curr] \in Bases \cup {NULL}
    BY <1>4 DEF IInv, Types
  <2> QED BY <1>1, <2>1 DEF IInv, Types, Ptrs, Alignment, WordMax, NULL
<1>7. Headed' /\ OwnedApart'
  BY <1>1, <1>2 DEF IInv, Headed, OwnedApart, sizeof_arena_block
<1>8. Held = {} /\ Held' = {}
  BY <1>1 DEF IInv, Inside, Held, Ptrs, Alignment
<1>9. Inside' /\ HeldApart' /\ Usable'
  BY <1>8 DEF Inside, HeldApart, Usable
<1>10. Readable' /\ Sealed'
  BY <1>1, <1>2 DEF IInv, Readable, Sealed, Bytes, block_start, sizeof_arena_block
<1> QED BY <1>5, <1>6, <1>7, <1>9, <1>10 DEF IInv

\* The child is given back a block as it granted it, and does with it what it
\* likes: the cursor moves on to the link that was read before.
LEMMA DestroyBlockStep ==
  ASSUME IInv, DestroyBlock
  PROVE  IInv'
<1>1. /\ phase = "release" /\ phase' = "destroy"
      /\ child' = [child EXCEPT
           ![curr] = child_takes(curr, wrap(sizeof_arena_block + bsize[curr]))]
      /\ child_reuses(curr)
      /\ curr' = saved /\ saved' = NULL
      /\ first' = first /\ current' = current /\ live' = live
  BY DEF DestroyBlock, advance
<1>2. Chain(curr, next, Owned) /\ curr # NULL /\ saved = next[curr] /\ NULL \notin Owned
  BY <1>1, SizeFacts DEF IInv, Linked, Owned
<1>3. curr \in Owned /\ curr \in Bases
  <2>1. curr \in Owned \cup {NULL}
    BY <1>2, ChainHead
  <2> QED BY <1>2, <2>1 DEF Owned
<1>4. /\ next' \in [Bases -> Bases \cup {NULL}] /\ bsize' \in [Bases -> 0..WordMax]
      /\ offset' \in [Bases -> Nat] /\ bsize'[curr] = 0 /\ offset'[curr] = 0
      /\ \A b \in Bases \ {curr} :
           next'[b] = next[b] /\ bsize'[b] = bsize[b] /\ offset'[b] = offset[b]
  <2>1. PICK y \in Bases \cup {NULL} : next' = [next EXCEPT ![curr] = y]
    BY <1>1 DEF child_reuses
  <2>2. bsize' = [bsize EXCEPT ![curr] = 0] /\ offset' = [offset EXCEPT ![curr] = 0]
    BY <1>1 DEF child_reuses
  <2>3. 0 \in 0..WordMax
    BY SizeFacts
  <2> QED BY <1>3, <2>1, <2>2, <2>3 DEF IInv, Types
<1>5. Chain(saved, next', Owned \ {curr})
  <2>1. \A y \in Owned \ {curr} : next'[y] = next[y]
    BY <1>4 DEF Owned
  <2> QED BY ONLY <1>2, <2>1, ChainPop
<1>6. child' = [child EXCEPT ![curr] = 0]
  <2>1. child[curr] = sizeof_arena_block + bsize[curr] /\ child[curr] # 0
    BY <1>3 DEF IInv, Headed, Owned
  <2>2. child[curr] \in 0..WordMax
    BY <1>3 DEF IInv, Types
  <2>3. wrap(sizeof_arena_block + bsize[curr]) = child[curr]
    BY <2>1, <2>2, WrapFits
  <2> QED BY <1>1, <2>1, <2>3 DEF child_takes
<1>7. /\ child' \in [Bases -> 0..WordMax]
      /\ Owned' = Owned \ {curr}
      /\ \A b \in Owned' : child'[b] = child[b]
  <2>1. 0 \in 0..WordMax
    BY SizeFacts
  <2> QED BY <1>3, <1>6, <2>1 DEF IInv, Types, Owned
<1>8. ASSUME NEW b \in Owned'
      PROVE  /\ b \in Owned /\ b # curr /\ b \in Bases
             /\ bsize'[b] = bsize[b] /\ offset'[b] = offset[b]
  BY <1>4, <1>7 DEF Owned
<1>9. Types'
  <2>1. \A b \in Bases : offset'[b] <= bsize'[b]
    BY <1>4 DEF IInv, Types
  <2>2. live' \in [Ptrs -> Sizes \cup {0}]
    BY <1>1 DEF IInv, Types
  <2> QED BY <1>1, <1>4, <1>7, <2>1, <2>2 DEF Types, Ptrs, Alignment, WordMax, NULL
<1>10. Linked'
  <2>1. Chain(curr', next', Owned')
    BY <1>1, <1>5, <1>7
  <2> QED BY <1>1, <2>1 DEF Linked, NULL
<1>11. Headed'
  <2>1. ASSUME NEW b \in Owned' PROVE child'[b] = sizeof_arena_block + bsize'[b]
    BY <1>7, <1>8 DEF IInv, Headed
  <2>2. ASSUME NEW b \in Bases \ Owned' PROVE bsize'[b] = 0
    BY <1>4, <1>7 DEF IInv, Headed
  <2> QED BY <2>1, <2>2 DEF Headed, sizeof_arena_block
<1>12. OwnedApart'
  BY <1>7 DEF IInv, OwnedApart
<1>13. Held = {} /\ Held' = {}
  BY <1>1 DEF IInv, Inside, Held, Ptrs, Alignment
<1>14. Inside' /\ HeldApart' /\ Usable'
  BY <1>13 DEF Inside, HeldApart, Usable
<1>15. ASSUME NEW b \in Owned', NEW x \in Int, b <= x, x < b + 24 + bsize[b]
       PROVE  x \in unpoisoned' <=> x \in unpoisoned
  <2>1. x \notin Bytes(curr, child[curr])
    <3>1. /\ b \in Nat /\ child[b] = 24 + bsize[b] /\ bsize[b] \in Nat
          /\ curr \in Nat /\ child[curr] \in Nat
      BY <1>3, <1>8, OwnedFacts
    <3>2. b + child[b] <= curr \/ curr + child[curr] <= b
      BY <1>3, <1>8 DEF IInv, OwnedApart
    <3> QED BY <1>15, <3>1, <3>2 DEF Bytes
  <2> QED BY <1>1, <2>1 DEF child_reuses
<1>16. Readable'
  <2>1. ASSUME NEW b \in Owned', NEW x \in Bytes(b, 24) PROVE x \in unpoisoned'
    <3>1. b \in Nat /\ bsize[b] \in Nat
      BY <1>8, OwnedFacts
    <3>2. x \in Int /\ b <= x /\ x < b + 24 + bsize[b]
      BY <2>1, <3>1 DEF Bytes
    <3>3. x \in unpoisoned
      BY <1>8, <2>1 DEF IInv, Readable, sizeof_arena_block
    <3> QED BY <1>15, <3>2, <3>3
  <2> QED BY <2>1 DEF Readable, Bytes, sizeof_arena_block
<1>17. Sealed'
  <2>1. ASSUME NEW b \in Owned',
               NEW x \in Bytes(block_start(b) + offset'[b], bsize'[b] - offset'[b])
        PROVE  x \notin unpoisoned'
    <3>1. bsize[b] \in Nat /\ offset[b] \in Nat /\ block_start(b) = b + 24 /\ b \in Nat
      BY <1>8, OwnedFacts
    <3>2. x \notin unpoisoned
      BY <1>8, <2>1 DEF IInv, Sealed
    <3>3. x \in Int /\ b <= x /\ x < b + 24 + bsize[b]
      BY <1>8, <2>1, <3>1 DEF Bytes
    <3> QED BY <1>15, <3>2, <3>3
  <2> QED BY <2>1 DEF Sealed, Bytes, block_start, sizeof_arena_block
<1> QED BY <1>9, <1>10, <1>11, <1>12, <1>14, <1>16, <1>17 DEF IInv

LEMMA DestroyReturnStep ==
  ASSUME IInv, DestroyReturn
  PROVE  IInv'
<1>1. /\ phase = "destroy" /\ curr = NULL /\ phase' = "none"
      /\ first' = NULL /\ current' = NULL
      /\ next' = [b \in Bases |-> NULL]
      /\ bsize' = [b \in Bases |-> 0]
      /\ offset' = [b \in Bases |-> 0]
      /\ child' = child /\ curr' = curr /\ saved' = saved
      /\ unpoisoned' = unpoisoned /\ live' = live
  BY DEF DestroyReturn
<1>2. Owned = {} /\ Owned' = {}
  <2>1. Chain(curr, next, Owned) /\ NULL \notin Owned
    BY <1>1, SizeFacts DEF IInv, Linked, Owned
  <2>2. Owned = {}
    BY <1>1, <2>1, ChainHead
  <2> QED BY <1>1, <2>2 DEF Owned
<1>3. Types'
  <2>1. 0 \in 0..WordMax
    BY SizeFacts
  <2>2. next' \in [Bases -> Bases \cup {NULL}] /\ bsize' \in [Bases -> 0..WordMax]
        /\ offset' \in [Bases -> Nat] /\ \A b \in Bases : offset'[b] <= bsize'[b]
    BY <1>1, <2>1
  <2> QED BY <1>1, <2>2 DEF IInv, Types, Ptrs, Alignment, WordMax, NULL
<1>4. Linked'
  BY <1>1, <1>2 DEF Linked, NULL
<1>5. Headed' /\ OwnedApart'
  BY <1>1, <1>2 DEF Headed, OwnedApart
<1>6. Held' = {}
  BY <1>1 DEF IInv, Inside, Held, Ptrs, Alignment
<1>7. Inside' /\ HeldApart' /\ Usable'
  BY <1>6 DEF Inside, HeldApart, Usable
<1>8. Readable' /\ Sealed'
  BY <1>2 DEF Readable, Sealed
<1> QED BY <1>3, <1>4, <1>5, <1>7, <1>8 DEF IInv

LEMMA NextInv == NoWrap /\ IInv /\ [Next]_vars => IInv'
<1> SUFFICES ASSUME NoWrap, IInv, [Next]_vars PROVE IInv'
  OBVIOUS
<1>1. ASSUME UNCHANGED vars PROVE IInv'
  <2>1. /\ phase' = phase /\ first' = first /\ current' = current /\ next' = next
        /\ bsize' = bsize /\ offset' = offset /\ child' = child /\ curr' = curr
        /\ saved' = saved
        /\ unpoisoned' = unpoisoned /\ live' = live
    BY <1>1 DEF vars, chain
  <2>2. Linked' /\ Headed' /\ OwnedApart'
    BY <2>1, ChainKept
  <2>3. Types'
    BY <2>1 DEF IInv, Types, Ptrs, Alignment, WordMax, NULL
  <2>4. Held' = Held /\ Owned' = Owned
    BY <2>1 DEF Held, Owned, Ptrs, Alignment
  <2>5. Inside' /\ HeldApart' /\ Usable' /\ Readable' /\ Sealed'
    BY <2>1, <2>4 DEF IInv, Inside, HeldApart, Usable, Readable, Sealed, Below, Bytes,
                      block_start, sizeof_arena_block
  <2> QED BY <2>2, <2>3, <2>5 DEF IInv
<1>2. ASSUME NEW n \in Sizes, Alloc(n) PROVE IInv'
  BY <1>2, AllocStep DEF Alloc
<1>3. ASSUME NEW n \in Sizes, AllocNull(n) PROVE IInv'
  BY <1>1, <1>3 DEF AllocNull
<1>4. ASSUME MakeFails PROVE IInv'
  BY <1>1, <1>4 DEF MakeFails
<1>5. ASSUME NEW p \in Ptrs, NEW n \in Sizes, ReallocMove(p, n) PROVE IInv'
  BY <1>5, AllocStep DEF ReallocMove
<1> QED BY <1>1, <1>2, <1>3, <1>4, <1>5, MakeStep, FreeStep, ShrinkStep, InPlaceStep,
           DestroyStep, DestroyNextStep, DestroyBlockStep, DestroyReturnStep DEF Next

LEMMA Invariance == NoWrap => (Spec => []IInv)
<1> SUFFICES ASSUME NoWrap PROVE Spec => []IInv
  OBVIOUS
<1>1. IInv /\ [Next]_vars => IInv'
  BY NextInv
<1> QED BY InitInv, <1>1, PTL DEF Spec

-----------------------------------------------------------------------------
(* Results *)

\* What the loop of arena_contains_fn meets.
LEMMA ReachFacts ==
  ASSUME IInv, phase = "ready"
  PROVE  Reach = Owned /\ first \in Bases
<1>1. NULL \notin Owned /\ IsFiniteSet(Bases) /\ Owned \subseteq Bases
  BY SizeFacts, ArenaAssumption DEF Owned
<1>2. Chain(first, next, Owned) /\ current \in Owned
  BY DEF IInv, Linked
<1>3. Reach = Owned
  BY ONLY <1>1, <1>2, ChainWalk DEF Reach
<1>4. first \in Owned \cup {NULL} /\ (first = NULL <=> Owned = {})
  BY <1>1, <1>2, ChainHead
<1> QED BY <1>1, <1>2, <1>3, <1>4

(***************************************************************************)
(* When no sum wraps: the current block is one of the chain, and no block  *)
(* is given back to the child twice or with another size.                  *)
(***************************************************************************)
THEOREM ArenaTypes == NoWrap => (Spec => []TypeOK)
<1> SUFFICES ASSUME NoWrap PROVE Spec => []TypeOK
  OBVIOUS
<1>1. ASSUME IInv PROVE TypeOK
  <2>1. phase = "ready" => first \in Bases /\ current \in Reach
    BY <1>1, ReachFacts DEF IInv, Linked
  <2>2. \A b \in Bases : offset[b] \in 0..bsize[b]
    BY <1>1, SizeFacts DEF IInv, Types
  <2>3. curr \in Bases \cup {NULL}
    <3>1. CASE phase \in {"none", "ready"}
      BY <1>1, <3>1 DEF IInv, Linked, Types
    <3>2. CASE phase \in {"destroy", "release"}
      <4>1. Chain(curr, next, Owned) /\ NULL \notin Owned
        BY <1>1, <3>2, SizeFacts DEF IInv, Linked, Owned
      <4>2. curr \in Owned \cup {NULL}
        BY <4>1, ChainHead
      <4> QED BY <4>2 DEF Owned
    <3> QED BY <1>1, <3>1, <3>2 DEF IInv, Types
  <2> QED BY <1>1, <2>1, <2>2, <2>3 DEF IInv, Types, TypeOK
<1> QED BY <1>1, Invariance, PTL

(***************************************************************************)
(* ... the chain holds exactly the blocks the child granted, with their    *)
(* sizes, whichever requests got a block of their own in between.          *)
(***************************************************************************)
THEOREM ChainHoldsAll == NoWrap => (Spec => []ChainComplete)
<1> SUFFICES ASSUME NoWrap PROVE Spec => []ChainComplete
  OBVIOUS
<1>1. ASSUME IInv PROVE ChainComplete
  BY <1>1, ReachFacts DEF IInv, Headed, ChainComplete, Owned
<1> QED BY <1>1, Invariance, PTL

(***************************************************************************)
(* ... every live block lies below the offset of a block of the chain:     *)
(* arena_contains_fn finds it, and no later bump reaches it.               *)
(***************************************************************************)
THEOREM LiveFound == NoWrap => (Spec => []LiveInChain)
<1> SUFFICES ASSUME NoWrap PROVE Spec => []LiveInChain
  OBVIOUS
<1>1. ASSUME IInv PROVE LiveInChain
  <2> SUFFICES ASSUME NEW p \in Held
               PROVE  \E b \in Reach : Below(p, live[p], b)
    BY DEF LiveInChain, Below
  <2>1. phase = "ready" /\ \E b \in Owned : Below(p, live[p], b)
    BY <1>1 DEF IInv, Inside
  <2> QED BY <1>1, <2>1, ReachFacts
<1> QED BY <1>1, Invariance, PTL

(***************************************************************************)
(* ... and lies in memory the child granted.  Without NoWrap this fails    *)
(* (the run ArenaWrap): the wrapping sums are the only way out.            *)
(***************************************************************************)
THEOREM OnlyWrapLeavesChild == NoWrap => (Spec => []InsideChild)
<1> SUFFICES ASSUME NoWrap PROVE Spec => []InsideChild
  OBVIOUS
<1>1. ASSUME IInv PROVE InsideChild
  <2> SUFFICES ASSUME NEW p \in Held
               PROVE  \E b \in Bases : b <= p /\ p + live[p] <= b + child[b]
    BY DEF InsideChild
  <2>1. PICK b \in Owned : b + 24 <= p /\ p + live[p] <= b + 24 + offset[b]
    BY <1>1, HeldFacts
  <2>2. p \in Nat /\ live[p] \in Nat
    BY <1>1, HeldFacts
  <2>3. /\ b \in Bases /\ b \in Nat /\ child[b] = 24 + bsize[b]
        /\ bsize[b] \in Nat /\ offset[b] \in Nat /\ offset[b] <= bsize[b]
    BY <1>1, OwnedFacts
  <2> QED BY <2>1, <2>2, <2>3
<1> QED BY <1>1, Invariance, PTL

(***************************************************************************)
(* ... arena_destroy_fn gives every block back to the child.               *)
(***************************************************************************)
THEOREM ArenaGivesAllBack == NoWrap => (Spec => []NothingLeaked)
<1> SUFFICES ASSUME NoWrap PROVE Spec => []NothingLeaked
  OBVIOUS
<1>1. IInv => NothingLeaked
  BY DEF IInv, Linked, NothingLeaked, Owned
<1> QED BY <1>1, Invariance, PTL

(***************************************************************************)
(* ... and, whatever the child did with the bytes before, the shadow of    *)
(* every block it has granted lets the arena read the header and clients   *)
(* use what they hold, and nothing past the block's offset, also while the *)
(* chain is torn down.                                                     *)
(***************************************************************************)
THEOREM ArenaShadow == NoWrap => (Spec => []ShadowSound)
<1> SUFFICES ASSUME NoWrap PROVE Spec => []ShadowSound
  OBVIOUS
<1>1. ASSUME IInv PROVE ShadowSound
  <2>1. \A p \in Held : Bytes(p, live[p]) \subseteq unpoisoned
    BY <1>1 DEF IInv, Usable
  <2>2. \A b \in Owned :
          /\ Bytes(b, sizeof_arena_block) \subseteq unpoisoned
          /\ unpoisoned \cap Bytes(block_start(b) + offset[b], bsize[b] - offset[b]) = {}
    BY <1>1 DEF IInv, Readable, Sealed
  <2> QED BY <2>1, <2>2 DEF ShadowSound, Owned
<1> QED BY <1>1, Invariance, PTL

\* A block that is put clear of the held ones is one the heap may hand out.
LEMMA ClearVacant ==
  ASSUME IInv, NEW p \in Ptrs, NEW n, p + n <= Extent, NEW X,
         \A q \in Held : q \notin X => q + live[q] <= p \/ p + n <= q
  PROVE  Contract!Vacant(p, n, X)
<1>1. p % Alignment = 0
  BY DEF Ptrs
<1>2. ASSUME NEW q \in Ptrs \ X PROVE live[q] = 0 \/ Contract!Apart(p, n, q, live[q])
  BY DEF Held, Contract!Apart
<1> QED BY <1>1, <1>2 DEF Contract!Vacant

\* Where arena_alloc_fn puts a block, whichever way it takes.
LEMMA AllocPlace ==
  ASSUME NoWrap, IInv, phase = "ready", NEW n \in Sizes, NEW drop,
         arena_alloc(n, drop)
  PROVE  \E p \in Ptrs :
           /\ n \in Sizes \ {0} /\ p + n <= Extent
           /\ \A q \in Held : q + live[q] <= p \/ p + n <= q
           /\ live' = [q \in Ptrs |-> IF q = p THEN n
                                      ELSE IF q \in drop THEN 0 ELSE live[q]]
<1>1. n \in Nat /\ block_size \in Nat \ {0}
  BY SizeFacts
<1>2. ASSUME NEW b \in Bases, NEW m \in Sizes \cup {block_size},
             child_grants(b, m), n # 0, n <= m,
             hand_out(fresh(b, m), block_start(b), n, drop)
      PROVE  \E p \in Ptrs :
               /\ n \in Sizes \ {0} /\ p + n <= Extent
               /\ \A q \in Held : q + live[q] <= p \/ p + n <= q
               /\ live' = [q \in Ptrs |-> IF q = p THEN n
                                          ELSE IF q \in drop THEN 0 ELSE live[q]]
  <2> DEFINE p == block_start(b)
  <2>1. n \in Sizes \ {0}
    BY <1>2
  <2>2. /\ p \in Ptrs /\ p + n <= Extent
        /\ \A q \in Held : q + live[q] <= p \/ p + n <= q
    BY <1>2, <2>1, NewBlockFacts
  <2>3. live' = [q \in Ptrs |-> IF q = p THEN n
                                ELSE IF q \in drop THEN 0 ELSE live[q]]
    BY <1>2 DEF hand_out
  <2> HIDE DEF p
  <2> QED BY <2>1, <2>2, <2>3
<1>3. CASE \E b \in Bases : alloc_large(b, n, drop)
  <2>1. PICK b \in Bases : alloc_large(b, n, drop)
    BY <1>3
  <2>2. n \in Sizes \cup {block_size} /\ n # 0 /\ n <= n
        /\ child_grants(b, n) /\ hand_out(fresh(b, n), block_start(b), n, drop)
    BY <1>1, <2>1 DEF alloc_large
  <2> QED BY <1>2, <2>2
<1>4. CASE \E b \in Bases : alloc_new_block(b, n, drop)
  <2>1. PICK b \in Bases : alloc_new_block(b, n, drop)
    BY <1>4
  <2>2. block_size \in Sizes \cup {block_size} /\ n # 0 /\ n <= block_size
        /\ child_grants(b, block_size)
        /\ hand_out(fresh(b, block_size), block_start(b), n, drop)
    BY <2>1 DEF alloc_new_block
  <2> QED BY <1>2, <2>2
<1>5. CASE alloc_bump(n, drop)
  <2> DEFINE p == block_start(current) + align_up(offset[current])
  <2>1. n \in Sizes \ {0} /\ n <= block_size /\ fits(n)
    BY <1>5 DEF alloc_bump
  <2>2. /\ p \in Ptrs /\ p + n <= Extent
        /\ \A q \in Held : q + live[q] <= p \/ p + n <= q
    BY <2>1, BumpFacts
  <2>3. live' = [q \in Ptrs |-> IF q = p THEN n
                                ELSE IF q \in drop THEN 0 ELSE live[q]]
    BY <1>5 DEF alloc_bump, hand_out
  <2> HIDE DEF p
  <2> QED BY <2>1, <2>2, <2>3
<1> QED BY <1>3, <1>4, <1>5 DEF arena_alloc

\* Every step is one of the heap's, or one it does not see.
LEMMA NextHeap ==
  ASSUME NoWrap, IInv, [Next]_vars
  PROVE  Contract!Next \/ live' = live
<1>0. live \in [Ptrs -> Sizes \cup {0}]
  BY DEF IInv, Types
<1>1. ASSUME NEW n \in Sizes, Alloc(n) PROVE Contract!allo_alloc
  <2>1. phase = "ready" /\ arena_alloc(n, {})
    BY <1>1 DEF Alloc
  <2>2. PICK p \in Ptrs :
          /\ n \in Sizes \ {0} /\ p + n <= Extent
          /\ \A q \in Held : q + live[q] <= p \/ p + n <= q
          /\ live' = [q \in Ptrs |-> IF q = p THEN n
                                     ELSE IF q \in {} THEN 0 ELSE live[q]]
    BY <2>1, AllocPlace
  <2>3. live' = [live EXCEPT ![p] = n]
    BY <1>0, <2>2
  <2>4. Contract!Vacant(p, n, {})
    BY <2>2, ClearVacant
  <2> QED BY <2>2, <2>3, <2>4 DEF Contract!allo_alloc
<1>2. ASSUME NEW p \in Ptrs, Free(p) PROVE Contract!allo_free
  BY <1>2 DEF Free, Contract!allo_free
<1>3. ASSUME NEW p \in Ptrs, NEW n \in Sizes, ReallocInPlace(p, n)
      PROVE  Contract!allo_realloc
  <2>1. /\ p \in Held /\ live[p] # 0 /\ n \in Sizes \ {0} /\ InPlace(p, n)
        /\ live' = [live EXCEPT ![p] = n]
    BY <1>3 DEF ReallocInPlace, Held
  <2>2. /\ p \in Nat /\ n \in Nat /\ current \in Nat /\ p + n <= Extent
        /\ p - (current + 24) + n <= block_size
        /\ \A q \in Held : q # p => q + live[q] <= p \/ current + 24 + block_size <= q
    BY <2>1, InPlaceFacts
  <2>3. ASSUME NEW q \in Held, q \notin {p} PROVE q + live[q] <= p \/ p + n <= q
    <3>1. q \in Nat /\ block_size \in Nat
      BY HeldFacts, SizeFacts
    <3> QED BY <2>2, <2>3, <3>1
  <2>4. Contract!Vacant(p, n, {p})
    BY <2>2, <2>3, ClearVacant
  <2>5. live' = [live EXCEPT ![p] = 0, ![p] = n]
    BY <2>1
  <2> QED BY <2>1, <2>4, <2>5 DEF Contract!allo_realloc
<1>4. ASSUME NEW p \in Ptrs, NEW n \in Sizes, ReallocShrink(p, n)
      PROVE  Contract!allo_realloc
  <2>1. /\ p \in Held /\ live[p] # 0 /\ n \in Sizes \ {0} /\ n < live[p]
        /\ live' = [live EXCEPT ![p] = n]
    BY <1>4 DEF ReallocShrink, Held
  <2>2. p \in Nat /\ live[p] \in Nat /\ n \in Nat
    BY <2>1, HeldFacts, SizeFacts
  <2>3. p + live[p] <= Extent
    <3>1. PICK b \in Owned : b + 24 <= p /\ p + live[p] <= b + 24 + offset[b]
      BY <2>1, HeldFacts
    <3>2. /\ b \in Nat /\ child[b] = 24 + bsize[b] /\ b + child[b] <= Extent
          /\ bsize[b] \in Nat /\ offset[b] \in Nat /\ offset[b] <= bsize[b]
      BY OwnedFacts
    <3> QED BY <2>2, <3>1, <3>2, SizeFacts
  <2>4. p + n <= Extent
    BY <2>1, <2>2, <2>3, SizeFacts
  <2>5. ASSUME NEW q \in Held, q \notin {p} PROVE q + live[q] <= p \/ p + n <= q
    <3>1. q \in Nat /\ live[q] \in Nat
      BY HeldFacts
    <3>2. p + live[p] <= q \/ q + live[q] <= p
      BY <2>1, <2>5 DEF IInv, HeldApart
    <3> QED BY <2>1, <2>2, <3>1, <3>2
  <2>6. Contract!Vacant(p, n, {p})
    BY <2>4, <2>5, ClearVacant
  <2>7. live' = [live EXCEPT ![p] = 0, ![p] = n]
    BY <2>1
  <2> QED BY <2>1, <2>6, <2>7 DEF Contract!allo_realloc
<1>5. ASSUME NEW p \in Ptrs, NEW n \in Sizes, ReallocMove(p, n)
      PROVE  Contract!allo_realloc
  <2>1. phase = "ready" /\ arena_alloc(n, {p}) /\ live[p] # 0 /\ p \in Held
    BY <1>5 DEF ReallocMove, Held
  <2>2. PICK r \in Ptrs :
          /\ n \in Sizes \ {0} /\ r + n <= Extent
          /\ \A q \in Held : q + live[q] <= r \/ r + n <= q
          /\ live' = [q \in Ptrs |-> IF q = r THEN n
                                     ELSE IF q \in {p} THEN 0 ELSE live[q]]
    BY <2>1, AllocPlace
  <2>3. live' = [live EXCEPT ![p] = 0, ![r] = n]
    BY <1>0, <2>2
  <2>4. Contract!Vacant(r, n, {p})
    BY <2>2, ClearVacant
  <2>5. Contract!Apart(p, live[p], r, n)
    BY <2>1, <2>2 DEF Contract!Apart
  <2> QED BY <2>1, <2>2, <2>3, <2>4, <2>5 DEF Contract!allo_realloc
<1>6. ASSUME Destroy PROVE Contract!allo_destroy
  BY <1>6 DEF Destroy, Contract!allo_destroy
<1>7. ASSUME NEW b \in Bases, Make(b) PROVE live' = live
  BY <1>7 DEF Make
<1>8. ASSUME MakeFails PROVE live' = live
  BY <1>8 DEF MakeFails, vars
<1>9. ASSUME NEW n \in Sizes, AllocNull(n) PROVE live' = live
  BY <1>9 DEF AllocNull, vars
<1>10. ASSUME DestroyNext \/ DestroyBlock \/ DestroyReturn PROVE live' = live
  BY <1>10 DEF DestroyNext, DestroyBlock, DestroyReturn
<1>11. ASSUME UNCHANGED vars PROVE live' = live
  BY <1>11 DEF vars
<1> QED BY <1>1, <1>2, <1>3, <1>4, <1>5, <1>6, <1>7, <1>8, <1>9, <1>10, <1>11
        DEF Next, Contract!Next

(***************************************************************************)
(* Every arena keeps the contract of allo.h, on any child that keeps it,   *)
(* when no sum wraps.                                                      *)
(***************************************************************************)
THEOREM ArenaIsHeap == NoWrap => (Spec => ImplementsHeap)
<1> SUFFICES ASSUME NoWrap PROVE Spec => ImplementsHeap
  OBVIOUS
<1>1. Init => Contract!Init
  BY DEF Init, Contract!Init
<1>2. IInv /\ [Next]_vars => [Contract!Next]_live
  BY NextHeap
<1> QED BY <1>1, <1>2, Invariance, PTL DEF Spec, ImplementsHeap, Contract!Spec
=============================================================================
