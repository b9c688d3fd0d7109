--------------------------- MODULE CompositeProofs ----------------------------
(***************************************************************************)
(* Proofs about the two allocators that pass calls on to sub-allocators,   *)
(* each with its own client, and about the making of a buddy allocator.    *)
(***************************************************************************)
EXTENDS Gen, Fallback, FiniteSetTheorems, SequenceTheorems, TLAPS

-----------------------------------------------------------------------------
(* The fallback allocator *)

\* With a primary that has a _contains, every pointer goes to its owner.
LEMMA OwnerGetsPointer ==
  ASSUME "primary" \notin Untracked, NEW p \in Pointer
  PROVE  to_owner(p)
<1>1. CASE p \in Primary
  <2>1. routed(p) = "primary"
    BY <1>1 DEF routed, allo_contains, Blocks, YES
  <2> QED BY <1>1, <2>1 DEF to_owner, Blocks
<1>2. CASE p \notin Primary
  <2>1. routed(p) = "fallback"
    BY <1>2 DEF routed, allo_contains, Blocks, YES, NO, UNKNOWN
  <2>2. p \in Spill
    BY <1>2 DEF Pointer
  <2> QED BY <2>1, <2>2 DEF to_owner, Blocks
<1> QED BY <1>1, <1>2

\* The invariant: the records agree and no pointer went astray.
FallbackInv == RecordsAgree /\ NoPointerMixing

\* One step per action; to_owner(p) decides each of them.
LEMMA FallbackStep ==
  ASSUME "primary" \notin Untracked, FallbackInv, [FallbackNext]_fallback_vars
  PROVE  FallbackInv'
<1> USE DEF FallbackInv, RecordsAgree, NoPointerMixing
<1>1. ASSUME NEW n \in Requests, FallbackAlloc("primary", n) \/ FallbackAlloc("fallback", n)
      PROVE  FallbackInv'
  <2>1. PICK sub \in {"primary", "fallback"} : FallbackAlloc(sub, n)
    BY <1>1
  <2> QED BY <2>1 DEF FallbackAlloc
<1>2. CASE FallbackRefused \/ UNCHANGED fallback_vars
  BY <1>2 DEF FallbackRefused, fallback_vars
<1>3. ASSUME NEW p \in Pointer, FallbackFree(p)
      PROVE  FallbackInv'
  BY <1>3, OwnerGetsPointer DEF FallbackFree
<1>4. ASSUME NEW p \in Pointer, NEW n \in Requests, FallbackRealloc(p, n)
      PROVE  FallbackInv'
  <2>1. PICK q \in spare(routed(p)) \cup {p} :
          /\ held' = [held EXCEPT ![p] = 0, ![q] = n]
          /\ recorded' = IF to_owner(p) THEN [recorded EXCEPT ![p] = 0, ![q] = n]
                                       ELSE recorded
    BY <1>4 DEF FallbackRealloc
  <2> QED BY <1>4, <2>1, OwnerGetsPointer DEF FallbackRealloc
<1>5. ASSUME NEW p \in Pointer, NEW n \in Requests, FallbackSpill(p, n)
      PROVE  FallbackInv'
  <2>1. PICK q \in spare("fallback") :
          /\ held' = [held EXCEPT ![p] = 0, ![q] = n]
          /\ recorded' = [recorded EXCEPT ![p] = after_copy(p), ![q] = n]
    BY <1>5 DEF FallbackSpill
  <2>2. after_copy(p) = 0
    BY OwnerGetsPointer DEF after_copy
  <2> QED BY <1>5, <2>1, <2>2, OwnerGetsPointer DEF FallbackSpill
<1> QED BY <1>1, <1>2, <1>3, <1>4, <1>5 DEF FallbackNext

(***************************************************************************)
(* With a primary that tracks its pointers, frees and reallocs, those that *)
(* spill over included, leave both sub-allocators with exactly the blocks  *)
(* and sizes the client holds.                                             *)
(***************************************************************************)
THEOREM SpillKeepsRecords ==
  "primary" \notin Untracked => (FallbackSpec => []RecordsAgree)
<1> SUFFICES ASSUME "primary" \notin Untracked
             PROVE  FallbackSpec => []RecordsAgree
  OBVIOUS
<1>1. FallbackInit => FallbackInv
  BY DEF FallbackInit, FallbackInv, RecordsAgree, NoPointerMixing
<1>2. FallbackInv /\ [FallbackNext]_fallback_vars => FallbackInv'
  BY FallbackStep
<1>3. FallbackInv => RecordsAgree
  BY DEF FallbackInv
<1> QED BY <1>1, <1>2, <1>3, PTL DEF FallbackSpec

(***************************************************************************)
(* ... and no sub-allocator is ever handed a pointer of the other one: the *)
(* UNKNOWN of a primary without _contains is the only way to mix pointers. *)
(***************************************************************************)
THEOREM OwnersOnly ==
  "primary" \notin Untracked => (FallbackSpec => []NoPointerMixing)
<1> SUFFICES ASSUME "primary" \notin Untracked
             PROVE  FallbackSpec => []NoPointerMixing
  OBVIOUS
<1>1. FallbackInit => FallbackInv
  BY DEF FallbackInit, FallbackInv, RecordsAgree, NoPointerMixing
<1>2. FallbackInv /\ [FallbackNext]_fallback_vars => FallbackInv'
  BY FallbackStep
<1>3. FallbackInv => NoPointerMixing
  BY DEF FallbackInv
<1> QED BY <1>1, <1>2, <1>3, PTL DEF FallbackSpec

-----------------------------------------------------------------------------
(* The general-purpose allocator: routing by size *)

\* The block sizes of the pools, and the powers the index table is cut at.
LEMMA PoolSizes ==
  /\ pool_sizes[0] = 16 /\ pool_sizes[1] = 32 /\ pool_sizes[2] = 64
  /\ pool_sizes[3] = 128 /\ pool_sizes[4] = 256 /\ pool_sizes[5] = 512
  /\ pool_sizes[6] = 1024 /\ pool_sizes[7] = 2048
  /\ Pools = {0, 1, 2, 3, 4, 5, 6, 7}
  BY DEF pool_sizes, Pools, POOL_COUNT

\* An index reaches the first c powers of two up to 2^6.
Reaches(idx, c) == \A k \in 0..6 : 2^k <= idx <=> k < c

\* The table gives their number.
LEMMA PoolTable ==
  ASSUME NEW idx \in 0..127, NEW c \in 0..7, Reaches(idx, c)
  PROVE  pool_index_table(idx) = c
<1> DEFINE S == {k \in 0..6 : 2^k <= idx}
<1>1. ASSUME NEW k \in 0..6 PROVE k \in S <=> k < c
  <2>1. 2^k <= idx <=> k < c
    BY DEF Reaches
  <2> QED BY ONLY <2>1, k \in 0..6
<1>2. S \subseteq 0..6
  OBVIOUS
<1> HIDE DEF S
<1>3. S = 0..(c - 1)
  <2>1. ASSUME NEW k \in S PROVE k \in 0..(c - 1)
    BY <1>1, <1>2
  <2>2. ASSUME NEW k \in 0..(c - 1) PROVE k \in S
    BY <1>1
  <2> QED BY <2>1, <2>2
<1>4. Cardinality(0..(c - 1)) = IF 0 > c - 1 THEN 0 ELSE (c - 1) - 0 + 1
  BY FS_Interval
<1>5. Cardinality(0..(c - 1)) = c
  BY <1>4
<1> QED BY <1>3, <1>5 DEF pool_index_table, S

\* A small size goes to the smallest pool whose blocks it fits.
LEMMA SmallRoute ==
  ASSUME NEW n \in Nat, 1 <= n, n <= 2048
  PROVE  /\ get_pool_index(n) \in Pools
         /\ n <= pool_sizes[get_pool_index(n)]
         /\ \A j \in Pools : n <= pool_sizes[j] => get_pool_index(n) <= j
<1> DEFINE idx == (n - 1) \div 16
<1>1. idx \in 0..127 /\ 16 * idx < n /\ n <= 16 * idx + 16
  OBVIOUS
<1>2. get_pool_index(n) = pool_index_table(idx)
  BY <1>1 DEF get_pool_index
<1> HIDE DEF idx
<1>3. /\ 2^0 = 1 /\ 2^1 = 2 /\ 2^2 = 4 /\ 2^3 = 8 /\ 2^4 = 16 /\ 2^5 = 32 /\ 2^6 = 64
      /\ 0..6 = {0, 1, 2, 3, 4, 5, 6}
  OBVIOUS
<1>4. \E c \in 0..7 : Reaches(idx, c)
  <2>1. CASE idx < 1
    BY <2>1, <1>1, <1>3 DEF Reaches
  <2>2. CASE 1 <= idx /\ idx < 2
    BY <2>2, <1>1, <1>3 DEF Reaches
  <2>3. CASE 2 <= idx /\ idx < 4
    BY <2>3, <1>1, <1>3 DEF Reaches
  <2>4. CASE 4 <= idx /\ idx < 8
    BY <2>4, <1>1, <1>3 DEF Reaches
  <2>5. CASE 8 <= idx /\ idx < 16
    BY <2>5, <1>1, <1>3 DEF Reaches
  <2>6. CASE 16 <= idx /\ idx < 32
    BY <2>6, <1>1, <1>3 DEF Reaches
  <2>7. CASE 32 <= idx /\ idx < 64
    BY <2>7, <1>1, <1>3 DEF Reaches
  <2>8. CASE 64 <= idx
    BY <2>8, <1>1, <1>3 DEF Reaches
  <2> QED BY <2>1, <2>2, <2>3, <2>4, <2>5, <2>6, <2>7, <2>8, <1>1
<1>5. PICK c \in 0..7 : Reaches(idx, c)
  BY <1>4
<1>6. get_pool_index(n) = c
  BY <1>1, <1>2, <1>5, PoolTable
<1>7. /\ (1 <= idx) <=> (0 < c)
      /\ (2 <= idx) <=> (1 < c)
      /\ (4 <= idx) <=> (2 < c)
      /\ (8 <= idx) <=> (3 < c)
      /\ (16 <= idx) <=> (4 < c)
      /\ (32 <= idx) <=> (5 < c)
      /\ (64 <= idx) <=> (6 < c)
  <2>1. 2^0 <= idx <=> 0 < c
    BY ONLY <1>5, 0 \in 0..6 DEF Reaches
  <2>2. 2^1 <= idx <=> 1 < c
    BY ONLY <1>5, 1 \in 0..6 DEF Reaches
  <2>3. 2^2 <= idx <=> 2 < c
    BY ONLY <1>5, 2 \in 0..6 DEF Reaches
  <2>4. 2^3 <= idx <=> 3 < c
    BY ONLY <1>5, 3 \in 0..6 DEF Reaches
  <2>5. 2^4 <= idx <=> 4 < c
    BY ONLY <1>5, 4 \in 0..6 DEF Reaches
  <2>6. 2^5 <= idx <=> 5 < c
    BY ONLY <1>5, 5 \in 0..6 DEF Reaches
  <2>7. 2^6 <= idx <=> 6 < c
    BY ONLY <1>5, 6 \in 0..6 DEF Reaches
  <2> QED BY ONLY <2>1, <2>2, <2>3, <2>4, <2>5, <2>6, <2>7, <1>3
<1>8. c \in Pools /\ n <= pool_sizes[c]
  BY <1>1, <1>7, PoolSizes
<1>9. ASSUME NEW j \in Pools, n <= pool_sizes[j] PROVE c <= j
  BY <1>1, <1>7, <1>9, PoolSizes
<1> QED BY <1>6, <1>8, <1>9

\* The part gen_alloc_fn and gen_free_fn pick through the table of pools is the
\* smallest pool that fits, or the tier behind the limits.
LEMMA RouteHome ==
  ASSUME NEW n \in Nat \ {0}
  PROVE  route(n) = Home(n)
<1>1. SMALL_OBJ_LIMIT = 2048 /\ MEDIUM_OBJ_LIMIT = 1048576
  BY DEF SMALL_OBJ_LIMIT, MEDIUM_OBJ_LIMIT
<1>2. CASE n > 2048
  BY <1>1, <1>2 DEF route, Home
<1>3. CASE n <= 2048
  <2>0. n \in Nat /\ 1 <= n /\ n <= 2048
    BY <1>3
  <2>10. /\ get_pool_index(n) \in Pools
         /\ n <= pool_sizes[get_pool_index(n)]
         /\ \A j \in Pools : n <= pool_sizes[j] => get_pool_index(n) <= j
    BY ONLY <2>0, SmallRoute
  <2> DEFINE c == get_pool_index(n)
             fits(i) == /\ n <= pool_sizes[i]
                        /\ \A j \in Pools : n <= pool_sizes[j] => i <= j
  <2>1. c \in Pools /\ fits(c)
    BY <2>10
  <2>2. \A i, j \in Pools : i \in Int /\ (i <= j /\ j <= i => i = j)
    BY DEF Pools, POOL_COUNT
  <2>3. ASSUME NEW i \in Pools, fits(i) PROVE i = c
    BY <2>1, <2>2, <2>3
  <2> HIDE DEF c, fits
  <2>4. (CHOOSE i \in Pools : fits(i)) = c
    BY <2>1, <2>3
  <2>5. Home(n) = CHOOSE i \in Pools : fits(i)
    BY <1>1, <1>3 DEF Home, fits
  <2>6. route(n) = c
    BY <1>1, <1>3 DEF route, c
  <2> QED BY <2>4, <2>5, <2>6
<1> QED BY <1>2, <1>3

(***************************************************************************)
(* TierFromSize with the table's routing in place of Home, and the types.  *)
(***************************************************************************)
TierInv ==
  /\ live \in [Block -> Sizes \cup {0}]
  /\ \A p \in Held : p[1] = route(live[p])
  /\ granted = Held

\* The client gets block q for n bytes.
LEMMA TierGain ==
  ASSUME TierInv, NEW n \in Sizes \ {0}, NEW q \in Block, q \notin granted,
         q[1] = route(n),
         live' = [live EXCEPT ![q] = n],
         granted' = granted \cup {q}
  PROVE  TierInv'
<1>1. live' \in [Block -> Sizes \cup {0}]
  BY DEF TierInv
<1>2. Held' = Held \cup {q}
  BY DEF TierInv, Held, Block, Pools
<1>3. \A p \in Held : p # q /\ live'[p] = live[p]
  BY DEF TierInv, Held
<1>4. live'[q] = n
  BY DEF TierInv
<1>5. \A p \in Held' : p[1] = route(live'[p])
  BY <1>2, <1>3, <1>4 DEF TierInv
<1> QED BY <1>1, <1>2, <1>5 DEF TierInv, Block, Pools, route, get_pool_index,
                               pool_index_table

\* The client's block p is replaced by q, of n bytes, maybe the same one.
LEMMA TierMove ==
  ASSUME TierInv, NEW n \in Sizes \ {0}, NEW p \in Block, live[p] # 0,
         NEW q \in Block, q \notin granted \/ q = p,
         q[1] = route(n),
         live' = [live EXCEPT ![p] = 0, ![q] = n],
         granted' = (granted \ {p}) \cup {q}
  PROVE  TierInv'
<1>1. live' \in [Block -> Sizes \cup {0}]
  BY DEF TierInv
<1>2. p \in Held
  BY DEF Held
<1>3. /\ live'[q] = n
      /\ \A r \in Block : r # q => live'[r] = IF r = p THEN 0 ELSE live[r]
  BY DEF TierInv
<1>4. Held' = (Held \ {p}) \cup {q}
  BY <1>2, <1>3 DEF TierInv, Held, Block, Pools
<1>5. \A r \in Held \ {p} : r # q /\ r \in Block
  BY DEF TierInv, Held
<1>6. \A r \in Held' : r[1] = route(live'[r])
  BY <1>3, <1>4, <1>5 DEF TierInv
<1> QED BY <1>1, <1>4, <1>6 DEF TierInv, Block, Pools, route, get_pool_index,
                               pool_index_table

\* Every step keeps it.
LEMMA TierStep ==
  ASSUME TierInv, [Next]_vars
  PROVE  TierInv'
<1>1. ASSUME live' = live, granted' = granted PROVE TierInv'
  BY <1>1 DEF TierInv, Held
<1>2. ASSUME live' = nothing, granted' = {} PROVE TierInv'
  <2>1. live' = [p \in Block |-> 0]
    BY <1>2 DEF nothing
  <2>2. Held' = {}
    BY <2>1 DEF Held
  <2> QED BY <2>1, <2>2, <1>2 DEF TierInv
<1>3. ASSUME NEW n \in Sizes, Alloc(n) PROVE TierInv'
  <2>1. PICK q \in vacant(route(n), n) : /\ live' = [live EXCEPT ![q] = n]
                                         /\ granted' = granted \cup {q}
    BY <1>3 DEF Alloc
  <2>2. n # 0 /\ q \in Block /\ q[1] = route(n) /\ q \notin granted
    BY <1>3 DEF Alloc, vacant
  <2> QED BY <2>1, <2>2, TierGain
<1>4. ASSUME NEW p \in Block, Free(p) PROVE TierInv'
  <2>1. p \in Held /\ live' = [live EXCEPT ![p] = 0]
    BY <1>4 DEF Free, Held
  <2>2. granted' = granted \ {p}
    BY <1>4, <2>1 DEF Free, released, TierInv
  <2>3. live' \in [Block -> Sizes \cup {0}]
    BY <2>1 DEF TierInv
  <2>4. Held' = Held \ {p} /\ \A r \in Held \ {p} : live'[r] = live[r]
    BY <2>1 DEF TierInv, Held
  <2>5. \A r \in Held' : r[1] = route(live'[r])
    BY <2>4 DEF TierInv
  <2> QED BY <2>2, <2>3, <2>4, <2>5 DEF TierInv
<1>5. ASSUME NEW p \in Block, NEW n \in Sizes, ReallocTier(p, n) PROVE TierInv'
  <2>1. PICK q \in (IF p[1] \in Pools THEN {} ELSE vacant(p[1], n))
                    \cup (IF p[1] = BUDDY THEN {} ELSE {p}) :
          /\ live' = [live EXCEPT ![p] = 0, ![q] = n]
          /\ granted' = (granted \ {p}) \cup {q}
    BY <1>5 DEF ReallocTier
  <2>2. live[p] # 0 /\ n # 0 /\ route(live[p]) = route(n)
    BY <1>5 DEF ReallocTier, same_tier
  <2>3. p[1] = route(live[p])
    BY <2>2 DEF TierInv, Held
  <2>4. q \in Block /\ q[1] = p[1] /\ (q \notin granted \/ q = p)
    BY <2>1 DEF vacant
  <2> QED BY <2>1, <2>2, <2>3, <2>4, TierMove
<1>6. ASSUME NEW p \in Block, NEW n \in Sizes, ReallocMove(p, n) PROVE TierInv'
  <2>1. PICK q \in vacant(route(n), n) :
          /\ live' = [live EXCEPT ![p] = 0, ![q] = n]
          /\ granted' = released(p) \cup {q}
    BY <1>6 DEF ReallocMove
  <2>2. live[p] # 0 /\ n # 0
    BY <1>6 DEF ReallocMove
  <2>3. released(p) = granted \ {p}
    BY <2>2 DEF released, TierInv, Held
  <2>4. q \in Block /\ q[1] = route(n) /\ q \notin granted
    BY DEF vacant
  <2> QED BY <2>1, <2>2, <2>3, <2>4, TierMove
<1>7. ASSUME Destroy PROVE TierInv'
  BY <1>2, <1>7 DEF Destroy
<1>8. ASSUME \/ UNCHANGED gen_vars
             \/ UNCHANGED vars
             \/ MakeGen \/ MakeGenFails \/ Refused
             \/ MakeBuddy \/ MakeBuddyFails \/ MakePool \/ MakePoolFails
             \/ Teardown \/ Crash
      PROVE  TierInv'
  <2>1. live' = live /\ granted' = granted
    BY <1>8 DEF gen_vars, vars, MakeGen, MakeGenFails, Refused, MakeBuddy,
         MakeBuddyFails, MakePool, MakePoolFails, Teardown, Crash
  <2> QED BY <2>1, <1>1
<1> QED BY <1>3, <1>4, <1>5, <1>6, <1>7, <1>8 DEF Next, Running

(***************************************************************************)
(* For every set of requests and every number of blocks: a block is always *)
(* held in the tier and pool its present size belongs to, through reallocs *)
(* within and between them, so gen_free_fn, which has only the size, finds *)
(* it; and the parts have on record exactly what the client holds.         *)
(***************************************************************************)
THEOREM SizeFindsTier == Spec => []TierFromSize
<1>1. Init => TierInv
  <2> SUFFICES ASSUME Init PROVE TierInv
    OBVIOUS
  <2>1. live = [p \in Block |-> 0] /\ granted = {}
    BY DEF Init, nothing
  <2>2. Held = {}
    BY <2>1 DEF Held
  <2> QED BY <2>1, <2>2 DEF TierInv
<1>2. TierInv /\ [Next]_vars => TierInv'
  BY TierStep
<1>3. ASSUME TierInv PROVE TierFromSize
  <2>1. Sizes \cup {0} \subseteq Nat
    BY GenAssumption
  <2>2. \A p \in Held : live[p] \in Nat \ {0}
    BY <1>3, <2>1 DEF TierInv, Held
  <2> QED BY <1>3, <2>2, RouteHome DEF TierInv, TierFromSize
<1> QED BY <1>1, <1>2, <1>3, PTL DEF Spec

-----------------------------------------------------------------------------
(* The teardown of gen_destroy_fn *)

\* What is left of the teardown before its call number k.
Rest(k) == [j \in 1..(11 - k) |-> j + k - 2]

\* The calls of gen_destroy_fn in their order: the eight pools, 8 and 9.
LEMMA TeardownOrder == teardown = Rest(1)
<1> DEFINE first == [j \in 1..8 |-> j - 1]
           last == <<8, 9>>
<1>1. teardown = first \o last
  BY DEF teardown, POOL_COUNT, BUDDY, PAGE
<1>2. first \in Seq(Int) /\ Len(first) = 8 /\ \A j \in 1..8 : first[j] = j - 1
  OBVIOUS
<1>3. last \in Seq(Int) /\ Len(last) = 2 /\ last[1] = 8 /\ last[2] = 9
  OBVIOUS
<1> HIDE DEF first, last
<1>4. /\ teardown \in Seq(Int)
      /\ Len(teardown) = Len(first) + Len(last)
      /\ \A j \in 1..Len(first) + Len(last) :
           teardown[j] = IF j <= Len(first) THEN first[j] ELSE last[j - Len(first)]
  BY <1>1, <1>2, <1>3, ConcatProperties
<1>5. Rest(1) \in Seq(Int) /\ Len(Rest(1)) = 10 /\ \A j \in 1..10 : Rest(1)[j] = j - 1
  BY DEF Rest
<1>6. ASSUME NEW j \in 1..10 PROVE teardown[j] = Rest(1)[j]
  <2>1. teardown[j] = IF j <= 8 THEN first[j] ELSE last[j - 8]
    <3>1. Len(first) = 8 /\ Len(last) = 2 /\ 8 + 2 = 10
      BY <1>2, <1>3
    <3> QED BY ONLY <1>4, <3>1, j \in 1..10
  <2>2. Rest(1)[j] = j - 1
    BY <1>5
  <2>3. CASE j <= 8
    BY <2>1, <2>2, <2>3, <1>2
  <2>4. CASE j = 9 \/ j = 10
    BY <2>1, <2>2, <2>4, <1>3
  <2> QED BY <2>3, <2>4
<1>7. Len(teardown) = 10
  BY <1>2, <1>3, <1>4
<1>8. Len(teardown) = Len(Rest(1)) /\ \A j \in 1..Len(teardown) : teardown[j] = Rest(1)[j]
  BY <1>5, <1>6, <1>7
<1> QED BY <1>4, <1>5, <1>8, SeqEqual

\* Its next call, and what is left after it.
LEMMA RestStep ==
  ASSUME NEW k \in 1..10
  PROVE  /\ Rest(k) # <<>>
         /\ Head(Rest(k)) = k - 1
         /\ Tail(Rest(k)) = Rest(k + 1)
         /\ k = 10 => Tail(Rest(k)) = <<>>
<1>1. /\ Rest(k) \in Seq(Int) /\ Len(Rest(k)) = 11 - k
      /\ \A j \in 1..(11 - k) : Rest(k)[j] = j + k - 2
  BY DEF Rest
<1>2. /\ Rest(k + 1) \in Seq(Int) /\ Len(Rest(k + 1)) = 10 - k
      /\ \A j \in 1..(10 - k) : Rest(k + 1)[j] = j + k - 1
  BY DEF Rest
<1>3. Rest(k) # <<>>
  BY <1>1
<1>4. Head(Rest(k)) = k - 1
  BY <1>1, <1>3
<1>5. /\ Tail(Rest(k)) \in Seq(Int) /\ Len(Tail(Rest(k))) = 10 - k
      /\ \A j \in 1..Len(Tail(Rest(k))) : Tail(Rest(k))[j] = Rest(k)[j + 1]
  <2>1. /\ Tail(Rest(k)) \in Seq(Int)
        /\ Len(Tail(Rest(k))) = Len(Rest(k)) - 1
        /\ \A j \in 1..Len(Tail(Rest(k))) : Tail(Rest(k))[j] = Rest(k)[j + 1]
    BY <1>1, <1>3, HeadTailProperties
  <2> QED BY <1>1, <2>1
<1>6. \A j \in 1..Len(Tail(Rest(k))) : Tail(Rest(k))[j] = Rest(k + 1)[j]
  <2> SUFFICES ASSUME NEW j \in 1..Len(Tail(Rest(k)))
               PROVE  Tail(Rest(k))[j] = Rest(k + 1)[j]
    OBVIOUS
  <2>1. j \in 1..(10 - k) /\ j + 1 \in 1..(11 - k)
    BY <1>5
  <2>2. Rest(k)[j + 1] = j + k - 1
    BY <1>1, <2>1
  <2> QED BY <1>2, <1>5, <2>1, <2>2
<1>7. Tail(Rest(k)) = Rest(k + 1)
  BY <1>2, <1>5, <1>6, SeqEqual
<1>8. k = 10 => Tail(Rest(k)) = <<>>
  <2> SUFFICES ASSUME k = 10 PROVE Tail(Rest(k)) = <<>>
    OBVIOUS
  <2>1. Len(Tail(Rest(k))) = 0
    BY <1>5
  <2> QED BY <1>5, <2>1, EmptySeq
<1> QED BY <1>3, <1>4, <1>7, <1>8

(***************************************************************************)
(* A teardown runs only as part of a call; s is mapped and the buddy there *)
(* whenever the allocator is; and gen_destroy_fn is before one of its ten  *)
(* calls, with the buddy there until it is its turn.                       *)
(***************************************************************************)
LifeInv ==
  /\ todo # <<>> => gen \in {"undo", "destroy"}
  /\ gen \in {"make", "ready", "destroy"} => mapped
  /\ gen = "ready" => pc = "ready"
  /\ gen = "destroy" =>
       \E k \in 1..10 : todo = Rest(k) /\ (k <= 9 => pc = "ready")
  /\ gen # "destroy_crashed"

\* Every step keeps it.
LEMMA LifeStep ==
  ASSUME LifeInv, [Next]_vars
  PROVE  LifeInv'
<1>1. ASSUME gen = "none", UNCHANGED gen_vars PROVE LifeInv'
  BY <1>1 DEF LifeInv, gen_vars
<1>2. ASSUME UNCHANGED <<pc, gen, mapped, todo>> PROVE LifeInv'
  BY <1>2 DEF LifeInv, Rest
<1>3. ASSUME MakeGen PROVE LifeInv'
  BY <1>3 DEF LifeInv, MakeGen
<1>4. ASSUME MakeBuddy PROVE LifeInv'
  BY <1>4 DEF LifeInv, MakeBuddy, gen_vars
<1>5. ASSUME MakeBuddyFails \/ MakePoolFails PROVE LifeInv'
  BY <1>5 DEF LifeInv, MakeBuddyFails, MakePoolFails
<1>6. ASSUME MakePool PROVE LifeInv'
  BY <1>6 DEF LifeInv, MakePool, buddy_vars
<1>7. ASSUME Destroy PROVE LifeInv'
  BY <1>7, TeardownOrder DEF LifeInv, Destroy, buddy_vars, Rest
<1>8. ASSUME Teardown PROVE LifeInv'
  <2>1. CASE gen = "undo"
    <3>1. Head(todo) # PAGE
      BY <1>8, <2>1 DEF Teardown, survives, page_copied
    <3> QED BY <1>8, <2>1, <3>1 DEF LifeInv, Teardown
  <2>2. CASE gen = "destroy"
    <3>1. PICK k \in 1..10 : todo = Rest(k) /\ (k <= 9 => pc = "ready")
      BY <2>2 DEF LifeInv
    <3>2. Head(todo) = k - 1 /\ todo' = Rest(k + 1) /\ (k = 10 => todo' = <<>>)
      BY <1>8, <3>1, RestStep DEF Teardown
    <3>3. CASE k = 10
      <4>1. todo' = <<>> /\ gen' = "none"
        BY <1>8, <3>2, <3>3 DEF Teardown, PAGE
      <4> QED BY <4>1 DEF LifeInv
    <3>4. CASE k # 10
      <4>1. gen' = "destroy" /\ mapped'
        <5>1. Head(todo) # 9 /\ Head(todo) # 10
          BY <3>2, <3>4
        <5>2. mapped
          BY <2>2 DEF LifeInv
        <5> QED BY <1>8, <2>2, <5>1, <5>2 DEF Teardown, PAGE, STATE_S
      <4>2. k + 1 \in 1..10 /\ (k + 1 <= 9 => pc' = "ready")
        BY <1>8, <3>1, <3>2, <3>4 DEF Teardown, BUDDY, buddy_vars
      <4> QED BY <3>2, <4>1, <4>2 DEF LifeInv, Rest
    <3> QED BY <3>3, <3>4
  <2> QED BY <1>8, <2>1, <2>2 DEF LifeInv, Teardown
<1>9. ASSUME Crash PROVE LifeInv'
  <2>1. gen # "destroy"
    <3> SUFFICES ASSUME gen = "destroy" PROVE FALSE
      OBVIOUS
    <3>1. PICK k \in 1..10 : todo = Rest(k) /\ (k <= 9 => pc = "ready")
      BY DEF LifeInv
    <3>2. Head(todo) = k - 1
      BY <3>1, RestStep
    <3>3. survives(Head(todo))
      BY <3>1, <3>2 DEF survives, page_copied, Pools, POOL_COUNT, LifeInv
    <3> QED BY <1>9, <3>3 DEF Crash
  <2> QED BY <1>9, <2>1 DEF LifeInv, Crash
<1>10. ASSUME \/ \E n \in Sizes : Alloc(n)
              \/ \E p \in Block : Free(p)
              \/ \E p \in Block, n \in Sizes : ReallocTier(p, n) \/ ReallocMove(p, n)
       PROVE  UNCHANGED <<pc, gen, mapped, todo>>
  BY <1>10 DEF Alloc, Free, ReallocTier, ReallocMove, lifecycle_unchanged, buddy_vars
<1>11. ASSUME MakeGenFails \/ Refused \/ UNCHANGED vars
       PROVE  UNCHANGED <<pc, gen, mapped, todo>>
  BY <1>11 DEF MakeGenFails, Refused, vars, gen_vars, buddy_vars
<1> QED BY <1>1, <1>2, <1>3, <1>4, <1>5, <1>6, <1>7, <1>8, <1>9, <1>10, <1>11
        DEF Next, Running

(***************************************************************************)
(* For every set of sizes and however often it is made and destroyed:      *)
(* gen_destroy_fn finds everything its ten calls touch still there.        *)
(***************************************************************************)
THEOREM TeardownSafe == Spec => []DestroySafe
<1>1. Init => LifeInv
  BY DEF Init, LifeInv
<1>2. LifeInv /\ [Next]_vars => LifeInv'
  BY LifeStep
<1>3. LifeInv => DestroySafe
  BY DEF LifeInv, DestroySafe
<1> QED BY <1>1, <1>2, <1>3, PTL DEF Spec

-----------------------------------------------------------------------------
(* The buddy allocator's tables *)

\* Powers of two that fit a word are positive, double and grow.
LEMMA PowFacts ==
  ASSUME NEW k \in 0..WordBits
  PROVE  /\ Pow2(k) \in Nat \ {0} /\ k < Pow2(k)
         /\ Pow2(k + 1) = 2 * Pow2(k)
         /\ \A m \in 0..k : Pow2(m) \in Nat \ {0} /\ Pow2(m) <= Pow2(k)
         /\ Pow2(0) = 1
<1>1. \A m \in 0..WordBits :
        /\ Pow2(m) \in Nat /\ m < Pow2(m)
        /\ Pow2(m + 1) = 2 * Pow2(m)
        /\ \A j \in 0..m : Pow2(j) <= Pow2(m)
  BY PowAssumption
<1>2. Pow2(0) = 1
  BY PowAssumption
<1>3. \A m \in 0..k : m \in 0..WordBits
  BY LifeAssumption
<1> QED BY <1>1, <1>2, <1>3

\* Exponents add.
LEMMA PowProduct ==
  ASSUME NEW k \in 0..WordBits, NEW m \in 0..k
  PROVE  Pow2(m) * Pow2(k - m) = Pow2(k)
  BY PowAssumption

\* v has b significant bits.
Bits(v, b) == b \in 0..WordBits /\ v < Pow2(b) /\ (b > 0 => v >= Pow2(b - 1))

\* Counting leading zeros finds them.
LEMMA BitLength ==
  ASSUME NEW v \in Nat, NEW b, Bits(v, b)
  PROVE  bit_length(v) = b
<1> DEFINE P(n) == v < Pow2(n) /\ (n > 0 => v >= Pow2(n - 1))
<1>0. WordBits \in Nat /\ b \in 0..WordBits /\ P(b)
  BY LifeAssumption DEF Bits
<1>1. ASSUME NEW n \in 0..WordBits, NEW m \in 0..WordBits, P(n), P(m), n < m
      PROVE  FALSE
  <2>1. n \in 0..(m - 1) /\ m - 1 \in 0..WordBits
    BY <1>0, <1>1
  <2>2. Pow2(n) \in Nat /\ Pow2(m - 1) \in Nat /\ Pow2(n) <= Pow2(m - 1)
    BY <2>1, PowFacts
  <2> QED BY <1>1, <2>2
<1>2. ASSUME NEW n \in 0..WordBits, P(n) PROVE n = b
  <2>1. ~(n < b)
    BY <1>0, <1>1, <1>2
  <2>2. ~(b < n)
    BY <1>0, <1>1, <1>2
  <2> QED BY <1>0, <2>1, <2>2
<1>3. bit_length(v) = CHOOSE n \in 0..WordBits : P(n)
  BY DEF bit_length
<1> HIDE DEF P
<1>4. (CHOOSE n \in 0..WordBits : P(n)) = b
  BY <1>0, <1>2
<1> QED BY <1>3, <1>4

\* get_order of a power of two is its exponent.
LEMMA OrderOfPower ==
  ASSUME NEW k \in 0..(WordBits - 1)
  PROVE  get_order(Pow2(k)) = k
<1>0. WordBits \in Nat /\ k \in 0..WordBits
  BY LifeAssumption
<1>1. Pow2(k) \in Nat \ {0} /\ Pow2(0) = 1
  BY <1>0, PowFacts
<1>2. CASE k = 0
  BY <1>1, <1>2 DEF get_order
<1>3. CASE k # 0
  <2>1. Pow2(k) = 2 * Pow2(k - 1) /\ Pow2(k - 1) \in Nat \ {0}
    <3>1. k - 1 \in 0..WordBits /\ (k - 1) + 1 = k
      BY <1>0, <1>3
    <3>2. Pow2((k - 1) + 1) = 2 * Pow2(k - 1) /\ Pow2(k - 1) \in Nat \ {0}
      BY <3>1, PowFacts
    <3> QED BY <3>1, <3>2
  <2>2. Pow2(k) - 1 \in Nat /\ Bits(Pow2(k) - 1, k)
    BY <1>0, <1>1, <2>1 DEF Bits
  <2>3. bit_length(Pow2(k) - 1) = k
    BY <2>2, BitLength
  <2> QED BY <1>1, <2>1, <2>3 DEF get_order
<1> QED BY <1>2, <1>3

\* allo_calloc asks for the product or, when that would wrap, for nothing.
LEMMA CallocFacts ==
  ASSUME NEW m \in Nat, NEW n \in Nat
  PROVE  /\ allo_calloc(m, n) \in Nat
         /\ n = 1 /\ allo_calloc(m, n) # 0 => allo_calloc(m, n) = m
         /\ n = 8 /\ allo_calloc(m, n) # 0 =>
              allo_calloc(m, n) = 8 * m /\ wrap(m * 8) = 8 * m
<1>1. WordMax \in Nat
  <2>1. WordBits \in 0..WordBits
    BY LifeAssumption
  <2> QED BY <2>1, PowFacts DEF WordMax
<1>2. m * n \in Nat
  OBVIOUS
<1>3. allo_calloc(m, n) \in Nat
  BY <1>2 DEF allo_calloc
<1>4. n = 1 /\ allo_calloc(m, n) # 0 => allo_calloc(m, n) = m
  BY DEF allo_calloc
<1>5. ASSUME n = 8, allo_calloc(m, n) # 0
      PROVE  allo_calloc(m, n) = 8 * m /\ wrap(m * 8) = 8 * m
  <2>1. ~(m > WordMax \div 8)
    BY <1>5 DEF allo_calloc
  <2>2. 8 * m <= WordMax /\ m * 8 = 8 * m
    BY <1>1, <2>1
  <2>3. wrap(m * 8) = 8 * m
    BY <1>1, <2>2 DEF wrap
  <2> QED BY <1>5, <2>1, <2>2, <2>3 DEF allo_calloc
<1> QED BY <1>3, <1>4, <1>5

\* What the factory asks for, for a buffer of Pow2(k) bytes; buddy_destroy_fn
\* computes the same for every table that was granted.
LEMMA BytesFacts ==
  ASSUME NEW k \in 0..(WordBits - 1), total_size = Pow2(k)
  PROVE  /\ num_levels = k - 4
         /\ free_lists_count \in Nat
         /\ bit_bytes \in Nat /\ block_orders_len \in Nat
         /\ \A q \in Parts : bytes[q] \in Nat
         /\ \A q \in Parts : bytes[q] # 0 => destroy_bytes[q] = bytes[q]
<1>0. WordBits \in Nat /\ WordBits >= 25 /\ Pow2(k) \in Nat
  BY LifeAssumption, GenAssumption, PowFacts
<1>1. get_order(total_size) = k
  BY OrderOfPower
<1>2. get_order(min_block_size) = 5
  <2>1. 5 \in 0..(WordBits - 1)
    BY <1>0
  <2>2. Pow2(5) = 32
    BY DEF Pow2
  <2> QED BY <2>1, <2>2, OrderOfPower DEF min_block_size
<1>3. num_levels = k - 4
  BY <1>1, <1>2 DEF num_levels
<1>4. WordMax + 1 \in Nat \ {0}
  <2>1. WordBits \in 0..WordBits
    BY <1>0
  <2> QED BY <2>1, PowFacts DEF WordMax
<1>5. \A x \in Int : wrap(x) \in Nat
  BY <1>4 DEF wrap
<1>6. free_lists_count \in Nat
  <2>1. wrap(num_levels) \in Nat
    BY <1>3, <1>5
  <2>2. wrap(num_levels) + 1 \in Int
    BY <2>1
  <2> QED BY <1>5, <2>2 DEF free_lists_count
<1>7. bit_bytes \in Nat /\ block_orders_len \in Nat
  BY <1>0 DEF bit_bytes, max_nodes, block_orders_len, min_block_size
<1>8. /\ bytes["buffer"] = total_size
      /\ bytes["free_lists"] = allo_calloc(free_lists_count, 8)
      /\ bytes["bitset"] = allo_calloc(bit_bytes, 1)
      /\ bytes["block_orders"] = allo_calloc(block_orders_len, 1)
  BY DEF bytes, sizeof_pointer
<1>9. /\ destroy_bytes["buffer"] = total_size
      /\ destroy_bytes["free_lists"] = wrap(free_lists_count * 8)
      /\ destroy_bytes["bitset"] = bit_bytes
      /\ destroy_bytes["block_orders"] = block_orders_len
  BY DEF destroy_bytes, sizeof_pointer
<1>10. /\ allo_calloc(free_lists_count, 8) \in Nat
       /\ allo_calloc(free_lists_count, 8) # 0 =>
            wrap(free_lists_count * 8) = allo_calloc(free_lists_count, 8)
  BY <1>6, CallocFacts
<1>11. \A m \in {bit_bytes, block_orders_len} :
         allo_calloc(m, 1) \in Nat /\ (allo_calloc(m, 1) # 0 => m = allo_calloc(m, 1))
  <2> SUFFICES ASSUME NEW m \in Nat
               PROVE  /\ allo_calloc(m, 1) \in Nat
                      /\ allo_calloc(m, 1) # 0 => m = allo_calloc(m, 1)
    BY <1>7
  <2> QED BY CallocFacts
<1>12. \A q \in Parts : \/ q = "buffer" \/ q = "free_lists"
                        \/ q = "bitset" \/ q = "block_orders"
  BY DEF Parts
<1>13. ASSUME NEW q \in Parts
       PROVE  bytes[q] \in Nat /\ (bytes[q] # 0 => destroy_bytes[q] = bytes[q])
  BY <1>0, <1>8, <1>9, <1>10, <1>11, <1>12
<1> QED BY <1>3, <1>6, <1>7, <1>13

\* The parts depend on the rounded size only.
LEMMA BytesSame ==
  ASSUME total_size' = total_size
  PROVE  bytes' = bytes
  BY DEF bytes, allo_calloc, free_lists_count, wrap, num_levels, get_order,
         bit_length, bit_bytes, max_nodes, block_orders_len, WordMax, Pow2,
         min_block_size, sizeof_pointer

\* What the child has granted so far: what a refusal would give back.
Got ==
  IF pc \in Parts THEN cleanup[pc]
  ELSE IF pc = "ready" THEN (Parts \ {"buffer"}) \cup the_buffer ELSE {}

(***************************************************************************)
(* The rounded size is a power of two less than twice the size, and once   *)
(* the loop is done no less than it; the child has on record what it       *)
(* granted, with the sizes it was asked for, none of them 0.               *)
(***************************************************************************)
TableInv ==
  /\ pc \in Parts \cup {"none", "round", "ready"}
  /\ pc = "buffer" => own_buffer
  /\ child = [q \in Parts |-> IF q \in Got THEN bytes[q] ELSE 0]
  /\ \A q \in Got : bytes[q] # 0
  /\ pc = "none" => size = 0 /\ total_size = 0
  /\ pc # "none" =>
       /\ size \in 1..Pow2(WordBits - 1)
       /\ \E k \in 0..(WordBits - 1) : total_size = Pow2(k)
       /\ total_size < 2 * size
       /\ pc # "round" => size <= total_size

\* With nothing granted, the record is empty and says nothing of the sizes.
LEMMA TableNone ==
  ASSUME child' = [q \in Parts |-> 0], pc' = "none", size' = 0, total_size' = 0
  PROVE  TableInv'
<1>1. pc' \notin Parts /\ pc' # "ready"
  BY DEF Parts
<1>2. Got' = {}
  BY <1>1 DEF Got, Parts
<1> QED BY <1>2 DEF TableInv, Parts

\* The call of the factory.
LEMMA TableMake ==
  ASSUME TableInv, NEW n \in 1..Pow2(WordBits - 1), NEW own, Make(n, own)
  PROVE  TableInv'
<1>1. Pow2(0) = 1 /\ 0 \in 0..(WordBits - 1)
  BY PowAssumption, LifeAssumption
<1>2. Got = {} /\ Got' = {}
  BY DEF Make, Got, Parts
<1>3. child' = [q \in Parts |-> 0]
  BY <1>2 DEF Make, TableInv
<1>4. size' = n /\ total_size' = 1 /\ pc' = "round"
  BY DEF Make, first_size
<1>5. Pow2(WordBits - 1) \in Nat
  <2>1. WordBits - 1 \in 0..WordBits
    BY LifeAssumption
  <2> QED BY <2>1, PowFacts
<1>6. size' \in 1..Pow2(WordBits - 1) /\ total_size' < 2 * size'
  BY <1>4, <1>5
<1>7. \E k \in 0..(WordBits - 1) : total_size' = Pow2(k)
  BY <1>1, <1>4
<1> QED BY <1>2, <1>3, <1>4, <1>6, <1>7 DEF TableInv, Parts, Pow2

\* An iteration of the rounding loop doubles the size, and nothing wraps.
LEMMA TableRound ==
  ASSUME TableInv, Round
  PROVE  TableInv'
<1>0. pc = "round" /\ total_size < size /\ total_size' = wrap(2 * total_size)
      /\ UNCHANGED <<pc, size, own_buffer, child>>
  BY DEF Round
<1>1. Got = {} /\ Got' = {}
  BY <1>0 DEF Got, Parts
<1>2. child' = [q \in Parts |-> 0]
  BY <1>0, <1>1 DEF TableInv
<1>3. PICK k \in 0..(WordBits - 1) : total_size = Pow2(k)
  BY <1>0 DEF TableInv
<1>4. /\ WordBits \in Nat \ {0}
      /\ k \in 0..WordBits /\ WordBits - 1 \in 0..WordBits /\ WordBits \in 0..WordBits
  BY LifeAssumption
<1>5. Pow2(k) \in Nat /\ Pow2(k + 1) = 2 * Pow2(k) /\ Pow2(WordBits - 1) \in Nat
  BY <1>4, PowFacts
<1>6. size \in 1..Pow2(WordBits - 1)
  BY <1>0 DEF TableInv
<1>7. k # WordBits - 1
  BY <1>0, <1>3, <1>5, <1>6
<1>8. k + 1 \in 0..(WordBits - 1)
  BY <1>4, <1>7
<1>9. 2 * total_size < WordMax + 1 /\ 2 * total_size \in Nat /\ WordMax + 1 \in Nat
  <2>1. Pow2(k + 1) <= Pow2(WordBits - 1)
    BY <1>4, <1>8, PowFacts
  <2>2. Pow2(WordBits) = 2 * Pow2(WordBits - 1) /\ Pow2(WordBits - 1) # 0
    <3>1. Pow2((WordBits - 1) + 1) = 2 * Pow2(WordBits - 1) /\ Pow2(WordBits - 1) # 0
      BY <1>4, PowFacts
    <3>2. (WordBits - 1) + 1 = WordBits
      BY <1>4
    <3> QED BY <3>1, <3>2
  <2> QED BY <1>3, <1>5, <2>1, <2>2 DEF WordMax
<1>10. total_size' = Pow2(k + 1)
  <2>1. wrap(2 * total_size) = 2 * total_size
    BY <1>9 DEF wrap
  <2> QED BY <1>0, <1>3, <1>5, <2>1
<1>11. total_size' < 2 * size'
  BY <1>0, <1>3, <1>5, <1>6, <1>10
<1>12. \E j \in 0..(WordBits - 1) : total_size' = Pow2(j)
  BY <1>8, <1>10
<1> QED BY <1>0, <1>1, <1>2, <1>6, <1>11, <1>12 DEF TableInv, Parts, Pow2

\* The loop ends.
LEMMA TableRounded ==
  ASSUME TableInv, Rounded
  PROVE  TableInv'
<1>0. /\ pc = "round" /\ total_size >= size
      /\ pc' = IF own_buffer THEN "buffer" ELSE "free_lists"
      /\ UNCHANGED <<size, total_size, own_buffer, child>>
  BY DEF Rounded
<1>1. Got = {} /\ Got' = {}
  BY <1>0 DEF Got, Parts, cleanup, the_buffer
<1>2. child' = [q \in Parts |-> 0]
  BY <1>0, <1>1 DEF TableInv
<1>3. size \in Int /\ total_size \in Int
  <2>1. PICK k \in 0..(WordBits - 1) : total_size = Pow2(k)
    BY <1>0 DEF TableInv
  <2>2. WordBits \in Nat /\ k \in 0..WordBits
    BY LifeAssumption
  <2> QED BY <1>0, <2>1, <2>2, PowFacts DEF TableInv
<1>4. size' <= total_size'
  BY <1>0, <1>3
<1> QED BY <1>0, <1>1, <1>2, <1>4 DEF TableInv, Parts, Pow2

\* The child grants the next part.
LEMMA TableGrant ==
  ASSUME TableInv, Grant
  PROVE  TableInv'
<1>0. /\ pc \in Parts /\ bytes[pc] # 0
      /\ child' = [child EXCEPT ![pc] = bytes[pc]]
      /\ pc' = following[pc]
      /\ UNCHANGED <<size, total_size, own_buffer>>
  BY DEF Grant
<1>1. bytes' = bytes
  BY <1>0, BytesSame
<1>2. pc = "buffer" => own_buffer
  BY DEF TableInv
<1>3. Got' = Got \cup {pc}
  BY <1>0, <1>2 DEF Got, Parts, cleanup, the_buffer, following
<1>4. child' = [q \in Parts |-> IF q \in Got' THEN bytes'[q] ELSE 0]
  <2>1. child = [q \in Parts |-> IF q \in Got THEN bytes[q] ELSE 0]
    BY DEF TableInv
  <2> QED BY <1>0, <1>1, <1>3, <2>1
<1>5. \A q \in Got' : bytes'[q] # 0
  BY <1>0, <1>1, <1>3 DEF TableInv
<1>6. pc' \in Parts \cup {"ready"} /\ pc' # "buffer"
  BY <1>0 DEF following, Parts
<1>7. /\ size' \in 1..Pow2(WordBits - 1)
      /\ \E k \in 0..(WordBits - 1) : total_size' = Pow2(k)
      /\ total_size' < 2 * size'
      /\ size' <= total_size'
  BY <1>0 DEF TableInv, Parts
<1> QED BY <1>4, <1>5, <1>6, <1>7 DEF TableInv, Parts, Pow2

\* A refusal, and buddy_destroy_fn: everything granted is given back.
LEMMA TableGone ==
  ASSUME TableInv, Refuse \/ BuddyDestroy
  PROVE  TableInv'
<1>1. PICK k \in 0..(WordBits - 1) : total_size = Pow2(k)
  BY DEF TableInv, Refuse, BuddyDestroy, Parts
<1>2. \A q \in Parts : bytes[q] # 0 => destroy_bytes[q] = bytes[q]
  BY <1>1, BytesFacts
<1>3. Got \subseteq Parts
  BY DEF Got, cleanup, Parts, the_buffer
<1>4. child' = [q \in Parts |-> 0]
  <2>1. CASE Refuse
    <3>1. Got = cleanup[pc] /\ child' = given_back(cleanup[pc], bytes)
      BY <2>1 DEF Refuse, Got
    <3> QED BY <3>1 DEF given_back, TableInv
  <2>2. CASE BuddyDestroy
    <3>1. /\ Got = (Parts \ {"buffer"}) \cup the_buffer
          /\ child' = given_back(Got, destroy_bytes)
      BY <2>2 DEF BuddyDestroy, Got, Parts
    <3>2. \A q \in Got : destroy_bytes[q] = bytes[q]
      BY <1>2, <1>3 DEF TableInv
    <3> QED BY <3>1, <3>2 DEF given_back, TableInv
  <2> QED BY <2>1, <2>2
<1>5. pc' = "none" /\ size' = 0 /\ total_size' = 0
  BY DEF Refuse, BuddyDestroy, gone
<1> QED BY <1>4, <1>5, TableNone

\* Every step keeps it.
LEMMA TableStep ==
  ASSUME TableInv, [Next]_vars
  PROVE  TableInv'
<1>1. ASSUME UNCHANGED buddy_vars PROVE TableInv'
  <2>1. total_size' = total_size
    BY <1>1 DEF buddy_vars
  <2>2. bytes' = bytes
    BY <2>1, BytesSame
  <2>3. Got' = Got
    BY <1>1 DEF buddy_vars, Got, cleanup, the_buffer, Parts
  <2> QED BY <1>1, <2>2, <2>3 DEF buddy_vars, TableInv, Parts, Pow2
<1>2. ASSUME NEW n \in BufferSizes, NEW own \in BOOLEAN, Make(n, own) PROVE TableInv'
  BY <1>2, TableMake, LifeAssumption
<1>3. ASSUME MakeGen PROVE TableInv'
  <2>1. WordBits \in Nat /\ 24 \in 0..(WordBits - 1) /\ WordBits - 1 \in 0..WordBits
    BY LifeAssumption, GenAssumption
  <2>2. Pow2(24) \in Nat \ {0} /\ Pow2(24) <= Pow2(WordBits - 1)
        /\ Pow2(WordBits - 1) \in Nat
    BY <2>1, PowFacts
  <2>3. BUDDY_TOTAL_SIZE \in 1..Pow2(WordBits - 1)
    BY <2>2 DEF BUDDY_TOTAL_SIZE
  <2> QED BY <1>3, <2>3, TableMake DEF MakeGen
<1>4. ASSUME Round \/ Rounded \/ Grant \/ Refuse \/ BuddyDestroy PROVE TableInv'
  BY <1>4, TableRound, TableRounded, TableGrant, TableGone
<1>5. ASSUME \/ \E n \in Sizes : Alloc(n)
             \/ \E p \in Block : Free(p)
             \/ \E p \in Block, n \in Sizes : ReallocTier(p, n) \/ ReallocMove(p, n)
      PROVE  UNCHANGED buddy_vars
  BY <1>5 DEF Alloc, Free, ReallocTier, ReallocMove, lifecycle_unchanged
<1>6. ASSUME \/ MakeGenFails \/ Refused \/ UNCHANGED vars \/ Destroy
             \/ MakePool \/ MakePoolFails \/ Crash
      PROVE  UNCHANGED buddy_vars
  BY <1>6 DEF MakeGenFails, Refused, vars, Destroy, MakePool, MakePoolFails, Crash
<1>7. ASSUME Teardown PROVE UNCHANGED buddy_vars \/ BuddyDestroy
  BY <1>7 DEF Teardown
<1> QED BY <1>1, <1>2, <1>3, <1>4, <1>5, <1>6, <1>7
        DEF Next, Running, BuddyMaking, MakeBuddy, MakeBuddyFails

\* In every state of every behaviour.
LEMMA TableInvariant == Spec => []TableInv
<1>1. Init => TableInv
  <2> SUFFICES ASSUME Init PROVE TableInv
    OBVIOUS
  <2>1. child = [q \in Parts |-> 0] /\ pc = "none" /\ size = 0 /\ total_size = 0
    BY DEF Init, BuddyInit
  <2>2. Got = {}
    BY <2>1 DEF Got, Parts
  <2> QED BY <2>1, <2>2 DEF TableInv, Parts
<1>2. TableInv /\ [Next]_vars => TableInv'
  BY TableStep
<1> QED BY <1>1, <1>2, PTL DEF Spec

(***************************************************************************)
(* For every width of size_t from 25 bits on and every size up to half of  *)
(* the address space: whichever allocation of make_buddy_allocator is      *)
(* refused, and when buddy_destroy_fn returns, the child has everything    *)
(* back, each part with the size it was granted with.                      *)
(***************************************************************************)
THEOREM ChildGetsExactly == Spec => []ChildExact
<1>1. ASSUME TableInv PROVE ChildExact
  <2>1. \A q \in Parts : child[q] = IF q \in Got THEN bytes[q] ELSE 0
    BY <1>1 DEF TableInv
  <2>2. CASE pc = "none"
    <3>1. Got = {}
      BY <2>2 DEF Got, Parts
    <3> QED BY <2>1, <3>1 DEF ChildExact, Corrupt
  <2>3. CASE pc # "none"
    <3>1. PICK k \in 0..(WordBits - 1) : total_size = Pow2(k)
      BY <1>1, <2>3 DEF TableInv
    <3>2. \A q \in Parts : bytes[q] \in Nat
      BY <3>1, BytesFacts
    <3> QED BY <2>1, <2>3, <3>2 DEF ChildExact, Corrupt
  <2> QED BY <2>2, <2>3
<1> QED BY <1>1, TableInvariant, PTL

\* The nodes and the smallest blocks of a buffer of 2^k bytes.
LEMMA NodesOfPower ==
  ASSUME NEW k \in 5..(WordBits - 1)
  PROVE  /\ Pow2(k) \div 32 = Pow2(k - 5)
         /\ Pow2(k - 5) * 2 = Pow2(k - 4)
         /\ Pow2(k - 4) \in Nat /\ Pow2(k - 5) \in Nat
<1>1. WordBits \in Nat
  BY LifeAssumption
<1>2. ASSUME NEW j \in 0..(WordBits - 1)
      PROVE  Pow2(j) \in Nat /\ Pow2(j + 1) = 2 * Pow2(j)
  BY <1>1, PowFacts
<1>3. /\ k - 5 \in 0..(WordBits - 1) /\ (k - 5) + 1 = k - 4
      /\ k - 4 \in 0..(WordBits - 1) /\ (k - 4) + 1 = k - 3
      /\ k - 3 \in 0..(WordBits - 1) /\ (k - 3) + 1 = k - 2
      /\ k - 2 \in 0..(WordBits - 1) /\ (k - 2) + 1 = k - 1
      /\ k - 1 \in 0..(WordBits - 1) /\ (k - 1) + 1 = k
  BY <1>1
<1>4. Pow2(k - 4) = 2 * Pow2(k - 5) /\ Pow2(k - 5) \in Nat
  BY <1>2, <1>3
<1>5. Pow2(k - 3) = 2 * Pow2(k - 4)
  BY <1>2, <1>3
<1>6. Pow2(k - 2) = 2 * Pow2(k - 3)
  BY <1>2, <1>3
<1>7. Pow2(k - 1) = 2 * Pow2(k - 2)
  BY <1>2, <1>3
<1>8. Pow2(k) = 2 * Pow2(k - 1)
  BY <1>2, <1>3
<1>9. Pow2(k) = 32 * Pow2(k - 5)
  BY <1>4, <1>5, <1>6, <1>7, <1>8
<1>10. \A x \in Nat : (32 * x) \div 32 = x
  OBVIOUS
<1> QED BY <1>4, <1>9, <1>10

(***************************************************************************)
(* For the same words and sizes: a factory that returns ALLO_OK made an    *)
(* allocator of at least one level, with a list for each level, a bit for  *)
(* each node and an order for each smallest block.                         *)
(***************************************************************************)
THEOREM TablesLargeEnough == Spec => []TablesFit
<1>1. ASSUME TableInv, pc = "ready" PROVE TablesFit
  <2>1. PICK k \in 0..(WordBits - 1) : total_size = Pow2(k)
    BY <1>1 DEF TableInv
  <2>2. /\ num_levels = k - 4
        /\ free_lists_count \in Nat /\ bit_bytes \in Nat /\ block_orders_len \in Nat
    BY <2>1, BytesFacts
  <2>3. /\ WordBits \in Nat /\ k \in 0..WordBits /\ WordBits \in 0..WordBits
        /\ Pow2(k) \in Nat
    BY LifeAssumption, PowFacts
  <2>4. ASSUME NEW q \in {"free_lists", "bitset", "block_orders"}
        PROVE  child[q] = bytes[q] /\ bytes[q] # 0
    <3>1. q \in Got /\ q \in Parts
      BY <1>1 DEF Got, Parts
    <3> QED BY <1>1, <3>1 DEF TableInv
  <2>5. child["free_lists"] = 8 * free_lists_count
    <3>1. /\ child["free_lists"] = allo_calloc(free_lists_count, 8)
          /\ child["free_lists"] # 0
      BY <2>4 DEF bytes, sizeof_pointer
    <3> QED BY <2>2, <3>1, CallocFacts
  <2>6. child["bitset"] = bit_bytes
    <3>1. child["bitset"] = allo_calloc(bit_bytes, 1) /\ child["bitset"] # 0
      BY <2>4 DEF bytes
    <3> QED BY <2>2, <3>1, CallocFacts
  <2>7. child["block_orders"] = block_orders_len /\ block_orders_len # 0
    <3>1. /\ child["block_orders"] = allo_calloc(block_orders_len, 1)
          /\ child["block_orders"] # 0
      BY <2>4 DEF bytes
    <3> QED BY <2>2, <3>1, CallocFacts
  <2>8. k >= 5
    <3>1. Pow2(k) >= 32
      BY <2>1, <2>3, <2>7 DEF block_orders_len, min_block_size
    <3>2. ASSUME k <= 4 PROVE FALSE
      <4>1. k \in 0..4 /\ 4 \in 0..WordBits
        BY <3>2, GenAssumption, LifeAssumption
      <4>2. Pow2(k) <= Pow2(4)
        BY <4>1, PowFacts
      <4>3. Pow2(4) = 16
        BY DEF Pow2
      <4> QED BY <2>3, <3>1, <4>2, <4>3
    <3> QED BY <3>2
  <2>9. /\ Pow2(k) \div 32 = Pow2(k - 5)
        /\ Pow2(k - 5) * 2 = Pow2(k - 4)
        /\ Pow2(k - 4) \in Nat /\ Pow2(k - 5) \in Nat
    BY <2>8, NodesOfPower
  <2>10. free_lists_count = k - 3
    <3>1. WordBits < WordMax + 1 /\ WordMax + 1 \in Nat
      BY <2>3, PowFacts DEF WordMax
    <3>2. wrap(k - 4) = k - 4
      BY <2>3, <2>8, <3>1 DEF wrap
    <3>3. wrap((k - 4) + 1) = k - 3
      BY <2>3, <2>8, <3>1 DEF wrap
    <3> QED BY <2>2, <3>2, <3>3 DEF free_lists_count
  <2>11. bit_bytes * 8 >= Pow2(num_levels) - 1
    <3>1. max_nodes = Pow2(k - 4)
      BY <2>1, <2>9 DEF max_nodes, min_block_size
    <3> QED BY <2>2, <2>9, <3>1 DEF bit_bytes
  <2>12. block_orders_len = Pow2(num_levels - 1)
    <3>1. num_levels - 1 = k - 5
      BY <2>2
    <3> QED BY <2>1, <2>9, <3>1 DEF block_orders_len, min_block_size
  <2>13. size <= total_size /\ total_size < 2 * size
    BY <1>1 DEF TableInv
  <2>14. num_levels >= 1 /\ child["free_lists"] >= num_levels * sizeof_pointer
    BY <2>2, <2>5, <2>8, <2>10 DEF sizeof_pointer
  <2>15. child["block_orders"] >= Pow2(num_levels - 1)
    BY <2>2, <2>7, <2>12
  <2> QED BY <2>6, <2>11, <2>13, <2>14, <2>15 DEF TablesFit
<1>2. ASSUME TableInv PROVE TablesFit
  BY <1>1, <1>2 DEF TablesFit
<1> QED BY <1>2, TableInvariant, PTL

-----------------------------------------------------------------------------
(* The portable get_order *)

\* A shift right loses less than its last bit's worth.
LEMMA ShiftFacts ==
  ASSUME NEW k \in {1, 2, 4, 8, 16, 32}, NEW v \in Nat, v < Pow2(k) * Pow2(k)
  PROVE  LET d == v \div Pow2(k)
         IN /\ d \in Nat /\ d <= v /\ d < Pow2(k) /\ d % Pow2(k) = d
            /\ Pow2(k) * d <= v /\ v < Pow2(k) * (d + 1)
<1>1. /\ Pow2(1) = 2 /\ Pow2(2) = 4 /\ Pow2(4) = 16 /\ Pow2(8) = 256
      /\ Pow2(16) = 65536 /\ Pow2(32) = 4294967296
  BY DEF Pow2
<1>2. CASE k = 1
  BY <1>1, <1>2
<1>3. CASE k = 2
  BY <1>1, <1>3
<1>4. CASE k = 4
  BY <1>1, <1>4
<1>5. CASE k = 8
  BY <1>1, <1>5
<1>6. CASE k = 16
  BY <1>1, <1>6
<1>7. CASE k = 32
  BY <1>1, <1>7
<1> QED BY <1>2, <1>3, <1>4, <1>5, <1>6, <1>7

\* One if of the portable get_order: what is left fits k bits, and has as many
\* significant bits less as the order gained.
LEMMA HalveFacts ==
  ASSUME NEW k \in {1, 2, 4, 8, 16, 32}, k <= WordBits,
         NEW v \in Nat, v < Pow2(k) * Pow2(k), v < Pow2(WordBits), NEW o \in Nat
  PROVE  \E w \in Nat, p \in Nat :
           /\ halve([val |-> v, order |-> o], k) = [val |-> w, order |-> p]
           /\ w < Pow2(k) /\ w < Pow2(WordBits)
           /\ \A b : Bits(w, b) => Bits(v, b + (p - o))
<1> DEFINE C == Pow2(k)
           d == v \div C
<1>0. WordBits \in Nat /\ k \in 0..WordBits /\ WordBits \in 0..WordBits
  BY LifeAssumption
<1>1. C \in Nat \ {0} /\ Pow2(WordBits) \in Nat
  BY <1>0, PowFacts
<1>2. /\ d \in Nat /\ d <= v /\ d < C /\ d % C = d
      /\ C * d <= v /\ v < C * (d + 1)
  BY ShiftFacts
<1>3. halve([val |-> v, order |-> o], k) =
        IF d # 0 THEN [val |-> d, order |-> o + k] ELSE [val |-> v, order |-> o]
  BY <1>2 DEF halve
<1>4. CASE d = 0
  <2>1. v < C
    BY <1>1, <1>2, <1>4
  <2>2. \A b : Bits(v, b) => Bits(v, b + (o - o))
    BY DEF Bits
  <2> QED BY <1>3, <1>4, <2>1, <2>2
<1>5. CASE d # 0
  <2>1. ASSUME NEW b, Bits(d, b) PROVE Bits(v, b + k)
    <3> DEFINE a == b - 1
    <3>1. b \in 0..WordBits /\ d < Pow2(b) /\ (b > 0 => d >= Pow2(b - 1))
      BY <2>1 DEF Bits
    <3>2. b # 0
      <4>1. Pow2(0) = 1
        BY PowAssumption
      <4> QED BY <1>2, <1>5, <3>1, <4>1
    <3>3. a \in 0..WordBits /\ a + 1 = b /\ d >= Pow2(a)
      BY <1>0, <3>1, <3>2
    <3>4. Pow2(a) \in Nat /\ Pow2(b) \in Nat
      BY <3>1, <3>3, PowFacts
    <3> HIDE DEF a, C, d
    <3>5. C * Pow2(a) <= v
      <4>1. C * Pow2(a) <= C * d
        BY <1>1, <1>2, <3>3, <3>4
      <4> QED BY <1>1, <1>2, <3>4, <4>1
    <3>6. v < C * Pow2(b)
      <4>1. d + 1 <= Pow2(b)
        BY <1>2, <3>1, <3>4
      <4>2. C * (d + 1) <= C * Pow2(b)
        BY <1>1, <1>2, <3>4, <4>1
      <4> QED BY <1>1, <1>2, <3>4, <4>2
    <3>7. b + k <= WordBits
      <4> SUFFICES ASSUME b + k > WordBits PROVE FALSE
        BY <1>0, <3>1
      <4> DEFINE j == WordBits - a
      <4>1. j \in 0..k /\ WordBits - j = a /\ j \in 0..WordBits
        BY <1>0, <3>1, <3>3
      <4>2. Pow2(j) \in Nat /\ Pow2(j) <= C
        BY <1>0, <4>1, PowFacts DEF C
      <4>3. Pow2(a) * Pow2(j) = Pow2(WordBits)
        <5>1. WordBits \in 0..WordBits /\ a \in 0..WordBits
          BY <1>0, <3>3
        <5> QED BY <5>1, PowProduct
      <4> HIDE DEF j
      <4>4. Pow2(a) * Pow2(j) <= Pow2(a) * C
        BY <1>1, <3>4, <4>2
      <4> QED BY <1>1, <3>4, <3>5, <4>2, <4>3, <4>4
    <3>8. Pow2(b + k) = C * Pow2(b) /\ Pow2(a + k) = C * Pow2(a)
      <4>1. /\ b + k \in 0..WordBits /\ k \in 0..(b + k) /\ (b + k) - k = b
            /\ a + k \in 0..WordBits /\ k \in 0..(a + k) /\ (a + k) - k = a
        BY <1>0, <3>1, <3>3, <3>7
      <4>2. /\ Pow2(k) * Pow2((b + k) - k) = Pow2(b + k)
            /\ Pow2(k) * Pow2((a + k) - k) = Pow2(a + k)
        BY <4>1, PowProduct
      <4> QED BY <4>1, <4>2 DEF C
    <3>9. b + k \in 0..WordBits /\ (b + k) - 1 = a + k
      BY <1>0, <3>1, <3>3, <3>7
    <3> QED BY <3>5, <3>6, <3>8, <3>9 DEF Bits
  <2>2. \A b : Bits(d, b) => Bits(d, b) /\ b + ((o + k) - o) = b + k
    BY <1>0 DEF Bits
  <2>3. d < Pow2(WordBits)
    BY <1>1, <1>2
  <2> QED BY <1>0, <1>2, <1>3, <1>5, <2>1, <2>2, <2>3
<1> QED BY <1>4, <1>5

\* For words of up to 64 bits the portable branch of get_order gives what
\* counting leading zeros gives, for every size_t.
THEOREM PortableOrder ==
  ASSUME WordBits <= 64, NEW n \in Nat, n <= Pow2(WordBits)
  PROVE  get_order_portable(n) = get_order(n)
<1> DEFINE acc(v, o) == [val |-> v, order |-> o]
           word == IF WordBits > 32 THEN halve(acc(n - 1, 0), 32) ELSE acc(n - 1, 0)
           found == halve(halve(halve(halve(halve(word, 16), 8), 4), 2), 1)
<1>1. CASE n <= 1
  BY <1>1 DEF get_order, get_order_portable
<1>2. CASE n > 1
  <2>0. /\ WordBits \in Nat /\ WordBits >= 25 /\ n - 1 \in Nat
        /\ WordBits \in 0..WordBits
    BY <1>2, LifeAssumption, GenAssumption
  <2>1. /\ Pow2(0) = 1 /\ Pow2(1) = 2 /\ Pow2(2) = 4 /\ Pow2(4) = 16
        /\ Pow2(8) = 256 /\ Pow2(16) = 65536 /\ Pow2(32) = 4294967296
    BY DEF Pow2
  <2>2. Pow2(WordBits) \in Nat /\ n - 1 < Pow2(WordBits)
    BY <2>0, PowFacts
  <2>3. \E v \in Nat, o \in Nat :
          /\ word = acc(v, o) /\ v < 65536 * 65536 /\ v < Pow2(WordBits)
          /\ \A b : Bits(v, b) => Bits(n - 1, b + (o - 0))
    <3>1. CASE WordBits > 32
      <4>1. n - 1 < Pow2(32) * Pow2(32)
        <5>1. 32 \in 0..WordBits /\ WordBits - 32 \in 0..32
          BY <2>0, <3>1
        <5>2. Pow2(32) * Pow2(WordBits - 32) = Pow2(WordBits)
          BY <2>0, <5>1, PowProduct
        <5>3. Pow2(WordBits - 32) \in Nat /\ Pow2(WordBits - 32) <= Pow2(32)
          BY <5>1, PowFacts
        <5> QED BY <2>0, <2>1, <2>2, <5>2, <5>3
      <4>2. word = halve(acc(n - 1, 0), 32)
        BY <3>1
      <4>3. \E v \in Nat, o \in Nat :
              /\ halve(acc(n - 1, 0), 32) = acc(v, o)
              /\ v < Pow2(32) /\ v < Pow2(WordBits)
              /\ \A b : Bits(v, b) => Bits(n - 1, b + (o - 0))
        <5>1. 32 \in {1, 2, 4, 8, 16, 32} /\ 32 <= WordBits /\ 0 \in Nat
          BY <3>1, <2>0
        <5> QED BY <2>0, <2>2, <4>1, <5>1, HalveFacts
      <4>4. Pow2(32) = 65536 * 65536
        BY <2>1
      <4> HIDE DEF word, acc
      <4> QED BY <4>2, <4>3, <4>4
    <3>2. CASE WordBits <= 32
      <4>1. n - 1 < 65536 * 65536
        <5>1. 16 \in 0..WordBits /\ WordBits - 16 \in 0..16
          BY <2>0, <3>2
        <5>2. Pow2(16) * Pow2(WordBits - 16) = Pow2(WordBits)
          BY <2>0, <5>1, PowProduct
        <5>3. Pow2(WordBits - 16) \in Nat /\ Pow2(WordBits - 16) <= Pow2(16)
          BY <5>1, PowFacts
        <5> QED BY <2>0, <2>1, <2>2, <5>2, <5>3
      <4>2. word = acc(n - 1, 0)
        BY <2>0, <3>2
      <4>3. \A b : Bits(n - 1, b) => Bits(n - 1, b + (0 - 0))
        BY DEF Bits
      <4> HIDE DEF word, acc
      <4> QED BY <2>0, <2>2, <4>1, <4>2, <4>3
    <3> QED BY <2>0, <3>1, <3>2
  <2> HIDE DEF word
  <2>4. PICK v0 \in Nat, o0 \in Nat :
          /\ word = acc(v0, o0) /\ v0 < 65536 * 65536 /\ v0 < Pow2(WordBits)
          /\ \A b : Bits(v0, b) => Bits(n - 1, b + (o0 - 0))
    BY <2>3
  <2>5. /\ 16 \in {1, 2, 4, 8, 16, 32} /\ 8 \in {1, 2, 4, 8, 16, 32}
        /\ 4 \in {1, 2, 4, 8, 16, 32} /\ 2 \in {1, 2, 4, 8, 16, 32}
        /\ 1 \in {1, 2, 4, 8, 16, 32}
        /\ 16 <= WordBits /\ 8 <= WordBits /\ 4 <= WordBits /\ 2 <= WordBits
        /\ 1 <= WordBits
    BY <2>0
  <2>6. PICK v1 \in Nat, o1 \in Nat :
          /\ halve(acc(v0, o0), 16) = acc(v1, o1)
          /\ v1 < Pow2(16) /\ v1 < Pow2(WordBits)
          /\ \A b : Bits(v1, b) => Bits(v0, b + (o1 - o0))
    <3>1. v0 < Pow2(16) * Pow2(16)
      BY <2>1, <2>4
    <3>2. v0 < Pow2(WordBits)
      BY <2>4
    <3> QED BY <2>5, <3>1, <3>2, HalveFacts
  <2>7. PICK v2 \in Nat, o2 \in Nat :
          /\ halve(acc(v1, o1), 8) = acc(v2, o2)
          /\ v2 < Pow2(8) /\ v2 < Pow2(WordBits)
          /\ \A b : Bits(v2, b) => Bits(v1, b + (o2 - o1))
    <3>1. v1 < Pow2(8) * Pow2(8)
      BY <2>1, <2>6
    <3> QED BY <2>5, <2>6, <3>1, HalveFacts
  <2>8. PICK v3 \in Nat, o3 \in Nat :
          /\ halve(acc(v2, o2), 4) = acc(v3, o3)
          /\ v3 < Pow2(4) /\ v3 < Pow2(WordBits)
          /\ \A b : Bits(v3, b) => Bits(v2, b + (o3 - o2))
    <3>1. v2 < Pow2(4) * Pow2(4)
      BY <2>1, <2>7
    <3> QED BY <2>5, <2>7, <3>1, HalveFacts
  <2>9. PICK v4 \in Nat, o4 \in Nat :
          /\ halve(acc(v3, o3), 2) = acc(v4, o4)
          /\ v4 < Pow2(2) /\ v4 < Pow2(WordBits)
          /\ \A b : Bits(v4, b) => Bits(v3, b + (o4 - o3))
    <3>1. v3 < Pow2(2) * Pow2(2)
      BY <2>1, <2>8
    <3> QED BY <2>5, <2>8, <3>1, HalveFacts
  <2>10. PICK v5 \in Nat, o5 \in Nat :
           /\ halve(acc(v4, o4), 1) = acc(v5, o5)
           /\ v5 < Pow2(1) /\ v5 < Pow2(WordBits)
           /\ \A b : Bits(v5, b) => Bits(v4, b + (o5 - o4))
    <3>1. v4 < Pow2(1) * Pow2(1)
      BY <2>1, <2>9
    <3> QED BY <2>5, <2>9, <3>1, HalveFacts
  <2>11. Bits(v5, v5) /\ last_bit(v5) = v5
    <3>1. v5 = 0 \/ v5 = 1
      BY <2>1, <2>10
    <3> QED BY <2>0, <2>1, <3>1 DEF Bits, last_bit
  <2>12. Bits(n - 1, o5 + v5)
    <3>1. Bits(v4, v5 + (o5 - o4))
      BY <2>10, <2>11
    <3>2. Bits(v3, (v5 + (o5 - o4)) + (o4 - o3))
      BY <2>9, <3>1
    <3>3. Bits(v2, ((v5 + (o5 - o4)) + (o4 - o3)) + (o3 - o2))
      BY <2>8, <3>2
    <3>4. Bits(v1, (((v5 + (o5 - o4)) + (o4 - o3)) + (o3 - o2)) + (o2 - o1))
      BY <2>7, <3>3
    <3>5. Bits(v0, ((((v5 + (o5 - o4)) + (o4 - o3)) + (o3 - o2)) + (o2 - o1)) + (o1 - o0))
      BY <2>6, <3>4
    <3>6. Bits(n - 1, (((((v5 + (o5 - o4)) + (o4 - o3)) + (o3 - o2)) + (o2 - o1))
                       + (o1 - o0)) + (o0 - 0))
      BY <2>4, <3>5
    <3>7. (((((v5 + (o5 - o4)) + (o4 - o3)) + (o3 - o2)) + (o2 - o1))
           + (o1 - o0)) + (o0 - 0) = o5 + v5
      OBVIOUS
    <3> QED BY <3>6, <3>7
  <2>13. get_order(n) = o5 + v5
    BY <1>2, <2>0, <2>12, BitLength DEF get_order
  <2>14. found = acc(v5, o5)
    <3> HIDE DEF acc
    <3> QED BY <2>4, <2>6, <2>7, <2>8, <2>9, <2>10
  <2>15. get_order_portable(n) = found.order + last_bit(found.val)
    BY <1>2 DEF get_order_portable, word
  <2> QED BY <2>11, <2>13, <2>14, <2>15
<1> QED BY <1>1, <1>2

(***************************************************************************)
(* For words of up to 64 bits, the portable branch of get_order agrees     *)
(* with counting leading zeros on every size an allocator is made with, on *)
(* what it is rounded to, and on the inputs the run tries.                 *)
(***************************************************************************)
THEOREM PortableAgrees ==
  ASSUME WordBits <= 64
  PROVE  Spec => []OrderAgrees
<1>1. ASSUME TableInv PROVE OrderAgrees
  <2>0. WordBits \in Nat /\ WordBits >= 25 /\ WordBits \in 0..WordBits
        /\ WordBits - 1 \in 0..WordBits /\ (WordBits - 1) + 1 = WordBits
    BY LifeAssumption, GenAssumption
  <2>1. /\ Pow2(WordBits - 1) \in Nat \ {0} /\ Pow2(WordBits) \in Nat
        /\ Pow2(WordBits) = 2 * Pow2(WordBits - 1)
    BY <2>0, PowFacts
  <2>2. Pow2(WordBits) >= 512
    <3>1. Pow2(9) = 512
      BY DEF Pow2
    <3>2. 9 \in 0..WordBits
      BY <2>0
    <3> QED BY <2>0, <3>1, <3>2, PowFacts
  <2>3. ASSUME NEW n \in OrderInputs PROVE n \in Nat /\ n <= Pow2(WordBits)
    <3>1. CASE n \in 0..300
      BY <2>1, <2>2, <3>1
    <3>2. CASE n \in {Pow2(k) + d : k \in 0..(WordBits - 1), d \in {-1, 0, 1}}
      <4>1. PICK k \in 0..(WordBits - 1), d \in {-1, 0, 1} : n = Pow2(k) + d
        BY <3>2
      <4>2. Pow2(k) \in Nat \ {0} /\ Pow2(k) <= Pow2(WordBits - 1)
        BY <2>0, PowFacts
      <4> QED BY <2>1, <4>1, <4>2
    <3> QED BY <3>1, <3>2 DEF OrderInputs
  <2>4. /\ size \in Nat /\ size <= Pow2(WordBits)
        /\ total_size \in Nat /\ total_size <= Pow2(WordBits)
    <3>1. CASE pc = "none"
      BY <1>1, <2>1, <3>1 DEF TableInv
    <3>2. CASE pc # "none"
      <4>1. PICK k \in 0..(WordBits - 1) : total_size = Pow2(k)
        BY <1>1, <3>2 DEF TableInv
      <4>2. Pow2(k) \in Nat /\ Pow2(k) <= Pow2(WordBits - 1)
        BY <2>0, PowFacts
      <4>3. size \in 1..Pow2(WordBits - 1)
        BY <1>1, <3>2 DEF TableInv
      <4> QED BY <2>1, <4>1, <4>2, <4>3
    <3> QED BY <3>1, <3>2
  <2>5. \A n \in Nat : n <= Pow2(WordBits) => get_order_portable(n) = get_order(n)
    BY PortableOrder
  <2> QED BY <2>3, <2>4, <2>5 DEF OrderAgrees
<1> QED BY <1>1, TableInvariant, PTL

=============================================================================
