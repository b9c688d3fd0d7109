---------------------------- MODULE BufferProofs ----------------------------
(***************************************************************************)
(* The fixed buffer allocator for every buffer, every width of size_t and  *)
(* every set of requests of which none is so large that a sum wraps.       *)
(***************************************************************************)
EXTENDS Buffer, TLAPS

\* No request is within the size of the buffer of SIZE_MAX: buf_realloc_fn's
\* sum of an offset and a size is exact.
NoWrap == \A n \in Sizes : size + n <= WordMax

Types ==
  /\ live \in [Addrs -> Nat]
  /\ destroyed \in BOOLEAN

\* Inductive: BumpOrder needs the sizes to be numbers, ShadowSound needs that
\* blocks are apart and below the offset.
IInv == Types /\ BumpOrder /\ ShadowSound

-----------------------------------------------------------------------------
(* Words and addresses *)

\* A sum that fits a word does not wrap.
LEMMA WrapFits ==
  ASSUME NEW x \in 0..WordMax
  PROVE  wrap(x) = x
<1> DEFINE M == WordMax + 1
           q == x \div M
<1>1. M \in Nat \ {0} /\ x \in Nat /\ x < M
  BY WordAssumption
<1> HIDE DEF M
<1>2. q \in Int /\ x = M * q + (x % M) /\ x % M \in 0..(M - 1)
  BY <1>1
<1> HIDE DEF q
<1>3. q = 0
  <2>1. ASSUME q >= 1 PROVE FALSE
    <3>1. PICK d \in Nat : q = 1 + d
      <4>1. q - 1 \in Nat /\ q = 1 + (q - 1)
        BY <1>2, <2>1
      <4> QED BY <4>1
    <3>2. M * q = M + M * d /\ M * d \in Nat
      BY <1>1, <3>1
    <3> QED BY <1>1, <1>2, <3>2
  <2>2. ASSUME q <= -1 PROVE FALSE
    <3>1. PICK d \in Nat : q = -1 - d
      <4>1. -1 - q \in Nat /\ q = -1 - (-1 - q)
        BY <1>2, <2>2
      <4> QED BY <4>1
    <3>2. M * q = -M - M * d /\ M * d \in Nat
      BY <1>1, <3>1
    <3> QED BY <1>1, <1>2, <3>2
  <2> QED BY <1>2, <2>1, <2>2
<1>4. x % M = x
  BY <1>1, <1>2, <1>3
<1> QED BY <1>4 DEF wrap, M

\* Rounding an offset up: at most seven bytes, to a multiple of eight.
LEMMA AlignFacts ==
  ASSUME NEW x \in 0..size
  PROVE  /\ align_up(x) \in Nat
         /\ x <= align_up(x)
         /\ align_up(x) % Alignment = 0
<1>1. x + 8 - 1 \in 0..WordMax
  BY WordAssumption
<1>2. align_up(x) = 8 * ((x + 8 - 1) \div 8)
  BY <1>1, WrapFits DEF align_up, Alignment
<1> QED BY <1>2, WordAssumption DEF Alignment

LEMMA AddrFacts ==
  ASSUME NEW a \in Addrs
  PROVE  a \in Nat /\ a < size /\ a % Alignment = 0
  BY WordAssumption DEF Addrs

\* Where a block that fits is put.
LEMMA PlaceFacts ==
  ASSUME IInv, NEW n \in Sizes, n # 0, buf_alloc(n)
  PROVE  /\ align_up(offset) \in Addrs /\ align_up(offset) \in Nat
         /\ offset \in Nat /\ offset <= align_up(offset)
         /\ n \in Nat \ {0}
         /\ align_up(offset) + n <= size
         /\ offset' = align_up(offset) + n
<1>1. offset \in 0..size
  BY DEF IInv, BumpOrder
<1>2. n \in Nat \ {0}
  BY WordAssumption
<1> QED BY <1>1, <1>2, AlignFacts, WordAssumption DEF buf_alloc, fits, Addrs

\* A block that ends at the offset is the last one.
LEMMA LastBlock ==
  ASSUME IInv, NEW a \in Held, a + live[a] = offset, NEW b \in Held, b # a
  PROVE  b + live[b] <= a
<1>1. /\ a \in Nat /\ b \in Nat /\ live[a] \in Nat /\ live[b] \in Nat \ {0}
      /\ a \in Addrs /\ b \in Addrs
  BY AddrFacts DEF Held, IInv, Types
<1>2. b + live[b] <= offset
  BY DEF IInv, BumpOrder
<1>3. (a < b => a + live[a] <= b) /\ (b < a => b + live[b] <= a)
  BY DEF IInv, BumpOrder
<1> QED BY <1>1, <1>2, <1>3

\* What buf_realloc_fn computes, when nothing wraps.
LEMMA InPlaceFacts ==
  ASSUME NoWrap, IInv, NEW a \in Held, NEW n \in Sizes
  PROVE  /\ a \in Addrs /\ a \in Nat /\ live[a] \in Nat \ {0} /\ n \in Nat
         /\ wrap(a + n) = a + n
         /\ is_last_alloc(a) <=> a + live[a] = offset
<1>1. a \in Addrs /\ a \in Nat /\ a < size /\ live[a] \in Nat \ {0} /\ n \in Nat
  BY AddrFacts, WordAssumption DEF Held, IInv, Types
<1>2. a + n \in 0..WordMax
  BY <1>1, WordAssumption DEF NoWrap
<1>3. a + live[a] \in 0..WordMax
  BY <1>1, WordAssumption DEF IInv, BumpOrder
<1> QED BY <1>1, <1>2, <1>3, WrapFits DEF is_last_alloc

-----------------------------------------------------------------------------
(* Steps *)

LEMMA InitInv == Init => IInv
<1> SUFFICES ASSUME Init PROVE IInv
  OBVIOUS
<1>1. Held = {} /\ offset = 0 /\ unpoisoned = {} /\ Types
  BY DEF Init, Held, Types
<1>2. offset \in 0..size
  BY <1>1, WordAssumption
<1> QED BY <1>1, <1>2 DEF IInv, BumpOrder, ShadowSound

\* A new block past the offset; the ones in X are given up.
LEMMA AllocStep ==
  ASSUME IInv, NEW n \in Sizes, n # 0, buf_alloc(n), NEW X \in SUBSET Addrs,
         live' = [a \in Addrs |-> IF a = align_up(offset) THEN n
                                  ELSE IF a \in X THEN 0 ELSE live[a]],
         unpoisoned' = unpoisoned \cup Bytes(align_up(offset), n),
         UNCHANGED destroyed
  PROVE  IInv'
<1> DEFINE p == align_up(offset)
<1>1. /\ p \in Addrs /\ p \in Nat /\ offset \in Nat /\ offset <= p
      /\ n \in Nat \ {0} /\ p + n <= size /\ offset' = p + n
  BY PlaceFacts
<1> HIDE DEF p
<1>2. live' = [a \in Addrs |-> IF a = p THEN n ELSE IF a \in X THEN 0 ELSE live[a]]
      /\ unpoisoned' = unpoisoned \cup Bytes(p, n)
  BY DEF p
<1>3. Types'
  BY <1>1, <1>2 DEF IInv, Types, Addrs, Alignment
<1>4. ASSUME NEW a \in Held', a # p
      PROVE  /\ a \in Held /\ live'[a] = live[a] /\ a \in Nat /\ live[a] \in Nat \ {0}
             /\ a + live[a] <= offset
  <2>1. a \in Addrs /\ live'[a] # 0
    BY <1>4 DEF Held, Addrs, Alignment
  <2>2. live'[a] = live[a]
    BY <1>2, <1>4, <2>1
  <2> QED BY <2>1, <2>2, AddrFacts DEF IInv, Types, BumpOrder, Held
<1>5. live'[p] = n
  BY <1>1, <1>2
<1>6. BumpOrder'
  <2>1. \A a \in Held' : a + live'[a] <= offset'
    BY <1>1, <1>4, <1>5
  <2>2. ASSUME NEW a \in Held', NEW b \in Held', a < b
        PROVE  a + live'[a] <= b
    <3>1. CASE a = p
      BY <1>1, <1>4, <2>2, <3>1
    <3>2. CASE a # p /\ b = p
      BY <1>1, <1>4, <3>2
    <3>3. CASE a # p /\ b # p
      BY <1>4, <2>2, <3>3 DEF IInv, BumpOrder
    <3> QED BY <3>1, <3>2, <3>3
  <2>3. offset' \in 0..size
    BY <1>1, WordAssumption
  <2> QED BY <2>1, <2>2, <2>3 DEF BumpOrder
<1>7. ShadowSound'
  <2>1. ASSUME NEW a \in Held' PROVE Bytes(a, live'[a]) \subseteq unpoisoned'
    <3>1. CASE a = p
      BY <1>2, <1>5, <3>1
    <3>2. CASE a # p
      BY <1>2, <1>4, <3>2 DEF IInv, ShadowSound
    <3> QED BY <3>1, <3>2
  <2>2. \A x \in unpoisoned : x \in 0..(offset - 1)
    BY DEF IInv, ShadowSound
  <2>3. \A x \in 0..(offset - 1) : x \in 0..(p + n - 1)
    BY <1>1
  <2>4. \A x \in Bytes(p, n) : x \in 0..(p + n - 1)
    BY <1>1 DEF Bytes
  <2>5. unpoisoned' \subseteq 0..(offset' - 1)
    BY <1>1, <1>2, <2>2, <2>3, <2>4
  <2> QED BY <2>1, <2>5 DEF ShadowSound, Bytes
<1> QED BY <1>3, <1>6, <1>7 DEF IInv

LEMMA FreeStep ==
  ASSUME IInv, NEW f \in Addrs, Free(f)
  PROVE  IInv'
<1>1. /\ live[f] # 0 /\ f \in Held
      /\ unpoisoned' = unpoisoned \ Bytes(f, live[f])
      /\ live' = [live EXCEPT ![f] = 0]
      /\ UNCHANGED <<offset, destroyed>>
  BY DEF Free, poison, Held
<1>2. Types'
  BY <1>1 DEF IInv, Types, Addrs, Alignment
<1>3. ASSUME NEW a \in Held'
      PROVE  a \in Held /\ a # f /\ live'[a] = live[a]
  BY <1>1, <1>3 DEF Held, IInv, Types, Addrs, Alignment
<1>4. BumpOrder'
  BY <1>1, <1>3 DEF IInv, BumpOrder
<1>5. ASSUME NEW a \in Held'
      PROVE  Bytes(a, live[a]) \cap Bytes(f, live[f]) = {}
  <2>1. a \in Held /\ a # f
    BY <1>3
  <2>2. /\ a \in Nat /\ f \in Nat /\ live[a] \in Nat /\ live[f] \in Nat
    BY <2>1, AddrFacts DEF Held, IInv, Types
  <2>3. (a < f => a + live[a] <= f) /\ (f < a => f + live[f] <= a)
    BY <1>1, <2>1 DEF IInv, BumpOrder
  <2> QED BY <2>1, <2>2, <2>3 DEF Bytes
<1>6. ShadowSound'
  BY <1>1, <1>3, <1>5 DEF IInv, ShadowSound, Bytes
<1> QED BY <1>2, <1>4, <1>6 DEF IInv

\* The last block changes its size where it is, and the offset with it.
LEMMA InPlaceStep ==
  ASSUME NoWrap, IInv, NEW a \in Addrs, NEW n \in Sizes, ReallocInPlace(a, n)
  PROVE  IInv'
<1>1. /\ a \in Held /\ n # 0
      /\ is_last_alloc(a) /\ wrap(a + n) <= size
      /\ offset' = wrap(a + n)
      /\ unpoisoned' = resize_shadow(a, n)
      /\ live' = [live EXCEPT ![a] = n]
      /\ UNCHANGED destroyed
  BY DEF ReallocInPlace, InPlace, fits_in_current, Held
<1>2. /\ a \in Nat /\ live[a] \in Nat \ {0} /\ n \in Nat \ {0}
      /\ a + live[a] = offset /\ offset' = a + n /\ a + n <= size
  BY <1>1, InPlaceFacts
<1>3. Types'
  BY <1>1, <1>2 DEF IInv, Types, Addrs, Alignment
<1>4. ASSUME NEW b \in Held', b # a
      PROVE  /\ b \in Held /\ live'[b] = live[b]
             /\ b \in Nat /\ live[b] \in Nat \ {0} /\ b + live[b] <= a
  <2>1. b \in Addrs /\ live'[b] # 0 /\ live'[b] = live[b]
    BY <1>1, <1>4 DEF Held, IInv, Types, Addrs, Alignment
  <2>2. b \in Held
    BY <2>1 DEF Held
  <2> QED BY <1>1, <1>2, <1>4, <2>1, <2>2, LastBlock, AddrFacts DEF IInv, Types
<1>5. live'[a] = n
  BY <1>1 DEF IInv, Types
<1>6. BumpOrder'
  <2>1. \A b \in Held' : b + live'[b] <= offset'
    BY <1>2, <1>4, <1>5
  <2>2. ASSUME NEW b \in Held', NEW c \in Held', b < c
        PROVE  b + live'[b] <= c
    <3>1. CASE b = a
      BY <1>2, <1>4, <2>2, <3>1
    <3>2. CASE b # a /\ c = a
      BY <1>4, <3>2
    <3>3. CASE b # a /\ c # a
      BY <1>4, <2>2, <3>3 DEF IInv, BumpOrder
    <3> QED BY <3>1, <3>2, <3>3
  <2>3. offset' \in 0..size
    BY <1>2, WordAssumption
  <2> QED BY <2>1, <2>2, <2>3 DEF BumpOrder
<1>7. /\ \A x \in unpoisoned : x \in Int /\ 0 <= x /\ x < offset
      /\ \A x \in a..(offset - 1) : x \in unpoisoned
  <2>1. \A x \in unpoisoned : x \in 0..(offset - 1)
    BY DEF IInv, ShadowSound
  <2>2. Bytes(a, live[a]) \subseteq unpoisoned
    BY <1>1 DEF IInv, ShadowSound
  <2>3. Bytes(a, live[a]) = a..(offset - 1)
    BY <1>2 DEF Bytes
  <2>4. offset \in Int
    BY <1>2
  <2> QED BY <2>1, <2>2, <2>3, <2>4
<1>8. /\ \A x \in unpoisoned' : x \in Int /\ 0 <= x /\ x < offset'
      /\ \A x \in a..(offset' - 1) : x \in unpoisoned'
      /\ \A x \in unpoisoned : x < a => x \in unpoisoned'
  <2>1. CASE n > live[a]
    <3>1. unpoisoned' = unpoisoned \cup (offset..(a + n - 1))
      <4>1. (a + live[a]) + (n - live[a]) - 1 = a + n - 1
        BY <1>2
      <4> QED BY <1>1, <1>2, <2>1, <4>1 DEF resize_shadow, Bytes
    <3> QED BY <1>2, <1>7, <2>1, <3>1
  <2>2. CASE ~(n > live[a])
    <3>1. unpoisoned' = unpoisoned \ ((a + n)..(offset - 1))
      <4>1. (a + n) + (live[a] - n) - 1 = offset - 1
        BY <1>2
      <4> QED BY <1>1, <1>2, <2>2, <4>1 DEF resize_shadow, Bytes, poison
    <3> QED BY <1>2, <1>7, <2>2, <3>1
  <2> QED BY <2>1, <2>2
<1>9. ShadowSound'
  <2>1. ASSUME NEW b \in Held' PROVE Bytes(b, live'[b]) \subseteq unpoisoned'
    <3>1. CASE b = a
      BY <1>2, <1>5, <1>8, <3>1 DEF Bytes
    <3>2. CASE b # a
      <4>1. Bytes(b, live[b]) \subseteq unpoisoned
        BY <1>4, <3>2 DEF IInv, ShadowSound
      <4>2. \A x \in Bytes(b, live[b]) : x < a
        BY <1>2, <1>4, <3>2 DEF Bytes
      <4> QED BY <1>4, <1>8, <3>2, <4>1, <4>2
    <3> QED BY <3>1, <3>2
  <2>2. unpoisoned' \subseteq 0..(offset' - 1)
    BY <1>2, <1>8
  <2> QED BY <2>1, <2>2 DEF ShadowSound, Bytes
<1> QED BY <1>3, <1>6, <1>9 DEF IInv

LEMMA ShrinkStep ==
  ASSUME IInv, NEW a \in Addrs, NEW n \in Sizes, ReallocShrink(a, n)
  PROVE  IInv'
<1>1. /\ a \in Held /\ n # 0 /\ n <= live[a]
      /\ live' = [live EXCEPT ![a] = n]
      /\ UNCHANGED <<offset, unpoisoned, destroyed>>
  BY DEF ReallocShrink, Held
<1>2. n \in Nat /\ live[a] \in Nat /\ a \in Nat
  BY WordAssumption, AddrFacts DEF IInv, Types
<1>3. Types'
  BY <1>1, <1>2 DEF IInv, Types, Addrs, Alignment
<1>4. ASSUME NEW b \in Held'
      PROVE  /\ b \in Held /\ live'[b] <= live[b]
             /\ b \in Nat /\ live[b] \in Nat /\ live'[b] \in Nat
  <2>1. b \in Addrs /\ live'[b] # 0
    BY DEF Held, Addrs, Alignment
  <2> QED BY <1>1, <1>2, <2>1, AddrFacts DEF Held, IInv, Types
<1>5. BumpOrder'
  <2>1. ASSUME NEW b \in Held' PROVE b + live'[b] <= offset'
    <3>1. b + live[b] <= offset /\ offset \in Int
      BY <1>4 DEF IInv, BumpOrder
    <3> QED BY <1>1, <1>4, <3>1
  <2>2. ASSUME NEW b \in Held', NEW c \in Held', b < c PROVE b + live'[b] <= c
    <3>1. b + live[b] <= c
      BY <1>4, <2>2 DEF IInv, BumpOrder
    <3> QED BY <1>4, <3>1
  <2> QED BY <1>1, <2>1, <2>2 DEF IInv, BumpOrder
<1>6. ShadowSound'
  <2>1. ASSUME NEW b \in Held' PROVE Bytes(b, live'[b]) \subseteq unpoisoned
    <3>1. Bytes(b, live'[b]) \subseteq Bytes(b, live[b])
      BY <1>4 DEF Bytes
    <3> QED BY <1>4, <3>1 DEF IInv, ShadowSound
  <2> QED BY <1>1, <2>1 DEF IInv, ShadowSound, Bytes
<1> QED BY <1>3, <1>5, <1>6 DEF IInv

LEMMA DestroyStep ==
  ASSUME IInv, Destroy
  PROVE  IInv'
<1>1. /\ live' = [a \in Addrs |-> 0] /\ unpoisoned' = {} /\ destroyed' = TRUE
      /\ offset' = offset
  BY DEF Destroy
<1>2. Held' = {}
  BY <1>1 DEF Held, Addrs, Alignment
<1> QED BY <1>1, <1>2 DEF IInv, Types, BumpOrder, ShadowSound, Addrs, Alignment

LEMMA NextInv == NoWrap /\ IInv /\ [Next]_vars => IInv'
<1> SUFFICES ASSUME NoWrap, IInv, [Next]_vars PROVE IInv'
  OBVIOUS
<1>1. ASSUME UNCHANGED vars PROVE IInv'
  BY <1>1 DEF vars, IInv, Types, BumpOrder, ShadowSound, Held, Bytes, Addrs,
              Alignment
<1>2. ASSUME NEW n \in Sizes, Alloc(n) PROVE IInv'
  <2>1. live' = [a \in Addrs |-> IF a = align_up(offset) THEN n
                                 ELSE IF a \in {} THEN 0 ELSE live[a]]
    BY <1>2 DEF Alloc, IInv, Types
  <2>2. /\ n # 0 /\ buf_alloc(n) /\ UNCHANGED destroyed
        /\ unpoisoned' = unpoisoned \cup Bytes(align_up(offset), n)
        /\ {} \in SUBSET Addrs
    BY <1>2 DEF Alloc
  <2> QED BY <2>1, <2>2, AllocStep
<1>3. ASSUME NEW n \in Sizes, AllocNull(n) PROVE IInv'
  BY <1>1, <1>3 DEF AllocNull
<1>4. ASSUME NEW a \in Addrs, NEW n \in Sizes, ReallocMove(a, n) PROVE IInv'
  <2>1. live' = [b \in Addrs |-> IF b = align_up(offset) THEN n
                                 ELSE IF b \in {a} THEN 0 ELSE live[b]]
    BY <1>4 DEF ReallocMove, IInv, Types
  <2>2. /\ n # 0 /\ buf_alloc(n) /\ UNCHANGED destroyed
        /\ unpoisoned' = unpoisoned \cup Bytes(align_up(offset), n)
        /\ {a} \in SUBSET Addrs
    BY <1>4 DEF ReallocMove
  <2> QED BY <2>1, <2>2, AllocStep
<1> QED BY <1>1, <1>2, <1>3, <1>4, FreeStep, InPlaceStep, ShrinkStep,
           DestroyStep DEF Next

LEMMA Invariance == NoWrap => (Spec => []IInv)
<1> SUFFICES ASSUME NoWrap PROVE Spec => []IInv
  OBVIOUS
<1>1. IInv /\ [Next]_vars => IInv'
  BY NextInv
<1> QED BY InitInv, <1>1, PTL DEF Spec

-----------------------------------------------------------------------------
(* Results *)

(***************************************************************************)
(* When no sum wraps: live blocks are apart, none reaches past the offset, *)
(* and the offset stays in the buffer, through every in-place realloc.     *)
(***************************************************************************)
THEOREM BlocksInOrder == NoWrap => (Spec => []BumpOrder)
<1> SUFFICES ASSUME NoWrap PROVE Spec => []BumpOrder
  OBVIOUS
<1>1. IInv => BumpOrder
  BY DEF IInv
<1> QED BY <1>1, Invariance, PTL

(***************************************************************************)
(* ... the shadow lets clients use their blocks, and nothing past the      *)
(* offset.                                                                 *)
(***************************************************************************)
THEOREM BufferShadow == NoWrap => (Spec => []ShadowSound)
<1> SUFFICES ASSUME NoWrap PROVE Spec => []ShadowSound
  OBVIOUS
<1>1. IInv => ShadowSound
  BY DEF IInv
<1> QED BY <1>1, Invariance, PTL

(***************************************************************************)
(* ... and every live block lies in the buffer.  Without NoWrap this fails *)
(* (the run BufferWrap): the wrapping sum of buf_realloc_fn is the only    *)
(* way out of the buffer.                                                  *)
(***************************************************************************)
THEOREM OnlyWrapEscapes == NoWrap => (Spec => []InsideBuffer)
<1> SUFFICES ASSUME NoWrap PROVE Spec => []InsideBuffer
  OBVIOUS
<1>1. ASSUME IInv PROVE InsideBuffer
  <2> SUFFICES ASSUME NEW a \in Held PROVE a + live[a] <= size
    BY DEF InsideBuffer
  <2>1. a \in Nat /\ live[a] \in Nat
    BY <1>1, AddrFacts DEF Held, IInv, Types
  <2>2. a + live[a] <= offset /\ offset \in 0..size
    BY <1>1 DEF IInv, BumpOrder
  <2> QED BY <2>1, <2>2, WordAssumption
<1> QED BY <1>1, Invariance, PTL

\* The addresses and sizes of held blocks, for the heap.
LEMMA HeldFacts ==
  ASSUME IInv, NEW b \in Addrs, live[b] # 0
  PROVE  /\ b \in Held /\ b \in Nat /\ live[b] \in Nat \ {0}
         /\ b + live[b] <= offset /\ offset \in 0..size
  BY AddrFacts DEF Held, IInv, Types, BumpOrder

\* A block placed at the offset is clear of all others.
LEMMA PlaceVacant ==
  ASSUME IInv, NEW n \in Sizes, n # 0, buf_alloc(n), NEW X
  PROVE  /\ Contract!Vacant(align_up(offset), n, X)
         /\ \A b \in Addrs : live[b] # 0 =>
              b # align_up(offset) /\ Contract!Apart(b, live[b], align_up(offset), n)
<1> DEFINE p == align_up(offset)
<1>1. /\ p \in Addrs /\ p \in Nat /\ offset \in Nat /\ offset <= p
      /\ n \in Nat \ {0} /\ p + n <= size
  BY PlaceFacts
<1>2. p % Alignment = 0
  BY <1>1, AddrFacts
<1> HIDE DEF p
<1>3. ASSUME NEW b \in Addrs, live[b] # 0
      PROVE  b # p /\ b + live[b] <= p
  BY <1>1, <1>3, HeldFacts
<1>4. Contract!Vacant(p, n, X)
  BY <1>1, <1>2, <1>3 DEF Contract!Vacant, Contract!Apart
<1>5. \A b \in Addrs : live[b] # 0 => b # p /\ Contract!Apart(b, live[b], p, n)
  BY <1>3 DEF Contract!Apart
<1> QED BY <1>4, <1>5 DEF p

\* A block that shrinks, or the last one within the buffer, stays clear.
LEMMA ResizeVacant ==
  ASSUME IInv, NEW a \in Held, NEW n \in Nat, a + n <= size,
         n <= live[a] \/ a + live[a] = offset
  PROVE  Contract!Vacant(a, n, {a})
<1>1. a \in Addrs /\ a \in Nat /\ a % Alignment = 0 /\ live[a] \in Nat
  BY AddrFacts DEF Held, IInv, Types
<1>2. ASSUME NEW b \in Addrs \ {a}, live[b] # 0
      PROVE  a + n <= b \/ b + live[b] <= a
  <2>1. b \in Held /\ b \in Nat /\ live[b] \in Nat
    BY <1>2, HeldFacts
  <2>2. CASE a + live[a] = offset
    BY <2>1, <2>2, LastBlock
  <2>3. CASE n <= live[a]
    <3>1. (a < b => a + live[a] <= b) /\ (b < a => b + live[b] <= a)
      BY <2>1 DEF IInv, BumpOrder
    <3> QED BY <1>1, <2>1, <2>3, <3>1
  <2> QED BY <2>2, <2>3
<1> QED BY <1>1, <1>2 DEF Contract!Vacant, Contract!Apart

\* Every step is one of the heap's, or one it does not see.
LEMMA NextHeap ==
  ASSUME NoWrap, IInv, [Next]_vars
  PROVE  Contract!Next \/ live' = live
<1>1. ASSUME NEW n \in Sizes, Alloc(n) PROVE Contract!allo_alloc
  <2>1. n # 0 /\ buf_alloc(n) /\ live' = [live EXCEPT ![align_up(offset)] = n]
    BY <1>1 DEF Alloc
  <2>2. Contract!Vacant(align_up(offset), n, {})
    BY <2>1, PlaceVacant
  <2>3. align_up(offset) \in Addrs
    BY <2>1, PlaceFacts
  <2> QED BY <2>1, <2>2, <2>3 DEF Contract!allo_alloc
<1>2. ASSUME NEW a \in Addrs, Free(a) PROVE Contract!allo_free
  BY <1>2 DEF Free, Contract!allo_free
<1>3. ASSUME NEW a \in Addrs, NEW n \in Sizes,
             ReallocInPlace(a, n) \/ ReallocShrink(a, n)
      PROVE  Contract!allo_realloc
  <2>1. /\ live[a] # 0 /\ n # 0 /\ a \in Held
        /\ live' = [live EXCEPT ![a] = n]
    BY <1>3 DEF ReallocInPlace, ReallocShrink, Held
  <2>2. live' = [live EXCEPT ![a] = 0, ![a] = n]
    BY <2>1
  <2>3. a + n <= size /\ (n <= live[a] \/ a + live[a] = offset) /\ n \in Nat
    <3>1. CASE ReallocInPlace(a, n)
      BY <2>1, <3>1, InPlaceFacts DEF ReallocInPlace, InPlace, fits_in_current
    <3>2. CASE ReallocShrink(a, n)
      <4>1. n <= live[a] /\ n \in Nat
        BY <3>2, WordAssumption DEF ReallocShrink
      <4> QED BY <2>1, <4>1, HeldFacts, WordAssumption
    <3> QED BY <1>3, <3>1, <3>2
  <2>4. Contract!Vacant(a, n, {a})
    BY <2>1, <2>3, ResizeVacant
  <2>5. a \in Addrs /\ n \in Sizes \ {0}
    BY <2>1
  <2> QED BY <2>1, <2>2, <2>4, <2>5 DEF Contract!allo_realloc
<1>4. ASSUME NEW a \in Addrs, NEW n \in Sizes, ReallocMove(a, n)
      PROVE  Contract!allo_realloc
  <2> DEFINE p == align_up(offset)
  <2>1. /\ live[a] # 0 /\ n # 0 /\ buf_alloc(n)
        /\ live' = [live EXCEPT ![a] = 0, ![p] = n]
    BY <1>4 DEF ReallocMove
  <2>2. Contract!Vacant(p, n, {a}) /\ Contract!Apart(a, live[a], p, n)
    BY <2>1, PlaceVacant
  <2>3. p \in Addrs
    BY <2>1, PlaceFacts
  <2> HIDE DEF p
  <2> QED BY <2>1, <2>2, <2>3 DEF Contract!allo_realloc
<1>5. ASSUME Destroy PROVE Contract!allo_destroy
  BY <1>5 DEF Destroy, Contract!allo_destroy
<1>6. ASSUME NEW n \in Sizes, AllocNull(n) PROVE live' = live
  BY <1>6 DEF AllocNull, vars
<1>7. ASSUME UNCHANGED vars PROVE live' = live
  BY <1>7 DEF vars
<1> QED BY <1>1, <1>2, <1>3, <1>4, <1>5, <1>6, <1>7 DEF Next, Contract!Next

(***************************************************************************)
(* Every buffer allocator keeps the contract of allo.h, when no sum wraps. *)
(***************************************************************************)
THEOREM BufferIsHeap == NoWrap => (Spec => ImplementsHeap)
<1> SUFFICES ASSUME NoWrap PROVE Spec => ImplementsHeap
  OBVIOUS
<1>1. Init => Contract!Init
  BY DEF Init, Contract!Init
<1>2. IInv /\ [Next]_vars => [Contract!Next]_live
  BY NextHeap
<1> QED BY <1>1, <1>2, Invariance, PTL DEF Spec, ImplementsHeap, Contract!Spec
=============================================================================
