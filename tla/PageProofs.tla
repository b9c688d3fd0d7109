----------------------------- MODULE PageProofs -----------------------------
(***************************************************************************)
(* The page allocator for every page size, every capacity of a registry    *)
(* page, every number of pages and every set of requests: the registry and *)
(* the kernel agree, whichever calls of mmap and mremap fail or move.      *)
(***************************************************************************)
EXTENDS Page, SequenceTheorems, FiniteSetTheorems, TLAPS

Entries == [addr : PageAddr, size : 1..Pages]

\* The mappings of map share no page and end inside the address space.
Laid(map) ==
  /\ \A a \in PageAddr : a + map[a] <= Pages
  /\ \A a, b \in PageAddr :
       a # b /\ map[a] # 0 /\ map[b] # 0 =>
         a + map[a] <= b \/ b + map[b] <= a

\* The entries of list are the blocks of held, each once.
Registered(list, held) ==
  /\ \A i \in DOMAIN list :
       held[list[i].addr] # 0 /\ list[i].size = rounded(held[list[i].addr])
  /\ \A i, j \in DOMAIN list : list[i].addr = list[j].addr => i = j
  /\ \A a \in PageAddr : held[a] # 0 => \E i \in DOMAIN list : list[i].addr = a

\* The registry fills whole pages that no block uses; without it there is
\* neither a block nor an entry.
Homed ==
  IF reg = NULL
    THEN capacity = 0 /\ registry = <<>> /\ \A a \in PageAddr : live[a] = 0
    ELSE live[reg] = 0 /\ \E k \in Nat \ {0} : capacity = k * entries_per_page

\* The bytes of the pages that the block of held at a fills.
Filled(held, a) == Bytes(in_bytes(a), in_bytes(rounded(held[a])))

\* In the pages of a block the shadow lets through its bytes and no other.
Exact(shadow, held) ==
  \A a \in PageAddr : held[a] # 0 =>
    \A x \in Filled(held, a) : x \in shadow <=> x < in_bytes(a) + held[a]

\* Poisoned bytes outside the blocks of held.
Outside(shadow, held) ==
  {x \in Memory \ shadow :
     \A a \in PageAddr : held[a] # 0 => x \notin Filled(held, a)}

\* Inductive: what munmap and mremap are given comes from the registry or
\* from the client, and is the length of the mapping only because of Homed and
\* Registered; a new mapping is clear of the old ones only because of Laid.
IInv ==
  /\ TypeOK
  /\ Homed
  /\ Laid(os)
  /\ MappingsExact
  /\ Registered(registry, live)
  /\ Exact(unpoisoned, live)

-----------------------------------------------------------------------------
(* Arithmetic *)

LEMMA RoundedFacts ==
  ASSUME NEW n \in Nat
  PROVE  /\ rounded(n) \in Nat
         /\ n <= rounded(n) * page_size
         /\ n = 0 => rounded(n) = 0
         /\ n # 0 => rounded(n) >= 1
<1> DEFINE p == page_size
           x == n + p - 1
           q == x \div p
<1>1. p \in Nat \ {0} /\ x \in Nat /\ x = n + p - 1
  BY PageAssumption
<1> HIDE DEF p, x
<1>2. q \in Int /\ x = p * q + (x % p) /\ x % p \in 0..(p - 1)
  BY <1>1
<1> HIDE DEF q
<1>3. q >= 0
  <2>1. ASSUME q <= -1 PROVE FALSE
    <3>1. PICK d \in Nat : q = -1 - d
      <4>1. -1 - q \in Nat /\ q = -1 - (-1 - q)
        BY <1>2, <2>1
      <4> QED BY <4>1
    <3>2. p * q = -p - p * d /\ p * d \in Nat
      BY <1>1, <3>1
    <3> QED BY <1>1, <1>2, <3>2
  <2> QED BY <1>2, <2>1
<1>4. n = 0 => q = 0
  <2>1. ASSUME n = 0, q >= 1 PROVE FALSE
    <3>1. PICK d \in Nat : q = 1 + d
      <4>1. q - 1 \in Nat /\ q = 1 + (q - 1)
        BY <1>2, <2>1
      <4> QED BY <4>1
    <3>2. p * q = p + p * d /\ p * d \in Nat
      BY <1>1, <3>1
    <3> QED BY <1>1, <1>2, <2>1, <3>2
  <2> QED BY <1>2, <1>3, <2>1
<1>5. n # 0 => q >= 1
  <2>1. ASSUME n # 0, q = 0 PROVE FALSE
    <3>1. p * q = 0
      BY <1>1, <2>1
    <3> QED BY <1>1, <1>2, <2>1, <3>1
  <2> QED BY <1>2, <1>3, <2>1
<1>6. p * q = q * p /\ n <= p * q
  BY <1>1, <1>2
<1> QED BY <1>2, <1>3, <1>4, <1>5, <1>6 DEF rounded, q, x, p

\* Dividing a multiple.
LEMMA Divides ==
  ASSUME NEW k \in Nat, NEW d \in Nat \ {0}
  PROVE  /\ (k * d) \div d = k
         /\ (k * d) % d = 0
<1> DEFINE x == k * d
           q == x \div d
<1>1. x \in Nat /\ x = k * d
  OBVIOUS
<1> HIDE DEF x
<1>2. q \in Int /\ x = d * q + (x % d) /\ x % d \in 0..(d - 1)
  BY <1>1
<1> HIDE DEF q
<1>3. ~(q > k)
  <2>1. ASSUME q > k PROVE FALSE
    <3>1. PICK e \in Nat : q = k + 1 + e
      <4>1. q - k - 1 \in Nat /\ q = k + 1 + (q - k - 1)
        BY <1>2, <2>1
      <4> QED BY <4>1
    <3>2. d * q = k * d + d + d * e /\ d * e \in Nat
      BY <3>1
    <3> QED BY <1>1, <1>2, <3>2
  <2> QED BY <2>1
<1>4. ~(q < k)
  <2>1. ASSUME q < k PROVE FALSE
    <3>1. PICK e \in Nat : k = q + 1 + e
      <4>1. k - q - 1 \in Nat /\ k = q + 1 + (k - q - 1)
        BY <1>2, <2>1
      <4> QED BY <4>1
    <3>2. k * d = d * q + d + d * e /\ d * e \in Nat
      BY <1>2, <3>1
    <3> QED BY <1>1, <1>2, <3>2
  <2> QED BY <2>1
<1>5. q = k /\ d * k = k * d
  BY <1>2, <1>3, <1>4
<1> QED BY <1>1, <1>2, <1>5 DEF q, x

\* Pages of a registry of whole pages, before and after it has grown.
LEMMA RegPages ==
  ASSUME NEW k \in Nat \ {0}, capacity = k * entries_per_page
  PROVE  /\ capacity \in Nat /\ grown \in Nat /\ grown > capacity
         /\ reg_pages(capacity) = k
         /\ grown = (k + 1) * entries_per_page
         /\ reg_pages(grown) = k + 1
<1>1. entries_per_page \in Nat \ {0}
  BY PageAssumption
<1>2. grown = (k + 1) * entries_per_page /\ capacity \in Nat
  BY <1>1 DEF grown
<1>3. grown \in Nat /\ grown > capacity
  BY <1>1, <1>2 DEF grown
<1>4. (k * entries_per_page) \div entries_per_page = k
  BY <1>1, Divides
<1>5. ((k + 1) * entries_per_page) \div entries_per_page = k + 1
  <2>1. k + 1 \in Nat
    OBVIOUS
  <2> QED BY <1>1, <2>1, Divides
<1> QED BY <1>2, <1>3, <1>4, <1>5 DEF reg_pages

\* n bytes in k pages, counted in bytes.
LEMMA Scale ==
  ASSUME NEW a \in Nat, NEW b \in Nat, NEW k \in Nat, NEW n \in Nat,
         n <= k * page_size, a + k <= b
  PROVE  a * page_size + n <= b * page_size
<1>1. PICK d \in Nat : b = a + k + d
  <2>1. b - a - k \in Nat /\ b = a + k + (b - a - k)
    OBVIOUS
  <2> QED BY <2>1
<1>2. page_size \in Nat
  BY PageAssumption
<1>3. b * page_size = a * page_size + k * page_size + d * page_size
  BY <1>1, <1>2
<1>4. d * page_size \in Nat /\ a * page_size \in Nat /\ k * page_size \in Nat
  BY <1>2
<1> QED BY <1>3, <1>4

\* Whole pages, counted in bytes.
LEMMA InBytes ==
  ASSUME NEW a \in Nat, NEW k \in Nat, NEW b \in Nat, a + k <= b
  PROVE  /\ in_bytes(a) \in Nat /\ in_bytes(k) \in Nat /\ in_bytes(b) \in Nat
         /\ in_bytes(a) + in_bytes(k) <= in_bytes(b)
<1>1. page_size \in Nat
  BY PageAssumption
<1>2. a * page_size \in Nat /\ k * page_size \in Nat /\ b * page_size \in Nat
  BY <1>1
<1>3. a * page_size + k * page_size <= b * page_size
  BY <1>2, Scale
<1> QED BY <1>2, <1>3 DEF in_bytes

\* A block fits into its pages.
LEMMA Fits ==
  ASSUME NEW n \in Nat
  PROVE  rounded(n) \in Nat /\ in_bytes(rounded(n)) \in Nat
         /\ n <= in_bytes(rounded(n))
<1>1. rounded(n) \in Nat /\ n <= rounded(n) * page_size
  BY RoundedFacts
<1>2. rounded(n) + 0 <= rounded(n) /\ 0 \in Nat
  BY <1>1
<1> QED BY <1>1, <1>2, InBytes DEF in_bytes

-----------------------------------------------------------------------------
(* The shadow *)

\* Pages that are apart share no byte.
LEMMA BytesApart ==
  ASSUME NEW a \in Nat, NEW k \in Nat, NEW b \in Nat, NEW m \in Nat,
         a + k <= b \/ b + m <= a,
         NEW x \in Bytes(in_bytes(a), in_bytes(k))
  PROVE  x \notin Bytes(in_bytes(b), in_bytes(m))
<1>1. /\ in_bytes(a) \in Nat /\ in_bytes(k) \in Nat
      /\ in_bytes(b) \in Nat /\ in_bytes(m) \in Nat
  <2>1. a + 0 <= a /\ b + 0 <= b /\ k + 0 <= k /\ m + 0 <= m /\ 0 \in Nat
    OBVIOUS
  <2> QED BY <2>1, InBytes
<1>2. CASE a + k <= b
  BY <1>1, <1>2, InBytes DEF Bytes
<1>3. CASE b + m <= a
  BY <1>1, <1>3, InBytes DEF Bytes
<1> QED BY <1>2, <1>3

\* Pages inside the address space are memory.
LEMMA BytesInside ==
  ASSUME NEW a \in Nat, NEW k \in Nat, a + k <= Pages
  PROVE  Bytes(in_bytes(a), in_bytes(k)) \subseteq Memory
<1>1. Pages \in Nat
  BY PageAssumption
<1>2. /\ in_bytes(a) \in Nat /\ in_bytes(k) \in Nat /\ in_bytes(Pages) \in Nat
      /\ in_bytes(a) + in_bytes(k) <= in_bytes(Pages)
  BY <1>1, InBytes
<1> QED BY <1>2 DEF Memory, Bytes

\* A block given n bytes at a, clear of the others: the shadow is exact there
\* whatever it was, and the same elsewhere.
LEMMA Opened ==
  ASSUME NEW shadow \in SUBSET Memory, NEW held \in [PageAddr -> Nat],
         Exact(shadow, held),
         NEW a \in PageAddr, NEW n \in Nat \ {0}, held[a] = 0,
         a + rounded(n) <= Pages,
         \A c \in PageAddr : held[c] # 0 =>
           a + rounded(n) <= c \/ c + rounded(held[c]) <= a
  PROVE  /\ opened(shadow, a, n) \subseteq Memory
         /\ Exact(opened(shadow, a, n), [held EXCEPT ![a] = n])
         /\ Outside(opened(shadow, a, n), [held EXCEPT ![a] = n])
              \subseteq Outside(shadow, held)
<1> DEFINE s == opened(shadow, a, n)
           h == [held EXCEPT ![a] = n]
           X == in_bytes(a)
           L == in_bytes(rounded(n))
<1>1. a \in Nat /\ Pages \in Nat /\ rounded(n) \in Nat
  BY Fits, PageAssumption DEF PageAddr
<1>2. X \in Nat /\ L \in Nat /\ n <= L
  BY <1>1, Fits, InBytes
<1>3. Bytes(X, L) \subseteq Memory
  BY <1>1, BytesInside
<1>4. h[a] = n /\ \A c \in PageAddr \ {a} : h[c] = held[c]
  OBVIOUS
<1>5. Filled(h, a) = Bytes(X, L)
  BY <1>4 DEF Filled
<1>6. \A c \in PageAddr \ {a} : Filled(h, c) = Filled(held, c)
  BY <1>4 DEF Filled
<1> HIDE DEF X, L
<1>7. s = (shadow \ Bytes(X, L)) \cup Bytes(X, n)
  BY DEF opened, poison, unpoison, X, L
<1>8. Bytes(X, n) \subseteq Bytes(X, L)
  BY <1>2 DEF Bytes
<1>9. \A x \in Bytes(X, L) : x \in s <=> x < X + n
  BY <1>2, <1>7 DEF Bytes
<1>10. \A x : x \notin Bytes(X, L) => (x \in s <=> x \in shadow)
  BY <1>7, <1>8
<1>11. s \subseteq Memory
  BY <1>3, <1>7, <1>8
<1> HIDE DEF s, h
<1>12. ASSUME NEW c \in PageAddr, held[c] # 0, NEW x \in Filled(held, c)
       PROVE  x \notin Bytes(X, L)
  <2>1. c \in Nat /\ rounded(held[c]) \in Nat
    BY Fits, PageAssumption DEF PageAddr
  <2>2. c + rounded(held[c]) <= a \/ a + rounded(n) <= c
    BY <1>12
  <2> QED BY <1>1, <1>12, <2>1, <2>2, BytesApart DEF Filled, X, L
<1>13. Exact(s, h)
  <2> SUFFICES ASSUME NEW c \in PageAddr, h[c] # 0, NEW x \in Filled(h, c)
               PROVE  x \in s <=> x < in_bytes(c) + h[c]
    BY DEF Exact
  <2>1. CASE c = a
    BY <1>4, <1>5, <1>9, <2>1 DEF X
  <2>2. CASE c # a
    <3>1. held[c] # 0 /\ h[c] = held[c] /\ x \in Filled(held, c)
      BY <1>4, <1>6, <2>2
    <3>2. x \in shadow <=> x < in_bytes(c) + held[c]
      BY <3>1 DEF Exact
    <3> QED BY <1>10, <1>12, <3>1, <3>2
  <2> QED BY <2>1, <2>2
<1>14. Outside(s, h) \subseteq Outside(shadow, held)
  <2> SUFFICES ASSUME NEW x \in Outside(s, h) PROVE x \in Outside(shadow, held)
    OBVIOUS
  <2>1. x \in Memory /\ x \notin s /\ x \notin Filled(h, a)
    BY <1>4 DEF Outside
  <2>2. x \notin shadow
    BY <1>5, <1>10, <2>1
  <2>3. \A c \in PageAddr : held[c] # 0 => x \notin Filled(held, c)
    BY <1>4, <1>6 DEF Outside
  <2> QED BY <2>1, <2>2, <2>3 DEF Outside
<1> QED BY <1>11, <1>13, <1>14 DEF s, h

\* A block given up, clear of the others: its pages are left accessible.
LEMMA Released ==
  ASSUME NEW shadow \in SUBSET Memory, NEW held \in [PageAddr -> Nat],
         Exact(shadow, held),
         NEW a \in PageAddr, a + rounded(held[a]) <= Pages,
         \A c \in PageAddr : held[c] # 0 /\ c # a =>
           a + rounded(held[a]) <= c \/ c + rounded(held[c]) <= a
  PROVE  LET s == unpoison(shadow, in_bytes(a), in_bytes(rounded(held[a])))
             h == [held EXCEPT ![a] = 0]
         IN /\ s \subseteq Memory
            /\ Exact(s, h)
            /\ Outside(s, h) \subseteq Outside(shadow, held)
<1> DEFINE s == unpoison(shadow, in_bytes(a), in_bytes(rounded(held[a])))
           h == [held EXCEPT ![a] = 0]
<1>1. a \in Nat /\ rounded(held[a]) \in Nat
  BY Fits, PageAssumption DEF PageAddr
<1>2. s = shadow \cup Filled(held, a)
  BY DEF unpoison, Filled
<1>3. s \subseteq Memory
  BY <1>1, <1>2, BytesInside DEF Filled
<1>4. h[a] = 0 /\ \A c \in PageAddr \ {a} : h[c] = held[c]
  OBVIOUS
<1>5. \A c \in PageAddr \ {a} : Filled(h, c) = Filled(held, c)
  BY <1>4 DEF Filled
<1> HIDE DEF s, h
<1>6. Exact(s, h)
  <2> SUFFICES ASSUME NEW c \in PageAddr, h[c] # 0, NEW x \in Filled(h, c)
               PROVE  x \in s <=> x < in_bytes(c) + h[c]
    BY DEF Exact
  <2>1. c # a /\ held[c] # 0 /\ h[c] = held[c] /\ x \in Filled(held, c)
    BY <1>4, <1>5
  <2>2. c \in Nat /\ rounded(held[c]) \in Nat
    BY Fits, PageAssumption DEF PageAddr
  <2>3. c + rounded(held[c]) <= a \/ a + rounded(held[a]) <= c
    BY <2>1
  <2>4. x \notin Filled(held, a)
    BY <1>1, <2>1, <2>2, <2>3, BytesApart DEF Filled
  <2>5. x \in shadow <=> x < in_bytes(c) + held[c]
    BY <2>1 DEF Exact
  <2> QED BY <1>2, <2>1, <2>4, <2>5
<1>7. Outside(s, h) \subseteq Outside(shadow, held)
  <2> SUFFICES ASSUME NEW x \in Outside(s, h) PROVE x \in Outside(shadow, held)
    OBVIOUS
  <2>1. x \in Memory /\ x \notin shadow /\ x \notin Filled(held, a)
    BY <1>2 DEF Outside
  <2>2. \A c \in PageAddr : held[c] # 0 => x \notin Filled(held, c)
    BY <1>4, <1>5, <2>1 DEF Outside
  <2> QED BY <2>1, <2>2 DEF Outside
<1> QED BY <1>3, <1>6, <1>7 DEF s, h

-----------------------------------------------------------------------------
(* The kernel's map *)

\* mmap gives pages that were free, and leaves the others as they were.
LEMMA MmapLaid ==
  ASSUME NEW map \in [PageAddr -> 0..Pages], Laid(map),
         NEW a \in PageAddr, NEW k \in Nat \ {0}, mappable(map, a, k)
  PROVE  /\ map[a] = 0
         /\ [map EXCEPT ![a] = k] \in [PageAddr -> 0..Pages]
         /\ Laid([map EXCEPT ![a] = k])
<1> DEFINE new == [map EXCEPT ![a] = k]
<1>1. /\ \A b \in PageAddr : map[b] = 0 \/ a + k <= b \/ b + map[b] <= a
      /\ a + k <= Pages
      /\ \A b \in PageAddr : b \in Nat /\ map[b] \in Nat
  BY PageAssumption DEF mappable, PageAddr
<1>2. map[a] = 0
  BY <1>1
<1>3. k \in 0..Pages
  BY <1>1, PageAssumption
<1>4. new[a] = k /\ \A b \in PageAddr \ {a} : new[b] = map[b]
  OBVIOUS
<1>5. new \in [PageAddr -> 0..Pages]
  BY <1>3
<1> HIDE DEF new
<1>6. \A b \in PageAddr : b + new[b] <= Pages
  BY <1>1, <1>4 DEF Laid
<1>7. ASSUME NEW b \in PageAddr, NEW c \in PageAddr,
             b # c, new[b] # 0, new[c] # 0
      PROVE  b + new[b] <= c \/ c + new[c] <= b
  <2>1. CASE b = a
    BY <1>1, <1>4, <1>7, <2>1
  <2>2. CASE c = a
    BY <1>1, <1>4, <1>7, <2>2
  <2>3. CASE b # a /\ c # a
    BY <1>4, <1>7, <2>3 DEF Laid
  <2> QED BY <2>1, <2>2, <2>3
<1>8. Laid(new)
  BY <1>6, <1>7 DEF Laid
<1> QED BY <1>2, <1>5, <1>8 DEF new

\* Without a mapping the others are still apart.
LEMMA MunmapLaid ==
  ASSUME NEW map \in [PageAddr -> 0..Pages], Laid(map), NEW a \in PageAddr
  PROVE  /\ [map EXCEPT ![a] = 0] \in [PageAddr -> 0..Pages]
         /\ Laid([map EXCEPT ![a] = 0])
<1> DEFINE new == [map EXCEPT ![a] = 0]
<1>1. new[a] = 0 /\ \A b \in PageAddr \ {a} : new[b] = map[b]
  OBVIOUS
<1>2. new \in [PageAddr -> 0..Pages]
  BY PageAssumption
<1>3. a + 0 <= Pages
  BY PageAssumption DEF PageAddr
<1> HIDE DEF new
<1>4. Laid(new)
  BY <1>1, <1>3 DEF Laid
<1> QED BY <1>2, <1>4 DEF new

\* mremap moves to pages that were free, or stays.
LEMMA MremapLaid ==
  ASSUME os \in [PageAddr -> 0..Pages], Laid(os),
         NEW a \in PageAddr, NEW b \in PageAddr, NEW k \in Nat \ {0},
         remappable(a, b, k)
  PROVE  /\ b = a \/ os[b] = 0
         /\ os_mremap(os, a, b, k) \in [PageAddr -> 0..Pages]
         /\ Laid(os_mremap(os, a, b, k))
         /\ os_mremap(os, a, b, k)
              = [c \in PageAddr |-> IF c = b THEN k ELSE IF c = a THEN 0 ELSE os[c]]
<1> DEFINE gone == [os EXCEPT ![a] = 0]
<1>1. gone \in [PageAddr -> 0..Pages] /\ Laid(gone)
  BY MunmapLaid
<1>2. mappable(gone, b, k)
  <2>1. CASE b = a
    BY <2>1 DEF remappable
  <2>2. CASE b # a
    BY <2>2 DEF remappable, mappable
  <2> QED BY <2>1, <2>2
<1>3. gone[b] = 0 /\ \A c \in PageAddr \ {a} : gone[c] = os[c]
  BY <1>1, <1>2, MmapLaid
<1>4. os_mremap(os, a, b, k) = [gone EXCEPT ![b] = k]
  BY DEF os_mremap
<1>5. os_mremap(os, a, b, k)
        = [c \in PageAddr |-> IF c = b THEN k ELSE IF c = a THEN 0 ELSE os[c]]
  BY DEF os_mremap
<1>6. /\ [gone EXCEPT ![b] = k] \in [PageAddr -> 0..Pages]
      /\ Laid([gone EXCEPT ![b] = k])
  BY <1>1, <1>2, MmapLaid
<1> HIDE DEF gone
<1>7. b = a \/ os[b] = 0
  BY <1>3
<1> QED BY <1>4, <1>5, <1>6, <1>7

-----------------------------------------------------------------------------
(* The registry *)

LEMMA RegisterAppend ==
  ASSUME registry \in Seq(Entries), NEW held \in [PageAddr -> Nat],
         Registered(registry, held),
         NEW a \in PageAddr, held[a] = 0, NEW n \in Nat \ {0}, rounded(n) \in 1..Pages
  PROVE  LET new == Append(registry, [addr |-> a, size |-> rounded(n)])
         IN  /\ new \in Seq(Entries)
             /\ Len(new) = Len(registry) + 1
             /\ Registered(new, [held EXCEPT ![a] = n])
<1> DEFINE e == [addr |-> a, size |-> rounded(n)]
           new == Append(registry, e)
           h == [held EXCEPT ![a] = n]
           L == Len(registry)
<1>1. e \in Entries /\ e.addr = a /\ e.size = rounded(n)
  BY DEF Entries
<1>2. L \in Nat /\ DOMAIN registry = 1..L /\ \A i \in 1..L : registry[i] \in Entries
  BY LenProperties
<1>3. /\ new \in Seq(Entries) /\ Len(new) = L + 1
      /\ \A i \in 1..L : new[i] = registry[i]
      /\ new[L + 1] = e
  BY <1>1, AppendProperties
<1>4. DOMAIN new = 1..(L + 1)
  BY <1>3, LenProperties
<1>5. h[a] = n /\ \A b \in PageAddr \ {a} : h[b] = held[b]
  OBVIOUS
<1> HIDE DEF new, h, L, e
<1>6. ASSUME NEW i \in DOMAIN new, i # L + 1
      PROVE  /\ i \in DOMAIN registry /\ new[i] = registry[i]
             /\ registry[i].addr \in PageAddr /\ registry[i].addr # a
  <2>1. i \in 1..L
    BY <1>2, <1>4, <1>6
  <2>2. registry[i] \in Entries
    BY <1>2, <2>1
  <2> QED BY <1>2, <1>3, <2>1, <2>2 DEF Registered, Entries
<1>7. \A i \in DOMAIN new :
        h[new[i].addr] # 0 /\ new[i].size = rounded(h[new[i].addr])
  BY <1>1, <1>3, <1>5, <1>6 DEF Registered
<1>8. \A i, j \in DOMAIN new : new[i].addr = new[j].addr => i = j
  BY <1>1, <1>3, <1>6 DEF Registered
<1>9. ASSUME NEW b \in PageAddr, h[b] # 0
      PROVE  \E i \in DOMAIN new : new[i].addr = b
  <2>1. CASE b = a
    BY <1>1, <1>2, <1>3, <1>4, <2>1
  <2>2. CASE b # a
    <3>1. PICK i \in DOMAIN registry : registry[i].addr = b
      BY <1>5, <1>9, <2>2 DEF Registered
    <3>2. i \in DOMAIN new /\ new[i] = registry[i]
      BY <1>2, <1>3, <1>4
    <3> QED BY <3>1, <3>2
  <2> QED BY <2>1, <2>2
<1>10. Registered(new, h)
  BY <1>7, <1>8, <1>9 DEF Registered
<1> QED BY <1>3, <1>10 DEF new, h, L, e

LEMMA RegisterRemove ==
  ASSUME registry \in Seq(Entries), NEW held \in [PageAddr -> Nat],
         Registered(registry, held), NEW a \in PageAddr, held[a] # 0
  PROVE  /\ registry_remove(a) \in Seq(Entries)
         /\ Len(registry_remove(a)) <= Len(registry)
         /\ Registered(registry_remove(a), [held EXCEPT ![a] = 0])
<1> DEFINE L == Len(registry)
           k == CHOOSE j \in DOMAIN registry : registry[j].addr = a
           moved == [registry EXCEPT ![k] = registry[L]]
           new == SubSeq(moved, 1, L - 1)
           h == [held EXCEPT ![a] = 0]
<1>1. L \in Nat /\ DOMAIN registry = 1..L /\ \A i \in 1..L : registry[i] \in Entries
  BY LenProperties
<1>2. \E i \in DOMAIN registry : registry[i].addr = a
  BY DEF Registered
<1>3. k \in 1..L /\ registry[k].addr = a
  BY <1>1, <1>2
<1>4. registry_remove(a) = new
  BY <1>2 DEF registry_remove
<1> HIDE DEF k
<1>5. L \in 1..L
  BY <1>1, <1>3
<1>6. \A j \in 1..L : moved[j] = IF j = k THEN registry[L] ELSE registry[j]
  BY <1>1, <1>3
<1>7. \A j \in 1..(L - 1) : moved[j] \in Entries
  BY <1>1, <1>5, <1>6
<1> HIDE DEF moved
<1>8. /\ new \in Seq(Entries)
      /\ Len(new) = IF 1 <= L - 1 THEN L - 1 - 1 + 1 ELSE 0
      /\ \A i \in 1..(L - 1 - 1 + 1) : new[i] = moved[1 + i - 1]
  <2>1. 1 \in Int /\ L - 1 \in Int
    BY <1>1
  <2> QED BY <1>7, <2>1, SubSeqProperties
<1>9. Len(new) = L - 1 /\ \A i \in 1..(L - 1) : new[i] = moved[i]
  BY <1>1, <1>5, <1>8
<1>10. DOMAIN new = 1..(L - 1)
  BY <1>8, <1>9, LenProperties
<1>11. h[a] = 0 /\ \A b \in PageAddr \ {a} : h[b] = held[b]
  OBVIOUS
<1> HIDE DEF new, h, L
<1>12. ASSUME NEW i \in DOMAIN new
       PROVE  \E j \in DOMAIN registry :
                /\ j # k /\ new[i] = registry[j]
                /\ registry[j].addr \in PageAddr /\ registry[j].addr # a
                /\ j = IF i = k THEN L ELSE i
  <2> DEFINE j == IF i = k THEN L ELSE i
  <2>1. i \in 1..(L - 1) /\ i \in 1..L /\ j \in 1..L /\ j # k
    BY <1>1, <1>3, <1>5, <1>10
  <2>2. new[i] = registry[j]
    BY <1>6, <1>9, <2>1
  <2> HIDE DEF j
  <2>3. registry[j].addr \in PageAddr
    BY <1>1, <2>1 DEF Entries
  <2>4. registry[j].addr # a
    BY <1>1, <1>3, <2>1 DEF Registered
  <2> QED BY <1>1, <2>1, <2>2, <2>3, <2>4 DEF j
<1>13. \A i \in DOMAIN new :
         h[new[i].addr] # 0 /\ new[i].size = rounded(h[new[i].addr])
  BY <1>11, <1>12 DEF Registered
<1>14. ASSUME NEW i \in DOMAIN new, NEW j \in DOMAIN new, new[i].addr = new[j].addr
       PROVE  i = j
  <2>1. PICK x \in DOMAIN registry : new[i] = registry[x] /\ x = IF i = k THEN L ELSE i
    BY <1>12
  <2>2. PICK y \in DOMAIN registry : new[j] = registry[y] /\ y = IF j = k THEN L ELSE j
    BY <1>12
  <2>3. x = y
    BY <1>14, <2>1, <2>2 DEF Registered
  <2> QED BY <1>1, <1>10, <2>1, <2>2, <2>3
<1>15. ASSUME NEW b \in PageAddr, h[b] # 0
       PROVE  \E i \in DOMAIN new : new[i].addr = b
  <2>1. PICK j \in 1..L : registry[j].addr = b
    BY <1>1, <1>11, <1>15 DEF Registered
  <2>2. j # k
    BY <1>3, <1>11, <1>15, <2>1
  <2>3. CASE j = L
    <3>1. k \in 1..(L - 1)
      BY <1>1, <1>3, <2>2, <2>3
    <3> QED BY <1>3, <1>6, <1>9, <1>10, <2>1, <2>3, <3>1
  <2>4. CASE j # L
    <3>1. j \in 1..(L - 1)
      BY <1>1, <2>4
    <3> QED BY <1>6, <1>9, <1>10, <2>1, <2>2, <3>1
  <2> QED BY <2>3, <2>4
<1>16. Registered(new, h)
  BY <1>13, <1>14, <1>15 DEF Registered
<1>17. L - 1 <= L
  BY <1>1
<1> QED BY <1>4, <1>8, <1>9, <1>16, <1>17 DEF new, h, L

\* The block of a is now the one of n bytes at b.
LEMMA RegisterUpdate ==
  ASSUME registry \in Seq(Entries), NEW held \in [PageAddr -> Nat],
         Registered(registry, held), NEW a \in PageAddr, held[a] # 0,
         NEW b \in PageAddr, b = a \/ held[b] = 0,
         NEW n \in Nat \ {0}, rounded(n) \in 1..Pages
  PROVE  /\ registry_update(a, b, rounded(n)) \in Seq(Entries)
         /\ Len(registry_update(a, b, rounded(n))) = Len(registry)
         /\ Registered(registry_update(a, b, rounded(n)),
                       [held EXCEPT ![a] = 0, ![b] = n])
<1> DEFINE L == Len(registry)
           e == [addr |-> b, size |-> rounded(n)]
           new == registry_update(a, b, rounded(n))
           h == [held EXCEPT ![a] = 0, ![b] = n]
<1>1. L \in Nat /\ DOMAIN registry = 1..L /\ \A i \in 1..L : registry[i] \in Entries
  BY LenProperties
<1>2. e \in Entries /\ e.addr = b /\ e.size = rounded(n)
  BY DEF Entries
<1>3. new = [i \in 1..L |-> IF registry[i].addr = a THEN e ELSE registry[i]]
  BY <1>1 DEF registry_update
<1>4. h[b] = n /\ \A c \in PageAddr \ {a, b} : h[c] = held[c]
  OBVIOUS
<1>5. a # b => h[a] = 0
  OBVIOUS
<1> HIDE DEF e, new, h
<1>6. new \in [1..L -> Entries]
  BY <1>1, <1>2, <1>3
<1>7. new \in Seq(Entries) /\ Len(new) = L /\ DOMAIN new = 1..L
  BY <1>1, <1>6
<1> HIDE DEF L
<1>8. ASSUME NEW i \in 1..L
      PROVE  IF registry[i].addr = a
               THEN new[i] = e
               ELSE /\ new[i] = registry[i]
                    /\ registry[i].addr \in PageAddr
                    /\ registry[i].addr # b
  <2>1. registry[i].addr \in PageAddr /\ held[registry[i].addr] # 0
    BY <1>1 DEF Registered, Entries
  <2> QED BY <1>3, <2>1
<1>9. \A i \in DOMAIN new :
        h[new[i].addr] # 0 /\ new[i].size = rounded(h[new[i].addr])
  BY <1>1, <1>2, <1>4, <1>7, <1>8 DEF Registered
<1>10. \A i, j \in DOMAIN new : new[i].addr = new[j].addr => i = j
  BY <1>1, <1>2, <1>7, <1>8 DEF Registered
<1>11. ASSUME NEW c \in PageAddr, h[c] # 0
       PROVE  \E i \in DOMAIN new : new[i].addr = c
  <2>1. CASE c = b
    <3>1. PICK i \in 1..L : registry[i].addr = a
      BY <1>1 DEF Registered
    <3> QED BY <1>2, <1>7, <1>8, <2>1, <3>1
  <2>2. CASE c # b
    <3>1. c # a /\ held[c] # 0
      BY <1>4, <1>5, <1>11, <2>2
    <3>2. PICK i \in 1..L : registry[i].addr = c
      BY <1>1, <3>1 DEF Registered
    <3> QED BY <1>7, <1>8, <3>1, <3>2
  <2> QED BY <2>1, <2>2
<1>12. Registered(new, h)
  BY <1>9, <1>10, <1>11 DEF Registered
<1> QED BY <1>7, <1>12 DEF new, h, L

-----------------------------------------------------------------------------
(* Steps *)

LEMMA TypeFacts ==
  ASSUME IInv
  PROVE  /\ os \in [PageAddr -> 0..Pages]
         /\ live \in [PageAddr -> Nat]
         /\ registry \in Seq(Entries)
         /\ Len(registry) \in Nat
         /\ capacity \in Nat
<1>1. Sizes \cup {0} \subseteq Nat
  BY PageAssumption
<1>2. live \in [PageAddr -> Sizes \cup {0}]
  BY DEF IInv, TypeOK
<1>3. live \in [PageAddr -> Nat]
  BY <1>1, <1>2
<1>4. registry \in Seq(Entries)
  BY DEF IInv, TypeOK, Entries
<1>5. Len(registry) \in Nat
  BY <1>4, LenProperties
<1> QED BY <1>3, <1>4, <1>5 DEF IInv, TypeOK

\* What the invariant says of one address, of a size and of the registry.
LEMMA AddrFacts ==
  ASSUME IInv, NEW a \in PageAddr
  PROVE  /\ a \in Nat /\ live[a] \in Nat /\ os[a] \in 0..Pages
         /\ live[a] # 0 => a # reg /\ os[a] = rounded(live[a]) /\ os[a] \in 1..Pages
         /\ a # reg /\ live[a] = 0 => os[a] = 0
         /\ os[a] = 0 => live[a] = 0 /\ a # reg
<1>1. a \in Nat /\ live[a] \in Nat /\ os[a] \in 0..Pages
  BY TypeFacts, PageAssumption DEF PageAddr
<1>2. a # reg => os[a] = rounded(live[a])
  BY DEF IInv, MappingsExact
<1>3. a = reg => live[a] = 0 /\ os[a] # 0
  <2> SUFFICES ASSUME a = reg PROVE live[a] = 0 /\ os[a] # 0
    OBVIOUS
  <2>1. reg # NULL
    BY DEF NULL, PageAddr
  <2>2. live[reg] = 0
    BY <2>1 DEF IInv, Homed
  <2>3. PICK k \in Nat \ {0} : capacity = k * entries_per_page
    BY <2>1 DEF IInv, Homed
  <2>4. reg_pages(capacity) = k
    BY <2>3, RegPages
  <2> QED BY <2>2, <2>4 DEF IInv, MappingsExact
<1>4. (live[a] = 0 => rounded(live[a]) = 0) /\ (live[a] # 0 => rounded(live[a]) >= 1)
  BY <1>1, RoundedFacts
<1> QED BY <1>1, <1>2, <1>3, <1>4

\* registry_ensure_capacity leaves room for an entry and the registry in pages
\* of its own, wherever mremap put it.
LEMMA EnsuredStep ==
  ASSUME IInv, reg # NULL, NEW b \in PageAddr, ensured(b)
  PROVE  /\ os_ensured(b) \in [PageAddr -> 0..Pages]
         /\ Laid(os_ensured(b))
         /\ reg' = b /\ live[b] = 0
         /\ capacity' \in Nat /\ Len(registry) + 1 <= capacity'
         /\ \E k \in Nat \ {0} : capacity' = k * entries_per_page
         /\ reg_pages(capacity') \in Nat \ {0}
         /\ \A c \in PageAddr :
              os_ensured(b)[c] = IF c = b THEN reg_pages(capacity')
                                 ELSE rounded(live[c])
<1>1. PICK k \in Nat \ {0} : capacity = k * entries_per_page
  BY DEF IInv, Homed
<1>2. /\ reg_pages(capacity) = k /\ reg_pages(grown) = k + 1 /\ grown > capacity
      /\ grown = (k + 1) * entries_per_page /\ grown \in Nat
  BY <1>1, RegPages
<1>3. reg \in PageAddr /\ live[reg] = 0 /\ Len(registry) \in Nat
      /\ Len(registry) <= capacity
  BY LenProperties DEF IInv, Homed, TypeOK
<1>4. reg' = b
  BY DEF ensured
<1>5. CASE ~full
  <2>1. b = reg /\ capacity' = capacity /\ os_ensured(b) = os
    BY <1>5 DEF ensured, os_ensured
  <2>2. Len(registry) + 1 <= capacity
    BY <1>3, <1>5, TypeFacts DEF full
  <2>3. os \in [PageAddr -> 0..Pages] /\ Laid(os)
    BY TypeFacts DEF IInv
  <2>4. \A c \in PageAddr :
          os[c] = IF c = reg THEN reg_pages(capacity) ELSE rounded(live[c])
    BY DEF IInv, MappingsExact
  <2> QED BY <1>1, <1>2, <1>3, <1>4, <2>1, <2>2, <2>3, <2>4, TypeFacts
<1>6. CASE full
  <2>1. /\ remappable(reg, b, k + 1) /\ capacity' = grown
        /\ os_ensured(b) = os_mremap(os, reg, b, k + 1)
    BY <1>2, <1>6 DEF ensured, os_ensured
  <2>2. k + 1 \in Nat \ {0}
    OBVIOUS
  <2>3. os \in [PageAddr -> 0..Pages] /\ Laid(os)
    BY TypeFacts DEF IInv
  <2>4. /\ b = reg \/ os[b] = 0
        /\ os_ensured(b) \in [PageAddr -> 0..Pages]
        /\ Laid(os_ensured(b))
        /\ os_ensured(b) = [c \in PageAddr |->
             IF c = b THEN k + 1 ELSE IF c = reg THEN 0 ELSE os[c]]
    BY <1>3, <2>1, <2>2, <2>3, MremapLaid
  <2>5. live[b] = 0
    BY <1>3, <2>4, AddrFacts
  <2>6. \A c \in PageAddr :
          os_ensured(b)[c] = IF c = b THEN k + 1 ELSE rounded(live[c])
    <3>1. rounded(0) = 0
      BY RoundedFacts
    <3> QED BY <1>3, <2>4, <3>1 DEF IInv, MappingsExact
  <2>7. Len(registry) + 1 <= grown
    BY <1>2, <1>3, TypeFacts
  <2> QED BY <1>2, <1>4, <2>1, <2>2, <2>4, <2>5, <2>6, <2>7
<1> QED BY <1>5, <1>6

\* The invariant from its parts, once the registry has a place.
LEMMA Assemble ==
  ASSUME os' \in [PageAddr -> 0..Pages], Laid(os)',
         reg' \in PageAddr, capacity' \in Nat,
         \E k \in Nat \ {0} : capacity' = k * entries_per_page,
         live' \in [PageAddr -> Sizes \cup {0}], live'[reg'] = 0,
         unpoisoned' \subseteq Memory, Exact(unpoisoned', live'),
         registry' \in Seq(Entries), Len(registry') <= capacity',
         Registered(registry, live)',
         \A c \in PageAddr : os'[c] = IF c = reg' THEN reg_pages(capacity')
                                      ELSE rounded(live'[c])
  PROVE  IInv'
<1>1. TypeOK'
  BY DEF TypeOK, Entries, PageAddr, Memory, Bytes, in_bytes
<1>2. Homed'
  BY DEF Homed, NULL, PageAddr
<1>3. MappingsExact'
  BY DEF MappingsExact, PageAddr, reg_pages, rounded
<1>4. Exact(unpoisoned, live)'
  BY DEF Exact, Filled, Bytes, PageAddr, in_bytes, rounded
<1> QED BY <1>1, <1>2, <1>3, <1>4 DEF IInv

LEMMA InitInv == Init => IInv
<1> SUFFICES ASSUME Init PROVE IInv
  OBVIOUS
<1>1. rounded(0) = 0
  BY RoundedFacts
<1>2. registry \in Seq(Entries) /\ Len(registry) = 0 /\ DOMAIN registry = {}
  BY EmptySeq DEF Init
<1>3. TypeOK
  BY <1>2, PageAssumption DEF Init, TypeOK, Entries
<1>4. \A a \in PageAddr : os[a] = 0 /\ live[a] = 0 /\ a \in Nat /\ a <= Pages
  BY PageAssumption DEF Init, PageAddr
<1>5. Laid(os) /\ Registered(registry, live)
  BY <1>2, <1>4 DEF Laid, Registered
<1>6. MappingsExact
  BY <1>1, <1>4 DEF MappingsExact, Init, NULL, PageAddr
<1>7. Homed /\ Exact(unpoisoned, live)
  BY <1>4 DEF Homed, Init, Exact
<1> QED BY <1>3, <1>5, <1>6, <1>7 DEF IInv

LEMMA MakeStep ==
  ASSUME IInv, NEW a \in PageAddr, Make(a)
  PROVE  IInv'
<1>1. /\ reg = NULL /\ mappable(os, a, 1) /\ os' = [os EXCEPT ![a] = 1]
      /\ reg' = a /\ capacity' = entries_per_page /\ registry' = <<>>
      /\ UNCHANGED <<unpoisoned, live>>
  BY DEF Make, os_mmap
<1>2. registry = <<>> /\ \A b \in PageAddr : live[b] = 0
  BY <1>1 DEF IInv, Homed
<1>3. os \in [PageAddr -> 0..Pages] /\ Laid(os)
  BY TypeFacts DEF IInv
<1>4. os' \in [PageAddr -> 0..Pages] /\ Laid(os')
  <2>1. 1 \in Nat \ {0}
    OBVIOUS
  <2> QED BY <1>1, <1>3, <2>1, MmapLaid
<1>5. 1 * entries_per_page = entries_per_page /\ entries_per_page \in Nat
      /\ entries_per_page >= 1
  BY PageAssumption
<1>6. reg_pages(entries_per_page) = 1
  <2>1. (1 * entries_per_page) \div entries_per_page = 1
    BY PageAssumption, Divides
  <2> QED BY <1>5, <2>1 DEF reg_pages
<1>7. \A c \in PageAddr : os'[c] = IF c = reg' THEN reg_pages(capacity')
                                   ELSE rounded(live'[c])
  BY <1>1, <1>3, <1>6 DEF IInv, MappingsExact, NULL, PageAddr
<1>8. registry' \in Seq(Entries) /\ Len(registry') = 0
  BY <1>1, EmptySeq
<1>9. /\ live' \in [PageAddr -> Sizes \cup {0}] /\ live'[reg'] = 0
      /\ unpoisoned' \subseteq Memory /\ Exact(unpoisoned', live')
      /\ reg' \in PageAddr
  BY <1>1, <1>2 DEF IInv, TypeOK
<1>10. Registered(registry, live)'
  BY <1>1, <1>2 DEF IInv, Registered, rounded, PageAddr
<1>11. Laid(os)'
  BY <1>4 DEF Laid, PageAddr
<1>12. capacity' \in Nat /\ Len(registry') <= capacity'
       /\ \E k \in Nat \ {0} : capacity' = k * entries_per_page
  BY <1>1, <1>5, <1>8
<1> QED BY <1>4, <1>7, <1>8, <1>9, <1>10, <1>11, <1>12, Assemble

LEMMA DestroyStep ==
  ASSUME IInv, Destroy
  PROVE  IInv'
<1>1. /\ reg # NULL /\ reg' = NULL /\ capacity' = 0 /\ registry' = <<>>
      /\ unpoisoned' = unpoisoned /\ live' = [a \in PageAddr |-> 0]
  BY DEF Destroy
<1>2. ASSUME NEW a \in PageAddr PROVE os'[a] = 0
  <2>1. os'[a] = IF a = reg THEN os[a] - reg_pages(capacity)
                 ELSE IF \E e \in reclaimed : e.addr = a
                   THEN os[a] - (CHOOSE e \in reclaimed : e.addr = a).size
                 ELSE os[a]
    BY DEF Destroy
  <2>2. os[a] \in Nat
    BY AddrFacts
  <2>3. CASE a = reg
    BY <2>1, <2>2, <2>3 DEF IInv, MappingsExact
  <2>4. CASE a # reg /\ \E e \in reclaimed : e.addr = a
    <3> DEFINE e == CHOOSE x \in reclaimed : x.addr = a
    <3>1. e \in reclaimed /\ e.addr = a
      BY <2>4
    <3> HIDE DEF e
    <3>2. PICK i \in DOMAIN registry : e = registry[i]
      BY <3>1 DEF reclaimed
    <3>3. e.size = rounded(live[a])
      BY <3>1, <3>2 DEF IInv, Registered
    <3>4. os[a] = rounded(live[a])
      BY <2>4 DEF IInv, MappingsExact
    <3>5. os'[a] = os[a] - e.size
      BY <2>1, <2>4 DEF e
    <3> QED BY <2>2, <3>3, <3>4, <3>5
  <2>5. CASE a # reg /\ ~\E e \in reclaimed : e.addr = a
    <3>1. ~\E i \in DOMAIN registry : registry[i].addr = a
      BY <2>5 DEF reclaimed
    <3>2. live[a] = 0
      BY <3>1 DEF IInv, Registered
    <3> QED BY <2>1, <2>5, <3>2, AddrFacts
  <2> QED BY <2>3, <2>4, <2>5
<1>3. os' = [a \in PageAddr |-> 0]
  <2>1. DOMAIN os' = PageAddr /\ os' = [a \in PageAddr |-> os'[a]]
    BY DEF Destroy
  <2> QED BY <1>2, <2>1
<1>4. registry' \in Seq(Entries) /\ Len(registry') = 0 /\ DOMAIN registry' = {}
  BY <1>1, EmptySeq
<1>5. TypeOK'
  <2>1. unpoisoned \subseteq Memory
    BY DEF IInv, TypeOK
  <2> QED BY <1>1, <1>3, <1>4, <2>1, PageAssumption
          DEF TypeOK, Entries, PageAddr, NULL, Memory, Bytes, in_bytes
<1>6. \A a \in PageAddr : os'[a] = 0 /\ live'[a] = 0 /\ a \in Nat /\ a <= Pages
  BY <1>1, <1>3, PageAssumption DEF PageAddr
<1>7. Laid(os)' /\ Registered(registry, live)'
  BY <1>4, <1>6 DEF Laid, Registered, PageAddr, rounded
<1>8. rounded(0) = 0
  BY RoundedFacts
<1>9. MappingsExact'
  BY <1>1, <1>6, <1>8 DEF MappingsExact, NULL, PageAddr, rounded
<1>10. Homed' /\ Exact(unpoisoned, live)'
  BY <1>1, <1>6 DEF Homed, Exact, NULL, PageAddr
<1> QED BY <1>5, <1>7, <1>9, <1>10 DEF IInv

LEMMA NoMapStep ==
  ASSUME IInv, NEW n \in Sizes, AllocNoMap(n)
  PROVE  IInv'
<1>1. PICK b \in PageAddr : ensured(b) /\ os' = os_ensured(b)
  BY DEF AllocNoMap
<1>2. reg # NULL /\ registry' = registry /\ unpoisoned' = unpoisoned /\ live' = live
  BY DEF AllocNoMap
<1>3. /\ os' \in [PageAddr -> 0..Pages] /\ Laid(os')
      /\ reg' = b /\ live[b] = 0
      /\ capacity' \in Nat /\ Len(registry) + 1 <= capacity'
      /\ \E k \in Nat \ {0} : capacity' = k * entries_per_page
      /\ \A c \in PageAddr : os'[c] = IF c = b THEN reg_pages(capacity')
                                      ELSE rounded(live[c])
  BY <1>1, <1>2, EnsuredStep
<1>4. Laid(os)'
  BY <1>3 DEF Laid, PageAddr
<1>5. Registered(registry, live)'
  BY <1>2 DEF IInv, Registered, rounded, PageAddr
<1>6. registry' \in Seq(Entries) /\ Len(registry') <= capacity'
  BY <1>2, <1>3, TypeFacts
<1>7. /\ live' \in [PageAddr -> Sizes \cup {0}]
      /\ unpoisoned' \subseteq Memory /\ Exact(unpoisoned', live')
  BY <1>2 DEF IInv, TypeOK
<1> QED BY <1>2, <1>3, <1>4, <1>5, <1>6, <1>7, Assemble

\* mmap answers pages that hold neither a block nor the registry.
LEMMA AllocFacts ==
  ASSUME IInv, NEW n \in Sizes, Alloc(n)
  PROVE  \E b, a \in PageAddr :
           /\ reg # NULL /\ ensured(b) /\ a # b /\ live[a] = 0
           /\ n \in Nat \ {0} /\ rounded(n) \in 1..Pages
           /\ a + rounded(n) <= Pages
           /\ \A c \in PageAddr : live[c] # 0 =>
                a + rounded(n) <= c \/ c + rounded(live[c]) <= a
           /\ os' = [os_ensured(b) EXCEPT ![a] = rounded(n)]
           /\ os' \in [PageAddr -> 0..Pages] /\ Laid(os')
           /\ registry' = Append(registry, [addr |-> a, size |-> rounded(n)])
           /\ unpoisoned' = opened(unpoisoned, a, n)
           /\ live' = [live EXCEPT ![a] = n]
<1>1. PICK b, a \in PageAddr :
        /\ ensured(b)
        /\ mappable(os_ensured(b), a, rounded(n))
        /\ os' = [os_ensured(b) EXCEPT ![a] = rounded(n)]
        /\ registry' = Append(registry, [addr |-> a, size |-> rounded(n)])
        /\ unpoisoned' = opened(unpoisoned, a, n)
        /\ live' = [live EXCEPT ![a] = n]
  BY DEF Alloc, os_mmap
<1>2. reg # NULL /\ n \in Nat \ {0}
  BY PageAssumption DEF Alloc
<1>3. rounded(n) \in Nat \ {0}
  BY <1>2, RoundedFacts
<1>4. /\ os_ensured(b) \in [PageAddr -> 0..Pages] /\ Laid(os_ensured(b))
      /\ reg_pages(capacity') \in Nat \ {0}
      /\ \A c \in PageAddr :
           os_ensured(b)[c] = IF c = b THEN reg_pages(capacity')
                              ELSE rounded(live[c])
  BY <1>1, <1>2, EnsuredStep
<1>5. /\ os_ensured(b)[a] = 0
      /\ os' \in [PageAddr -> 0..Pages] /\ Laid(os')
  BY <1>1, <1>3, <1>4, MmapLaid
<1>6. a # b /\ rounded(live[a]) = 0
  BY <1>4, <1>5
<1>7. live[a] = 0
  <2>1. live[a] \in Nat
    BY TypeFacts
  <2> QED BY <1>6, <2>1, RoundedFacts
<1>8. rounded(n) \in 1..Pages
  BY <1>1, <1>3, PageAssumption DEF mappable, PageAddr
<1>9. live[b] = 0 /\ \A c \in PageAddr : live[c] # 0 => rounded(live[c]) # 0
  <2>1. \A c \in PageAddr : live[c] \in Nat
    BY TypeFacts
  <2>2. \A c \in PageAddr : live[c] # 0 => rounded(live[c]) # 0
    BY <2>1, RoundedFacts
  <2>3. live[b] = 0
    BY <1>1, <1>2, EnsuredStep
  <2> QED BY <2>2, <2>3
<1>10. \A c \in PageAddr : live[c] # 0 =>
         a + rounded(n) <= c \/ c + rounded(live[c]) <= a
  BY <1>1, <1>4, <1>9 DEF mappable
<1>11. a + rounded(n) <= Pages
  BY <1>1 DEF mappable
<1> QED BY <1>1, <1>2, <1>5, <1>6, <1>7, <1>8, <1>10, <1>11

LEMMA AllocShadow ==
  ASSUME IInv, NEW n \in Sizes, Alloc(n)
  PROVE  /\ unpoisoned' \subseteq Memory
         /\ Exact(unpoisoned', live')
         /\ Outside(unpoisoned', live') \subseteq Outside(unpoisoned, live)
<1>1. PICK b, a \in PageAddr :
        /\ n \in Nat \ {0} /\ live[a] = 0
        /\ a + rounded(n) <= Pages
        /\ \A c \in PageAddr : live[c] # 0 =>
             a + rounded(n) <= c \/ c + rounded(live[c]) <= a
        /\ unpoisoned' = opened(unpoisoned, a, n)
        /\ live' = [live EXCEPT ![a] = n]
  BY AllocFacts
<1>2. /\ unpoisoned \in SUBSET Memory /\ live \in [PageAddr -> Nat]
      /\ Exact(unpoisoned, live)
  BY TypeFacts DEF IInv, TypeOK
<1> QED BY <1>1, <1>2, Opened

LEMMA AllocStep ==
  ASSUME IInv, NEW n \in Sizes, Alloc(n)
  PROVE  IInv'
<1>1. PICK b, a \in PageAddr :
        /\ reg # NULL /\ ensured(b) /\ a # b /\ live[a] = 0
        /\ n \in Nat \ {0} /\ rounded(n) \in 1..Pages
        /\ os' = [os_ensured(b) EXCEPT ![a] = rounded(n)]
        /\ os' \in [PageAddr -> 0..Pages] /\ Laid(os')
        /\ registry' = Append(registry, [addr |-> a, size |-> rounded(n)])
        /\ live' = [live EXCEPT ![a] = n]
  BY AllocFacts
<1>2. /\ os_ensured(b) \in [PageAddr -> 0..Pages]
      /\ reg' = b /\ live[b] = 0
      /\ capacity' \in Nat /\ Len(registry) + 1 <= capacity'
      /\ \E k \in Nat \ {0} : capacity' = k * entries_per_page
      /\ \A c \in PageAddr :
           os_ensured(b)[c] = IF c = b THEN reg_pages(capacity')
                              ELSE rounded(live[c])
  BY <1>1, EnsuredStep
<1>3. live \in [PageAddr -> Sizes \cup {0}]
  BY DEF IInv, TypeOK
<1>4. /\ live' \in [PageAddr -> Sizes \cup {0}] /\ live'[reg'] = 0
      /\ unpoisoned' \subseteq Memory /\ Exact(unpoisoned', live')
  BY <1>1, <1>2, <1>3, AllocShadow
<1>5. \A c \in PageAddr : os'[c] = IF c = reg' THEN reg_pages(capacity')
                                   ELSE rounded(live'[c])
  BY <1>1, <1>2, <1>3
<1>6. /\ registry' \in Seq(Entries) /\ Len(registry') = Len(registry) + 1
      /\ Registered(registry', live')
  <2>1. Registered(registry, live)
    BY DEF IInv
  <2> QED BY <1>1, <2>1, TypeFacts, RegisterAppend
<1>7. Laid(os)' /\ Registered(registry, live)'
  BY <1>1, <1>6 DEF Laid, Registered, PageAddr, rounded
<1>8. reg' \in PageAddr /\ Len(registry') <= capacity'
  BY <1>2, <1>6
<1> QED BY <1>1, <1>2, <1>4, <1>5, <1>6, <1>7, <1>8, Assemble

\* Facts of a call that is given a block: the registry is there, apart from it.
LEMMA HeldFacts ==
  ASSUME IInv, reg # NULL, NEW a \in PageAddr, live[a] # 0
  PROVE  /\ reg \in PageAddr /\ a # reg /\ live[reg] = 0
         /\ capacity \in Nat /\ Len(registry) <= capacity
         /\ \E k \in Nat \ {0} : capacity = k * entries_per_page
         /\ os[a] = rounded(live[a]) /\ os[a] \in 1..Pages /\ live[a] \in Nat
         /\ Registered(registry, live) /\ Laid(os)
         /\ live \in [PageAddr -> Sizes \cup {0}]
  BY AddrFacts DEF IInv, Homed, TypeOK

\* The pages of a block are clear of the others'.
LEMMA HeldApart ==
  ASSUME IInv, NEW a \in PageAddr, live[a] # 0
  PROVE  /\ a + rounded(live[a]) <= Pages
         /\ \A c \in PageAddr : live[c] # 0 /\ c # a =>
              a + rounded(live[a]) <= c \/ c + rounded(live[c]) <= a
<1>1. \A c \in PageAddr : live[c] # 0 => os[c] = rounded(live[c]) /\ os[c] # 0
  BY AddrFacts
<1> QED BY <1>1 DEF IInv, Laid

LEMMA ReleasedFacts ==
  ASSUME IInv, NEW a \in PageAddr, live[a] # 0
  PROVE  /\ released(a) \subseteq Memory
         /\ Exact(released(a), [live EXCEPT ![a] = 0])
         /\ Outside(released(a), [live EXCEPT ![a] = 0])
              \subseteq Outside(unpoisoned, live)
<1>1. /\ unpoisoned \in SUBSET Memory /\ live \in [PageAddr -> Nat]
      /\ Exact(unpoisoned, live)
  BY TypeFacts DEF IInv, TypeOK
<1> QED BY <1>1, HeldApart, Released DEF released

\* The pages at a are released and n bytes opened at b, at a again or apart.
LEMMA MovedShadow ==
  ASSUME IInv, NEW a \in PageAddr, NEW b \in PageAddr, NEW n \in Nat \ {0},
         live[a] # 0, b = a \/ live[b] = 0, b + rounded(n) <= Pages,
         \A c \in PageAddr : live[c] # 0 /\ (c # a \/ a # b) =>
           b + rounded(n) <= c \/ c + rounded(live[c]) <= b
  PROVE  LET s == opened(released(a), b, n)
             h == [live EXCEPT ![a] = 0, ![b] = n]
         IN /\ s \subseteq Memory
            /\ Exact(s, h)
            /\ Outside(s, h) \subseteq Outside(unpoisoned, live)
<1> DEFINE gone == [live EXCEPT ![a] = 0]
<1>1. /\ released(a) \in SUBSET Memory /\ Exact(released(a), gone)
      /\ Outside(released(a), gone) \subseteq Outside(unpoisoned, live)
  BY ReleasedFacts
<1>2. live \in [PageAddr -> Nat]
  BY TypeFacts
<1>3. gone \in [PageAddr -> Nat] /\ gone[a] = 0
      /\ \A c \in PageAddr \ {a} : gone[c] = live[c]
  BY <1>2
<1>4. [live EXCEPT ![a] = 0, ![b] = n] = [gone EXCEPT ![b] = n]
  OBVIOUS
<1> HIDE DEF gone
<1>5. gone[b] = 0 /\ \A c \in PageAddr : gone[c] # 0 =>
        b + rounded(n) <= c \/ c + rounded(gone[c]) <= b
  BY <1>3
<1>6. /\ opened(released(a), b, n) \subseteq Memory
      /\ Exact(opened(released(a), b, n), [gone EXCEPT ![b] = n])
      /\ Outside(opened(released(a), b, n), [gone EXCEPT ![b] = n])
           \subseteq Outside(released(a), gone)
  BY <1>1, <1>3, <1>5, Opened
<1> QED BY <1>1, <1>4, <1>6

\* Bytes of a block's own pages, before and after page_realloc_fn.
LEMMA OwnPages ==
  ASSUME IInv, NEW a \in PageAddr, live[a] # 0
  PROVE  /\ in_bytes(a) \in Nat /\ in_bytes(rounded(live[a])) \in Nat
         /\ live[a] \in Nat /\ live[a] <= in_bytes(rounded(live[a]))
         /\ unpoisoned \subseteq Int
         /\ \A x \in Int :
              in_bytes(a) <= x /\ x < in_bytes(a) + in_bytes(rounded(live[a])) =>
                (x \in unpoisoned <=> x < in_bytes(a) + live[a])
<1>1. a \in Nat /\ live[a] \in Nat /\ a + 0 <= a /\ 0 \in Nat
  BY AddrFacts
<1>2. /\ in_bytes(a) \in Nat /\ in_bytes(rounded(live[a])) \in Nat
      /\ live[a] <= in_bytes(rounded(live[a]))
  BY <1>1, InBytes, Fits
<1>3. unpoisoned \subseteq Int
  <2>1. Memory \subseteq Int
    BY DEF Memory, Bytes
  <2> QED BY <2>1 DEF IInv, TypeOK
<1>4. \A x \in Filled(live, a) : x \in unpoisoned <=> x < in_bytes(a) + live[a]
  BY DEF IInv, Exact
<1> QED BY <1>1, <1>2, <1>3, <1>4 DEF Filled, Bytes

\* Where the pages stay, unpoisoning the part gained or poisoning the part
\* given up comes to the same.
LEMMA ResizedIsMoved ==
  ASSUME IInv, NEW a \in PageAddr, NEW n \in Nat \ {0}, live[a] # 0,
         rounded(n) = rounded(live[a])
  PROVE  resized(a, n) = opened(released(a), a, n)
<1> DEFINE X == in_bytes(a)
           L == in_bytes(rounded(live[a]))
           o == live[a]
<1>1. /\ X \in Nat /\ L \in Nat /\ o \in Nat /\ o <= L /\ unpoisoned \subseteq Int
      /\ \A x \in Int : X <= x /\ x < X + L => (x \in unpoisoned <=> x < X + o)
  BY OwnPages
<1>2. n <= L
  BY Fits
<1>3. /\ opened(released(a), a, n)
           = ((unpoisoned \cup Bytes(X, L)) \ Bytes(X, L)) \cup Bytes(X, n)
      /\ n > o => resized(a, n) = unpoisoned \cup Bytes(X + o, n - o)
      /\ ~(n > o) => resized(a, n) = unpoisoned \ Bytes(X + n, o - n)
  BY DEF opened, released, resized, poison, unpoison
<1> HIDE DEF X, L, o
<1>4. Bytes(X, L) \subseteq Int /\ Bytes(X, n) \subseteq Int
      /\ Bytes(X + o, n - o) \subseteq Int
  BY DEF Bytes
<1>5. ASSUME NEW x \in Int
      PROVE  x \in resized(a, n) <=> x \in opened(released(a), a, n)
  BY <1>1, <1>2, <1>3, <1>5 DEF Bytes
<1>6. resized(a, n) \subseteq Int /\ opened(released(a), a, n) \subseteq Int
  BY <1>1, <1>3, <1>4
<1> QED BY <1>5, <1>6

\* Poisoning the tail again undoes the unpoisoning before a failed mremap.
LEMMA RestoredIsBefore ==
  ASSUME IInv, NEW a \in PageAddr, live[a] # 0
  PROVE  restored(a) = unpoisoned
<1> DEFINE X == in_bytes(a)
           L == in_bytes(rounded(live[a]))
           o == live[a]
<1>1. /\ X \in Nat /\ L \in Nat /\ o \in Nat /\ o <= L /\ unpoisoned \subseteq Int
      /\ \A x \in Int : X <= x /\ x < X + L => (x \in unpoisoned <=> x < X + o)
  BY OwnPages
<1>2. restored(a) = (unpoisoned \cup Bytes(X, L)) \ Bytes(X + o, L - o)
  BY DEF restored, released, poison, unpoison
<1> HIDE DEF X, L, o
<1>3. ASSUME NEW x \in Int PROVE x \in restored(a) <=> x \in unpoisoned
  BY <1>1, <1>2, <1>3 DEF Bytes
<1>4. restored(a) \subseteq Int
  BY <1>1, <1>2 DEF Bytes
<1> QED BY <1>1, <1>3, <1>4

LEMMA FreeStep ==
  ASSUME IInv, NEW a \in PageAddr, Free(a)
  PROVE  IInv'
<1>1. /\ reg # NULL /\ live[a] # 0
      /\ registry' = registry_remove(a)
      /\ os' = os_munmap(os, a, rounded(live[a]))
      /\ unpoisoned' = released(a)
      /\ live' = [live EXCEPT ![a] = 0]
      /\ reg' = reg /\ capacity' = capacity
  BY DEF Free
<1>2. /\ reg \in PageAddr /\ a # reg /\ live[reg] = 0
      /\ capacity \in Nat /\ Len(registry) <= capacity
      /\ \E k \in Nat \ {0} : capacity = k * entries_per_page
      /\ os[a] = rounded(live[a]) /\ os[a] \in 1..Pages
      /\ Registered(registry, live) /\ Laid(os)
      /\ live \in [PageAddr -> Sizes \cup {0}]
  BY <1>1, HeldFacts
<1>3. os' = [os EXCEPT ![a] = 0]
  <2>1. os[a] - rounded(live[a]) = 0
    BY <1>2
  <2> QED BY <1>1, <2>1 DEF os_munmap
<1>4. os' \in [PageAddr -> 0..Pages] /\ Laid(os')
  BY <1>2, <1>3, TypeFacts, MunmapLaid
<1>5. /\ registry' \in Seq(Entries) /\ Len(registry') <= Len(registry)
      /\ Registered(registry', live')
  BY <1>1, <1>2, TypeFacts, RegisterRemove
<1>6. Laid(os)' /\ Registered(registry, live)'
  BY <1>4, <1>5 DEF Laid, Registered, PageAddr, rounded
<1>7. /\ live' \in [PageAddr -> Sizes \cup {0}] /\ live'[reg'] = 0
      /\ unpoisoned' \subseteq Memory /\ Exact(unpoisoned', live')
  BY <1>1, <1>2, ReleasedFacts
<1>8. \A c \in PageAddr : os'[c] = IF c = reg' THEN reg_pages(capacity')
                                   ELSE rounded(live'[c])
  <2>1. rounded(0) = 0
    BY RoundedFacts
  <2> QED BY <1>1, <1>2, <1>3, <2>1, TypeFacts DEF IInv, MappingsExact
<1>9. Len(registry') <= capacity'
  <2>1. Len(registry') \in Nat /\ Len(registry) \in Nat
    BY <1>5, TypeFacts, LenProperties
  <2> QED BY <1>1, <1>2, <1>5, <2>1
<1> QED BY <1>1, <1>2, <1>4, <1>5, <1>6, <1>7, <1>8, <1>9, Assemble

LEMMA SameShadow ==
  ASSUME IInv, NEW a \in PageAddr, NEW n \in Sizes, ReallocSame(a, n)
  PROVE  /\ unpoisoned' \subseteq Memory
         /\ Exact(unpoisoned', live')
         /\ Outside(unpoisoned', live') \subseteq Outside(unpoisoned, live)
<1>1. /\ live[a] # 0 /\ n \in Nat \ {0} /\ rounded(n) = rounded(live[a])
      /\ unpoisoned' = resized(a, n)
      /\ live' = [live EXCEPT ![a] = n]
  BY PageAssumption DEF ReallocSame
<1>2. unpoisoned' = opened(released(a), a, n)
  BY <1>1, ResizedIsMoved
<1>3. live' = [live EXCEPT ![a] = 0, ![a] = n]
  BY <1>1
<1>4. /\ a + rounded(n) <= Pages
      /\ \A c \in PageAddr : live[c] # 0 /\ (c # a \/ a # a) =>
           a + rounded(n) <= c \/ c + rounded(live[c]) <= a
  BY <1>1, HeldApart
<1> QED BY <1>1, <1>2, <1>3, <1>4, MovedShadow

LEMMA SameStep ==
  ASSUME IInv, NEW a \in PageAddr, NEW n \in Sizes, ReallocSame(a, n)
  PROVE  IInv'
<1>1. /\ reg # NULL /\ live[a] # 0 /\ n # 0
      /\ rounded(n) = rounded(live[a])
      /\ live' = [live EXCEPT ![a] = n]
      /\ os' = os /\ registry' = registry /\ reg' = reg /\ capacity' = capacity
  BY DEF ReallocSame
<1>2. /\ reg \in PageAddr /\ a # reg /\ live[reg] = 0
      /\ capacity \in Nat /\ Len(registry) <= capacity
      /\ \E k \in Nat \ {0} : capacity = k * entries_per_page
      /\ Registered(registry, live) /\ Laid(os)
      /\ live \in [PageAddr -> Sizes \cup {0}]
  BY <1>1, HeldFacts
<1>3. \A c \in PageAddr : /\ rounded(live'[c]) = rounded(live[c])
                          /\ live'[c] # 0 <=> live[c] # 0
  BY <1>1, <1>2
<1>4. ASSUME NEW i \in DOMAIN registry PROVE registry[i].addr \in PageAddr
  <2>1. registry \in Seq(Entries)
    BY TypeFacts
  <2>2. i \in 1..Len(registry)
    BY <2>1, LenProperties
  <2>3. registry[i] \in Entries
    BY <2>1, <2>2, ElementOfSeq
  <2> QED BY <2>3 DEF Entries
<1>5. Registered(registry, live)'
  BY <1>1, <1>2, <1>3, <1>4 DEF Registered, PageAddr, rounded
<1>6. Laid(os)'
  BY <1>1, <1>2 DEF Laid, PageAddr
<1>7. /\ live' \in [PageAddr -> Sizes \cup {0}] /\ live'[reg'] = 0
      /\ unpoisoned' \subseteq Memory /\ Exact(unpoisoned', live')
  BY <1>1, <1>2, SameShadow
<1>8. \A c \in PageAddr : os'[c] = IF c = reg' THEN reg_pages(capacity')
                                   ELSE rounded(live'[c])
  BY <1>1, <1>3 DEF IInv, MappingsExact
<1> QED BY <1>1, <1>2, <1>5, <1>6, <1>7, <1>8, TypeFacts, Assemble

LEMMA RemapFacts ==
  ASSUME IInv, NEW a \in PageAddr, NEW b \in PageAddr, NEW n \in Sizes,
         ReallocRemap(a, b, n)
  PROVE  /\ n \in Nat \ {0} /\ rounded(n) \in 1..Pages
         /\ b # reg /\ (b = a \/ live[b] = 0)
         /\ b + rounded(n) <= Pages
         /\ \A c \in PageAddr : live[c] # 0 /\ (c # a \/ a # b) =>
              b + rounded(n) <= c \/ c + rounded(live[c]) <= b
         /\ os' \in [PageAddr -> 0..Pages] /\ Laid(os')
         /\ os' = [c \in PageAddr |->
                     IF c = b THEN rounded(n) ELSE IF c = a THEN 0 ELSE os[c]]
<1>1. /\ reg # NULL /\ live[a] # 0 /\ n # 0 /\ remappable(a, b, rounded(n))
      /\ os' = os_mremap(os, a, b, rounded(n))
  BY DEF ReallocRemap
<1>2. n \in Nat \ {0}
  BY <1>1, PageAssumption
<1>3. rounded(n) \in Nat \ {0}
  BY <1>2, RoundedFacts
<1>4. /\ b = a \/ os[b] = 0
      /\ os' \in [PageAddr -> 0..Pages] /\ Laid(os')
      /\ os' = [c \in PageAddr |->
                  IF c = b THEN rounded(n) ELSE IF c = a THEN 0 ELSE os[c]]
  <2>1. os \in [PageAddr -> 0..Pages] /\ Laid(os)
    BY TypeFacts DEF IInv
  <2> QED BY <1>1, <1>3, <2>1, MremapLaid
<1>5. b # reg /\ (b = a \/ live[b] = 0)
  BY <1>1, <1>4, AddrFacts
<1>6. rounded(n) \in 1..Pages
  BY <1>3, <1>4
<1>7. b + rounded(n) <= Pages
  BY <1>1 DEF remappable, mappable
<1>8. ASSUME NEW c \in PageAddr, live[c] # 0, c # a \/ a # b
      PROVE  b + rounded(n) <= c \/ c + rounded(live[c]) <= b
  <2>1. os[c] = rounded(live[c]) /\ os[c] # 0
    BY <1>8, AddrFacts
  <2>2. CASE a # b
    BY <1>1, <2>1, <2>2 DEF remappable, mappable
  <2>3. CASE a = b
    <3>1. c # a /\ [os EXCEPT ![a] = 0][c] = os[c]
      BY <1>8, <2>3, TypeFacts
    <3> QED BY <1>1, <2>1, <2>3, <3>1 DEF remappable, mappable
  <2> QED BY <2>2, <2>3
<1> QED BY <1>2, <1>4, <1>5, <1>6, <1>7, <1>8

LEMMA RemapShadow ==
  ASSUME IInv, NEW a \in PageAddr, NEW b \in PageAddr, NEW n \in Sizes,
         ReallocRemap(a, b, n)
  PROVE  /\ unpoisoned' \subseteq Memory
         /\ Exact(unpoisoned', live')
         /\ Outside(unpoisoned', live') \subseteq Outside(unpoisoned, live)
<1>1. /\ live[a] # 0
      /\ unpoisoned' = opened(released(a), b, n)
      /\ live' = [live EXCEPT ![a] = 0, ![b] = n]
  BY DEF ReallocRemap
<1>2. /\ n \in Nat \ {0} /\ (b = a \/ live[b] = 0) /\ b + rounded(n) <= Pages
      /\ \A c \in PageAddr : live[c] # 0 /\ (c # a \/ a # b) =>
           b + rounded(n) <= c \/ c + rounded(live[c]) <= b
  BY RemapFacts
<1> QED BY <1>1, <1>2, MovedShadow

LEMMA RemapStep ==
  ASSUME IInv, NEW a \in PageAddr, NEW b \in PageAddr, NEW n \in Sizes,
         ReallocRemap(a, b, n)
  PROVE  IInv'
<1>1. /\ reg # NULL /\ live[a] # 0
      /\ registry' = registry_update(a, b, rounded(n))
      /\ live' = [live EXCEPT ![a] = 0, ![b] = n]
      /\ reg' = reg /\ capacity' = capacity
  BY DEF ReallocRemap
<1>2. /\ reg \in PageAddr /\ a # reg /\ live[reg] = 0
      /\ capacity \in Nat /\ Len(registry) <= capacity
      /\ \E k \in Nat \ {0} : capacity = k * entries_per_page
      /\ Registered(registry, live)
      /\ live \in [PageAddr -> Sizes \cup {0}]
  BY <1>1, HeldFacts
<1>3. /\ n \in Nat \ {0} /\ rounded(n) \in 1..Pages
      /\ b # reg /\ (b = a \/ live[b] = 0)
      /\ os' \in [PageAddr -> 0..Pages] /\ Laid(os')
      /\ os' = [c \in PageAddr |->
                  IF c = b THEN rounded(n) ELSE IF c = a THEN 0 ELSE os[c]]
  BY RemapFacts
<1>4. /\ registry' \in Seq(Entries) /\ Len(registry') = Len(registry)
      /\ Registered(registry', live')
  BY <1>1, <1>2, <1>3, TypeFacts, RegisterUpdate
<1>5. Laid(os)' /\ Registered(registry, live)'
  BY <1>3, <1>4 DEF Laid, Registered, PageAddr, rounded
<1>6. /\ live' \in [PageAddr -> Sizes \cup {0}] /\ live'[reg'] = 0
      /\ unpoisoned' \subseteq Memory /\ Exact(unpoisoned', live')
  BY <1>1, <1>2, <1>3, RemapShadow
<1>7. \A c \in PageAddr : os'[c] = IF c = reg' THEN reg_pages(capacity')
                                   ELSE rounded(live'[c])
  <2>1. rounded(0) = 0
    BY RoundedFacts
  <2>2. \A c \in PageAddr : live'[c] = IF c = b THEN n ELSE IF c = a THEN 0 ELSE live[c]
    BY <1>1, <1>2
  <2> QED BY <1>1, <1>2, <1>3, <2>1, <2>2 DEF IInv, MappingsExact
<1>8. Len(registry') <= capacity'
  BY <1>1, <1>2, <1>4
<1> QED BY <1>1, <1>2, <1>3, <1>4, <1>5, <1>6, <1>7, <1>8, Assemble

LEMMA NextInv == IInv /\ [Next]_vars => IInv'
<1> SUFFICES ASSUME IInv, [Next]_vars PROVE IInv'
  OBVIOUS
<1>1. ASSUME UNCHANGED vars PROVE IInv'
  BY <1>1 DEF vars, IInv, TypeOK, Homed, Laid, MappingsExact, Registered, Exact,
              Filled, Bytes, Memory, in_bytes, PageAddr, NULL, rounded, reg_pages
<1>2. ASSUME NEW n \in Sizes, AllocNull(n) PROVE IInv'
  BY <1>1, <1>2 DEF AllocNull
<1>3. ASSUME MakeFails PROVE IInv'
  BY <1>1, <1>3 DEF MakeFails
<1>4. ASSUME NEW a \in PageAddr, NEW n \in Sizes, ReallocNull(a, n) PROVE IInv'
  <2>1. unpoisoned' = unpoisoned
    BY <1>4, RestoredIsBefore DEF ReallocNull
  <2> QED BY <1>1, <1>4, <2>1 DEF ReallocNull, vars
<1> QED BY <1>1, <1>2, <1>3, <1>4, MakeStep, DestroyStep, AllocStep, NoMapStep,
           FreeStep, SameStep, RemapStep DEF Next

LEMMA Invariance == Spec => []IInv
  BY InitInv, NextInv, PTL DEF Spec

-----------------------------------------------------------------------------
(* Results *)

(***************************************************************************)
(* registry_add never writes past the registry's pages: it has room for an *)
(* entry whenever one is added, whatever mremap did before.                *)
(***************************************************************************)
THEOREM RegistryHasRoom == Spec => []TypeOK
<1>1. IInv => TypeOK
  BY DEF IInv
<1> QED BY <1>1, Invariance, PTL

(***************************************************************************)
(* What is mapped is the blocks the client holds and the registry, at      *)
(* every moment and on every failing path: no leak and no early munmap.    *)
(***************************************************************************)
THEOREM NoPageLost == Spec => []MappingsExact
<1>1. IInv => MappingsExact
  BY DEF IInv
<1> QED BY <1>1, Invariance, PTL

\* No call but page_destroy_fn leaves poison on pages that no block fills.
LEMMA NextStale ==
  ASSUME IInv, [Next]_vars
  PROVE  Stale' \subseteq Stale \/ reg' = NULL
<1>1. Stale = Outside(unpoisoned, live)
  BY DEF Stale, Outside, Held, Mapped, Filled
<1>2. Stale' = Outside(unpoisoned', live')
  BY DEF Stale, Outside, Held, Mapped, Filled, Memory, Bytes, PageAddr, in_bytes,
         rounded
<1>3. ASSUME UNCHANGED <<unpoisoned, live>> PROVE Stale' \subseteq Stale
  BY <1>1, <1>2, <1>3
<1>4. ASSUME NEW a \in PageAddr, Make(a) PROVE Stale' \subseteq Stale
  BY <1>3, <1>4 DEF Make
<1>5. ASSUME MakeFails \/ UNCHANGED vars PROVE Stale' \subseteq Stale
  BY <1>3, <1>5 DEF MakeFails, vars
<1>6. ASSUME Destroy PROVE reg' = NULL
  BY <1>6 DEF Destroy
<1>7. ASSUME NEW n \in Sizes, AllocNoMap(n) \/ AllocNull(n)
      PROVE  Stale' \subseteq Stale
  BY <1>3, <1>7 DEF AllocNoMap, AllocNull, vars
<1>8. ASSUME NEW n \in Sizes, Alloc(n) PROVE Stale' \subseteq Stale
  BY <1>1, <1>2, <1>8, AllocShadow
<1>9. ASSUME NEW a \in PageAddr, Free(a) PROVE Stale' \subseteq Stale
  BY <1>1, <1>2, <1>9, ReleasedFacts DEF Free
<1>10. ASSUME NEW a \in PageAddr, NEW n \in Sizes, ReallocSame(a, n)
       PROVE  Stale' \subseteq Stale
  BY <1>1, <1>2, <1>10, SameShadow
<1>11. ASSUME NEW a \in PageAddr, NEW n \in Sizes, ReallocNull(a, n)
       PROVE  Stale' \subseteq Stale
  BY <1>3, <1>11, RestoredIsBefore DEF ReallocNull
<1>12. ASSUME NEW a \in PageAddr, NEW b \in PageAddr, NEW n \in Sizes,
              ReallocRemap(a, b, n)
       PROVE  Stale' \subseteq Stale
  BY <1>1, <1>2, <1>12, RemapShadow
<1> QED BY <1>4, <1>5, <1>6, <1>7, <1>8, <1>9, <1>10, <1>11, <1>12 DEF Next

\* Exact, with the sets of bytes that ShadowExact names.
LEMMA HeldShadow ==
  ASSUME IInv, NEW a \in Held
  PROVE  unpoisoned \cap Mapped(a) = Bytes(in_bytes(a), live[a])
<1>1. a \in PageAddr /\ live[a] # 0
  BY DEF Held
<1>2. /\ in_bytes(a) \in Nat /\ in_bytes(rounded(live[a])) \in Nat
      /\ live[a] \in Nat /\ live[a] <= in_bytes(rounded(live[a]))
      /\ \A x \in Int :
           in_bytes(a) <= x /\ x < in_bytes(a) + in_bytes(rounded(live[a])) =>
             (x \in unpoisoned <=> x < in_bytes(a) + live[a])
  BY <1>1, OwnPages
<1> QED BY <1>2 DEF Mapped, Bytes

(***************************************************************************)
(* In the pages of a block the shadow lets through the size asked for and  *)
(* no byte more, whatever poison lay there before and also after a realloc *)
(* that failed; and no call but page_destroy_fn leaves poison on pages     *)
(* that no block fills any more.                                           *)
(***************************************************************************)
THEOREM PageShadowExact == Spec => ShadowExact
<1>1. IInv => \A a \in Held : unpoisoned \cap Mapped(a) = Bytes(in_bytes(a), live[a])
  BY HeldShadow
<1>2. IInv /\ [Next]_vars => [Stale' \subseteq Stale \/ reg' = NULL]_vars
  BY NextStale
<1> QED BY <1>1, <1>2, Invariance, PTL DEF Spec, ShadowExact

\* The registry has one entry per block: its addresses enumerate Held.
LEMMA RegistryCounts ==
  ASSUME IInv
  PROVE  RegistryExact
<1> DEFINE L == Len(registry)
           f == [i \in 1..L |-> registry[i].addr]
<1>1. L \in Nat /\ DOMAIN registry = 1..L /\ \A i \in 1..L : registry[i] \in Entries
  BY TypeFacts, LenProperties
<1>2. \A i \in 1..L : registry[i].addr \in Held
  BY <1>1 DEF Held, IInv, Registered, Entries
<1>3. ASSUME NEW a \in Held PROVE \E i \in 1..L : registry[i].addr = a
  BY <1>1 DEF Held, IInv, Registered
<1>4. \A i \in 1..L : registry[i] = [addr |-> registry[i].addr,
                                     size |-> rounded(live[registry[i].addr])]
  BY <1>1 DEF IInv, Registered, Entries
<1>5. {registry[i] : i \in DOMAIN registry}
        = {[addr |-> a, size |-> rounded(live[a])] : a \in Held}
  BY <1>1, <1>2, <1>3, <1>4
<1>6. f \in Injection(1..L, Held) /\ f \in Surjection(1..L, Held)
  <2>1. f \in [1..L -> Held]
    BY <1>2
  <2>2. \A i, j \in 1..L : f[i] = f[j] => i = j
    BY <1>1 DEF IInv, Registered
  <2>3. \A a \in Held : \E i \in 1..L : f[i] = a
    BY <1>3
  <2> QED BY <2>1, <2>2, <2>3 DEF Injection, Surjection, IsInjective
<1> HIDE DEF f
<1>7. IsFiniteSet(Held)
  <2>1. IsFiniteSet(PageAddr)
    BY PageAssumption, FS_Interval DEF PageAddr
  <2> QED BY <2>1, FS_Subset DEF Held
<1>8. Cardinality(1..L) = Cardinality(Held)
  BY <1>6, <1>7, FS_Injection
<1>9. Cardinality(1..L) = L
  BY <1>1, FS_Interval
<1> QED BY <1>5, <1>8, <1>9 DEF RegistryExact

(***************************************************************************)
(* The registry lists every block the client holds once, with the length   *)
(* of its mapping, through swaps, moves and refusals: page_destroy_fn has  *)
(* what it needs to unmap every leaked block.                              *)
(***************************************************************************)
THEOREM RegistryTrue == Spec => []RegistryExact
<1>1. IInv => RegistryExact
  BY RegistryCounts
<1> QED BY <1>1, Invariance, PTL

-----------------------------------------------------------------------------
(* The contract *)

\* The heap that clients see.
HeapLive == [x \in Addrs |-> live[x \div page_size]]

LEMMA HeapLiveFacts ==
  /\ \A a \in PageAddr : /\ a \in Nat /\ a * page_size \in Addrs
                         /\ (a * page_size) \div page_size = a
                         /\ (a * page_size) % page_size = 0
                         /\ HeapLive[a * page_size] = live[a]
  /\ \A x \in Addrs : \E a \in PageAddr :
       x = a * page_size /\ HeapLive[x] = live[a]
<1>1. ASSUME NEW a \in PageAddr
      PROVE  /\ a \in Nat /\ a * page_size \in Addrs
             /\ (a * page_size) \div page_size = a
             /\ (a * page_size) % page_size = 0
  <2>1. a \in Nat /\ page_size \in Nat \ {0}
    BY PageAssumption DEF PageAddr
  <2> QED BY <2>1, Divides DEF Addrs
<1> QED BY <1>1 DEF HeapLive, Addrs

\* Setting the size of blocks sets it at their addresses.
LEMMA HeapLiveStep ==
  ASSUME IInv, NEW a \in PageAddr, NEW b \in PageAddr, NEW n,
         live' = [live EXCEPT ![a] = 0, ![b] = n]
  PROVE  HeapLive' = [HeapLive EXCEPT ![a * page_size] = 0, ![b * page_size] = n]
<1>1. HeapLive' = [x \in Addrs |-> live'[x \div page_size]]
  BY DEF HeapLive, Addrs, PageAddr
<1>2. ASSUME NEW x \in Addrs
      PROVE  live'[x \div page_size]
               = IF x = b * page_size THEN n
                 ELSE IF x = a * page_size THEN 0 ELSE HeapLive[x]
  <2>1. PICK c \in PageAddr : x = c * page_size /\ HeapLive[x] = live[c]
    BY HeapLiveFacts
  <2>2. /\ x \div page_size = c
        /\ (x = b * page_size <=> b = c) /\ (x = a * page_size <=> a = c)
    BY <2>1, HeapLiveFacts
  <2>3. live'[c] = IF b = c THEN n ELSE IF a = c THEN 0 ELSE live[c]
    BY TypeFacts
  <2> QED BY <2>1, <2>2, <2>3
<1> QED BY <1>1, <1>2 DEF HeapLive

\* Pages that are clear of other mappings hold a block clear of other blocks.
LEMMA PageVacant ==
  ASSUME IInv, NEW a \in PageAddr, NEW n \in Nat \ {0}, a + rounded(n) <= Pages,
         NEW e \in PageAddr,
         \A c \in PageAddr : live[c] # 0 /\ c # e =>
           a + rounded(n) <= c \/ c + rounded(live[c]) <= a
  PROVE  /\ Contract!Vacant(a * page_size, n, {e * page_size})
         /\ live[e] = 0 => Contract!Vacant(a * page_size, n, {})
<1>1. a \in Nat /\ rounded(n) \in Nat /\ n <= rounded(n) * page_size
      /\ Pages \in Nat
  BY RoundedFacts, PageAssumption DEF PageAddr
<1>2. (a * page_size) % page_size = 0
  BY HeapLiveFacts
<1>3. a * page_size + n <= Pages * page_size
  BY <1>1, Scale
<1>4. ASSUME NEW x \in Addrs, x # e * page_size \/ live[e] = 0
      PROVE  \/ HeapLive[x] = 0
             \/ a * page_size + n <= x
             \/ x + HeapLive[x] <= a * page_size
  <2>1. PICK c \in PageAddr : x = c * page_size /\ HeapLive[x] = live[c]
    BY HeapLiveFacts
  <2> SUFFICES ASSUME live[c] # 0
               PROVE  \/ a * page_size + n <= c * page_size
                      \/ c * page_size + live[c] <= a * page_size
    BY <2>1
  <2>2. c # e
    BY <1>4, <2>1
  <2>3. c \in Nat /\ live[c] \in Nat /\ rounded(live[c]) \in Nat
        /\ live[c] <= rounded(live[c]) * page_size
    BY AddrFacts, RoundedFacts
  <2>4. CASE a + rounded(n) <= c
    BY <1>1, <2>3, <2>4, Scale
  <2>5. CASE c + rounded(live[c]) <= a
    BY <1>1, <2>3, <2>5, Scale
  <2> QED BY <2>2, <2>4, <2>5
<1> QED BY <1>2, <1>3, <1>4 DEF Contract!Vacant, Contract!Apart, HeapLive

LEMMA InitHeap == Init => Contract!Init
  BY HeapLiveFacts DEF Init, Contract!Init, Addrs

LEMMA AllocHeap ==
  ASSUME IInv, NEW n \in Sizes, Alloc(n)
  PROVE  Contract!allo_alloc
<1>1. PICK b, a \in PageAddr :
        /\ reg # NULL /\ ensured(b) /\ a # b /\ live[a] = 0
        /\ n \in Nat \ {0} /\ rounded(n) \in 1..Pages
        /\ a + rounded(n) <= Pages
        /\ \A c \in PageAddr : live[c] # 0 =>
             a + rounded(n) <= c \/ c + rounded(live[c]) <= a
        /\ live' = [live EXCEPT ![a] = n]
  BY AllocFacts
<1>2. Contract!Vacant(a * page_size, n, {})
  BY <1>1, PageVacant
<1>3. live' = [live EXCEPT ![a] = 0, ![a] = n]
  BY <1>1
<1>4. HeapLive' = [HeapLive EXCEPT ![a * page_size] = 0, ![a * page_size] = n]
  BY <1>3, HeapLiveStep
<1>5. a * page_size \in Addrs /\ n \in Sizes \ {0}
  BY <1>1, HeapLiveFacts
<1>6. HeapLive' = [HeapLive EXCEPT ![a * page_size] = n]
  BY <1>4, <1>5 DEF HeapLive
<1> QED BY <1>2, <1>5, <1>6 DEF Contract!allo_alloc, HeapLive

\* A block that stays, in pages of its own, is clear of the others.
LEMMA ReallocHeap ==
  ASSUME IInv, NEW a \in PageAddr, NEW b \in PageAddr, NEW n \in Sizes, n # 0,
         live[a] # 0, b + rounded(n) <= Pages,
         \A c \in PageAddr : live[c] # 0 /\ (c # a \/ a # b) =>
           b + rounded(n) <= c \/ c + rounded(live[c]) <= b,
         live' = [live EXCEPT ![a] = 0, ![b] = n]
  PROVE  Contract!allo_realloc
<1> DEFINE x == a * page_size
           y == b * page_size
<1>1. n \in Nat \ {0} /\ rounded(n) \in Nat /\ n <= rounded(n) * page_size
  BY PageAssumption, RoundedFacts
<1>2. Contract!Vacant(y, n, {x})
  BY <1>1, PageVacant
<1>3. x = y \/ Contract!Apart(x, live[a], y, n)
  <2> SUFFICES ASSUME a # b PROVE x + live[a] <= y \/ y + n <= x
    BY DEF Contract!Apart
  <2>1. b + rounded(n) <= a \/ a + rounded(live[a]) <= b
    OBVIOUS
  <2>2. a \in Nat /\ b \in Nat /\ live[a] \in Nat
        /\ rounded(live[a]) \in Nat /\ live[a] <= rounded(live[a]) * page_size
    BY AddrFacts, RoundedFacts
  <2>3. CASE b + rounded(n) <= a
    BY <1>1, <2>2, <2>3, Scale
  <2>4. CASE a + rounded(live[a]) <= b
    BY <2>2, <2>4, Scale
  <2> QED BY <2>1, <2>3, <2>4
<1>4. HeapLive' = [HeapLive EXCEPT ![x] = 0, ![y] = n]
  BY HeapLiveStep
<1>5. x \in Addrs /\ y \in Addrs /\ HeapLive[x] = live[a] /\ n \in Sizes \ {0}
  BY HeapLiveFacts
<1> HIDE DEF x, y
<1>6. HeapLive[x] # 0 /\ (x = y \/ Contract!Apart(x, HeapLive[x], y, n))
  BY <1>3, <1>5
<1> QED BY <1>2, <1>4, <1>5, <1>6 DEF Contract!allo_realloc, HeapLive

\* Every step is one of the heap's, or one it does not see.
LEMMA NextHeap ==
  ASSUME IInv, [Next]_vars
  PROVE  Contract!Next \/ HeapLive' = HeapLive
<1>1. ASSUME live' = live PROVE HeapLive' = HeapLive
  BY <1>1 DEF HeapLive, Addrs, PageAddr
<1>2. ASSUME NEW a \in PageAddr, Make(a) PROVE live' = live
  BY <1>2 DEF Make
<1>3. ASSUME Destroy PROVE Contract!allo_destroy
  <2>1. live' = [a \in PageAddr |-> 0]
    BY <1>3 DEF Destroy
  <2> QED BY <2>1, HeapLiveFacts DEF Contract!allo_destroy, Addrs, PageAddr
<1>4. ASSUME NEW n \in Sizes, AllocNoMap(n) \/ AllocNull(n) PROVE live' = live
  BY <1>4 DEF AllocNoMap, AllocNull, vars
<1>5. ASSUME MakeFails PROVE live' = live
  BY <1>5 DEF MakeFails, vars
<1>6. ASSUME NEW a \in PageAddr, NEW n \in Sizes, ReallocNull(a, n)
      PROVE  live' = live
  BY <1>6 DEF ReallocNull
<1>7. ASSUME NEW a \in PageAddr, Free(a) PROVE Contract!allo_free
  <2>1. live[a] # 0 /\ live' = [live EXCEPT ![a] = 0, ![a] = 0]
    BY <1>7 DEF Free
  <2>2. HeapLive' = [HeapLive EXCEPT ![a * page_size] = 0, ![a * page_size] = 0]
    BY <2>1, HeapLiveStep
  <2>3. HeapLive' = [HeapLive EXCEPT ![a * page_size] = 0]
    BY <2>2 DEF HeapLive
  <2>4. HeapLive[a * page_size] # 0 /\ a * page_size \in Addrs
    BY <2>1, HeapLiveFacts
  <2> QED BY <2>3, <2>4 DEF Contract!allo_free, HeapLive
<1>8. ASSUME NEW a \in PageAddr, NEW n \in Sizes, ReallocSame(a, n)
      PROVE  Contract!allo_realloc
  <2>1. /\ live[a] # 0 /\ n # 0 /\ rounded(n) = rounded(live[a])
        /\ live' = [live EXCEPT ![a] = n]
    BY <1>8 DEF ReallocSame
  <2>2. live' = [live EXCEPT ![a] = 0, ![a] = n]
    BY <2>1
  <2>3. /\ a + rounded(n) <= Pages
        /\ \A c \in PageAddr : live[c] # 0 /\ (c # a \/ a # a) =>
             a + rounded(n) <= c \/ c + rounded(live[c]) <= a
    BY <2>1, HeldApart
  <2> QED BY <2>1, <2>2, <2>3, ReallocHeap
<1>9. ASSUME NEW a \in PageAddr, NEW b \in PageAddr, NEW n \in Sizes,
             ReallocRemap(a, b, n)
      PROVE  Contract!allo_realloc
  <2>1. /\ live[a] # 0 /\ n # 0
        /\ live' = [live EXCEPT ![a] = 0, ![b] = n]
    BY <1>9 DEF ReallocRemap
  <2>2. /\ b + rounded(n) <= Pages
        /\ \A c \in PageAddr : live[c] # 0 /\ (c # a \/ a # b) =>
             b + rounded(n) <= c \/ c + rounded(live[c]) <= b
    BY <1>9, RemapFacts
  <2> QED BY <2>1, <2>2, ReallocHeap
<1>10. ASSUME UNCHANGED vars PROVE live' = live
  BY <1>10 DEF vars
<1> QED BY <1>1, <1>2, <1>3, <1>4, <1>5, <1>6, <1>7, <1>8, <1>9, <1>10, AllocHeap
        DEF Next, Contract!Next

(***************************************************************************)
(* The page allocator keeps the contract of allo.h: blocks are aligned to  *)
(* pages and share no byte, wherever mmap and mremap put them, and a call  *)
(* the kernel refuses changes nothing the client sees.                     *)
(***************************************************************************)
THEOREM PageIsHeap == Spec => ImplementsHeap
<1>1. IInv /\ [Next]_vars => [Contract!Next]_HeapLive
  BY NextHeap
<1> QED BY InitHeap, <1>1, Invariance, PTL
        DEF Spec, ImplementsHeap, Contract!Spec, HeapLive
=============================================================================
