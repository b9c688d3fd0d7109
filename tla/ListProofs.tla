----------------------------- MODULE ListProofs -----------------------------
(***************************************************************************)
(* What the pushes, pops, insertions and removals of the allocators do to  *)
(* a linked list, and what a walk of it meets.                             *)
(***************************************************************************)
EXTENDS Lists, FiniteSetTheorems, WellFoundedInduction, TLAPS

\* s lists n members of S, each once and all of them, in the order of the
\* links from the head; the last link is NULL.
InOrder(s, n, head, link, S) ==
  /\ s \in [0..(n - 1) -> S]
  /\ \A x \in S : \E i \in 0..(n - 1) : s[i] = x
  /\ \A i, j \in 0..(n - 1) : s[i] = s[j] => i = j
  /\ n = 0 => head = NULL
  /\ n # 0 => head = s[0]
  /\ \A i \in 0..(n - 1) :
       link[s[i]] = IF i = n - 1 THEN NULL ELSE s[i + 1]

\* The list from head has exactly the members S.
Chain(head, link, S) == \E n \in Nat : \E s : InOrder(s, n, head, link, S)

\* A set of numbers that is not empty has a least member.
LEMMA LeastNumber ==
  ASSUME NEW T \in SUBSET Nat, T # {}
  PROVE  \E x \in T : \A y \in T : x <= y
<1>1. \E x \in T : \A y \in T : ~ (<<y, x>> \in OpToRel(<, Nat))
  BY NatLessThanWellFounded, WFMin, Zenon
<1>2. PICK x \in T : \A y \in T : ~ (y < x)
  BY <1>1 DEF OpToRel
<1> QED BY <1>2

-----------------------------------------------------------------------------
(* What a list is before anything is done to it *)

LEMMA ChainHead ==
  ASSUME NEW head, NEW link, NEW S, NULL \notin S, Chain(head, link, S)
  PROVE  /\ head \in S \cup {NULL}
         /\ head = NULL <=> S = {}
         /\ \A x \in S : link[x] \in S \cup {NULL} /\ link[x] # head
         /\ \A x, y \in S : link[x] # NULL /\ link[x] = link[y] => x = y
<1>0. PICK n \in Nat : \E s : InOrder(s, n, head, link, S)
  BY DEF Chain
<1>1. PICK s : InOrder(s, n, head, link, S)
  BY <1>0
<1>2. n # 0 => 0 \in 0..(n - 1) /\ s[0] \in S
  BY <1>1 DEF InOrder
<1>3. n = 0 => S = {}
  BY <1>1 DEF InOrder
<1>4. head \in S \cup {NULL} /\ (head = NULL <=> S = {})
  BY <1>1, <1>2, <1>3 DEF InOrder
<1>5. ASSUME NEW x \in S
      PROVE  \E i \in 0..(n - 1) :
               /\ x = s[i]
               /\ link[x] # NULL => /\ i + 1 \in 0..(n - 1)
                                    /\ link[x] = s[i + 1]
                                    /\ link[x] \in S
  <2>1. PICK i \in 0..(n - 1) : s[i] = x
    BY <1>1 DEF InOrder
  <2>2. i # n - 1 => i + 1 \in 0..(n - 1)
    OBVIOUS
  <2> QED BY <1>1, <2>1, <2>2 DEF InOrder
<1>6. ASSUME NEW x \in S
      PROVE  link[x] \in S \cup {NULL} /\ link[x] # head
  <2>1. PICK i \in 0..(n - 1) :
               /\ x = s[i]
               /\ link[x] # NULL => /\ i + 1 \in 0..(n - 1)
                                    /\ link[x] = s[i + 1]
                                    /\ link[x] \in S
    BY <1>5
  <2>2. i + 1 # 0
    OBVIOUS
  <2>3. head = s[0] /\ 0 \in 0..(n - 1) /\ head # NULL
    BY <1>1, <1>2, <2>1 DEF InOrder
  <2> QED BY <1>1, <2>1, <2>2, <2>3 DEF InOrder
<1>7. ASSUME NEW x \in S, NEW y \in S, link[x] # NULL, link[x] = link[y]
      PROVE  x = y
  <2>1. PICK i \in 0..(n - 1) :
          x = s[i] /\ i + 1 \in 0..(n - 1) /\ link[x] = s[i + 1]
    BY <1>5, <1>7
  <2>2. PICK j \in 0..(n - 1) :
          y = s[j] /\ j + 1 \in 0..(n - 1) /\ link[y] = s[j + 1]
    BY <1>5, <1>7
  <2>3. i + 1 = j + 1
    BY <1>1, <1>7, <2>1, <2>2 DEF InOrder
  <2>4. i = j
    BY <2>3
  <2> QED BY <2>1, <2>2, <2>4
<1> QED BY <1>4, <1>6, <1>7

-----------------------------------------------------------------------------
(* Operations *)

\* The empty list.
LEMMA ChainEmpty ==
  ASSUME NEW link
  PROVE  Chain(NULL, link, {})
<1>1. InOrder([i \in {} |-> 0], 0, NULL, link, {})
  <2>1. 0..(0 - 1) = {}
    OBVIOUS
  <2> QED BY <2>1 DEF InOrder
<1> QED BY <1>1 DEF Chain

\* Links outside the list do not matter.
LEMMA ChainFrame ==
  ASSUME NEW head, NEW link, NEW link2, NEW S, Chain(head, link, S),
         \A x \in S : link2[x] = link[x]
  PROVE  Chain(head, link2, S)
  BY DEF Chain, InOrder

\* A new head is pushed.
LEMMA ChainPush ==
  ASSUME NEW head, NEW link, NEW link2, NEW S, Chain(head, link, S),
         NEW b, b \notin S, b # NULL,
         link2[b] = head,
         \A x \in S : link2[x] = link[x]
  PROVE  Chain(b, link2, S \cup {b})
<1>0. PICK n \in Nat : \E s : InOrder(s, n, head, link, S)
  BY DEF Chain
<1>1. PICK s : InOrder(s, n, head, link, S)
  BY <1>0
<1> DEFINE t == [i \in 0..n |-> IF i = 0 THEN b ELSE s[i - 1]]
<1>2. n + 1 \in Nat /\ (n + 1) - 1 = n /\ 0 \in 0..n /\ n + 1 # 0
  OBVIOUS
<1>3. \A i \in 0..n : i # 0 => i - 1 \in 0..(n - 1)
  OBVIOUS
<1>4. \A i \in 0..(n - 1) : i + 1 \in 0..n /\ i + 1 # 0 /\ (i + 1) - 1 = i
  OBVIOUS
<1>5. t[0] = b /\ \A i \in 0..(n - 1) : t[i + 1] = s[i]
  BY <1>2, <1>4
<1>6. t \in [0..n -> S \cup {b}]
  BY <1>1, <1>3 DEF InOrder
<1>7. ASSUME NEW x \in S \cup {b} PROVE \E i \in 0..n : t[i] = x
  BY <1>1, <1>2, <1>4, <1>5 DEF InOrder
<1>8. ASSUME NEW i \in 0..n, NEW j \in 0..n, t[i] = t[j] PROVE i = j
  <2>1. \A k \in 0..n : k # 0 => t[k] = s[k - 1] /\ t[k] \in S /\ t[k] # b
    BY <1>1, <1>3 DEF InOrder
  <2>2. CASE i # 0 /\ j # 0
    <3>1. i - 1 = j - 1
      BY <1>1, <1>3, <1>8, <2>1, <2>2 DEF InOrder
    <3> QED BY <3>1
  <2> QED BY <1>5, <1>8, <2>1, <2>2
<1>9. ASSUME NEW i \in 0..n
      PROVE  link2[t[i]] = IF i = n THEN NULL ELSE t[i + 1]
  <2>1. CASE i = 0
    <3>1. n # 0 => 0 \in 0..(n - 1) /\ t[0 + 1] = s[0]
      BY <1>5
    <3> QED BY <1>1, <1>5, <2>1, <3>1 DEF InOrder
  <2>2. CASE i # 0
    <3>1. i - 1 \in 0..(n - 1) /\ t[i] = s[i - 1] /\ (i - 1 = n - 1 <=> i = n)
          /\ (i - 1) + 1 = i
      BY <1>3, <2>2
    <3>2. link[s[i - 1]] = IF i - 1 = n - 1 THEN NULL ELSE s[(i - 1) + 1]
      BY <1>1, <3>1 DEF InOrder
    <3>3. link2[t[i]] = link[s[i - 1]]
      BY <1>1, <3>1 DEF InOrder
    <3>4. i # n => i \in 0..(n - 1)
      OBVIOUS
    <3> HIDE DEF t
    <3> QED BY <1>5, <3>1, <3>2, <3>3, <3>4
  <2> QED BY <2>1, <2>2
<1>10. InOrder(t, n + 1, b, link2, S \cup {b})
  <2> HIDE DEF t
  <2> QED BY <1>2, <1>5, <1>6, <1>7, <1>8, <1>9 DEF InOrder
<1> QED BY <1>2, <1>10 DEF Chain

\* A member is unlinked, the head or another: its predecessor, or the head,
\* takes over its link.
LEMMA ChainRemove ==
  ASSUME NEW head, NEW link, NEW head2, NEW link2, NEW S, NULL \notin S,
         Chain(head, link, S), NEW b \in S,
         head2 = IF head = b THEN link[b] ELSE head,
         \A x \in S \ {b} : link2[x] = IF link[x] = b THEN link[b] ELSE link[x]
  PROVE  Chain(head2, link2, S \ {b})
<1>0. PICK n \in Nat : \E s : InOrder(s, n, head, link, S)
  BY DEF Chain
<1>1. PICK s : InOrder(s, n, head, link, S)
  BY <1>0
<1>2. PICK m \in 0..(n - 1) : s[m] = b
  BY <1>1 DEF InOrder
<1> DEFINE old(i) == IF i < m THEN i ELSE i + 1
           t == [i \in 0..(n - 2) |-> s[old(i)]]
<1>3. n - 1 \in Nat /\ (n - 1) - 1 = n - 2 /\ m \in Nat /\ n # 0
  OBVIOUS
<1>4. \A i \in 0..(n - 2) : old(i) \in 0..(n - 1) /\ old(i) # m
  OBVIOUS
<1>5. \A i, j \in 0..(n - 2) : old(i) = old(j) => i = j
  OBVIOUS
<1>6. \A k \in 0..(n - 1) : k # m => \E i \in 0..(n - 2) : old(i) = k
  <2> TAKE k \in 0..(n - 1)
  <2>1. CASE k < m
    <3>1. k \in 0..(n - 2) /\ old(k) = k
      BY <2>1
    <3> QED BY <3>1
  <2>2. CASE k > m
    <3>1. k - 1 \in 0..(n - 2) /\ old(k - 1) = k
      BY <2>2
    <3> QED BY <3>1
  <2> QED BY <2>1, <2>2
<1>7. \A i \in 0..(n - 2) :
        /\ i = n - 2 /\ old(i) # n - 1 => m = n - 1 /\ old(i) + 1 = m
        /\ i # n - 2 => i + 1 \in 0..(n - 2) /\ old(i) # n - 1
        /\ i # n - 2 /\ old(i) + 1 # m => old(i + 1) = old(i) + 1
        /\ i # n - 2 /\ old(i) + 1 = m => m # n - 1 /\ old(i + 1) = m + 1
  OBVIOUS
<1>8. 0 \in 0..(n - 1) /\ (n - 1 # 0 => 0 \in 0..(n - 2))
      /\ (m # 0 => old(0) = 0 /\ n - 1 # 0) /\ (m = 0 => old(0) = 1)
  BY <1>3
<1> HIDE DEF old
<1>9. \A i \in 0..(n - 2) : t[i] = s[old(i)] /\ t[i] \in S /\ t[i] # b
  BY <1>1, <1>2, <1>4 DEF InOrder
<1>10. t \in [0..(n - 2) -> S \ {b}]
  BY <1>9
<1>11. ASSUME NEW x \in S \ {b} PROVE \E i \in 0..(n - 2) : t[i] = x
  <2>1. PICK k \in 0..(n - 1) : s[k] = x
    BY <1>1 DEF InOrder
  <2>2. PICK i \in 0..(n - 2) : old(i) = k
    BY <1>2, <1>6, <2>1
  <2> QED BY <1>9, <2>1, <2>2
<1>12. ASSUME NEW i \in 0..(n - 2), NEW j \in 0..(n - 2), t[i] = t[j]
       PROVE  i = j
  BY <1>1, <1>4, <1>5, <1>9, <1>12 DEF InOrder
<1>13. link[b] = IF m = n - 1 THEN NULL ELSE s[m + 1]
  BY <1>1, <1>2 DEF InOrder
<1>14. \A i \in 0..(n - 1) : i # n - 1 => i + 1 \in 0..(n - 1)
  OBVIOUS
<1>15. head = s[0]
  BY <1>1, <1>3 DEF InOrder
<1>16. head = b <=> m = 0
  BY <1>1, <1>2, <1>8, <1>15 DEF InOrder
<1>17. n - 1 = 0 => head2 = NULL
  BY <1>8, <1>13, <1>16
<1>18. ASSUME n - 1 # 0 PROVE head2 = t[0]
  <2>1. CASE m = 0
    <3>1. m # n - 1 /\ m + 1 = 1 /\ t[0] = s[1]
      BY <1>8, <1>9, <1>18, <2>1
    <3> QED BY <1>13, <1>16, <2>1, <3>1
  <2>2. CASE m # 0
    BY <1>8, <1>9, <1>15, <1>16, <1>18, <2>2
  <2> QED BY <2>1, <2>2
<1>19. ASSUME NEW i \in 0..(n - 2)
       PROVE  link2[t[i]] = IF i = n - 2 THEN NULL ELSE t[i + 1]
  <2> DEFINE k == old(i)
  <2>1. k \in 0..(n - 1) /\ k # m /\ t[i] = s[k] /\ t[i] \in S \ {b}
    BY <1>4, <1>9
  <2>2. link[s[k]] = IF k = n - 1 THEN NULL ELSE s[k + 1]
    BY <1>1, <2>1 DEF InOrder
  <2>3. link2[t[i]] = IF link[s[k]] = b THEN link[b] ELSE link[s[k]]
    BY <2>1
  <2>4. k # n - 1 => k + 1 \in 0..(n - 1) /\ s[k + 1] \in S
                     /\ (s[k + 1] = b <=> k + 1 = m)
    BY <1>1, <1>2, <1>14, <2>1 DEF InOrder
  <2>5. CASE i = n - 2
    <3>1. k = n - 1 \/ (k # n - 1 /\ k + 1 = m /\ m = n - 1)
      BY <1>7, <2>5
    <3> QED BY <1>13, <2>2, <2>3, <2>4, <2>5, <3>1
  <2>6. CASE i # n - 2
    <3>1. i + 1 \in 0..(n - 2) /\ k # n - 1 /\ t[i + 1] = s[old(i + 1)]
      BY <1>7, <1>9, <2>6
    <3>2. CASE k + 1 = m
      <4>1. m # n - 1 /\ old(i + 1) = m + 1
        BY <1>7, <2>6, <3>2
      <4> QED BY <1>13, <2>2, <2>3, <2>4, <2>6, <3>1, <3>2, <4>1
    <3>3. CASE k + 1 # m
      <4>1. old(i + 1) = k + 1
        BY <1>7, <2>6, <3>3
      <4> QED BY <2>2, <2>3, <2>4, <2>6, <3>1, <3>3, <4>1
    <3> QED BY <3>2, <3>3
  <2> QED BY <2>5, <2>6
<1>20. InOrder(t, n - 1, head2, link2, S \ {b})
  <2> HIDE DEF t
  <2> QED BY <1>3, <1>10, <1>11, <1>12, <1>17, <1>18, <1>19 DEF InOrder
<1> QED BY <1>3, <1>20 DEF Chain

\* ... in particular the head is popped.
LEMMA ChainPop ==
  ASSUME NEW head, NEW link, NEW link2, NEW S, NULL \notin S,
         Chain(head, link, S), head # NULL,
         \A x \in S \ {head} : link2[x] = link[x]
  PROVE  head \in S /\ Chain(link[head], link2, S \ {head})
<1>1. head \in S /\ \A x \in S : link[x] # head
  BY ChainHead
<1> QED BY <1>1, ChainRemove

\* A new member is linked in after another.
LEMMA ChainInsert ==
  ASSUME NEW head, NEW link, NEW link2, NEW S, NULL \notin S,
         Chain(head, link, S), NEW c \in S, NEW b, b \notin S, b # NULL,
         link2[c] = b, link2[b] = link[c],
         \A x \in S \ {c} : link2[x] = link[x]
  PROVE  Chain(head, link2, S \cup {b})
<1>0. PICK n \in Nat : \E s : InOrder(s, n, head, link, S)
  BY DEF Chain
<1>1. PICK s : InOrder(s, n, head, link, S)
  BY <1>0
<1>2. PICK m \in 0..(n - 1) : s[m] = c
  BY <1>1 DEF InOrder
<1> DEFINE new(i) == IF i <= m THEN i ELSE i + 1
           t == [i \in 0..n |-> IF i = m + 1 THEN b
                                ELSE IF i <= m THEN s[i] ELSE s[i - 1]]
<1>3. n + 1 \in Nat /\ (n + 1) - 1 = n /\ n # 0 /\ n + 1 # 0
      /\ m + 1 \in 0..n /\ 0 \in 0..(n - 1) /\ 0 \in 0..n
      /\ new(0) = 0 /\ new(m) = m /\ m # n /\ m \in 0..n
  OBVIOUS
<1>4. \A i \in 0..(n - 1) : new(i) \in 0..n /\ new(i) # m + 1
  OBVIOUS
<1>5. \A i \in 0..n : i = m + 1 \/ \E k \in 0..(n - 1) : new(k) = i
  <2> TAKE i \in 0..n
  <2>1. CASE i <= m
    <3>1. i \in 0..(n - 1) /\ new(i) = i
      BY <2>1
    <3> QED BY <3>1
  <2>2. CASE i > m + 1
    <3>1. i - 1 \in 0..(n - 1) /\ new(i - 1) = i
      BY <2>2
    <3> QED BY <3>1
  <2> QED BY <2>1, <2>2
<1>6. \A k \in 0..(n - 1) :
        /\ new(k) = n <=> k = n - 1 /\ k # m
        /\ k # m /\ k # n - 1 => k + 1 \in 0..(n - 1)
                                 /\ new(k) + 1 = new(k + 1)
  OBVIOUS
<1>7. /\ m = n - 1 <=> m + 1 = n
      /\ m # n - 1 => m + 1 \in 0..(n - 1) /\ new(m + 1) = (m + 1) + 1
  OBVIOUS
<1>8. ASSUME NEW k \in 0..(n - 1) PROVE t[new(k)] = s[k]
  <2>1. CASE k <= m
    BY <2>1
  <2>2. CASE k > m
    <3>1. new(k) = k + 1 /\ k + 1 # m + 1 /\ ~(k + 1 <= m) /\ (k + 1) - 1 = k
          /\ k + 1 \in 0..n
      BY <2>2
    <3> HIDE DEF new
    <3> QED BY <3>1
  <2> QED BY <2>1, <2>2
<1>9. t[m + 1] = b
  BY <1>3
<1>10. DOMAIN t = 0..n /\ t = [i \in DOMAIN t |-> t[i]]
  OBVIOUS
<1> HIDE DEF new, t
<1>11. \A k \in 0..(n - 1) : s[k] \in S /\ s[k] # b
  BY <1>1 DEF InOrder
<1>12. ASSUME NEW i \in 0..n PROVE t[i] \in S \cup {b}
  BY <1>5, <1>8, <1>9, <1>11
<1>13. t \in [0..n -> S \cup {b}]
  BY <1>10, <1>12
<1>14. ASSUME NEW x \in S \cup {b} PROVE \E i \in 0..n : t[i] = x
  <2>1. CASE x = b
    BY <1>3, <1>9, <2>1
  <2>2. CASE x \in S
    <3>1. PICK k \in 0..(n - 1) : s[k] = x
      BY <1>1, <2>2 DEF InOrder
    <3> QED BY <1>4, <1>8, <3>1
  <2> QED BY <2>1, <2>2
<1>15. ASSUME NEW i \in 0..n, NEW j \in 0..n, t[i] = t[j] PROVE i = j
  <2>1. CASE i = m + 1 \/ j = m + 1
    BY <1>5, <1>8, <1>9, <1>11, <1>15, <2>1
  <2>2. CASE i # m + 1 /\ j # m + 1
    <3>1. PICK k \in 0..(n - 1) : new(k) = i
      BY <1>5, <2>2
    <3>2. PICK l \in 0..(n - 1) : new(l) = j
      BY <1>5, <2>2
    <3>3. k = l
      BY <1>1, <1>8, <1>15, <3>1, <3>2 DEF InOrder
    <3> QED BY <3>1, <3>2, <3>3
  <2> QED BY <2>1, <2>2
<1>16. head = t[0]
  BY <1>1, <1>3, <1>8 DEF InOrder
<1>17. \A k \in 0..(n - 1) : link[s[k]] = IF k = n - 1 THEN NULL ELSE s[k + 1]
  BY <1>1 DEF InOrder
<1>18. \A k \in 0..(n - 1) : k # m => link2[s[k]] = link[s[k]]
  BY <1>1, <1>2, <1>11 DEF InOrder
<1>19. ASSUME NEW i \in 0..n
       PROVE  link2[t[i]] = IF i = n THEN NULL ELSE t[i + 1]
  <2>1. CASE i = m + 1
    BY <1>2, <1>7, <1>8, <1>9, <1>17, <2>1
  <2>2. CASE i = m
    BY <1>2, <1>3, <1>8, <1>9, <2>2
  <2>3. CASE i # m + 1 /\ i # m
    <3>1. PICK k \in 0..(n - 1) : new(k) = i
      BY <1>5, <2>3
    <3>2. k # m
      BY <1>3, <2>3, <3>1
    <3>3. t[i] = s[k] /\ link2[t[i]] = link[s[k]]
      BY <1>8, <1>18, <3>1, <3>2
    <3>4. CASE k = n - 1
      BY <1>6, <1>17, <3>1, <3>2, <3>3, <3>4
    <3>5. CASE k # n - 1
      <4>1. k + 1 \in 0..(n - 1) /\ i + 1 = new(k + 1) /\ i # n
        BY <1>6, <3>1, <3>2, <3>5
      <4>2. t[i + 1] = s[k + 1]
        BY <1>8, <4>1
      <4> QED BY <1>17, <3>3, <3>5, <4>1, <4>2
    <3> QED BY <3>4, <3>5
  <2> QED BY <2>1, <2>2, <2>3
<1>20. InOrder(t, n + 1, head, link2, S \cup {b})
  BY <1>3, <1>13, <1>14, <1>15, <1>16, <1>19 DEF InOrder
<1> QED BY <1>3, <1>20 DEF Chain

-----------------------------------------------------------------------------
(* Walks *)

\* The walk from the head meets the members of the list in order, then NULL.
LEMMA WalkInOrder ==
  ASSUME NEW head, NEW link, NEW S, NULL \notin S, NEW N \in Nat,
         NEW n \in Nat, NEW s, InOrder(s, n, head, link, S)
  PROVE  \A k \in 0..N :
           Walk(head, link, N)[k] = IF k < n THEN s[k] ELSE NULL
<1> DEFINE step(w) == [k \in 0..N |->
                         IF k = 0 THEN head
                         ELSE IF w[k - 1] = NULL THEN NULL ELSE link[w[k - 1]]]
           f == [k \in 0..N |-> IF k < n THEN s[k] ELSE NULL]
<1>1. \A i \in 0..(n - 1) : s[i] # NULL
  BY DEF InOrder
<1>2. ASSUME NEW k \in 0..N, k # 0
      PROVE  f[k] = IF f[k - 1] = NULL THEN NULL ELSE link[f[k - 1]]
  <2>1. k - 1 \in 0..N /\ (k - 1) + 1 = k
    BY <1>2
  <2>2. CASE k - 1 < n
    <3>1. k - 1 \in 0..(n - 1) /\ f[k - 1] = s[k - 1] /\ f[k - 1] # NULL
      BY <1>1, <1>2, <2>1, <2>2
    <3>2. link[s[k - 1]] = IF k - 1 = n - 1 THEN NULL ELSE s[(k - 1) + 1]
      BY <3>1 DEF InOrder
    <3>3. k < n <=> k - 1 # n - 1
      BY <1>2, <2>2
    <3> QED BY <2>1, <3>1, <3>2, <3>3
  <2>3. CASE ~(k - 1 < n)
    BY <1>2, <2>1, <2>3
  <2> QED BY <2>2, <2>3
<1>3. f[0] = head
  BY DEF InOrder
<1>4. f = step(f)
  <2>1. ASSUME NEW k \in 0..N PROVE f[k] = step(f)[k]
    BY <1>2, <1>3
  <2>2. DOMAIN f = 0..N /\ DOMAIN step(f) = 0..N
    OBVIOUS
  <2>3. f = [k \in 0..N |-> step(f)[k]]
    BY <2>1
  <2> QED BY <2>3
<1> DEFINE w == Walk(head, link, N)
<1>5. w = step(w)
  BY <1>4 DEF Walk
<1>6. \A k \in 0..N :
        k # 0 => w[k] = IF w[k - 1] = NULL THEN NULL ELSE link[w[k - 1]]
  BY <1>5
<1>7. w[0] = head
  BY <1>5
<1>8. ASSUME NEW k \in 0..N, w[k] # f[k] PROVE FALSE
  <2> HIDE DEF w, f
  <2> DEFINE T == {j \in 0..N : w[j] # f[j]}
  <2>1. T \in SUBSET Nat /\ T # {}
    BY <1>8
  <2>2. PICK j \in T : \A y \in T : j <= y
    BY <2>1, LeastNumber
  <2>3. j \in 0..N /\ w[j] # f[j]
    OBVIOUS
  <2>4. j # 0
    BY <1>3, <1>7, <2>3
  <2>5. j - 1 \in 0..N /\ j - 1 \notin T
    BY <2>2, <2>3, <2>4
  <2>6. w[j - 1] = f[j - 1]
    BY <2>5
  <2>7. w[j] = IF w[j - 1] = NULL THEN NULL ELSE link[w[j - 1]]
    BY <1>6, <2>3, <2>4
  <2>8. f[j] = IF f[j - 1] = NULL THEN NULL ELSE link[f[j - 1]]
    BY <1>2, <2>3, <2>4
  <2> QED BY <2>3, <2>6, <2>7, <2>8
<1>9. \A k \in 0..N : w[k] = f[k]
  BY <1>8
<1> QED BY <1>9

\* A list has no more members than the finite set they are taken from.
LEMMA ChainLength ==
  ASSUME NEW head, NEW link, NEW S, NEW B, S \subseteq B, IsFiniteSet(B),
         NEW n \in Nat, NEW s, InOrder(s, n, head, link, S)
  PROVE  n <= Cardinality(B)
<1>1. /\ IsFiniteSet(0..(n - 1))
      /\ Cardinality(0..(n - 1)) = IF 0 > n - 1 THEN 0 ELSE (n - 1) - 0 + 1
  BY FS_Interval
<1>2. Cardinality(0..(n - 1)) = n
  BY <1>1
<1>3. Cardinality(B) \in Nat
  BY FS_CardinalityType
<1>4. s \in [0..(n - 1) -> B]
  BY DEF InOrder
<1>5. ASSUME Cardinality(B) < n PROVE FALSE
  <2>1. \E x, y \in 0..(n - 1) : x # y /\ s[x] = s[y]
    BY <1>1, <1>2, <1>4, <1>5, FS_PigeonHole
  <2> QED BY <2>1 DEF InOrder
<1> QED BY <1>3, <1>5

\* A walk that may take as many links as there can be members ends, and meets
\* exactly the members.
LEMMA ChainWalk ==
  ASSUME NEW head, NEW link, NEW S, NULL \notin S, Chain(head, link, S),
         NEW B, S \subseteq B, IsFiniteSet(B)
  PROVE  /\ WalkEnds(head, link, Cardinality(B))
         /\ Walked(head, link, Cardinality(B)) = S
<1>0. PICK n \in Nat : \E s : InOrder(s, n, head, link, S)
  BY DEF Chain
<1>1. PICK s : InOrder(s, n, head, link, S)
  BY <1>0
<1> DEFINE N == Cardinality(B)
           w == Walk(head, link, N)
<1>2. N \in Nat /\ n <= N
  BY <1>1, ChainLength, FS_CardinalityType
<1>3. \A k \in 0..N : w[k] = IF k < n THEN s[k] ELSE NULL
  BY <1>1, <1>2, WalkInOrder
<1> HIDE DEF w, N
<1>4. \A i \in 0..(n - 1) : i \in 0..N /\ i < n
  BY <1>2
<1>5. w[N] = NULL
  BY <1>2, <1>3
<1>6. {w[k] : k \in 0..N} \ {NULL} = S
  <2>1. ASSUME NEW x \in S PROVE \E k \in 0..N : w[k] = x
    <3>1. PICK i \in 0..(n - 1) : s[i] = x
      BY <1>1 DEF InOrder
    <3> QED BY <1>3, <1>4, <3>1
  <2>2. ASSUME NEW k \in 0..N, w[k] # NULL PROVE w[k] \in S
    <3>1. k < n /\ w[k] = s[k]
      BY <1>3, <2>2
    <3>2. k \in 0..(n - 1)
      BY <1>2, <3>1
    <3> QED BY <1>1, <3>1, <3>2 DEF InOrder
  <2> QED BY <2>1, <2>2
<1> QED BY <1>5, <1>6 DEF WalkEnds, Walked, w, N

\* The list that a factory threads through an array of N blocks.
LEMMA ChainArray ==
  ASSUME NEW N \in Nat \ {0}, NEW link,
         \A i \in 0..(N - 1) : link[i] = IF i < N - 1 THEN i + 1 ELSE NULL
  PROVE  Chain(0, link, 0..(N - 1))
<1> DEFINE s == [i \in 0..(N - 1) |-> i]
<1>1. InOrder(s, N, 0, link, 0..(N - 1))
  <2>1. \A i \in 0..(N - 1) : i # N - 1 => i < N - 1 /\ i + 1 \in 0..(N - 1)
    OBVIOUS
  <2>2. 0 \in 0..(N - 1)
    OBVIOUS
  <2>3. ASSUME NEW i \in 0..(N - 1)
        PROVE  link[s[i]] = IF i = N - 1 THEN NULL ELSE s[i + 1]
    BY <2>1
  <2> QED BY <2>2, <2>3 DEF InOrder
<1> QED BY <1>1 DEF Chain
=============================================================================
