-------------------------------- MODULE Heap --------------------------------
(***************************************************************************)
(* What include/allo.h promises the client of every allocator, whatever    *)
(* its strategy: a block handed out lies inside the allocator's memory, is *)
(* aligned, and shares no byte with another live block; a failed call      *)
(* (NULL) changes nothing, so it is a stuttering step here.                *)
(*                                                                         *)
(* live[a] is the size the client asked for when it was given the block at *)
(* address a, and 0 when no live block starts at a.                        *)
(***************************************************************************)
EXTENDS Integers

CONSTANTS
  Addr,     \* addresses a block may start at, as offsets
  Request,  \* sizes the clients ask for
  Extent,   \* number of bytes the allocator owns
  Align     \* alignment of every block

VARIABLE live

Init == live = [a \in Addr |-> 0]

\* [a, a+m) and [b, b+n) share no byte.
Apart(a, m, b, n) == a + m <= b \/ b + n <= a

\* [a, a+n) may be handed out while the blocks at the addresses in Except go.
Vacant(a, n, Except) ==
  /\ a % Align = 0
  /\ a + n <= Extent
  /\ \A b \in Addr \ Except : live[b] = 0 \/ Apart(a, n, b, live[b])

allo_alloc ==
  \E a \in Addr, n \in Request \ {0} :
    /\ Vacant(a, n, {})
    /\ live' = [live EXCEPT ![a] = n]

allo_free ==
  \E a \in Addr :
    /\ live[a] # 0
    /\ live' = [live EXCEPT ![a] = 0]

\* In place (b = a), or to a block that shares no byte with the old one, from
\* which allo_memcpy then copies.
allo_realloc ==
  \E a, b \in Addr, n \in Request \ {0} :
    /\ live[a] # 0
    /\ Vacant(b, n, {a})
    /\ a = b \/ Apart(a, live[a], b, n)
    /\ live' = [live EXCEPT ![a] = 0, ![b] = n]

allo_destroy == live' = [a \in Addr |-> 0]

Next == allo_alloc \/ allo_free \/ allo_realloc \/ allo_destroy

Spec == Init /\ [][Next]_live
=============================================================================
