------------------------------- MODULE Lists --------------------------------
(***************************************************************************)
(* Singly linked lists as the allocators keep them: a head, and a link in  *)
(* each member.  link[x] is the member after x.                            *)
(***************************************************************************)
EXTENDS Integers

NULL == -1

\* The k-th member from the head, NULL past the end; n bounds the walk.
Walk(head, link, n) ==
  LET w[k \in 0..n] ==
        IF k = 0 THEN head
        ELSE IF w[k - 1] = NULL THEN NULL ELSE link[w[k - 1]]
  IN w

\* The members the walk meets.
Walked(head, link, n) ==
  LET w == Walk(head, link, n)
  IN {w[k] : k \in 0..n} \ {NULL}

\* The walk ends within n links.
WalkEnds(head, link, n) == Walk(head, link, n)[n] = NULL
=============================================================================
