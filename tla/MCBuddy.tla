------------------------------ MODULE MCBuddy ------------------------------
(***************************************************************************)
(* The buddy allocator at the size of its tests' smallest buffers: 256     *)
(* bytes in eight blocks of min_block_size, and a request of every kind:   *)
(* nothing, one byte, one byte more than a block, no power of two, the     *)
(* buffer, too large.                                                      *)
(***************************************************************************)
EXTENDS Buddy
=============================================================================
