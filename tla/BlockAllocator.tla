---------------------------- MODULE BlockAllocator ----------------------------
(***************************************************************************)
(* What a memory allocator promises: the blocks in use never overlap.  A   *)
(* block is a slot of a page that is cut into blocks of one size.  Module  *)
(* Kmalloc implements it.                                                  *)
(***************************************************************************)
CONSTANT Block  \* records with fields size, page, index

VARIABLE used   \* the blocks in use

\* Two different blocks share memory.  Blocks of two sizes on one page may.
Overlap(a, b) == a.page = b.page /\ (a.size # b.size \/ a.index = b.index)

Init == used = {}

\* Blocks are handed out that overlap neither one in use nor each other.
Allocate ==
    /\ used \subseteq used' /\ used' \subseteq Block
    /\ \A a \in used' \ used : \A b \in used' \ {a} : ~Overlap(a, b)

Free == used' \subseteq used

Next == Allocate \/ Free

Spec == Init /\ [][Next]_used
=============================================================================
