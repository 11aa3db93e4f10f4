------------------------------- MODULE MCKmalloc -------------------------------
(* Two small sizes and a large one, slabs of one to three blocks, and six      *)
(* pages, three of them the first slabs.                                       *)
EXTENDS Kmalloc
MCPage == 0..5
MCLarge == {32768}
MCBootSlab == (32 :> 0) @@ (64 :> 1) @@ (32768 :> 2)
MCCount == (32 :> 2) @@ (64 :> 1) @@ (32768 :> 1)
MCBootCount == (32 :> 3) @@ (64 :> 2) @@ (32768 :> 1)
MCFreed == {32}
MCFreedAny == {32, 64}
=============================================================================
