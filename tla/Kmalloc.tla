-------------------------------- MODULE Kmalloc --------------------------------
(***************************************************************************)
(* The kernel heap of mm/memory.c: kmalloc, kmalloc_create and kfree over  *)
(* alloc_pages and free_pages.  A cache hands out blocks of one size from  *)
(* a list of slabs; a slab is one page cut into such blocks, with a bitmap *)
(* of those in use.  The first slab of every cache is made by slab_init.   *)
(*                                                                         *)
(* Small sizes keep the slab's struct Slab and bitmap in the slab's page;  *)
(* large ones take them from the heap: struct Slab has 36 bytes, a block   *)
(* of the second size, the bitmap fits one of the first.  The heap is used *)
(* at boot and by the shell only, never by handlers: a call is one step.   *)
(***************************************************************************)
EXTENDS Integers, FiniteSets, SequencesExt

CONSTANTS Page,       \* numbers of the pages of the zone
          Size32, Size64, \* the two sizes the heap uses itself
          Large,      \* sizes of 8192 bytes and more; those from 1024 to 4096 are like
                      \* them but take a larger block for the bitmap
          BootSlab,  \* size -> the page of its first slab
          Count,      \* size -> blocks of a slab made by kmalloc_create
          BootCount, \* size -> blocks of its first slab: no header in it
          Freed       \* sizes of the blocks the kernel frees

Sizes == {Size32, Size64} \cup Large

ASSUME KmallocAssumption ==
    /\ Sizes \subseteq Nat \ {0}
    /\ Page \subseteq Nat /\ IsFiniteSet(Page)
    /\ Size32 # Size64 /\ {Size32, Size64} \cap Large = {}
    /\ BootSlab \in [Sizes -> Page]
    /\ \A s, t \in Sizes : s # t => BootSlab[s] # BootSlab[t]
    /\ Count \in [Sizes -> Nat \ {0}] /\ BootCount \in [Sizes -> Nat \ {0}]
    /\ \A s \in Sizes : Count[s] <= BootCount[s]
    /\ Freed \subseteq Sizes

Slots == 0..(CHOOSE n \in {BootCount[s] : s \in Sizes} :
                 \A s \in Sizes : BootCount[s] <= n)
Block == [size : Sizes, page : Page, index : Slots]
NoBlock == [size |-> 0, page |-> 0, index |-> 0]

VARIABLES heap,   \* the allocator's data, below
          live,   \* history: blocks the kernel holds
          meta,   \* history: blocks the heap holds for slabs of large sizes
          halted  \* a NULL that kmalloc_create does not check was written to

heapVars == <<heap, live, meta, halted>>

\* bits_map     pages in use           total_pages_link, page_free_count of
\* pool         slabs of a cache          the zone
\* color_map    blocks in use of a slab
\* free_count, using_count   of a slab
\* total_free, total_using   of a cache
HeapInit ==
    LET pages == {BootSlab[s] : s \in Sizes}
        SizeOf(p) == CHOOSE s \in Sizes : BootSlab[s] = p
    IN  heap = [bits_map |-> pages,
                total_pages_link |-> Cardinality(pages),
                page_free_count |-> Cardinality(Page \ pages),
                pool |-> [s \in Sizes |-> <<BootSlab[s]>>],
                color_count |-> [p \in Page |-> IF p \in pages
                                                THEN BootCount[SizeOf(p)] ELSE 0],
                color_map |-> [p \in Page |-> {}],
                free_count |-> [p \in Page |-> IF p \in pages
                                               THEN BootCount[SizeOf(p)] ELSE 0],
                using_count |-> [p \in Page |-> 0],
                total_free |-> BootCount,
                total_using |-> [s \in Sizes |-> 0]]
        /\ live = {} /\ meta = {}
        /\ halted = FALSE

-----------------------------------------------------------------------------
\* alloc_pages(ZONE_NORMAL, 1, 0): NULL when the zone has no page ...
OutOfPages(h) == h.page_free_count < 1

\* Mutant: the bitmap is not looked at.
MutLowestFree(h) == CHOOSE p \in Page : \A q \in Page : p <= q

\* ... or the lowest free one, which is taken, and page_init.
LowestFree(h) == CHOOSE p \in Page \ h.bits_map :
                     \A q \in Page \ h.bits_map : p <= q

TakePage(h, p) ==
    [h EXCEPT !.bits_map = @ \cup {p},
              !.page_free_count = @ - 1,
              !.total_pages_link = @ + 1]

\* page_clean and free_pages(page, 1).
ReturnPage(h, p) ==
    [h EXCEPT !.bits_map = @ \ {p},
              !.page_free_count = @ + 1,
              !.total_pages_link = @ - 1]

\* The rest of kmalloc_create, and of kmalloc: a slab with page p is added at
\* the end of the list of its cache.
AddSlab(h, s, p) ==
    [h EXCEPT !.pool[s] = Append(@, p),
              !.color_count[p] = Count[s],
              !.color_map[p] = {},
              !.free_count[p] = Count[s], !.using_count[p] = 0,
              !.total_free[s] = @ + Count[s]]

\* The walk over the slabs of a cache that has a free block.
SlabFor(h, s) ==
    LET l == h.pool[s]
        k == CHOOSE i \in 1..Len(l) :
                 h.free_count[l[i]] # 0 /\ \A j \in 1..(i - 1) : h.free_count[l[j]] = 0
    IN  l[k]

\* The first clear bit of the bitmap.
SlotFor(h, p) == CHOOSE j \in 0..(h.color_count[p] - 1) :
                     /\ j \notin h.color_map[p]
                     /\ \A i \in 0..(j - 1) : i \in h.color_map[p]

\* Mutant: total_free is not counted down.
MutTakeBlock(h, s, p, j) ==
    [h EXCEPT !.color_map[p] = @ \cup {j},
              !.using_count[p] = @ + 1, !.free_count[p] = @ - 1,
              !.total_using[s] = @ + 1]

\* Block j of slab p is handed out.
TakeBlock(h, s, p, j) ==
    [h EXCEPT !.color_map[p] = @ \cup {j},
              !.using_count[p] = @ + 1, !.free_count[p] = @ - 1,
              !.total_free[s] = @ - 1, !.total_using[s] = @ + 1]

\* A call's outcome: the heap, the block (NoBlock for NULL), the blocks the
\* heap took for itself, and whether it wrote to NULL.
Outcome(h, b, m, bad) == [heap |-> h, block |-> b, meta |-> m, bad |-> bad]

FromCache(h, s, m) ==
    LET p == SlabFor(h, s)
        j == SlotFor(h, p)
    IN  Outcome(TakeBlock(h, s, p, j), [size |-> s, page |-> p, index |-> j], m, FALSE)

\* kmalloc of a small size.
KmallocSmall(h, s) ==
    IF h.total_free[s] # 0 THEN FromCache(h, s, {})
    ELSE IF OutOfPages(h) THEN Outcome(h, NoBlock, {}, FALSE)
    ELSE LET p == LowestFree(h) IN FromCache(AddSlab(TakePage(h, p), s, p), s, {})

\* kmalloc of a large size: kmalloc_create takes the page, then struct Slab and
\* the bitmap, and writes to both unchecked.
KmallocLarge(h, s) ==
    IF h.total_free[s] # 0 THEN FromCache(h, s, {})
    ELSE IF OutOfPages(h) THEN Outcome(h, NoBlock, {}, FALSE)
    ELSE LET p == LowestFree(h)
             slab == KmallocSmall(TakePage(h, p), Size64)
             map == KmallocSmall(slab.heap, Size32)
         IN  IF slab.block = NoBlock \/ map.block = NoBlock
               THEN Outcome(h, NoBlock, {}, TRUE)
               ELSE FromCache(AddSlab(map.heap, s, p), s, {slab.block, map.block})

Kmalloc(h, s) == IF s \in Large THEN KmallocLarge(h, s) ELSE KmallocSmall(h, s)

\* Mutant: the slab is not looked for.
MutFound(h, p) == Head(h.pool[Size32])

\* kfree looks for the block's page in the first cache only, whose first slab
\* it takes when none has that page; an index beyond its bitmap is lost here,
\* and flips a bit of other memory in the kernel.
Found(h, p) == IF p \in Range(h.pool[Size32]) THEN p ELSE Head(h.pool[Size32])

Flip(S, j) == IF j \in S THEN S \ {j} ELSE S \cup {j}

\* An empty slab is given up when half as many blocks again are free.
GiveUp(h, p) ==
    /\ h.using_count[p] = 0
    /\ h.total_free[Size32] >= (h.color_count[p] * 3) \div 2
    /\ p # Head(h.pool[Size32])

Kfree(h, b) ==
    LET p == Found(h, b.page)
        g == [h EXCEPT !.color_map[p] = IF p = b.page THEN Flip(@, b.index) ELSE @,
                       !.free_count[p] = @ + 1, !.using_count[p] = @ - 1,
                       !.total_free[Size32] = @ + 1, !.total_using[Size32] = @ - 1]
    IN  IF GiveUp(g, p)
          THEN ReturnPage([g EXCEPT !.pool[Size32] = RemoveFirst(@, p),
                                    !.total_free[Size32] = @ - g.color_count[p],
                                    !.color_count[p] = 0, !.free_count[p] = 0],
                          p)
          ELSE g

-----------------------------------------------------------------------------
kmalloc(s) ==
    /\ ~halted
    /\ LET o == Kmalloc(heap, s) IN
           /\ heap' = o.heap
           /\ live' = IF o.block = NoBlock THEN live ELSE live \cup {o.block}
           /\ meta' = meta \cup o.meta
           /\ halted' = o.bad

kfree(b) ==
    /\ ~halted
    /\ b.size \in Freed
    /\ heap' = Kfree(heap, b)
    /\ live' = live \ {b}
    /\ UNCHANGED <<meta, halted>>

HeapNext == \/ \E s \in Sizes : kmalloc(s)
        \/ \E b \in live : kfree(b)

HeapSpec == HeapInit /\ [][HeapNext]_heapVars

-----------------------------------------------------------------------------
Slabs(s) == Range(heap.pool[s])

\* Types, and the pages of the lists are slabs.
HeapTypeOK ==
    /\ heap.bits_map \subseteq Page
    /\ heap.page_free_count \in Nat /\ heap.total_pages_link \in Nat
    /\ heap.pool \in [Sizes -> Seq(Page)]
    /\ \A f \in {heap.color_count, heap.free_count, heap.using_count} :
           f \in [Page -> Nat]
    /\ heap.color_map \in [Page -> SUBSET Slots]
    /\ heap.total_free \in [Sizes -> Nat] /\ heap.total_using \in [Sizes -> Nat]
    /\ live \subseteq Block /\ meta \subseteq Block
    /\ halted \in BOOLEAN

\* The pages in use are those of the slabs, each of one cache, and the zone's
\* counters count them.
PagesAccounted ==
    /\ heap.bits_map = UNION {Slabs(s) : s \in Sizes}
    /\ heap.page_free_count = Cardinality(Page \ heap.bits_map)
    /\ heap.total_pages_link = Cardinality(heap.bits_map)
    /\ \A s \in Sizes : IsInjective(heap.pool[s])
    /\ \A s, t \in Sizes : s # t => Slabs(s) \cap Slabs(t) = {}

\* The counters of slabs and caches say what the bitmaps say: kmalloc, which
\* trusts total_free, then free_count, then the bitmap, never finds nothing
\* where it was told there is something.  (Pages are accounted for, too, and
\* every variable keeps its type.)
CountersMatchMaps ==
    /\ HeapTypeOK
    /\ PagesAccounted
    /\ \A s \in Sizes :
           /\ \A p \in Slabs(s) :
                  /\ heap.color_map[p] \subseteq 0..(heap.color_count[p] - 1)
                  /\ heap.using_count[p] = Cardinality(heap.color_map[p])
                  /\ heap.free_count[p] = heap.color_count[p] - heap.using_count[p]
           /\ heap.total_free[s] = MapThenSumSet(LAMBDA p : heap.free_count[p], Slabs(s))
           /\ heap.total_using[s] = MapThenSumSet(LAMBDA p : heap.using_count[p], Slabs(s))

\* The bitmaps mark exactly the blocks that the kernel and the heap hold.
NoLeak == {b \in Block : b.page \in Slabs(b.size) /\ b.index \in heap.color_map[b.page]}
              = live \cup meta

\* The heap implements the allocator.
Allocator == INSTANCE BlockAllocator WITH used <- live \cup meta
ImplementsAllocator == Allocator!Spec
=============================================================================
