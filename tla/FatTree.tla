------------------------------- MODULE FatTree -------------------------------
(***************************************************************************)
(* What a FAT volume holds, as a tree of files: used to state what the     *)
(* calls of FatFs require and promise.  d is a disk, and g the geometry    *)
(* that its boot record gives.                                             *)
(***************************************************************************)
EXTENDS FatVolume, FiniteSetsExt

Min2(a, b) == IF a < b THEN a ELSE b

FatOf(d, g, c) == d[g.fatbase + c \div K][c % K]

\* The clusters from c on, at most n of them.
RECURSIVE ChainOf(_, _, _, _)
ChainOf(d, g, c, n) ==
    IF n = 0 \/ c \notin 2..(g.n_fatent - 1) THEN <<>>
    ELSE <<c>> \o ChainOf(d, g, FatOf(d, g, c), n - 1)

\* The sectors of a directory or file, in order.
Sectors(d, g, c) ==
    IF c = 0 /\ g.n_rootdir > 0 THEN [i \in 1..(g.n_rootdir \div K) |-> g.dirbase + i - 1]
    ELSE With(ChainOf(d, g, IF c = 0 THEN g.dirbase ELSE c, g.n_fatent), LAMBDA ch :
              [i \in 1..(Len(ch) * g.csize) |->
                  (ch[(i - 1) \div g.csize + 1] - 2) * g.csize + g.database + ((i - 1) % g.csize)])

\* The places of the cells from cluster c on, in order.
Places(d, g, c) ==
    With(Sectors(d, g, c), LAMBDA x :
         [i \in 1..(Len(x) * K) |-> <<x[(i - 1) \div K + 1], (i - 1) % K>>])

\* The places of the entries in a directory, up to the end mark.
Entries(d, g, c) ==
    With(Places(d, g, c), LAMBDA p :
         {p[i] : i \in {j \in DOMAIN p :
             /\ \A k \in 1..j : d[p[k][1]][p[k][2]] # Zero
             /\ d[p[j][1]][p[j][2]].name \notin Dots \cup {"deleted"}}})

\* What the entry at place x describes.
Node(d, g, x) ==
    LET e == d[x[1]][x[2]]
    IN  With(Places(d, g, e.clust), LAMBDA p :
        [dir |-> "DIR" \in e.attr, rdo |-> "RDO" \in e.attr, clust |-> e.clust, at |-> x,
         data |-> IF e.clust = 0 THEN <<>>
                  ELSE [i \in 1..Min2(e.size, Len(p)) |-> d[p[i][1]][p[i][2]]]])

\* All files and directories below the one at cluster c, by their paths.
RECURSIVE Below(_, _, _, _, _)
Below(d, g, c, path, depth) ==
    With(Entries(d, g, c), LAMBDA entries :
    With([p \in {Append(path, d[x[1]][x[2]].name) : x \in entries} |->
             Node(d, g, CHOOSE x \in entries : d[x[1]][x[2]].name = p[Len(p)])], LAMBDA here :
         FoldSet(LAMBDA p, acc : Below(d, g, here[p].clust, p, depth - 1) @@ acc, here,
                 {p \in DOMAIN here : here[p].dir /\ depth > 0})))
=============================================================================
