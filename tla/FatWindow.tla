------------------------------ MODULE FatWindow ------------------------------
(***************************************************************************)
(* The bottom of FatFs (src/fs/Fatfs_f8a/ff.c): the sector window over the  *)
(* disk_read and disk_write of diskio.c, the FAT, and the chains in it.     *)
(*                                                                         *)
(* The functions of ff.c are operators on a record s of all they work on:  *)
(*   disk        what the card holds, sector by sector                     *)
(*   fs, fsid    the FATFS object, and the number of mounts so far         *)
(*   dj, fp      the DIR object of the call, and its FIL object            *)
(*   res, ret    the result, and the value a function returns beside it    *)
(*   io, fault   the sectors transferred by the call so far, and which of  *)
(*               them fails, or loses the power                            *)
(* A sector is a function on its cells: one FAT entry each, in the FAT.     *)
(***************************************************************************)
EXTENDS Integers, Sequences, FiniteSets, TLC

CONSTANT K          \* cells in a sector
ASSUME KAssumption == K \in Nat \ {0}

EOC == 1000000      \* 0x0FFFFFFF, the last link of a chain
Err == 2000000      \* 0xFFFFFFFF, an error, or a count that is not known

Cell == 0..(K - 1)

Set(s, r) == [s EXCEPT !.res = r]

\* Op(v), v evaluated once: TLC would evaluate the argument of an operator, or
\* a LET, again at each of its uses in an action.  What a call of ff.c leaves is
\* named in this way.
With(v, Op(_)) == CHOOSE r \in {Op(x) : x \in {v}} : TRUE

\* Op, if nothing has failed so far.
Then(s, Op(_)) == With(s, LAMBDA t : IF t.res = "OK" THEN Op(t) ELSE t)

-----------------------------------------------------------------------------
\* The operation at hand transfers n sectors, and the fault is in one of them.
Hit(s, kinds, n) == s.fault.kind \in kinds /\ s.fault.at \in (s.io + 1)..(s.io + n)

\* How many of n sectors reach the card.
Kept(s, n) ==
    IF Hit(s, {"write", "power"}, n) THEN s.fault.at - s.io - 1
    ELSE IF s.fault.kind = "power" /\ s.fault.at <= s.io THEN 0 ELSE n

\* Writes the sectors of the sequence data, from the given one on.
disk_write(s, data, sector) ==
    LET n == Len(data)
    IN  [s EXCEPT !.io = @ + n,
                  !.disk = [x \in DOMAIN @ |-> IF x \in sector..(sector + Kept(s, n) - 1)
                                              THEN data[x - sector + 1] ELSE @[x]],
                  !.fault.met = @ \/ Hit(s, {"write", "power"}, n),
                  !.res = IF Hit(s, {"write"}, n) THEN "DISK_ERR" ELSE "OK"]

\* The caller takes the data from s.disk, also when the read fails: an error
\* is noticed after the data was stored (Read_Mult_Block).
disk_read(s, n) ==
    [s EXCEPT !.io = @ + n, !.fault.met = @ \/ Hit(s, {"read"}, n),
              !.res = IF Hit(s, {"read"}, n) THEN "DISK_ERR" ELSE "OK"]

\* A sector of the FAT is repeated in its copy; an error there is ignored.
Mirror(s, sector) ==
    IF sector < s.fs.fatbase + s.fs.fsize /\ s.fs.n_fats > 1
    THEN Set(disk_write(s, <<s.fs.win>>, sector + s.fs.fsize), "OK") ELSE s

WriteBack(s) ==
    Then(disk_write(s, <<s.fs.win>>, s.fs.winsect),
         LAMBDA t : Mirror([t EXCEPT !.fs.wflag = FALSE], t.fs.winsect))

Load(s, sector) ==
    With(disk_read(s, 1), LAMBDA r :
         [r EXCEPT !.fs.win = r.disk[sector],
                   !.fs.winsect = IF r.res = "OK" THEN sector ELSE @])

\* Sector 0 only writes a dirty window back.
move_window(s, sector) ==
    IF s.fs.winsect = sector THEN Set(s, "OK")
    ELSE Then(IF s.fs.wflag THEN WriteBack(s) ELSE Set(s, "OK"),
              LAMBDA t : IF sector = 0 THEN t ELSE Load(t, sector))

FsInfo(fs) == [i \in Cell |-> <<fs.free_clust, fs.last_clust>>]

\* Mutant: the window is not written back.
MutSync(s) == Set(s, "OK")

\* disk_ioctl always succeeds.
sync(s) ==
    Then(move_window(s, 0), LAMBDA w :
         IF w.fs.fs_type = "FAT32" /\ w.fs.fsi_flag
         THEN Set(disk_write([w EXCEPT !.fs.winsect = 0, !.fs.win = FsInfo(w.fs),
                                       !.fs.fsi_flag = FALSE],
                             <<FsInfo(w.fs)>>, w.fs.fsi_sector), "OK")
         ELSE w)

-----------------------------------------------------------------------------
IsClust(s, c) == c \in 2..(s.fs.n_fatent - 1)

clust2sect(s, c) == IF IsClust(s, c) THEN (c - 2) * s.fs.csize + s.fs.database ELSE 0

FatSect(s, c) == s.fs.fatbase + c \div K

get_fat(s, c) ==
    IF ~IsClust(s, c) THEN [s EXCEPT !.ret = 1]
    ELSE With(move_window(s, FatSect(s, c)), LAMBDA m :
              [m EXCEPT !.ret = IF m.res = "OK" THEN m.fs.win[c % K] ELSE Err])

put_fat(s, c, val) ==
    IF ~IsClust(s, c) THEN Set(s, "INT_ERR")
    ELSE With(move_window(s, FatSect(s, c)), LAMBDA m :
              [m EXCEPT !.fs.win = IF m.res = "OK" THEN [@ EXCEPT ![c % K] = val] ELSE @,
                        !.fs.wflag = TRUE])

\* free_clust changes by n, when it is known.
Count(s, n) ==
    IF s.fs.free_clust = Err THEN s
    ELSE [s EXCEPT !.fs.free_clust = @ + n, !.fs.fsi_flag = TRUE]

\* The result of a function that returned cluster c.
ClustRes(c, full) ==
    CASE c = 0 -> full [] c = 1 -> "INT_ERR" [] c = Err -> "DISK_ERR" [] OTHER -> "OK"
Judged(s, full) == With(s, LAMBDA t : Set(t, ClustRes(t.ret, full)))

\* What is left of s after n turns of a loop.
Loop(s, n, Turn(_, _)) ==
    LET after[i \in 0..n] == IF i = 0 THEN s ELSE Turn(after[i - 1], i) IN after[n]

\* Frees the cluster ret, and goes on to the one that it was linked to.
FreeTurn(s, i) ==
    IF s.res # "OK" \/ ~IsClust(s, s.ret) THEN s
    ELSE With(get_fat(s, s.ret), LAMBDA g :
         IF g.ret \in {0, 1, Err} THEN Set(g, ClustRes(g.ret, "OK"))
         ELSE Then(put_fat(g, s.ret, 0), LAMBDA t : Count(t, 1)))

\* A chain has fewer clusters than the FAT has entries.
remove_chain(s, c) ==
    IF IsClust(s, c) THEN Loop(Set([s EXCEPT !.ret = c], "OK"), s.fs.n_fatent, FreeTurn)
    ELSE Set(s, "INT_ERR")

\* The i-th cluster after scl, round the FAT.
Nth(s, scl, i) ==
    IF scl + i < s.fs.n_fatent THEN scl + i ELSE scl + i - s.fs.n_fatent + 2

\* Returns the first free cluster after scl, round the FAT to scl; 0 if none.
NextFree(s, scl) ==
    Loop([s EXCEPT !.ret = 0], s.fs.n_fatent - 2, LAMBDA t, i :
         IF t.ret # 0 THEN t
         ELSE With(get_fat(t, Nth(s, scl, i)), LAMBDA g :
              IF g.ret \in {1, Err} THEN g
              ELSE [g EXCEPT !.ret = IF @ = 0 THEN Nth(s, scl, i) ELSE 0]))

\* Cluster n becomes the end of the chain whose last cluster is c, or its start.
Link(s, c, n) ==
    With(Then(put_fat(s, n, EOC), LAMBDA e : IF c # 0 THEN put_fat(e, c, n) ELSE e), LAMBDA l :
         IF l.res = "OK" THEN Count([l EXCEPT !.fs.last_clust = n, !.ret = n], -1)
         ELSE [l EXCEPT !.ret = IF l.res = "DISK_ERR" THEN Err ELSE 1])

create_chain(s, c) ==
    LET scl == IF c # 0 THEN c
               ELSE IF s.fs.last_clust \in 1..(s.fs.n_fatent - 1) THEN s.fs.last_clust ELSE 1
    IN  With(IF c = 0 THEN [s EXCEPT !.ret = EOC] ELSE get_fat(s, c), LAMBDA g :
             IF g.ret < 2 THEN [g EXCEPT !.ret = 1]
             ELSE IF g.ret < s.fs.n_fatent THEN g
             ELSE With(NextFree(g, scl), LAMBDA f :
                       IF f.ret \in {0, 1, Err} THEN f ELSE Link(f, c, f.ret)))
-----------------------------------------------------------------------------
\* What the functions above keep, see Sound.
ClustersOf(g) == 2..(g.n_fatent - 1)

\* The sectors of the FAT, and those of its copy.
FatArea(g) == g.fatbase..(g.fatbase + g.fsize - 1)
Copies(g) ==
    IF g.n_fats > 1 THEN (g.fatbase + g.fsize)..(g.fatbase + g.fsize + g.fsize - 1) ELSE {}

\* What the boot record promises of a volume: the FAT has an entry for each
\* cluster, and lies on the card, behind the boot record and the FSInfo sector.
Fits(g, sectors) ==
    /\ g.n_fatent \in Nat /\ 2 <= g.n_fatent /\ g.n_fatent <= EOC
    /\ g.fatbase \in Nat \ {0} /\ g.fsize \in Nat \ {0} /\ g.n_fats \in {1, 2}
    /\ \A c \in ClustersOf(g) : c \div K < g.fsize
    /\ FatArea(g) \cup Copies(g) \subseteq sectors /\ 0 \in sectors /\ sectors \subseteq Nat
    /\ g.fs_type = "FAT32" => g.fsi_sector \in 1..(g.fatbase - 1)

\* The card as it is, and with the dirty window: the copies of the FAT apart.
Card(s) == [x \in DOMAIN s.disk \ Copies(s.fs) |-> s.disk[x]]
Shown(s) ==
    [x \in DOMAIN s.disk \ Copies(s.fs) |->
        IF s.fs.wflag /\ x = s.fs.winsect THEN s.fs.win ELSE s.disk[x]]

\* The FAT on one of them.
FatOn(d, g) == [c \in ClustersOf(g) |-> d[g.fatbase + c \div K][c % K]]
HasCells(d, g) == \A x \in FatArea(g) : DOMAIN d[x] = Cell
CardFat(s) == FatOn(Card(s), s.fs)
ShownFat(s) == FatOn(Shown(s), s.fs)

\* What the functions find in the record.
Fields(s) ==
    /\ {"disk", "fs", "res", "ret", "io", "fault"} \subseteq DOMAIN s
    /\ {"fatbase", "fsize", "n_fats", "n_fatent", "free_clust", "last_clust",
        "win", "winsect", "wflag", "fs_type", "fsi_flag", "fsi_sector"} \subseteq DOMAIN s.fs
    /\ {"kind", "at", "met"} \subseteq DOMAIN s.fault
    /\ s.fault.kind \in {"none", "read", "write", "power"} /\ s.fault.at \in Nat /\ s.io \in Nat
    /\ s.fault.met \in BOOLEAN /\ s.fs.wflag \in BOOLEAN

Volume(s) ==
    /\ Fields(s) /\ Fits(s.fs, DOMAIN s.disk)
    /\ s.disk = [x \in DOMAIN s.disk |-> s.disk[x]]

\* The power is lost: what is in memory does not count any more.
Lost(s) == s.fault.kind = "power" /\ s.fault.at <= s.io

\* A sector could not be read.
Sick(s) == s.fault.kind = "read" /\ s.fault.met

\* A dirty window goes to the FAT, or behind it.
Aimed(s) ==
    /\ s.fs.winsect \in DOMAIN s.disk
    /\ s.fs.wflag => s.fs.winsect >= s.fs.fatbase /\ s.fs.winsect \notin Copies(s.fs)

\* The window holds its sector, or what is to be written there.
Healthy(s) ==
    /\ Aimed(s) /\ ~Lost(s) /\ ~Sick(s)
    /\ ~s.fs.wflag /\ s.fs.winsect # 0 => s.fs.win = s.disk[s.fs.winsect]

\* In the FAT F no two clusters are linked to the same one, none is linked to a
\* free one, and no entry holds what the functions take for an error.
Chains(F) ==
    /\ \A c \in DOMAIN F : F[c] \in Nat \ {1, Err}
    /\ \A c, d \in DOMAIN F : F[c] = F[d] /\ F[c] \in DOMAIN F => c = d
    /\ \A c \in DOMAIN F : F[c] \in DOMAIN F => F[F[c]] # 0

\* The chains are sound on the card, and in what the program sees until the power
\* is lost.  That no sector failed to be read is needed: put_fat marks the window
\* dirty even then, with the cells of one sector and the number of another.
Sound(s) ==
    /\ Volume(s) /\ Aimed(s) /\ s.fault.kind # "read"
    /\ Chains(CardFat(s))
    /\ Lost(s) \/ (Healthy(s) /\ HasCells(Shown(s), s.fs) /\ Chains(ShownFat(s)))
=============================================================================
