------------------------------ MODULE FatVolume ------------------------------
(***************************************************************************)
(* The lower half of FatFs (src/fs/Fatfs_f8a/ff.c) above the FAT: the        *)
(* directories, the paths, and the mounting of a volume.                    *)
(*                                                                         *)
(* A cell of a directory is an entry, and one of a file a unit of data.     *)
(* Code page 1: a name is a model value.                                    *)
(***************************************************************************)
EXTENDS FatWindow

CONSTANT Zero       \* what a cell cleared by mem_set holds

Null == -1          \* dj->dir of the directory that a path starts from

Blank == [i \in Cell |-> Zero]
NoEntry == [name |-> "deleted", attr |-> {}, clust |-> 0, size |-> 0]
Dots == {".", ".."}
Illegal == "?"      \* what create_name takes for no name

\* A FATFS object that is not mounted.
Unmounted == [fs_type |-> "none"]

-----------------------------------------------------------------------------
\* Directories.  s.dj.dir is a cell of the window: what *dj->dir is depends on
\* what the window holds.
EntryAt(s) == s.fs.win[s.dj.dir]

\* Makes the DIR object point to entry i of the cluster c, or of the table.
Seek(s, c, base, i) ==
    Set([s EXCEPT !.dj.clust = c, !.dj.sect = base + i \div K, !.dj.dir = i % K], "OK")

RECURSIVE SeekIn(_, _, _)
SeekIn(s, c, i) ==
    IF i < K * s.fs.csize THEN Seek(s, c, clust2sect(s, c), i)
    ELSE With(get_fat(s, c), LAMBDA g :
         IF g.ret = Err THEN Set(g, "DISK_ERR")
         ELSE IF ~IsClust(g, g.ret) THEN Set(g, "INT_ERR")
         ELSE SeekIn(g, g.ret, i - K * s.fs.csize))

dir_sdi(s, idx) ==
    LET d == [s EXCEPT !.dj.index = idx]
        c == IF s.dj.sclust = 0 /\ s.fs.fs_type = "FAT32" THEN s.fs.dirbase ELSE s.dj.sclust
    IN  IF c = 1 \/ c >= s.fs.n_fatent THEN Set(d, "INT_ERR")
        ELSE IF c # 0 THEN SeekIn(d, c, idx)
        ELSE IF idx >= s.fs.n_rootdir THEN Set([d EXCEPT !.dj.clust = 0], "INT_ERR")
        ELSE Seek(d, 0, s.fs.dirbase, idx)

\* Writes the window, cleared, to the sectors from winsect on, and returns there.
RECURSIVE Clear(_, _)
Clear(s, n) ==
    IF n = 0 THEN Set([s EXCEPT !.fs.winsect = @ - s.fs.csize], "OK")
    ELSE Then(move_window([s EXCEPT !.fs.wflag = TRUE], 0),
              LAMBDA t : Clear([t EXCEPT !.fs.winsect = @ + 1], n - 1))

\* Mutant: the new cluster is not cleared.
MutStretch(s) == Judged(create_chain(s, s.dj.clust), "DENIED")

\* Adds a cleared cluster to the directory, and returns it.
Stretch(s) ==
    Then(Judged(create_chain(s, s.dj.clust), "DENIED"), LAMBDA t :
    Then(move_window(t, 0), LAMBDA u :
         Clear([u EXCEPT !.fs.win = Blank, !.fs.winsect = clust2sect(u, u.ret)], u.fs.csize)))

\* The DIR object goes on to entry i, which starts a sector.
NextSector(s, i, stretch) ==
    With([s EXCEPT !.dj.sect = @ + 1], LAMBDA t :
    IF s.dj.clust = 0 THEN Set(t, IF i >= s.fs.n_rootdir THEN "NO_FILE" ELSE "OK")
    ELSE IF (i \div K) % s.fs.csize # 0 THEN Set(t, "OK")
    ELSE Then(With(get_fat(t, s.dj.clust), LAMBDA g :
                   IF g.ret = Err \/ g.ret < s.fs.n_fatent THEN Judged(g, "INT_ERR")
                   ELSE IF stretch THEN Stretch(g) ELSE Set(g, "NO_FILE")),
              LAMBDA u : [u EXCEPT !.dj.clust = u.ret, !.dj.sect = clust2sect(u, u.ret)]))

dir_next(s, stretch) ==
    With(s.dj.index + 1, LAMBDA i :
    IF s.dj.sect = 0 THEN Set(s, "NO_FILE")
    ELSE Then(IF i % K = 0 THEN NextSector(s, i, stretch) ELSE Set(s, "OK"),
              LAMBDA t : [t EXCEPT !.dj.index = i, !.dj.dir = i % K]))

\* The first entry from the DIR object on for which Found is true.
RECURSIVE Scan(_, _, _)
Scan(s, Found(_), stretch) ==
    Then(move_window(s, s.dj.sect), LAMBDA t :
         IF Found(EntryAt(t)) THEN t
         ELSE IF EntryAt(t) = Zero THEN Set(t, "NO_FILE")
         ELSE Then(dir_next(t, stretch), LAMBDA u : Scan(u, Found, stretch)))

IsFree(e) == IF e = Zero THEN TRUE ELSE e.name = "deleted"
Named(e, n) == IF e = Zero THEN FALSE ELSE e.name = n

dir_find(s) ==
    Then(dir_sdi(s, 0), LAMBDA t : Scan(t, LAMBDA e : Named(e, t.dj.fn), FALSE))

dir_read(s) ==
    With(IF s.dj.sect = 0 THEN Set(s, "NO_FILE") ELSE Scan(s, LAMBDA e : ~IsFree(e), FALSE),
         LAMBDA r : IF r.res = "OK" THEN r ELSE [r EXCEPT !.dj.sect = 0])

dir_register(s) ==
    Then(dir_sdi(s, 0), LAMBDA t :
    Then(Scan(t, IsFree, TRUE), LAMBDA u :
    Then(move_window(u, u.dj.sect), LAMBDA v :
         [v EXCEPT !.fs.win[v.dj.dir] = [NoEntry EXCEPT !.name = v.dj.fn],
                   !.fs.wflag = TRUE])))

dir_remove(s) ==
    Then(dir_sdi(s, s.dj.index), LAMBDA t :
    Then(move_window(t, t.dj.sect), LAMBDA u :
         [u EXCEPT !.fs.win[u.dj.dir].name = "deleted", !.fs.wflag = TRUE]))

-----------------------------------------------------------------------------
\* Follows the names of a path: ends at the entry of the last, or with
\* "NO_FILE" where it would be.  A dot that is not found is the root directory.
RECURSIVE Follow(_, _)
Follow(s, names) ==
    LET last == Len(names) = 1
        root(f) == Set([f EXCEPT !.dj.sclust = 0, !.dj.dir = Null], "OK")
    IN  IF Head(names) = Illegal THEN Set(s, "INVALID_NAME")
        ELSE With(dir_find([s EXCEPT !.dj.fn = Head(names)]), LAMBDA f :
             IF f.res = "NO_FILE" /\ Head(names) \in Dots
             THEN IF last THEN root(f) ELSE Follow(root(f), Tail(names))
             ELSE IF f.res = "NO_FILE" /\ ~last THEN Set(f, "NO_PATH")
             ELSE IF f.res # "OK" \/ last THEN f
             ELSE IF "DIR" \notin EntryAt(f).attr THEN Set(f, "NO_PATH")
             ELSE Follow([f EXCEPT !.dj.sclust = EntryAt(f).clust], Tail(names)))

follow_path(s, path) ==
    With([s EXCEPT !.dj.sclust = IF path.abs THEN 0 ELSE s.fs.cdir, !.dj.fn = "none"], LAMBDA d :
         IF path.names = <<>> THEN [dir_sdi(d, 0) EXCEPT !.dj.dir = Null]
         ELSE Follow(d, path.names))

\* The FATFS object that the boot record v describes.
Mounted(v, id) ==
    LET nrsv == IF v.type = "FAT32" THEN 2 ELSE 1
        fsize == (v.nclst + 2 + K - 1) \div K
    IN  With(nrsv + fsize * v.n_fats, LAMBDA dirbase :
        [fs_type |-> v.type, n_fats |-> v.n_fats, fsize |-> fsize, csize |-> v.csize,
         n_rootdir |-> v.n_rootdir, n_fatent |-> v.nclst + 2, fatbase |-> nrsv,
         database |-> dirbase + v.n_rootdir \div K,
         dirbase |-> IF v.type = "FAT32" THEN 2 ELSE dirbase,
         free_clust |-> Err, last_clust |-> 0, fsi_flag |-> FALSE, fsi_sector |-> 1,
         winsect |-> 0, win |-> Blank, wflag |-> FALSE, cdir |-> 0, id |-> id])

\* Takes the allocation information from the FSInfo sector, if it can be read.
ReadFsInfo(s) ==
    LET info == s.disk[s.fs.fsi_sector][0]
    IN  IF s.fs.fs_type # "FAT32" THEN s
        ELSE With(disk_read(s, 1), LAMBDA r :
             IF r.res # "OK" THEN Set(r, "OK")
             ELSE [r EXCEPT !.fs.free_clust = info[1], !.fs.last_clust = info[2]])

\* disk_status never tells that the card is gone or write protected.
chk_mounted(s) ==
    IF s.fs.fs_type # "none" THEN Set(s, "OK")
    ELSE Then(disk_read(s, 1), LAMBDA r :
              ReadFsInfo([r EXCEPT !.fs = Mounted(s.disk[0][0], s.fsid + 1), !.fsid = @ + 1]))
=============================================================================
