-------------------------------- MODULE FatFs --------------------------------
(***************************************************************************)
(* The calls of FatFs (src/fs/Fatfs_f8a/ff.c): a program works on a volume *)
(* with one FIL and one DIR object; any one sector transfer of a call may  *)
(* fail, and the power may be lost at any.                                 *)
(*                                                                         *)
(* One action per call.  The call works on a record of module FatVolume    *)
(* and its outcome is stored back, less what lives in memory when the      *)
(* power was lost.  Times and dates are not modelled.                      *)
(***************************************************************************)
EXTENDS FatTree, SequencesExt

CONSTANTS
    Disks,      \* the disks that the system may start with
    Paths,      \* the paths given to the calls, [abs, names]
    Renames,    \* the pairs of paths given to f_rename
    Modes,      \* the modes given to f_open
    Offsets,    \* the offsets given to f_lseek
    Lengths,    \* the lengths given to f_read and f_write
    Programs,   \* [calls, max, faults]: the calls a program makes, how many it
                \* makes at most, and the kinds of fault of which it meets one
    MaxIo,      \* bound on the place of a fault among the transfers of a call
    Careless    \* the program goes on after a disk error without mounting the card anew

VARIABLES
    prog,       \* the program
    disk,       \* what the card holds
    fs,         \* the FATFS object that f_mount registered
    fsid,       \* Fsid
    fil, dir,   \* the FIL and the DIR object of the program
    call,       \* the last call: its name, arguments, result and value
    ncalls,     \* calls made so far
    nfaults,    \* faults so far
    view,       \* the volume as the program sees it, see ViewOf
    hist        \* history: what was promised, see Remember
vars == <<prog, disk, fs, fsid, fil, dir, call, ncalls, nfaults, view, hist>>

NoFil == [open |-> FALSE, id |-> 0, flag |-> {}]
NoDir == [sclust |-> 0, index |-> 0, clust |-> 0, sect |-> 0, dir |-> Null, fn |-> "none"]
Data(n) == [NoEntry EXCEPT !.name = "data", !.size = n]

Has(s, f) == f \in s.fp.flag
ABORT(s) == IF s.res = "OK" THEN s ELSE [s EXCEPT !.fp.flag = @ \cup {"ERROR"}]

\* The object is open, and since the volume was mounted.
validate(s, obj) ==
    Set(s, IF obj.open /\ s.fs.fs_type # "none" THEN
               IF s.fs.id = obj.id THEN "OK" ELSE "INVALID_OBJECT"
           ELSE "INVALID_OBJECT")

\* What a transfer, a seek or a truncation requires of the file object.
Usable(s, mode) ==
    Then(validate(s, s.fp), LAMBDA t :
         Set(t, IF Has(t, "ERROR") THEN "INT_ERR"
                ELSE IF mode \subseteq t.fp.flag THEN "OK" ELSE "DENIED"))

-----------------------------------------------------------------------------
AtPath(s, path) == Then(chk_mounted(s), LAMBDA t : follow_path(t, path))

\* The entry found, or just registered, is made that of an empty file.
Overwrite(s) ==
    With(EntryAt(s).clust, LAMBDA c :
    Then([s EXCEPT !.fs.win[s.dj.dir] = [@ EXCEPT !.attr = {}, !.size = 0, !.clust = 0],
                   !.fs.wflag = TRUE], LAMBDA w :
         IF c = 0 THEN w
         ELSE Then(remove_chain(w, c), LAMBDA t :
              move_window([t EXCEPT !.fs.last_clust = c - 1], s.fs.winsect))))

\* The modes are sets of READ, WRITE, and one of CREATE_ALWAYS, OPEN_ALWAYS
\* and CREATE_NEW.
Creates(mode) == mode \cap {"CREATE_ALWAYS", "OPEN_ALWAYS", "CREATE_NEW"} # {}

OpenOrCreate(s, mode) ==
    IF s.res # "OK"
    THEN Then(IF s.res = "NO_FILE" THEN dir_register(s) ELSE s, Overwrite)
    ELSE IF "CREATE_NEW" \in mode THEN Set(s, "EXIST")
    ELSE IF EntryAt(s).attr \cap {"RDO", "DIR"} # {} THEN Set(s, "DENIED")
    ELSE IF "CREATE_ALWAYS" \in mode THEN Overwrite(s) ELSE s

OpenOnly(s, mode) ==
    Then(s, LAMBDA t :
         Set(t, IF "DIR" \in EntryAt(t).attr THEN "NO_FILE"
                ELSE IF "WRITE" \in mode /\ "RDO" \in EntryAt(t).attr THEN "DENIED"
                ELSE "OK"))

f_open(s, path, mode) ==
    With(AtPath([s EXCEPT !.fp = NoFil], path), LAMBDA p :
    Then(With(IF p.res = "OK" /\ p.dj.dir = Null THEN Set(p, "INVALID_NAME") ELSE p, LAMBDA q :
              IF Creates(mode) THEN OpenOrCreate(q, mode) ELSE OpenOnly(q, mode)), LAMBDA t :
         LET created == Creates(mode) /\ (p.res = "NO_FILE" \/ "CREATE_ALWAYS" \in mode)
         IN  [t EXCEPT !.fp =
                 [open |-> TRUE, id |-> t.fs.id,
                  flag |-> (mode \cap {"READ", "WRITE"})
                           \cup (IF created THEN {"WRITTEN"} ELSE {}),
                  org_clust |-> EntryAt(t).clust, curr_clust |-> 0,
                  fsize |-> EntryAt(t).size, fptr |-> 0, dsect |-> 0, buf |-> Blank,
                  dir_sect |-> t.fs.winsect, dir_ptr |-> t.dj.dir]]))

-----------------------------------------------------------------------------
Csect(s) == (s.fp.fptr \div K) % s.fs.csize

\* The sector of fptr, 0 if the cluster is none.
CurSect(s) ==
    With(clust2sect(s, s.fp.curr_clust), LAMBDA b : IF b = 0 THEN 0 ELSE b + Csect(s))

\* Whole sectors among n units, up to the end of the cluster.
Whole(s, n) == Min2(n \div K, s.fs.csize - Csect(s))

\* The buffer is written to its sector, when it was changed.
FlushBuf(s) ==
    IF ~Has(s, "DIRTY") THEN Set(s, "OK")
    ELSE Then(disk_write(s, <<s.fp.buf>>, s.fp.dsect),
              LAMBDA t : [t EXCEPT !.fp.flag = @ \ {"DIRTY"}])

\* The cluster that the last operator returned becomes the current one.
TakeClust(s, full) ==
    Then(Judged(s, full), LAMBDA t : [t EXCEPT !.fp.curr_clust = t.ret])

\* On the boundary of a cluster, a read goes on to the next one.
ReadClust(s) ==
    IF Csect(s) # 0 THEN Set(s, "OK")
    ELSE TakeClust(IF s.fp.fptr = 0 THEN [s EXCEPT !.ret = s.fp.org_clust]
                   ELSE get_fat(s, s.fp.curr_clust), "INT_ERR")

\* The sector becomes the one in the buffer; fill: its data is needed.
TakeSect(s, sect, fill) ==
    Then(IF s.fp.dsect # sect /\ fill THEN disk_read(s, 1) ELSE Set(s, "OK"), LAMBDA t :
         [t EXCEPT !.fp.buf = IF s.fp.dsect # sect /\ fill THEN t.disk[sect] ELSE @,
                   !.fp.dsect = sect])

Advance(s, n) == [s EXCEPT !.fp.fptr = @ + n]
Slice(f, from, n) == [i \in 1..n |-> f[from + i - 1]]

\* cc sectors, the one in the buffer taken from there if it was changed.
Direct(s, sect, cc) ==
    [i \in 1..(cc * K) |->
        LET x == sect + (i - 1) \div K
        IN  IF Has(s, "DIRTY") /\ s.fp.dsect = x THEN s.fp.buf[(i - 1) % K]
            ELSE s.disk[x][(i - 1) % K]]

\* On the boundary of a sector: the sector is found and whole sectors, or
\* else the buffer, are read.  val is what was read so far.
ReadSect(s, n) ==
    Then(ReadClust(s), LAMBDA t :
    With(CurSect(t), LAMBDA sect :
    With(Whole(t, n), LAMBDA cc :
         IF sect = 0 THEN Set(t, "INT_ERR")
         ELSE IF cc > 0
         THEN Then(disk_read(t, cc), LAMBDA u :
                   Advance([u EXCEPT !.val = @ \o Direct(u, sect, cc)], cc * K))
         ELSE Then(FlushBuf(t), LAMBDA u : TakeSect(u, sect, TRUE)))))

\* As much of n units as the buffer holds.
ReadPart(s, n) ==
    LET at == s.fp.fptr % K
    IN  With(Min2(K - at, n), LAMBDA cnt :
             Advance([s EXCEPT !.val = @ \o Slice(s.fp.buf, at, cnt)], cnt))

RECURSIVE ReadLoop(_, _)
ReadLoop(s, n) ==
    IF n = 0 THEN Set(s, "OK")
    ELSE Then(Then(IF s.fp.fptr % K = 0 THEN ReadSect(s, n) ELSE Set(s, "OK"), LAMBDA t :
                   IF t.fp.fptr = s.fp.fptr THEN ReadPart(t, n) ELSE t),
              LAMBDA v : ReadLoop(v, n - (v.fp.fptr - s.fp.fptr)))

f_read(s, n) ==
    Then(Usable(s, {"READ"}), LAMBDA t :
         ABORT(ReadLoop(t, Min2(n, t.fp.fsize - t.fp.fptr))))

\* On the boundary of a cluster, a write follows or stretches the chain.
WriteClust(s) ==
    IF Csect(s) # 0 THEN Set(s, "OK")
    ELSE TakeClust(IF s.fp.fptr # 0 THEN create_chain(s, s.fp.curr_clust)
                   ELSE IF s.fp.org_clust # 0 THEN [s EXCEPT !.ret = s.fp.org_clust]
                   ELSE With(create_chain(s, 0), LAMBDA c : [c EXCEPT !.fp.org_clust = c.ret]),
                   "FULL")

\* Whole sectors are written past the buffer, which is refilled if it holds one.
WriteWhole(s, sect, data) ==
    With([i \in 1..(Len(data) \div K) |->
             [j \in Cell |-> data[(i - 1) * K + j + 1]]], LAMBDA secs :
    Then(disk_write(s, secs, sect), LAMBDA t :
         IF s.fp.dsect \in sect..(sect + Len(secs) - 1)
         THEN [t EXCEPT !.fp.buf = secs[s.fp.dsect - sect + 1], !.fp.flag = @ \ {"DIRTY"}]
         ELSE t))

WriteSect(s, data) ==
    Then(WriteClust(s), LAMBDA t :
    Then(FlushBuf(t), LAMBDA u :
    With(CurSect(u), LAMBDA sect :
    With(Whole(u, Len(data)), LAMBDA cc :
         IF sect = 0 THEN Set(u, "INT_ERR")
         ELSE IF cc > 0
         THEN Then(WriteWhole(u, sect, SubSeq(data, 1, cc * K)), LAMBDA v : Advance(v, cc * K))
         ELSE TakeSect(u, sect, u.fp.fptr < u.fp.fsize)))))

WritePart(s, data) ==
    LET at == s.fp.fptr % K
    IN  With(Min2(K - at, Len(data)), LAMBDA cnt :
             Advance([s EXCEPT !.fp.buf = [j \in Cell |->
                                   IF j \in at..(at + cnt - 1) THEN data[j - at + 1] ELSE @[j]],
                               !.fp.flag = @ \cup {"DIRTY"}], cnt))

RECURSIVE WriteLoop(_, _)
WriteLoop(s, data) ==
    IF data = <<>> THEN Set(s, "OK")
    ELSE Then(Then(IF s.fp.fptr % K = 0 THEN WriteSect(s, data) ELSE Set(s, "OK"), LAMBDA t :
                   IF t.fp.fptr = s.fp.fptr THEN WritePart(t, data) ELSE t),
              LAMBDA v : WriteLoop(v, SubSeq(data, v.fp.fptr - s.fp.fptr + 1, Len(data))))

\* The size follows the pointer, and the entry must be written.
Grown(s) ==
    [s EXCEPT !.fp.fsize = IF s.fp.fptr > @ THEN s.fp.fptr ELSE @,
              !.fp.flag = @ \cup {"WRITTEN"}]

\* A full disk ends the write; val is the number of units written.  Files do
\* not reach 4 GB.
f_write(s, data) ==
    Then(Usable(s, {"WRITE"}), LAMBDA t :
    With(WriteLoop(t, data), LAMBDA w :
         LET v == [w EXCEPT !.val = w.fp.fptr - t.fp.fptr]
         IN  IF w.res \in {"OK", "FULL"} THEN Set(Grown(v), "OK") ELSE ABORT(v)))

-----------------------------------------------------------------------------
\* The size and the start of the file are stored in its entry.
StoreEntry(s) ==
    [s EXCEPT !.fs.win[s.fp.dir_ptr] =
                  [@ EXCEPT !.attr = @ \cup {"ARC"}, !.size = s.fp.fsize, !.clust = s.fp.org_clust],
              !.fp.flag = @ \ {"WRITTEN"}, !.fs.wflag = TRUE]

f_sync(s) ==
    Then(validate(s, s.fp), LAMBDA t :
         IF ~Has(t, "WRITTEN") THEN t
         ELSE Then(FlushBuf(t), LAMBDA u :
              Then(move_window(u, u.fp.dir_sect), LAMBDA v : sync(StoreEntry(v)))))

f_close(s) == Then(f_sync(s), LAMBDA t : [t EXCEPT !.fp = NoFil])

ClustUnits(s) == s.fs.csize * K

\* The pointer is at fptr + ofs, in cluster ret: a sector it is in the middle of
\* is read, and the file grows if it is beyond the end.
Arrive(s, ofs) ==
    LET base == clust2sect(s, s.ret)
        sect == base + ofs \div K
        t == [s EXCEPT !.fp.fptr = @ + ofs]
    IN  Then(IF ofs % K = 0 THEN Set(t, "OK")
             ELSE IF base = 0 THEN Set(t, "INT_ERR")
             ELSE IF sect # t.fp.dsect
             THEN Then(FlushBuf(t), LAMBDA u : TakeSect(u, sect, TRUE)) ELSE Set(t, "OK"),
             LAMBDA v : IF v.fp.fptr > v.fp.fsize THEN Grown(v) ELSE v)

\* Follows the chain from cluster ret, stretched in write mode until the disk is full.
RECURSIVE SeekLoop(_, _)
SeekLoop(s, ofs) ==
    IF ofs <= ClustUnits(s) THEN Arrive(s, ofs)
    ELSE With(IF Has(s, "WRITE") THEN create_chain(s, s.ret) ELSE get_fat(s, s.ret), LAMBDA g :
         IF Has(s, "WRITE") /\ g.ret = 0 THEN Arrive(g, ClustUnits(s))
         ELSE IF ~IsClust(s, g.ret) THEN Set(g, IF g.ret = Err THEN "DISK_ERR" ELSE "INT_ERR")
         ELSE SeekLoop([g EXCEPT !.fp.curr_clust = g.ret, !.fp.fptr = @ + ClustUnits(s)],
                       ofs - ClustUnits(s)))

\* A seek backwards starts from the first cluster, which is created if there is none.
SeekFromStart(s, ofs) ==
    Then(Judged(IF s.fp.org_clust = 0 THEN create_chain(s, 0)
                ELSE [s EXCEPT !.ret = s.fp.org_clust], "OK"), LAMBDA t :
         LET u == [t EXCEPT !.fp.org_clust = t.ret, !.fp.curr_clust = t.ret]
         IN  IF t.ret = 0 THEN u ELSE SeekLoop(u, ofs))

f_lseek(s, offset) ==
    Then(Usable(s, {}), LAMBDA t :
         LET ofs == IF Has(t, "WRITE") THEN offset ELSE Min2(offset, t.fp.fsize)
             n == ClustUnits(t)
             start == IF t.fp.fptr > 0 THEN ((t.fp.fptr - 1) \div n) * n ELSE 0
             here == t.fp.fptr > 0 /\ (ofs - 1) \div n >= (t.fp.fptr - 1) \div n
             z == [t EXCEPT !.fp.fptr = IF ofs > 0 /\ here THEN start ELSE 0]
         IN  IF ofs = 0 THEN z
             ELSE ABORT(IF here THEN SeekLoop([z EXCEPT !.ret = t.fp.curr_clust], ofs - start)
                        ELSE SeekFromStart(z, ofs)))

\* Mutant: the clusters that are cut off are not freed.
MutCutChain(s) == put_fat(s, s.fp.curr_clust, EOC)

\* The chain is cut after the cluster of the pointer.
CutChain(s) ==
    Then(Judged(get_fat(s, s.fp.curr_clust), "OK"), LAMBDA t :
         IF t.ret >= t.fs.n_fatent THEN t
         ELSE Then(put_fat(t, t.fp.curr_clust, EOC), LAMBDA u : remove_chain(u, t.ret)))

f_truncate(s) ==
    Then(Usable(s, {"WRITE"}), LAMBDA t :
         LET u == [t EXCEPT !.fp.fsize = t.fp.fptr, !.fp.flag = @ \cup {"WRITTEN"}]
         IN  IF t.fp.fsize <= t.fp.fptr THEN t
             ELSE IF t.fp.fptr = 0
             THEN ABORT([remove_chain(u, t.fp.org_clust) EXCEPT !.fp.org_clust = 0])
             ELSE ABORT(CutChain(u)))

-----------------------------------------------------------------------------
NoPath(s) == IF s.res = "NO_FILE" THEN Set(s, "NO_PATH") ELSE s

\* What a call that changes an entry requires of it.
Changeable(s) ==
    Then(s, LAMBDA t :
         Set(t, IF t.dj.fn \in Dots \/ t.dj.dir = Null THEN "INVALID_NAME" ELSE "OK"))

f_chdir(s, path) ==
    NoPath(Then(AtPath(s, path), LAMBDA t :
        IF t.dj.dir = Null THEN [t EXCEPT !.fs.cdir = t.dj.sclust]
        ELSE IF "DIR" \in EntryAt(t).attr THEN [t EXCEPT !.fs.cdir = EntryAt(t).clust]
        ELSE Set(t, "NO_PATH")))

\* The entry of the directory that leads to cluster c.
RECURSIVE Leading(_, _)
Leading(s, c) ==
    Then(dir_read(s), LAMBDA t :
         IF EntryAt(t).clust = c THEN t
         ELSE Then(dir_next(t, FALSE), LAMBDA u : Leading(u, c)))

\* Adds the names of the directories above to val.
RECURSIVE Ascend(_)
Ascend(s) ==
    LET c == s.dj.sclust
    IN  IF c = 0 THEN s
        ELSE With(Then(Then(dir_sdi(s, 1), dir_read), LAMBDA t :
                  Then(dir_sdi([t EXCEPT !.dj.sclust = EntryAt(t).clust], 0), LAMBDA u :
                       Leading(u, c))), LAMBDA up :
             IF up.res = "NO_FILE" THEN Set(up, "INT_ERR")
             ELSE Then(up, LAMBDA t : Ascend([t EXCEPT !.val = <<EntryAt(t).name>> \o @])))

f_getcwd(s) == Then(chk_mounted(s), LAMBDA t : Ascend([t EXCEPT !.dj.sclust = t.fs.cdir]))

f_opendir(s, path) ==
    NoPath(Then(AtPath(s, path), LAMBDA t :
        IF t.dj.dir = Null THEN dir_sdi(t, 0)
        ELSE IF "DIR" \in EntryAt(t).attr
        THEN dir_sdi([t EXCEPT !.dj.sclust = EntryAt(t).clust], 0)
        ELSE Set(t, "NO_PATH")))

\* The end of a directory is no error.
Ended(s) ==
    With(s, LAMBDA t : IF t.res = "NO_FILE" THEN Set([t EXCEPT !.dj.sect = 0], "OK") ELSE t)

\* Mutant: the name is taken after going on to the next entry.
MutReaddir(s) ==
    Then(Ended(Then(dir_read(s), LAMBDA t : dir_next(t, FALSE))), LAMBDA n :
         IF n.dj.sect = 0 THEN n ELSE [n EXCEPT !.val = <<EntryAt(n).name>>])

\* val is the name read, none at the end of the directory.
f_readdir(s) ==
    Then(Ended(dir_read(s)), LAMBDA t :
         Ended(dir_next(IF t.dj.sect = 0 THEN t ELSE [t EXCEPT !.val = <<EntryAt(t).name>>], FALSE)))

f_stat(s, path) ==
    Then(AtPath(s, path), LAMBDA t :
         IF t.dj.dir = Null THEN Set(t, "INVALID_NAME")
         ELSE [t EXCEPT !.val = <<EntryAt(t).attr, EntryAt(t).size>>])

\* Counts the free ones of the entries from the given sector of the FAT on.
RECURSIVE CountFree(_, _, _, _)
CountFree(s, sect, left, n) ==
    IF left <= 0 THEN [s EXCEPT !.ret = n]
    ELSE With(move_window(s, sect), LAMBDA m :
         IF m.res # "OK" THEN [m EXCEPT !.ret = n]
         ELSE CountFree(m, sect + 1, left - K,
                        n + Cardinality({i \in 0..(Min2(K, left) - 1) : m.fs.win[i] = 0})))

\* The count is kept, also when it was broken off by an error.
f_getfree(s) ==
    Then(chk_mounted(s), LAMBDA t :
         IF t.fs.free_clust <= t.fs.n_fatent - 2 THEN [t EXCEPT !.val = <<t.fs.free_clust>>]
         ELSE With(CountFree(t, t.fs.fatbase, t.fs.n_fatent, 0), LAMBDA c :
              [c EXCEPT !.fs.free_clust = c.ret, !.val = <<c.ret>>,
                        !.fs.fsi_flag = @ \/ t.fs.fs_type = "FAT32"]))

\* The result is OK when nothing but the dots is in the directory of cluster c.
EmptyDir(s, c) ==
    LET Answer(t) == IF t.res = "OK" \/ c = t.fs.cdir THEN "DENIED"
                     ELSE IF t.res = "NO_FILE" THEN "OK" ELSE t.res
    IN  IF c < 2 THEN Set(s, "INT_ERR")
        ELSE [Then(dir_sdi([s EXCEPT !.dj.sclust = c], 2), LAMBDA t :
              With(dir_read(t), LAMBDA r : Set(r, Answer(r)))) EXCEPT !.dj = s.dj]

\* Mutant: the chain is freed before the entry is removed.
MutDelete(s, c) ==
    Then(IF c # 0 THEN remove_chain(s, c) ELSE s, LAMBDA t : Then(dir_remove(t), sync))

Delete(s, c) ==
    Then(dir_remove(s), LAMBDA t :
    Then(IF c # 0 THEN remove_chain(t, c) ELSE t, sync))

f_unlink(s, path) ==
    Then(Changeable(AtPath(s, path)), LAMBDA t :
    With(EntryAt(t), LAMBDA e :
         IF "RDO" \in e.attr THEN Set(t, "DENIED")
         ELSE Then(IF "DIR" \in e.attr THEN EmptyDir(t, e.clust) ELSE t,
                   LAMBDA u : Delete(u, e.clust))))

\* Writes the window to the sectors of a new directory, cleared after the first.
RECURSIVE WriteTable(_, _, _)
WriteTable(s, sect, n) ==
    IF n = 0 THEN Set(s, "OK")
    ELSE Then(move_window([s EXCEPT !.fs.winsect = sect, !.fs.wflag = TRUE], 0),
              LAMBDA t : WriteTable([t EXCEPT !.fs.win = Blank], sect + 1, n - 1))

DirEntry(n, c) == [name |-> n, attr |-> {"DIR"}, clust |-> c, size |-> 0]
DotTable(s, c) ==
    LET p == IF s.fs.fs_type = "FAT32" /\ s.dj.sclust = s.fs.dirbase THEN 0 ELSE s.dj.sclust
    IN  [Blank EXCEPT ![0] = DirEntry(".", c), ![1] = DirEntry("..", p)]

\* The table is written to cluster c and the directory is entered, or c is freed.
MakeDir(s, c) ==
    With(Then(Then(Judged(s, "DENIED"), LAMBDA t : move_window(t, 0)), LAMBDA t :
         Then(WriteTable([t EXCEPT !.fs.win = DotTable(t, c)], clust2sect(t, c), t.fs.csize),
              dir_register)), LAMBDA made :
         IF made.res # "OK" THEN Set(remove_chain(made, c), made.res)
         ELSE sync([made EXCEPT !.fs.win[made.dj.dir] = DirEntry(made.dj.fn, c), !.fs.wflag = TRUE]))

f_mkdir(s, path) ==
    With(AtPath(s, path), LAMBDA p :
         IF p.res # "NO_FILE" THEN Set(p, IF p.res = "OK" THEN "EXIST" ELSE p.res)
         ELSE IF p.dj.fn \in Dots THEN Set(p, "INVALID_NAME")
         ELSE With(create_chain(p, 0), LAMBDA t : MakeDir(t, t.ret)))

\* Touched(e) is the entry as the call leaves it.
ChangeEntry(s, path, Touched(_)) ==
    Then(Changeable(AtPath(s, path)), LAMBDA t :
         sync([t EXCEPT !.fs.win[t.dj.dir] = Touched(EntryAt(t)), !.fs.wflag = TRUE]))

\* Sets or clears the read-only attribute.
f_chmod(s, path, rdo) ==
    ChangeEntry(s, path, LAMBDA e :
        [e EXCEPT !.attr = IF rdo THEN @ \cup {"RDO"} ELSE @ \ {"RDO"}])
f_utime(s, path) == ChangeEntry(s, path, LAMBDA e : e)

\* The ".." of a directory that was moved leads to the new one above.
FixParent(s, e) ==
    LET sect == clust2sect(s, e.clust)
        p == IF s.fs.fs_type = "FAT32" /\ s.dj.sclust = s.fs.dirbase THEN 0 ELSE s.dj.sclust
    IN  IF sect = 0 THEN Set(s, "INT_ERR")
        ELSE Then(move_window(s, sect), LAMBDA t :
             IF Named(t.fs.win[1], "..")
             THEN [t EXCEPT !.fs.win[1].clust = p, !.fs.wflag = TRUE] ELSE t)

Moved(s, old, e) ==
    IF old.sclust # s.dj.sclust /\ "DIR" \in e.attr THEN FixParent(s, e) ELSE s

\* The entry e gets its new name where s stands, and goes from where it was.
MoveEntry(s, old, e) ==
    Then(dir_register(s), LAMBDA u :
    Then(Moved([u EXCEPT !.fs.win[u.dj.dir] = [e EXCEPT !.name = u.dj.fn, !.attr = @ \cup {"ARC"}],
                         !.fs.wflag = TRUE], old, e), LAMBDA v :
    Then(dir_remove([v EXCEPT !.dj = old]), sync)))

f_rename(s, from, to) ==
    Then(AtPath(s, from), LAMBDA t :
         IF t.dj.fn \in Dots THEN Set(t, "INVALID_NAME")
         ELSE IF t.dj.dir = Null THEN Set(t, "NO_FILE")
         ELSE With(follow_path(t, to), LAMBDA n :
              IF n.res # "NO_FILE" THEN Set(n, IF n.res = "OK" THEN "EXIST" ELSE n.res)
              ELSE MoveEntry(Set(n, "OK"), t.dj, EntryAt(t))))

-----------------------------------------------------------------------------
(***************************************************************************)
(* The volume as the program sees it: the disk with the dirty window, and  *)
(* with what the FIL object has changed.                                   *)
(***************************************************************************)
\* v.disk, with the window of v.fs and with what the file object v.fp has changed.
Windowed(v) ==
    IF v.fs.fs_type # "none" /\ v.fs.wflag THEN (v.fs.winsect :> v.fs.win) @@ v.disk ELSE v.disk
Live(v) ==
    v.fp.open /\ v.fs.fs_type # "none" /\ v.fp.id = v.fs.id /\ "ERROR" \notin v.fp.flag
Unsynced(v) == Live(v) /\ v.fp.flag \cap {"WRITTEN", "DIRTY"} # {}
Seen(v) ==
    IF ~Live(v) THEN Windowed(v)
    ELSE [(IF "DIRTY" \in v.fp.flag THEN v.fp.dsect :> v.fp.buf ELSE <<>>) @@ Windowed(v)
             EXCEPT ![v.fp.dir_sect][v.fp.dir_ptr].size = v.fp.fsize,
                    ![v.fp.dir_sect][v.fp.dir_ptr].clust = v.fp.org_clust]

Geometry == Mounted(disk[0][0], 0)
Tree(d) == Below(d, Geometry, 0, <<>>, 2)

\* The path of the directory of cluster c.
DirPath(tree, c) ==
    IF c = 0 THEN <<>> ELSE CHOOSE p \in DOMAIN tree : tree[p].dir /\ tree[p].clust = c

\* tree, file, cwd, free, full are the variables of FileStore; unsynced tells
\* that something in it is not in the file's entry yet.
ViewOf(v) == With(Tree(Seen(v)), LAMBDA t :
    With(Geometry, LAMBDA g :
        [tree |-> t,
         cwd |-> IF v.fs.fs_type = "none" THEN <<>> ELSE DirPath(t, v.fs.cdir),
         file |-> IF Live(v) THEN [open |-> TRUE, ptr |-> v.fp.fptr,
                                   path |-> CHOOSE p \in DOMAIN t :
                                                t[p].at = <<v.fp.dir_sect, v.fp.dir_ptr>>,
                                   mode |-> v.fp.flag \cap {"READ", "WRITE"}]
                  ELSE [open |-> FALSE],
         unsynced |-> Unsynced(v),
         free |-> Cardinality({c \in 2..(g.n_fatent - 1) : FatOf(Windowed(v), g, c) = 0}),
         full |-> /\ g.n_rootdir > 0
                  /\ \A x \in Range(Sectors(disk, g, 0)) : \A i \in Cell :
                         ~IsFree(Windowed(v)[x][i])]))

\* The open file, and the path that a path of the program leads to.
Held == IF view.file.open THEN {view.file.path} ELSE {}
Absolute(path) ==
    FoldLeft(LAMBDA at, n : CASE n = "." -> at
                            [] n = ".." -> IF at = <<>> THEN at ELSE Front(at)
                            [] OTHER -> Append(at, n),
             IF path.abs THEN <<>> ELSE view.cwd, path.names)

-----------------------------------------------------------------------------
NoFault == [kind |-> "none", at |-> 0, met |-> TRUE]
MayFail == {NoFault} \cup
    IF nfaults > 0 THEN {} ELSE [kind : prog.faults, at : 1..MaxIo, met : {FALSE}]

\* A call begins on what there is, and may meet a fault.
Begin(x) ==
    [disk |-> disk, fs |-> fs, fsid |-> fsid, dj |-> NoDir, fp |-> fil,
     res |-> "OK", ret |-> 0, val |-> <<>>, io |-> 0, fault |-> x]

\* Power that is lost takes what is in memory with it; main() then mounts the
\* volume again.
End(s) ==
    IF s.fault.kind = "power"
    THEN [s EXCEPT !.fs = Unmounted, !.fsid = 0, !.fp = NoFil, !.res = "POWER"] ELSE s

\* The paths that a call is asked to change.
Target(op, arg) ==
    CASE op \in {"open", "unlink", "mkdir", "chmod", "utime"} -> {Absolute(arg[1])}
      [] op = "rename" -> {Absolute(arg[1]), Absolute(arg[2])}
      [] op \in {"write", "lseek", "truncate", "sync", "close"} -> Held
      [] OTHER -> {}
Spared(tree, paths) ==
    [p \in {q \in DOMAIN tree : \A t \in paths : ~IsPrefix(t, q)} |-> tree[p]]

\* The calls that end by writing out all that they changed.
Syncing == {"sync", "close", "unlink", "mkdir", "chmod", "utime", "rename"}

\* The history.  safe: what a call that synchronises found or made, and no call
\* has since been asked to change.  cut: the open file is shorter than its entry
\* says.  harmed: the power was lost where the code cannot help it.  list: what
\* was in the directory that is listed all the time, and the names read.
Remember(op, arg, s, new) ==
    LET synced == op \in Syncing /\ s.res = "OK"
        target == Target(op, arg)
    IN  [safe |-> IF synced
                  THEN Spared(new.tree, IF new.unsynced THEN {new.file.path} ELSE {})
                  ELSE Spared(hist.safe, target),
         cut |-> op = "truncate" \/ (hist.cut /\ ~synced),
         harmed |-> hist.harmed
                    \/ (s.res \in {"POWER", "DISK_ERR"} /\ (op \in {"rename", "truncate"} \/ hist.cut)),
         list |-> IF op = "opendir" /\ s.res = "OK"
                  THEN [steady |-> {p \in DOMAIN view.tree : Front(p) = Absolute(arg[1])},
                        read |-> <<>>]
                  ELSE IF op = "readdir" /\ s.res = "OK"
                  THEN [hist.list EXCEPT !.read = @ \o s.val]
                  ELSE [hist.list EXCEPT !.steady = @ \ target]]

\* The call returns with the outcome s.
Return(op, arg, s) ==
    /\ disk' = s.disk /\ fs' = s.fs /\ fsid' = s.fsid /\ fil' = s.fp
    /\ dir' = IF s.res = "POWER" \/ (op \in {"opendir", "readdir"} /\ s.res # "OK") THEN NoFil
              ELSE IF op \in {"opendir", "readdir"} THEN [open |-> TRUE, id |-> s.fs.id] @@ s.dj
              ELSE dir
    /\ call' = [op |-> op, arg |-> arg, res |-> s.res, val |-> s.val]
    /\ nfaults' = IF s.fault = NoFault THEN nfaults ELSE nfaults + 1
    /\ ncalls' = ncalls + 1
    /\ view' \in {ViewOf(s)}
    /\ hist' \in {Remember(op, arg, s, view')}

\* Effect is what the code does; a fault that the call does not meet is none.
Do(op, arg, Effect(_)) ==
    /\ op \in prog.calls
    /\ ncalls < prog.max
    /\ prog' = prog
    /\ Careless \/ call.res # "DISK_ERR" \/ op = "mount"
    /\ \E x \in MayFail : \E s \in {End(Effect(Begin(x)))} : s.fault.met /\ Return(op, arg, s)

\* What the programs see to, for ff.c does not: a file or directory that is open
\* is neither removed, renamed nor opened again, no directory is moved below
\* itself, and f_sync comes before f_truncate.
NotInUse(path) ==
    /\ ~\E q \in Held : IsPrefix(Absolute(path), q)
    /\ dir.open => ~IsPrefix(Absolute(path), DirPath(view.tree, dir.sclust))

Open == \E p \in Paths, m \in Modes :
    ~view.file.open /\ Do("open", <<p, m>>, LAMBDA s : f_open(s, p, m))
Read == \E n \in Lengths : fil.open /\ Do("read", <<n>>, LAMBDA s : f_read(s, n))
Write == \E n \in Lengths :
    LET data == [i \in 1..n |-> Data(10 * ncalls + i)]
    IN  fil.open /\ Do("write", <<data>>, LAMBDA s : f_write(s, data))
Lseek == \E o \in Offsets : fil.open /\ Do("lseek", <<o>>, LAMBDA s : f_lseek(s, o))
Truncate == fil.open /\ "DIRTY" \notin fil.flag /\ Do("truncate", <<>>, f_truncate)
Sync == fil.open /\ Do("sync", <<>>, f_sync)
Close == fil.open /\ Do("close", <<>>, f_close)
Chdir == \E p \in Paths : Do("chdir", <<p>>, LAMBDA s : f_chdir(s, p))
Getcwd == Do("getcwd", <<>>, f_getcwd)
Opendir == \E p \in Paths : Do("opendir", <<p>>, LAMBDA s : f_opendir(s, p))
Readdir == dir.open /\ Do("readdir", <<>>,
    LAMBDA s : Then(validate(s, dir), LAMBDA t : f_readdir([t EXCEPT !.dj = dir])))
Stat == \E p \in Paths : Do("stat", <<p>>, LAMBDA s : f_stat(s, p))
Getfree == Do("getfree", <<>>, f_getfree)
Unlink == \E p \in Paths : NotInUse(p) /\ Do("unlink", <<p>>, LAMBDA s : f_unlink(s, p))
Mkdir == \E p \in Paths : Do("mkdir", <<p>>, LAMBDA s : f_mkdir(s, p))
Chmod == \E p \in Paths, b \in BOOLEAN : Do("chmod", <<p, b>>, LAMBDA s : f_chmod(s, p, b))
Utime == \E p \in Paths : Do("utime", <<p>>, LAMBDA s : f_utime(s, p))
Rename == \E r \in Renames :
    /\ NotInUse(r[1]) /\ ~IsPrefix(Absolute(r[1]), Absolute(r[2]))
    /\ Do("rename", r, LAMBDA s : f_rename(s, r[1], r[2]))

\* The program mounts the card anew, when all is written out or cannot be.
Mount ==
    /\ call.res = "DISK_ERR" \/ (~view.unsynced /\ Windowed(Begin(NoFault)) = disk)
    /\ Do("mount", <<>>, LAMBDA s : [s EXCEPT !.fs = Unmounted])

Init ==
    /\ prog \in Programs /\ disk \in Disks
    /\ fs = Unmounted /\ fsid = 0 /\ fil = NoFil /\ dir = NoFil
    /\ call = [op |-> "none", arg |-> <<>>, res |-> "OK", val |-> <<>>]
    /\ ncalls = 0 /\ nfaults = 0
    /\ view = ViewOf(Begin(NoFault))
    /\ hist = [safe |-> view.tree, cut |-> FALSE, harmed |-> FALSE,
               list |-> [steady |-> {}, read |-> <<>>]]

Next ==
    \/ Open \/ Read \/ Write \/ Lseek \/ Truncate \/ Sync \/ Close
    \/ Chdir \/ Getcwd \/ Opendir \/ Readdir \/ Stat \/ Getfree
    \/ Unlink \/ Mkdir \/ Chmod \/ Utime \/ Rename \/ Mount

Spec == Init /\ [][Next]_vars

-----------------------------------------------------------------------------
Now == Begin(NoFault)
Clusters == 2..(Geometry.n_fatent - 1)
Chain(c) == ChainOf(Seen(Now), Geometry, c, Geometry.n_fatent)

\* No cluster is in two files or directories, and each chain ends in an end mark:
\* in what the program sees, and whenever the power is lost, except in f_rename
\* and after f_truncate, which the code cannot help.  Below the files, and without
\* exception, the links of the FAT are sound on the card and in what the program
\* sees: what the FAT functions are proved to keep.
ChainsSound ==
    /\ fs.fs_type # "none" => Sound(Now)
    /\ ~hist.harmed =>
        LET t == view.tree
            chain == [p \in DOMAIN t |-> Chain(t[p].clust)]
        IN  \A p \in DOMAIN t :
                /\ \A q \in DOMAIN t \ {p} : Range(chain[p]) \cap Range(chain[q]) = {}
                /\ t[p].clust # 0 =>
                       /\ chain[p] # <<>>
                       /\ FatOf(Seen(Now), Geometry, Last(chain[p])) >= Geometry.n_fatent

\* As long as nothing has failed, the clusters marked as used are those of the
\* files and directories, and the count of free ones that f_getfree answers from
\* is right: remove_chain, create_chain and f_mkdir, when it fails, see to it.
NoLeak == nfaults = 0 /\ ~view.unsynced =>
    LET t == view.tree
        roots == {t[p].clust : p \in DOMAIN t} \cup {Geometry.dirbase}
        used == {c \in Clusters : FatOf(Seen(Now), Geometry, c) # 0}
    IN  /\ used = Clusters \cap UNION {Range(Chain(c)) : c \in roots}
        /\ fs.fs_type # "none" =>
               fs.free_clust \in {Err, Cardinality(Clusters) - Cardinality(used)}

\* What f_sync, f_close, f_mkdir, f_unlink, f_rename, f_chmod or f_utime found or
\* left behind when it succeeded is on the card, whole, until a call is asked to
\* change it, wherever the power is lost or a sector cannot be written.
Durable == ~hist.harmed =>
    LET t == Tree(disk)
    IN  \A p \in DOMAIN hist.safe :
            /\ p \in DOMAIN t
            /\ t[p].dir = hist.safe[p].dir /\ t[p].rdo = hist.safe[p].rdo
            /\ t[p].data = hist.safe[p].data

\* When f_readdir comes to the end of a directory, it has answered once each name
\* that was there all the time, whatever was made or removed in the meantime.
Listing == call.op = "readdir" /\ call.res = "OK" /\ call.val = <<>> =>
    \A p \in hist.list.steady :
        Cardinality({i \in DOMAIN hist.list.read : hist.list.read[i] = Last(p)}) = 1

\* As long as nothing has failed, each call of ff.c does what FileStore promises
\* of it, and fails exactly where that allows it to fail.
Store == INSTANCE FileStore WITH
    tree <- [p \in DOMAIN view.tree |->
                [dir |-> view.tree[p].dir, rdo |-> view.tree[p].rdo, data |-> view.tree[p].data]],
    cwd <- view.cwd, file <- view.file, free <- view.free, full <- view.full,
    lost <- nfaults > 0
ImplementsFiles == Store!FSpec
=============================================================================
