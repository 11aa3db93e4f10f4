------------------------------- MODULE FileStore -------------------------------
(***************************************************************************)
(* What the calls of FatFs (src/fs/Fatfs_f8a/ff.c) promise a program: a    *)
(* tree of files and directories, one file object, one current directory.  *)
(* A call that cannot do what it is asked to answers an error and changes  *)
(* nothing; once a transfer has failed or the power was lost, nothing is   *)
(* promised here.                                                          *)
(***************************************************************************)
EXTENDS Integers, SequencesExt

VARIABLES
    tree,       \* paths -> [dir, rdo, data]
    cwd,        \* the path of the current directory
    file,       \* the file object: [open, path, ptr, mode]
    free,       \* the number of free clusters
    full,       \* a root directory of fixed size has no place left
    call,       \* the last call: [op, arg, res, val]
    lost        \* something has failed
fvars == <<tree, cwd, file, free, full, call, lost>>

Step(at, n) ==
    CASE n = "." -> at
      [] n = ".." -> IF at = <<>> THEN at ELSE Front(at)
      [] OTHER -> Append(at, n)
Along(path, i) == FoldLeft(Step, IF path.abs THEN <<>> ELSE cwd, SubSeq(path.names, 1, i))
At(path) == Along(path, Len(path.names))

IsDir(p) == p = <<>> \/ (p \in DOMAIN tree /\ tree[p].dir)
Dotted(path) == path.names = <<>> \/ Last(path.names) \in {".", ".."}
Leads(path) == \A i \in 1..(Len(path.names) - 1) : IsDir(Along(path, i))

\* There is an entry of that name; there could be one.
Exists(path) == Leads(path) /\ ~Dotted(path) /\ At(path) \in DOMAIN tree
Fits(path) == Leads(path) /\ ~Dotted(path) /\ At(path) \notin DOMAIN tree

\* A new entry may need a cluster in its directory and one of its own.
NoRoom == full \/ free <= 1

\* The last call was op, and succeeds exactly when it can.
Called(op) == call'.op = op
Ok == call'.res = "OK"
arg == call'.arg
Answers(can) == Ok = can
Kept == tree' = tree /\ cwd' = cwd
Still == Kept /\ file' = file

Without(p) == [q \in {r \in DOMAIN tree : ~IsPrefix(p, r)} |-> tree[q]]
NewDir == [dir |-> TRUE, rdo |-> FALSE, data |-> <<>>]
NewFile == [dir |-> FALSE, rdo |-> FALSE, data |-> <<>>]
With1(p, n) == [q \in DOMAIN tree \cup {p} |-> IF q = p THEN n ELSE tree[q]]

-----------------------------------------------------------------------------
Open ==
    LET path == arg[1]
        mode == arg[2]
        creates == mode \cap {"CREATE_ALWAYS", "OPEN_ALWAYS", "CREATE_NEW"} # {}
        old == /\ Exists(path) /\ ~tree[At(path)].dir /\ "CREATE_NEW" \notin mode
               /\ tree[At(path)].rdo => ~creates /\ "WRITE" \notin mode
        new == creates /\ Fits(path)
    IN  /\ Called("open") /\ cwd' = cwd
        /\ Answers(old \/ new) \/ (new /\ NoRoom)
        /\ IF Ok THEN file' = [open |-> TRUE, path |-> At(path), ptr |-> 0,
                               mode |-> mode \cap {"READ", "WRITE"}]
           ELSE ~file'.open
        /\ tree' = IF Ok /\ (new \/ "CREATE_ALWAYS" \in mode) THEN With1(At(path), NewFile) ELSE tree

Size == Len(tree[file.path].data)

Read ==
    LET n == IF arg[1] < Size - file.ptr THEN arg[1] ELSE Size - file.ptr
    IN  /\ Called("read") /\ Kept
        /\ Answers(file.open /\ "READ" \in file.mode)
        /\ IF Ok THEN /\ call'.val = SubSeq(tree[file.path].data, file.ptr + 1, file.ptr + n)
                      /\ file' = [file EXCEPT !.ptr = @ + n]
           ELSE file' = file

\* The file f becomes d, and its pointer p.
Becomes(d, p) ==
    /\ tree' = [tree EXCEPT ![file.path].data = d]
    /\ file' = [file EXCEPT !.ptr = p]

\* A write is short only on a full volume.
Write ==
    /\ Called("write") /\ cwd' = cwd
    /\ Answers(file.open /\ "WRITE" \in file.mode)
    /\ IF Ok
       THEN LET n == call'.val
                d == tree[file.path].data
            IN  /\ n = Len(arg[1]) \/ (n < Len(arg[1]) /\ free' = 0)
                /\ Becomes(SubSeq(d, 1, file.ptr) \o SubSeq(arg[1], 1, n)
                               \o SubSeq(d, file.ptr + n + 1, Size), file.ptr + n)
       ELSE Still

\* A file open for writing grows to where the pointer goes, by any data.
Lseek ==
    /\ Called("lseek") /\ cwd' = cwd /\ Answers(file.open)
    /\ IF ~Ok THEN Still
       ELSE IF "WRITE" \notin file.mode
       THEN Becomes(tree[file.path].data, IF arg[1] < Size THEN arg[1] ELSE Size)
       ELSE LET d == tree'[file.path].data
            IN  /\ file'.ptr = arg[1] \/ (file'.ptr < arg[1] /\ free' = 0)
                /\ Len(d) = IF file'.ptr > Size THEN file'.ptr ELSE Size
                /\ IsPrefix(tree[file.path].data, d)
                /\ Becomes(d, file'.ptr)

Truncate ==
    /\ Called("truncate") /\ cwd' = cwd
    /\ Answers(file.open /\ "WRITE" \in file.mode)
    /\ IF Ok THEN Becomes(SubSeq(tree[file.path].data, 1, file.ptr), file.ptr) ELSE Still

Sync == Called("sync") /\ Answers(file.open) /\ Still

Close ==
    /\ Called("close") /\ Answers(file.open) /\ Kept
    /\ IF Ok THEN ~file'.open ELSE file' = file

-----------------------------------------------------------------------------
Chdir ==
    /\ Called("chdir") /\ tree' = tree /\ file' = file
    /\ Answers(Leads(arg[1]) /\ IsDir(At(arg[1])))
    /\ cwd' = IF Ok THEN At(arg[1]) ELSE cwd

Getcwd == Called("getcwd") /\ Ok /\ call'.val = cwd /\ Still

Opendir == Called("opendir") /\ Answers(Leads(arg[1]) /\ IsDir(At(arg[1]))) /\ Still

Readdir == Called("readdir") /\ Still

\* The size of the open file is that of its entry, perhaps an old one.
Stat ==
    /\ Called("stat") /\ Still
    /\ Dotted(arg[1]) \/ Answers(Exists(arg[1]))
    /\ Ok /\ Exists(arg[1]) =>
           LET n == tree[At(arg[1])]
           IN  /\ ("DIR" \in call'.val[1]) = n.dir
               /\ ("RDO" \in call'.val[1]) = n.rdo
               /\ call'.val[2] = Len(n.data) \/ n.dir \/ (file.open /\ file.path = At(arg[1]))

Getfree == Called("getfree") /\ Ok /\ call'.val = <<free>> /\ Still

\* A directory goes only when it is empty, and not the current one.
Unlink ==
    LET p == At(arg[1])
    IN  /\ Called("unlink") /\ cwd' = cwd /\ file' = file
        /\ Answers(/\ Exists(arg[1]) /\ ~tree[p].rdo
                   /\ tree[p].dir => p # cwd /\ \A q \in DOMAIN tree : IsPrefix(p, q) => q = p)
        /\ tree' = IF Ok THEN Without(p) ELSE tree

Mkdir ==
    /\ Called("mkdir") /\ cwd' = cwd /\ file' = file
    /\ Answers(Fits(arg[1])) \/ (Fits(arg[1]) /\ NoRoom)
    /\ tree' = IF Ok THEN With1(At(arg[1]), NewDir) ELSE tree

Chmod ==
    /\ Called("chmod") /\ Answers(Exists(arg[1])) /\ cwd' = cwd /\ file' = file
    /\ tree' = IF Ok THEN [tree EXCEPT ![At(arg[1])].rdo = arg[2]] ELSE tree

Utime == Called("utime") /\ Answers(Exists(arg[1])) /\ Still

\* All that is below the old path moves below the new one, the current directory too.
Rename ==
    LET old == At(arg[1])
        new == At(arg[2])
        To(p) == IF IsPrefix(old, p) THEN new \o SubSeq(p, Len(old) + 1, Len(p)) ELSE p
        can == Exists(arg[1]) /\ Fits(arg[2])
    IN  /\ Called("rename") /\ file' = file
        /\ Answers(can) \/ (can /\ NoRoom)
        /\ IF Ok THEN /\ DOMAIN tree' = {To(p) : p \in DOMAIN tree}
                      /\ \A p \in DOMAIN tree : tree'[To(p)] = tree[p]
                      /\ cwd' = To(cwd)
           ELSE Kept

\* Mounting the card anew loses the current directory and the file object.
Mount == Called("mount") /\ tree' = tree /\ cwd' = <<>> /\ ~file'.open

Init == cwd = <<>> /\ ~file.open /\ ~lost
Next ==
    \/ lost'
    \/ Open \/ Read \/ Write \/ Lseek \/ Truncate \/ Sync \/ Close
    \/ Chdir \/ Getcwd \/ Opendir \/ Readdir \/ Stat \/ Getfree
    \/ Unlink \/ Mkdir \/ Chmod \/ Utime \/ Rename \/ Mount

FSpec == Init /\ [][Next]_fvars
=============================================================================
