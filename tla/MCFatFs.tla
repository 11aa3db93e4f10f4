------------------------------- MODULE MCFatFs -------------------------------
(* Small volumes for module FatFs. *)
EXTENDS FatFs

Abs(s) == [abs |-> TRUE, names |-> s]
Rel(s) == [abs |-> FALSE, names |-> s]

MCPaths == {Abs(<<"a">>), Abs(<<"d">>), Abs(<<"d", "a">>), Abs(<<"d", "b">>), Rel(<<"..">>), Rel(<<"a">>)}
MCRenames == {<<Abs(<<"a">>), Abs(<<"d", "b">>)>>, <<Abs(<<"d">>), Abs(<<"e">>)>>}
MCModes == {{"READ"}, {"READ", "WRITE", "OPEN_ALWAYS"}, {"WRITE", "CREATE_ALWAYS"}}

MCFile == {"open", "read", "write", "lseek", "truncate", "sync", "close"}
MCDir == {"mkdir", "unlink", "rename", "chdir", "getcwd", "getfree", "mount"}
MCList == {"opendir", "readdir", "mkdir", "unlink"}
MCAll == MCFile \cup MCDir \cup MCList \cup {"stat", "chmod", "utime"}
Prog(c, n, f) == [calls |-> c, max |-> n, faults |-> f]
MCPrograms == {
    Prog(MCAll, 2, {"power", "write"}), Prog(MCFile \ {"read"}, 4, {"power", "write"}),
    Prog(MCFile \ {"truncate", "sync"}, 5, {}), Prog(MCDir, 3, {"power"}), Prog(MCList, 5, {})}

\* The program synchronises a file again when that has failed.
MCCreating == {{"WRITE", "CREATE_ALWAYS"}}
MCRetry == {Prog({"open", "sync"}, 3, {"write"})}

Vol(t, csize, nclst, roots) ==
    [type |-> t, csize |-> csize, nclst |-> nclst, n_fats |-> 2, n_rootdir |-> roots]

\* A volume without files; FAT32 keeps the root directory in cluster 2.
Formatted(v) ==
    LET g == Mounted(v, 0)
        last == g.database + v.nclst * v.csize - 1
        used == IF v.type = "FAT32" THEN 1 ELSE 0
        FatCell(c) == IF c < 2 + used THEN EOC ELSE 0
        FatCells(x) == [i \in Cell |-> FatCell(x * K + i)]
    IN  [x \in 0..last |->
            IF x = 0 THEN [i \in Cell |-> v]
            ELSE IF x < g.fatbase THEN [i \in Cell |-> <<v.nclst - used, 2>>]
            ELSE IF x < g.fatbase + 2 * g.fsize THEN FatCells((x - g.fatbase) % g.fsize)
            ELSE Blank]

\* With a file "a" of two clusters, and a directory "d" that is full with the empty
\* files "a" and "c".
MCStart(d) ==
    [disk |-> d, fs |-> Unmounted, fsid |-> 0, dj |-> NoDir, fp |-> NoFil,
     res |-> "OK", ret |-> 0, val |-> <<>>, io |-> 0, fault |-> NoFault]
MCCreate(s, f) ==
    f_close(f_write(f_open(s, Abs(f[1]), {"WRITE", "CREATE_ALWAYS"}), [i \in 1..f[2] |-> Data(i)]))
Populated(v) ==
    FoldLeft(MCCreate, f_mkdir(MCStart(Formatted(v)), Abs(<<"d">>)),
             <<<<<<"a">>, 5>>, <<<<"d", "a">>, 0>>, <<<<"d", "c">>, 0>>>>).disk

MCDisks == {Populated(v) : v \in {Vol("FAT16", 2, 4, 2), Vol("FAT32", 2, 5, 0)}}
=============================================================================
