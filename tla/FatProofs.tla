------------------------------ MODULE FatProofs ------------------------------
(***************************************************************************)
(* What is proved of the window, the FAT and the chains of FatFs: for every *)
(* size of volume and sector, and wherever a write fails or the power is    *)
(* lost.                                                                   *)
(*                                                                         *)
(* First the window (MoveWindow) and one entry of the FAT (PutFat).  Then   *)
(* the steps of the functions keep Sound, of module FatWindow, one by one;  *)
(* remove_chain and the search of create_chain are loops of such steps, and *)
(* an induction on the turns adds these up (Least, Induct).                *)
(***************************************************************************)
EXTENDS FatWindow, TLAPS, WellFoundedInduction, FiniteSetTheorems

\* What the functions of the FAT leave alone: all but the window, and ret.
Kin(s, t) ==
    /\ DOMAIN t = DOMAIN s /\ DOMAIN t.fs = DOMAIN s.fs /\ DOMAIN t.fault = DOMAIN s.fault
    /\ \A f \in DOMAIN s.fs \ {"win", "winsect", "wflag"} : t.fs[f] = s.fs[f]
    /\ DOMAIN t.disk = DOMAIN s.disk
    /\ t.fault.kind = s.fault.kind /\ t.fault.at = s.fault.at
Same(s, t) == Kin(s, t) /\ t.ret = s.ret

WriteSector(s, w, x) == disk_write(s, <<w>>, x)

\* A sector is written, unless that fails or the power is lost.
Wrote(s, w, x, t) ==
    /\ Fields(t) /\ t.io = s.io + 1 /\ t.fs = s.fs /\ t.ret = s.ret
    /\ DOMAIN t = DOMAIN s /\ DOMAIN t.fault = DOMAIN s.fault
    /\ t.fault.kind = s.fault.kind /\ t.fault.at = s.fault.at
    /\ t.res \in {"OK", "DISK_ERR"} /\ (Sick(t) <=> Sick(s))
    /\ t.res = "DISK_ERR" => s.fault.kind = "write"
    /\ \E kept \in {0, 1} :
          /\ Lost(s) \/ t.res = "DISK_ERR" => kept = 0
          /\ ~Lost(t) /\ t.res = "OK" => kept = 1
          /\ t.disk = [y \in DOMAIN s.disk |-> IF y = x /\ kept = 1 THEN w ELSE s.disk[y]]

\* disk_write of one sector changes that sector, or nothing.
LEMMA WriteOne ==
    ASSUME NEW s, Fields(s), NEW w, NEW x \in Nat, NEW t, t = WriteSector(s, w, x)
    PROVE  Wrote(s, w, x, t)
<1>1. Len(<<w>>) = 1 /\ <<w>>[1] = w OBVIOUS
<1>2. Kept(s, 1) = IF s.fault.at = s.io + 1 /\ s.fault.kind \in {"write", "power"} THEN 0
                       ELSE IF Lost(s) THEN 0 ELSE 1
  BY DEF Kept, Hit, Lost, Fields
<1>3. Hit(s, {"write"}, 1) <=> s.fault.at = s.io + 1 /\ s.fault.kind = "write"
  BY DEF Hit, Fields
<1>4. Hit(s, {"write", "power"}, 1) => s.fault.kind # "read"
  BY DEF Hit, Fields
<1>5. t.io = s.io + 1 /\ t.fs = s.fs /\ t.ret = s.ret /\ DOMAIN t = DOMAIN s
  BY <1>1 DEF WriteSector, disk_write, Fields
<1>9. t.fault = [s.fault EXCEPT !.met = @ \/ Hit(s, {"write", "power"}, 1)]
  BY <1>1 DEF WriteSector, disk_write, Fields
<1>10. /\ /\ DOMAIN t.fault = DOMAIN s.fault /\ t.fault.kind = s.fault.kind
       /\ t.fault.at = s.fault.at
       /\ t.fault.met = (s.fault.met \/ Hit(s, {"write", "power"}, 1))
  BY <1>9 DEF Fields
<1>6. t.disk = [y \in DOMAIN s.disk |-> IF y \in x..(x + Kept(s, 1) - 1) THEN <<w>>[y - x + 1] ELSE s.disk[y]]
  BY <1>1 DEF WriteSector, disk_write, Fields
<1>7. t.res = IF Hit(s, {"write"}, 1) THEN "DISK_ERR" ELSE "OK"
  BY <1>1 DEF WriteSector, disk_write, Fields
<1>8. t.fault.met \in BOOLEAN /\ (Sick(t) <=> Sick(s))
  BY <1>4, <1>10 DEF Sick, Fields
<1>11. t.disk = [y \in DOMAIN s.disk |-> IF y = x /\ Kept(s, 1) = 1 THEN w ELSE s.disk[y]]
  BY <1>1, <1>2, <1>6
<1>12. Fields(t)
  BY <1>5, <1>8, <1>10 DEF Fields
<1>13. t.res \in {"OK", "DISK_ERR"}
  BY <1>7
<1>17. t.res = "DISK_ERR" => s.fault.kind = "write"
  BY <1>3, <1>7
<1>14. Kept(s, 1) \in {0, 1}
  BY <1>2
<1>15. Lost(s) \/ t.res = "DISK_ERR" => Kept(s, 1) = 0
  BY <1>2, <1>3, <1>7
<1>16. ~Lost(t) /\ t.res = "OK" => Kept(s, 1) = 1
  <2>1. SUFFICES ASSUME ~Lost(t), t.res = "OK" PROVE Kept(s, 1) = 1
    OBVIOUS
  <2>2. ~Lost(s)
    BY <2>1, <1>5, <1>10 DEF Lost, Fields
  <2>3. ~(s.fault.at = s.io + 1 /\ s.fault.kind = "power")
    BY <2>1, <1>5, <1>10 DEF Lost, Fields
  <2>4. ~(s.fault.at = s.io + 1 /\ s.fault.kind = "write")
    BY <2>1, <1>3, <1>7
  <2> QED BY <2>2, <2>3, <2>4, <1>2
<1> QED BY <1>5, <1>8, <1>10, <1>11, <1>12, <1>13, <1>14, <1>15, <1>16, <1>17 DEF Wrote

-----------------------------------------------------------------------------
\* Power that was lost stays lost.
LEMMA KinLost == ASSUME NEW s, NEW t, Lost(s), Kin(s, t), Fields(s), Fields(t), s.io <= t.io
                  PROVE  Lost(t)
BY DEF Lost, Kin, Fields

SameGeo(s, t) ==
    /\ t.fs.fatbase = s.fs.fatbase /\ t.fs.fsize = s.fs.fsize /\ t.fs.n_fats = s.fs.n_fats
    /\ t.fs.n_fatent = s.fs.n_fatent /\ t.fs.free_clust = s.fs.free_clust
    /\ t.fs.last_clust = s.fs.last_clust /\ t.fs.fs_type = s.fs.fs_type
    /\ t.fs.fsi_flag = s.fs.fsi_flag /\ t.fs.fsi_sector = s.fs.fsi_sector
    /\ Copies(t.fs) = Copies(s.fs) /\ ClustersOf(t.fs) = ClustersOf(s.fs)
    /\ FatArea(t.fs) = FatArea(s.fs)

\* What keeps all but the window keeps the geometry of the volume ...
LEMMA KinGeometry ==
    ASSUME NEW s, NEW t, Fields(s), Fields(t), Kin(s, t)
    PROVE  SameGeo(s, t)
<1>1. /\ t.fs.fatbase = s.fs.fatbase /\ t.fs.fsize = s.fs.fsize /\ t.fs.n_fats = s.fs.n_fats
      /\ t.fs.n_fatent = s.fs.n_fatent /\ t.fs.free_clust = s.fs.free_clust
      /\ t.fs.last_clust = s.fs.last_clust /\ t.fs.fs_type = s.fs.fs_type
      /\ t.fs.fsi_flag = s.fs.fsi_flag /\ t.fs.fsi_sector = s.fs.fsi_sector
  BY DEF Fields, Kin
<1>2. /\ Copies(t.fs) = Copies(s.fs) /\ ClustersOf(t.fs) = ClustersOf(s.fs)
      /\ FatArea(t.fs) = FatArea(s.fs)
  BY <1>1 DEF Copies, ClustersOf, FatArea
<1> QED BY <1>1, <1>2 DEF SameGeo

\* ... and the volume stays one that fits on the card.
LEMMA KinKept ==
    ASSUME NEW s, NEW t, Fields(s), Fields(t), Kin(s, t), Fits(s.fs, DOMAIN s.disk)
    PROVE  Fits(t.fs, DOMAIN t.disk)
<1>1. SameGeo(s, t)
  BY KinGeometry
<1>2. /\ t.fs.fatbase = s.fs.fatbase /\ t.fs.fsize = s.fs.fsize /\ t.fs.n_fats = s.fs.n_fats
      /\ t.fs.n_fatent = s.fs.n_fatent
      /\ t.fs.fs_type = s.fs.fs_type /\ t.fs.fsi_sector = s.fs.fsi_sector
      /\ Copies(t.fs) = Copies(s.fs) /\ ClustersOf(t.fs) = ClustersOf(s.fs)
      /\ FatArea(t.fs) = FatArea(s.fs)
  BY <1>1 DEF SameGeo
<1>3. DOMAIN t.disk = DOMAIN s.disk
  BY DEF Kin
<1> QED BY <1>2, <1>3 DEF Fits

\* The same three facts, when ret is kept too.
LEMMA SameLost == ASSUME NEW s, NEW t, Lost(s), Same(s, t), Fields(s), Fields(t), s.io <= t.io
                  PROVE  Lost(t)
BY KinLost DEF Same

\* The geometry, likewise.
LEMMA SameGeometry ==
    ASSUME NEW s, NEW t, Fields(s), Fields(t), Same(s, t)
    PROVE  SameGeo(s, t)
BY KinGeometry DEF Same

\* The fit, likewise.
LEMMA GeometryKept ==
    ASSUME NEW s, NEW t, Fields(s), Fields(t), Same(s, t), Fits(s.fs, DOMAIN s.disk)
    PROVE  Fits(t.fs, DOMAIN t.disk)
BY KinKept DEF Same

\* Both hold of two steps when they hold of each.
LEMMA KinTrans ==
    ASSUME NEW s, NEW t, NEW u, Kin(s, t), Kin(t, u) PROVE Kin(s, u)
BY DEF Kin

\* Likewise, with ret.
LEMMA SameTrans ==
    ASSUME NEW s, NEW t, NEW u, Same(s, t), Same(t, u) PROVE Same(s, u)
BY DEF Same, Kin

\* The copy of a sector is written.
Mirrored(s, t) ==
    /\ Volume(t) /\ Same(s, t) /\ t.fs = s.fs /\ t.res = "OK" /\ t.io >= s.io
    /\ \A y \in DOMAIN s.disk \ Copies(s.fs) : t.disk[y] = s.disk[y]
    /\ Lost(s) => t.disk = s.disk
    /\ Sick(t) <=> Sick(s)

\* Writing the second copy of a FAT sector changes nothing else.
LEMMA MirrorOne ==
    ASSUME NEW s, Volume(s), s.res = "OK", NEW x \in Nat, x >= s.fs.fatbase,
           NEW m, m = Mirror(s, x)
    PROVE  Mirrored(s, m)
<1>1. CASE ~(x < s.fs.fatbase + s.fs.fsize /\ s.fs.n_fats > 1)
  <2>1. m = s
    BY <1>1 DEF Mirror
  <2>2. Same(s, s) /\ s.io >= s.io
    BY DEF Same, Kin, Volume, Fields
  <2> QED BY <2>1, <2>2 DEF Mirrored
<1>2. CASE x < s.fs.fatbase + s.fs.fsize /\ s.fs.n_fats > 1
  <2> PICK u : u = WriteSector(s, s.fs.win, x + s.fs.fsize)
    OBVIOUS
  <2> PICK t : t = Set(u, "OK")
    OBVIOUS
  <2>1. Mirror(s, x) = t
    BY <1>2 DEF Mirror, WriteSector
  <2>2. x + s.fs.fsize \in Nat /\ x + s.fs.fsize \in Copies(s.fs)
    BY <1>2 DEF Volume, Fits, Copies
  <2>0. Wrote(s, s.fs.win, x + s.fs.fsize, u)
    BY <2>2, WriteOne DEF Volume
  <2>3. /\ Fields(u) /\ u.io = s.io + 1 /\ u.fs = s.fs /\ u.ret = s.ret
        /\ DOMAIN u = DOMAIN s /\ DOMAIN u.fault = DOMAIN s.fault
        /\ u.fault.kind = s.fault.kind /\ u.fault.at = s.fault.at
        /\ (Sick(u) <=> Sick(s))
    BY <2>0 DEF Wrote
  <2>4. \E kept \in {0, 1} :
          /\ Lost(s) => kept = 0
          /\ u.disk = [y \in DOMAIN s.disk |->
                         IF y = x + s.fs.fsize /\ kept = 1 THEN s.fs.win ELSE s.disk[y]]
    BY <2>0 DEF Wrote
  <2>5. /\ t.io = u.io /\ t.fs = u.fs /\ t.ret = u.ret /\ t.disk = u.disk /\ t.fault = u.fault
        /\ DOMAIN t = DOMAIN u /\ t.res = "OK"
    BY <2>3 DEF Set, Fields
  <2>6. PICK kept \in {0, 1} :
          /\ Lost(s) => kept = 0
          /\ u.disk = [y \in DOMAIN s.disk |->
                         IF y = x + s.fs.fsize /\ kept = 1 THEN s.fs.win ELSE s.disk[y]]
    BY <2>4
  <2>7. Fields(t) /\ (Sick(t) <=> Sick(s))
    BY <2>3, <2>5 DEF Fields, Sick
  <2>8. DOMAIN t.disk = DOMAIN s.disk /\ t.disk = [y \in DOMAIN t.disk |-> t.disk[y]]
    BY <2>5, <2>6
  <2>9. Volume(t)
    BY <2>3, <2>5, <2>7, <2>8 DEF Volume
  <2>10. Same(s, t)
    BY <2>3, <2>5, <2>8 DEF Same, Kin
  <2>11. \A y \in DOMAIN s.disk \ Copies(s.fs) : t.disk[y] = s.disk[y]
    BY <2>2, <2>5, <2>6
  <2>12. Lost(s) => t.disk = s.disk
    BY <2>5, <2>6 DEF Volume
  <2>13. t.io >= s.io
    BY <2>3, <2>5 DEF Volume, Fields
  <2> QED BY <2>1, <2>3, <2>5, <2>7, <2>9, <2>10, <2>11, <2>12, <2>13 DEF Mirrored
<1> QED BY <1>1, <1>2

\* The dirty window is written back.
WroteBack(s, t) ==
    /\ Volume(t) /\ Same(s, t) /\ t.io >= s.io
    /\ t.fs.win = s.fs.win /\ t.fs.winsect = s.fs.winsect
    /\ Sick(t) <=> Sick(s)
    /\ Lost(s) => t.disk = s.disk
    /\ t.res = "DISK_ERR" => s.fault.kind = "write"
    /\ \/ t.res = "DISK_ERR" /\ t.disk = s.disk /\ t.fs.wflag = s.fs.wflag
       \/ /\ t.res = "OK" /\ t.fs.wflag = FALSE
          /\ \/ Lost(t) /\ \A y \in DOMAIN s.disk \ Copies(s.fs) : t.disk[y] = s.disk[y]
             \/ \A y \in DOMAIN s.disk \ Copies(s.fs) :
                    t.disk[y] = IF y = s.fs.winsect THEN s.fs.win ELSE s.disk[y]

\* The write-back of move_window puts the window in its sector, or fails before it
\* has changed anything, or loses the power.
LEMMA WriteBackOne ==
    ASSUME NEW s, Volume(s), s.fs.winsect \in Nat, s.fs.winsect >= s.fs.fatbase,
           NEW t, t = WriteBack(s)
    PROVE  WroteBack(s, t)
<1> PICK u : u = WriteSector(s, s.fs.win, s.fs.winsect)
  OBVIOUS
<1> PICK v : v = [u EXCEPT !.fs.wflag = FALSE]
  OBVIOUS
<1> PICK w : w = Mirror(v, u.fs.winsect)
  OBVIOUS
<1>1. t = IF u.res = "OK" THEN w ELSE u
  BY DEF WriteBack, Then, With, WriteSector
<1>2. Wrote(s, s.fs.win, s.fs.winsect, u)
  BY WriteOne DEF Volume
<1>3. /\ Fields(u) /\ u.io = s.io + 1 /\ u.fs = s.fs /\ u.ret = s.ret
      /\ DOMAIN u = DOMAIN s /\ DOMAIN u.fault = DOMAIN s.fault
      /\ u.fault.kind = s.fault.kind /\ u.fault.at = s.fault.at
      /\ u.res \in {"OK", "DISK_ERR"} /\ (Sick(u) <=> Sick(s))
      /\ u.res = "DISK_ERR" => s.fault.kind = "write"
  BY <1>2 DEF Wrote
<1>4. PICK kept \in {0, 1} :
          /\ Lost(s) \/ u.res = "DISK_ERR" => kept = 0
          /\ ~Lost(u) /\ u.res = "OK" => kept = 1
          /\ u.disk = [y \in DOMAIN s.disk |->
                          IF y = s.fs.winsect /\ kept = 1 THEN s.fs.win ELSE s.disk[y]]
  BY <1>2 DEF Wrote
<1>5. u.io >= s.io
  BY <1>3 DEF Volume, Fields
<1>6. DOMAIN u.disk = DOMAIN s.disk /\ u.disk = [y \in DOMAIN u.disk |-> u.disk[y]]
  BY <1>4
<1>7. Same(s, u)
  BY <1>3, <1>6 DEF Same, Kin
<1>8. Volume(u)
  BY <1>3, <1>6 DEF Volume
<1>9. kept = 0 => u.disk = s.disk
  BY <1>4 DEF Volume
<1>10. CASE u.res = "DISK_ERR"
  <2>1. t = u
    BY <1>1, <1>10
  <2>2. u.disk = s.disk
    BY <1>4, <1>9, <1>10
  <2> QED BY <2>1, <2>2, <1>10, <1>3, <1>5, <1>7, <1>8 DEF WroteBack
<1>11. CASE u.res = "OK"
  <2>1. t = w
    BY <1>1, <1>11
  <2>2. /\ DOMAIN v = DOMAIN u /\ DOMAIN v.fs = DOMAIN u.fs /\ v.disk = u.disk /\ v.res = u.res
        /\ v.ret = u.ret /\ v.io = u.io /\ v.fault = u.fault
        /\ v.fs = [u.fs EXCEPT !.wflag = FALSE]
    BY <1>3 DEF Fields
  <2>3. /\ v.fs.wflag = FALSE /\ v.fs.win = u.fs.win /\ v.fs.winsect = u.fs.winsect
        /\ \A f \in DOMAIN u.fs \ {"wflag"} : v.fs[f] = u.fs[f]
    BY <1>3, <2>2 DEF Fields
  <2>4. Same(u, v)
    BY <2>2, <2>3 DEF Same, Kin
  <2>5. Fields(v) /\ (Sick(v) <=> Sick(u)) /\ (Lost(v) <=> Lost(u))
    BY <1>3, <2>2, <2>3 DEF Fields, Sick, Lost
  <2>6. Volume(v)
    <3>1. Fields(u) /\ Fits(u.fs, DOMAIN u.disk) /\ u.disk = [y \in DOMAIN u.disk |-> u.disk[y]]
      BY <1>8 DEF Volume
    <3>2. Fits(v.fs, DOMAIN v.disk)
      BY <3>1, <2>4, <2>5, GeometryKept
    <3>3. v.disk = [y \in DOMAIN v.disk |-> v.disk[y]]
      BY <3>1, <2>2
    <3> QED BY <3>2, <3>3, <2>5 DEF Volume
  <2>7. v.fs.fatbase = s.fs.fatbase /\ Copies(v.fs) = Copies(s.fs)
    <3>1. Same(s, v) /\ Fields(s)
      BY <1>7, <2>4, SameTrans DEF Volume
    <3> QED BY <3>1, <2>5, SameGeometry DEF SameGeo
  <2>8. Mirrored(v, w)
    BY <1>3, <1>11, <2>2, <2>6, <2>7, MirrorOne
  <2>9. /\ Volume(w) /\ Same(v, w) /\ w.fs = v.fs /\ w.res = "OK" /\ w.io >= v.io
        /\ \A y \in DOMAIN v.disk \ Copies(v.fs) : w.disk[y] = v.disk[y]
        /\ Lost(v) => w.disk = v.disk
        /\ (Sick(w) <=> Sick(v))
    BY <2>8 DEF Mirrored
  <2>10. Same(s, w)
    BY <1>7, <2>4, <2>9, SameTrans
  <2>11. w.io >= s.io
    BY <1>5, <2>2, <2>9, <1>8 DEF Volume, Fields
  <2>12. w.fs.win = s.fs.win /\ w.fs.winsect = s.fs.winsect /\ w.fs.wflag = FALSE
    BY <1>3, <2>3, <2>9
  <2>13. Sick(w) <=> Sick(s)
    BY <1>3, <2>5, <2>9
  <2>14. Lost(s) => Lost(u)
    BY <1>3, <1>5, <1>7, SameLost DEF Volume
  <2>15. Lost(s) => w.disk = s.disk
    BY <1>4, <1>9, <2>2, <2>5, <2>9, <2>14
  <2>16. \A y \in DOMAIN s.disk \ Copies(s.fs) : w.disk[y] = u.disk[y]
    BY <1>6, <2>2, <2>7, <2>9
  <2>17. Lost(u) => Lost(w)
    BY <1>3, <2>2, <2>4, <2>5, <2>9, <2>6, SameTrans, SameLost DEF Volume
  <2>18. \/ Lost(w) /\ \A y \in DOMAIN s.disk \ Copies(s.fs) : w.disk[y] = s.disk[y]
         \/ \A y \in DOMAIN s.disk \ Copies(s.fs) :
                    w.disk[y] = IF y = s.fs.winsect THEN s.fs.win ELSE s.disk[y]
    <3>1. CASE kept = 0
      BY <3>1, <1>4, <1>9, <1>11, <2>16, <2>17
    <3>2. CASE kept = 1
      BY <3>2, <1>4, <2>16
    <3> QED BY <3>1, <3>2
  <2>19. Volume(w) /\ w.res = "OK"
    BY <2>9
  <2>20. WroteBack(s, w)
    BY <2>10, <2>11, <2>12, <2>13, <2>15, <2>18, <2>19 DEF WroteBack
  <2> QED BY <2>1, <2>20
<1> QED BY <1>3, <1>10, <1>11

\* A sector is read to the window.
Loaded(s, x, t) ==
    /\ Volume(t) /\ Same(s, t) /\ t.io >= s.io /\ t.disk = s.disk
    /\ t.fs.win = s.disk[x] /\ t.fs.wflag = s.fs.wflag
    /\ Sick(s) => Sick(t)
    /\ \/ t.res = "OK" /\ t.fs.winsect = x /\ (Sick(t) <=> Sick(s))
       \/ t.res = "DISK_ERR" /\ Sick(t)

\* The load of move_window brings a sector to the window and leaves the card alone;
\* when the read fails, the window is that of another sector.
LEMMA LoadOne ==
    ASSUME NEW s, Volume(s), NEW x, NEW t, t = Load(s, x)
    PROVE  Loaded(s, x, t)
<1> PICK r : r = disk_read(s, 1)
  OBVIOUS
<1>1. Fields(s)
  BY DEF Volume
<1>2. Hit(s, {"read"}, 1) <=> s.fault.kind = "read" /\ s.fault.at = s.io + 1
  BY <1>1 DEF Hit, Fields
<1>3. r = [s EXCEPT !.io = @ + 1, !.fault.met = @ \/ Hit(s, {"read"}, 1),
                    !.res = IF Hit(s, {"read"}, 1) THEN "DISK_ERR" ELSE "OK"]
  BY DEF disk_read
<1>4. /\ /\ r.io = s.io + 1 /\ r.fs = s.fs /\ r.ret = s.ret
      /\ r.disk = s.disk /\ DOMAIN r = DOMAIN s
      /\ r.res = IF Hit(s, {"read"}, 1) THEN "DISK_ERR" ELSE "OK"
  BY <1>1, <1>3 DEF Fields
<1>5. r.fault = [s.fault EXCEPT !.met = @ \/ Hit(s, {"read"}, 1)]
  BY <1>1, <1>3 DEF Fields
<1>6. /\ /\ DOMAIN r.fault = DOMAIN s.fault /\ r.fault.kind = s.fault.kind
      /\ r.fault.at = s.fault.at
      /\ r.fault.met = (s.fault.met \/ Hit(s, {"read"}, 1))
  BY <1>1, <1>5 DEF Fields
<1>7. t = [r EXCEPT !.fs.win = r.disk[x], !.fs.winsect = IF r.res = "OK" THEN x ELSE @]
  BY DEF Load, With
<1>8. /\ t.io = r.io /\ t.ret = r.ret /\ t.disk = r.disk /\ DOMAIN t = DOMAIN r /\ t.res = r.res
      /\ t.fault = r.fault
  BY <1>1, <1>4, <1>7 DEF Fields
<1> PICK at : at = IF r.res = "OK" THEN x ELSE s.fs.winsect
  OBVIOUS
<1>18. t = [r EXCEPT !.fs.win = r.disk[x], !.fs.winsect = at]
  BY <1>1, <1>4, <1>7 DEF Fields
<1>9. t.fs = [s.fs EXCEPT !.win = s.disk[x], !.winsect = at]
  BY <1>1, <1>4, <1>18 DEF Fields
<1>10. /\ DOMAIN t.fs = DOMAIN s.fs /\ t.fs.win = s.disk[x] /\ t.fs.wflag = s.fs.wflag
       /\ t.fs.winsect = IF r.res = "OK" THEN x ELSE s.fs.winsect
       /\ \A f \in DOMAIN s.fs \ {"win", "winsect"} : t.fs[f] = s.fs[f]
  BY <1>1, <1>9 DEF Fields
<1>11. Same(s, t)
  BY <1>4, <1>6, <1>8, <1>10 DEF Same, Kin
<1>12. t.fault.met \in BOOLEAN /\ (Sick(s) => Sick(t))
  BY <1>1, <1>6, <1>8 DEF Fields, Sick
<1>13. Fields(t)
  BY <1>1, <1>4, <1>6, <1>8, <1>10, <1>12 DEF Fields
<1>14. Volume(t)
  <2>1. Fits(t.fs, DOMAIN t.disk)
    BY <1>1, <1>11, <1>13, GeometryKept DEF Volume
  <2>2. t.disk = [y \in DOMAIN t.disk |-> t.disk[y]]
    BY <1>4, <1>8 DEF Volume
  <2> QED BY <2>1, <2>2, <1>13 DEF Volume
<1>15. t.io >= s.io
  BY <1>1, <1>4, <1>8 DEF Fields
<1>16. CASE Hit(s, {"read"}, 1)
  <2>1. t.res = "DISK_ERR"
    BY <1>16, <1>4, <1>8
  <2>2. Sick(t)
    BY <1>16, <1>2, <1>6, <1>8 DEF Sick
  <2> QED BY <2>1, <2>2, <1>4, <1>8, <1>10, <1>11, <1>12, <1>14, <1>15 DEF Loaded
<1>17. CASE ~Hit(s, {"read"}, 1)
  <2>1. t.res = "OK" /\ t.fs.winsect = x
    BY <1>17, <1>4, <1>8, <1>10
  <2>2. Sick(t) <=> Sick(s)
    BY <1>17, <1>1, <1>6, <1>8 DEF Sick, Fields
  <2> QED BY <2>1, <2>2, <1>4, <1>8, <1>10, <1>11, <1>12, <1>14, <1>15 DEF Loaded
<1> QED BY <1>16, <1>17

\* The window is moved to a sector, or written back when that is 0.
Moved(s, x, t) ==
    /\ Volume(t) /\ Same(s, t) /\ t.io >= s.io
    /\ t.res \in {"OK", "DISK_ERR"}
    /\ Lost(s) => t.disk = s.disk
    /\ Sick(s) => Sick(t)
    /\ Sick(t) => Sick(s) \/ t.res = "DISK_ERR"
    /\ t.res = "DISK_ERR" => s.fault.kind \in {"read", "write"}
    /\ ~Sick(t) => Aimed(t) /\ (t.res = "DISK_ERR" => t.fs.wflag)
    /\ t.res = "OK" => IF x # 0 THEN t.fs.winsect = x ELSE ~t.fs.wflag
    /\ Healthy(s) =>
          /\ Card(t) \in {Card(s), Shown(s)}
          /\ ~Lost(t) /\ ~Sick(t) => Healthy(t) /\ Shown(t) = Shown(s)

OnlyRes(s, r, t) ==
    /\ t.res = r /\ t.disk = s.disk /\ t.fs = s.fs /\ t.ret = s.ret /\ t.io = s.io
    /\ t.fault = s.fault /\ DOMAIN t = DOMAIN s

\* Set changes the result only.
LEMMA SetOne == ASSUME NEW s, Fields(s), NEW r, NEW t, t = Set(s, r) PROVE OnlyRes(s, r, t)
BY DEF Set, Fields, OnlyRes

\* A state of the same window, disk and fault.
Twin(s, t) ==
    /\ Volume(t) /\ Kin(s, t) /\ t.io = s.io /\ t.disk = s.disk
    /\ (Lost(t) <=> Lost(s)) /\ (Sick(t) <=> Sick(s)) /\ (Aimed(t) <=> Aimed(s))
    /\ (Healthy(t) <=> Healthy(s)) /\ Card(t) = Card(s) /\ Shown(t) = Shown(s)
    /\ t.fs.winsect = s.fs.winsect /\ t.fs.win = s.fs.win /\ t.fs.wflag = s.fs.wflag

\* States of the same window, card and fault are alike in all that is said of them.
LEMMA TwinOne ==
    ASSUME NEW s, Volume(s), NEW t, t.disk = s.disk, t.fs = s.fs, t.io = s.io, t.fault = s.fault,
           DOMAIN t = DOMAIN s
    PROVE  Twin(s, t)
<1>2. Fields(t)
  BY DEF Volume, Fields
<1>3. Kin(s, t)
  BY DEF Kin
<1>4. Volume(t)
  BY <1>2 DEF Volume
<1>5. (Lost(t) <=> Lost(s)) /\ (Sick(t) <=> Sick(s)) /\ (Aimed(t) <=> Aimed(s))
  BY DEF Lost, Sick, Aimed
<1>6. Healthy(t) <=> Healthy(s)
  BY <1>5 DEF Healthy
<1>7. Card(t) = Card(s) /\ Shown(t) = Shown(s)
  BY DEF Card, Shown
<1>8. t.fs.winsect = s.fs.winsect /\ t.fs.win = s.fs.win /\ t.fs.wflag = s.fs.wflag
  OBVIOUS
<1> QED BY <1>3, <1>4, <1>5, <1>6, <1>7, <1>8 DEF Twin

\* After the result was set.
LEMMA SetTwin ==
    ASSUME NEW s, Volume(s), NEW r, NEW t, OnlyRes(s, r, t)
    PROVE  Twin(s, t) /\ t.res = r /\ t.ret = s.ret
BY TwinOne DEF OnlyRes

OnlyRet(s, r, t) ==
    /\ t.ret = r /\ t.disk = s.disk /\ t.fs = s.fs /\ t.res = s.res /\ t.io = s.io
    /\ t.fault = s.fault /\ DOMAIN t = DOMAIN s

\* After ret was set.
LEMMA RetTwin ==
    ASSUME NEW s, Volume(s), NEW r, NEW t, t = [s EXCEPT !.ret = r]
    PROVE  Twin(s, t) /\ t.ret = r /\ t.res = s.res
<1>1. OnlyRet(s, r, t)
  BY DEF OnlyRet, Volume, Fields
<1> QED BY <1>1, TwinOne DEF OnlyRet

\* A clean window shows the card as it is.
LEMMA CleanShown == ASSUME NEW s, Fields(s), s.fs.wflag = FALSE PROVE Shown(s) = Card(s)
BY DEF Shown, Card

\* The flag of the window is a Boolean.
LEMMA FlagType == ASSUME NEW s, Volume(s) PROVE s.fs.wflag = TRUE \/ s.fs.wflag = FALSE
BY DEF Volume, Fields

\* What was written back is what was shown.
LEMMA ShownWritten ==
    ASSUME NEW s, NEW t, Volume(s), Volume(t), Same(s, t), s.fs.wflag = TRUE,
           \A y \in DOMAIN s.disk \ Copies(s.fs) :
               t.disk[y] = IF y = s.fs.winsect THEN s.fs.win ELSE s.disk[y]
    PROVE  Card(t) = Shown(s)
<1>1. SameGeo(s, t)
  BY SameGeometry DEF Volume
<1>2. Copies(t.fs) = Copies(s.fs) /\ DOMAIN t.disk = DOMAIN s.disk
  BY <1>1 DEF SameGeo, Same, Kin
<1> QED BY <1>2 DEF Card, Shown

\* What changes the copies of the FAT only leaves the card as it was.
LEMMA CardSame ==
    ASSUME NEW s, NEW t, Volume(s), Volume(t), Same(s, t),
           \A y \in DOMAIN s.disk \ Copies(s.fs) : t.disk[y] = s.disk[y]
    PROVE  Card(t) = Card(s)
<1>1. SameGeo(s, t)
  BY SameGeometry DEF Volume
<1>2. Copies(t.fs) = Copies(s.fs) /\ DOMAIN t.disk = DOMAIN s.disk
  BY <1>1 DEF SameGeo, Same, Kin
<1> QED BY <1>2 DEF Card

\* The window is written back, if it is dirty.
Flushed(s, m) ==
    /\ Volume(m) /\ Same(s, m) /\ m.io >= s.io /\ Aimed(m)
    /\ Lost(s) => m.disk = s.disk
    /\ Sick(m) <=> Sick(s)
    /\ m.res = "DISK_ERR" => s.fault.kind = "write"
    /\ \/ m.res = "DISK_ERR" /\ m.fs.wflag = TRUE
       \/ m.res = "OK" /\ m.fs.wflag = FALSE
    /\ Healthy(s) => /\ Card(m) \in {Card(s), Shown(s)}
                     /\ ~Lost(m) => Healthy(m) /\ Shown(m) = Shown(s)

\* move_window never changes what the program sees, and what it leaves on the card
\* is what was there, or what the program saw, whatever fails: no third thing.
THEOREM MoveWindow ==
    ASSUME NEW s, Volume(s), Aimed(s), NEW x \in DOMAIN s.disk \cup {0},
           NEW t, t = move_window(s, x)
    PROVE  Moved(s, x, t)
<1>1. Fields(s) /\ Same(s, s) /\ s.io >= s.io
  BY DEF Volume, Fields, Same, Kin
<1>2. CASE s.fs.winsect = x
  <2>1. t = Set(s, "OK")
    BY <1>2 DEF move_window
  <2>2. Twin(s, t) /\ t.res = "OK" /\ t.ret = s.ret
    BY <2>1, <1>1, SetOne, SetTwin
  <2>3. ~Sick(t) => Aimed(t)
    BY <2>2 DEF Twin
  <2>4. IF x # 0 THEN t.fs.winsect = x ELSE ~t.fs.wflag
    BY <1>2, <2>2 DEF Twin, Aimed, Volume, Fits
  <2>5. Healthy(s) => /\ Card(t) \in {Card(s), Shown(s)}
                      /\ ~Lost(t) /\ ~Sick(t) => Healthy(t) /\ Shown(t) = Shown(s)
    BY <2>2 DEF Twin
  <2>6. Volume(t) /\ Same(s, t) /\ t.io >= s.io /\ t.disk = s.disk /\ (Sick(t) <=> Sick(s))
    BY <1>1, <2>2 DEF Twin, Same
  <2> QED BY <2>2, <2>3, <2>4, <2>5, <2>6 DEF Moved
<1>3. CASE s.fs.winsect # x
  <2> PICK m : m = IF s.fs.wflag THEN WriteBack(s) ELSE Set(s, "OK")
    OBVIOUS
  <2>1. t = IF m.res = "OK" THEN IF x = 0 THEN m ELSE Load(m, x) ELSE m
    BY <1>3 DEF move_window, Then, With
  <2>2. ASSUME s.fs.wflag = FALSE PROVE Flushed(s, m)
    <3>1. m = Set(s, "OK")
      BY <2>2
    <3>2. Twin(s, m) /\ m.res = "OK" /\ m.ret = s.ret
      BY <3>1, <1>1, SetOne, SetTwin
    <3>3. m.fs.wflag = FALSE
      BY <2>2, <3>2 DEF Twin
    <3>4. Volume(m) /\ Same(s, m) /\ Aimed(m) /\ (Sick(m) <=> Sick(s)) /\ m.disk = s.disk
      BY <3>2 DEF Twin, Same
    <3>5. m.io >= s.io
      BY <1>1, <3>2 DEF Twin
    <3>6. Healthy(s) => Healthy(m) /\ Card(m) = Card(s) /\ Shown(m) = Shown(s)
      BY <3>2 DEF Twin
    <3> QED BY <3>2, <3>3, <3>4, <3>5, <3>6 DEF Flushed
  <2>3. ASSUME s.fs.wflag = TRUE PROVE Flushed(s, m)
    <3>1. m = WriteBack(s)
      BY <2>3
    <3>2. /\ s.fs.winsect \in Nat /\ s.fs.winsect >= s.fs.fatbase
          /\ s.fs.winsect \in DOMAIN s.disk \ Copies(s.fs)
      BY <2>3 DEF Aimed, Volume, Fits
    <3>3. WroteBack(s, m)
      BY <3>1, <3>2, WriteBackOne
    <3>4. /\ Volume(m) /\ Same(s, m) /\ m.io >= s.io
          /\ m.fs.win = s.fs.win /\ m.fs.winsect = s.fs.winsect
          /\ (Sick(m) <=> Sick(s)) /\ (Lost(s) => m.disk = s.disk)
          /\ m.res = "DISK_ERR" => s.fault.kind = "write"
      BY <3>3 DEF WroteBack
    <3>5. SameGeo(s, m) /\ DOMAIN m.disk = DOMAIN s.disk
      BY <1>1, <3>4, SameGeometry DEF Volume, Same, Kin
    <3>6. m.fs.fatbase = s.fs.fatbase /\ Copies(m.fs) = Copies(s.fs)
      BY <3>5 DEF SameGeo
    <3>7. Aimed(m)
      BY <3>2, <3>4, <3>5, <3>6 DEF Aimed
    <3>8. CASE m.res = "DISK_ERR" /\ m.disk = s.disk /\ m.fs.wflag = s.fs.wflag
      <4>1. Card(m) = Card(s) /\ Shown(m) = Shown(s)
        BY <3>4, <3>6, <3>8 DEF Card, Shown
      <4>2. ~Lost(m) /\ Healthy(s) => Healthy(m)
        BY <2>3, <3>4, <3>7, <3>8 DEF Healthy
      <4>3. m.fs.wflag = TRUE /\ m.res = "DISK_ERR"
        BY <2>3, <3>8
      <4>4. m.io >= s.io
        BY <3>4
      <4> QED BY <3>4, <3>7, <4>1, <4>2, <4>3, <4>4 DEF Flushed
    <3>9. CASE m.res = "OK" /\ m.fs.wflag = FALSE
      <4>1. \/ Lost(m) /\ \A y \in DOMAIN s.disk \ Copies(s.fs) : m.disk[y] = s.disk[y]
            \/ \A y \in DOMAIN s.disk \ Copies(s.fs) :
                    m.disk[y] = IF y = s.fs.winsect THEN s.fs.win ELSE s.disk[y]
        BY <3>3, <3>9 DEF WroteBack
      <4>2. CASE Lost(m) /\ \A y \in DOMAIN s.disk \ Copies(s.fs) : m.disk[y] = s.disk[y]
        <5>1. Card(m) = Card(s)
          BY <3>4, <4>2, CardSame
        <5> QED BY <5>1, <4>2, <3>4, <3>7, <3>9 DEF Flushed
      <4>3. CASE \A y \in DOMAIN s.disk \ Copies(s.fs) :
                    m.disk[y] = IF y = s.fs.winsect THEN s.fs.win ELSE s.disk[y]
        <5>1. Card(m) = Shown(s)
          BY <2>3, <3>4, <4>3, ShownWritten
        <5>2. Shown(m) = Card(m)
          BY <3>4, <3>9, CleanShown DEF Volume
        <5>3. m.disk[m.fs.winsect] = m.fs.win
          BY <3>2, <3>4, <4>3
        <5>4. ~Lost(m) /\ Healthy(s) => Healthy(m)
          BY <3>4, <3>7, <5>3 DEF Healthy
        <5> QED BY <5>1, <5>2, <5>4, <3>4, <3>7, <3>9 DEF Flushed
      <4> QED BY <4>1, <4>2, <4>3
    <3>10. \/ m.res = "DISK_ERR" /\ m.disk = s.disk /\ m.fs.wflag = s.fs.wflag
           \/ m.res = "OK" /\ m.fs.wflag = FALSE
      BY <3>3 DEF WroteBack
    <3> QED BY <3>8, <3>9, <3>10
  <2>4. Flushed(s, m)
    BY <2>2, <2>3, FlagType
  <2>5. /\ Volume(m) /\ Same(s, m) /\ m.io >= s.io /\ Aimed(m)
        /\ (Lost(s) => m.disk = s.disk) /\ (Sick(m) <=> Sick(s))
        /\ m.res = "DISK_ERR" => s.fault.kind = "write"
        /\ \/ m.res = "DISK_ERR" /\ m.fs.wflag = TRUE
           \/ m.res = "OK" /\ m.fs.wflag = FALSE
        /\ Healthy(s) => /\ Card(m) \in {Card(s), Shown(s)}
                         /\ ~Lost(m) => Healthy(m) /\ Shown(m) = Shown(s)
    BY <2>4 DEF Flushed
  <2>6. CASE m.res = "DISK_ERR"
    <3>1. t = m
      BY <2>1, <2>6
    <3> QED BY <3>1, <2>5, <2>6 DEF Moved
  <2>7. CASE m.res = "OK" /\ x = 0
    <3>1. t = m
      BY <2>1, <2>7
    <3> QED BY <3>1, <2>5, <2>7 DEF Moved
  <2>8. CASE m.res = "OK" /\ x # 0
    <3>1. t = Load(m, x)
      BY <2>1, <2>8
    <3>2. Loaded(m, x, t)
      BY <3>1, <2>5, LoadOne
    <3>3. /\ Volume(t) /\ Same(m, t) /\ t.io >= m.io /\ t.disk = m.disk
          /\ t.fs.win = m.disk[x] /\ t.fs.wflag = m.fs.wflag
          /\ (Sick(m) => Sick(t))
          /\ \/ t.res = "OK" /\ t.fs.winsect = x /\ (Sick(t) <=> Sick(m))
             \/ t.res = "DISK_ERR" /\ Sick(t)
      BY <3>2 DEF Loaded
    <3>4. m.fs.wflag = FALSE /\ t.fs.wflag = FALSE
      BY <2>5, <2>8, <3>3
    <3>5. Same(s, t) /\ DOMAIN m.disk = DOMAIN s.disk
      BY <2>5, <3>3, SameTrans DEF Same, Kin
    <3>6. t.io >= s.io
      BY <1>1, <2>5, <3>3 DEF Volume, Fields
    <3>7. Card(t) = Card(m)
      BY <2>5, <3>3, CardSame
    <3>8. Shown(t) = Card(t) /\ Shown(m) = Card(m)
      BY <2>5, <3>3, <3>4, CleanShown DEF Volume
    <3>9. ~Sick(t) => Aimed(t)
      BY <2>8, <3>3, <3>4, <3>5 DEF Aimed
    <3>10. ~Lost(t) => ~Lost(m)
      BY <2>5, <3>3, SameLost DEF Volume
    <3>11. ~Lost(t) /\ ~Sick(t) => Healthy(t)
      BY <3>3, <3>4, <3>9 DEF Healthy
    <3>12. t.res = "DISK_ERR" => Sick(t)
      BY <3>3
    <3>13. t.res \in {"OK", "DISK_ERR"} /\ (t.res = "OK" => t.fs.winsect = x)
      BY <3>3
    <3>14. Lost(s) => t.disk = s.disk
      BY <2>5, <3>3
    <3>15. (Sick(s) => Sick(t)) /\ (Sick(t) => Sick(s) \/ t.res = "DISK_ERR")
      BY <2>5, <3>3
    <3>16. Healthy(s) => /\ Card(t) \in {Card(s), Shown(s)}
                         /\ ~Lost(t) /\ ~Sick(t) => Healthy(t) /\ Shown(t) = Shown(s)
      BY <2>5, <3>7, <3>8, <3>10, <3>11
    <3>17. Volume(t)
      BY <3>3
    <3>18. t.res = "DISK_ERR" => s.fault.kind \in {"read", "write"}
      BY <3>3, <3>5 DEF Sick, Same, Kin
    <3> QED BY <3>18, <2>8, <3>5, <3>6, <3>9, <3>12, <3>13, <3>14, <3>15, <3>16, <3>17 DEF Moved
  <2> QED BY <2>5, <2>6, <2>7, <2>8
<1> QED BY <1>2, <1>3

-----------------------------------------------------------------------------
\* The marks of the FAT are apart.
LEMMA Marks == EOC \in Nat /\ Err \in Nat /\ 1 < EOC /\ EOC < Err
BY SMT DEF EOC, Err

\* A cluster has a cell in a sector of the FAT ...
LEMMA Cells ==
    ASSUME NEW c \in Nat
    PROVE  c % K \in Cell /\ c \div K \in Nat
BY KAssumption, SMT DEF Cell

\* ... that no other cluster has.
LEMMA CellsApart ==
    ASSUME NEW c \in Nat, NEW d \in Nat, c \div K = d \div K, c % K = d % K
    PROVE  c = d
BY KAssumption, SMT

\* The clusters of a volume are those that the functions accept.
LEMMA ClusterNat ==
    ASSUME NEW s, Volume(s), NEW c \in ClustersOf(s.fs)
    PROVE c \in Nat /\ IsClust(s, c)
BY DEF Volume, Fits, ClustersOf, IsClust

\* Where the entry of a cluster is.
LEMMA EntryPlace ==
    ASSUME NEW s, Volume(s), NEW c \in ClustersOf(s.fs)
    PROVE  /\ FatSect(s, c) \in FatArea(s.fs) /\ FatSect(s, c) \in DOMAIN s.disk \ Copies(s.fs)
           /\ FatSect(s, c) # 0 /\ FatSect(s, c) = s.fs.fatbase + c \div K /\ c % K \in Cell
<1>1. c \in Nat
  BY ClusterNat
<1>2. c \div K \in Nat /\ c % K \in Cell
  BY <1>1, Cells
<1>3. FatSect(s, c) = s.fs.fatbase + c \div K
  BY DEF FatSect
<1> PICK q \in Nat : q = c \div K
  BY <1>2
<1>4. q < s.fs.fsize /\ FatSect(s, c) = s.fs.fatbase + q
  BY <1>3 DEF Volume, Fits
<1>5. FatSect(s, c) \in FatArea(s.fs) /\ FatSect(s, c) \notin Copies(s.fs) /\ FatSect(s, c) # 0
  BY <1>4 DEF Volume, Fits, FatArea, Copies
<1>6. FatSect(s, c) \in DOMAIN s.disk
  BY <1>5 DEF Volume, Fits
<1> QED BY <1>2, <1>3, <1>5, <1>6

\* The window at a sector shows what the volume holds there.
LEMMA WindowShows ==
    ASSUME NEW s, Volume(s), Healthy(s), s.fs.winsect \in DOMAIN s.disk \ Copies(s.fs), s.fs.winsect # 0
    PROVE  Shown(s)[s.fs.winsect] = s.fs.win
BY DEF Shown, Healthy, Volume, Fields

\* put_fat changes the entry of the cluster, and nothing else.
Entered(d, x, i, v) == [d EXCEPT ![x] = [@ EXCEPT ![i] = v]]
PutEntry(s, c, v, t) ==
    /\ Volume(t) /\ Same(s, t) /\ t.io >= s.io
    /\ t.res \in {"OK", "DISK_ERR"}
    /\ Lost(s) => t.disk = s.disk
    /\ Sick(s) => Sick(t)
    /\ Sick(t) => Sick(s) \/ t.res = "DISK_ERR"
    /\ t.res = "DISK_ERR" => s.fault.kind \in {"read", "write"}
    /\ ~Sick(t) => Aimed(t)
    /\ Healthy(s) =>
          /\ Card(t) \in {Card(s), Shown(s)}
          /\ ~Lost(t) /\ ~Sick(t) =>
                /\ Healthy(t)
                /\ Shown(t) = IF t.res = "OK" THEN Entered(Shown(s), FatSect(s, c), c % K, v)
                              ELSE Shown(s)

\* put_fat changes one entry of what the program sees, and no more; when it fails,
\* none.
THEOREM PutFat ==
    ASSUME NEW s, Volume(s), Aimed(s), NEW c \in ClustersOf(s.fs), NEW v,
           NEW t, t = put_fat(s, c, v)
    PROVE  PutEntry(s, c, v, t)
<1> PICK x : x = FatSect(s, c)
  OBVIOUS
<1> PICK m : m = move_window(s, x)
  OBVIOUS
<1> PICK w : w = IF m.res = "OK" THEN [m.fs.win EXCEPT ![c % K] = v] ELSE m.fs.win
  OBVIOUS
<1>1. t = [m EXCEPT !.fs.win = IF m.res = "OK" THEN [@ EXCEPT ![c % K] = v] ELSE @,
                    !.fs.wflag = TRUE]
  BY ClusterNat DEF put_fat, With
<1>2. /\ x \in DOMAIN s.disk \ Copies(s.fs) /\ x # 0 /\ x \in FatArea(s.fs)
      /\ x = s.fs.fatbase + c \div K /\ c % K \in Cell
  BY EntryPlace
<1>3. Moved(s, x, m)
  BY <1>2, MoveWindow
<1>4. /\ Volume(m) /\ Same(s, m) /\ m.io >= s.io
      /\ m.res \in {"OK", "DISK_ERR"}
      /\ Lost(s) => m.disk = s.disk
      /\ Sick(s) => Sick(m)
      /\ Sick(m) => Sick(s) \/ m.res = "DISK_ERR"
      /\ m.res = "DISK_ERR" => s.fault.kind \in {"read", "write"}
      /\ ~Sick(m) => Aimed(m) /\ (m.res = "DISK_ERR" => m.fs.wflag)
      /\ m.res = "OK" => m.fs.winsect = x
      /\ Healthy(s) =>
            /\ Card(m) \in {Card(s), Shown(s)}
            /\ ~Lost(m) /\ ~Sick(m) => Healthy(m) /\ Shown(m) = Shown(s)
  BY <1>2, <1>3 DEF Moved
<1>5. Fields(m)
  BY <1>4 DEF Volume
<1>6. t = [m EXCEPT !.fs.win = w, !.fs.wflag = TRUE]
  BY <1>1, <1>5 DEF Fields
<1>7. /\ t.disk = m.disk /\ t.res = m.res /\ t.ret = m.ret /\ t.io = m.io /\ t.fault = m.fault
      /\ DOMAIN t = DOMAIN m
  BY <1>5, <1>6 DEF Fields
<1>8. t.fs = [m.fs EXCEPT !.win = w, !.wflag = TRUE]
  BY <1>5, <1>6 DEF Fields
<1>9. /\ DOMAIN t.fs = DOMAIN m.fs /\ t.fs.win = w /\ t.fs.wflag = TRUE
      /\ t.fs.winsect = m.fs.winsect
      /\ \A f \in DOMAIN m.fs \ {"win", "wflag"} : t.fs[f] = m.fs[f]
  BY <1>5, <1>8 DEF Fields
<1>10. Same(m, t)
  BY <1>7, <1>9 DEF Same, Kin
<1>11. Fields(t) /\ (Sick(t) <=> Sick(m)) /\ (Lost(t) <=> Lost(m))
  BY <1>5, <1>7, <1>9 DEF Fields, Sick, Lost
<1>12. Volume(t)
  <2>1. Fits(t.fs, DOMAIN t.disk)
    BY <1>4, <1>5, <1>10, <1>11, GeometryKept DEF Volume
  <2>2. t.disk = [y \in DOMAIN t.disk |-> t.disk[y]]
    BY <1>4, <1>7 DEF Volume
  <2> QED BY <1>11, <2>1, <2>2 DEF Volume
<1>13. Same(s, t)
  BY <1>4, <1>10, SameTrans
<1>14. SameGeo(s, m) /\ SameGeo(m, t) /\ DOMAIN m.disk = DOMAIN s.disk
  BY <1>4, <1>5, <1>10, <1>11, SameGeometry DEF Volume, Same, Kin
<1>15. /\ Copies(m.fs) = Copies(s.fs) /\ Copies(t.fs) = Copies(s.fs)
       /\ m.fs.fatbase = s.fs.fatbase /\ t.fs.fatbase = s.fs.fatbase
  BY <1>14 DEF SameGeo
<1>16. Card(t) = Card(m)
  BY <1>7, <1>15 DEF Card
<1>17. x >= s.fs.fatbase
  BY <1>2 DEF FatArea
<1>18. CASE m.res = "OK"
  <2>0. t.fs.winsect = x /\ t.fs.winsect \in DOMAIN t.disk
    BY <1>2, <1>4, <1>7, <1>9, <1>14, <1>18
  <2>6. t.fs.winsect >= t.fs.fatbase /\ t.fs.winsect \notin Copies(t.fs)
    BY <2>0, <1>2, <1>15, <1>17
  <2>1. Aimed(t)
    BY <2>0, <2>6 DEF Aimed
  <2>2. w = [m.fs.win EXCEPT ![c % K] = v]
    BY <1>18
  <2>3. ~Lost(t) /\ ~Sick(t) => Healthy(t)
    BY <2>1, <1>9 DEF Healthy
  <2>4. ASSUME Healthy(m)
        PROVE  Shown(t) = Entered(Shown(m), x, c % K, v)
    <3>1. Shown(m)[x] = m.fs.win
      BY <1>2, <1>4, <1>14, <1>15, <1>18, <2>4, WindowShows
    <3>2. Shown(t) = [y \in DOMAIN m.disk \ Copies(m.fs) |-> IF y = x THEN w ELSE m.disk[y]]
      BY <1>4, <1>7, <1>9, <1>15, <1>18 DEF Shown
    <3>3. \A y \in DOMAIN m.disk \ Copies(m.fs) : y # x => Shown(m)[y] = m.disk[y]
      BY <1>4, <1>18 DEF Shown
    <3>4. Shown(m) = [y \in DOMAIN m.disk \ Copies(m.fs) |-> Shown(m)[y]]
      BY DEF Shown
    <3> QED BY <2>2, <3>1, <3>2, <3>3, <3>4 DEF Entered
  <2>5. Healthy(s) /\ ~Lost(t) /\ ~Sick(t) => Shown(t) = Entered(Shown(s), x, c % K, v)
    BY <1>4, <1>11, <2>4
  <2> QED BY <1>4, <1>7, <1>11, <1>12, <1>13, <1>16, <1>18, <2>1, <2>3, <2>5 DEF PutEntry
<1>19. CASE m.res = "DISK_ERR"
  <2>1. w = m.fs.win
    BY <1>19
  <2>2. ~Sick(t) => Aimed(t) /\ m.fs.wflag = TRUE
    BY <1>4, <1>5, <1>7, <1>9, <1>11, <1>15, <1>19 DEF Aimed, Fields
  <2>3. m.fs.wflag = TRUE => Shown(t) = Shown(m)
    BY <1>7, <1>9, <1>15, <2>1 DEF Shown
  <2>4. ~Lost(t) /\ ~Sick(t) => Healthy(t)
    BY <2>2, <1>9 DEF Healthy
  <2>5. Healthy(s) /\ ~Lost(t) /\ ~Sick(t) => Shown(t) = Shown(s)
    BY <1>4, <1>11, <2>2, <2>3
  <2>6. ~Sick(t) => Aimed(t)
    BY <2>2
  <2> QED BY <1>4, <1>7, <1>11, <1>12, <1>13, <1>16, <1>19, <2>4, <2>5, <2>6 DEF PutEntry
<1> QED BY <1>4, <1>18, <1>19

\* What that is on the FAT: one entry changed, and the rest of the volume as it was.
Rest(d, g) == [x \in DOMAIN d \ FatArea(g) |-> d[x]]

OneEntry(s, d, c, v, e) ==
    /\ FatOn(e, s.fs) = [FatOn(d, s.fs) EXCEPT ![c] = v]
    /\ HasCells(e, s.fs) /\ Rest(e, s.fs) = Rest(d, s.fs)

\* The FAT after that.
LEMMA EnteredFat ==
    ASSUME NEW s, Volume(s), NEW d, DOMAIN d = DOMAIN s.disk \ Copies(s.fs), HasCells(d, s.fs),
           NEW c \in ClustersOf(s.fs), NEW v, NEW e, e = Entered(d, FatSect(s, c), c % K, v)
    PROVE  OneEntry(s, d, c, v, e)
<1> PICK x : x = FatSect(s, c)
  OBVIOUS
<1>2. /\ x \in DOMAIN d /\ x \in FatArea(s.fs)
      /\ x = s.fs.fatbase + c \div K /\ c % K \in Cell
  BY EntryPlace
<1>3. DOMAIN d[x] = Cell
  BY <1>2 DEF HasCells
<1>4. /\ DOMAIN e = DOMAIN d /\ \A y \in DOMAIN d \ {x} : e[y] = d[y]
      /\ e[x] = [d[x] EXCEPT ![c % K] = v]
  BY <1>2 DEF Entered
<1>9. FatArea(s.fs) \subseteq DOMAIN d
  <2>1. FatArea(s.fs) \subseteq DOMAIN s.disk
    BY DEF Volume, Fits
  <2>2. ASSUME NEW y \in FatArea(s.fs) PROVE y \notin Copies(s.fs)
    BY DEF FatArea, Copies, Volume, Fits
  <2> QED BY <2>1, <2>2
<1>5. HasCells(e, s.fs)
  <2>1. DOMAIN e[x] = Cell
    BY <1>3, <1>4
  <2>2. \A y \in FatArea(s.fs) : y # x => DOMAIN e[y] = Cell
    BY <1>4, <1>9 DEF HasCells
  <2> QED BY <2>1, <2>2 DEF HasCells
<1>6. Rest(e, s.fs) = Rest(d, s.fs)
  BY <1>2, <1>4 DEF Rest
<1>7. ASSUME NEW b \in ClustersOf(s.fs)
      PROVE  FatOn(e, s.fs)[b] = IF b = c THEN v ELSE FatOn(d, s.fs)[b]
  <2> PICK y : y = FatSect(s, b)
    OBVIOUS
  <2>1. y \in DOMAIN d /\ y = s.fs.fatbase + b \div K /\ b % K \in Cell /\ y \in FatArea(s.fs)
    BY EntryPlace
  <2>2. FatOn(e, s.fs)[b] = e[y][b % K] /\ FatOn(d, s.fs)[b] = d[y][b % K]
    BY <2>1 DEF FatOn
  <2>3. CASE y # x
    BY <2>1, <2>2, <2>3, <1>2, <1>4
  <2>4. CASE y = x /\ b % K # c % K
    <3>1. b # c
      BY <2>4
    <3>2. e[x][b % K] = d[x][b % K]
      BY <2>1, <2>4, <1>3, <1>4
    <3>3. e[y][b % K] = d[y][b % K]
      BY <2>4, <3>2
    <3> QED BY <2>2, <3>1, <3>3
  <2>5. CASE y = x /\ b % K = c % K
    <3>1. b \in Nat /\ c \in Nat
      BY ClusterNat
    <3>2. b \div K \in Nat /\ c \div K \in Nat
      BY <3>1, Cells
    <3>3. b \div K = c \div K
      BY <2>1, <2>5, <1>2, <3>2 DEF Volume, Fits
    <3>4. b = c
      BY <3>1, <3>3, <2>5, CellsApart
    <3> QED BY <2>2, <2>5, <3>4, <1>2, <1>3, <1>4
  <2> QED BY <2>3, <2>4, <2>5
<1>8. FatOn(e, s.fs) = [FatOn(d, s.fs) EXCEPT ![c] = v]
  BY <1>7 DEF FatOn
<1> QED BY <1>5, <1>6, <1>8 DEF OneEntry

-----------------------------------------------------------------------------
\* No cluster is linked to c.
NoLink(F, c) == \A d \in DOMAIN F : F[d] # c

\* All but the window and the count of the free clusters.
Near(s, t) ==
    /\ DOMAIN t = DOMAIN s /\ DOMAIN t.fs = DOMAIN s.fs /\ DOMAIN t.fault = DOMAIN s.fault
    /\ \A f \in DOMAIN s.fs \ {"win", "winsect", "wflag", "free_clust", "last_clust", "fsi_flag"} :
           t.fs[f] = s.fs[f]
    /\ DOMAIN t.disk = DOMAIN s.disk
    /\ t.fault.kind = s.fault.kind /\ t.fault.at = s.fault.at

\* What a function of the FAT does to the volume, whatever fails.
Onward(s, t) ==
    /\ Sound(t) /\ Near(s, t) /\ s.io <= t.io
    /\ Lost(s) => Lost(t) /\ Card(t) = Card(s)
    /\ Rest(Card(t), s.fs) \in {Rest(Card(s), s.fs), Rest(Shown(s), s.fs)}
    /\ ~Lost(t) => Rest(Shown(t), s.fs) = Rest(Shown(s), s.fs)

\* What keeps all but the window and the counts keeps the geometry.
LEMMA NearGeometry ==
    ASSUME NEW s, NEW t, Fields(s), Near(s, t)
    PROVE  /\ Copies(t.fs) = Copies(s.fs) /\ ClustersOf(t.fs) = ClustersOf(s.fs)
           /\ FatArea(t.fs) = FatArea(s.fs) /\ t.fs.n_fatent = s.fs.n_fatent
           /\ t.fs.fatbase = s.fs.fatbase
<1>1. /\ t.fs.fatbase = s.fs.fatbase /\ t.fs.fsize = s.fs.fsize /\ t.fs.n_fats = s.fs.n_fats
      /\ t.fs.n_fatent = s.fs.n_fatent
  BY DEF Fields, Near
<1> QED BY <1>1 DEF Copies, ClustersOf, FatArea

\* That is weaker than keeping the counts too.
LEMMA KinNear == ASSUME NEW s, NEW t, Kin(s, t) PROVE Near(s, t)
BY DEF Kin, Near

\* It holds of two steps when it holds of each.
LEMMA NearTrans == ASSUME NEW s, NEW t, NEW u, Near(s, t), Near(t, u) PROVE Near(s, u)
BY DEF Near

\* Power that was lost stays lost.
LEMMA NearLost == ASSUME NEW s, NEW t, Lost(s), Near(s, t), Fields(s), Fields(t), s.io <= t.io
                  PROVE  Lost(t)
BY DEF Lost, Near, Fields

\* Doing nothing is a step of the kind.
LEMMA OnwardRefl == ASSUME NEW s, Sound(s) PROVE Onward(s, s)
<1>1. Near(s, s) /\ s.io <= s.io
  BY DEF Near, Sound, Volume, Fields
<1> QED BY <1>1 DEF Onward

\* Two steps of the kind are a step of the kind.
LEMMA OnwardTrans ==
    ASSUME NEW s, NEW t, NEW u, Fields(s), Onward(s, t), Onward(t, u) PROVE Onward(s, u)
<1>1. Near(s, u) /\ FatArea(t.fs) = FatArea(s.fs)
  BY NearTrans, NearGeometry DEF Onward
<1>2. \A d : Rest(d, t.fs) = Rest(d, s.fs)
  BY <1>1 DEF Rest
<1>3. s.io <= u.io
  BY DEF Onward, Fields, Sound, Volume
<1>4. Lost(s) => Lost(u) /\ Card(u) = Card(s)
  BY DEF Onward
<1>5. ~Lost(u) => Rest(Shown(u), s.fs) = Rest(Shown(s), s.fs)
  BY <1>2 DEF Onward
<1>6. Rest(Card(u), s.fs) \in {Rest(Card(s), s.fs), Rest(Shown(s), s.fs)}
  <2>1. CASE Lost(t)
    BY <2>1 DEF Onward
  <2>2. CASE ~Lost(t)
    BY <2>2, <1>2 DEF Onward
  <2> QED BY <2>1, <2>2
<1>7. Sound(u)
  BY DEF Onward
<1> QED BY <1>1, <1>3, <1>4, <1>5, <1>6, <1>7 DEF Onward

\* Both views of the card have the sectors of the card, but for the copies.
LEMMA ShownDomain == ASSUME NEW s PROVE /\ DOMAIN Shown(s) = DOMAIN s.disk \ Copies(s.fs)
                                       /\ DOMAIN Card(s) = DOMAIN s.disk \ Copies(s.fs)
BY DEF Shown, Card

\* What soundness says while there is power.
LEMMA SoundHealthy == ASSUME NEW s, Sound(s), ~Lost(s)
                    PROVE Healthy(s) /\ HasCells(Shown(s), s.fs) /\ Chains(ShownFat(s))
BY DEF Sound

\* What soundness says at all times.
LEMMA NoSick == ASSUME NEW s, Sound(s) PROVE ~Sick(s) /\ Volume(s) /\ Fields(s) /\ Aimed(s)
BY DEF Sound, Sick, Volume

\* The count, the result and the value returned are apart from all that.
Beside(s, t) ==
    /\ Onward(s, t) /\ (Lost(t) <=> Lost(s)) /\ Shown(t) = Shown(s) /\ Card(t) = Card(s)
    /\ ShownFat(t) = ShownFat(s)

\* Changing the counts, res or ret leaves a sound volume sound.
LEMMA BesideOne ==
    ASSUME NEW s, Sound(s), NEW t, t.disk = s.disk, t.io = s.io, t.fault = s.fault,
           DOMAIN t = DOMAIN s, DOMAIN t.fs = DOMAIN s.fs,
           \A f \in DOMAIN s.fs \ {"free_clust", "last_clust", "fsi_flag"} : t.fs[f] = s.fs[f]
    PROVE  Beside(s, t)
<1>1. ~Sick(s) /\ Volume(s) /\ Aimed(s) /\ Fields(s)
  BY NoSick
<1>2. Near(s, t) /\ s.io <= t.io
  BY <1>1 DEF Near, Fields
<1>3. /\ t.fs.fatbase = s.fs.fatbase /\ t.fs.fsize = s.fs.fsize /\ t.fs.n_fats = s.fs.n_fats
      /\ t.fs.n_fatent = s.fs.n_fatent /\ t.fs.win = s.fs.win /\ t.fs.winsect = s.fs.winsect
      /\ t.fs.wflag = s.fs.wflag
      /\ t.fs.fs_type = s.fs.fs_type /\ t.fs.fsi_sector = s.fs.fsi_sector
  BY <1>1 DEF Fields
<1>4. /\ Copies(t.fs) = Copies(s.fs) /\ ClustersOf(t.fs) = ClustersOf(s.fs)
      /\ FatArea(t.fs) = FatArea(s.fs)
  BY <1>3 DEF Copies, ClustersOf, FatArea
<1>5. Fields(t)
  BY <1>1, <1>3 DEF Fields
<1>6. Volume(t)
  <2>1. Fits(t.fs, DOMAIN t.disk)
    BY <1>1, <1>3, <1>4 DEF Volume, Fits
  <2> QED BY <2>1, <1>1, <1>5 DEF Volume
<1>7. (Lost(t) <=> Lost(s)) /\ (Sick(t) <=> Sick(s)) /\ (Aimed(t) <=> Aimed(s))
  BY <1>3, <1>4 DEF Lost, Sick, Aimed
<1>8. Healthy(t) <=> Healthy(s)
  BY <1>3, <1>7 DEF Healthy
<1>9. Card(t) = Card(s) /\ Shown(t) = Shown(s)
  BY <1>3, <1>4 DEF Card, Shown
<1>10. \A d : FatOn(d, t.fs) = FatOn(d, s.fs) /\ (HasCells(d, t.fs) <=> HasCells(d, s.fs))
  BY <1>3, <1>4 DEF FatOn, HasCells
<1>11. CardFat(t) = CardFat(s) /\ ShownFat(t) = ShownFat(s)
  BY <1>9, <1>10 DEF CardFat, ShownFat
<1>12. Sound(t)
  BY <1>6, <1>7, <1>8, <1>9, <1>10, <1>11 DEF Sound
<1>13. Onward(s, t)
  BY <1>2, <1>7, <1>9, <1>12 DEF Onward
<1> QED BY <1>7, <1>9, <1>11, <1>13 DEF Beside

ResSet(s, r, t) == Beside(s, t) /\ t.res = r /\ t.ret = s.ret /\ t.fs = s.fs
RetSet(s, r, t) == Beside(s, t) /\ t.ret = r /\ t.res = s.res /\ t.fs = s.fs
Added(s, n, t) ==
    /\ Beside(s, t) /\ t.ret = s.ret /\ t.res = s.res
    /\ t.fs.free_clust = IF s.fs.free_clust = Err THEN Err ELSE s.fs.free_clust + n

\* The ways in which the functions do that: the result,
LEMMA BesideRes ==
    ASSUME NEW s, Sound(s), NEW r, NEW t, t = Set(s, r)
    PROVE  ResSet(s, r, t)
<1>1. OnlyRes(s, r, t)
  BY NoSick, SetOne
<1> QED BY <1>1, BesideOne DEF OnlyRes, ResSet

\* the value returned,
LEMMA BesideRet ==
    ASSUME NEW s, Sound(s), NEW r, NEW t, t = [s EXCEPT !.ret = r]
    PROVE  RetSet(s, r, t)
<1>1. OnlyRet(s, r, t)
  BY NoSick DEF OnlyRet, Fields
<1> QED BY <1>1, BesideOne DEF OnlyRet, RetSet

\* and the count of the free clusters.
LEMMA BesideCount ==
    ASSUME NEW s, Sound(s), NEW n, NEW t, t = Count(s, n)
    PROVE  Added(s, n, t)
<1>1. Fields(s)
  BY NoSick
<1>2. CASE s.fs.free_clust = Err
  <2>1. t = s
    BY <1>2 DEF Count
  <2> QED BY <2>1, <1>2, BesideOne DEF Added
<1>3. CASE s.fs.free_clust # Err
  <2> PICK k : k = s.fs.free_clust + n
    OBVIOUS
  <2>1. t = [s EXCEPT !.fs.free_clust = k, !.fs.fsi_flag = TRUE]
    BY <1>1, <1>3 DEF Count, Fields
  <2>2. /\ t.disk = s.disk /\ t.io = s.io /\ t.fault = s.fault /\ DOMAIN t = DOMAIN s
        /\ t.ret = s.ret /\ t.res = s.res /\ t.fs = [s.fs EXCEPT !.free_clust = k, !.fsi_flag = TRUE]
    BY <1>1, <2>1 DEF Fields
  <2>3. /\ DOMAIN t.fs = DOMAIN s.fs /\ t.fs.free_clust = k
        /\ \A f \in DOMAIN s.fs \ {"free_clust", "last_clust", "fsi_flag"} : t.fs[f] = s.fs[f]
    BY <1>1, <2>2 DEF Fields
  <2>4. Beside(s, t)
    BY <2>2, <2>3, BesideOne
  <2> QED BY <2>2, <2>3, <2>4, <1>3 DEF Added
<1> QED BY <1>2, <1>3

\* move_window, on a sound volume.
MoveStep(s, x, t) ==
    /\ Onward(s, t) /\ Same(s, t) /\ t.res \in {"OK", "DISK_ERR"}
    /\ Card(t) \in {Card(s), Shown(s)}
    /\ t.res = "DISK_ERR" => s.fault.kind = "write"
    /\ t.res = "OK" => IF x # 0 THEN t.fs.winsect = x ELSE ~t.fs.wflag
    /\ ~Lost(t) => Healthy(t) /\ Shown(t) = Shown(s) /\ ShownFat(t) = ShownFat(s)

\* move_window leaves a sound volume sound.
LEMMA MoveStepOne ==
    ASSUME NEW s, Sound(s), NEW x \in DOMAIN s.disk \cup {0}, NEW t, t = move_window(s, x)
    PROVE  MoveStep(s, x, t)
<1>1. ~Sick(s) /\ Volume(s) /\ Aimed(s) /\ Fields(s)
  BY NoSick
<1>2. Moved(s, x, t)
  BY <1>1, MoveWindow
<1>3. /\ Volume(t) /\ Same(s, t) /\ s.io <= t.io
      /\ t.res \in {"OK", "DISK_ERR"}
      /\ Lost(s) => t.disk = s.disk
      /\ t.res = "DISK_ERR" => s.fault.kind \in {"read", "write"}
      /\ ~Sick(t) => Aimed(t)
      /\ t.res = "OK" => IF x # 0 THEN t.fs.winsect = x ELSE ~t.fs.wflag
  BY <1>2, <1>1 DEF Moved, Volume, Fields
<1>4. s.fault.kind # "read" /\ t.fault.kind # "read" /\ ~Sick(t) /\ Aimed(t)
  BY <1>3 DEF Same, Kin, Sound, Sick
<1>5. Near(s, t) /\ Fields(t)
  BY <1>3, KinNear DEF Volume, Same
<1>6. /\ Copies(t.fs) = Copies(s.fs) /\ ClustersOf(t.fs) = ClustersOf(s.fs)
      /\ FatArea(t.fs) = FatArea(s.fs) /\ t.fs.fatbase = s.fs.fatbase
  BY <1>1, <1>5, NearGeometry
<1>7. Lost(s) => Lost(t) /\ Card(t) = Card(s)
  <2>1. Lost(s) => Lost(t)
    BY <1>1, <1>3, <1>5, NearLost
  <2> QED BY <2>1, <1>3, <1>6 DEF Card
<1>8. ~Lost(s) => Healthy(s) /\ HasCells(Shown(s), s.fs) /\ Chains(ShownFat(s))
  BY SoundHealthy
<1>9. Card(t) \in {Card(s), Shown(s)}
  BY <1>2, <1>7, <1>8 DEF Moved
<1>10. ~Lost(t) => Healthy(t) /\ Shown(t) = Shown(s)
  BY <1>2, <1>4, <1>7, <1>8 DEF Moved
<1>11. \A d : FatOn(d, t.fs) = FatOn(d, s.fs)
  BY <1>6 DEF FatOn
<1>12. ShownFat(t) = FatOn(Shown(t), s.fs) /\ CardFat(t) = FatOn(Card(t), s.fs)
  BY <1>11 DEF ShownFat, CardFat
<1>13. CardFat(t) \in {CardFat(s), ShownFat(s)} /\ (Lost(s) => CardFat(t) = CardFat(s))
  BY <1>7, <1>9, <1>12 DEF ShownFat, CardFat
<1>14. Chains(CardFat(t))
  BY <1>8, <1>13 DEF Sound
<1>15. ~Lost(t) => ShownFat(t) = ShownFat(s) /\ ~Lost(s)
  BY <1>7, <1>10, <1>12 DEF ShownFat
<1>16. ~Lost(t) => HasCells(Shown(t), t.fs)
  BY <1>6, <1>8, <1>10, <1>15 DEF HasCells
<1>17. Sound(t)
  BY <1>3, <1>4, <1>8, <1>10, <1>14, <1>15, <1>16 DEF Sound
<1>18. Onward(s, t)
  BY <1>3, <1>5, <1>7, <1>9, <1>10, <1>17 DEF Onward
<1> QED BY <1>3, <1>4, <1>9, <1>10, <1>15, <1>18 DEF MoveStep

\* get_fat answers with the entry of the cluster.
GetStep(s, c, t) ==
    /\ Onward(s, t) /\ Kin(s, t) /\ t.res \in {"OK", "DISK_ERR"}
    /\ t.res = "DISK_ERR" => t.ret = Err /\ s.fault.kind = "write"
    /\ ~Lost(t) => /\ Shown(t) = Shown(s) /\ ShownFat(t) = ShownFat(s)
                   /\ t.res = "OK" => t.ret = ShownFat(s)[c]

\* get_fat leaves it sound, and answers with the entry.
LEMMA GetStepOne ==
    ASSUME NEW s, Sound(s), NEW c \in ClustersOf(s.fs), NEW t, t = get_fat(s, c)
    PROVE  GetStep(s, c, t)
<1> PICK x : x = FatSect(s, c)
  OBVIOUS
<1> PICK m : m = move_window(s, x)
  OBVIOUS
<1> PICK r : r = IF m.res = "OK" THEN m.fs.win[c % K] ELSE Err
  OBVIOUS
<1>0. Volume(s) /\ Fields(s)
  BY NoSick
<1>1. t = [m EXCEPT !.ret = r]
  BY <1>0, ClusterNat DEF get_fat, With
<1>2. /\ x \in DOMAIN s.disk \ Copies(s.fs) /\ x # 0
      /\ x = s.fs.fatbase + c \div K /\ c % K \in Cell
  BY <1>0, EntryPlace
<1>3. MoveStep(s, x, m)
  BY <1>2, MoveStepOne
<1>4. /\ Onward(s, m) /\ Same(s, m) /\ Sound(m) /\ m.res \in {"OK", "DISK_ERR"}
      /\ m.res = "DISK_ERR" => s.fault.kind = "write"
      /\ m.res = "OK" => m.fs.winsect = x
      /\ ~Lost(m) => Healthy(m) /\ Shown(m) = Shown(s) /\ ShownFat(m) = ShownFat(s)
  BY <1>2, <1>3 DEF MoveStep, Onward
<1>5. Volume(m) /\ Fields(m)
  BY <1>4, NoSick
<1>6. Twin(m, t) /\ RetSet(m, r, t)
  BY <1>1, <1>4, <1>5, RetTwin, BesideRet
<1>7. Beside(m, t) /\ t.ret = r /\ t.res = m.res
  BY <1>6 DEF RetSet
<1>8. Onward(s, t) /\ (Lost(t) <=> Lost(m)) /\ Shown(t) = Shown(m) /\ ShownFat(t) = ShownFat(m)
  BY <1>0, <1>4, <1>7, OnwardTrans DEF Beside
<1>9. Kin(s, t)
  BY <1>4, <1>6, KinTrans DEF Same, Twin
<1>10. ASSUME ~Lost(m), m.res = "OK"
       PROVE  r = ShownFat(s)[c]
  <2>1. SameGeo(s, m) /\ DOMAIN m.disk = DOMAIN s.disk
    BY <1>0, <1>4, <1>5, SameGeometry DEF Same, Kin
  <2>2. Shown(m)[x] = m.fs.win
    BY <1>2, <1>4, <1>5, <1>10, <2>1, WindowShows DEF SameGeo
  <2>3. ShownFat(s)[c] = Shown(s)[x][c % K]
    BY <1>2 DEF FatOn, ShownFat
  <2> QED BY <1>4, <1>10, <2>2, <2>3
<1> QED BY <1>4, <1>7, <1>8, <1>9, <1>10 DEF GetStep

\* put_fat changes an entry, if nothing fails.
PutStep(s, c, v, t) ==
    /\ Onward(s, t) /\ Same(s, t) /\ t.res \in {"OK", "DISK_ERR"}
    /\ t.res = "DISK_ERR" => s.fault.kind = "write"
    /\ ~Lost(t) => ShownFat(t) = IF t.res = "OK" THEN [ShownFat(s) EXCEPT ![c] = v]
                                 ELSE ShownFat(s)

\* put_fat leaves it sound when the new FAT is, also when it fails half-way.
LEMMA PutStepOne ==
    ASSUME NEW s, Sound(s), NEW c \in ClustersOf(s.fs), NEW v,
           ~Lost(s) => Chains([ShownFat(s) EXCEPT ![c] = v]),
           NEW t, t = put_fat(s, c, v)
    PROVE  PutStep(s, c, v, t)
<1>1. ~Sick(s) /\ Volume(s) /\ Aimed(s) /\ Fields(s)
  BY NoSick
<1>2. PutEntry(s, c, v, t)
  BY <1>1, PutFat
<1>3. /\ Volume(t) /\ Same(s, t) /\ s.io <= t.io /\ t.res \in {"OK", "DISK_ERR"}
      /\ Lost(s) => t.disk = s.disk
      /\ t.res = "DISK_ERR" => s.fault.kind \in {"read", "write"}
      /\ ~Sick(t) => Aimed(t)
  BY <1>2, <1>1 DEF PutEntry, Volume, Fields
<1>4. s.fault.kind # "read" /\ t.fault.kind # "read" /\ ~Sick(t) /\ Aimed(t)
  BY <1>3 DEF Same, Kin, Sound, Sick
<1>5. Near(s, t) /\ Fields(t)
  BY <1>3, KinNear DEF Volume, Same
<1>6. /\ Copies(t.fs) = Copies(s.fs) /\ ClustersOf(t.fs) = ClustersOf(s.fs)
      /\ FatArea(t.fs) = FatArea(s.fs) /\ t.fs.fatbase = s.fs.fatbase
  BY <1>1, <1>5, NearGeometry
<1>7. Lost(s) => Lost(t) /\ Card(t) = Card(s)
  <2>1. Lost(s) => Lost(t)
    BY <1>1, <1>3, <1>5, NearLost
  <2> QED BY <2>1, <1>3, <1>6 DEF Card
<1>8. ~Lost(s) => Healthy(s) /\ HasCells(Shown(s), s.fs) /\ Chains(ShownFat(s))
  BY SoundHealthy
<1>9. ~Lost(s) => Card(t) \in {Card(s), Shown(s)}
  BY <1>2, <1>8 DEF PutEntry
<1> PICK e : e = Entered(Shown(s), FatSect(s, c), c % K, v)
  OBVIOUS
<1>10. ~Lost(t) => Healthy(t) /\ Shown(t) = IF t.res = "OK" THEN e ELSE Shown(s)
  BY <1>2, <1>4, <1>7, <1>8 DEF PutEntry
<1>11. \A d : FatOn(d, t.fs) = FatOn(d, s.fs) /\ Rest(d, t.fs) = Rest(d, s.fs)
  BY <1>6 DEF FatOn, Rest
<1>12. ShownFat(t) = FatOn(Shown(t), s.fs) /\ CardFat(t) = FatOn(Card(t), s.fs)
  BY <1>11 DEF ShownFat, CardFat
<1>13. CardFat(t) \in {CardFat(s), ShownFat(s)} /\ (Lost(s) => CardFat(t) = CardFat(s))
  BY <1>7, <1>9, <1>12 DEF ShownFat, CardFat
<1>14. Chains(CardFat(t))
  BY <1>8, <1>13 DEF Sound
<1>15. ASSUME ~Lost(s)
       PROVE  /\ FatOn(e, s.fs) = [ShownFat(s) EXCEPT ![c] = v]
              /\ HasCells(e, s.fs) /\ Rest(e, s.fs) = Rest(Shown(s), s.fs)
  <2> PICK d : d = Shown(s)
    OBVIOUS
  <2>1. DOMAIN d = DOMAIN s.disk \ Copies(s.fs) /\ HasCells(d, s.fs)
    BY <1>8, <1>15, ShownDomain
  <2>2. OneEntry(s, d, c, v, e)
    BY <1>1, <2>1, EnteredFat
  <2> QED BY <2>2 DEF OneEntry, ShownFat
<1>16. ~Lost(t) => ~Lost(s)
  BY <1>7
<1>17. ~Lost(t) => ShownFat(t) = IF t.res = "OK" THEN [ShownFat(s) EXCEPT ![c] = v]
                                 ELSE ShownFat(s)
  BY <1>10, <1>12, <1>15, <1>16 DEF ShownFat
<1>18. ~Lost(t) => Chains(ShownFat(t))
  BY <1>8, <1>16, <1>17
<1>19. ~Lost(t) => HasCells(Shown(t), t.fs) /\ Rest(Shown(t), s.fs) = Rest(Shown(s), s.fs)
  <2>1. ASSUME ~Lost(t)
        PROVE  HasCells(Shown(t), s.fs) /\ Rest(Shown(t), s.fs) = Rest(Shown(s), s.fs)
    BY <2>1, <1>8, <1>10, <1>15, <1>16
  <2>2. \A d : HasCells(d, t.fs) <=> HasCells(d, s.fs)
    BY <1>6 DEF HasCells
  <2> QED BY <2>1, <2>2
<1>20. Sound(t)
  BY <1>3, <1>4, <1>10, <1>14, <1>18, <1>19 DEF Sound
<1>21. Rest(Card(t), s.fs) \in {Rest(Card(s), s.fs), Rest(Shown(s), s.fs)}
  BY <1>7, <1>9
<1>22. Onward(s, t)
  BY <1>3, <1>5, <1>7, <1>19, <1>20, <1>21 DEF Onward
<1> QED BY <1>3, <1>4, <1>17, <1>22 DEF PutStep

-----------------------------------------------------------------------------
\* A sector before the FAT is written, through no window.
Aside(s, x, t) ==
    /\ Sound(t) /\ Near(s, t) /\ s.io <= t.io /\ t.res = "OK" /\ t.fs = s.fs
    /\ CardFat(t) = CardFat(s) /\ (~Lost(t) => ~Lost(s))
    /\ \A y \in DOMAIN Card(s) \ {x} : Card(t)[y] = Card(s)[y]

\* Writing the FSInfo sector leaves a sound volume sound, and the FAT as it was.
LEMMA AsideOne ==
    ASSUME NEW s, Sound(s), s.fs.wflag = FALSE, s.fs.winsect = 0,
           NEW x \in 1..(s.fs.fatbase - 1), NEW w,
           NEW t, t = Set(WriteSector(s, w, x), "OK")
    PROVE  Aside(s, x, t)
<1> PICK u : u = WriteSector(s, w, x)
  OBVIOUS
<1>1. ~Sick(s) /\ Volume(s) /\ Aimed(s) /\ Fields(s) /\ s.fault.kind # "read"
  BY NoSick DEF Sound
<1>2. s.fs.fatbase \in Nat /\ x \in Nat /\ x # 0 /\ x < s.fs.fatbase
  BY <1>1 DEF Volume, Fits
<1>3. Wrote(s, w, x, u)
  BY <1>1, <1>2, WriteOne
<1>4. /\ Fields(u) /\ u.io = s.io + 1 /\ u.fs = s.fs
      /\ DOMAIN u = DOMAIN s /\ DOMAIN u.fault = DOMAIN s.fault
      /\ u.fault.kind = s.fault.kind /\ u.fault.at = s.fault.at
  BY <1>3 DEF Wrote
<1>5. /\ DOMAIN u.disk = DOMAIN s.disk /\ u.disk = [y \in DOMAIN u.disk |-> u.disk[y]]
      /\ \A y \in DOMAIN s.disk \ {x} : u.disk[y] = s.disk[y]
  <2>1. \E kept \in {0, 1} :
            u.disk = [y \in DOMAIN s.disk |-> IF y = x /\ kept = 1 THEN w ELSE s.disk[y]]
    BY <1>3 DEF Wrote
  <2> QED BY <2>1
<1>6. OnlyRes(u, "OK", t)
  BY <1>4, SetOne
<1>7. /\ t.res = "OK" /\ t.fs = s.fs /\ t.io = s.io + 1 /\ t.disk = u.disk /\ t.fault = u.fault
      /\ DOMAIN t = DOMAIN s
  BY <1>4, <1>6 DEF OnlyRes
<1>8. Near(s, t) /\ s.io <= t.io
  BY <1>1, <1>4, <1>5, <1>7 DEF Near, Fields
<1>9. Fields(t)
  BY <1>4, <1>7 DEF Fields
<1>10. Volume(t)
  BY <1>1, <1>5, <1>7, <1>9 DEF Volume
<1>11. ~Lost(t) => ~Lost(s)
  BY <1>1, <1>8, <1>9, NearLost
<1>12. t.fault.kind # "read" /\ ~Sick(t)
  BY <1>1, <1>4, <1>7 DEF Sick
<1>13. Aimed(t)
  BY <1>1, <1>5, <1>7 DEF Aimed
<1>14. \A y \in DOMAIN Card(s) \ {x} : Card(t)[y] = Card(s)[y]
  BY <1>5, <1>7 DEF Card
<1>15. ASSUME NEW c \in ClustersOf(s.fs)
       PROVE  /\ FatSect(s, c) \in DOMAIN Card(s) \ {x} /\ FatSect(s, c) = s.fs.fatbase + c \div K
  <2>1. /\ FatSect(s, c) \in DOMAIN s.disk \ Copies(s.fs) /\ FatSect(s, c) \in FatArea(s.fs)
        /\ FatSect(s, c) = s.fs.fatbase + c \div K
    BY <1>1, EntryPlace
  <2>2. FatSect(s, c) # x
    BY <1>2, <2>1 DEF FatArea
  <2> QED BY <2>1, <2>2 DEF Card
<1>16. CardFat(t) = CardFat(s)
  BY <1>7, <1>14, <1>15 DEF CardFat, FatOn
<1>17. Shown(t) = Card(t) /\ Shown(s) = Card(s)
  BY <1>1, <1>7, <1>9, CleanShown
<1>18. ShownFat(t) = CardFat(t) /\ ShownFat(s) = CardFat(s)
  BY <1>17 DEF ShownFat, CardFat
<1>19. ~Lost(s) => Healthy(s) /\ HasCells(Shown(s), s.fs) /\ Chains(ShownFat(s))
  BY SoundHealthy
<1>20. ~Lost(t) => Healthy(t)
  BY <1>7, <1>12, <1>13 DEF Healthy
<1>21. ~Lost(t) => HasCells(Shown(t), t.fs)
  <2>1. SUFFICES ASSUME ~Lost(t), NEW y \in FatArea(s.fs) PROVE DOMAIN Card(t)[y] = Cell
    BY <1>7, <1>17 DEF HasCells
  <2>2. DOMAIN Card(s)[y] = Cell
    BY <1>11, <1>17, <1>19, <2>1 DEF HasCells
  <2>3. y \in DOMAIN s.disk /\ y \notin Copies(s.fs) /\ y # x
    BY <1>1, <1>2 DEF FatArea, Copies, Volume, Fits
  <2>4. y \in DOMAIN Card(s) \ {x}
    BY <2>3 DEF Card
  <2> QED BY <1>14, <2>2, <2>4
<1>22. Chains(CardFat(t)) /\ (~Lost(t) => Chains(ShownFat(t)))
  BY <1>16, <1>18 DEF Sound
<1>23. Sound(t)
  BY <1>10, <1>12, <1>13, <1>20, <1>21, <1>22 DEF Sound
<1> QED BY <1>7, <1>8, <1>11, <1>14, <1>16, <1>23 DEF Aside

\* The FSInfo sector takes the window.
Taken(s, t) ==
    /\ Sound(t) /\ Near(s, t) /\ t.io = s.io /\ t.fs.wflag = FALSE /\ t.fs.winsect = 0
    /\ t.fs.fatbase = s.fs.fatbase /\ t.fs.fsi_sector = s.fs.fsi_sector
    /\ Card(t) = Card(s) /\ CardFat(t) = CardFat(s) /\ (Lost(t) <=> Lost(s))

\* Putting the counts in the window, once that is clean, loses nothing.
LEMMA TakenOne ==
    ASSUME NEW s, Sound(s), s.fs.wflag = FALSE, NEW w,
           NEW t, t = [s EXCEPT !.fs.winsect = 0, !.fs.win = w, !.fs.fsi_flag = FALSE]
    PROVE  Taken(s, t)
<1>1. ~Sick(s) /\ Volume(s) /\ Aimed(s) /\ Fields(s) /\ s.fault.kind # "read"
  BY NoSick DEF Sound
<1>2. /\ t.disk = s.disk /\ t.io = s.io /\ t.fault = s.fault /\ DOMAIN t = DOMAIN s
      /\ t.res = s.res /\ t.ret = s.ret
      /\ t.fs = [s.fs EXCEPT !.winsect = 0, !.win = w, !.fsi_flag = FALSE]
  BY <1>1 DEF Fields
<1>3. /\ DOMAIN t.fs = DOMAIN s.fs /\ t.fs.winsect = 0 /\ t.fs.win = w /\ t.fs.wflag = FALSE
      /\ \A f \in DOMAIN s.fs \ {"winsect", "win", "fsi_flag"} : t.fs[f] = s.fs[f]
  BY <1>1, <1>2 DEF Fields
<1>4. Near(s, t)
  BY <1>2, <1>3 DEF Near
<1>5. /\ t.fs.fatbase = s.fs.fatbase /\ t.fs.fsize = s.fs.fsize /\ t.fs.n_fats = s.fs.n_fats
      /\ t.fs.n_fatent = s.fs.n_fatent
      /\ t.fs.fs_type = s.fs.fs_type /\ t.fs.fsi_sector = s.fs.fsi_sector
  BY <1>1, <1>3 DEF Fields
<1>6. /\ Copies(t.fs) = Copies(s.fs) /\ ClustersOf(t.fs) = ClustersOf(s.fs)
      /\ FatArea(t.fs) = FatArea(s.fs)
  BY <1>5 DEF Copies, ClustersOf, FatArea
<1>7. Fields(t)
  BY <1>1, <1>2, <1>3 DEF Fields
<1>8. Volume(t)
  <2>1. Fits(t.fs, DOMAIN t.disk)
    BY <1>1, <1>2, <1>5, <1>6 DEF Volume, Fits
  <2> QED BY <2>1, <1>1, <1>2, <1>7 DEF Volume
<1>9. (Lost(t) <=> Lost(s)) /\ ~Sick(t) /\ t.fault.kind # "read"
  BY <1>1, <1>2 DEF Lost, Sick
<1>10. Aimed(t)
  BY <1>1, <1>2, <1>3 DEF Aimed, Volume, Fits
<1>11. Card(t) = Card(s)
  BY <1>2, <1>6 DEF Card
<1>12. Shown(t) = Card(t) /\ Shown(s) = Card(s)
  BY <1>1, <1>3, <1>7, CleanShown
<1>13. CardFat(t) = CardFat(s) /\ ShownFat(t) = CardFat(t) /\ ShownFat(s) = CardFat(s)
  BY <1>5, <1>6, <1>11, <1>12 DEF CardFat, ShownFat, FatOn
<1>14. ~Lost(t) => Healthy(t)
  BY <1>3, <1>9, <1>10 DEF Healthy
<1>15. ~Lost(t) => HasCells(Shown(t), t.fs)
  BY <1>6, <1>9, <1>11, <1>12, SoundHealthy DEF HasCells
<1>16. Chains(CardFat(t)) /\ Chains(ShownFat(t))
  BY <1>13 DEF Sound
<1>17. Sound(t)
  BY <1>8, <1>9, <1>10, <1>14, <1>15, <1>16 DEF Sound
<1> QED BY <1>2, <1>3, <1>4, <1>5, <1>9, <1>11, <1>13, <1>17 DEF Taken

\* After sync the card holds what the program sees, unless sync says otherwise.
Synced(s, t) ==
    /\ Sound(t) /\ Near(s, t) /\ s.io <= t.io
    /\ CardFat(t) \in {CardFat(s), ShownFat(s)}
    /\ t.res \in {"OK", "DISK_ERR"} /\ (t.res = "DISK_ERR" => s.fault.kind = "write")
    /\ ~Lost(t) => ShownFat(t) = ShownFat(s)
    /\ ~Lost(t) /\ t.res = "OK" =>
          /\ t.fs.wflag = FALSE /\ CardFat(t) = ShownFat(s)
          /\ \A x \in DOMAIN Card(s) :
                 Card(t)[x] = Shown(s)[x] \/ (s.fs.fs_type = "FAT32" /\ x = s.fs.fsi_sector)

\* sync keeps the volume sound.  When it succeeds, every sector holds what the
\* program sees, but for the FSInfo sector and the copy of the FAT; when a write
\* fails or the power is lost, the FAT on the card is the old one or the new one.
THEOREM Sync ==
    ASSUME NEW s, Sound(s), NEW t, t = sync(s)
    PROVE  Synced(s, t)
<1> PICK m : m = move_window(s, 0)
  OBVIOUS
<1> PICK w : w = FsInfo(m.fs)
  OBVIOUS
<1> PICK v : v = [m EXCEPT !.fs.winsect = 0, !.fs.win = w, !.fs.fsi_flag = FALSE]
  OBVIOUS
<1> PICK e : e = Set(WriteSector(v, w, m.fs.fsi_sector), "OK")
  OBVIOUS
<1>1. t = IF m.res = "OK" THEN IF m.fs.fs_type = "FAT32" /\ m.fs.fsi_flag THEN e ELSE m ELSE m
  BY DEF sync, Then, With, WriteSector
<1>2. Fields(s) /\ Volume(s)
  BY NoSick
<1>3. MoveStep(s, 0, m)
  BY MoveStepOne
<1>4. /\ Onward(s, m) /\ Sound(m) /\ Near(s, m) /\ s.io <= m.io /\ m.res \in {"OK", "DISK_ERR"}
      /\ Card(m) \in {Card(s), Shown(s)}
      /\ m.res = "DISK_ERR" => s.fault.kind = "write"
      /\ m.res = "OK" => ~m.fs.wflag
      /\ ~Lost(m) => Shown(m) = Shown(s) /\ ShownFat(m) = ShownFat(s)
  BY <1>3 DEF MoveStep, Onward
<1>5. Fields(m) /\ Volume(m)
  BY <1>4, NoSick
<1>6. /\ Copies(m.fs) = Copies(s.fs) /\ ClustersOf(m.fs) = ClustersOf(s.fs)
      /\ m.fs.fatbase = s.fs.fatbase /\ m.fs.fs_type = s.fs.fs_type
      /\ m.fs.fsi_sector = s.fs.fsi_sector /\ DOMAIN m.disk = DOMAIN s.disk
  BY <1>2, <1>4, NearGeometry DEF Near, Fields
<1>7. CardFat(m) \in {CardFat(s), ShownFat(s)}
  BY <1>4, <1>6 DEF CardFat, ShownFat, FatOn
<1>8. ASSUME m.res = "OK", ~Lost(m)
      PROVE  m.fs.wflag = FALSE /\ Card(m) = Shown(s) /\ CardFat(m) = ShownFat(s)
  <2>1. m.fs.wflag = FALSE
    BY <1>4, <1>5, <1>8, FlagType
  <2>2. Shown(m) = Card(m)
    BY <1>5, <2>1, CleanShown
  <2>3. ShownFat(m) = CardFat(m)
    BY <2>2 DEF ShownFat, CardFat
  <2> QED BY <1>4, <1>8, <2>1, <2>2, <2>3
<1>9. CASE ~(m.res = "OK" /\ m.fs.fs_type = "FAT32" /\ m.fs.fsi_flag)
  <2>1. t = m
    BY <1>1, <1>9
  <2>2. DOMAIN Card(s) = DOMAIN Shown(s)
    BY ShownDomain
  <2> QED BY <1>4, <1>7, <1>8, <2>1 DEF Synced
<1>10. CASE m.res = "OK" /\ m.fs.fs_type = "FAT32" /\ m.fs.fsi_flag
  <2>1. t = e
    BY <1>1, <1>10
  <2>2. m.fs.wflag = FALSE
    BY <1>4, <1>5, <1>10, FlagType
  <2>3. Taken(m, v)
    BY <1>4, <2>2, TakenOne
  <2>4. /\ Sound(v) /\ Near(m, v) /\ v.io = m.io /\ v.fs.wflag = FALSE /\ v.fs.winsect = 0
        /\ v.fs.fatbase = m.fs.fatbase /\ v.fs.fsi_sector = m.fs.fsi_sector
        /\ Card(v) = Card(m) /\ CardFat(v) = CardFat(m) /\ (Lost(v) <=> Lost(m))
    BY <2>3 DEF Taken
  <2>5. m.fs.fsi_sector \in 1..(v.fs.fatbase - 1)
    BY <1>5, <1>10, <2>4 DEF Volume, Fits
  <2>6. Aside(v, m.fs.fsi_sector, e)
    BY <2>4, <2>5, AsideOne
  <2>7. /\ Sound(e) /\ Near(v, e) /\ v.io <= e.io /\ e.res = "OK" /\ e.fs = v.fs
        /\ CardFat(e) = CardFat(v) /\ (~Lost(e) => ~Lost(v))
        /\ \A y \in DOMAIN Card(v) \ {m.fs.fsi_sector} : Card(e)[y] = Card(v)[y]
    BY <2>6 DEF Aside
  <2>8. Near(s, e)
    BY <1>4, <2>4, <2>7, NearTrans
  <2>9. s.io <= e.io
    <3>1. Fields(e)
      BY <2>7, NoSick
    <3> QED BY <1>2, <1>4, <1>5, <2>4, <2>7, <3>1 DEF Fields
  <2>10. CardFat(e) = CardFat(m)
    BY <2>4, <2>7
  <2>11. ASSUME ~Lost(e)
         PROVE  /\ e.fs.wflag = FALSE /\ CardFat(e) = ShownFat(s) /\ ShownFat(e) = ShownFat(s)
                /\ \A x \in DOMAIN Card(s) : Card(e)[x] = Shown(s)[x] \/ x = s.fs.fsi_sector
    <3>1. ~Lost(m)
      BY <2>4, <2>7, <2>11
    <3>2. Card(m) = Shown(s) /\ CardFat(m) = ShownFat(s)
      BY <1>8, <1>10, <3>1
    <3>3. e.fs.wflag = FALSE /\ Fields(e)
      BY <2>4, <2>7, NoSick
    <3>4. ShownFat(e) = CardFat(e)
      BY <3>3, CleanShown DEF ShownFat, CardFat
    <3>5. DOMAIN Card(v) = DOMAIN Card(s)
      BY <2>4, <3>2, ShownDomain
    <3>6. ASSUME NEW x \in DOMAIN Card(s), x # s.fs.fsi_sector PROVE Card(e)[x] = Shown(s)[x]
      BY <1>6, <2>4, <2>7, <3>2, <3>5, <3>6
    <3> QED BY <2>10, <3>2, <3>3, <3>4, <3>6
  <2> QED BY <1>6, <1>7, <1>10, <2>1, <2>7, <2>8, <2>9, <2>10, <2>11 DEF Synced
<1> QED BY <1>9, <1>10

-----------------------------------------------------------------------------
\* The clusters of a FAT are none of its marks.
Entries(F) == DOMAIN F \subseteq 2..(EOC - 1)

\* The FAT has an entry for each cluster, and an end mark is none.
LEMMA FatEntries ==
    ASSUME NEW s, Sound(s)
    PROVE  /\ Entries(ShownFat(s)) /\ DOMAIN ShownFat(s) = ClustersOf(s.fs)
           /\ ShownFat(s) = [c \in DOMAIN ShownFat(s) |-> ShownFat(s)[c]]
<1>1. DOMAIN ShownFat(s) = ClustersOf(s.fs)
  BY DEF ShownFat, FatOn
<1>2. ClustersOf(s.fs) \subseteq 2..(EOC - 1)
  BY Marks DEF ClustersOf, Sound, Volume, Fits
<1>3. ShownFat(s) = [c \in DOMAIN ShownFat(s) |-> ShownFat(s)[c]]
  BY DEF ShownFat, FatOn
<1> QED BY <1>1, <1>2, <1>3 DEF Entries

\* A cluster is freed that none is linked to.
LEMMA ChainsFree ==
    ASSUME NEW F, Chains(F), Entries(F), NEW r \in DOMAIN F, NoLink(F, r),
           NEW G, G = [F EXCEPT ![r] = 0]
    PROVE  Chains(G) /\ (F[r] \in DOMAIN F => NoLink(G, F[r]))
<1>1. DOMAIN G = DOMAIN F /\ \A c \in DOMAIN F : G[c] = IF c = r THEN 0 ELSE F[c]
  OBVIOUS
<1>2. 0 \notin DOMAIN F /\ 0 \in Nat \ {1, Err}
  BY Marks DEF Entries
<1>3. \A c \in DOMAIN G : G[c] \in Nat \ {1, Err}
  BY <1>1, <1>2 DEF Chains
<1>4. \A c, d \in DOMAIN G : G[c] = G[d] /\ G[c] \in DOMAIN G => c = d
  BY <1>1, <1>2 DEF Chains
<1>5. \A c \in DOMAIN G : G[c] \in DOMAIN G => G[G[c]] # 0
  BY <1>1, <1>2 DEF Chains, NoLink
<1>6. F[r] \in DOMAIN F => NoLink(G, F[r])
  BY <1>1, <1>2 DEF Chains, NoLink
<1> QED BY <1>3, <1>4, <1>5, <1>6 DEF Chains

\* A free cluster becomes the end of a chain.
LEMMA ChainsEnd ==
    ASSUME NEW F, Chains(F), Entries(F), NEW n \in DOMAIN F, F[n] = 0,
           NEW G, G = [F EXCEPT ![n] = EOC]
    PROVE  Chains(G) /\ NoLink(G, n) /\ G[n] # 0
<1>1. DOMAIN G = DOMAIN F /\ \A c \in DOMAIN F : G[c] = IF c = n THEN EOC ELSE F[c]
  OBVIOUS
<1>2. EOC \notin DOMAIN F /\ EOC \in Nat \ {0, 1, Err}
  BY Marks DEF Entries
<1>3. \A c \in DOMAIN G : G[c] \in Nat \ {1, Err}
  BY <1>1, <1>2 DEF Chains
<1>4. \A c, d \in DOMAIN G : G[c] = G[d] /\ G[c] \in DOMAIN G => c = d
  BY <1>1, <1>2 DEF Chains
<1>5. \A c \in DOMAIN G : G[c] \in DOMAIN G => G[G[c]] # 0
  BY <1>1, <1>2 DEF Chains
<1>6. NoLink(G, n)
  BY <1>1, <1>2 DEF Chains, NoLink
<1> QED BY <1>1, <1>2, <1>3, <1>4, <1>5, <1>6 DEF Chains

\* A cluster is linked to one that is used, and not linked to.
LEMMA ChainsLink ==
    ASSUME NEW F, Chains(F), Entries(F), NEW n \in DOMAIN F, F[n] # 0, NoLink(F, n),
           NEW c \in DOMAIN F, NEW G, G = [F EXCEPT ![c] = n]
    PROVE  Chains(G)
<1>1. DOMAIN G = DOMAIN F /\ \A d \in DOMAIN F : G[d] = IF d = c THEN n ELSE F[d]
  OBVIOUS
<1>2. 0 \notin DOMAIN F /\ n \in Nat \ {0, 1, Err}
  BY Marks DEF Entries
<1>3. \A d \in DOMAIN G : G[d] \in Nat \ {1, Err}
  BY <1>1, <1>2 DEF Chains
<1>4. \A d, e \in DOMAIN G : G[d] = G[e] /\ G[d] \in DOMAIN G => d = e
  BY <1>1, <1>2 DEF Chains, NoLink
<1>5. \A d \in DOMAIN G : G[d] \in DOMAIN G => G[G[d]] # 0
  BY <1>1, <1>2 DEF Chains
<1> QED BY <1>3, <1>4, <1>5 DEF Chains

\* The free clusters, and that the count of them is right, when it is known.
Free(F) == {c \in DOMAIN F : F[c] = 0}
Counted(s) == ~Lost(s) => s.fs.free_clust \in {Err, Cardinality(Free(ShownFat(s)))}

\* There are fewer free clusters than marks.
LEMMA FreeFinite == ASSUME NEW F, Entries(F)
                    PROVE  IsFiniteSet(Free(F)) /\ Cardinality(Free(F)) \in Nat /\ Cardinality(Free(F)) < EOC
<1>1. EOC \in Nat /\ 2 \in Int /\ EOC - 1 \in Int
  BY Marks
<1>2. /\ IsFiniteSet(2..(EOC - 1)) /\ Cardinality(2..(EOC - 1)) < EOC
      /\ Cardinality(2..(EOC - 1)) \in Nat
  <2>1. IsFiniteSet(2..(EOC - 1))
    BY <1>1, FS_Interval
  <2>2. Cardinality(2..(EOC - 1)) = IF 2 > EOC - 1 THEN 0 ELSE (EOC - 1) - 2 + 1
    BY <1>1, FS_Interval
  <2>3. Cardinality(2..(EOC - 1)) \in Nat
    BY <2>1, FS_CardinalityType
  <2> QED BY <2>1, <2>2, <2>3, <1>1, Marks
<1>3. Free(F) \subseteq 2..(EOC - 1)
  BY DEF Free, Entries
<1>4. IsFiniteSet(Free(F)) /\ Cardinality(Free(F)) <= Cardinality(2..(EOC - 1))
  BY <1>2, <1>3, FS_Subset
<1>5. Cardinality(Free(F)) \in Nat
  BY <1>4, FS_CardinalityType
<1> QED BY <1>1, <1>2, <1>4, <1>5

\* Freeing an entry adds one free cluster.
LEMMA OneMoreFree ==
    ASSUME NEW F, Entries(F), NEW r \in DOMAIN F, F[r] # 0, NEW G, G = [F EXCEPT ![r] = 0]
    PROVE  Cardinality(Free(G)) = Cardinality(Free(F)) + 1
<1>1. Free(G) = Free(F) \cup {r} /\ r \notin Free(F)
  BY DEF Free
<1>2. IsFiniteSet(Free(F))
  BY FreeFinite
<1> QED BY <1>1, <1>2, FS_AddElement

\* Using one takes one away.
LEMMA OneLessFree ==
    ASSUME NEW F, Entries(F), NEW r \in DOMAIN F, F[r] = 0, NEW v, v # 0, NEW G, G = [F EXCEPT ![r] = v]
    PROVE  Cardinality(Free(G)) = Cardinality(Free(F)) - 1
<1>1. Free(G) = Free(F) \ {r} /\ r \in Free(F)
  BY DEF Free
<1>2. IsFiniteSet(Free(F))
  BY FreeFinite
<1> QED BY <1>1, <1>2, FS_RemoveElement

\* Frees one cluster, r, that none is linked to.
FreedOne(s, r, t) ==
    /\ Onward(s, t)
    /\ ~Lost(t) =>
          \/ /\ t.res = "OK" /\ ShownFat(s)[r] # 0 /\ t.ret = ShownFat(s)[r]
             /\ ShownFat(t) = [ShownFat(s) EXCEPT ![r] = 0]
             /\ t.fs.free_clust = IF s.fs.free_clust = Err THEN Err ELSE s.fs.free_clust + 1
          \/ /\ t.res = "OK" /\ ShownFat(s)[r] = 0 /\ t.ret = 0
             /\ ShownFat(t) = ShownFat(s) /\ t.fs.free_clust = s.fs.free_clust
          \/ /\ t.res = "DISK_ERR" /\ s.fault.kind = "write"
             /\ ShownFat(t) = ShownFat(s) /\ t.fs.free_clust = s.fs.free_clust

\* A turn of remove_chain frees a cluster, if none is linked to it, and leaves the
\* volume sound.
LEMMA FreeTurnOne ==
    ASSUME NEW s, Sound(s), s.res = "OK", s.ret \in ClustersOf(s.fs),
           ~Lost(s) => NoLink(ShownFat(s), s.ret), NEW i, NEW t, t = FreeTurn(s, i)
    PROVE  FreedOne(s, s.ret, t)
<1> PICK g : g = get_fat(s, s.ret)
  OBVIOUS
<1> PICK p : p = put_fat(g, s.ret, 0)
  OBVIOUS
<1> PICK e : e = Set(g, ClustRes(g.ret, "OK"))
  OBVIOUS
<1> PICK k : k = Count(p, 1)
  OBVIOUS
<1>1. Fields(s) /\ Volume(s) /\ IsClust(s, s.ret)
  BY NoSick, ClusterNat
<1>2. t = IF g.ret \in {0, 1, Err} THEN e ELSE IF p.res = "OK" THEN k ELSE p
  BY <1>1 DEF FreeTurn, With, Then
<1>3. GetStep(s, s.ret, g)
  BY GetStepOne
<1>4. /\ Onward(s, g) /\ Kin(s, g) /\ Sound(g) /\ Fields(g)
      /\ g.res \in {"OK", "DISK_ERR"}
      /\ g.res = "DISK_ERR" => g.ret = Err /\ s.fault.kind = "write"
      /\ ~Lost(g) => ShownFat(g) = ShownFat(s) /\ (g.res = "OK" => g.ret = ShownFat(s)[s.ret])
  BY <1>3, NoSick DEF GetStep, Onward
<1>5. /\ g.fs.free_clust = s.fs.free_clust /\ ClustersOf(g.fs) = ClustersOf(s.fs)
      /\ g.fault.kind = s.fault.kind
  <2>1. SameGeo(s, g)
    BY <1>1, <1>4, KinGeometry
  <2> QED BY <2>1, <1>4 DEF SameGeo, Kin
<1>6. ~Lost(g) => ~Lost(s)
  BY <1>4 DEF Onward
<1>7. ~Lost(s) => Chains(ShownFat(s)) /\ ShownFat(s)[s.ret] \in Nat \ {1, Err}
  BY SoundHealthy, FatEntries DEF Chains
<1>8. CASE g.ret \in {0, 1, Err}
  <2>1. t = e
    BY <1>2, <1>8
  <2>2. Beside(g, e) /\ e.res = ClustRes(g.ret, "OK") /\ e.ret = g.ret /\ e.fs = g.fs
    BY <1>4, BesideRes DEF ResSet
  <2>3. Onward(s, e) /\ (Lost(e) <=> Lost(g)) /\ ShownFat(e) = ShownFat(g)
    BY <1>1, <1>4, <2>2, OnwardTrans DEF Beside
  <2>4. ASSUME ~Lost(e)
        PROVE  \/ /\ e.res = "OK" /\ ShownFat(s)[s.ret] = 0 /\ e.ret = 0
               \/ /\ e.res = "DISK_ERR" /\ s.fault.kind = "write"
    <3>1. CASE g.res = "OK"
      <4>1. g.ret = ShownFat(s)[s.ret] /\ g.ret \notin {1, Err}
        BY <1>4, <1>6, <1>7, <2>3, <2>4, <3>1
      <4>2. g.ret = 0
        BY <4>1, <1>8
      <4> QED BY <4>1, <4>2, <2>2 DEF ClustRes
    <3>2. CASE g.res = "DISK_ERR"
      <4>1. g.ret = Err /\ s.fault.kind = "write" /\ Err # 0 /\ Err # 1
        BY <1>4, <3>2, Marks
      <4> QED BY <4>1, <2>2 DEF ClustRes
    <3> QED BY <3>1, <3>2, <1>4
  <2>5. ~Lost(e) => ShownFat(e) = ShownFat(s) /\ e.fs.free_clust = s.fs.free_clust
    BY <1>4, <1>5, <2>2, <2>3
  <2> QED BY <2>1, <2>3, <2>4, <2>5 DEF FreedOne
<1>9. CASE g.ret \notin {0, 1, Err}
  <2>1. g.res = "OK" /\ (~Lost(g) => g.ret = ShownFat(s)[s.ret] /\ ShownFat(g) = ShownFat(s))
    BY <1>4, <1>9
  <2>2. ~Lost(g) => Chains([ShownFat(g) EXCEPT ![s.ret] = 0])
    <3>1. SUFFICES ASSUME ~Lost(g) PROVE Chains([ShownFat(g) EXCEPT ![s.ret] = 0])
      OBVIOUS
    <3>2. Entries(ShownFat(s)) /\ s.ret \in DOMAIN ShownFat(s)
      BY FatEntries
    <3> QED BY <3>1, <3>2, <1>6, <1>7, <2>1, ChainsFree
  <2>3. PutStep(g, s.ret, 0, p)
    BY <1>4, <1>5, <2>2, PutStepOne
  <2>4. /\ Onward(g, p) /\ Same(g, p) /\ p.res \in {"OK", "DISK_ERR"} /\ Sound(p) /\ Fields(p)
        /\ p.res = "DISK_ERR" => g.fault.kind = "write"
        /\ ~Lost(p) => ShownFat(p) = IF p.res = "OK" THEN [ShownFat(g) EXCEPT ![s.ret] = 0]
                                     ELSE ShownFat(g)
    BY <2>3, NoSick DEF PutStep, Onward
  <2>5. p.fs.free_clust = s.fs.free_clust /\ p.ret = g.ret
    BY <1>4, <1>5, <2>4, SameGeometry DEF SameGeo, Same
  <2>6. Onward(s, p) /\ (~Lost(p) => ~Lost(g))
    BY <1>1, <1>4, <2>4, OnwardTrans DEF Onward
  <2>7. CASE p.res = "DISK_ERR"
    <3>1. t = p
      BY <1>2, <1>9, <2>7
    <3>2. ~Lost(p) => ShownFat(p) = ShownFat(s) /\ s.fault.kind = "write"
      BY <1>5, <2>1, <2>4, <2>6, <2>7
    <3> QED BY <3>1, <3>2, <2>5, <2>6, <2>7 DEF FreedOne
  <2>8. CASE p.res = "OK"
    <3>1. t = k
      BY <1>2, <1>9, <2>8
    <3>2. /\ Beside(p, k) /\ k.ret = p.ret /\ k.res = p.res
          /\ k.fs.free_clust = IF p.fs.free_clust = Err THEN Err ELSE p.fs.free_clust + 1
      BY <2>4, BesideCount DEF Added
    <3>3. Onward(s, k) /\ (Lost(k) <=> Lost(p)) /\ ShownFat(k) = ShownFat(p)
      BY <1>1, <2>6, <3>2, OnwardTrans DEF Beside
    <3>4. k.fs.free_clust = IF s.fs.free_clust = Err THEN Err ELSE s.fs.free_clust + 1
      BY <2>5, <3>2
    <3>5. ~Lost(k) => /\ k.ret = ShownFat(s)[s.ret] /\ k.ret # 0
                      /\ ShownFat(k) = [ShownFat(s) EXCEPT ![s.ret] = 0]
      BY <1>9, <2>1, <2>4, <2>5, <2>6, <2>8, <3>2, <3>3
    <3> QED BY <3>1, <3>2, <3>3, <3>4, <3>5, <2>8 DEF FreedOne
  <2> QED BY <2>4, <2>7, <2>8
<1> QED BY <1>8, <1>9

-----------------------------------------------------------------------------
\* A set of numbers has a least one: the induction of this module, as the library
\* states induction for an operator.
LEMMA Least ==
    ASSUME NEW S \in SUBSET Nat, NEW n \in S
    PROVE  \E m \in S : \A k \in S : ~(k < m)
<1> DEFINE B == {0..k : k \in S \cap 0..n}
<1>1. IsWellFoundedOn(StrictSubsetOrdering(0..n), FiniteSubsetsOf(0..n))
  BY FS_StrictSubsetOrderingWellFounded
<1>2. B \subseteq FiniteSubsetsOf(0..n)
  <2>1. SUFFICES ASSUME NEW k \in S \cap 0..n PROVE 0..k \in FiniteSubsetsOf(0..n)
    OBVIOUS
  <2>2. 0..k \subseteq 0..n
    OBVIOUS
  <2>3. IsFiniteSet(0..k)
    BY FS_Interval
  <2> QED BY <2>2, <2>3 DEF FiniteSubsetsOf
<1>3. 0..n \in B
  OBVIOUS
<1> HIDE DEF B
<1>4. PICK x \in B : \A y \in B : ~ (<<y, x>> \in StrictSubsetOrdering(0..n))
  <2>1. B # {}
    BY <1>3
  <2> QED BY <1>1, <1>2, <2>1, WFMin
<1>5. PICK m \in S \cap 0..n : x = 0..m
  BY DEF B
<1>6. ASSUME NEW k \in S, k < m
      PROVE  FALSE
  <2>1. k \in S \cap 0..n /\ 0..k \in B
    BY <1>5, <1>6 DEF B
  <2>2. 0..k \subseteq 0..m /\ m \in 0..m /\ m \notin 0..k
    BY <1>5, <1>6
  <2>3. <<0..k, x>> \in StrictSubsetOrdering(0..n)
    BY <1>5, <2>1, <2>2 DEF StrictSubsetOrdering
  <2> QED BY <1>4, <2>1, <2>3
<1> QED BY <1>5, <1>6

\* The function that Loop chooses exists.
LEMMA FreeLoopExists ==
    ASSUME NEW s, NEW n \in Nat
    PROVE  \E g : g = [i \in 0..n |-> IF i = 0 THEN s ELSE FreeTurn(g[i - 1], i)]
<1> DEFINE Ok(m) == \E g : g = [i \in 0..m |-> IF i = 0 THEN s ELSE FreeTurn(g[i - 1], i)]
           S == {m \in Nat : ~Ok(m)}
<1>1. Ok(0)
  <2>1. [i \in 0..0 |-> s] = [i \in 0..0 |-> IF i = 0 THEN s ELSE FreeTurn([j \in 0..0 |-> s][i - 1], i)]
    OBVIOUS
  <2> QED BY <2>1
<1>2. ASSUME NEW m \in Nat, Ok(m) PROVE Ok(m + 1)
  <2>1. PICK g : g = [i \in 0..m |-> IF i = 0 THEN s ELSE FreeTurn(g[i - 1], i)]
    BY <1>2
  <2> PICK h : h = [i \in 0..(m + 1) |-> IF i = m + 1 THEN FreeTurn(g[m], m + 1) ELSE g[i]]
    OBVIOUS
  <2>2. \A i \in 0..m : h[i] = g[i]
    OBVIOUS
  <2>3. ASSUME NEW i \in 0..(m + 1)
        PROVE  h[i] = IF i = 0 THEN s ELSE FreeTurn(h[i - 1], i)
    <3>1. CASE i = m + 1
      BY <3>1, <2>2
    <3>2. CASE i \in 0..m
      <4>1. i = 0 \/ i - 1 \in 0..m
        BY <3>2
      <4> QED BY <4>1, <3>2, <2>1, <2>2
    <3> QED BY <3>1, <3>2
  <2>4. h = [i \in 0..(m + 1) |-> IF i = 0 THEN s ELSE FreeTurn(h[i - 1], i)]
    BY <2>3
  <2> QED BY <2>4
<1> HIDE DEF Ok
<1>3. ASSUME n \in S PROVE FALSE
  <2>1. PICK m \in S : \A k \in S : ~(k < m)
    BY <1>3, Least
  <2>2. m # 0 /\ m - 1 \in Nat /\ m - 1 \notin S
    BY <1>1, <2>1
  <2>3. Ok(m - 1 + 1) /\ m - 1 + 1 = m
    BY <1>2, <2>2
  <2> QED BY <2>1, <2>3
<1>4. Ok(n)
  BY <1>3
<1> QED BY <1>4 DEF Ok

\* The states that the turns of a loop go through.
FreeRun(s, n, g, t) ==
    g[0] = s /\ g[n] = t /\ \A i \in 0..n : i < n => g[i + 1] = FreeTurn(g[i], i + 1)

\* So the loop of remove_chain is a sequence of turns.
LEMMA FreeLoop ==
    ASSUME NEW s, NEW n \in Nat, NEW t, t = Loop(s, n, FreeTurn)
    PROVE  \E g : FreeRun(s, n, g, t)
<1> DEFINE f == CHOOSE g : g = [i \in 0..n |-> IF i = 0 THEN s ELSE FreeTurn(g[i - 1], i)]
<1>1. f = [i \in 0..n |-> IF i = 0 THEN s ELSE FreeTurn(f[i - 1], i)]
  BY FreeLoopExists
<1>2. Loop(s, n, FreeTurn) = f[n]
  BY DEF Loop
<1> HIDE DEF f
<1>3. f[0] = s
  BY <1>1
<1>4. ASSUME NEW i \in 0..n, i < n PROVE f[i + 1] = FreeTurn(f[i], i + 1)
  <2>1. i + 1 \in 0..n /\ i + 1 # 0 /\ i + 1 - 1 = i
    BY <1>4
  <2>2. f[i + 1] = IF i + 1 = 0 THEN s ELSE FreeTurn(f[i + 1 - 1], i + 1)
    BY <1>1, <2>1
  <2> QED BY <2>1, <2>2
<1> QED BY <1>2, <1>3, <1>4 DEF FreeRun

\* What holds at first, and is kept from each number to the next, holds to the last.
LEMMA Induct ==
    ASSUME NEW S \in SUBSET Nat, NEW n \in Nat, 0 \in S, \A i \in 0..n : i \in S /\ i < n => i + 1 \in S
    PROVE  \A i \in 0..n : i \in S
<1>1. SUFFICES ASSUME NEW j \in 0..n, j \notin S PROVE FALSE
  OBVIOUS
<1> DEFINE T == {i \in 0..n : i \notin S}
<1>2. PICK m \in T : \A k \in T : ~(k < m)
  <2>1. T \in SUBSET Nat /\ j \in T
    BY <1>1
  <2> HIDE DEF T
  <2> QED BY <2>1, Least
<1>3. m - 1 \in 0..n /\ m - 1 < n /\ m - 1 \notin T /\ m - 1 + 1 = m
  BY <1>2
<1> QED BY <1>2, <1>3

\* A loop turn on a volume that is at its end leaves it.
LEMMA FreeTurnNone ==
    ASSUME NEW s, s.res # "OK" \/ s.ret \notin ClustersOf(s.fs), NEW i
    PROVE  FreeTurn(s, i) = s
BY DEF FreeTurn, IsClust, ClustersOf

\* A turn keeps the count right.
LEMMA CountedFreed ==
    ASSUME NEW s, Sound(s), Counted(s), NEW r \in ClustersOf(s.fs), NEW t, FreedOne(s, r, t)
    PROVE  Counted(t)
<1>1. SUFFICES ASSUME ~Lost(t) PROVE t.fs.free_clust \in {Err, Cardinality(Free(ShownFat(t)))}
  BY DEF Counted
<1>2. s.fs.free_clust \in {Err, Cardinality(Free(ShownFat(s)))}
  BY <1>1 DEF FreedOne, Onward, Counted
<1>3. Entries(ShownFat(s)) /\ r \in DOMAIN ShownFat(s)
  BY FatEntries
<1>4. Cardinality(Free(ShownFat(s))) # Err
  BY <1>3, FreeFinite, Marks
<1>5. ShownFat(s)[r] # 0 /\ ShownFat(t) = [ShownFat(s) EXCEPT ![r] = 0] =>
          Cardinality(Free(ShownFat(t))) = Cardinality(Free(ShownFat(s))) + 1
  BY <1>3, OneMoreFree
<1> QED BY <1>1, <1>2, <1>4, <1>5 DEF FreedOne

\* What a turn of remove_chain keeps.
Removing(s, t) ==
    /\ Onward(s, t) /\ (Counted(s) => Counted(t))
    /\ ~Lost(t) /\ t.res = "OK" /\ t.ret \in ClustersOf(t.fs) => NoLink(ShownFat(t), t.ret)

\* A turn keeps what the loop relies on: no cluster is linked to the next one.
LEMMA RemovingTurn ==
    ASSUME NEW s, Sound(s), NEW u, Removing(s, u), NEW i, NEW t, t = FreeTurn(u, i)
    PROVE  Removing(s, t)
<1>1. Sound(u) /\ Fields(s) /\ (Counted(s) => Counted(u))
  BY NoSick DEF Removing, Onward
<1>2. CASE u.res # "OK" \/ u.ret \notin ClustersOf(u.fs)
  BY <1>2, FreeTurnNone
<1>3. CASE u.res = "OK" /\ u.ret \in ClustersOf(u.fs)
  <2>1. ~Lost(u) => NoLink(ShownFat(u), u.ret)
    BY <1>3 DEF Removing
  <2>2. FreedOne(u, u.ret, t)
    BY <1>1, <1>3, <2>1, FreeTurnOne
  <2>3. Onward(s, t) /\ (~Lost(t) => ~Lost(u)) /\ Near(u, t)
    BY <1>1, <2>2, OnwardTrans DEF Removing, FreedOne, Onward
  <2>4. Counted(s) => Counted(t)
    BY <1>1, <1>3, <2>2, CountedFreed
  <2>5. ASSUME ~Lost(t), t.res = "OK", t.ret \in ClustersOf(t.fs)
        PROVE  NoLink(ShownFat(t), t.ret)
    <3>1. /\ Entries(ShownFat(u)) /\ DOMAIN ShownFat(u) = ClustersOf(u.fs)
          /\ ClustersOf(t.fs) = ClustersOf(u.fs)
      BY <1>1, <2>3, FatEntries, NearGeometry, NoSick
    <3>2. Chains(ShownFat(u)) /\ NoLink(ShownFat(u), u.ret) /\ u.ret \in DOMAIN ShownFat(u)
      BY <1>1, <1>3, <2>1, <2>3, <2>5, <3>1, SoundHealthy
    <3>3. t.ret # 0
      BY <2>5, <3>1 DEF Entries
    <3>4. t.ret = ShownFat(u)[u.ret] /\ ShownFat(t) = [ShownFat(u) EXCEPT ![u.ret] = 0]
      BY <2>2, <2>5, <3>3 DEF FreedOne
    <3> QED BY <2>5, <3>1, <3>2, <3>4, ChainsFree
  <2> QED BY <2>3, <2>4, <2>5 DEF Removing
<1> QED BY <1>2, <1>3

\* remove_chain leaves the volume sound and the count right, wherever a write fails
\* or the power is lost, when no cluster is linked to the first of the chain: it is
\* the first cluster of a file, or of the part that f_truncate has cut off.
THEOREM RemoveChain ==
    ASSUME NEW s, Sound(s), NEW c, ~Lost(s) /\ c \in ClustersOf(s.fs) => NoLink(ShownFat(s), c),
           NEW t, t = remove_chain(s, c)
    PROVE  Onward(s, t) /\ (Counted(s) => Counted(t))
<1> PICK n : n = s.fs.n_fatent
  OBVIOUS
<1>1. Fields(s) /\ n \in Nat /\ (IsClust(s, c) <=> c \in ClustersOf(s.fs))
  BY NoSick DEF Volume, Fits, IsClust, ClustersOf
<1>2. CASE c \notin ClustersOf(s.fs)
  <2>1. t = Set(s, "INT_ERR")
    BY <1>1, <1>2 DEF remove_chain
  <2>2. Beside(s, t) /\ t.fs = s.fs
    BY <2>1, BesideRes DEF ResSet
  <2> QED BY <2>2 DEF Beside, Counted
<1>3. CASE c \in ClustersOf(s.fs)
  <2> PICK a : a = [s EXCEPT !.ret = c]
    OBVIOUS
  <2> PICK b : b = Set(a, "OK")
    OBVIOUS
  <2>1. t = Loop(b, n, FreeTurn)
    BY <1>1, <1>3 DEF remove_chain
  <2>2. Beside(s, a) /\ a.ret = c /\ a.fs = s.fs
    BY BesideRet DEF RetSet
  <2>3. Sound(a)
    BY <2>2 DEF Beside, Onward
  <2>4. Beside(a, b) /\ b.ret = c /\ b.fs = s.fs /\ b.res = "OK"
    <3>1. ResSet(a, "OK", b)
      BY <2>3, BesideRes
    <3> QED BY <2>2, <3>1 DEF ResSet
  <2>5. /\ Onward(s, b) /\ (Lost(b) <=> Lost(s)) /\ ShownFat(b) = ShownFat(s)
    BY <1>1, <2>2, <2>4, OnwardTrans DEF Beside
  <2>6. Removing(s, b)
    BY <1>3, <2>4, <2>5 DEF Removing, Counted
  <2>7. PICK g : FreeRun(b, n, g, t)
    BY <1>1, <2>1, FreeLoop
  <2> DEFINE S == {i \in 0..n : Removing(s, g[i])}
  <2>8. S \in SUBSET Nat /\ 0 \in S
    <3>1. g[0] = b
      BY <2>7 DEF FreeRun
    <3> QED BY <1>1, <2>6, <3>1
  <2>9. ASSUME NEW i \in 0..n, i \in S, i < n PROVE i + 1 \in S
    <3>1. g[i + 1] = FreeTurn(g[i], i + 1) /\ i + 1 \in 0..n
      <4>1. i + 1 \in 0..n
        BY <1>1, <2>9
      <4> QED BY <4>1, <2>7, <2>9 DEF FreeRun
    <3>2. Removing(s, g[i + 1])
      BY <2>9, <3>1, RemovingTurn
    <3> QED BY <3>1, <3>2
  <2> HIDE DEF S
  <2>10. n \in S
    BY <1>1, <2>8, <2>9, Induct
  <2>11. Removing(s, g[n])
    BY <2>10 DEF S
  <2> QED BY <2>7, <2>11 DEF Removing, FreeRun
<1> QED BY <1>2, <1>3

-----------------------------------------------------------------------------
\* q are clusters that start with c, each linked to the next.
Walk(F, c, q) ==
    /\ q \in Seq(DOMAIN F) /\ Len(q) > 0 /\ q[1] = c
    /\ \A j \in 1..(Len(q) - 1) : F[q[j]] = q[j + 1]

\* They are a chain when the last holds an end mark.
Chain(F, c, q) == Walk(F, c, q) /\ F[q[Len(q)]] \notin DOMAIN F \cup {0}

\* The clusters of a chain are clusters.
LEMMA ChainType ==
    ASSUME NEW F, NEW c, NEW q, Walk(F, c, q)
    PROVE  Len(q) \in Nat /\ \A j \in 1..Len(q) : q[j] \in DOMAIN F
BY DEF Walk

\* A chain that starts where none is linked to has each cluster once.
THEOREM ChainOnce ==
    ASSUME NEW F, Chains(F), NEW c, NoLink(F, c), NEW q, Walk(F, c, q),
           NEW j \in 1..Len(q), NEW k \in 1..Len(q), q[j] = q[k]
    PROVE  j = k
<1>1. Len(q) \in Nat /\ \A i \in 1..Len(q) : q[i] \in DOMAIN F
  BY ChainType
<1> DEFINE S == {i \in 1..Len(q) : \E m \in 1..Len(q) : i < m /\ q[i] = q[m]}
<1>2. ASSUME NEW n \in S PROVE FALSE
  <2>1. S \in SUBSET Nat
    BY <1>1
  <2> HIDE DEF S
  <2>2. PICK i \in S : \A x \in S : ~(x < i)
    BY <2>1, Least
  <2>3. PICK m \in 1..Len(q) : i \in 1..Len(q) /\ i < m /\ q[i] = q[m]
    BY <2>2 DEF S
  <2>4. m - 1 \in 1..(Len(q) - 1) /\ m - 1 + 1 = m /\ m - 1 \in 1..Len(q)
    BY <1>1, <2>3
  <2>5. F[q[m - 1]] = q[m]
    BY <2>4 DEF Walk
  <2>6. CASE i = 1
    BY <1>1, <2>3, <2>4, <2>5, <2>6 DEF Walk, NoLink
  <2>7. CASE i # 1
    <3>1. /\ i - 1 \in 1..(Len(q) - 1) /\ i - 1 + 1 = i /\ i - 1 \in 1..Len(q)
          /\ i - 1 < m - 1 /\ i - 1 < i
      BY <1>1, <2>3, <2>7
    <3>2. F[q[i - 1]] = q[i]
      BY <3>1 DEF Walk
    <3>3. q[i - 1] = q[m - 1]
      BY <1>1, <2>3, <2>4, <2>5, <3>1, <3>2 DEF Chains
    <3>4. i - 1 \in S
      BY <2>4, <3>1, <3>3 DEF S
    <3> QED BY <2>2, <3>1, <3>4
  <2> QED BY <2>6, <2>7
<1>3. ~(j < k) /\ ~(k < j)
  BY <1>2
<1> QED BY <1>1, <1>3

\* Two chains that start apart, where none is linked to, have no cluster in common.
THEOREM ChainsApart ==
    ASSUME NEW F, Chains(F), NEW c, NoLink(F, c), NEW q, Walk(F, c, q),
           NEW d, NoLink(F, d), NEW p, Walk(F, d, p), c # d,
           NEW j \in 1..Len(q), NEW k \in 1..Len(p)
    PROVE  q[j] # p[k]
<1>1. /\ Len(q) \in Nat /\ \A i \in 1..Len(q) : q[i] \in DOMAIN F
      /\ Len(p) \in Nat /\ \A i \in 1..Len(p) : p[i] \in DOMAIN F
  BY ChainType
<1> DEFINE S == {i \in 1..Len(q) : \E m \in 1..Len(p) : q[i] = p[m]}
<1>2. ASSUME NEW n \in S PROVE FALSE
  <2>1. S \in SUBSET Nat
    BY <1>1
  <2> HIDE DEF S
  <2>2. PICK i \in S : \A x \in S : ~(x < i)
    BY <2>1, Least
  <2>3. PICK m \in 1..Len(p) : i \in 1..Len(q) /\ q[i] = p[m]
    BY <2>2 DEF S
  <2>4. i = 1 \/ (i - 1 \in 1..Len(q) /\ i - 1 < i /\ F[q[i - 1]] = q[i])
    <3>1. i = 1 \/ (i - 1 \in 1..(Len(q) - 1) /\ i - 1 \in 1..Len(q) /\ i - 1 + 1 = i /\ i - 1 < i)
      BY <1>1, <2>3
    <3> QED BY <3>1 DEF Walk
  <2>5. m = 1 \/ (m - 1 \in 1..Len(p) /\ F[p[m - 1]] = p[m])
    <3>1. m = 1 \/ (m - 1 \in 1..(Len(p) - 1) /\ m - 1 \in 1..Len(p) /\ m - 1 + 1 = m)
      BY <1>1, <2>3
    <3> QED BY <3>1 DEF Walk
  <2>6. q[1] = c /\ p[1] = d
    BY DEF Walk
  <2>7. i # 1
    BY <1>1, <2>3, <2>5, <2>6 DEF NoLink
  <2>8. m # 1
    BY <1>1, <2>3, <2>4, <2>6, <2>7 DEF NoLink
  <2>9. q[i - 1] = p[m - 1]
    BY <1>1, <2>3, <2>4, <2>5, <2>7, <2>8 DEF Chains
  <2>10. i - 1 \in S
    BY <2>4, <2>5, <2>7, <2>8, <2>9 DEF S
  <2> QED BY <2>2, <2>4, <2>7, <2>10
<1> QED BY <1>2

\* It has no more clusters than the FAT has entries.
LEMMA WalkShort ==
    ASSUME NEW F, Chains(F), NEW c, NoLink(F, c), NEW q, Walk(F, c, q),
           NEW n \in Nat, DOMAIN F \subseteq 2..(n - 1)
    PROVE  Len(q) <= n
<1>1. /\ IsFiniteSet(2..(n - 1))
      /\ Cardinality(2..(n - 1)) = IF 2 > n - 1 THEN 0 ELSE (n - 1) - 2 + 1
  <2>1. 2 \in Int /\ n - 1 \in Int
    OBVIOUS
  <2> QED BY <2>1, FS_Interval
<1>2. Len(q) \in Nat /\ \A i \in 1..Len(q) : q[i] \in 2..(n - 1)
  BY ChainType
<1>3. \A j, k \in 1..Len(q) : q[j] = q[k] => j = k
  BY ChainOnce
<1> PICK h : h = [i \in 1..Len(q) |-> q[i]]
  OBVIOUS
<1>4. h \in Injection(1..Len(q), 2..(n - 1))
  BY <1>2, <1>3 DEF Injection, IsInjective
<1>5. Cardinality(2..(n - 1)) <= n
  BY <1>1
<1>6. Cardinality(1..Len(q)) <= Cardinality(2..(n - 1))
  BY <1>1, <1>4, FS_Injection
<1>7. Cardinality(1..Len(q)) = Len(q)
  <2>1. 1 \in Int /\ Len(q) \in Int
    BY <1>2
  <2>2. Cardinality(1..Len(q)) = IF 1 > Len(q) THEN 0 ELSE Len(q) - 1 + 1
    BY <2>1, FS_Interval
  <2> QED BY <1>2, <2>2
<1> QED BY <1>1, <1>2, <1>5, <1>6, <1>7

\* So remove_chain has turns enough for a chain.
LEMMA ChainShort ==
    ASSUME NEW s, Sound(s), ~Lost(s), NEW c, NoLink(ShownFat(s), c), NEW q, Chain(ShownFat(s), c, q)
    PROVE  Len(q) <= s.fs.n_fatent
<1>1. /\ Chains(ShownFat(s)) /\ DOMAIN ShownFat(s) = 2..(s.fs.n_fatent - 1)
      /\ s.fs.n_fatent \in Nat
  BY SoundHealthy, FatEntries, NoSick DEF ClustersOf, Volume, Fits
<1> QED BY <1>1, WalkShort DEF Chain

\* A used cluster that none is linked to is the start of a chain, which ends.
THEOREM ChainEnds ==
    ASSUME NEW F, Chains(F), Entries(F), NEW c \in DOMAIN F, NoLink(F, c), F[c] # 0
    PROVE  \E q : Chain(F, c, q)
<1> SUFFICES ASSUME \A q : ~Chain(F, c, q) PROVE FALSE
  OBVIOUS
<1> DEFINE Long(m) == \E q : Walk(F, c, q) /\ Len(q) = m + 1
           S == {m \in Nat : Long(m)}
<1>1. Long(0)
  <2>1. Walk(F, c, <<c>>) /\ Len(<<c>>) = 1
    BY DEF Walk
  <2> QED BY <2>1
<1>2. ASSUME NEW m \in Nat, Long(m) PROVE Long(m + 1)
  <2>1. PICK q : Walk(F, c, q) /\ Len(q) = m + 1
    BY <1>2
  <2>2. q \in Seq(DOMAIN F) /\ \A j \in 1..(m + 1) : q[j] \in DOMAIN F
    BY <2>1 DEF Walk
  <2>3. F[q[m + 1]] \in DOMAIN F \cup {0}
    BY <2>1 DEF Chain
  <2>4. F[q[m + 1]] # 0
    <3>1. CASE m = 0
      BY <3>1, <2>1 DEF Walk
    <3>2. CASE m # 0
      <4>1. m \in 1..(Len(q) - 1) /\ m \in 1..(m + 1) /\ m + 1 \in 1..(m + 1)
        BY <2>1, <3>2
      <4>2. F[q[m]] = q[m + 1]
        BY <2>1, <4>1 DEF Walk
      <4> QED BY <2>2, <4>1, <4>2 DEF Chains
    <3> QED BY <3>1, <3>2
  <2> PICK r : r = Append(q, F[q[m + 1]])
    OBVIOUS
  <2>5. /\ r \in Seq(DOMAIN F) /\ Len(r) = m + 2 /\ r[m + 2] = F[q[m + 1]]
        /\ \A j \in 1..(m + 1) : r[j] = q[j]
    BY <2>1, <2>2, <2>3, <2>4
  <2>6. ASSUME NEW j \in 1..(Len(r) - 1) PROVE F[r[j]] = r[j + 1]
    <3>1. CASE j = m + 1
      BY <2>5, <3>1
    <3>2. CASE j # m + 1
      <4>1. j \in 1..(Len(q) - 1) /\ j \in 1..(m + 1) /\ j + 1 \in 1..(m + 1)
        BY <2>1, <2>5, <3>2
      <4> QED BY <2>1, <2>5, <4>1 DEF Walk
    <3> QED BY <3>1, <3>2
  <2>7. Walk(F, c, r)
    <3>1. r[1] = c /\ Len(r) > 0
      BY <2>1, <2>5 DEF Walk
    <3> QED BY <2>5, <2>6, <3>1 DEF Walk
  <2>8. Len(r) = m + 1 + 1
    BY <2>5
  <2> QED BY <2>7, <2>8
<1> HIDE DEF Long
<1>3. EOC \in Nat /\ EOC \in 0..EOC
  BY Marks
<1>4. S \in SUBSET Nat /\ 0 \in S /\ \A i \in 0..EOC : i \in S /\ i < EOC => i + 1 \in S
  BY <1>1, <1>2, <1>3
<1> HIDE DEF S
<1>5. EOC \in S
  BY <1>3, <1>4, Induct
<1>6. PICK q : Walk(F, c, q) /\ Len(q) = EOC + 1
  BY <1>5 DEF S, Long
<1>7. Len(q) <= EOC
  BY <1>3, <1>6, WalkShort DEF Entries
<1> QED BY <1>3, <1>6, <1>7

\* F when the first m clusters of q are freed.
Cleared(F, q, m) == [x \in DOMAIN F |-> IF \E j \in 1..m : q[j] = x THEN 0 ELSE F[x]]

\* Removing one cluster more.
LEMMA ClearedNext ==
    ASSUME NEW F, Chains(F), Entries(F), NEW c, NoLink(F, c), NEW q, Chain(F, c, q),
           NEW i \in 0..(Len(q) - 1)
    PROVE  /\ Cleared(F, q, i)[q[i + 1]] = F[q[i + 1]] /\ F[q[i + 1]] # 0
           /\ Cleared(F, q, i + 1) = [Cleared(F, q, i) EXCEPT ![q[i + 1]] = 0]
           /\ q[i + 1] \in DOMAIN F
<1>1. Len(q) \in Nat /\ \A j \in 1..Len(q) : q[j] \in DOMAIN F
  BY ChainType DEF Chain
<1>2. /\ i + 1 \in 1..Len(q) /\ 1..(i + 1) = 1..i \cup {i + 1}
      /\ i + 1 \notin 1..i /\ 1..i \subseteq 1..Len(q)
  BY <1>1
<1>3. q[i + 1] \in DOMAIN F
  BY <1>1, <1>2
<1>4. \A j \in 1..i : q[j] # q[i + 1]
  BY <1>2, ChainOnce DEF Chain
<1>5. Cleared(F, q, i)[q[i + 1]] = F[q[i + 1]]
  BY <1>3, <1>4 DEF Cleared
<1>6. F[q[i + 1]] # 0
  <2>1. CASE i + 1 = Len(q)
    BY <2>1 DEF Chain, Walk
  <2>2. CASE i + 1 # Len(q)
    <3>1. i + 1 \in 1..(Len(q) - 1) /\ i + 1 + 1 \in 1..Len(q)
      BY <1>1, <2>2
    <3>2. F[q[i + 1]] = q[i + 1 + 1]
      BY <3>1 DEF Chain, Walk
    <3> QED BY <1>1, <3>1, <3>2 DEF Entries
  <2> QED BY <2>1, <2>2
<1>7. Cleared(F, q, i + 1) = [Cleared(F, q, i) EXCEPT ![q[i + 1]] = 0]
  BY <1>2, <1>3 DEF Cleared
<1> QED BY <1>3, <1>5, <1>6, <1>7

\* Removing none.
LEMMA ClearedFirst ==
    ASSUME NEW F, F = [x \in DOMAIN F |-> F[x]], NEW q
    PROVE  Cleared(F, q, 0) = F
<1>1. ~\E j \in 1..0 : TRUE
  OBVIOUS
<1> QED BY <1>1 DEF Cleared

\* How far remove_chain has come with the chain q after i turns.
Upto(q, i) == IF i < Len(q) THEN i ELSE Len(q)
RemovedPart(s, c, q, i, t) ==
    /\ Onward(s, t)
    /\ ~Lost(t) =>
          /\ s.fault.kind # "write" => t.res = "OK"
          /\ t.res = "OK" =>
                /\ ShownFat(t) = Cleared(ShownFat(s), q, Upto(q, i))
                /\ t.ret = IF i = 0 THEN c ELSE ShownFat(s)[q[Upto(q, i)]]

\* A turn of remove_chain removes the next cluster of the chain.
LEMMA RemovedNext ==
    ASSUME NEW s, Sound(s), ~Lost(s), NEW c, NoLink(ShownFat(s), c), NEW q, Chain(ShownFat(s), c, q),
           NEW i \in Nat, NEW u, RemovedPart(s, c, q, i, u), NEW t, t = FreeTurn(u, i + 1)
    PROVE  RemovedPart(s, c, q, i + 1, t)
<1> PICK F : F = ShownFat(s)
  OBVIOUS
<1>1. /\ Chains(F) /\ Entries(F) /\ NoLink(F, c) /\ Chain(F, c, q) /\ Len(q) \in Nat
      /\ \A j \in 1..Len(q) : q[j] \in DOMAIN F
  BY SoundHealthy, FatEntries, ChainType DEF Chain
<1>2. /\ Sound(u) /\ Fields(s) /\ Fields(u)
      /\ Onward(s, u) /\ DOMAIN ShownFat(u) = ClustersOf(u.fs) /\ DOMAIN F = ClustersOf(s.fs)
  BY NoSick, FatEntries DEF RemovedPart, Onward
<1>3. ClustersOf(u.fs) = ClustersOf(s.fs) /\ u.fault.kind = s.fault.kind
  BY <1>2, NearGeometry DEF Onward, Near
<1>4. CASE Lost(u)
  <2>1. Onward(u, t)
    <3>1. CASE u.res # "OK" \/ u.ret \notin ClustersOf(u.fs)
      BY <3>1, <1>2, FreeTurnNone, OnwardRefl
    <3>2. CASE u.res = "OK" /\ u.ret \in ClustersOf(u.fs)
      BY <3>2, <1>2, <1>4, FreeTurnOne DEF FreedOne
    <3> QED BY <3>1, <3>2
  <2>2. Onward(s, t) /\ Lost(t)
    BY <1>2, <1>4, <2>1, OnwardTrans DEF Onward
  <2> QED BY <2>2 DEF RemovedPart
<1>5. CASE ~Lost(u) /\ u.res # "OK"
  <2>1. t = u
    BY <1>5, FreeTurnNone
  <2> QED BY <2>1, <1>5 DEF RemovedPart
<1>6. CASE ~Lost(u) /\ u.res = "OK"
  <2>1. /\ ShownFat(u) = Cleared(F, q, Upto(q, i))
        /\ u.ret = IF i = 0 THEN c ELSE F[q[Upto(q, i)]]
    BY <1>6 DEF RemovedPart
  <2>2. CASE i < Len(q)
    <3>1. Upto(q, i) = i /\ Upto(q, i + 1) = i + 1 /\ i \in 0..(Len(q) - 1) /\ i + 1 # 0
      BY <1>1, <2>2 DEF Upto
    <3>2. u.ret = q[i + 1]
      <4>1. CASE i = 0
        BY <4>1, <2>1, <1>1 DEF Chain, Walk
      <4>2. CASE i # 0
        <5>1. i \in 1..(Len(q) - 1)
          BY <3>1, <4>2
        <5> QED BY <1>1, <2>1, <3>1, <4>2, <5>1 DEF Chain, Walk
      <4> QED BY <4>1, <4>2
    <3>3. /\ Cleared(F, q, i)[q[i + 1]] = F[q[i + 1]] /\ F[q[i + 1]] # 0
          /\ Cleared(F, q, i + 1) = [Cleared(F, q, i) EXCEPT ![q[i + 1]] = 0]
          /\ q[i + 1] \in DOMAIN F
      BY <1>1, <3>1, ClearedNext
    <3>4. NoLink(ShownFat(u), u.ret)
      <4>1. SUFFICES ASSUME NEW d \in DOMAIN F, Cleared(F, q, i)[d] = q[i + 1] PROVE FALSE
        BY <1>2, <1>3, <2>1, <3>1, <3>2 DEF NoLink
      <4>2. F[d] = q[i + 1] /\ \A j \in 1..i : q[j] # d
        BY <4>1, <1>1, <3>3 DEF Cleared, Entries
      <4>3. CASE i = 0
        BY <4>2, <4>3, <1>1 DEF Chain, Walk, NoLink
      <4>4. CASE i # 0
        <5>1. i \in 1..(Len(q) - 1) /\ i \in 1..i /\ i \in 1..Len(q)
          BY <3>1, <4>4
        <5>2. F[q[i]] = q[i + 1] /\ q[i] \in DOMAIN F
          BY <1>1, <5>1 DEF Chain, Walk
        <5> QED BY <1>1, <3>3, <4>1, <4>2, <5>1, <5>2 DEF Chains
      <4> QED BY <4>3, <4>4
    <3>5. u.ret \in ClustersOf(u.fs)
      BY <1>2, <1>3, <3>2, <3>3
    <3>6. FreedOne(u, u.ret, t)
      BY <1>2, <1>6, <3>4, <3>5, FreeTurnOne
    <3>7. Onward(s, t)
      BY <1>2, <3>6, OnwardTrans DEF FreedOne
    <3>8. ~Lost(t) /\ t.res = "OK" =>
              ShownFat(t) = Cleared(F, q, i + 1) /\ t.ret = F[q[i + 1]]
      BY <2>1, <3>1, <3>2, <3>3, <3>6 DEF FreedOne
    <3>9. ~Lost(t) /\ s.fault.kind # "write" => t.res = "OK"
      BY <1>3, <3>6 DEF FreedOne
    <3> QED BY <3>1, <3>7, <3>8, <3>9 DEF RemovedPart
  <2>3. CASE ~(i < Len(q))
    <3>1. Upto(q, i) = Len(q) /\ Upto(q, i + 1) = Len(q) /\ i # 0 /\ i + 1 # 0
      BY <1>1, <2>3 DEF Upto, Chain, Walk
    <3>2. u.ret \notin ClustersOf(u.fs)
      BY <1>2, <1>3, <1>1, <2>1, <3>1 DEF Chain, Walk
    <3>3. t = u
      BY <3>2, FreeTurnNone
    <3> QED BY <3>1, <3>3, <2>1, <1>6 DEF RemovedPart
  <2> QED BY <2>2, <2>3
<1> QED BY <1>4, <1>5, <1>6

\* remove_chain frees exactly the clusters of the chain, and fails only when a write
\* fails.
THEOREM RemovesAll ==
    ASSUME NEW s, Sound(s), ~Lost(s), NEW c, NoLink(ShownFat(s), c), NEW q, Chain(ShownFat(s), c, q),
           NEW t, t = remove_chain(s, c), ~Lost(t)
    PROVE  /\ s.fault.kind # "write" => t.res = "OK"
           /\ t.res = "OK" => \A x \in ClustersOf(s.fs) :
                  ShownFat(t)[x] = IF \E j \in 1..Len(q) : q[j] = x THEN 0 ELSE ShownFat(s)[x]
<1> PICK n : n = s.fs.n_fatent
  OBVIOUS
<1>1. Fields(s) /\ n \in Nat /\ (IsClust(s, c) <=> c \in ClustersOf(s.fs)) /\ DOMAIN ShownFat(s) = ClustersOf(s.fs)
  BY NoSick, FatEntries DEF Volume, Fits, IsClust, ClustersOf
<1>2. Len(q) <= n /\ Len(q) \in Nat /\ Len(q) > 0
  BY ChainShort, ChainType DEF Chain, Walk
<1>3. IsClust(s, c)
  <2>1. 1 \in 1..Len(q) /\ q[1] = c
    BY <1>2 DEF Chain, Walk
  <2> QED BY <2>1, <1>1, ChainType DEF Chain
<1> PICK a : a = [s EXCEPT !.ret = c]
  OBVIOUS
<1> PICK b : b = Set(a, "OK")
  OBVIOUS
<1>4. t = Loop(b, n, FreeTurn)
  BY <1>3 DEF remove_chain
<1>5. Beside(s, a) /\ a.ret = c /\ a.fs = s.fs
  BY BesideRet DEF RetSet
<1>6. Sound(a)
  BY <1>5 DEF Beside, Onward
<1>7. Beside(a, b) /\ b.ret = c /\ b.fs = s.fs /\ b.res = "OK"
  <2>1. ResSet(a, "OK", b)
    BY <1>6, BesideRes
  <2> QED BY <1>5, <2>1 DEF ResSet
<1>8. Onward(s, b) /\ ShownFat(b) = ShownFat(s)
  BY <1>1, <1>5, <1>7, OnwardTrans DEF Beside
<1>9. RemovedPart(s, c, q, 0, b)
  <2>1. Upto(q, 0) = 0
    BY <1>2 DEF Upto
  <2>2. Cleared(ShownFat(s), q, 0) = ShownFat(s)
    BY FatEntries, ClearedFirst
  <2> QED BY <1>7, <1>8, <2>1, <2>2 DEF RemovedPart
<1>10. PICK g : FreeRun(b, n, g, t)
  BY <1>1, <1>4, FreeLoop
<1> DEFINE S == {i \in 0..n : RemovedPart(s, c, q, i, g[i])}
<1>11. S \in SUBSET Nat /\ 0 \in S
  BY <1>1, <1>9, <1>10 DEF FreeRun
<1>12. ASSUME NEW i \in 0..n, i \in S, i < n PROVE i + 1 \in S
  <2>1. i + 1 \in 0..n /\ i \in Nat
    BY <1>1, <1>12
  <2>2. g[i + 1] = FreeTurn(g[i], i + 1)
    BY <1>10, <1>12 DEF FreeRun
  <2>3. RemovedPart(s, c, q, i + 1, g[i + 1])
    BY <1>12, <2>1, <2>2, RemovedNext
  <2> QED BY <2>1, <2>3
<1> HIDE DEF S
<1>13. n \in S
  BY <1>1, <1>11, <1>12, Induct
<1>14. RemovedPart(s, c, q, n, t)
  BY <1>10, <1>13 DEF S, FreeRun
<1>15. Upto(q, n) = Len(q)
  BY <1>1, <1>2 DEF Upto
<1> QED BY <1>1, <1>14, <1>15 DEF RemovedPart, Cleared

-----------------------------------------------------------------------------
\* A turn of the search for a free cluster, in the volume of s, after scl.
SeekTurn(s, scl, t, i) ==
    IF t.ret # 0 THEN t
    ELSE With(get_fat(t, Nth(s, scl, i)), LAMBDA g :
         IF g.ret \in {1, Err} THEN g
         ELSE [g EXCEPT !.ret = IF @ = 0 THEN Nth(s, scl, i) ELSE 0])

Seekable(s, scl, b, n) ==
    \E g : g = [i \in 0..n |-> IF i = 0 THEN b ELSE SeekTurn(s, scl, g[i - 1], i)]

\* The function that Loop chooses exists, for the search of create_chain too.
LEMMA SeekLoopExists ==
    ASSUME NEW s, NEW scl, NEW b, NEW n \in Nat
    PROVE  Seekable(s, scl, b, n)
<1> DEFINE Ok(m) == \E g : g = [i \in 0..m |-> IF i = 0 THEN b ELSE SeekTurn(s, scl, g[i - 1], i)]
           S == {m \in Nat : Ok(m)}
<1>1. Ok(0)
  <2>1. [i \in 0..0 |-> b] = [i \in 0..0 |-> IF i = 0 THEN b ELSE SeekTurn(s, scl, [j \in 0..0 |-> b][i - 1], i)]
    OBVIOUS
  <2> QED BY <2>1
<1>2. ASSUME NEW m \in Nat, Ok(m) PROVE Ok(m + 1)
  <2>1. PICK g : g = [i \in 0..m |-> IF i = 0 THEN b ELSE SeekTurn(s, scl, g[i - 1], i)]
    BY <1>2
  <2> PICK h : h = [i \in 0..(m + 1) |-> IF i = m + 1 THEN SeekTurn(s, scl, g[m], m + 1) ELSE g[i]]
    OBVIOUS
  <2>2. \A i \in 0..m : h[i] = g[i]
    OBVIOUS
  <2>3. ASSUME NEW i \in 0..(m + 1)
        PROVE  h[i] = IF i = 0 THEN b ELSE SeekTurn(s, scl, h[i - 1], i)
    <3>1. CASE i = m + 1
      BY <3>1, <2>2
    <3>2. CASE i \in 0..m
      <4>1. i = 0 \/ i - 1 \in 0..m
        BY <3>2
      <4> QED BY <4>1, <3>2, <2>1, <2>2
    <3> QED BY <3>1, <3>2
  <2>4. h = [i \in 0..(m + 1) |-> IF i = 0 THEN b ELSE SeekTurn(s, scl, h[i - 1], i)]
    BY <2>3
  <2> QED BY <2>4
<1> HIDE DEF Ok
<1>3. S \in SUBSET Nat /\ 0 \in S /\ \A i \in 0..n : i \in S /\ i < n => i + 1 \in S
  BY <1>1, <1>2
<1> HIDE DEF S
<1>4. n \in S
  BY <1>3, Induct
<1> QED BY <1>4 DEF S, Ok, Seekable

SeekRun(s, scl, b, n, g, t) ==
    g[0] = b /\ g[n] = t /\ \A i \in 0..n : i < n => g[i + 1] = SeekTurn(s, scl, g[i], i + 1)

\* So the search is a sequence of turns.
LEMMA SeekLoop ==
    ASSUME NEW s, NEW scl, NEW n \in Nat, n = s.fs.n_fatent - 2, NEW t, t = NextFree(s, scl),
           NEW b, b = [s EXCEPT !.ret = 0]
    PROVE  \E g : SeekRun(s, scl, b, n, g, t)
<1> DEFINE f == CHOOSE g : g = [i \in 0..n |-> IF i = 0 THEN b ELSE SeekTurn(s, scl, g[i - 1], i)]
<1>1. f = [i \in 0..n |-> IF i = 0 THEN b ELSE SeekTurn(s, scl, f[i - 1], i)]
  <2>1. \E g : g = [i \in 0..n |-> IF i = 0 THEN b ELSE SeekTurn(s, scl, g[i - 1], i)]
    <3>1. Seekable(s, scl, b, n)
      BY SeekLoopExists
    <3> QED BY <3>1 DEF Seekable
  <2> QED BY <2>1
<1>2. t = f[n]
  BY DEF NextFree, Loop, SeekTurn
<1> HIDE DEF f
<1>5. \A i \in 0..n : f[i] = IF i = 0 THEN b ELSE SeekTurn(s, scl, f[i - 1], i)
  BY <1>1, Zenon
<1>3. f[0] = b
  BY <1>5
<1>4. ASSUME NEW i \in 0..n, i < n PROVE f[i + 1] = SeekTurn(s, scl, f[i], i + 1)
  <2>1. i + 1 \in 0..n /\ i + 1 # 0 /\ i + 1 - 1 = i
    BY <1>4
  <2>2. f[i + 1] = IF i + 1 = 0 THEN b ELSE SeekTurn(s, scl, f[i + 1 - 1], i + 1)
    BY <1>5, <2>1
  <2> QED BY <2>1, <2>2
<1> QED BY <1>2, <1>3, <1>4 DEF SeekRun

\* The clusters after scl, round the FAT, are clusters.
LEMMA NthCluster ==
    ASSUME NEW s, Volume(s), NEW scl \in 1..(s.fs.n_fatent - 1), NEW i \in 1..(s.fs.n_fatent - 2)
    PROVE  Nth(s, scl, i) \in ClustersOf(s.fs)
<1>1. s.fs.n_fatent \in Nat
  BY DEF Volume, Fits
<1> QED BY <1>1 DEF Nth, ClustersOf

\* They are all of them.
LEMMA NthAll ==
    ASSUME NEW s, Volume(s), NEW scl \in 1..(s.fs.n_fatent - 1), NEW c \in ClustersOf(s.fs)
    PROVE  \E i \in 1..(s.fs.n_fatent - 2) : Nth(s, scl, i) = c
<1> PICK n : n = s.fs.n_fatent
  OBVIOUS
<1>1. n \in Nat /\ c \in 2..(n - 1) /\ scl \in 1..(n - 1)
  BY DEF Volume, Fits, ClustersOf
<1>2. CASE c > scl
  <2>1. c - scl \in 1..(n - 2) /\ scl + (c - scl) = c /\ c < n
    BY <1>1, <1>2
  <2>2. Nth(s, scl, c - scl) = c
    BY <2>1 DEF Nth
  <2> QED BY <2>1, <2>2
<1>3. CASE ~(c > scl)
  <2> PICK i : i = c - scl + n - 2
    OBVIOUS
  <2>1. i \in 1..(n - 2) /\ ~(scl + i < n) /\ scl + i - n + 2 = c
    BY <1>1, <1>3
  <2>2. Nth(s, scl, i) = c
    BY <2>1 DEF Nth
  <2> QED BY <2>1, <2>2
<1> QED BY <1>2, <1>3

\* How far the search has come after i turns.
Seeking(s, scl, i, t) ==
    /\ Onward(s, t) /\ Kin(s, t) /\ t.ret \in {0, 1, Err} \cup ClustersOf(s.fs)
    /\ ~Lost(t) =>
          /\ ShownFat(t) = ShownFat(s)
          /\ \/ t.ret = 0 /\ \A j \in 1..i : ShownFat(s)[Nth(s, scl, j)] # 0
             \/ t.ret \in ClustersOf(s.fs) /\ ShownFat(s)[t.ret] = 0
             \/ t.ret = Err /\ s.fault.kind = "write"

\* A turn finds a free cluster, or one more that is used.
LEMMA SeekingTurn ==
    ASSUME NEW s, Sound(s), NEW scl \in 1..(s.fs.n_fatent - 1), NEW i \in 0..(s.fs.n_fatent - 3),
           NEW u, Seeking(s, scl, i, u), NEW t, t = SeekTurn(s, scl, u, i + 1)
    PROVE  Seeking(s, scl, i + 1, t)
<1>1. /\ Fields(s) /\ Volume(s) /\ Sound(u) /\ Fields(u) /\ Onward(s, u) /\ Kin(s, u)
      /\ s.fs.n_fatent \in Nat /\ i + 1 \in 1..(s.fs.n_fatent - 2)
  <2>1. Volume(s) /\ Fields(s)
    BY NoSick
  <2>2. Onward(s, u) /\ Kin(s, u)
    BY DEF Seeking
  <2>3. Sound(u) /\ Fields(u)
    BY <2>2, NoSick DEF Onward
  <2>4. s.fs.n_fatent \in Nat
    BY <2>1 DEF Volume, Fits
  <2>5. i + 1 \in 1..(s.fs.n_fatent - 2)
    BY <2>4
  <2> QED BY <2>1, <2>2, <2>3, <2>4, <2>5
<1> PICK c : c = Nth(s, scl, i + 1)
  OBVIOUS
<1>2. /\ c \in ClustersOf(s.fs) /\ ClustersOf(u.fs) = ClustersOf(s.fs)
      /\ u.fault.kind = s.fault.kind
  BY <1>1, NthCluster, NearGeometry DEF Onward, Near
<1>3. /\ 0 \notin ClustersOf(s.fs) /\ 1 \notin ClustersOf(s.fs) /\ Err \notin ClustersOf(s.fs)
      /\ Err # 0 /\ Err # 1
  BY <1>1, Marks DEF ClustersOf, Volume, Fits
<1>4. CASE u.ret # 0
  <2>1. t = u
    BY <1>4 DEF SeekTurn
  <2> QED BY <2>1, <1>4 DEF Seeking
<1>5. CASE u.ret = 0
  <2> PICK g : g = get_fat(u, c)
    OBVIOUS
  <2> PICK r : r = IF g.ret = 0 THEN c ELSE 0
    OBVIOUS
  <2> PICK e : e = [g EXCEPT !.ret = r]
    OBVIOUS
  <2>1. GetStep(u, c, g)
    BY <1>1, <1>2, GetStepOne
  <2>2. /\ Onward(u, g) /\ Kin(u, g) /\ Sound(g) /\ Fields(g)
        /\ g.res \in {"OK", "DISK_ERR"}
        /\ g.res = "DISK_ERR" => g.ret = Err /\ u.fault.kind = "write"
        /\ ~Lost(g) => ShownFat(g) = ShownFat(u) /\ (g.res = "OK" => g.ret = ShownFat(u)[c])
    BY <2>1, NoSick DEF GetStep, Onward
  <2>3. t = IF g.ret \in {1, Err} THEN g ELSE e
    <3>1. e = [g EXCEPT !.ret = IF @ = 0 THEN c ELSE 0]
      BY <2>2 DEF Fields
    <3> QED BY <1>5, <3>1 DEF SeekTurn, With
  <2>4. Onward(s, g) /\ Kin(s, g)
    BY <1>1, <2>2, OnwardTrans, KinTrans
  <2>5. ~Lost(g) => /\ ~Lost(u) /\ ShownFat(g) = ShownFat(s)
                    /\ ShownFat(s)[c] \in Nat \ {1, Err}
                    /\ \A j \in 1..i : ShownFat(s)[Nth(s, scl, j)] # 0
    <3>1. SUFFICES ASSUME ~Lost(g)
          PROVE    /\ ~Lost(u) /\ ShownFat(g) = ShownFat(s)
                    /\ ShownFat(s)[c] \in Nat \ {1, Err}
                    /\ \A j \in 1..i : ShownFat(s)[Nth(s, scl, j)] # 0
      OBVIOUS
    <3>2. ~Lost(u) /\ ~Lost(s)
      BY <3>1, <2>2, <1>1 DEF Onward
    <3>3. Chains(ShownFat(s)) /\ DOMAIN ShownFat(s) = ClustersOf(s.fs)
      BY <3>2, SoundHealthy, FatEntries
    <3>4. ShownFat(u) = ShownFat(s) /\ \A j \in 1..i : ShownFat(s)[Nth(s, scl, j)] # 0
      BY <1>3, <1>5, <3>2 DEF Seeking
    <3> QED BY <1>2, <2>2, <3>1, <3>2, <3>3, <3>4 DEF Chains
  <2>6. CASE g.ret \in {1, Err}
    <3>1. t = g
      BY <2>3, <2>6
    <3>2. ~Lost(g) => g.ret = Err /\ s.fault.kind = "write"
      BY <1>2, <2>2, <2>5, <2>6 DEF Seeking
    <3> QED BY <3>1, <3>2, <2>4, <2>5, <2>6 DEF Seeking
  <2>7. CASE g.ret \notin {1, Err}
    <3>1. t = e
      BY <2>3, <2>7
    <3>2. RetSet(g, r, e)
      BY <2>2, BesideRet
    <3>3. Beside(g, e) /\ e.ret = r
      BY <3>2 DEF RetSet
    <3>4. Onward(s, e) /\ (Lost(e) <=> Lost(g)) /\ ShownFat(e) = ShownFat(g)
      BY <1>1, <2>4, <3>3, OnwardTrans DEF Beside
    <3>5. Kin(s, e)
      <4>1. Twin(g, e)
        BY <2>2, RetTwin, NoSick
      <4> QED BY <4>1, <2>4, KinTrans DEF Twin
    <3>6. g.res = "OK"
      BY <2>2, <2>7
    <3>7. ASSUME ~Lost(e)
          PROVE  \/ e.ret = 0 /\ \A j \in 1..(i + 1) : ShownFat(s)[Nth(s, scl, j)] # 0
                 \/ e.ret \in ClustersOf(s.fs) /\ ShownFat(s)[e.ret] = 0
      <4>1. g.ret = ShownFat(s)[c]
        <5>1. ShownFat(u) = ShownFat(s)
          BY <2>2, <2>5, <3>4, <3>7
        <5> QED BY <2>2, <3>4, <3>6, <3>7, <5>1
      <4>2. CASE g.ret = 0
        BY <1>2, <3>3, <4>1, <4>2
      <4>3. CASE g.ret # 0
        <5>1. \A j \in 1..(i + 1) : j \in 1..i \/ j = i + 1
          OBVIOUS
        <5> QED BY <2>5, <3>3, <3>4, <3>7, <4>1, <4>3, <5>1
      <4> QED BY <4>2, <4>3
    <3>8. e.ret \in {0} \cup ClustersOf(s.fs)
      BY <1>2, <3>3
    <3> QED BY <3>1, <3>4, <3>5, <3>7, <3>8, <2>5 DEF Seeking
  <2> QED BY <2>6, <2>7
<1> QED BY <1>4, <1>5

\* NextFree finds a free cluster, or there is none.
Sought(s, t) ==
    /\ Onward(s, t) /\ Kin(s, t) /\ t.ret \in {0, 1, Err} \cup ClustersOf(s.fs)
    /\ ~Lost(t) =>
          /\ ShownFat(t) = ShownFat(s)
          /\ \/ t.ret = 0 /\ Free(ShownFat(s)) = {}
             \/ t.ret \in ClustersOf(s.fs) /\ ShownFat(s)[t.ret] = 0
             \/ t.ret = Err /\ s.fault.kind = "write"

\* The search of create_chain finds a free cluster from wherever it starts, and
\* gives up only when there is none or a write failed.
THEOREM NextFreeFinds ==
    ASSUME NEW s, Sound(s), NEW scl \in 1..(s.fs.n_fatent - 1), NEW t, t = NextFree(s, scl)
    PROVE  Sought(s, t)
<1> PICK n : n = s.fs.n_fatent - 2
  OBVIOUS
<1> PICK b : b = [s EXCEPT !.ret = 0]
  OBVIOUS
<1>1. /\ Fields(s) /\ Volume(s) /\ n \in Nat
      /\ s.fs.n_fatent \in Nat /\ DOMAIN ShownFat(s) = ClustersOf(s.fs)
  BY NoSick, FatEntries DEF Volume, Fits
<1>2. PICK g : SeekRun(s, scl, b, n, g, t)
  BY <1>1, SeekLoop
<1>3. Seeking(s, scl, 0, b)
  <2>1. RetSet(s, 0, b)
    BY BesideRet
  <2>2. Onward(s, b) /\ ShownFat(b) = ShownFat(s) /\ b.ret = 0
    BY <2>1 DEF RetSet, Beside
  <2>3. Kin(s, b)
    BY <1>1, RetTwin DEF Twin
  <2>4. \A j \in 1..0 : ShownFat(s)[Nth(s, scl, j)] # 0
    OBVIOUS
  <2> QED BY <2>2, <2>3, <2>4 DEF Seeking
<1> DEFINE S == {i \in 0..n : Seeking(s, scl, i, g[i])}
<1>4. S \in SUBSET Nat /\ 0 \in S
  BY <1>1, <1>2, <1>3 DEF SeekRun
<1>5. ASSUME NEW i \in 0..n, i \in S, i < n PROVE i + 1 \in S
  <2>1. i + 1 \in 0..n /\ i \in 0..(s.fs.n_fatent - 3)
    BY <1>1, <1>5
  <2>2. g[i + 1] = SeekTurn(s, scl, g[i], i + 1)
    BY <1>2, <1>5 DEF SeekRun
  <2>3. Seeking(s, scl, i + 1, g[i + 1])
    BY <1>5, <2>1, <2>2, SeekingTurn
  <2> QED BY <2>1, <2>3
<1> HIDE DEF S
<1>6. n \in S
  BY <1>1, <1>4, <1>5, Induct
<1>7. Seeking(s, scl, n, t)
  BY <1>2, <1>6 DEF S, SeekRun
<1>8. ASSUME \A j \in 1..n : ShownFat(s)[Nth(s, scl, j)] # 0 PROVE Free(ShownFat(s)) = {}
  <2>1. SUFFICES ASSUME NEW c \in ClustersOf(s.fs), ShownFat(s)[c] = 0 PROVE FALSE
    BY <1>1 DEF Free
  <2>2. PICK j \in 1..n : Nth(s, scl, j) = c
    BY <1>1, NthAll
  <2> QED BY <1>8, <2>1, <2>2
<1> QED BY <1>7, <1>8 DEF Seeking, Sought

-----------------------------------------------------------------------------
\* n is the new end of the chain of c, or a chain of its own.
Grown(F, c, n) ==
    [x \in DOMAIN F |-> IF x = c THEN n ELSE IF x = n THEN EOC ELSE F[x]]

Linked(s, c, n, t) ==
    /\ Onward(s, t) /\ (t.ret \in {n, 1, Err})
    /\ ~Lost(t) =>
          \/ /\ t.ret = n /\ ShownFat(t) = Grown(ShownFat(s), c, n)
             /\ t.fs.free_clust = IF s.fs.free_clust = Err THEN Err ELSE s.fs.free_clust - 1
          \/ t.ret = Err /\ s.fault.kind = "write"

\* The two writes of Link, and what it makes of their result.
Ended(s, c, n) ==
    LET p == put_fat(s, n, EOC) IN IF p.res = "OK" /\ c # 0 THEN put_fat(p, c, n) ELSE p
Answered(l, n) ==
    IF l.res = "OK" THEN Count([l EXCEPT !.fs.last_clust = n, !.ret = n], -1)
    ELSE [l EXCEPT !.ret = IF l.res = "DISK_ERR" THEN Err ELSE 1]

\* Link is its two writes and what is made of their result.
LEMMA LinkParts == ASSUME NEW s, NEW c, NEW n PROVE Link(s, c, n) = Answered(Ended(s, c, n), n)
<1> PICK p : p = put_fat(s, n, EOC)
  OBVIOUS
<1> PICK l : l = Then(p, LAMBDA e : IF c # 0 THEN put_fat(e, c, n) ELSE e)
  OBVIOUS
<1>1. l = Ended(s, c, n)
  BY DEF Ended, Then, With
<1>2. Link(s, c, n) = Answered(l, n)
  <2>1. Link(s, c, n) = CHOOSE r \in {Answered(x, n) :
            x \in {Then(put_fat(s, n, EOC), LAMBDA e : IF c # 0 THEN put_fat(e, c, n) ELSE e)}} : TRUE
    BY DEF Link, Answered, With
  <2>2. Link(s, c, n) = CHOOSE r \in {Answered(x, n) : x \in {l}} : TRUE
    BY <2>1
  <2> HIDE DEF Answered
  <2> QED BY <2>2
<1> QED BY <1>1, <1>2

LastSet(s, n, t) ==
    Beside(s, t) /\ t.ret = n /\ t.fs.free_clust = s.fs.free_clust

\* The hint where to search next leaves a sound volume sound.
LEMMA BesideLast ==
    ASSUME NEW s, Sound(s), NEW n, NEW t, t = [s EXCEPT !.fs.last_clust = n, !.ret = n]
    PROVE  LastSet(s, n, t)
<1>1. Fields(s)
  BY NoSick
<1>2. /\ t.disk = s.disk /\ t.io = s.io /\ t.fault = s.fault /\ DOMAIN t = DOMAIN s /\ t.ret = n
      /\ t.fs = [s.fs EXCEPT !.last_clust = n]
  BY <1>1 DEF Fields
<1>3. /\ DOMAIN t.fs = DOMAIN s.fs /\ t.fs.free_clust = s.fs.free_clust
      /\ \A f \in DOMAIN s.fs \ {"free_clust", "last_clust", "fsi_flag"} : t.fs[f] = s.fs[f]
  BY <1>1, <1>2 DEF Fields
<1>4. Beside(s, t)
  BY <1>2, <1>3, BesideOne
<1> QED BY <1>2, <1>3, <1>4 DEF LastSet

\* Linking a free cluster to the end of a chain leaves the volume sound, also when
\* the power is lost between its two writes: the end mark is written first.
LEMMA LinkOne ==
    ASSUME NEW s, Sound(s), NEW n \in ClustersOf(s.fs), ~Lost(s) => ShownFat(s)[n] = 0,
           NEW c \in ClustersOf(s.fs) \cup {0}, NEW t, t = Link(s, c, n)
    PROVE  Linked(s, c, n, t)
<1> PICK p : p = put_fat(s, n, EOC)
  OBVIOUS
<1> PICK q : q = put_fat(p, c, n)
  OBVIOUS
<1> PICK l : l = IF p.res = "OK" /\ c # 0 THEN q ELSE p
  OBVIOUS
<1> PICK k : k = [l EXCEPT !.fs.last_clust = n, !.ret = n]
  OBVIOUS
<1> PICK a : a = Count(k, -1)
  OBVIOUS
<1> PICK r : r = IF l.res = "DISK_ERR" THEN Err ELSE 1
  OBVIOUS
<1> PICK e : e = [l EXCEPT !.ret = r]
  OBVIOUS
<1>1. t = IF l.res = "OK" THEN a ELSE e
  <2>1. l = Ended(s, c, n)
    BY DEF Ended
  <2>2. t = Answered(l, n)
    BY <2>1, LinkParts
  <2> QED BY <2>2 DEF Answered
<1>2. /\ Fields(s) /\ Entries(ShownFat(s))
      /\ DOMAIN ShownFat(s) = ClustersOf(s.fs) /\ 0 \notin ClustersOf(s.fs)
  <2>1. Fields(s) /\ Entries(ShownFat(s)) /\ DOMAIN ShownFat(s) = ClustersOf(s.fs)
    BY NoSick, FatEntries
  <2> QED BY <2>1 DEF Entries
<1> PICK F : F = ShownFat(s)
  OBVIOUS
<1> PICK G : G = [F EXCEPT ![n] = EOC]
  OBVIOUS
<1>3. ~Lost(s) => Chains(F) /\ F[n] = 0 /\ Chains(G) /\ NoLink(G, n) /\ G[n] # 0
  BY <1>2, SoundHealthy, ChainsEnd
<1>4. PutStep(s, n, EOC, p)
  BY <1>3, PutStepOne
<1>5. /\ Onward(s, p) /\ Same(s, p) /\ p.res \in {"OK", "DISK_ERR"}
      /\ p.res = "DISK_ERR" => s.fault.kind = "write"
      /\ ~Lost(p) => ShownFat(p) = IF p.res = "OK" THEN G ELSE F
  BY <1>4 DEF PutStep
<1>6. /\ Sound(p) /\ Fields(p) /\ (~Lost(p) => ~Lost(s)) /\ ClustersOf(p.fs) = ClustersOf(s.fs)
      /\ p.fault.kind = s.fault.kind
  BY <1>2, <1>5, NoSick, NearGeometry DEF Onward, Near
<1>7. DOMAIN G = DOMAIN F /\ Entries(G)
  BY <1>2 DEF Entries
<1>8. ASSUME p.res = "OK", c # 0
      PROVE  /\ Onward(s, q) /\ Same(s, q) /\ q.res \in {"OK", "DISK_ERR"}
             /\ q.res = "DISK_ERR" => s.fault.kind = "write"
             /\ ~Lost(q) /\ q.res = "OK" => ShownFat(q) = [G EXCEPT ![c] = n]
  <2>1. ~Lost(p) => ShownFat(p) = G /\ Chains([G EXCEPT ![c] = n])
    <3>1. SUFFICES ASSUME ~Lost(p) PROVE ShownFat(p) = G /\ Chains([G EXCEPT ![c] = n])
      OBVIOUS
    <3>2. c \in DOMAIN G /\ n \in DOMAIN G
      BY <1>2, <1>7, <1>8
    <3>3. Chains([G EXCEPT ![c] = n])
      BY <1>3, <1>6, <1>7, <3>1, <3>2, ChainsLink
    <3> QED BY <1>5, <1>8, <3>1, <3>3
  <2>2. PutStep(p, c, n, q)
    BY <1>6, <1>8, <2>1, PutStepOne
  <2>3. /\ Onward(p, q) /\ Same(p, q) /\ q.res \in {"OK", "DISK_ERR"}
        /\ q.res = "DISK_ERR" => p.fault.kind = "write"
        /\ ~Lost(q) /\ q.res = "OK" => ShownFat(q) = [ShownFat(p) EXCEPT ![c] = n]
    BY <2>2 DEF PutStep
  <2>4. Onward(s, q) /\ Same(s, q)
    BY <1>2, <1>5, <2>3, OnwardTrans, SameTrans
  <2>5. ~Lost(q) => ~Lost(p)
    BY <2>3 DEF Onward
  <2> QED BY <1>6, <2>1, <2>3, <2>4, <2>5
<1>9. /\ Onward(s, l) /\ Same(s, l) /\ l.res \in {"OK", "DISK_ERR"}
      /\ l.res = "DISK_ERR" => s.fault.kind = "write"
      /\ ~Lost(l) /\ l.res = "OK" => ShownFat(l) = IF c # 0 THEN [G EXCEPT ![c] = n] ELSE G
  <2>1. CASE p.res = "OK" /\ c # 0
    BY <1>8, <2>1
  <2>2. CASE ~(p.res = "OK" /\ c # 0)
    BY <1>5, <2>2
  <2> QED BY <2>1, <2>2
<1>10. ~Lost(l) /\ l.res = "OK" => ShownFat(l) = Grown(F, c, n)
  BY <1>2, <1>9 DEF Grown
<1>11. Sound(l) /\ Fields(l) /\ l.fs.free_clust = s.fs.free_clust
  <2>1. Sound(l) /\ Fields(l)
    BY <1>9, NoSick DEF Onward
  <2>2. SameGeo(s, l)
    BY <1>2, <1>9, <2>1, SameGeometry
  <2> QED BY <2>1, <2>2 DEF SameGeo
<1>12. CASE l.res = "OK"
  <2>3. Beside(l, k) /\ k.ret = n /\ k.fs.free_clust = s.fs.free_clust
    <3>1. LastSet(l, n, k)
      BY <1>11, BesideLast
    <3> QED BY <1>11, <3>1 DEF LastSet
  <2>4. Sound(k)
    BY <2>3 DEF Beside, Onward
  <2>5. Added(k, -1, a)
    BY <2>4, BesideCount
  <2>6. /\ Beside(k, a) /\ a.ret = n
        /\ a.fs.free_clust = IF s.fs.free_clust = Err THEN Err ELSE s.fs.free_clust - 1
    BY <2>3, <2>5 DEF Added
  <2>7. /\ Onward(s, k) /\ (Lost(a) <=> Lost(l)) /\ ShownFat(a) = ShownFat(l)
    BY <1>2, <1>9, <2>3, <2>6, OnwardTrans DEF Beside
  <2>8. Onward(s, a)
    BY <1>2, <2>6, <2>7, OnwardTrans DEF Beside
  <2>9. t = a
    BY <1>1, <1>12
  <2> QED BY <1>10, <1>12, <2>6, <2>7, <2>8, <2>9 DEF Linked
<1>13. CASE l.res = "DISK_ERR"
  <2>1. RetSet(l, r, e) /\ r = Err
    BY <1>11, <1>13, BesideRet
  <2>2. Beside(l, e) /\ e.ret = Err
    BY <2>1 DEF RetSet
  <2>3. Onward(s, e)
    BY <1>2, <1>9, <2>2, OnwardTrans DEF Beside
  <2>4. t = e
    BY <1>1, <1>13
  <2> QED BY <1>9, <1>13, <2>2, <2>3, <2>4 DEF Linked
<1> QED BY <1>9, <1>12, <1>13

\* Its parts: the first cluster to try, and what the end of the chain holds.
Start(s, c) ==
    IF c # 0 THEN c
    ELSE IF s.fs.last_clust \in 1..(s.fs.n_fatent - 1) THEN s.fs.last_clust ELSE 1
EndOf(s, c) == IF c = 0 THEN [s EXCEPT !.ret = EOC] ELSE get_fat(s, c)
Extended(s, g, c) ==
    LET f == NextFree(g, Start(s, c))
    IN  IF g.ret < 2 THEN [g EXCEPT !.ret = 1]
        ELSE IF g.ret < s.fs.n_fatent THEN g
        ELSE IF f.ret \in {0, 1, Err} THEN f ELSE Link(f, c, f.ret)

\* create_chain is the look at the end of the chain, and what follows.
LEMMA CreateParts == ASSUME NEW s, NEW c PROVE create_chain(s, c) = Extended(s, EndOf(s, c), c)
<1> PICK g : g = EndOf(s, c)
  OBVIOUS
<1> PICK scl : scl = Start(s, c)
  OBVIOUS
<1> PICK f : f = NextFree(g, scl)
  OBVIOUS
<1>1. With(f, LAMBDA x : IF x.ret \in {0, 1, Err} THEN x ELSE Link(x, c, x.ret)) =
          IF f.ret \in {0, 1, Err} THEN f ELSE Link(f, c, f.ret)
  BY DEF With
<1>2. create_chain(s, c) = IF g.ret < 2 THEN [g EXCEPT !.ret = 1]
        ELSE IF g.ret < s.fs.n_fatent THEN g
        ELSE With(f, LAMBDA x : IF x.ret \in {0, 1, Err} THEN x ELSE Link(x, c, x.ret))
  <2>1. create_chain(s, c) = CHOOSE r \in {
          (IF x.ret < 2 THEN [x EXCEPT !.ret = 1]
           ELSE IF x.ret < s.fs.n_fatent THEN x
           ELSE With(NextFree(x, scl), LAMBDA y : IF y.ret \in {0, 1, Err} THEN y ELSE Link(y, c, y.ret))) :
            x \in {g}} : TRUE
    BY DEF create_chain, With, EndOf, Start
  <2> QED BY <2>1
<1> QED BY <1>1, <1>2 DEF Extended

\* What create_chain answers, and what it has done then.
Created(s, c, t) ==
    LET F == ShownFat(s)
        G == ShownFat(t)
    IN  /\ t.ret = 1 => G = F /\ c # 0 /\ (c \in DOMAIN F => F[c] = 0)
        /\ t.ret = 0 => G = F /\ Free(F) = {}
        /\ t.ret \notin {0, 1, Err} =>
              \/ G = F /\ c \in DOMAIN F /\ t.ret = F[c]
              \/ /\ t.ret \in DOMAIN F /\ F[t.ret] = 0 /\ G = Grown(F, c, t.ret)
                 /\ s.fault.kind = "write" \/ c = 0 \/ F[c] \notin DOMAIN F
        /\ t.ret = Err => s.fault.kind = "write"

Creates(s, c, t) ==
    /\ Onward(s, t)
    /\ ~Lost(t) => Created(s, c, t)
    /\ ~Lost(t) /\ Counted(s) /\ t.ret # Err /\ (c \in ClustersOf(s.fs) => ShownFat(s)[c] # 0) =>
          Counted(t)

\* A cluster was taken from the free ones, and the count is right.
LEMMA CountedLinked ==
    ASSUME NEW s, Sound(s), Counted(s), ~Lost(s), NEW n \in ClustersOf(s.fs), ShownFat(s)[n] = 0,
           NEW c \in ClustersOf(s.fs) \cup {0}, c \in ClustersOf(s.fs) => ShownFat(s)[c] # 0,
           NEW t, t.fs.free_clust = IF s.fs.free_clust = Err THEN Err ELSE s.fs.free_clust - 1,
           ShownFat(t) = Grown(ShownFat(s), c, n)
    PROVE  Counted(t)
<1> PICK F : F = ShownFat(s)
  OBVIOUS
<1>1. Entries(F) /\ DOMAIN F = ClustersOf(s.fs) /\ EOC # 0 /\ 0 \notin DOMAIN F
  BY FatEntries, Marks DEF Entries
<1> PICK G : G = [F EXCEPT ![n] = EOC]
  OBVIOUS
<1>2. Cardinality(Free(G)) = Cardinality(Free(F)) - 1
  <2>1. Entries(F) /\ n \in DOMAIN F /\ F[n] = 0 /\ EOC # 0
    BY <1>1
  <2> QED BY <2>1, OneLessFree, Zenon
<1>3. Free(Grown(F, c, n)) = Free(G)
  BY <1>1 DEF Free, Grown
<1>4. s.fs.free_clust \in {Err, Cardinality(Free(F))}
  BY DEF Counted
<1> QED BY <1>2, <1>3, <1>4 DEF Counted

\* create_chain leaves the volume sound wherever a write fails or the power is lost.
\* The cluster it returns is the one already linked, or a free one that is now the
\* end of the chain; it answers that the disk is full only when no cluster is free,
\* and an error only for a bad chain or a failed write; and the count stays right.
THEOREM CreateChain ==
    ASSUME NEW s, Sound(s), NEW c, NEW t, t = create_chain(s, c)
    PROVE  Creates(s, c, t)
<1> PICK scl : scl = IF c # 0 THEN c
               ELSE IF s.fs.last_clust \in 1..(s.fs.n_fatent - 1) THEN s.fs.last_clust ELSE 1
  OBVIOUS
<1> PICK b : b = [s EXCEPT !.ret = EOC]
  OBVIOUS
<1> PICK h : h = get_fat(s, c)
  OBVIOUS
<1> PICK g : g = IF c = 0 THEN b ELSE h
  OBVIOUS
<1> PICK e : e = [g EXCEPT !.ret = 1]
  OBVIOUS
<1> PICK f : f = NextFree(g, scl)
  OBVIOUS
<1> PICK l : l = Link(f, c, f.ret)
  OBVIOUS
<1> PICK F : F = ShownFat(s)
  OBVIOUS
<1>1. t = IF g.ret < 2 THEN e
          ELSE IF g.ret < s.fs.n_fatent THEN g
          ELSE IF f.ret \in {0, 1, Err} THEN f ELSE l
  <2>1. g = EndOf(s, c) /\ scl = Start(s, c)
    BY DEF EndOf, Start
  <2>2. t = Extended(s, g, c)
    BY <2>1, CreateParts
  <2> QED BY <2>1, <2>2 DEF Extended
<1>2. /\ /\ Fields(s) /\ Volume(s) /\ s.fs.n_fatent \in Nat
      /\ 2 <= s.fs.n_fatent /\ s.fs.n_fatent <= EOC
      /\ DOMAIN F = ClustersOf(s.fs) /\ ClustersOf(s.fs) = 2..(s.fs.n_fatent - 1)
      /\ (IsClust(s, c) <=> c \in ClustersOf(s.fs))
  BY NoSick, FatEntries DEF Volume, Fits, ClustersOf, IsClust
<1>3. EOC \in Nat /\ Err \in Nat /\ 1 < EOC /\ EOC < Err
  BY Marks
<1>4. CASE c # 0 /\ c \notin ClustersOf(s.fs)
  <2> PICK d : d = [s EXCEPT !.ret = 1]
    OBVIOUS
  <2>1. g = d
    BY <1>2, <1>4 DEF get_fat
  <2>2. RetSet(s, 1, d)
    BY BesideRet
  <2>3. Sound(g) /\ Beside(s, g) /\ g.ret = 1 /\ g.fs = s.fs
    BY <2>1, <2>2 DEF RetSet, Beside, Onward
  <2>4. t = e
    BY <1>1, <2>3
  <2>5. RetSet(g, 1, e)
    BY <2>3, BesideRet
  <2>6. Beside(g, e) /\ e.ret = 1 /\ e.fs = s.fs
    BY <2>3, <2>5 DEF RetSet
  <2>7. Onward(s, e) /\ (Lost(e) <=> Lost(s)) /\ ShownFat(e) = ShownFat(s)
    BY <1>2, <2>3, <2>6, OnwardTrans DEF Beside
  <2>8. Created(s, c, e)
    BY <1>2, <1>3, <1>4, <2>6, <2>7 DEF Created
  <2>9. Counted(s) => Counted(e)
    BY <2>6, <2>7 DEF Counted
  <2> QED BY <2>4, <2>7, <2>8, <2>9 DEF Creates
<1>5. CASE c = 0 \/ c \in ClustersOf(s.fs)
  <2>1. /\ Onward(s, g) /\ Kin(s, g)
        /\ ~Lost(g) =>
              /\ ShownFat(g) = F
              /\ \/ c = 0 /\ g.ret = EOC
                 \/ c \in ClustersOf(s.fs) /\ g.ret = F[c]
                 \/ c \in ClustersOf(s.fs) /\ g.ret = Err /\ s.fault.kind = "write"
    <3>1. CASE c = 0
      <4>1. RetSet(s, EOC, b)
        BY BesideRet
      <4>2. Twin(s, b)
        BY <1>2, RetTwin
      <4> QED BY <3>1, <4>1, <4>2 DEF RetSet, Beside, Twin
    <3>2. CASE c \in ClustersOf(s.fs)
      <4>1. g = h
        BY <1>2, <3>2
      <4>2. GetStep(s, c, h)
        BY <3>2, GetStepOne
      <4> QED BY <3>2, <4>1, <4>2 DEF GetStep
    <3> QED BY <1>5, <3>1, <3>2
  <2>2. /\ /\ Sound(g) /\ Fields(g)
        /\ ClustersOf(g.fs) = ClustersOf(s.fs) /\ g.fs.n_fatent = s.fs.n_fatent
        /\ g.fault.kind = s.fault.kind /\ g.fs.free_clust = s.fs.free_clust /\ (~Lost(g) => ~Lost(s))
    <3>1. Sound(g) /\ Fields(g)
      BY <2>1, NoSick DEF Onward
    <3>2. SameGeo(s, g)
      BY <1>2, <2>1, <3>1, KinGeometry
    <3> QED BY <2>1, <3>1, <3>2, <1>2, NearGeometry DEF SameGeo, Onward, Near
  <2>3. ~Lost(g) => Chains(F) /\ (c \in ClustersOf(s.fs) => F[c] \in Nat \ {1, Err})
    BY <1>2, <2>2, SoundHealthy DEF Chains
  <2>4. CASE g.ret < 2
    <3>1. t = e
      BY <1>1, <2>4
    <3>2. RetSet(g, 1, e)
      BY <2>2, BesideRet
    <3>3. Beside(g, e) /\ e.ret = 1 /\ e.fs = g.fs
      BY <3>2 DEF RetSet
    <3>4. Onward(s, e) /\ (Lost(e) <=> Lost(g)) /\ ShownFat(e) = ShownFat(g)
      BY <1>2, <2>1, <3>3, OnwardTrans DEF Beside
    <3>5. ~Lost(e) => c \in ClustersOf(s.fs) /\ F[c] = 0 /\ ShownFat(e) = F
      BY <1>3, <2>1, <2>3, <2>4, <3>4
    <3>6. ~Lost(e) => Created(s, c, e)
      BY <1>2, <1>3, <3>3, <3>5 DEF Created
    <3>7. ~Lost(e) /\ Counted(s) => Counted(e)
      BY <2>2, <3>3, <3>4, <3>5 DEF Counted
    <3> QED BY <3>1, <3>4, <3>6, <3>7 DEF Creates
  <2>5. CASE ~(g.ret < 2) /\ g.ret < s.fs.n_fatent
    <3>1. t = g
      BY <1>1, <2>5
    <3>2. ~Lost(g) => c \in ClustersOf(s.fs) /\ g.ret = F[c] /\ ShownFat(g) = F
      BY <1>2, <1>3, <2>1, <2>5
    <3>3. ~Lost(g) => g.ret \notin {0, 1, Err}
      BY <1>2, <1>3, <2>3, <2>5, <3>2
    <3>4. ~Lost(g) => Created(s, c, g)
      BY <1>2, <3>2, <3>3 DEF Created
    <3>5. ~Lost(g) /\ Counted(s) => Counted(g)
      BY <2>2, <3>2 DEF Counted
    <3> QED BY <2>1, <3>1, <3>4, <3>5 DEF Creates
  <2>6. CASE ~(g.ret < 2) /\ ~(g.ret < s.fs.n_fatent)
    <3>1. scl \in 1..(g.fs.n_fatent - 1)
      BY <1>2, <1>5, <2>2
    <3>2. Sought(g, f)
      BY <2>2, <3>1, NextFreeFinds
    <3>3. /\ Onward(g, f) /\ Kin(g, f) /\ f.ret \in {0, 1, Err} \cup ClustersOf(s.fs)
          /\ ~Lost(f) =>
                /\ ShownFat(f) = ShownFat(g)
                /\ \/ f.ret = 0 /\ Free(ShownFat(g)) = {}
                   \/ f.ret \in ClustersOf(s.fs) /\ ShownFat(g)[f.ret] = 0
                   \/ f.ret = Err /\ s.fault.kind = "write"
      BY <2>2, <3>2 DEF Sought
    <3>4. /\ Onward(s, f) /\ Sound(f) /\ Fields(f) /\ ClustersOf(f.fs) = ClustersOf(s.fs)
          /\ f.fault.kind = s.fault.kind /\ f.fs.free_clust = s.fs.free_clust /\ (~Lost(f) => ~Lost(g))
      <4>1. Onward(s, f) /\ Sound(f) /\ Fields(f)
        <5>1. Onward(s, f)
          BY <1>2, <2>1, <3>3, OnwardTrans
        <5>2. Sound(f)
          BY <5>1 DEF Onward
        <5> QED BY <5>1, <5>2, NoSick
      <4>2. SameGeo(g, f)
        BY <2>2, <3>3, <4>1, KinGeometry
      <4>3. f.fault.kind = s.fault.kind /\ (~Lost(f) => ~Lost(g))
        BY <2>2, <3>3 DEF Onward, Near
      <4> QED BY <2>2, <4>1, <4>2, <4>3 DEF SameGeo
    <3>5. ~Lost(f) => /\ ShownFat(f) = F
                      /\ s.fault.kind = "write" \/ c = 0 \/ (c \in ClustersOf(s.fs) /\ F[c] \notin ClustersOf(s.fs))
      <4>1. SUFFICES ASSUME ~Lost(f)
            PROVE /\ ShownFat(f) = F
                  /\ s.fault.kind = "write" \/ c = 0 \/ (c \in ClustersOf(s.fs) /\ F[c] \notin ClustersOf(s.fs))
        OBVIOUS
      <4>2. ~Lost(g) /\ ShownFat(f) = F
        BY <2>1, <3>3, <3>4, <4>1
      <4> QED BY <1>2, <2>1, <2>6, <4>2
    <3>6. CASE f.ret \in {0, 1, Err}
      <4>1. t = f
        BY <1>1, <2>6, <3>6
      <4>2. ASSUME ~Lost(f) PROVE Created(s, c, f) /\ (Counted(s) => Counted(f))
        <5>1. /\ 0 \notin ClustersOf(s.fs) /\ 1 \notin ClustersOf(s.fs) /\ Err \notin ClustersOf(s.fs)
              /\ Err # 0 /\ Err # 1
          BY <1>2, <1>3
        <5>2. \/ f.ret = 0 /\ Free(F) = {} /\ ShownFat(f) = F
              \/ f.ret = Err /\ s.fault.kind = "write" /\ ShownFat(f) = F
          BY <3>3, <3>4, <3>5, <3>6, <4>2, <5>1, <2>1
        <5>3. Created(s, c, f)
          BY <5>1, <5>2 DEF Created
        <5>4. Counted(s) => Counted(f)
          BY <2>2, <3>4, <3>5, <4>2 DEF Counted
        <5> QED BY <5>3, <5>4
      <4> QED BY <3>4, <4>1, <4>2 DEF Creates
    <3>7. CASE f.ret \notin {0, 1, Err}
      <4>1. t = l
        BY <1>1, <2>6, <3>7
      <4>2. f.ret \in ClustersOf(f.fs) /\ (~Lost(f) => ShownFat(f)[f.ret] = 0) /\ c \in ClustersOf(f.fs) \cup {0}
        <5>1. f.ret \in ClustersOf(f.fs) /\ c \in ClustersOf(f.fs) \cup {0}
          BY <1>5, <3>3, <3>4, <3>7
        <5>2. ~Lost(f) => ShownFat(f)[f.ret] = 0
          BY <3>3, <3>7
        <5> QED BY <5>1, <5>2
      <4>3. Linked(f, c, f.ret, l)
        BY <3>4, <4>2, LinkOne
      <4>4. Onward(s, l) /\ (~Lost(l) => ~Lost(f))
        <5>1. Onward(f, l)
          BY <4>3 DEF Linked
        <5>2. Onward(s, l)
          BY <1>2, <3>4, <5>1, OnwardTrans
        <5>3. ~Lost(l) => ~Lost(f)
          BY <5>1 DEF Onward
        <5> QED BY <5>2, <5>3
      <4>5. ASSUME ~Lost(l)
            PROVE  \/ /\ l.ret = f.ret /\ ShownFat(l) = Grown(F, c, f.ret)
                      /\ l.fs.free_clust = IF s.fs.free_clust = Err THEN Err ELSE s.fs.free_clust - 1
                   \/ l.ret = Err /\ s.fault.kind = "write"
        BY <3>4, <3>5, <4>3, <4>4, <4>5 DEF Linked
      <4>6. ~Lost(l) => Created(s, c, l)
        <5>1. SUFFICES ASSUME ~Lost(l) PROVE Created(s, c, l)
          OBVIOUS
        <5>2. F[f.ret] = 0 /\ f.ret \in DOMAIN F
          BY <1>2, <3>4, <3>5, <4>2, <4>4, <5>1
        <5>3. l.ret = f.ret => l.ret \notin {0, 1, Err}
          BY <3>7
        <5>4. Err \notin {0, 1}
          BY <1>3
        <5>5. s.fault.kind = "write" \/ c = 0 \/ F[c] \notin DOMAIN F
          BY <1>2, <3>5, <4>4, <5>1
        <5>6. CASE l.ret = f.ret /\ ShownFat(l) = Grown(F, c, f.ret)
          BY <5>2, <5>3, <5>5, <5>6 DEF Created
        <5>7. CASE l.ret = Err /\ s.fault.kind = "write"
          BY <5>4, <5>7 DEF Created
        <5> QED BY <4>5, <5>1, <5>6, <5>7
      <4>7. ASSUME ~Lost(l), Counted(s), l.ret # Err, c \in ClustersOf(s.fs) => F[c] # 0
            PROVE  Counted(l)
        <5>1. ~Lost(f) /\ ~Lost(g) /\ ~Lost(s) /\ ShownFat(f) = F
          BY <2>2, <3>4, <3>5, <4>4, <4>7
        <5>2. F[f.ret] = 0 /\ f.ret \in ClustersOf(s.fs) /\ c \in ClustersOf(s.fs) \cup {0}
          BY <3>4, <4>2, <5>1
        <5>3. /\ ShownFat(l) = Grown(F, c, f.ret)
              /\ l.fs.free_clust = IF s.fs.free_clust = Err THEN Err ELSE s.fs.free_clust - 1
          BY <4>5, <4>7
        <5> PICK n : n = f.ret
          OBVIOUS
        <5>4. /\ Counted(s) /\ ~Lost(s) /\ n \in ClustersOf(s.fs) /\ ShownFat(s)[n] = 0
              /\ c \in ClustersOf(s.fs) \cup {0} /\ (c \in ClustersOf(s.fs) => ShownFat(s)[c] # 0)
              /\ ShownFat(l) = Grown(ShownFat(s), c, n)
          BY <4>7, <5>1, <5>2, <5>3
        <5> QED BY <5>3, <5>4, CountedLinked, Zenon
      <4> QED BY <4>1, <4>4, <4>6, <4>7 DEF Creates
    <3> QED BY <3>6, <3>7
  <2> QED BY <2>4, <2>5, <2>6
<1> QED BY <1>4, <1>5

-----------------------------------------------------------------------------
\* The sectors of a cluster.
SectorsOf(s, c) == clust2sect(s, c)..(clust2sect(s, c) + s.fs.csize - 1)

\* A multiple, and the next.
LEMMA Apart ==
    ASSUME NEW c \in Nat, NEW d \in Nat, c < d, NEW n \in Nat
    PROVE  c * n + n <= d * n
<1>1. c * n + n = (c + 1) * n
  BY SMT
<1>2. PICK e \in Nat : d = (c + 1) + e
  <2>1. d - (c + 1) \in Nat /\ d = (c + 1) + (d - (c + 1))
    OBVIOUS
  <2> QED BY <2>1
<1>3. ((c + 1) + e) * n = (c + 1) * n + e * n /\ e * n \in Nat /\ (c + 1) * n \in Nat
  BY SMT
<1> QED BY <1>1, <1>2, <1>3

\* No sector belongs to two clusters.
THEOREM SectorsApart ==
    ASSUME NEW s, s.fs.n_fatent \in Nat, s.fs.csize \in Nat, s.fs.database \in Nat,
           NEW c \in ClustersOf(s.fs), NEW d \in ClustersOf(s.fs), c # d
    PROVE  SectorsOf(s, c) \cap SectorsOf(s, d) = {}
<1>1. /\ clust2sect(s, c) = (c - 2) * s.fs.csize + s.fs.database
      /\ clust2sect(s, d) = (d - 2) * s.fs.csize + s.fs.database
      /\ c - 2 \in Nat /\ d - 2 \in Nat
  BY DEF clust2sect, IsClust, ClustersOf
<1> PICK n \in Nat : n = s.fs.csize
  OBVIOUS
<1> PICK p \in Nat, q \in Nat : p = (c - 2) * n /\ q = (d - 2) * n
  BY <1>1
<1>2. CASE c - 2 < d - 2
  <2>1. p + n <= q
    BY <1>1, <1>2, Apart
  <2> QED BY <1>1, <2>1 DEF SectorsOf
<1>3. CASE d - 2 < c - 2
  <2>1. q + n <= p
    BY <1>1, <1>3, Apart
  <2> QED BY <1>1, <2>1 DEF SectorsOf
<1>4. c - 2 < d - 2 \/ d - 2 < c - 2
  BY DEF ClustersOf
<1> QED BY <1>2, <1>3, <1>4
==============================================================================
