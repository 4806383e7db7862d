-------------------------- MODULE Fat32CallProofs --------------------------
(***************************************************************************)
(* What each call does to a sound file system: nothing, or one of the four *)
(* changes of Fat32ChainProofs.  From it follow the properties of Fat32.   *)
(***************************************************************************)
EXTENDS Fat32ChainProofs

\* The limits within which the driver's entries are claimed to be right.
Within == limits \subseteq {"moved", "stale"}

Fit == fat_table = diskFat /\ Usable(disk, diskFat)

Good == fat_table = diskFat /\ Sound(disk, diskFat)

LEMMA GoodFit == Good => Fit
  BY SoundUsable DEF Good, Fit

-----------------------------------------------------------------------------
(***************************************************************************)
(* Walking a directory                                                     *)
(***************************************************************************)
\* A walk over a directory sees its table.  A walk over the table of a deleted
\* directory goes on to cluster 0 and does not end.
LEMMA Walk ==
    ASSUME IInv, NEW f, FatOK(f), NEW name, NEW p \in Parents,
           f[p] \in {0, FAT32_FAT_END_OF_FILE}
    PROVE  LET v == FatView(f, name)
           IN  /\ f[p] # 0 => Reach(v, p) = {p} /\ Terminates(v, p)
               /\ f[p] = 0 => Reach(v, p) = {p, 0} /\ ~Terminates(v, p)
  <1> DEFINE v == FatView(f, name)
  <1>1. p \in Clusters /\ p \in FatIndex /\ p # 0 /\ 0 \in Clusters
    BY SizeFacts DEF Parents, FatIndex
  <1>2. v[p] = f[p] /\ v[0] = CLUSTER_0_VALUE
    BY <1>1, SizeFacts DEF FatView, FatOK
  <1> HIDE DEF v
  <1>3. ASSUME f[p] # 0 PROVE Reach(v, p) = {p} /\ Terminates(v, p)
    <2>1. v[p] = FAT32_FAT_END_OF_FILE
      BY <1>2, <1>3
    <2> QED
      BY <1>1, <2>1, ReachBasic, SizeFacts DEF Terminates
  <1>4. ASSUME f[p] = 0 PROVE Reach(v, p) = {p, 0} /\ ~Terminates(v, p)
    <2>1. Reach(v, 0) = {0}
      BY <1>1, <1>2, ReachBasic, SizeFacts
    <2>2. Reach(v, p) = {p} \cup Reach(v, 0)
      BY <1>1, <1>2, <1>4, ReachStep
    <2>3. v[p] # FAT32_FAT_END_OF_FILE /\ v[0] # FAT32_FAT_END_OF_FILE
      BY <1>1, <1>2, <1>4, SizeFacts
    <2> QED
      BY <2>1, <2>2, <2>3 DEF Terminates
  <1> QED
    BY <1>3, <1>4 DEF v

LEMMA TableWalk ==
    ASSUME IInv, Fit, NEW name, NEW p \in Parents, disk[p].subdir
    PROVE  LET v == FatView(diskFat, name)
           IN  /\ diskFat[p] # 0 => diskFat[p] = FAT32_FAT_END_OF_FILE
               /\ diskFat[p] # 0 => Reach(v, p) = {p} /\ Terminates(v, p)
               /\ diskFat[p] = 0 => Reach(v, p) = {p, 0} /\ ~Terminates(v, p)
  <1>1. p \in FatIndex
    BY SizeFacts DEF Parents, FatIndex
  <1>2. diskFat[p] # 0 => diskFat[p] = FAT32_FAT_END_OF_FILE
    BY <1>1 DEF Fit, Usable, OneTable
  <1> QED
    BY <1>2, Walk DEF IInv

\* There is nothing in cluster 0.
LEMMA NothingAtZero ==
    ASSUME Fit
    PROVE  LiveSlots(disk[0]) = {} /\ \A n, e : Named(disk[0], n, e) = {}
  BY DEF Fit, Usable, Blank, NullEntry, LiveSlots, Named

\* So only the table itself has entries of any name.
LEMMA OnlyHere ==
    ASSUME IInv, Fit, NEW name, NEW p \in Parents, disk[p].subdir,
           NEW t \in Reach(FatView(diskFat, name), p), LiveSlots(disk[t]) # {}
    PROVE  t = p
  BY TableWalk, NothingAtZero

LEMMA NamedLive ==
    ASSUME NEW t, NEW n, NEW e
    PROVE  Named(t, n, e) \subseteq LiveSlots(t) /\ FoundIn(t, n, e) \subseteq Named(t, n, e)
  BY DEF Named, LiveSlots, FoundIn

\* What is known of a live entry of a table.
LEMMA EntryStored ==
    ASSUME Fit, NEW p \in Clusters, disk[p].subdir, NEW i \in LiveSlots(disk[p])
    PROVE  <<p, i>> \in Refs(disk) /\ Stored(disk, diskFat, p, disk[p].slots[i])
  <1>1. <<p, i>> \in Refs(disk)
    BY DEF Refs, Tables, LiveSlots
  <1> QED
    BY <1>1 DEF Fit, Usable, AllStored, Ref

\* A directory's own cluster, as the driver reads it.
LEMMA FolderView ==
    ASSUME Fit, NEW p \in Clusters, disk[p].subdir, NEW i \in LiveSlots(disk[p]),
           disk[p].slots[i].subdir, NEW name, NEW c, c = disk[p].slots[i].cluster
    PROVE  /\ Reach(FatView(diskFat, name), c) = {c}
           /\ c \in Clusters /\ c # p /\ disk[c].subdir
  <1>1. Stored(disk, diskFat, p, disk[p].slots[i])
    BY EntryStored
  <1>2. /\ Path(diskFat, c) = {c} /\ c \in FatIndex /\ c \in Clusters /\ disk[c].subdir
    BY <1>1, FolderPath
  <1>3. c # p
    BY <1>1 DEF Stored
  <1> QED
    BY <1>2, <1>3, ViewSame

-----------------------------------------------------------------------------
(***************************************************************************)
(* read_directory and read                                                 *)
(***************************************************************************)
LEMMA ReadDirectoryGood ==
    ASSUME IInv, Fit, NEW p \in Parents, NEW n, NEW e, NEW size \in BufferSizes,
           NEW r, r = ReadDirectory(p, n, e, size)
    PROVE  /\ r.disk = disk
           /\ r.fat = diskFat
           /\ r.hangs => disk[p].subdir /\ diskFat[p] = 0
           /\ ~r.hangs /\ r.ret = 0 =>
                /\ disk[p].subdir /\ diskFat[p] # 0
                /\ FoundIn(disk[p], n, e) # {}
                /\ r.cluster = ChildIn(disk[p], n, e)
                /\ r.buf = disk[r.cluster]
  <1> DEFINE v == DirView(fat_table)
             seen == {t \in Reach(v, p) : Named(disk[t], n, e) # {}}
             hits == {t \in seen : FoundIn(disk[t], n, e) # {}}
             child(t) == ChildIn(disk[t], n, e)
             w(t) == FatView(diskFat, disk[t].name)
             before(t) == {u \in hits : u # t /\ t \in Reach(v, u)}
             space(t) == size - Cardinality({u \in before(t) \X Clusters :
                                               u[2] \in Reach(w(u[1]), child(u[1]))})
             room(t) == IF \A u \in before(t) : Terminates(w(u), child(u)) THEN space(t) ELSE 0
             served == {t \in hits : room(t) > 0}
             last == LastOf(v, served)
  <1>1. r = IF ~disk[p].subdir \/ served = {}
            THEN [ret |-> IF ~disk[p].subdir THEN -1 ELSE IF seen = {} THEN 3 ELSE 1,
                  hangs |-> disk[p].subdir /\ ~Terminates(v, p),
                  disk |-> disk, fat |-> fat_table, cluster |-> 0, buf |-> Blank]
            ELSE [ret |-> IF LastOf(v, seen) \notin hits THEN 1
                          ELSE IF LastOf(v, seen) \in served THEN 0 ELSE 2,
                  hangs |-> ~Terminates(v, p),
                  disk |-> [disk EXCEPT ![p] = disk[last]],
                  fat |-> diskFat,
                  cluster |-> child(last),
                  buf |-> LastRead(w(last), child(last), room(last))]
    BY DEF ReadDirectory
  <1>2. fat_table = diskFat /\ v = FatView(diskFat, disk[CLUSTER_MAP_SIZE].name)
    BY DEF Fit, DirView
  <1>3. disk[p].subdir /\ ~Terminates(v, p) => diskFat[p] = 0
    BY <1>2, TableWalk
  <1>4. CASE ~disk[p].subdir \/ served = {}
    <2> HIDE DEF v, seen, served, hits, last, room, before, w, child, space
    <2>1. r = [ret |-> IF ~disk[p].subdir THEN -1 ELSE IF seen = {} THEN 3 ELSE 1,
               hangs |-> disk[p].subdir /\ ~Terminates(v, p),
               disk |-> disk, fat |-> fat_table, cluster |-> 0, buf |-> Blank]
      BY <1>1, <1>4
    <2>2. r.disk = disk /\ r.fat = fat_table /\ r.hangs = (disk[p].subdir /\ ~Terminates(v, p))
      BY <2>1
    <2>3. r.ret # 0
      BY <2>1
    <2> QED
      BY <1>2, <1>3, <2>2, <2>3
  <1>5. CASE ~(~disk[p].subdir \/ served = {})
    <2>1. hits \subseteq {p}
      <3> SUFFICES ASSUME NEW t \in hits PROVE t = p
        OBVIOUS
      <3> QED
        BY <1>2, <1>5, OnlyHere, NamedLive
    <2>2. served \in SUBSET Reach(v, p) /\ p \in Clusters
      BY ParentsOK
    <2>3. last \in served
      BY <1>5, <2>2, LastOfIn
    <2>4. last = p /\ FoundIn(disk[p], n, e) # {} /\ before(p) = {}
      BY <2>1, <2>3
    <2>5. room(p) = size /\ size \in Nat \ {0}
      <3>1. {u \in before(p) \X Clusters : u[2] \in Reach(w(u[1]), child(u[1]))} = {}
        BY <2>4
      <3>2. Cardinality({}) = 0 /\ size \in Nat \ {0}
        BY FS_EmptySet, SizeAssumption
      <3>3. space(p) = size - 0
        BY <3>1, <3>2
      <3>4. \A u \in before(p) : Terminates(w(u), child(u))
        BY <2>4
      <3> HIDE DEF before, space, w, child
      <3> QED
        BY <3>2, <3>3, <3>4
    <2> HIDE DEF v, seen, served, hits, last, room, before, w
    <2> DEFINE i == Min(FoundIn(disk[p], n, e))
    <2>6. i \in LiveSlots(disk[p]) /\ disk[p].slots[i].subdir /\ child(p) = disk[p].slots[i].cluster
      <3>1. FoundIn(disk[p], n, e) \in SUBSET Slots
        BY DEF FoundIn, Named
      <3>2. i \in FoundIn(disk[p], n, e)
        BY <2>4, <3>1, MinSlot
      <3> QED
        BY <3>2 DEF FoundIn, Named, LiveSlots, ChildIn
    <2> HIDE DEF i, child
    <2>7. \A name : Reach(FatView(diskFat, name), child(p)) = {child(p)} /\ child(p) \in Clusters
      <3>1. p \in Clusters /\ disk[p].subdir
        BY <1>5, <2>2
      <3> QED
        BY <2>6, <3>1, FolderView
    <2>8. LastRead(w(p), child(p), size) = disk[child(p)]
      <3> DEFINE c == child(p)
                 x == w(p)
                 S == {d \in Reach(x, c) : Cardinality(Reach(x, c)) - Cardinality(Reach(x, d)) < size}
      <3>1. Reach(x, c) = {c} /\ c \in Clusters
        BY <2>7 DEF w
      <3>2. Cardinality({c}) = 1
        BY FS_Singleton
      <3> HIDE DEF c, x
      <3>3. S = {c}
        BY <2>5, <3>1, <3>2
      <3>4. LastOf(x, S) = c
        BY <3>1, <3>3, LastOfIn
      <3> QED
        BY <3>4 DEF LastRead, c, x
    <2> HIDE DEF child
    <2>9. [disk EXCEPT ![p] = disk[p]] = disk
      BY <2>2 DEF IInv, DiskOK
    <2>10. LastOf(v, seen) = p /\ p \in hits
      <3>1. seen \in SUBSET Reach(v, p) /\ seen # {} /\ seen \subseteq {p}
        <4>1. \A t \in seen : t = p
          BY <1>2, <1>5, OnlyHere, NamedLive DEF seen
        <4> QED
          BY <2>3, <4>1 DEF seen, served, hits
      <3>2. LastOf(v, seen) \in seen
        BY <2>2, <3>1, LastOfIn
      <3> QED
        BY <2>3, <2>4, <3>1, <3>2 DEF served
    <2>11. r = [ret |-> 0, hangs |-> ~Terminates(v, p), disk |-> disk, fat |-> diskFat,
                cluster |-> child(p), buf |-> disk[child(p)]]
      BY <1>1, <1>5, <2>3, <2>4, <2>5, <2>8, <2>9, <2>10
    <2>12. /\ r.disk = disk /\ r.fat = diskFat /\ r.cluster = child(p) /\ r.buf = disk[child(p)]
           /\ r.hangs = ~Terminates(v, p)
      BY <2>11
    <2>13. ~Terminates(v, p) <=> diskFat[p] = 0
      BY <1>2, <1>5, TableWalk
    <2> QED
      BY <1>5, <2>4, <2>12, <2>13 DEF child
  <1> QED
    BY <1>4, <1>5

\* A call that changes nothing.  The driver's copy of the FAT is loaded again.
Same == disk' = disk /\ diskFat' = diskFat /\ fat_table' = diskFat

LEMMA SameGood == ASSUME Good, Same PROVE Good'
  BY DEF Good, Same

LEMMA read_directorySame ==
    ASSUME IInv, Fit, NEW p \in Parents, NEW n, NEW e, NEW size \in BufferSizes,
           read_directory(p, n, e, size)
    PROVE  Same
  <1> DEFINE r == ReadDirectory(p, n, e, size)
  <1>1. r.disk = disk /\ r.fat = diskFat
    BY ReadDirectoryGood
  <1> QED
    BY <1>1 DEF read_directory, Same

LEMMA readSame ==
    ASSUME IInv, Fit, NEW p \in Parents, NEW n, NEW e, NEW size, read(p, n, e, size)
    PROVE  Same
  <1> DEFINE v == DirView(fat_table)
             tables == Reach(v, p)
             files(t) == {i \in Named(disk[t], n, e) : ~disk[t].slots[i].subdir}
             hits == {t \in tables : files(t) # {}}
             file(t) == disk[t].slots[Min(files(t))]
             w(t) == FatView(diskFat, disk[t].name)
             before(t) == {u \in hits : u # t /\ t \in Reach(v, u)}
             room(t) == size - Cardinality({u \in hits \X Clusters :
                          u[1] \in before(t) /\ u[2] \in Reach(w(u[1]), file(u[1]).cluster)})
             small == {t \in hits : room(t) < file(t).filesize}
             served == {t \in hits \ small : before(t) \cap small = {}}
             last == LastOf(v, served)
  <1>1. /\ diskFat' = diskFat
        /\ IF ~disk[p].subdir
           THEN UNCHANGED <<disk, fat_table>>
           ELSE /\ disk' = IF served = {} THEN disk ELSE [disk EXCEPT ![p] = disk[last]]
                /\ fat_table' = IF served = {} THEN fat_table ELSE diskFat
    BY DEF read
  <1>2. fat_table = diskFat
    BY DEF Fit
  <1>3. CASE ~disk[p].subdir \/ served = {}
    <2> HIDE DEF served
    <2> QED
      BY <1>1, <1>2, <1>3 DEF Same
  <1>4. CASE disk[p].subdir /\ served # {}
    <2>1. \A t \in hits : t = p
      <3> SUFFICES ASSUME NEW t \in hits PROVE t = p
        OBVIOUS
      <3>1. t \in Reach(FatView(diskFat, disk[CLUSTER_MAP_SIZE].name), p) /\ LiveSlots(disk[t]) # {}
        BY <1>2, NamedLive DEF DirView
      <3> QED
        BY <1>4, <3>1, OnlyHere
    <2>2. served \in SUBSET Reach(v, p) /\ p \in Clusters /\ \A t \in served : t = p
      BY <2>1, ParentsOK
    <2> HIDE DEF served, v
    <2>3. last = p
      BY <1>4, <2>2, LastOfIn
    <2>4. [disk EXCEPT ![p] = disk[p]] = disk
      BY <2>2 DEF IInv, DiskOK
    <2> HIDE DEF last
    <2> QED
      BY <1>1, <1>4, <2>3, <2>4 DEF Same
  <1> QED
    BY <1>3, <1>4

LEMMA NotFoundSame ==
    ASSUME IInv, Fit, NEW p \in Parents, NEW n, NEW e, NEW size \in BufferSizes,
           NotFound(p, ReadDirectory(p, n, e, size))
    PROVE  Same
  <1> DEFINE r == ReadDirectory(p, n, e, size)
  <1>1. r.disk = disk /\ r.fat = diskFat
    BY ReadDirectoryGood
  <1> QED
    BY <1>1 DEF NotFound, Same

-----------------------------------------------------------------------------
(***************************************************************************)
(* delete                                                                  *)
(***************************************************************************)
\* What delete finds in a table: an entry with a chain of its own.
LEMMA DeletedChain ==
    ASSUME IInv, Fit, NEW p \in Parents, disk[p].subdir, NEW i \in LiveSlots(disk[p]), NEW name
    PROVE  LET c == disk[p].slots[i].cluster
               chain == Reach(FatView(diskFat, name), c)
           IN  /\ chain = Path(diskFat, c) /\ Terminates(FatView(diskFat, name), c)
               /\ CLUSTER_MAP_SIZE \notin chain /\ p \notin chain
               /\ FatOK(FreeChain(diskFat, chain))
               /\ FreeChain(diskFat, chain)[p] = diskFat[p]
  <1> DEFINE en == disk[p].slots[i]
             chain == Path(diskFat, en.cluster)
  <1>0. p \in Clusters /\ p \in FatIndex
    BY ParentsOK DEF Parents, FatIndex
  <1>1. Stored(disk, diskFat, p, en)
    BY <1>0, EntryStored
  <1>2. en.cluster \in Clusters /\ chain \subseteq 3 .. CLUSTER_MAP_SIZE - 1
        /\ Terminates(FatView(diskFat, NoName), en.cluster)
    BY <1>1 DEF Stored
  <1>3. chain \subseteq FatIndex /\ chain \in SUBSET Data /\ CLUSTER_MAP_SIZE \notin chain
    BY <1>2, SizeFacts DEF FatIndex, Data
  <1>4. p \notin chain
    <2>1. CASE en.subdir
      <3>1. en.cluster # p
        BY <1>1, <2>1 DEF Stored
      <3> QED
        BY <1>1, <2>1, <3>1, FolderPath
    <2>2. CASE ~en.subdir
      BY <1>1, <2>2 DEF Stored
    <2> QED
      BY <2>1, <2>2
  <1>5. Reach(FatView(diskFat, name), en.cluster) = chain
        /\ Terminates(FatView(diskFat, name), en.cluster)
    BY <1>2, <1>3, ViewSame
  <1>6. FatOK(FreeChain(diskFat, chain))
    BY <1>3, FatChangeOK DEF IInv
  <1>7. FreeChain(diskFat, chain)[p] = diskFat[p]
    BY <1>0, <1>4 DEF FreeChain
  <1> QED
    BY <1>3, <1>4, <1>5, <1>6, <1>7

LEMMA deleteGood ==
    ASSUME IInv, Fit, NEW p \in Parents, NEW n, NEW e, delete(p, n, e)
    PROVE  \/ Same
           \/ /\ fat_table' = diskFat'
              /\ \E i : Removed(disk, diskFat, disk', diskFat', p, i)
  <1> DEFINE v == DirView(diskFat)
             hits == {t \in Reach(v, p) : Named(disk[t], n, e) # {}}
             t == FirstOf(v, hits)
             i == Min(Named(disk[t], n, e))
             entry == disk[t].slots[i]
             w == FatView(diskFat, disk[t].name)
             chain == Reach(w, entry.cluster)
             cleared == ClearSlot(disk[t], i, chain)
             fat == FreeChain(diskFat, chain)
             ret == IF ~disk[p].subdir THEN -1
                    ELSE IF hits = {} THEN 1
                    ELSE IF InUse(entry) THEN 2 ELSE 0
             hangs == \/ ret = 1 /\ ~Terminates(v, p)
                      \/ ret = 0 /\ (~Terminates(w, entry.cluster) \/ SearchHangs(p, cleared, fat))
  <1>1. IF ret = 0 /\ ~hangs
        THEN /\ disk' = [disk EXCEPT ![p] = TableAfterDelete(p, cleared, fat)]
             /\ StoreFat(fat)
        ELSE /\ fat_table' = diskFat
             /\ UNCHANGED <<disk, diskFat>>
    BY DEF delete
  <1>2. CASE ~(ret = 0 /\ ~hangs)
    <2> HIDE DEF ret, hangs, cleared, fat
    <2> QED
      BY <1>1, <1>2 DEF Same
  <1>3. CASE ret = 0 /\ ~hangs
    <2>1. disk[p].subdir /\ hits # {} /\ ~InUse(entry) /\ ~SearchHangs(p, cleared, fat)
      <3> HIDE DEF hits, entry, cleared, fat, w, v
      <3> QED
        BY <1>3
    <2>2. disk' = [disk EXCEPT ![p] = TableAfterDelete(p, cleared, fat)] /\ StoreFat(fat)
      <3> HIDE DEF ret, hangs, cleared, fat
      <3> QED
        BY <1>1, <1>3
    <2>3. \A u \in hits : u = p
      <3> SUFFICES ASSUME NEW u \in hits PROVE u = p
        OBVIOUS
      <3>1. u \in Reach(FatView(diskFat, disk[CLUSTER_MAP_SIZE].name), p) /\ LiveSlots(disk[u]) # {}
        BY NamedLive DEF DirView
      <3> QED
        BY <2>1, <3>1, OnlyHere
    <2>4. t = p /\ Named(disk[p], n, e) # {}
      <3>1. hits \in SUBSET Reach(v, p) /\ p \in Clusters
        BY ParentsOK
      <3>2. t \in hits
        BY <2>1, <3>1, FirstOfIn
      <3> QED
        BY <2>3, <3>2
    <2> HIDE DEF t
    <2>5. i \in LiveSlots(disk[p])
      <3>1. Named(disk[p], n, e) \in SUBSET Slots
        BY DEF Named
      <3>2. i \in Named(disk[p], n, e)
        BY <2>4, <3>1, MinSlot
      <3> QED
        BY <3>2, NamedLive
    <2> HIDE DEF i, w
    <2> DEFINE c == disk[p].slots[i].cluster
               bare == [disk[p] EXCEPT !.slots[i] = NullEntry]
    <2>6. /\ chain = Path(diskFat, c) /\ CLUSTER_MAP_SIZE \notin chain
          /\ FatOK(fat) /\ fat[p] = diskFat[p]
      BY <2>1, <2>4, <2>5, DeletedChain DEF w
    <2>7. cleared = bare /\ disk[p] \in Cluster
      <3>1. disk[p] \in Cluster
        BY ParentsOK DEF IInv, DiskOK
      <3>2. cleared = [disk[p] EXCEPT !.slots[i] = NullEntry, !.name = disk[p].name]
        <4> HIDE DEF chain
        <4> QED
          BY <2>4, <2>6 DEF ClearSlot
      <3> QED
        BY <3>1, <3>2 DEF Cluster
    <2> HIDE DEF chain, cleared, fat
    <2>8. LiveSlots(cleared) # {} \/ fat[p] = FAT32_FAT_END_OF_FILE
      <3> SUFFICES ASSUME LiveSlots(cleared) = {}, fat[p] # FAT32_FAT_END_OF_FILE PROVE FALSE
        OBVIOUS
      <3>1. fat[p] = 0
        BY <2>1, <2>6, TableWalk
      <3>2. Reach(DirView(fat), p) = {p, 0} /\ ~Terminates(DirView(fat), p)
        BY <2>6, <3>1, Walk DEF DirView
      <3>3. LiveSlots(disk[0]) = {}
        BY NothingAtZero
      <3> QED
        BY <2>1, <3>2, <3>3 DEF SearchHangs
    <2>9. TableAfterDelete(p, cleared, fat)
             = [cleared EXCEPT !.notEmpty = IF LiveSlots(cleared) = {} THEN FALSE ELSE @]
      BY <2>8 DEF TableAfterDelete
    <2>10. Removed(disk, diskFat, disk', diskFat', p, i)
      <3>1. InTable(disk, p, i)
        BY <2>1, <2>5, ParentsOK DEF InTable, Tables
      <3>2. disk[p].slots[i].subdir => ~disk[c].notEmpty
        BY <2>1, <2>4 DEF InUse
      <3>3. diskFat' = FreeChain(diskFat, Path(diskFat, c))
        BY <2>2, <2>6 DEF StoreFat, fat
      <3>4. disk' = [disk EXCEPT ![p] = [bare EXCEPT
                       !.notEmpty = IF LiveSlots(bare) = {} THEN FALSE ELSE @]]
        BY <2>2, <2>7, <2>9
      <3> QED
        BY <3>1, <3>2, <3>3, <3>4 DEF Removed
    <2> QED
      BY <2>2, <2>10 DEF StoreFat
  <1> QED
    BY <1>2, <1>3

-----------------------------------------------------------------------------
(***************************************************************************)
(* rename_dir and move_dir                                                 *)
(***************************************************************************)
\* The first slot with the name is the one read_directory has found.
LEMMA FirstNamedFound ==
    ASSUME Fit, NEW p \in Clusters, disk[p].subdir, NEW n, NEW e,
           FoundIn(disk[p], n, e) # {}, ~Mistaken(disk[p], n)
    PROVE  LET i == FirstNamed(disk[p], n)
           IN  /\ i \in LiveSlots(disk[p])
               /\ disk[p].slots[i].subdir
               /\ disk[p].slots[i].cluster = ChildIn(disk[p], n, e)
  <1> DEFINE i == FirstNamed(disk[p], n)
             j == Min(FoundIn(disk[p], n, e))
             named == {l \in Slots : disk[p].slots[l].name = n}
  <1>1. named \in SUBSET Slots /\ FoundIn(disk[p], n, e) \in SUBSET Slots
        /\ FoundIn(disk[p], n, e) \subseteq named
    BY DEF FoundIn, Named
  <1>2. i \in named /\ j \in FoundIn(disk[p], n, e)
    BY <1>1, MinSlot DEF FirstNamed
  <1>3. /\ disk[p].slots[i].undelete /\ disk[p].slots[i].subdir
        /\ disk[p].slots[i].ext = NoExt
    BY DEF Mistaken
  <1> HIDE DEF i, j
  <1>4. i \in LiveSlots(disk[p]) /\ disk[p].slots[i].name = n
    BY <1>2, <1>3 DEF LiveSlots
  <1>5. j \in LiveSlots(disk[p]) /\ disk[p].slots[j].name = n /\ disk[p].slots[j].subdir
    BY <1>2 DEF FoundIn, Named, LiveSlots
  <1>6. disk[p].slots[j].ext = NoExt
    <2>1. Stored(disk, diskFat, p, disk[p].slots[j])
      BY <1>5, EntryStored
    <2> QED
      BY <1>5, <2>1 DEF Stored
  <1>7. Clash(disk[p].slots[i], disk[p].slots[j])
    BY <1>3, <1>4, <1>5, <1>6 DEF Clash
  <1>8. p \in Tables(disk)
    BY DEF Tables
  <1>9. i = j
    BY <1>4, <1>5, <1>7, <1>8 DEF Fit, Usable, NoClash
  <1>10. disk[p].slots[j].cluster = ChildIn(disk[p], n, e)
    BY DEF ChildIn, j
  <1> QED
    BY <1>3, <1>4, <1>9, <1>10 DEF i

\* A call that stays within the limits has met no name clash.
LEMMA WithinFacts ==
    ASSUME Within', NEW b, Breach(b)
    PROVE  Within /\ b \subseteq {"moved", "stale"}
  BY DEF Within, Breach

LEMMA rename_dirGood ==
    ASSUME IInv, Fit, NEW p \in Parents, NEW n, NEW e, NEW size \in BufferSizes,
           NEW new, rename_dir(p, n, e, size, new), Within'
    PROVE  \/ NotFound(p, ReadDirectory(p, n, e, size)) /\ Same
           \/ /\ fat_table' = diskFat' /\ Answer(0, <<>>)
              /\ FoundIn(disk[p], n, e) # {} /\ ~Mistaken(disk[p], n)
              /\ Relabelled(disk, diskFat, disk', diskFat', p, FirstNamed(disk[p], n), new)
  <1> DEFINE r == ReadDirectory(p, n, e, size)
             i == FirstNamed(disk[p], n)
  <1>1. CASE NotFound(p, r)
    BY <1>1, NotFoundSame
  <1>2. CASE ~NotFound(p, r)
    <2>1. /\ r.disk = disk
          /\ ~r.hangs /\ r.ret = 0 =>
                /\ disk[p].subdir /\ diskFat[p] # 0
                /\ FoundIn(disk[p], n, e) # {}
                /\ r.cluster = ChildIn(disk[p], n, e)
                /\ r.buf = disk[r.cluster]
      BY ReadDirectoryGood
    <2>2. /\ ~r.hangs /\ r.ret = 0
          /\ Breach(Stale(p) \cup NameClash(Mistaken(r.disk[p], n) \/ Exists(r.disk[p], new, NoExt, FALSE)))
          /\ disk' = [r.disk EXCEPT ![p].slots[FirstNamed(r.disk[p], n)] = DirEntry(r, new),
                                    ![r.cluster] = Renamed(r.buf, new)]
          /\ fat_table' = diskFat /\ diskFat' = diskFat /\ Answer(0, <<>>)
      BY <1>2 DEF rename_dir
    <2> HIDE DEF r
    <2>3. ~Mistaken(disk[p], n) /\ ~Exists(disk[p], new, NoExt, FALSE)
      <3>1. Stale(p) \cup NameClash(Mistaken(r.disk[p], n) \/ Exists(r.disk[p], new, NoExt, FALSE))
               \subseteq {"moved", "stale"}
        BY <2>2, WithinFacts
      <3> QED
        BY <2>1, <3>1 DEF NameClash
    <2>4. p \in Clusters /\ p \in FatIndex
      BY ParentsOK DEF Parents, FatIndex
    <2>5. /\ i \in LiveSlots(disk[p]) /\ disk[p].slots[i].subdir
          /\ disk[p].slots[i].cluster = r.cluster
      BY <2>1, <2>2, <2>3, <2>4, FirstNamedFound
    <2> HIDE DEF i
    <2>6. disk[r.cluster].subdir
      BY <2>1, <2>2, <2>4, <2>5, FolderView
    <2>7. DirEntry(r, new) = FolderEntry(r.cluster, new)
      BY <2>1, <2>2, <2>6 DEF DirEntry, FolderEntry
    <2>8. InTable(disk, p, i)
      BY <2>1, <2>2, <2>4, <2>5 DEF InTable, Tables
    <2>9. \A j \in LiveSlots(disk[p]) : ~Clash(FolderEntry(r.cluster, new), disk[p].slots[j])
      BY <2>3, FolderEntryFields DEF Exists, Clash
    <2>10. disk' = [disk EXCEPT ![p].slots[i] = FolderEntry(r.cluster, new),
                                ![r.cluster] = Renamed(disk[r.cluster], new)]
      BY <2>1, <2>2, <2>7 DEF i
    <2>11. Relabelled(disk, diskFat, disk', diskFat', p, i, new)
      BY <2>1, <2>2, <2>4, <2>5, <2>8, <2>9, <2>10 DEF Relabelled
    <2> QED
      BY <2>1, <2>2, <2>3, <2>11 DEF i
  <1> QED
    BY <1>1, <1>2

LEMMA move_dirGood ==
    ASSUME IInv, Fit, NEW p \in Parents, NEW n, NEW e, NEW size \in BufferSizes,
           NEW q \in Parents, move_dir(p, n, e, size, q), Within'
    PROVE  \/ NotFound(p, ReadDirectory(p, n, e, size)) /\ Same
           \/ /\ fat_table' = diskFat' /\ Answer(0, <<>>)
              /\ "moved" \in limits' /\ q \in Dirs
              /\ LimitsOnce => "moved" \notin limits
              /\ FoundIn(disk[p], n, e) # {} /\ ~Mistaken(disk[p], n)
              /\ LET i == FirstNamed(disk[p], n)
                     old == [disk EXCEPT ![p].slots[i].undelete = FALSE]
                 IN  Carried(disk, diskFat, disk', diskFat', p, i, q, Min(FreeSlots(old[q])))
  <1> DEFINE r == ReadDirectory(p, n, e, size)
             i == FirstNamed(disk[p], n)
             old == [r.disk EXCEPT ![p].slots[FirstNamed(r.disk[p], n)].undelete = FALSE]
             name == disk[LastOf(DirView(fat_table), Reach(DirView(fat_table), p))].name
             v == FatView(diskFat, name)
             room == \E u \in Reach(v, q) : FreeSlots(old[u]) # {}
             taken == \E u \in Reach(v, q) : Exists(old[u], r.buf.name, NoExt, FALSE)
             common == {"moved"} \cup Stale(p) \cup Astray(q)
                          \cup NameClash(Mistaken(r.disk[p], n) \/ taken)
  <1>1. CASE NotFound(p, r)
    BY <1>1, NotFoundSame
  <1>2. CASE ~NotFound(p, r)
    <2>1. /\ r.disk = disk
          /\ ~r.hangs /\ r.ret = 0 =>
                /\ disk[p].subdir /\ diskFat[p] # 0
                /\ FoundIn(disk[p], n, e) # {}
                /\ r.cluster = ChildIn(disk[p], n, e)
                /\ r.buf = disk[r.cluster]
      BY ReadDirectoryGood
    <2>2. /\ ~r.hangs /\ r.ret = 0
          /\ \/ /\ room /\ Breach(common) /\ MoveInto(r, old, v, q)
                /\ fat_table' = diskFat /\ diskFat' = diskFat /\ Answer(0, <<>>)
             \/ /\ ~room /\ Terminates(v, q)
                /\ Breach(common \cup {"table_full"} \cup
                      IF findEmptyCluster(diskFat, {}) = CLUSTER_MAP_SIZE
                      THEN {"disk_full"} ELSE {})
             \/ ~room /\ ~Terminates(v, q) /\ Breach(common)
      BY <1>2 DEF move_dir
    <2> HIDE DEF r, name, old
    <2>3. common \subseteq {"moved", "stale"} /\ ~(~room /\ Terminates(v, q))
      <3> HIDE DEF common, room, v
      <3>1. \E b : Breach(b) /\ common \subseteq b /\ (~room /\ Terminates(v, q) => "table_full" \in b)
        BY <2>2
      <3>2. PICK b : Breach(b) /\ common \subseteq b /\ (~room /\ Terminates(v, q) => "table_full" \in b)
        BY <3>1
      <3>3. b \subseteq {"moved", "stale"}
        BY <3>2, WithinFacts
      <3> QED
        BY <3>2, <3>3
    <2>4. q \in Dirs /\ ~Mistaken(r.disk[p], n) /\ ~taken
      <3> HIDE DEF taken
      <3> QED
        BY <2>3 DEF Astray, NameClash
    <2> HIDE DEF common
    <2>5. q \in FatIndex /\ q \in Clusters /\ disk[q].subdir /\ diskFat[q] # 0
      BY <2>4, ParentsOK DEF Dirs, Fit
    <2>6. Reach(v, q) = {q} /\ Terminates(v, q)
      BY <2>5, TableWalk
    <2>7. room /\ MoveInto(r, old, v, q) /\ fat_table' = diskFat /\ diskFat' = diskFat /\ Answer(0, <<>>)
      <3> HIDE DEF room, v
      <3> QED
        BY <2>2, <2>3, <2>6
    <2>8. p \in Clusters /\ p \in FatIndex
      BY ParentsOK DEF Parents, FatIndex
    <2>9. /\ i \in LiveSlots(disk[p]) /\ disk[p].slots[i].subdir
          /\ disk[p].slots[i].cluster = r.cluster
      BY <2>1, <2>2, <2>4, <2>8, FirstNamedFound
    <2>10. old = [disk EXCEPT ![p].slots[i].undelete = FALSE]
      BY <2>1 DEF old
    <2> HIDE DEF i
    <2> DEFINE c == disk[p].slots[i].cluster
               j == Min(FreeSlots(old[q]))
    <2>11. disk[c].subdir /\ r.cluster = c /\ r.buf = disk[c]
      BY <2>1, <2>2, <2>8, <2>9, FolderView
    <2>12. DirEntry(r, r.buf.name) = FolderEntry(c, disk[c].name)
      BY <2>11 DEF DirEntry, FolderEntry
    <2>13. InTable(disk, p, i)
      BY <2>1, <2>2, <2>8, <2>9 DEF InTable, Tables
    <2>14. j \in FreeSlots(old[q])
      <3>1. FreeSlots(old[q]) # {} /\ FreeSlots(old[q]) \in SUBSET Slots
        BY <2>6, <2>7 DEF FreeSlots
      <3> HIDE DEF old
      <3> QED
        BY <3>1, MinSlot
    <2>15. \A l \in LiveSlots(old[q]) : ~Clash(FolderEntry(c, disk[c].name), old[q].slots[l])
      <3>1. ~Exists(old[q], disk[c].name, NoExt, FALSE)
        BY <2>4, <2>6, <2>11
      <3> QED
        BY <3>1, FolderEntryFields DEF Exists, Clash
    <2>16. disk' = [old EXCEPT ![q].slots[j] = FolderEntry(c, disk[c].name),
                               ![q].data = NoData,
                               ![c] = Reparented(disk[c], q)]
      <3> DEFINE roomy == {t \in Reach(v, q) : FreeSlots(old[t]) # {}}
      <3>1. roomy \in SUBSET Reach(v, q) /\ roomy # {}
        BY <2>7
      <3>2. FirstOf(v, roomy) \in roomy
        BY <2>5, <3>1, FirstOfIn
      <3>3. FirstOf(v, roomy) = q
        BY <2>6, <3>2
      <3>4. disk' = [old EXCEPT
                   ![FirstOf(v, roomy)].slots[Min(FreeSlots(old[FirstOf(v, roomy)]))]
                       = DirEntry(r, r.buf.name),
                   ![FirstOf(v, roomy)].data = NoData,
                   ![r.cluster] = Reparented(r.buf, FirstOf(v, roomy))]
        BY <2>7 DEF MoveInto
      <3> HIDE DEF roomy, v, c
      <3> QED
        BY <2>11, <2>12, <3>3, <3>4
    <2>17. Carried(disk, diskFat, disk', diskFat', p, i, q, j)
      <3> HIDE DEF j
      <3> QED
        BY <2>1, <2>2, <2>5, <2>7, <2>8, <2>9, <2>10, <2>13, <2>14, <2>15, <2>16 DEF Carried
    <2>18. "moved" \in limits' /\ (LimitsOnce => "moved" \notin limits)
      <3>0. "moved" \in common
        BY DEF common
      <3> HIDE DEF common, room, v
      <3>1. \E b : Breach(b) /\ "moved" \in b
        BY <2>2, <3>0
      <3> QED
        BY <3>1 DEF Breach
    <2>19. FoundIn(disk[p], n, e) # {} /\ ~Mistaken(disk[p], n)
      BY <2>1, <2>2, <2>4
    <2> QED
      BY <2>4, <2>7, <2>10, <2>17, <2>18, <2>19 DEF i
  <1> QED
    BY <1>1, <1>2

-----------------------------------------------------------------------------
(***************************************************************************)
(* write                                                                   *)
(***************************************************************************)
Injective(al, m) == \A i, j \in 1 .. m : al[i] = al[j] => i = j

\* The FAT f chains the clusters al[1], ..., al[m] in this order.
Chained(f, al, m) ==
    \A i \in 1 .. m : f[al[i]] = IF i = m THEN FAT32_FAT_END_OF_FILE ELSE al[i + 1]

LEMMA ChainFatChains ==
    ASSUME NEW f, NEW m \in Nat \ {0}, NEW al \in [1 .. m -> 3 .. CLUSTER_MAP_SIZE - 1],
           Injective(al, m), NEW last
    PROVE  /\ Chained(ChainFat(f, al, 0, last), al, m)
           /\ \A c \in FatIndex : (\A i \in 1 .. m : al[i] # c) =>
                 ChainFat(f, al, 0, last)[c] = f[c]
  <1> DEFINE g == ChainFat(f, al, 0, last)
  <1>1. ASSUME NEW i \in 1 .. m
        PROVE  g[al[i]] = IF i = m THEN FAT32_FAT_END_OF_FILE ELSE al[i + 1]
    <2>1. al[i] \in FatIndex /\ DOMAIN al = 1 .. m
      BY SizeFacts DEF FatIndex
    <2> DEFINE j == CHOOSE l \in DOMAIN al : al[l] = al[i]
    <2>2. j = i
      <3>1. j \in 1 .. m /\ al[j] = al[i]
        BY <2>1
      <3> QED
        BY <3>1 DEF Injective
    <2>3. g[al[i]] = IF j = 0 \/ j + 1 \notin DOMAIN al THEN FAT32_FAT_END_OF_FILE ELSE al[j + 1]
      BY <2>1 DEF ChainFat
    <2> HIDE DEF j, g
    <2>4. i # 0 /\ (i + 1 \in 1 .. m <=> i # m)
      OBVIOUS
    <2> QED
      BY <2>1, <2>2, <2>3, <2>4
  <1>2. ASSUME NEW c \in FatIndex, \A i \in 1 .. m : al[i] # c
        PROVE  g[c] = f[c]
    BY <1>2 DEF ChainFat
  <1> QED
    BY <1>1, <1>2 DEF Chained

\* The clusters from the i-th on.
LEMMA ChainedReach ==
    ASSUME NEW m \in Nat \ {0}, NEW al \in [1 .. m -> 3 .. CLUSTER_MAP_SIZE - 1],
           NEW v, Chained(v, al, m), NEW i \in 1 .. m
    PROVE  Reach(v, al[i]) = {al[j] : j \in i .. m}
  <1> DEFINE T == {al[j] : j \in i .. m}
  <1>1. \A j \in 1 .. m : al[j] \in Clusters
    BY SizeFacts DEF Clusters
  <1>2. T \in SUBSET Clusters /\ al[i] \in T
    BY <1>1
  <1>3. Closed(v, T)
    <2> SUFFICES ASSUME NEW j \in i .. m, v[al[j]] \in Clusters PROVE v[al[j]] \in T
      BY DEF Closed
    <2>1. j # m /\ v[al[j]] = al[j + 1]
      BY SizeFacts DEF Chained
    <2>2. j + 1 \in i .. m
      BY <2>1
    <2> QED
      BY <2>1, <2>2
  <1>4. Reach(v, al[i]) \subseteq T
    BY <1>2, <1>3, ReachLeast
  <1>5. ASSUME NEW b \in i .. m, al[b] \notin Reach(v, al[i]) PROVE FALSE
    <2> DEFINE Bad == {j \in i .. m : al[j] \notin Reach(v, al[i])}
    <2>1. Bad \in SUBSET Nat /\ b \in Bad
      BY <1>5
    <2>2. Min(Bad) \in Bad /\ \A j \in Bad : Min(Bad) <= j
      BY <2>1, MinNat
    <2>3. PICK a \in Bad : \A j \in Bad : a <= j
      BY <2>2
    <2>4. a # i
      BY <1>1, <2>3, ReachBasic
    <2>5. a - 1 \in i .. m /\ a - 1 # m /\ (a - 1) + 1 = a /\ a \in 1 .. m
      BY <2>3, <2>4
    <2>6. al[a - 1] \in Reach(v, al[i])
      BY <2>3, <2>5
    <2>7. v[al[a - 1]] = al[a]
      BY <2>5 DEF Chained
    <2>8. al[a] \in Reach(v, al[i])
      BY <1>1, <2>5, <2>6, <2>7, ReachClosed DEF Closed
    <2> QED
      BY <2>3, <2>8
  <1> QED
    BY <1>4, <1>5

LEMMA ChainedSize ==
    ASSUME NEW m \in Nat \ {0}, NEW al \in [1 .. m -> 3 .. CLUSTER_MAP_SIZE - 1],
           Injective(al, m), NEW v, Chained(v, al, m), NEW i \in 1 .. m
    PROVE  /\ Cardinality(Reach(v, al[i])) = m - i + 1
           /\ Terminates(v, al[i])
  <1> DEFINE T == {al[j] : j \in i .. m}
             g == [j \in i .. m |-> al[j]]
  <1>1. Reach(v, al[i]) = T
    BY ChainedReach
  <1>2. g \in Bijection(i .. m, T)
    <2>1. g \in [i .. m -> T] /\ \A t \in T : \E j \in i .. m : g[j] = t
      OBVIOUS
    <2>2. \A a, b \in i .. m : g[a] = g[b] => a = b
      BY DEF Injective
    <2>3. g \in Injection(i .. m, T)
      BY <2>1, <2>2 DEF Injection, IsInjective
    <2>4. g \in Surjection(i .. m, T)
      BY <2>1 DEF Surjection
    <2> QED
      BY <2>3, <2>4 DEF Bijection
  <1>3. ExistsBijection(i .. m, T)
    BY <1>2 DEF ExistsBijection
  <1>4. IsFiniteSet(i .. m) /\ Cardinality(i .. m) = m - i + 1
    <2>1. i \in Int /\ m \in Int /\ ~(i > m)
      OBVIOUS
    <2> QED
      BY <2>1, FS_Interval
  <1>5. Cardinality(T) = m - i + 1
    BY <1>3, <1>4, FS_Bijection
  <1>6. Terminates(v, al[i])
    <2>1. m \in i .. m /\ v[al[m]] = FAT32_FAT_END_OF_FILE
      BY DEF Chained
    <2> QED
      BY <1>1, <2>1 DEF Terminates
  <1> QED
    BY <1>1, <1>5, <1>6

LEMMA ChainedNth ==
    ASSUME NEW m \in Nat \ {0}, NEW al \in [1 .. m -> 3 .. CLUSTER_MAP_SIZE - 1],
           Injective(al, m), NEW v, Chained(v, al, m), NEW i \in 1 .. m
    PROVE  Nth(v, al[1], i) = al[i]
  <1>1. Reach(v, al[1]) = {al[j] : j \in 1 .. m}
    <2>1. 1 \in 1 .. m
      OBVIOUS
    <2> QED
      BY <2>1, ChainedReach
  <1>2. \A j \in 1 .. m : Cardinality(Reach(v, al[j])) = m - j + 1
    BY ChainedSize
  <1>3. 1 \in 1 .. m /\ al[i] \in Reach(v, al[1])
    BY <1>1
  <1>4. \A j \in 1 .. m : Cardinality(Reach(v, al[j])) = Cardinality(Reach(v, al[1])) - i + 1 <=> j = i
    BY <1>2, <1>3
  <1> DEFINE P(d) == Cardinality(Reach(v, d)) = Cardinality(Reach(v, al[1])) - i + 1
  <1>5. \A d \in Reach(v, al[1]) : P(d) <=> d = al[i]
    BY <1>1, <1>4, <1>3
  <1>6. Nth(v, al[1], i) = (CHOOSE d \in Reach(v, al[1]) : P(d))
    BY DEF Nth
  <1> HIDE DEF P
  <1> QED
    BY <1>3, <1>5, <1>6

\* What write gets from findEmptyCluster on a disk that does not get full.
LEMMA FirstFitFree ==
    ASSUME NEW f, NEW m \in Nat \ {0}, NEW al \in [1 .. m -> 3 .. CLUSTER_MAP_SIZE],
           FirstFit(f, al), \A i \in 1 .. m : al[i] # CLUSTER_MAP_SIZE
    PROVE  /\ al \in [1 .. m -> 3 .. CLUSTER_MAP_SIZE - 1]
           /\ Injective(al, m)
           /\ \A i \in 1 .. m : f[al[i]] = 0
  <1>1. ASSUME NEW i \in 1 .. m
        PROVE  /\ al[i] \in 3 .. CLUSTER_MAP_SIZE - 1 /\ f[al[i]] = 0
               /\ \A j \in 1 .. i - 1 : al[j] # al[i]
    <2> DEFINE taken == {al[j] : j \in 1 .. i - 1}
               free == {c \in 3 .. CLUSTER_MAP_SIZE - 1 : f[c] = 0 /\ c \notin taken}
    <2>1. al[i] = findEmptyCluster(f, taken)
      BY DEF FirstFit
    <2>2. al[i] = IF free = {} THEN CLUSTER_MAP_SIZE ELSE Min(free)
      BY <2>1 DEF findEmptyCluster
    <2> HIDE DEF free
    <2>3. al[i] = Min(free) /\ free # {}
      BY <2>2
    <2>4. free \in SUBSET Nat
      BY SizeFacts DEF free
    <2>5. al[i] \in free
      BY <2>3, <2>4, MinNat
    <2> QED
      BY <2>5 DEF free
  <1>2. \A i \in 1 .. m : \A j \in 1 .. i - 1 : al[j] # al[i]
    BY <1>1
  <1>3. Injective(al, m)
    <2> SUFFICES ASSUME NEW i \in 1 .. m, NEW j \in 1 .. m, i # j PROVE al[i] # al[j]
      BY DEF Injective
    <2>1. i \in 1 .. j - 1 \/ j \in 1 .. i - 1
      OBVIOUS
    <2> QED
      BY <1>2, <2>1
  <1> QED
    BY <1>1, <1>3

\* How many clusters an object of k clusters takes.
Clustered(k) == IF k = 0 THEN 1 ELSE k

\* The clusters al are what write makes of the parts of a new object.
Filled(d, p, n, k, x, al, m) ==
    \A i \in 1 .. m : al[i] # p /\ d[al[i]] = NewCluster(p, n, k, x, i)

\* The entry en holds its object, which is made of those clusters alone.
NewHolds(d, f, p, en, al, m) ==
    /\ Path(f, al[1]) = {al[j] : j \in 1 .. m}
    /\ Holds(d, f, p, en)
    /\ \A i \in 1 .. m : LiveSlots(d[al[i]]) = {} /\ ~d[al[i]].notEmpty

\* A blank table has no entry and is no directory.
LEMMA BlankDead ==
    /\ ~Blank.subdir /\ ~Blank.notEmpty
    /\ \A i \in Slots : ~Blank.slots[i].undelete
  BY DEF Blank, NullEntry

\* What an object that write creates holds, once its clusters are chained.
LEMMA NewObjectHolds ==
    ASSUME NEW d, NEW f, NEW p \in Clusters, NEW n, NEW e, NEW k \in 0 .. FRAGMENT_CTR_SIZE,
           NEW x \in Contents, NEW m, m = Clustered(k),
           NEW al \in [1 .. m -> 3 .. CLUSTER_MAP_SIZE - 1], Injective(al, m),
           Chained(f, al, m), Filled(d, p, n, k, x, al, m)
    PROVE  NewHolds(d, f, p, NewEntry(n, e, k, al[1]), al, m)
  <1> DEFINE v == FatView(f, NoName)
             en == NewEntry(n, e, k, al[1])
  <1>1. m \in Nat \ {0} /\ 1 \in 1 .. m /\ m = (IF k = 0 THEN 1 ELSE k) /\ k \in Nat
    BY SizeAssumption DEF Clustered
  <1>2. \A i \in 1 .. m : al[i] \in FatIndex /\ al[i] \in Clusters
    BY SizeFacts DEF FatIndex
  <1>3. Chained(v, al, m)
    BY <1>2, SizeFacts DEF Chained, FatView
  <1> HIDE DEF v
  <1>4. Path(f, al[1]) = {al[j] : j \in 1 .. m}
    <2>1. \A i \in 1 .. m : Reach(v, al[i]) = {al[j] : j \in i .. m}
      BY ONLY <1>1, <1>3, ChainedReach, al \in [1 .. m -> 3 .. CLUSTER_MAP_SIZE - 1]
    <2>2. Reach(v, al[1]) = {al[j] : j \in 1 .. m}
      BY <1>1, <2>1
    <2> QED
      BY <2>2 DEF Path, v
  <1>5. Terminates(v, al[1]) /\ Cardinality(Path(f, al[1])) = m
    <2>1. Terminates(v, al[1]) /\ Cardinality(Reach(v, al[1])) = m - 1 + 1
      BY <1>1, <1>3, ChainedSize
    <2> QED
      BY <1>1, <2>1 DEF Path, v
  <1>6. \A i \in 1 .. m : Nth(v, al[1], i) = al[i]
    BY <1>1, <1>3, ChainedNth
  <1>7. ASSUME NEW i \in 1 .. m PROVE f[al[i]] # 0
    <2>1. FAT32_FAT_END_OF_FILE # 0
      BY SizeFacts
    <2>2. CASE i = m
      BY <1>1, <2>1, <2>2 DEF Chained
    <2>3. CASE i # m
      <3>1. i \in 1 .. m - 1 /\ i + 1 \in 1 .. m
        BY <1>1, <2>3
      <3>2. f[al[i]] = al[i + 1]
        BY <3>1 DEF Chained
      <3> QED
        BY <3>1, <3>2
    <2> QED
      BY <2>2, <2>3
  <1>8. /\ en.cluster = al[1] /\ en.subdir = (k = 0) /\ en.filesize = k /\ en.name = n
        /\ k = 0 => en.ext = NoExt
    BY DEF NewEntry
  <1> HIDE DEF en
  <1>9. ASSUME NEW i \in 1 .. m
        PROVE  /\ d[al[i]].subdir = (k = 0) /\ LiveSlots(d[al[i]]) = {} /\ ~d[al[i]].notEmpty
               /\ k = 0 => d[al[i]].name = n /\ d[al[i]].parent = p
               /\ k # 0 => d[al[i]].data = <<x, i - 1>>
    <2>1. CASE k = 0
      <3>1. d[al[i]] = [Blank EXCEPT !.subdir = TRUE, !.name = n, !.parent = p]
        BY <2>1 DEF NewCluster, init_directory_table, Filled
      <3>2. /\ d[al[i]].subdir /\ d[al[i]].slots = Blank.slots /\ ~d[al[i]].notEmpty
            /\ d[al[i]].name = n /\ d[al[i]].parent = p
        BY <3>1 DEF Blank
      <3> QED
        BY <2>1, <3>2, BlankDead DEF LiveSlots
    <2>2. CASE k # 0
      <3>1. i - 1 \in 0 .. FRAGMENT_CTR_SIZE - 1 /\ FRAGMENT_CTR_SIZE \in Nat \ {0}
        <4>1. i \in 1 .. k
          BY ONLY <1>1, <2>2, i \in 1 .. m
        <4> QED
          BY ONLY <4>1, k \in 0 .. FRAGMENT_CTR_SIZE, SizeAssumption
      <3>2. (i - 1) % FRAGMENT_CTR_SIZE = i - 1
        BY ONLY <3>1
      <3>3. d[al[i]] = [Blank EXCEPT !.data = <<x, i - 1>>]
        BY <2>2, <3>2 DEF NewCluster, Filled
      <3>4. /\ d[al[i]].slots = Blank.slots /\ d[al[i]].subdir = Blank.subdir
            /\ d[al[i]].notEmpty = Blank.notEmpty /\ d[al[i]].data = <<x, i - 1>>
        <4> DEFINE dat == <<x, i - 1>>
        <4> HIDE DEF dat
        <4>1. d[al[i]] = [Blank EXCEPT !.data = dat]
          BY <3>3 DEF dat
        <4>2. /\ d[al[i]].slots = Blank.slots /\ d[al[i]].subdir = Blank.subdir
              /\ d[al[i]].notEmpty = Blank.notEmpty /\ d[al[i]].data = dat
          BY ONLY <4>1 DEF Blank
        <4> QED
          BY <4>2 DEF dat
      <3>5. d[al[i]].subdir = (k = 0) /\ ~d[al[i]].notEmpty
        BY <2>2, <3>4 DEF Blank
      <3>6. LiveSlots(d[al[i]]) = {}
        BY <3>4, BlankDead DEF LiveSlots
      <3> QED
        BY <2>2, <3>4, <3>5, <3>6
    <2> QED
      BY <2>1, <2>2
  <1>10. ~en.subdir => \E y \in Contents : \A i \in 1 .. en.filesize :
                        /\ Part(f, en, i) \in Path(f, en.cluster)
                        /\ d[Part(f, en, i)].data = <<y, i - 1>>
    <2> SUFFICES ASSUME ~en.subdir, NEW i \in 1 .. en.filesize
                 PROVE  /\ Part(f, en, i) \in Path(f, en.cluster)
                        /\ d[Part(f, en, i)].data = <<x, i - 1>>
      OBVIOUS
    <2>1. k # 0 /\ i \in 1 .. m
      <3>1. k # 0 /\ i \in 1 .. k
        BY <1>8
      <3> QED
        BY ONLY <1>1, <3>1
    <2>2. Part(f, en, i) = al[i]
      BY <1>6, <1>8, <2>1 DEF Part, v
    <2> QED
      BY <1>4, <1>8, <1>9, <2>1, <2>2
  <1>11. Path(f, al[1]) \subseteq 3 .. CLUSTER_MAP_SIZE - 1
    BY <1>4
  <1>12. \A c \in Path(f, al[1]) : f[c] # 0 /\ d[c].subdir = en.subdir
    BY <1>4, <1>7, <1>8, <1>9
  <1>13. en.subdir => /\ en.ext = NoExt /\ en.cluster # p
                      /\ d[en.cluster].name = en.name /\ d[en.cluster].parent = p
    BY <1>1, <1>8, <1>9 DEF Filled
  <1>14. en.cluster \in Clusters /\ Terminates(FatView(f, NoName), en.cluster)
         /\ Cardinality(Path(f, en.cluster)) = IF en.subdir THEN 1 ELSE en.filesize
    BY <1>1, <1>2, <1>5, <1>8 DEF v
  <1>15. Holds(d, f, p, en)
    BY <1>8, <1>10, <1>11, <1>12, <1>13, <1>14 DEF Holds, Stored
  <1> QED
    BY <1>4, <1>9, <1>15 DEF en, NewHolds

\* The entry that write fills.
HomeSlot(p) == Min(FreeSlots(disk[p]))

\* The table that write is left with.
HomeTable(p, en) ==
    [disk[p] EXCEPT !.notEmpty = TRUE, !.slots = [@ EXCEPT ![HomeSlot(p)] = en]]

\* The m clusters al were free; they are chained and filled, and the entry that
\* leads to them is in the table of cluster p.
Placed(p, n, e, k, x, al, m) ==
    /\ Injective(al, m) /\ \A j \in 1 .. m : diskFat[al[j]] = 0
    /\ FirstFit(diskFat, al)
    /\ diskFat' = ChainFat(diskFat, al, 0, p) /\ fat_table' = diskFat'
    /\ disk' = [c \in Clusters |->
                  IF c = p THEN HomeTable(p, NewEntry(n, e, k, al[1]))
                  ELSE IF \E j \in 1 .. m : al[j] = c
                  THEN NewCluster(p, n, k, x, Max({j \in 1 .. m : al[j] = c}))
                  ELSE disk[c]]

\* Where none of its limits is met, write takes free clusters only and adds the
\* entry to the one table of its parent.
LEMMA WriteObjectChains ==
    ASSUME IInv, Fit, NEW p \in Parents, NEW n \in Names, NEW e \in Exts,
           NEW k \in 0 .. MAX_FILE_CLUSTERS, NEW x \in Contents,
           disk[p].subdir, Terminates(DirView(diskFat), p),
           ~\E t \in Reach(DirView(diskFat), p) : Exists(disk[t], n, e, k = 0),
           WriteObject(p, n, e, k, x), Within'
    PROVE  /\ diskFat[p] # 0 /\ p \in Clusters /\ p \in FatIndex
           /\ ~Exists(disk[p], n, e, k = 0) /\ k <= FRAGMENT_CTR_SIZE
           /\ HomeSlot(p) \in FreeSlots(disk[p])
           /\ \E al \in [1 .. Clustered(k) -> 3 .. CLUSTER_MAP_SIZE - 1] :
                Placed(p, n, e, k, x, al, Clustered(k))
  <1> DEFINE v == DirView(diskFat)
             tables == Reach(v, p)
             roomy == {t \in tables : FreeSlots(disk[t]) # {}}
             ext == IF roomy = {} THEN 1 ELSE 0
             last == LastOf(v, tables)
             count == ext + (IF k = 0 THEN 1 ELSE k)
             slot == Min(FreeSlots(disk[FirstOf(v, roomy)]))
             m == Clustered(k)
  <1>1. /\ diskFat[p] # 0 /\ tables = {p} /\ p \in Clusters /\ p \in FatIndex
        /\ ~Exists(disk[p], n, e, k = 0)
    <2>1. diskFat[p] # 0
      BY TableWalk DEF DirView
    <2>2. tables = {p}
      BY <2>1, TableWalk DEF DirView
    <2> QED
      BY <2>1, <2>2, ParentsOK DEF Parents, FatIndex
  <1>2. k \in Nat /\ m \in Nat \ {0} /\ count = ext + m /\ ext \in {0, 1} /\ (roomy = {} => ext = 1)
    BY SizeAssumption DEF Clustered
  <1>3. PICK al \in [1 .. count -> 3 .. CLUSTER_MAP_SIZE] :
          LET full == \E j \in DOMAIN al : al[j] = CLUSTER_MAP_SIZE
              home == IF ext = 1 THEN al[1] ELSE p
              fat == ChainFat(diskFat, al, ext, last)
              buf == [disk[last] EXCEPT
                        !.notEmpty = TRUE,
                        !.name = IF full THEN Smashed ELSE @,
                        !.slots = IF ext = 1 THEN @
                                  ELSE [@ EXCEPT ![slot] = NewEntry(n, e, k, al[1])]]
          IN  /\ FirstFit(diskFat, al)
              /\ Breach(Stale(p) \cup {l \in {"disk_full", "table_full", "long_file"} :
                     CASE l = "disk_full" -> full
                       [] l = "table_full" -> ext = 1
                       [] l = "long_file" -> k > FRAGMENT_CTR_SIZE})
              /\ disk' = [c \in Clusters |->
                            IF c = home THEN buf
                            ELSE IF \E j \in 1 + ext .. count : al[j] = c
                            THEN NewCluster(p, n, k, x,
                                   Max({j \in 1 + ext .. count : al[j] = c}) - ext)
                            ELSE disk[c]]
              /\ StoreFat(fat)
    BY Zenon DEF WriteObject
  <1> DEFINE full == \E j \in DOMAIN al : al[j] = CLUSTER_MAP_SIZE
             run == {l \in {"disk_full", "table_full", "long_file"} :
                       CASE l = "disk_full" -> full
                         [] l = "table_full" -> ext = 1
                         [] l = "long_file" -> k > FRAGMENT_CTR_SIZE}
  <1> HIDE DEF m, count, full, run, slot
  <1>4. ~full /\ ext = 0 /\ k <= FRAGMENT_CTR_SIZE
    <2> HIDE DEF ext, roomy, tables, v, last
    <2>1. \E b : Breach(b) /\ run \subseteq b
      <3>1. Breach(Stale(p) \cup run)
        BY <1>3 DEF run, full
      <3> DEFINE b == Stale(p) \cup run
      <3>2. run \subseteq b
        OBVIOUS
      <3> HIDE DEF b
      <3> QED
        BY ONLY <3>1, <3>2 DEF b
    <2>2. run \subseteq {"moved", "stale"}
      <3>1. ASSUME NEW b, Breach(b) PROVE b \subseteq {"moved", "stale"}
        BY ONLY <3>1, WithinFacts, Within'
      <3> QED
        BY ONLY <2>1, <3>1
    <2>3. "disk_full" \notin run /\ "table_full" \notin run /\ "long_file" \notin run
      BY ONLY <2>2
    <2>4. ~full
      BY ONLY <2>3 DEF run
    <2>5. ext # 1
      BY ONLY <2>3 DEF run
    <2>6. ~(k > FRAGMENT_CTR_SIZE)
      BY ONLY <2>3 DEF run
    <2> QED
      BY ONLY <1>2, <2>4, <2>5, <2>6, SizeAssumption
  <1>5. roomy # {} /\ count = m
    <2> HIDE DEF ext, roomy
    <2> QED
      BY ONLY <1>2, <1>4
  <1>6. last = p /\ FirstOf(v, roomy) = p /\ slot = HomeSlot(p) /\ HomeSlot(p) \in FreeSlots(disk[p])
    <2>1. last = p
      BY ONLY <1>1, LastOfIn
    <2>2. FirstOf(v, roomy) \in roomy
      BY ONLY <1>1, <1>5, FirstOfIn
    <2>3. FirstOf(v, roomy) = p /\ FreeSlots(disk[p]) # {}
      BY ONLY <1>1, <2>2
    <2>4. FreeSlots(disk[p]) \in SUBSET Slots
      BY DEF FreeSlots
    <2>5. slot = HomeSlot(p)
      <3> HIDE DEF roomy, v
      <3> QED
        BY <2>3 DEF slot, HomeSlot
    <2> HIDE DEF roomy, v
    <2>6. HomeSlot(p) \in FreeSlots(disk[p])
      BY ONLY <2>3, <2>4, MinSlot DEF HomeSlot
    <2> QED
      BY <2>1, <2>3, <2>5, <2>6
  <1> HIDE DEF v, tables, roomy, ext, last
  <1>7. /\ FirstFit(diskFat, al) /\ al \in [1 .. m -> 3 .. CLUSTER_MAP_SIZE]
        /\ \A j \in 1 .. m : al[j] # CLUSTER_MAP_SIZE
    <2>1. FirstFit(diskFat, al)
      BY <1>3
    <2>2. al \in [1 .. m -> 3 .. CLUSTER_MAP_SIZE] /\ DOMAIN al = 1 .. m
      BY ONLY <1>5, al \in [1 .. count -> 3 .. CLUSTER_MAP_SIZE]
    <2> QED
      BY ONLY <1>4, <2>1, <2>2 DEF full
  <1>8. /\ al \in [1 .. m -> 3 .. CLUSTER_MAP_SIZE - 1]
        /\ Injective(al, m)
        /\ \A j \in 1 .. m : diskFat[al[j]] = 0
    BY ONLY <1>2, <1>7, FirstFitFree
  <1>9. 1 + ext .. count = 1 .. m /\ ext # 1
    BY ONLY <1>2, <1>4, <1>5
  <1>10. diskFat' = ChainFat(diskFat, al, 0, p) /\ fat_table' = diskFat'
    <2>1. StoreFat(ChainFat(diskFat, al, ext, last))
      BY <1>3
    <2> QED
      BY ONLY <1>4, <1>6, <2>1 DEF StoreFat
  <1> DEFINE en == NewEntry(n, e, k, al[1])
  <1>11. disk' = [c \in Clusters |->
                   IF c = p THEN HomeTable(p, en)
                   ELSE IF \E j \in 1 .. m : al[j] = c
                   THEN NewCluster(p, n, k, x, Max({j \in 1 .. m : al[j] = c}))
                   ELSE disk[c]]
    <2> HIDE DEF en
    <2>1. disk' = [c \in Clusters |->
                   IF c = p THEN [disk[p] EXCEPT !.notEmpty = TRUE, !.name = @,
                                                 !.slots = [@ EXCEPT ![HomeSlot(p)] = en]]
                   ELSE IF \E j \in 1 .. m : al[j] = c
                   THEN NewCluster(p, n, k, x, Max({j \in 1 .. m : al[j] = c}) - 0)
                   ELSE disk[c]]
      BY <1>3, <1>4, <1>6, <1>9 DEF full, en
    <2> DEFINE big(c) == Max({j \in 1 .. m : al[j] = c})
    <2>2. ASSUME NEW c, \E j \in 1 .. m : al[j] = c PROVE big(c) - 0 = big(c)
      <3> DEFINE S == {j \in 1 .. m : al[j] = c}
      <3>0. m \in Nat
        BY ONLY <1>2
      <3>1. S \in SUBSET (0 .. m)
        BY ONLY <3>0
      <3>2. S # {} /\ \A y \in S : y \in Nat
        BY ONLY <2>2
      <3> HIDE DEF S
      <3>3. Max(S) \in S
        BY ONLY <3>0, <3>1, <3>2, MaxNat
      <3>4. Max(S) \in Nat
        BY ONLY <3>2, <3>3
      <3> QED
        BY ONLY <3>4 DEF S
    <2>3. [disk[p] EXCEPT !.notEmpty = TRUE, !.name = @, !.slots = [@ EXCEPT ![HomeSlot(p)] = en]]
            = HomeTable(p, en)
      <3>1. disk[p] \in Cluster
        BY <1>1 DEF IInv, DiskOK
      <3> QED
        BY <3>1 DEF Cluster, HomeTable
    <2> HIDE DEF big
    <2>4. disk' = [c \in Clusters |->
                   IF c = p THEN HomeTable(p, en)
                   ELSE IF \E j \in 1 .. m : al[j] = c
                   THEN NewCluster(p, n, k, x, big(c) - 0)
                   ELSE disk[c]]
      BY ONLY <2>1, <2>3 DEF big
    <2>5. disk' = [c \in Clusters |->
                   IF c = p THEN HomeTable(p, en)
                   ELSE IF \E j \in 1 .. m : al[j] = c
                   THEN NewCluster(p, n, k, x, big(c))
                   ELSE disk[c]]
      BY ONLY <2>2, <2>4
    <2> QED
      BY ONLY <2>5 DEF big
  <1> HIDE DEF en
  <1> QED
    BY <1>1, <1>4, <1>6, <1>7, <1>8, <1>10, <1>11 DEF en, m, Placed

\* The entry en is added for the object in the clusters al.
PutIn(p, n, k, x, en, al, m) ==
    /\ en \in Entry /\ disk'[al[1]] = NewCluster(p, n, k, x, 1)
    /\ Added(disk, diskFat, disk', diskFat', p, HomeSlot(p), en, {al[j] : j \in 1 .. m})

LEMMA WriteObjectPlaced ==
    ASSUME IInv, Fit, NEW p \in Parents, NEW n \in Names, NEW e \in Exts,
           NEW k \in 0 .. MAX_FILE_CLUSTERS, NEW x \in Contents,
           disk[p].subdir, Terminates(DirView(diskFat), p),
           ~\E t \in Reach(DirView(diskFat), p) : Exists(disk[t], n, e, k = 0),
           WriteObject(p, n, e, k, x), Within'
    PROVE  /\ fat_table' = diskFat' /\ Answer(0, <<>>)
           /\ diskFat[p] # 0 /\ ~Exists(disk[p], n, e, k = 0)
           /\ \E al \in [1 .. Clustered(k) -> 3 .. CLUSTER_MAP_SIZE - 1] :
                /\ Placed(p, n, e, k, x, al, Clustered(k))
                /\ PutIn(p, n, k, x, NewEntry(n, e, k, al[1]), al, Clustered(k))
  <1> DEFINE m == Clustered(k)
             i == HomeSlot(p)
  <1>1. /\ diskFat[p] # 0 /\ p \in Clusters /\ p \in FatIndex
        /\ ~Exists(disk[p], n, e, k = 0) /\ k <= FRAGMENT_CTR_SIZE /\ i \in FreeSlots(disk[p])
    BY WriteObjectChains
  <1>2. k \in Nat /\ m \in Nat \ {0} /\ 1 \in 1 .. m /\ m = IF k = 0 THEN 1 ELSE k
    BY SizeAssumption DEF Clustered
  <1>3. \E al \in [1 .. m -> 3 .. CLUSTER_MAP_SIZE - 1] : Placed(p, n, e, k, x, al, m)
    BY WriteObjectChains
  <1> HIDE DEF i
  <1>4. PICK al \in [1 .. m -> 3 .. CLUSTER_MAP_SIZE - 1] : Placed(p, n, e, k, x, al, m)
    BY <1>3
  <1> DEFINE en == NewEntry(n, e, k, al[1])
             new == {al[j] : j \in 1 .. m}
  <1> HIDE DEF m
  <1>9. Injective(al, m) /\ \A j \in 1 .. m : diskFat[al[j]] = 0
    BY <1>4 DEF Placed
  <1>10. diskFat' = ChainFat(diskFat, al, 0, p) /\ fat_table' = diskFat'
    BY <1>4 DEF Placed
  <1>11. /\ Chained(diskFat', al, m)
         /\ \A c \in FatIndex : (\A j \in 1 .. m : al[j] # c) => diskFat'[c] = diskFat[c]
    BY <1>2, <1>9, <1>10, ChainFatChains
  <1>12. disk'[p] = [disk[p] EXCEPT !.notEmpty = TRUE, !.slots = [@ EXCEPT ![i] = en]]
    <2>1. disk'[p] = HomeTable(p, en)
      BY <1>1, <1>4 DEF Placed
    <2> HIDE DEF en
    <2> QED
      BY <2>1 DEF HomeTable, i
  <1>13. ASSUME NEW j \in 1 .. m
         PROVE  /\ al[j] # p /\ al[j] \in 3 .. CLUSTER_MAP_SIZE - 1 /\ al[j] \in Clusters
                /\ disk'[al[j]] = NewCluster(p, n, k, x, j)
    <2>1. al[j] # p /\ al[j] \in 3 .. CLUSTER_MAP_SIZE - 1 /\ al[j] \in Clusters
      BY <1>1, <1>9, SizeFacts DEF Clusters
    <2> DEFINE S == {l \in 1 .. m : al[l] = al[j]}
    <2>2. S = {j}
      BY <1>9 DEF Injective
    <2>3. S \in SUBSET (0 .. m) /\ S # {}
      BY <2>2
    <2>4. Max(S) \in S
      BY <1>2, <2>3, MaxNat
    <2>5. Max(S) = j
      BY <2>2, <2>4
    <2>6. disk'[al[j]] = NewCluster(p, n, k, x, Max(S))
      BY <1>4, <2>1 DEF Placed
    <2> QED
      BY <2>1, <2>5, <2>6
  <1>14. /\ Path(diskFat', al[1]) = new
         /\ Holds(disk', diskFat', p, en)
         /\ \A j \in 1 .. m : LiveSlots(disk'[al[j]]) = {} /\ ~disk'[al[j]].notEmpty
    <2>1. p \in Clusters /\ k \in 0 .. FRAGMENT_CTR_SIZE
      BY <1>1, <1>2, SizeAssumption
    <2>0. m = Clustered(k)
      BY DEF m
    <2>2. Filled(disk', p, n, k, x, al, m)
      BY <1>13 DEF Filled
    <2>3. Injective(al, m) /\ Chained(diskFat', al, m)
      BY <1>9, <1>11
    <2>4. NewHolds(disk', diskFat', p, NewEntry(n, e, k, al[1]), al, m)
      BY <2>0, <2>1, <2>2, <2>3, NewObjectHolds
    <2> QED
      BY <2>4 DEF NewHolds
  <1>15. en \in Entry /\ en.cluster = al[1] /\ en.undelete
    <2>1. al[1] \in 3 .. CLUSTER_MAP_SIZE - 1
      <3>1. 1 \in 1 .. m
        BY ONLY <1>2
      <3> QED
        BY ONLY <3>1, al \in [1 .. m -> 3 .. CLUSTER_MAP_SIZE - 1]
    <2>2. al[1] \in Data
      BY ONLY <2>1, SizeFacts DEF Data, Clusters
    <2> QED
      BY <2>2, EntryTypes DEF NewEntry
  <1>16. \A j \in LiveSlots(disk[p]) : ~Clash(en, disk[p].slots[j])
    <2> SUFFICES ASSUME NEW j \in LiveSlots(disk[p]), Clash(en, disk[p].slots[j])
                 PROVE  Exists(disk[p], n, e, k = 0)
      BY <1>1
    <2>1. /\ en.name = n /\ en.subdir = (k = 0) /\ (k # 0 => en.ext = e)
      BY DEF NewEntry
    <2> HIDE DEF en
    <2> QED
      BY <2>1 DEF Exists, Clash
  <1>17. new \subseteq {c \in 3 .. CLUSTER_MAP_SIZE - 1 : diskFat[c] = 0} /\ p \notin new
    BY <1>9, <1>13
  <1>18. \A c \in FatIndex \ new : diskFat'[c] = diskFat[c]
    BY <1>11
  <1>19. \A c \in Clusters \ (new \cup {p}) : disk'[c] = disk[c]
    BY <1>4 DEF Placed
  <1>20. \A c \in new : LiveSlots(disk'[c]) = {} /\ ~disk'[c].notEmpty
    BY <1>14
  <1>21. disk'[al[1]] = NewCluster(p, n, k, x, 1)
    BY <1>2, <1>13
  <1>22. Answer(0, <<>>)
    BY Zenon DEF WriteObject
  <1> HIDE DEF new, en
  <1>23. Added(disk, diskFat, disk', diskFat', p, i, en, new)
    BY <1>1, <1>12, <1>14, <1>15, <1>16, <1>17, <1>18, <1>19, <1>20 DEF Added
  <1>24. PutIn(p, n, k, x, en, al, m)
    BY <1>15, <1>21, <1>23 DEF PutIn, i, new
  <1> QED
    BY <1>1, <1>4, <1>10, <1>22, <1>24 DEF en, m

LEMMA WriteObjectGood ==
    ASSUME IInv, Fit, NEW p \in Parents, NEW n \in Names, NEW e \in Exts,
           NEW k \in 0 .. MAX_FILE_CLUSTERS, NEW x \in Contents,
           disk[p].subdir, Terminates(DirView(diskFat), p),
           ~\E t \in Reach(DirView(diskFat), p) : Exists(disk[t], n, e, k = 0),
           WriteObject(p, n, e, k, x), Within'
    PROVE  /\ fat_table' = diskFat' /\ Answer(0, <<>>)
           /\ diskFat[p] # 0 /\ ~Exists(disk[p], n, e, k = 0)
           /\ \E c, new :
                LET en == NewEntry(n, e, k, c)
                IN  /\ en \in Entry /\ disk'[c] = NewCluster(p, n, k, x, 1)
                    /\ Added(disk, diskFat, disk', diskFat', p, HomeSlot(p), en, new)
  <1>1. PICK al \in [1 .. Clustered(k) -> 3 .. CLUSTER_MAP_SIZE - 1] :
           PutIn(p, n, k, x, NewEntry(n, e, k, al[1]), al, Clustered(k))
    BY WriteObjectPlaced
  <1> QED
    BY <1>1, WriteObjectPlaced DEF PutIn

LEMMA writeGood ==
    ASSUME IInv, Fit, NEW p \in Parents, NEW n \in Names, NEW e \in Exts,
           NEW k \in 0 .. MAX_FILE_CLUSTERS, NEW x \in Contents, write(p, n, e, k, x), Within'
    PROVE  \/ Same
           \/ /\ fat_table' = diskFat'
              /\ \E i, en, new : en \in Entry /\ Added(disk, diskFat, disk', diskFat', p, i, en, new)
  <1> DEFINE v == DirView(diskFat)
             exists == \E t \in Reach(v, p) : Exists(disk[t], n, e, k = 0)
  <1>1. \/ disk[p].subdir /\ ~exists /\ Terminates(v, p) /\ WriteObject(p, n, e, k, x)
        \/ fat_table' = diskFat /\ UNCHANGED <<disk, diskFat>>
    BY DEF write
  <1>2. CASE disk[p].subdir /\ ~exists /\ Terminates(v, p) /\ WriteObject(p, n, e, k, x)
    BY <1>2, WriteObjectGood
  <1>3. CASE fat_table' = diskFat /\ UNCHANGED <<disk, diskFat>>
    BY <1>3 DEF Same
  <1> QED
    BY <1>1, <1>2, <1>3
=============================================================================
