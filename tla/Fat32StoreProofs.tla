--------------------------- MODULE Fat32StoreProofs ---------------------------
(***************************************************************************)
(* The driver implements FileStore: every call that runs into no limit but *)
(* move_dir's answers and leaves the directories as FileStore says.        *)
(***************************************************************************)
EXTENDS Fat32SafetyProofs, Fat32Store

-----------------------------------------------------------------------------
(***************************************************************************)
(* What the disk d with FAT f stands for                                   *)
(***************************************************************************)
DirsOf(d, f) == {c \in FatIndex : f[c] # 0 /\ d[c].subdir}

EntryIn(d, t) ==
    LET data == d[t.cluster].data
    IN  [live |-> t.undelete,
         name |-> t.name,
         ext |-> IF t.undelete THEN t.ext ELSE NoExt,
         dir |-> IF t.undelete /\ t.subdir THEN t.cluster ELSE 0,
         size |-> IF t.undelete THEN t.filesize ELSE 0,
         x |-> IF t.undelete /\ ~t.subdir /\ data # NoData THEN data[1] ELSE NoData]

DirIn(d, c) ==
    [notEmpty |-> d[c].notEmpty, slots |-> [i \in Slots |-> EntryIn(d, d[c].slots[i])]]

StoreIn(d, f) == [c \in DirsOf(d, f) |-> DirIn(d, c)]

LEMMA StoreNow ==
    /\ StoreOf = StoreIn(disk, fat_table)
    /\ StoreOf' = StoreIn(disk', fat_table')
  BY DEF StoreOf, StoreIn, DirIn, EntryOf, EntryIn, Dirs, DirsOf

\* FileStore's helpers say the same as the driver's.
LEMMA StoreMin == ASSUME NEW S PROVE Store!Min(S) = Min(S)
  BY DEF Store!Min, Min

\* A directory as FileStore sees it and the driver's table of it.
LEMMA StoreDirectory ==
    ASSUME NEW d, NEW f, Sound(d, f), NEW p \in DirsOf(d, f), NEW s, s = StoreIn(d, f)
    PROVE  /\ p \in DOMAIN s /\ DOMAIN s = DirsOf(d, f)
           /\ s[p].notEmpty = d[p].notEmpty
           /\ \A i \in Slots : Store!At(s, p, i) = EntryIn(d, d[p].slots[i])
           /\ Store!LiveIn(s, p) = LiveSlots(d[p])
           /\ \A i \in LiveSlots(d[p]) : Store!IsFolder(Store!At(s, p, i)) <=> d[p].slots[i].subdir
           /\ \A n, e : Store!Named(s, p, n, e) = Named(d[p], n, e)
           /\ \A n : Store!FirstOfName(s, p, n) = FirstNamed(d[p], n)
           /\ Store!FirstFree(s, p) = Min(FreeSlots(d[p]))
  <1>1. p \in FatIndex /\ p \in Clusters /\ d[p].subdir
    BY SizeFacts DEF DirsOf
  <1>2. DOMAIN s = DirsOf(d, f) /\ s[p] = DirIn(d, p)
    BY DEF StoreIn
  <1>3. ASSUME NEW i \in Slots PROVE Store!At(s, p, i) = EntryIn(d, d[p].slots[i])
    BY <1>2 DEF Store!At, DirIn
  <1>4. Store!LiveIn(s, p) = LiveSlots(d[p])
    BY <1>3 DEF Store!LiveIn, LiveSlots, EntryIn
  <1>5. ASSUME NEW i \in LiveSlots(d[p])
        PROVE  Store!IsFolder(Store!At(s, p, i)) <=> d[p].slots[i].subdir
    <2>1. i \in Slots /\ d[p].slots[i].undelete
      BY DEF LiveSlots
    <2>2. <<p, i>> \in Refs(d)
      BY <1>1, <2>1 DEF Refs, Tables
    <2>3. Holds(d, f, p, d[p].slots[i])
      BY <2>2 DEF Sound, AllHold, Ref
    <2>4. d[p].slots[i].subdir => d[p].slots[i].cluster # 0
      BY <2>3, FolderPath DEF Holds
    <2> QED
      BY <1>3, <2>1, <2>4 DEF Store!IsFolder, EntryIn
  <1>6. ASSUME NEW n, NEW e PROVE Store!Named(s, p, n, e) = Named(d[p], n, e)
    BY <1>3, <1>4 DEF Store!Named, Named, LiveSlots, EntryIn
  <1>7. ASSUME NEW n PROVE Store!FirstOfName(s, p, n) = FirstNamed(d[p], n)
    <2>1. {i \in Slots : Store!At(s, p, i).name = n} = {i \in Slots : d[p].slots[i].name = n}
      BY <1>3 DEF EntryIn
    <2> QED
      BY <2>1, StoreMin DEF Store!FirstOfName, FirstNamed
  <1>8. Store!FirstFree(s, p) = Min(FreeSlots(d[p]))
    BY <1>4, StoreMin DEF Store!FirstFree, FreeSlots
  <1> QED
    BY <1>1, <1>2, <1>3, <1>4, <1>5, <1>6, <1>7, <1>8 DEF DirIn

-----------------------------------------------------------------------------
(***************************************************************************)
(* Calls that only read                                                    *)
(***************************************************************************)
\* FileStore!ReadDirectory in terms of the table.
LEMMA StoreReadDirectory ==
    ASSUME NEW d, NEW f, Sound(d, f), NEW p \in DirsOf(d, f), NEW s, s = StoreIn(d, f),
           NEW n, NEW e, NEW r, r = Store!ReadDirectory(s, p, n, e)
    PROVE  /\ r.ret = IF FoundIn(d[p], n, e) # {} THEN 0
                      ELSE IF Named(d[p], n, e) = {} THEN 3 ELSE 1
           /\ FoundIn(d[p], n, e) # {} => r.dir = ChildIn(d[p], n, e)
  <1> DEFINE found == FoundIn(d[p], n, e)
             folders == {i \in Store!Named(s, p, n, e) : Store!IsFolder(Store!At(s, p, i))}
  <1>1. /\ \A i \in Slots : Store!At(s, p, i) = EntryIn(d, d[p].slots[i])
        /\ Store!Named(s, p, n, e) = Named(d[p], n, e)
        /\ \A i \in LiveSlots(d[p]) : Store!IsFolder(Store!At(s, p, i)) <=> d[p].slots[i].subdir
    BY StoreDirectory
  <1>2. folders = found
    BY <1>1, NamedLive DEF FoundIn
  <1>3. r = IF folders # {} THEN [ret |-> 0, dir |-> Store!At(s, p, Store!Min(folders)).dir]
            ELSE [ret |-> IF Store!Named(s, p, n, e) = {} THEN 3 ELSE 1, dir |-> 0]
    BY DEF Store!ReadDirectory
  <1> HIDE DEF folders
  <1>4. ASSUME found # {}
        PROVE  Store!At(s, p, Store!Min(folders)).dir = ChildIn(d[p], n, e)
    <2>1. found \in SUBSET Slots
      BY DEF FoundIn, Named
    <2>2. Min(found) \in found
      BY <1>4, <2>1, MinSlot
    <2>3. Min(found) \in Slots /\ d[p].slots[Min(found)].undelete /\ d[p].slots[Min(found)].subdir
      BY <2>2 DEF FoundIn, Named
    <2> HIDE DEF found
    <2>4. Store!At(s, p, Store!Min(folders)) = EntryIn(d, d[p].slots[Min(found)])
      BY <1>1, <1>2, <2>3, StoreMin
    <2> QED
      BY <2>3, <2>4 DEF EntryIn, ChildIn, found
  <1> HIDE DEF found
  <1> QED
    BY <1>1, <1>2, <1>3, <1>4 DEF found

\* What read_directory answers about a directory.
LEMMA ReadDirectoryRet ==
    ASSUME IInv, Good, NEW p \in Parents, disk[p].subdir, diskFat[p] # 0,
           NEW n, NEW e, NEW size \in BufferSizes,
           NEW r, r = ReadDirectory(p, n, e, size)
    PROVE  /\ ~r.hangs
           /\ r.ret = IF FoundIn(disk[p], n, e) # {} THEN 0
                      ELSE IF Named(disk[p], n, e) = {} THEN 3 ELSE 1
  <1> DEFINE v == DirView(fat_table)
             seen == {t \in Reach(v, p) : Named(disk[t], n, e) # {}}
             hits == {t \in seen : FoundIn(disk[t], n, e) # {}}
             child(t) == ChildIn(disk[t], n, e)
             w(t) == FatView(diskFat, disk[t].name)
             before(t) == {u \in hits : u # t /\ t \in Reach(v, u)}
             space(t) == size - Cardinality({u \in before(t) \X Clusters :
                                               u[2] \in Reach(w(u[1]), child(u[1]))})
             room(t) == IF \A u \in before(t) : Terminates(w(u), child(u)) THEN space(t) ELSE 0
             served == {t \in hits : room(t) > 0}
             last == LastOf(v, served)
  <1>1. r = IF ~disk[p].subdir \/ served = {}
            THEN [ret |-> IF ~disk[p].subdir THEN -1 ELSE IF seen = {} THEN 3 ELSE 1,
                  hangs |-> disk[p].subdir /\ ~Terminates(v, p),
                  disk |-> disk, fat |-> fat_table, cluster |-> 0, buf |-> Blank]
            ELSE [ret |-> IF LastOf(v, seen) \notin hits THEN 1
                          ELSE IF LastOf(v, seen) \in served THEN 0 ELSE 2,
                  hangs |-> ~Terminates(v, p),
                  disk |-> [disk EXCEPT ![p] = disk[last]],
                  fat |-> diskFat,
                  cluster |-> child(last),
                  buf |-> LastRead(w(last), child(last), room(last))]
    BY DEF ReadDirectory
  <1>2. Reach(v, p) = {p} /\ Terminates(v, p) /\ p \in Clusters
    BY TableWalk, GoodFit, ParentsOK DEF Good, DirView
  <1>3. before(p) = {}
    BY <1>2
  <1>4. room(p) = size /\ size \in Nat \ {0}
    <2>1. {u \in before(p) \X Clusters : u[2] \in Reach(w(u[1]), child(u[1]))} = {}
      BY <1>3
    <2>2. Cardinality({}) = 0 /\ size \in Nat \ {0}
      BY FS_EmptySet, SizeAssumption
    <2>3. space(p) = size - 0
      BY <2>1, <2>2
    <2>4. \A u \in before(p) : Terminates(w(u), child(u))
      BY <1>3
    <2> HIDE DEF before, space, w, child
    <2> QED
      BY <2>2, <2>3, <2>4
  <1>5. /\ seen = IF Named(disk[p], n, e) # {} THEN {p} ELSE {}
        /\ served = hits
        /\ hits = IF FoundIn(disk[p], n, e) # {} THEN {p} ELSE {}
    <2> HIDE DEF room, v
    <2>1. seen = IF Named(disk[p], n, e) # {} THEN {p} ELSE {}
      BY <1>2
    <2>2. FoundIn(disk[p], n, e) # {} => Named(disk[p], n, e) # {}
      BY NamedLive
    <2>3. hits = IF FoundIn(disk[p], n, e) # {} THEN {p} ELSE {}
      BY <2>1, <2>2
    <2>4. \A t \in hits : t = p
      BY <2>3
    <2>5. \A t \in hits : room(t) > 0
      BY <1>4, <2>4
    <2> QED
      BY <2>1, <2>3, <2>5
  <1> HIDE DEF v, seen, hits, served, last, room, before, space, w, child
  <1>6. CASE FoundIn(disk[p], n, e) # {}
    <2>1. served = {p} /\ hits = {p} /\ seen = {p}
      BY <1>5, <1>6, NamedLive
    <2>2. LastOf(v, seen) = p
      BY <1>2, <2>1, LastOfIn
    <2>3. ~(~disk[p].subdir \/ served = {}) /\ LastOf(v, seen) \in hits /\ LastOf(v, seen) \in served
      BY <2>1, <2>2
    <2>4. r = [ret |-> 0, hangs |-> ~Terminates(v, p), disk |-> [disk EXCEPT ![p] = disk[last]],
               fat |-> diskFat, cluster |-> child(last),
               buf |-> LastRead(w(last), child(last), room(last))]
      BY <1>1, <2>3
    <2>5. r.ret = 0 /\ r.hangs = ~Terminates(v, p)
      BY <2>4
    <2> QED
      BY <1>2, <1>6, <2>5
  <1>7. CASE FoundIn(disk[p], n, e) = {}
    <2>1. served = {} /\ (seen = {} <=> Named(disk[p], n, e) = {})
      BY <1>5, <1>7
    <2>2. r = [ret |-> IF ~disk[p].subdir THEN -1 ELSE IF seen = {} THEN 3 ELSE 1,
               hangs |-> disk[p].subdir /\ ~Terminates(v, p),
               disk |-> disk, fat |-> fat_table, cluster |-> 0, buf |-> Blank]
      BY <1>1, <2>1
    <2>3. r.ret = (IF seen = {} THEN 3 ELSE 1) /\ r.hangs = (disk[p].subdir /\ ~Terminates(v, p))
      BY <2>2
    <2> QED
      BY <1>2, <1>7, <2>1, <2>3
  <1> QED
    BY <1>6, <1>7

\* A chain that ends comes to none of its clusters twice.
LEMMA NthFirst ==
    ASSUME NEW v, NEW c \in Clusters, Terminates(v, c)
    PROVE  Nth(v, c, 1) = c
  <1>1. PICK z \in Reach(v, c) : v[z] = FAT32_FAT_END_OF_FILE
    BY DEF Terminates
  <1>2. z \in Clusters /\ Reach(v, z) = {z} /\ Reach(v, c) \in SUBSET Clusters /\ c \in Reach(v, c)
    BY <1>1, ReachBasic, SizeFacts
  <1>3. ASSUME NEW d \in Reach(v, c), Cardinality(Reach(v, d)) = Cardinality(Reach(v, c))
        PROVE  d = c
    <2> SUFFICES ASSUME d # c PROVE FALSE
      OBVIOUS
    <2>1. d \in Clusters /\ Reach(v, d) \subseteq Reach(v, c)
      BY ReachTransitive
    <2>2. Cardinality(Reach(v, c)) \in Nat
      BY ReachBasic, FS_CardinalityType
    <2>3. c \in Reach(v, d)
      BY <1>2, <1>3, <2>2, ReachSize
    <2>4. v[c] \in Clusters /\ Reach(v, c) = {c} \cup Reach(v, v[c])
      <3>1. v[c] \notin Clusters => Reach(v, c) = {c}
        BY ReachBasic
      <3> QED
        BY <3>1, ReachStep
    <2>5. c \in Reach(v, v[c])
      <3>1. d \in Reach(v, v[c])
        BY <2>4
      <3> QED
        BY <2>3, <2>4, <3>1, ReachTransitive
    <2> DEFINE S == {b \in Reach(v, c) : c \in Reach(v, b)}
    <2>6. ASSUME NEW b \in S, v[b] \in Clusters PROVE v[b] \in S
      <3>1. b \in Clusters /\ v[b] \in Reach(v, c)
        BY <1>2, <2>6, ReachClosed DEF Closed
      <3>2. c \in Reach(v, v[b])
        <4>1. CASE b = c
          BY <2>5, <4>1
        <4>2. CASE b # c
          <5>1. Reach(v, b) = {b} \cup Reach(v, v[b])
            BY <2>6, <3>1, ReachStep
          <5> QED
            BY <2>6, <4>2, <5>1
        <4> QED
          BY <4>1, <4>2
      <3> QED
        BY <3>1, <3>2
    <2>7. Closed(v, S) /\ c \in S
      BY <1>2, <2>6 DEF Closed
    <2>8. z \in S
      BY <1>2, <2>7, ReachLeast
    <2>9. z = c
      BY <1>2, <2>8
    <2> QED
      BY <1>1, <2>4, <2>9, SizeFacts
  <1>4. Cardinality(Reach(v, c)) \in Nat
    BY ReachBasic, FS_CardinalityType
  <1>5. Cardinality(Reach(v, c)) - 1 + 1 = Cardinality(Reach(v, c))
    BY <1>4
  <1> DEFINE P(d) == Cardinality(Reach(v, d)) = Cardinality(Reach(v, c)) - 1 + 1
  <1>6. \A d \in Reach(v, c) : P(d) <=> d = c
    BY <1>3, <1>5
  <1>7. Nth(v, c, 1) = CHOOSE d \in Reach(v, c) : P(d)
    BY DEF Nth
  <1> HIDE DEF P
  <1> QED
    BY <1>2, <1>6, <1>7

\* The files of a name in a table, the first of them, and whether a folder has
\* the name.
FilesIn(t, n, e) == {i \in Named(t, n, e) : ~t.slots[i].subdir}

FileIn(t, n, e) == t.slots[Min(FilesIn(t, n, e))]

HasFolder(t, n) == \E i \in LiveSlots(t) : t.slots[i].name = n /\ t.slots[i].subdir

\* What the entry of a file says of its contents.
LEMMA FileContents ==
    ASSUME NEW d, NEW f, Sound(d, f), NEW p \in DirsOf(d, f), NEW i \in LiveSlots(d[p]),
           ~d[p].slots[i].subdir, NEW en, en = d[p].slots[i]
    PROVE  \E x \in Contents :
              /\ EntryIn(d, en).x = x
              /\ \A j \in 1 .. en.filesize : d[Part(f, en, j)].data = <<x, j - 1>>
  <1>1. Holds(d, f, p, en)
    <2>1. <<p, i>> \in Refs(d)
      BY SizeFacts DEF DirsOf, Refs, Tables, LiveSlots
    <2> QED
      BY <2>1 DEF Sound, AllHold, Ref
  <1>2. PICK x \in Contents : \A j \in 1 .. en.filesize : d[Part(f, en, j)].data = <<x, j - 1>>
    BY <1>1 DEF Holds, Stored
  <1>3. 1 \in 1 .. en.filesize
    <2>1. en.cluster \in Path(f, en.cluster) /\ IsFiniteSet(Path(f, en.cluster))
      BY <1>1, ReachBasic DEF Holds, Stored, Path
    <2>2. Cardinality(Path(f, en.cluster)) = en.filesize
      BY <1>1 DEF Holds, Stored
    <2>3. en.filesize \in Nat /\ en.filesize # 0
      BY <2>1, <2>2, FS_CardinalityType, FS_EmptySet
    <2> QED
      BY <2>3
  <1>4. Part(f, en, 1) = en.cluster
    BY <1>1, NthFirst DEF Part, Holds, Stored
  <1>5. d[en.cluster].data = <<x, 1 - 1>>
    BY <1>2, <1>3, <1>4
  <1>6. d[en.cluster].data = <<x, 0>> /\ <<x, 0>> \in Contents \X Nat
    BY <1>5
  <1>7. d[en.cluster].data # NoData /\ d[en.cluster].data[1] = x
    BY <1>6, DataAssumption
  <1>8. EntryIn(d, en).x = x
    BY <1>7 DEF EntryIn, LiveSlots
  <1> QED
    BY <1>2, <1>8

\* FileStore!Read in terms of the table.
LEMMA StoreRead ==
    ASSUME NEW d, NEW f, Sound(d, f), NEW p \in DirsOf(d, f), NEW s, s = StoreIn(d, f),
           NEW n, NEW e, NEW size, NEW r, r = Store!Read(s, p, n, e, size)
    PROVE  LET file == FileIn(d[p], n, e)
           IN  /\ FilesIn(d[p], n, e) = {} =>
                     r.size = 0 /\ r.ret = IF HasFolder(d[p], n) THEN 1 ELSE 3
               /\ FilesIn(d[p], n, e) # {} /\ file.filesize > size => r.size = 0 /\ r.ret = 2
               /\ FilesIn(d[p], n, e) # {} /\ ~(file.filesize > size) =>
                     r = [ret |-> 0, x |-> EntryIn(d, file).x, size |-> file.filesize]
  <1> DEFINE files == {i \in Store!Named(s, p, n, e) : ~Store!IsFolder(Store!At(s, p, i))}
             file == Store!At(s, p, Store!Min(files))
             folder == \E i \in Store!LiveIn(s, p) :
                          Store!IsFolder(Store!At(s, p, i)) /\ Store!At(s, p, i).name = n
             no(ret) == [ret |-> ret, x |-> NoData, size |-> 0]
  <1>1. r = IF files = {} THEN no(IF folder THEN 1 ELSE 3)
            ELSE IF file.size > size THEN no(2)
            ELSE [ret |-> 0, x |-> file.x, size |-> file.size]
    BY DEF Store!Read
  <1>2. /\ \A i \in Slots : Store!At(s, p, i) = EntryIn(d, d[p].slots[i])
        /\ Store!LiveIn(s, p) = LiveSlots(d[p])
        /\ Store!Named(s, p, n, e) = Named(d[p], n, e)
        /\ \A i \in LiveSlots(d[p]) : Store!IsFolder(Store!At(s, p, i)) <=> d[p].slots[i].subdir
    BY StoreDirectory
  <1>3. files = FilesIn(d[p], n, e)
    BY <1>2, NamedLive DEF FilesIn
  <1>4. folder <=> HasFolder(d[p], n)
    <2>1. \A i \in LiveSlots(d[p]) : Store!At(s, p, i).name = d[p].slots[i].name
      BY <1>2 DEF LiveSlots, EntryIn
    <2> QED
      BY <1>2, <2>1 DEF HasFolder
  <1> HIDE DEF files, folder
  <1>5. ASSUME files # {}
        PROVE  file = EntryIn(d, FileIn(d[p], n, e)) /\ file.size = FileIn(d[p], n, e).filesize
    <2>1. FilesIn(d[p], n, e) \in SUBSET Slots /\ FilesIn(d[p], n, e) # {}
      BY <1>3, <1>5 DEF FilesIn, Named
    <2>2. Min(FilesIn(d[p], n, e)) \in FilesIn(d[p], n, e)
      BY <2>1, MinSlot
    <2>3. FileIn(d[p], n, e).undelete /\ Min(FilesIn(d[p], n, e)) \in Slots
      BY <2>2 DEF FilesIn, FileIn, Named
    <2>4. file = EntryIn(d, FileIn(d[p], n, e))
      BY <1>2, <1>3, <2>3, StoreMin DEF FileIn
    <2> QED
      BY <2>3, <2>4 DEF EntryIn
  <1> HIDE DEF file
  <1> QED
    BY <1>1, <1>3, <1>4, <1>5

\* What read answers about a directory.
LEMMA readRet ==
    ASSUME IInv, Good, NEW p \in Parents, disk[p].subdir, diskFat[p] # 0,
           NEW n, NEW e, NEW size \in BufferSizes, read(p, n, e, size)
    PROVE  LET file == FileIn(disk[p], n, e)
           IN  IF FilesIn(disk[p], n, e) = {}
               THEN Answer(IF HasFolder(disk[p], n) THEN 1 ELSE 3, <<>>)
               ELSE IF size < file.filesize THEN Answer(2, <<>>)
               ELSE Answer(0, [i \in 1 .. file.filesize |-> disk[Part(diskFat, file, i)].data])
  <1> DEFINE v == DirView(fat_table)
             tables == Reach(v, p)
             files(t) == {i \in Named(disk[t], n, e) : ~disk[t].slots[i].subdir}
             hits == {t \in tables : files(t) # {}}
             seen == hits \cup {t \in tables : \E i \in LiveSlots(disk[t]) :
                                    disk[t].slots[i].name = n /\ disk[t].slots[i].subdir}
             file(t) == disk[t].slots[Min(files(t))]
             w(t) == FatView(diskFat, disk[t].name)
             before(t) == {u \in hits : u # t /\ t \in Reach(v, u)}
             room(t) == size - Cardinality({u \in hits \X Clusters :
                          u[1] \in before(t) /\ u[2] \in Reach(w(u[1]), file(u[1]).cluster)})
             small == {t \in hits : room(t) < file(t).filesize}
             served == {t \in hits \ small : before(t) \cap small = {}}
             last == LastOf(v, served)
             chain == Reach(w(last), file(last).cluster)
  <1>1. IF \/ \E t \in served : ~Terminates(w(t), file(t).cluster)
           \/ small = {} /\ ~Terminates(v, p)
        THEN Hang
        ELSE IF small # {} THEN Answer(2, <<>>)
        ELSE IF seen = {} THEN Answer(3, <<>>)
        ELSE IF LastOf(v, seen) \notin hits THEN Answer(1, <<>>)
        ELSE Answer(0, [i \in 1 .. Cardinality(chain) |->
                          disk[Nth(w(last), file(last).cluster, i)].data])
    BY Zenon DEF read
  <1>2. tables = {p} /\ Terminates(v, p) /\ p \in Clusters
    BY TableWalk, GoodFit, ParentsOK DEF Good, DirView
  <1>3. before(p) = {}
    BY <1>2
  <1>4. room(p) = size
    <2> DEFINE X == {u \in hits \X Clusters :
                       u[1] \in before(p) /\ u[2] \in Reach(w(u[1]), file(u[1]).cluster)}
    <2> HIDE DEF hits, w, file, before
    <2>1. X = {}
      BY <1>3
    <2>2. Cardinality({}) = 0 /\ size \in Nat \ {0}
      BY FS_EmptySet, SizeAssumption
    <2> HIDE DEF X
    <2>3. size - Cardinality(X) = size
      BY <2>1, <2>2
    <2> QED
      BY <2>3 DEF X
  <1>5. files(p) = FilesIn(disk[p], n, e) /\ file(p) = FileIn(disk[p], n, e)
    BY DEF FilesIn, FileIn
  <1> DEFINE en == FileIn(disk[p], n, e)
             none == FilesIn(disk[p], n, e) = {}
  <1>6. hits = IF none THEN {} ELSE {p}
    <2> HIDE DEF files
    <2> QED
      BY <1>2, <1>5
  <1>7. seen = IF none /\ ~HasFolder(disk[p], n) THEN {} ELSE {p}
    <2> DEFINE folders == {t \in tables : \E i \in LiveSlots(disk[t]) :
                                disk[t].slots[i].name = n /\ disk[t].slots[i].subdir}
    <2>1. folders = IF HasFolder(disk[p], n) THEN {p} ELSE {}
      BY <1>2 DEF HasFolder
    <2>2. seen = hits \cup folders
      OBVIOUS
    <2> HIDE DEF hits, folders, none
    <2> QED
      BY <1>6, <2>1, <2>2
  <1>8. small = IF ~none /\ size < en.filesize THEN {p} ELSE {}
    <2> HIDE DEF hits, room, file, none, en
    <2>1. \A t \in hits : t = p
      BY <1>6
    <2>2. room(p) < file(p).filesize <=> size < en.filesize
      BY <1>4, <1>5 DEF en
    <2> QED
      BY <1>6, <2>1, <2>2
  <1>9. served = IF ~none /\ ~(size < en.filesize) THEN {p} ELSE {}
    <2> HIDE DEF hits, before, small, none, en
    <2> QED
      BY <1>3, <1>6, <1>8
  <1> HIDE DEF v, tables, files, hits, seen, file, before, room, small, served
  <1>10. CASE none
    <2>1. hits = {} /\ small = {} /\ served = {}
      BY <1>6, <1>8, <1>9, <1>10
    <2>2. CASE ~HasFolder(disk[p], n)
      <3>1. seen = {}
        BY <1>7, <1>10, <2>2
      <3> HIDE DEF chain, last, w
      <3>2. Answer(3, <<>>)
        BY <1>1, <1>2, <2>1, <3>1
      <3> QED
        BY <1>10, <2>2, <3>2
    <2>3. CASE HasFolder(disk[p], n)
      <3>1. seen # {}
        BY <1>7, <1>10, <2>3
      <3> HIDE DEF chain, last, w
      <3>2. Answer(1, <<>>)
        BY <1>1, <1>2, <2>1, <3>1
      <3> QED
        BY <1>10, <2>3, <3>2
    <2> QED
      BY <2>2, <2>3
  <1>11. CASE ~none
    <2>1. Min(FilesIn(disk[p], n, e)) \in FilesIn(disk[p], n, e)
      <3>1. FilesIn(disk[p], n, e) \in SUBSET Slots
        BY DEF FilesIn, Named
      <3> QED
        BY <1>11, <3>1, MinSlot
    <2> DEFINE l == Min(FilesIn(disk[p], n, e))
    <2>2. l \in LiveSlots(disk[p]) /\ ~disk[p].slots[l].subdir /\ en = disk[p].slots[l]
      BY <2>1, NamedLive DEF FilesIn, FileIn
    <2> HIDE DEF l, en, none
    <2>3. /\ Terminates(w(p), en.cluster)
          /\ Cardinality(Reach(w(p), en.cluster)) = en.filesize
          /\ \A i : Nth(w(p), en.cluster, i) = Part(diskFat, en, i)
      <3>1. Stored(disk, diskFat, p, en)
        BY <1>2, <2>2, EntryStored, GoodFit
      <3>2. en.cluster \in Clusters /\ Path(diskFat, en.cluster) \subseteq FatIndex
        BY <3>1, SizeFacts DEF Stored, FatIndex
      <3>3. \A d \in Reach(FatView(diskFat, NoName), en.cluster) : w(p)[d] = FatView(diskFat, NoName)[d]
        BY <3>2, SizeFacts DEF FatView, Path
      <3> HIDE DEF w
      <3>4. /\ Reach(w(p), en.cluster) = Path(diskFat, en.cluster)
            /\ Terminates(w(p), en.cluster)
            /\ \A i : Nth(w(p), en.cluster, i) = Part(diskFat, en, i)
        BY <3>1, <3>2, <3>3, ChainSame DEF Path, Part, Stored
      <3>5. Cardinality(Path(diskFat, en.cluster)) = en.filesize
        BY <2>2, <3>1 DEF Stored
      <3> QED
        BY <3>4, <3>5
    <2>4. \A t \in served : t = p
      BY <1>9
    <2>5. ~(\/ \E t \in served : ~Terminates(w(t), file(t).cluster)
            \/ small = {} /\ ~Terminates(v, p))
      <3> HIDE DEF w
      <3> QED
        BY <1>2, <1>5, <2>3, <2>4 DEF en
    <2>6. CASE size < en.filesize
      <3>1. small # {}
        BY <1>8, <1>11, <2>6
      <3> HIDE DEF chain, last, w
      <3>2. Answer(2, <<>>)
        BY <1>1, <2>5, <3>1
      <3> QED
        BY <1>11, <2>6, <3>2 DEF en, none
    <2>7. CASE ~(size < en.filesize)
      <3>1. small = {} /\ served = {p} /\ seen = {p} /\ hits = {p}
        BY <1>6, <1>7, <1>8, <1>9, <1>11, <2>7
      <3>2. last = p /\ LastOf(v, seen) = p
        BY <1>2, <3>1, LastOfIn DEF tables
      <3>3. LastOf(v, seen) \in hits /\ seen # {}
        BY <3>1, <3>2
      <3> DEFINE data == [i \in 1 .. Cardinality(chain) |->
                            disk[Nth(w(last), file(last).cluster, i)].data]
      <3>4. data = [i \in 1 .. en.filesize |-> disk[Part(diskFat, en, i)].data]
        <4> HIDE DEF last, w
        <4> QED
          BY <1>5, <2>3, <3>2 DEF en
      <3>5. Answer(0, data)
        <4> HIDE DEF last, w, chain
        <4> QED
          BY <1>1, <2>5, <3>1, <3>3
      <3> HIDE DEF data
      <3>6. Answer(0, [i \in 1 .. en.filesize |-> disk[Part(diskFat, en, i)].data])
        BY <3>4, <3>5
      <3> QED
        BY <1>11, <2>7, <3>6 DEF en, none
    <2> QED
      BY <2>6, <2>7
  <1> QED
    BY <1>10, <1>11

-----------------------------------------------------------------------------
(***************************************************************************)
(* The calls that change nothing are FileStore's                           *)
(***************************************************************************)
\* What holds when a call is made that runs into no limit but move_dir's.
Fresh == IInv /\ Good /\ disk[ROOT_CLUSTER_NUMBER].subdir /\ limits' \subseteq {"moved"}

\* The directory p, and what it is to FileStore.
Known(p) ==
    /\ p \in DirsOf(disk, diskFat) /\ p \in DOMAIN StoreOf
    /\ disk[p].subdir /\ diskFat[p] # 0 /\ p \in Clusters /\ p \in FatIndex
    /\ StoreOf = StoreIn(disk, diskFat) /\ Sound(disk, diskFat)

LEMMA DirectoryKnown == ASSUME Fresh, NEW p \in Dirs PROVE Known(p)
  <1>1. p \in DirsOf(disk, diskFat) /\ StoreOf = StoreIn(disk, diskFat) /\ Sound(disk, diskFat)
    BY StoreNow DEF Fresh, Good, Dirs, DirsOf
  <1> QED
    BY <1>1, SizeFacts, StoreDirectory DEF Known, DirsOf

LEMMA ParentKnown ==
    ASSUME Fresh, NEW p, NEW b, Breach(b), Stale(p) \subseteq b
    PROVE  Known(p)
  <1>1. p \in Dirs
    BY DEF Fresh, Breach, Stale
  <1> QED
    BY <1>1, DirectoryKnown

LEMMA SameStore == ASSUME Good, Same PROVE StoreOf' = StoreOf
  BY StoreNow DEF Good, Same

LEMMA ReadDirectoryIsStores ==
    ASSUME Fresh, NEW p \in Parents, NEW n \in Names, NEW e \in Exts, NEW size \in BufferSizes, Known(p)
    PROVE  /\ ~ReadDirectory(p, n, e, size).hangs
           /\ ReadDirectory(p, n, e, size).ret = Store!ReadDirectory(StoreOf, p, n, e).ret
  <1>1. /\ p \in DirsOf(disk, diskFat) /\ StoreOf = StoreIn(disk, diskFat) /\ Sound(disk, diskFat)
        /\ IInv /\ Good /\ disk[p].subdir /\ diskFat[p] # 0
    BY DEF Fresh, Known
  <1> DEFINE r == ReadDirectory(p, n, e, size)
             a == Store!ReadDirectory(StoreOf, p, n, e)
  <1>2. /\ ~r.hangs
        /\ r.ret = IF FoundIn(disk[p], n, e) # {} THEN 0
                   ELSE IF Named(disk[p], n, e) = {} THEN 3 ELSE 1
    BY <1>1, ReadDirectoryRet
  <1>3. a.ret = IF FoundIn(disk[p], n, e) # {} THEN 0
                ELSE IF Named(disk[p], n, e) = {} THEN 3 ELSE 1
    <2> HIDE DEF a
    <2>1. a = Store!ReadDirectory(StoreOf, p, n, e)
      BY DEF a
    <2> QED
      BY ONLY <1>1, <2>1, StoreReadDirectory
  <1> QED
    BY <1>2, <1>3

LEMMA read_directoryStore ==
    ASSUME Fresh, NEW p \in Parents, NEW n \in Names, NEW e \in Exts, NEW size \in BufferSizes,
           read_directory(p, n, e, size)
    PROVE  Store!Next
  <1> DEFINE r == ReadDirectory(p, n, e, size)
  <1>1. Known(p)
    BY ParentKnown DEF read_directory
  <1>2. ~r.hangs /\ r.ret = Store!ReadDirectory(StoreOf, p, n, e).ret
    BY <1>1, ReadDirectoryIsStores
  <1>3. reply' = [ret |-> r.ret, data |-> <<>>]
    BY <1>2 DEF read_directory, Answer
  <1>4. StoreOf' = StoreOf
    BY read_directorySame, GoodFit, SameStore DEF Fresh
  <1> HIDE DEF r
  <1>5. Store!read_directory(p, n, e)
    BY <1>2, <1>3, <1>4 DEF Store!read_directory, Store!Done
  <1> QED
    BY <1>1, <1>5 DEF Store!Next, Known

LEMMA NotFoundStore ==
    ASSUME Fresh, NEW p \in Parents, NEW n \in Names, NEW e \in Exts, NEW size \in BufferSizes,
           NotFound(p, ReadDirectory(p, n, e, size))
    PROVE  Store!Next
  <1> DEFINE r == ReadDirectory(p, n, e, size)
  <1>1. Known(p)
    BY ParentKnown DEF NotFound
  <1>2. ~r.hangs /\ r.ret = Store!ReadDirectory(StoreOf, p, n, e).ret
    BY <1>1, ReadDirectoryIsStores
  <1>3. reply' = [ret |-> r.ret, data |-> <<>>]
    BY <1>2 DEF NotFound, Answer
  <1>4. StoreOf' = StoreOf
    BY NotFoundSame, GoodFit, SameStore DEF Fresh
  <1> HIDE DEF r
  <1>5. Store!read_directory(p, n, e)
    BY <1>2, <1>3, <1>4 DEF Store!read_directory, Store!Done
  <1> QED
    BY <1>1, <1>5 DEF Store!Next, Known

LEMMA readStore ==
    ASSUME Fresh, NEW p \in Parents, NEW n \in Names, NEW e \in Exts, NEW size \in BufferSizes,
           read(p, n, e, size)
    PROVE  Store!Next
  <1> DEFINE t == disk[p]
             file == FileIn(t, n, e)
             r == Store!Read(StoreOf, p, n, e, size)
  <1>1. Known(p)
    BY ParentKnown DEF read
  <1>2. IF FilesIn(t, n, e) = {} THEN Answer(IF HasFolder(t, n) THEN 1 ELSE 3, <<>>)
        ELSE IF size < file.filesize THEN Answer(2, <<>>)
        ELSE Answer(0, [i \in 1 .. file.filesize |-> disk[Part(diskFat, file, i)].data])
    BY <1>1, readRet DEF Fresh, Known
  <1>3. /\ FilesIn(t, n, e) = {} => r.size = 0 /\ r.ret = IF HasFolder(t, n) THEN 1 ELSE 3
        /\ FilesIn(t, n, e) # {} /\ file.filesize > size => r.size = 0 /\ r.ret = 2
        /\ FilesIn(t, n, e) # {} /\ ~(file.filesize > size) =>
              r = [ret |-> 0, x |-> EntryIn(disk, file).x, size |-> file.filesize]
    <2>1. p \in DirsOf(disk, diskFat) /\ StoreOf = StoreIn(disk, diskFat) /\ Sound(disk, diskFat)
      BY <1>1 DEF Known
    <2> HIDE DEF r, file
    <2>2. r = Store!Read(StoreOf, p, n, e, size)
      BY DEF r
    <2> QED
      BY ONLY <2>1, <2>2, StoreRead DEF file
  <1> HIDE DEF r
  <1>4. reply' = [ret |-> r.ret, data |-> [i \in 1 .. r.size |-> <<r.x, i - 1>>]]
    <2>1. ASSUME r.size = 0 PROVE [i \in 1 .. r.size |-> <<r.x, i - 1>>] = <<>>
      BY <2>1
    <2>2. CASE FilesIn(t, n, e) = {}
      <3>1. reply' = [ret |-> r.ret, data |-> <<>>]
        BY <1>2, <1>3, <2>2 DEF Answer
      <3> QED
        BY <1>3, <2>1, <2>2, <3>1
    <2>3. CASE FilesIn(t, n, e) # {} /\ file.filesize > size
      <3>1. reply' = [ret |-> r.ret, data |-> <<>>]
        BY <1>2, <1>3, <2>3 DEF Answer
      <3> QED
        BY <1>3, <2>1, <2>3, <3>1
    <2>4. CASE FilesIn(t, n, e) # {} /\ ~(file.filesize > size)
      <3> DEFINE l == Min(FilesIn(t, n, e))
      <3>1. l \in LiveSlots(t) /\ ~t.slots[l].subdir /\ file = t.slots[l]
        <4>1. FilesIn(t, n, e) \in SUBSET Slots
          BY DEF FilesIn, Named
        <4>2. l \in FilesIn(t, n, e)
          BY <2>4, <4>1, MinSlot
        <4> QED
          BY <4>2, NamedLive DEF FilesIn, FileIn
      <3> HIDE DEF l
      <3>2. PICK x \in Contents :
               /\ EntryIn(disk, file).x = x
               /\ \A j \in 1 .. file.filesize : disk[Part(diskFat, file, j)].data = <<x, j - 1>>
        <4>1. p \in DirsOf(disk, diskFat) /\ Sound(disk, diskFat)
          BY <1>1 DEF Known
        <4>2. l \in LiveSlots(disk[p]) /\ ~disk[p].slots[l].subdir /\ file = disk[p].slots[l]
          BY <3>1
        <4> HIDE DEF file, t
        <4> QED
          BY ONLY <4>1, <4>2, FileContents
      <3> HIDE DEF file
      <3>3. r.ret = 0 /\ r.x = x /\ r.size = file.filesize
        BY <1>3, <2>4, <3>2
      <3>4. reply' = [ret |-> 0, data |-> [i \in 1 .. file.filesize |-> disk[Part(diskFat, file, i)].data]]
        BY <1>2, <2>4 DEF Answer
      <3>5. [i \in 1 .. file.filesize |-> disk[Part(diskFat, file, i)].data]
               = [i \in 1 .. file.filesize |-> <<x, i - 1>>]
        BY <3>2
      <3> QED
        BY <3>3, <3>4, <3>5
    <2> QED
      BY <2>2, <2>3, <2>4
  <1>5. StoreOf' = StoreOf
    BY readSame, GoodFit, SameStore DEF Fresh
  <1>6. Store!read(p, n, e, size)
    BY <1>4, <1>5 DEF Store!read, r
  <1> QED
    BY <1>1, <1>6 DEF Store!Next, Known

LEMMA RestStore ==
    ASSUME Fresh, read_root_directory \/ initialize_filesystem_fat32
    PROVE  Store!Next
  <1>1. Same
    BY BootIntact DEF Fresh, Good, Same, read_root_directory, initialize_filesystem_fat32
  <1>2. reply' = [ret |-> 0, data |-> <<>>]
    <2>1. CASE read_root_directory
      <3>1. ROOT_CLUSTER_NUMBER \in Parents /\ diskFat[ROOT_CLUSTER_NUMBER] # 0
        BY SizeFacts DEF Fresh, IInv, FatOK, Parents, ROOT_CLUSTER_NUMBER
      <3>2. \A name : Terminates(FatView(fat_table, name), ROOT_CLUSTER_NUMBER)
        BY <3>1, TableWalk, GoodFit DEF Fresh, Good
      <3> QED
        BY <2>1, <3>2 DEF read_root_directory, Answer
    <2>2. CASE initialize_filesystem_fat32
      BY <2>2 DEF initialize_filesystem_fat32, NoReply
    <2> QED
      BY <2>1, <2>2
  <1>3. StoreOf' = StoreOf
    BY <1>1, SameStore DEF Fresh
  <1> QED
    BY <1>2, <1>3 DEF Store!Next, Store!no_change, Store!Done

-----------------------------------------------------------------------------
(***************************************************************************)
(* delete is FileStore's                                                   *)
(***************************************************************************)
\* An entry stands for the same as long as no file's data change.
LEMMA EntrySame ==
    ASSUME NEW d, NEW f, Sound(d, f), NEW d2, NEW c \in Clusters, d[c].subdir, NEW i \in Slots,
           \A b \in FatIndex : f[b] # 0 /\ ~d[b].subdir => d2[b].data = d[b].data
    PROVE  EntryIn(d2, d[c].slots[i]) = EntryIn(d, d[c].slots[i])
  <1> DEFINE en == d[c].slots[i]
  <1>1. CASE en.undelete /\ ~en.subdir
    <2>1. <<c, i>> \in Refs(d)
      BY <1>1 DEF Refs, Tables
    <2>2. Holds(d, f, c, en)
      BY <2>1 DEF Sound, AllHold, Ref
    <2>3. en.cluster \in Path(f, en.cluster)
      BY <2>2, ReachBasic DEF Holds, Stored, Path
    <2>4. en.cluster \in FatIndex /\ f[en.cluster] # 0 /\ ~d[en.cluster].subdir
      BY <1>1, <2>2, <2>3, SizeFacts DEF Holds, Stored, FatIndex
    <2>5. d2[en.cluster].data = d[en.cluster].data
      BY <2>4
    <2> HIDE DEF en
    <2>6. EntryIn(d2, en) = EntryIn(d, en)
      BY <2>5 DEF EntryIn
    <2> QED
      BY <2>6 DEF en
  <1>2. CASE ~(en.undelete /\ ~en.subdir)
    <2> HIDE DEF en
    <2>1. EntryIn(d2, en) = EntryIn(d, en)
      BY <1>2 DEF EntryIn
    <2> QED
      BY <2>1 DEF en
  <1> QED
    BY <1>1, <1>2

\* The directories after one of their slots, and after one of their flags is reset.
LEMMA PutFields ==
    ASSUME NEW s, s = [c \in DOMAIN s |-> s[c]], NEW p \in DOMAIN s, NEW flag, NEW slots,
           s[p] = [notEmpty |-> flag, slots |-> slots], NEW i, NEW t
    PROVE  Store!Put(s, p, i, t) =
             [c \in DOMAIN s |->
                IF c = p THEN [notEmpty |-> flag, slots |-> [slots EXCEPT ![i] = t]] ELSE s[c]]
  <1>1. [s[p] EXCEPT !.slots[i] = t] = [notEmpty |-> flag, slots |-> [slots EXCEPT ![i] = t]]
    OBVIOUS
  <1>2. Store!Put(s, p, i, t) = [s EXCEPT ![p] = [s[p] EXCEPT !.slots[i] = t]]
    BY DEF Store!Put
  <1> QED
    BY <1>1, <1>2

Unmarked(s, p) == [s EXCEPT ![p].notEmpty = FALSE]

LEMMA FlagFields ==
    ASSUME NEW s, s = [c \in DOMAIN s |-> s[c]], NEW p \in DOMAIN s, NEW flag, NEW slots,
           s[p] = [notEmpty |-> flag, slots |-> slots]
    PROVE  Unmarked(s, p) =
             [c \in DOMAIN s |-> IF c = p THEN [notEmpty |-> FALSE, slots |-> slots] ELSE s[c]]
  <1> DEFINE table == [notEmpty |-> FALSE, slots |-> slots]
  <1>1. [s[p] EXCEPT !.notEmpty = FALSE] = table
    <2>1. ASSUME NEW new PROVE [s[p] EXCEPT !.notEmpty = new] = [notEmpty |-> new, slots |-> slots]
      OBVIOUS
    <2> QED
      BY <2>1, Zenon
  <1>2. Unmarked(s, p) = [s EXCEPT ![p] = [s[p] EXCEPT !.notEmpty = FALSE]]
    BY DEF Unmarked
  <1>3. Unmarked(s, p) = [s EXCEPT ![p] = table]
    BY <1>1, <1>2
  <1> HIDE DEF table
  <1>4. Unmarked(s, p) = [c \in DOMAIN s |-> IF c = p THEN table ELSE s[c]]
    BY <1>3
  <1> QED
    BY <1>4 DEF table

LEMMA FreeEntry == ASSUME NEW d PROVE EntryIn(d, NullEntry) = Store!Free
  BY DEF EntryIn, NullEntry, Store!Free

\* FileStore's delete, where there is something to delete.
LEMMA RemovedStore ==
    ASSUME NEW d \in Disk, NEW f, Sound(d, f), NEW p \in DirsOf(d, f), NEW s, s = StoreIn(d, f),
           NEW n, NEW e, Named(d[p], n, e) # {}, NEW i, i = Min(Named(d[p], n, e)),
           NEW d2, NEW f2, Removed(d, f, d2, f2, p, i),
           NEW r, r = Store!Delete(s, p, n, e)
    PROVE  r.ret = 0 /\ r.store = StoreIn(d2, f2)
  <1> DEFINE en == d[p].slots[i]
             g == Store!At(s, p, i).dir
             cleared == Store!Put(s, p, i, Store!Free)
             unmarked == IF Store!NoneLeft(cleared, p) THEN [cleared EXCEPT ![p].notEmpty = FALSE]
                         ELSE cleared
             bare == [d[p] EXCEPT !.slots[i] = NullEntry]
             left == [bare EXCEPT !.notEmpty = IF LiveSlots(bare) = {} THEN FALSE ELSE @]
  <1>1. /\ p \in Clusters /\ p \in FatIndex /\ d[p].subdir /\ f[p] # 0 /\ d[p] \in Cluster
        /\ p \in DOMAIN s /\ DOMAIN s = DirsOf(d, f)
    BY SizeFacts, StoreDirectory DEF DirsOf, Disk
  <1>2. i \in Slots /\ i \in Named(d[p], n, e) /\ en.undelete
    <2>1. Named(d[p], n, e) \in SUBSET Slots
      BY DEF Named
    <2>2. i \in Named(d[p], n, e)
      BY <2>1, MinSlot
    <2> QED
      BY <2>1, <2>2 DEF Named
  <1>3. Holds(d, f, p, en)
    <2>1. <<p, i>> \in Refs(d)
      BY <1>1, <1>2 DEF Refs, Tables
    <2> QED
      BY <2>1 DEF Sound, AllHold, Ref
  <1>4. g = IF en.subdir THEN en.cluster ELSE 0
    <2>1. Store!At(s, p, i) = EntryIn(d, en)
      BY <1>2, StoreDirectory
    <2> HIDE DEF en
    <2> QED
      BY <1>2, <2>1 DEF EntryIn
  <1>5. /\ f2 = FreeChain(f, Path(f, en.cluster))
        /\ d2 = [d EXCEPT ![p] = left]
        /\ en.subdir => ~d[en.cluster].notEmpty
    BY DEF Removed
  <1> HIDE DEF en, g
  <1>6. ~(g # 0 /\ s[g].notEmpty)
    <2> SUFFICES ASSUME g # 0 PROVE ~s[g].notEmpty
      OBVIOUS
    <2>1. en.subdir /\ g = en.cluster
      BY <1>4
    <2>2. g \in DirsOf(d, f)
      BY <1>3, <2>1, FolderPath DEF DirsOf, Holds
    <2>3. s[g].notEmpty = d[g].notEmpty
      BY <2>2, StoreDirectory
    <2> QED
      BY <1>5, <2>1, <2>3
  <1>7. r = [ret |-> 0, store |-> [q \in DOMAIN s \ {g} |-> unmarked[q]]]
    <2> DEFINE out == [ret |-> 0, store |-> [q \in DOMAIN s \ {g} |-> unmarked[q]]]
    <2>1. i = Store!Min(Store!Named(s, p, n, e)) /\ Store!Named(s, p, n, e) # {}
      BY StoreDirectory, StoreMin
    <2>2. r = IF Store!Named(s, p, n, e) = {} THEN [ret |-> 1, store |-> s]
              ELSE IF g # 0 /\ s[g].notEmpty THEN [ret |-> 2, store |-> s] ELSE out
      BY <2>1 DEF Store!Delete, g
    <2> HIDE DEF out
    <2>3. r = out
      BY <1>6, <2>1, <2>2
    <2> QED
      BY <2>3 DEF out
  <1>8. DirsOf(d2, f2) = DOMAIN s \ {g}
    <2>1. \A c \in FatIndex : d2[c].subdir = d[c].subdir
      <3>1. left.subdir = d[p].subdir
        BY <1>1 DEF Cluster
      <3> HIDE DEF left
      <3> QED
        BY <1>1, <1>5, <3>1, SizeFacts DEF Disk
    <2>2. \A c \in FatIndex : f2[c] = IF c \in Path(f, en.cluster) THEN 0 ELSE f[c]
      BY <1>5 DEF FreeChain
    <2>3. CASE en.subdir
      <3>1. Path(f, en.cluster) = {en.cluster} /\ g = en.cluster
        BY <1>3, <1>4, <2>3, FolderPath DEF Holds
      <3> QED
        BY <1>1, <2>1, <2>2, <3>1 DEF DirsOf
    <2>4. CASE ~en.subdir
      <3>1. g = 0 /\ d[0] = Blank
        BY <1>4, <2>4 DEF Sound
      <3>2. \A c \in Path(f, en.cluster) : ~d[c].subdir
        BY <1>3, <2>4 DEF Holds, Stored
      <3>3. 0 \notin DOMAIN s
        BY <1>1, <3>1 DEF DirsOf, Blank
      <3> QED
        BY <1>1, <2>1, <2>2, <3>1, <3>2, <3>3 DEF DirsOf
    <2> QED
      BY <2>3, <2>4
  <1>9. \A b \in Clusters : d2[b].data = d[b].data
    <2>1. left.data = d[p].data
      BY <1>1 DEF Cluster
    <2> HIDE DEF left
    <2> QED
      BY <1>1, <1>5, <2>1 DEF Disk
  <1>10. ASSUME NEW c \in DirsOf(d, f), NEW j \in Slots
         PROVE  EntryIn(d2, d[c].slots[j]) = EntryIn(d, d[c].slots[j])
    BY <1>9, EntrySame, SizeFacts DEF DirsOf
  <1>11. /\ cleared[p].notEmpty = d[p].notEmpty
         /\ cleared[p].slots = [j \in Slots |-> IF j = i THEN Store!Free ELSE EntryIn(d, d[p].slots[j])]
         /\ unmarked = [c \in DOMAIN s |->
               IF c # p THEN s[c]
               ELSE [notEmpty |-> IF Store!NoneLeft(cleared, p) THEN FALSE ELSE d[p].notEmpty,
                     slots |-> cleared[p].slots]]
    <2> DEFINE slots == [j \in Slots |-> EntryIn(d, d[p].slots[j])]
               put == [slots EXCEPT ![i] = Store!Free]
    <2>1. s[p] = [notEmpty |-> d[p].notEmpty, slots |-> slots]
      BY DEF StoreIn, DirIn
    <2>2. s = [c \in DOMAIN s |-> s[c]]
      BY DEF StoreIn
    <2>3. put = [j \in Slots |-> IF j = i THEN Store!Free ELSE EntryIn(d, d[p].slots[j])]
      BY <1>2
    <2> HIDE DEF slots
    <2>4. cleared = [c \in DOMAIN s |-> IF c = p THEN [notEmpty |-> d[p].notEmpty, slots |-> put] ELSE s[c]]
      BY <1>1, <2>1, <2>2, PutFields
    <2> HIDE DEF cleared, put
    <2>5. cleared[p] = [notEmpty |-> d[p].notEmpty, slots |-> put]
      BY <1>1, <2>4
    <2>6. Unmarked(cleared, p)
             = [c \in DOMAIN s |-> IF c = p THEN [notEmpty |-> FALSE, slots |-> put] ELSE s[c]]
      <3>1. DOMAIN cleared = DOMAIN s /\ \A c \in DOMAIN s : c # p => cleared[c] = s[c]
        BY <2>4
      <3>2. cleared = [c \in DOMAIN cleared |-> cleared[c]]
        BY <2>4
      <3>3. Unmarked(cleared, p)
               = [c \in DOMAIN cleared |-> IF c = p THEN [notEmpty |-> FALSE, slots |-> put] ELSE cleared[c]]
        <4>1. p \in DOMAIN cleared
          BY <1>1, <3>1
        <4> QED
          BY <2>5, <3>2, <4>1, FlagFields
      <3> QED
        BY <3>1, <3>3
    <2>7. cleared[p].notEmpty = d[p].notEmpty /\ cleared[p].slots = put
      BY <2>5
    <2>8. CASE Store!NoneLeft(cleared, p)
      <3>1. unmarked = Unmarked(cleared, p)
        BY <2>8 DEF Unmarked
      <3> HIDE DEF unmarked
      <3> QED
        BY <2>3, <2>6, <2>7, <2>8, <3>1
    <2>9. CASE ~Store!NoneLeft(cleared, p)
      BY <2>3, <2>4, <2>7, <2>9
    <2> QED
      BY <2>8, <2>9
  <1> HIDE DEF cleared
  <1>12. Store!NoneLeft(cleared, p) <=> LiveSlots(bare) = {}
    <2>1. \A j \in Slots : cleared[p].slots[j].live <=> bare.slots[j].undelete
      <3>1. bare.slots = [d[p].slots EXCEPT ![i] = NullEntry] /\ d[p].slots \in [Slots -> Entry]
        BY <1>1 DEF Cluster
      <3>2. cleared[p].slots[i] = Store!Free /\ ~Store!Free.live /\ bare.slots[i] = NullEntry /\ ~NullEntry.undelete
        BY <1>2, <1>11, <3>1 DEF Store!Free, NullEntry
      <3>3. ASSUME NEW j \in Slots, j # i
            PROVE  cleared[p].slots[j].live = d[p].slots[j].undelete /\ bare.slots[j] = d[p].slots[j]
        <4>1. cleared[p].slots[j] = EntryIn(d, d[p].slots[j])
          BY <1>11, <3>3
        <4> HIDE DEF cleared, bare
        <4> QED
          BY <3>1, <3>3, <4>1 DEF EntryIn
      <3> HIDE DEF cleared, bare
      <3> QED
        BY <3>2, <3>3
    <2> HIDE DEF cleared, bare
    <2> QED
      BY <2>1 DEF Store!NoneLeft, Store!LiveIn, Store!At, LiveSlots
  <1>13. unmarked[p] = DirIn(d2, p)
    <2>1. d2[p] = left
      BY <1>1, <1>5 DEF Disk
    <2>2. left.notEmpty = IF LiveSlots(bare) = {} THEN FALSE ELSE d[p].notEmpty
      BY <1>1 DEF Cluster
    <2>3. left.slots = [d[p].slots EXCEPT ![i] = NullEntry] /\ d[p].slots \in [Slots -> Entry]
      BY <1>1 DEF Cluster
    <2>4. unmarked[p] = [notEmpty |-> left.notEmpty, slots |-> cleared[p].slots]
      <3> HIDE DEF bare, left, unmarked
      <3> QED
        BY <1>1, <1>11, <1>12, <2>2
    <2> HIDE DEF left, bare, unmarked, cleared
    <2>5. ASSUME NEW j \in Slots PROVE cleared[p].slots[j] = EntryIn(d2, left.slots[j])
      <3>1. CASE j = i
        BY <1>2, <1>11, <2>3, <3>1, FreeEntry
      <3>2. CASE j # i
        <4>1. left.slots[j] = d[p].slots[j]
          BY <2>3, <3>2
        <4>2. cleared[p].slots[j] = EntryIn(d, d[p].slots[j])
          BY <1>11, <3>2
        <4> QED
          BY <1>10, <4>1, <4>2
      <3> QED
        BY <3>1, <3>2
    <2>6. cleared[p].slots = [j \in Slots |-> EntryIn(d2, left.slots[j])]
      BY <1>11, <2>5
    <2> QED
      BY <2>1, <2>4, <2>6 DEF DirIn
  <1>14. ASSUME NEW c \in DOMAIN s, c # p PROVE unmarked[c] = DirIn(d2, c)
    <2>1. unmarked[c] = s[c]
      <3> HIDE DEF unmarked
      <3> QED
        BY <1>11, <1>14
    <2>2. s[c] = DirIn(d, c)
      BY <1>1 DEF StoreIn
    <2>3. d2[c] = d[c]
      BY <1>1, <1>5, <1>14, SizeFacts DEF Disk, DirsOf
    <2>4. \A j \in Slots : EntryIn(d2, d[c].slots[j]) = EntryIn(d, d[c].slots[j])
      BY <1>1, <1>10
    <2> QED
      BY <2>1, <2>2, <2>3, <2>4 DEF DirIn
  <1> HIDE DEF unmarked
  <1>15. [q \in DOMAIN s \ {g} |-> unmarked[q]] = StoreIn(d2, f2)
    BY <1>8, <1>13, <1>14 DEF StoreIn
  <1> QED
    BY <1>7, <1>15
\* What delete does to a directory, and what it answers.
LEMMA deleteRet ==
    ASSUME Fresh, NEW p \in Parents, Known(p), NEW n, NEW e, delete(p, n, e),
           NEW m, m = Named(disk[p], n, e), NEW j, j = Min(m)
    PROVE  /\ m = {} => Same /\ Answer(1, <<>>)
           /\ m # {} /\ InUse(disk[p].slots[j]) => Same /\ Answer(2, <<>>)
           /\ m # {} /\ ~InUse(disk[p].slots[j]) =>
                /\ Answer(0, <<>>)
                /\ fat_table' = diskFat'
                /\ Removed(disk, diskFat, disk', diskFat', p, j)
  <1> DEFINE v == DirView(diskFat)
             hits == {t \in Reach(v, p) : Named(disk[t], n, e) # {}}
             t == FirstOf(v, hits)
             i == Min(Named(disk[t], n, e))
             entry == disk[t].slots[i]
             w == FatView(diskFat, disk[t].name)
             chain == Reach(w, entry.cluster)
             cleared == ClearSlot(disk[t], i, chain)
             fat == FreeChain(diskFat, chain)
             ret == IF ~disk[p].subdir THEN -1
                    ELSE IF hits = {} THEN 1
                    ELSE IF InUse(entry) THEN 2 ELSE 0
             hangs == \/ ret = 1 /\ ~Terminates(v, p)
                      \/ ret = 0 /\ (~Terminates(w, entry.cluster) \/ SearchHangs(p, cleared, fat))
             c == disk[p].slots[j].cluster
             bare == [disk[p] EXCEPT !.slots[j] = NullEntry]
  <1>1. /\ IF ret = 0 /\ ~hangs
           THEN /\ disk' = [disk EXCEPT ![p] = TableAfterDelete(p, cleared, fat)]
                /\ StoreFat(fat)
           ELSE /\ fat_table' = diskFat
                /\ UNCHANGED <<disk, diskFat>>
        /\ IF hangs THEN Hang ELSE Answer(ret, <<>>)
    BY DEF delete
  <1>2. /\ IInv /\ Good /\ disk[p].subdir /\ diskFat[p] # 0 /\ p \in Clusters
        /\ diskFat[p] = FAT32_FAT_END_OF_FILE
        /\ Reach(v, p) = {p} /\ Terminates(v, p)
    BY TableWalk, GoodFit DEF Fresh, Known, DirView
  <1>3. hits = IF m = {} THEN {} ELSE {p}
    BY <1>2
  <1>4. ASSUME m # {}
        PROVE  t = p /\ i = j /\ entry = disk[p].slots[j] /\ j \in LiveSlots(disk[p])
    <2>1. hits \in SUBSET Reach(v, p) /\ hits = {p}
      BY <1>3, <1>4
    <2> HIDE DEF hits, v
    <2>2. t \in hits
      BY <1>2, <2>1, FirstOfIn
    <2>3. t = p
      BY <2>1, <2>2
    <2>4. j \in m
      BY <1>4, MinSlot DEF Named
    <2> HIDE DEF t
    <2> QED
      BY <2>3, <2>4, NamedLive
  <1>5. ASSUME m # {}
        PROVE  /\ chain = Path(diskFat, c) /\ Terminates(w, entry.cluster)
               /\ CLUSTER_MAP_SIZE \notin chain
               /\ fat = FreeChain(diskFat, chain)
               /\ FatOK(fat) /\ fat[p] = FAT32_FAT_END_OF_FILE
    <2> HIDE DEF t, i
    <2> QED
      BY <1>2, <1>4, <1>5, DeletedChain, GoodFit
  <1>6. ASSUME m # {} PROVE ~SearchHangs(p, cleared, fat)
    <2> HIDE DEF fat, cleared
    <2>1. Terminates(DirView(fat), p)
      BY <1>2, <1>5, <1>6, Walk, SizeFacts DEF DirView
    <2> QED
      BY <2>1 DEF SearchHangs
  <1> HIDE DEF hits, t, i, entry, w, chain, cleared, fat, v
  <1>7. CASE m = {}
    <2>1. ret = 1 /\ ~hangs
      BY <1>2, <1>3, <1>7
    <2> HIDE DEF ret, hangs
    <2> QED
      BY <1>1, <1>7, <2>1 DEF Same
  <1>8. CASE m # {} /\ InUse(disk[p].slots[j])
    <2>1. ret = 2 /\ ~hangs
      BY <1>2, <1>3, <1>4, <1>8
    <2> HIDE DEF ret, hangs
    <2> QED
      BY <1>1, <1>8, <2>1 DEF Same
  <1>9. CASE m # {} /\ ~InUse(disk[p].slots[j])
    <2>1. ret = 0 /\ ~hangs
      BY <1>2, <1>3, <1>4, <1>5, <1>6, <1>9
    <2> HIDE DEF ret, hangs
    <2>2. disk' = [disk EXCEPT ![p] = TableAfterDelete(p, cleared, fat)] /\ StoreFat(fat) /\ Answer(0, <<>>)
      BY <1>1, <2>1
    <2>3. cleared = bare /\ disk[p] \in Cluster
      <3>1. disk[p] \in Cluster
        BY <1>2 DEF IInv, DiskOK
      <3>2. cleared = [disk[p] EXCEPT !.slots[j] = NullEntry, !.name = disk[p].name]
        BY <1>4, <1>5, <1>9 DEF ClearSlot, cleared
      <3> QED
        BY <3>1, <3>2 DEF Cluster
    <2>4. TableAfterDelete(p, cleared, fat)
             = [cleared EXCEPT !.notEmpty = IF LiveSlots(cleared) = {} THEN FALSE ELSE @]
      BY <1>5, <1>9 DEF TableAfterDelete
    <2>5. InTable(disk, p, j)
      BY <1>2, <1>4, <1>9 DEF InTable, Tables
    <2>6. disk[p].slots[j].subdir => ~disk[c].notEmpty
      BY <1>9 DEF InUse
    <2>7. diskFat' = FreeChain(diskFat, Path(diskFat, c)) /\ fat_table' = diskFat'
      BY <1>5, <1>9, <2>2 DEF StoreFat
    <2>8. disk' = [disk EXCEPT ![p] = [bare EXCEPT
                     !.notEmpty = IF LiveSlots(bare) = {} THEN FALSE ELSE @]]
      BY <2>2, <2>3, <2>4
    <2> QED
      BY <1>9, <2>2, <2>5, <2>6, <2>7, <2>8 DEF Removed
  <1> QED
    BY <1>7, <1>8, <1>9

LEMMA deleteStore ==
    ASSUME Fresh, NEW p \in Parents, NEW n \in Names, NEW e \in Exts, delete(p, n, e)
    PROVE  Store!Next
  <1> DEFINE m == Named(disk[p], n, e)
             j == Min(m)
             en == disk[p].slots[j]
             r == Store!Delete(StoreOf, p, n, e)
  <1>1. Known(p)
    BY ParentKnown DEF delete
  <1>2. /\ p \in DirsOf(disk, diskFat) /\ StoreOf = StoreIn(disk, diskFat) /\ Sound(disk, diskFat)
        /\ disk \in Disk /\ Good
    BY <1>1 DEF Known, Fresh, IInv, DiskOK, Disk
  <1>3. /\ m = {} => Same /\ Answer(1, <<>>)
        /\ m # {} /\ InUse(en) => Same /\ Answer(2, <<>>)
        /\ m # {} /\ ~InUse(en) =>
             /\ Answer(0, <<>>)
             /\ fat_table' = diskFat'
             /\ Removed(disk, diskFat, disk', diskFat', p, j)
    BY <1>1, deleteRet
  <1>4. Store!Named(StoreOf, p, n, e) = m
    BY <1>2, StoreDirectory
  <1> HIDE DEF en
  <1>5. reply' = [ret |-> r.ret, data |-> <<>>] /\ StoreOf' = r.store
    <2>1. CASE m = {}
      <3>1. r = [ret |-> 1, store |-> StoreOf]
        BY <1>4, <2>1 DEF Store!Delete
      <3> HIDE DEF r, m
      <3> QED
        BY <1>2, <1>3, <2>1, <3>1, SameStore DEF Answer
    <2>2. CASE m # {} /\ InUse(en)
      <3> DEFINE g == Store!At(StoreOf, p, Store!Min(m)).dir
      <3>1. j \in Slots /\ en.undelete /\ <<p, j>> \in Refs(disk)
        <4>1. j \in m
          BY <2>2, MinSlot DEF Named
        <4> QED
          BY <1>1, <4>1 DEF Named, en, Known, Refs, Tables
      <3>2. Holds(disk, diskFat, p, en)
        BY <1>2, <3>1 DEF Sound, AllHold, Ref, en
      <3> HIDE DEF j
      <3>3. Store!At(StoreOf, p, j) = EntryIn(disk, en)
        BY <1>2, <3>1, StoreDirectory DEF en
      <3>4. en.subdir /\ disk[en.cluster].notEmpty
        BY <2>2 DEF InUse
      <3>5. g = en.cluster
        BY <3>1, <3>3, <3>4, StoreMin DEF EntryIn, j
      <3> HIDE DEF g
      <3>6. g \in DirsOf(disk, diskFat) /\ g # 0
        BY <3>2, <3>4, <3>5, FolderPath, SizeFacts DEF DirsOf, Holds
      <3>7. StoreOf[g].notEmpty
        BY <1>2, <3>4, <3>5, <3>6, StoreDirectory
      <3>8. r = [ret |-> 2, store |-> StoreOf]
        <4>1. r = IF m = {} THEN [ret |-> 1, store |-> StoreOf]
                  ELSE IF g # 0 /\ StoreOf[g].notEmpty THEN [ret |-> 2, store |-> StoreOf]
                  ELSE r
          BY <1>4 DEF Store!Delete, g
        <4> HIDE DEF r
        <4> QED
          BY <2>2, <3>6, <3>7, <4>1
      <3> HIDE DEF r, m
      <3> QED
        BY <1>2, <1>3, <2>2, <3>8, SameStore DEF Answer
    <2>3. CASE m # {} /\ ~InUse(en)
      <3> HIDE DEF r, m, j
      <3>1. r = Store!Delete(StoreOf, p, n, e) /\ m = Named(disk[p], n, e) /\ j = Min(m)
        BY DEF r, m, j
      <3>2. r.ret = 0 /\ r.store = StoreIn(disk', diskFat')
        BY <1>2, <1>3, <2>3, <3>1, RemovedStore
      <3>3. StoreOf' = StoreIn(disk', diskFat')
        BY <1>3, <2>3, StoreNow
      <3> QED
        BY <1>3, <2>3, <3>2, <3>3 DEF Answer
    <2> QED
      BY <2>1, <2>2, <2>3
  <1>6. Store!delete(p, n, e)
    BY <1>5 DEF Store!delete, Store!Done
  <1> QED
    BY <1>1, <1>6 DEF Store!Next, Known

-----------------------------------------------------------------------------
(***************************************************************************)
(* rename_dir is FileStore's                                               *)
(***************************************************************************)
\* FileStore's entry of a directory, written out.
LEMMA StoreFolder ==
    ASSUME NEW name, NEW c
    PROVE  Store!Folder(name, c) = [live |-> TRUE, name |-> name, ext |-> NoExt, dir |-> c,
                                    size |-> 0, x |-> NoData]
  <1> DEFINE no == FALSE
             yes == TRUE
  <1>1. Store!Folder(name, c)
           = [[[Store!Free EXCEPT !.live = yes] EXCEPT !.name = name] EXCEPT !.dir = c]
    BY Zenon DEF Store!Folder
  <1>2. Store!Free = [live |-> no, name |-> NoName, ext |-> NoExt, dir |-> 0, size |-> 0, x |-> NoData]
    BY Zenon DEF Store!Free
  <1> HIDE DEF no, yes
  <1> DEFINE r == [Store!Free EXCEPT !.live = yes]
  <1>3. r = [live |-> yes, name |-> NoName, ext |-> NoExt, dir |-> 0, size |-> 0, x |-> NoData]
    BY <1>2
  <1> HIDE DEF r
  <1> DEFINE u == [r EXCEPT !.name = name]
  <1>4. u = [live |-> yes, name |-> name, ext |-> NoExt, dir |-> 0, size |-> 0, x |-> NoData]
    BY <1>3
  <1> HIDE DEF u
  <1>5. [u EXCEPT !.dir = c]
           = [live |-> yes, name |-> name, ext |-> NoExt, dir |-> c, size |-> 0, x |-> NoData]
    BY <1>4
  <1> QED
    BY <1>1, <1>5, Zenon DEF r, u, yes

\* The entry of a directory is one for FileStore.
LEMMA FolderStands ==
    ASSUME NEW d, NEW c, NEW name
    PROVE  EntryIn(d, FolderEntry(c, name)) = Store!Folder(name, c)
  <1> DEFINE en == FolderEntry(c, name)
             folder == [live |-> TRUE, name |-> name, ext |-> NoExt, dir |-> c,
                        size |-> 0, x |-> NoData]
  <1>1. /\ en.undelete /\ en.undelete = TRUE /\ en.subdir /\ en.cluster = c /\ en.name = name
        /\ en.ext = NoExt /\ en.filesize = 0
    BY DEF FolderEntry
  <1> HIDE DEF en
  <1>2. EntryIn(d, en) = folder
    BY <1>1 DEF EntryIn
  <1>3. Store!Folder(name, c) = folder
    BY StoreFolder
  <1> QED
    BY <1>2, <1>3 DEF en

\* An entry of a directory.
LEMMA FolderAt ==
    ASSUME NEW d \in Disk, NEW f, Sound(d, f), NEW p, NEW i, InTable(d, p, i), d[p].slots[i].subdir,
           NEW c, c = d[p].slots[i].cluster
    PROVE  /\ p \in Clusters /\ d[p].subdir /\ i \in Slots /\ d[p].slots[i].undelete
           /\ c \in FatIndex /\ c \in Clusters /\ c # p /\ c # 0 /\ d[c].subdir /\ f[c] # 0
           /\ d[c].name = d[p].slots[i].name
           /\ d[p] \in Cluster /\ d[c] \in Cluster
           /\ d[p].slots \in [Slots -> Entry]
  <1>1. p \in Clusters /\ d[p].subdir /\ i \in Slots /\ d[p].slots[i].undelete /\ <<p, i>> \in Refs(d)
    BY DEF InTable, Tables, LiveSlots, Refs
  <1>2. Holds(d, f, p, d[p].slots[i])
    BY <1>1 DEF Sound, AllHold, Ref
  <1>3. c # p /\ d[c].name = d[p].slots[i].name
    BY <1>2 DEF Holds, Stored
  <1>4. c \in 3 .. CLUSTER_MAP_SIZE - 1 /\ c \in FatIndex /\ c \in Clusters /\ d[c].subdir /\ f[c] # 0
    BY <1>2, FolderPath DEF Holds
  <1>5. c # 0
    BY <1>4, SizeFacts
  <1> QED
    BY <1>1, <1>3, <1>4, <1>5 DEF Disk, Cluster

\* Clusters as they are after a directory is renamed.
LEMMA RelabelledFields ==
    ASSUME NEW d \in Disk, NEW f, Sound(d, f), NEW d2, NEW f2, NEW p, NEW i,
           NEW new, Relabelled(d, f, d2, f2, p, i, new),
           NEW c, c = d[p].slots[i].cluster
    PROVE  /\ f2 = f
           /\ \A b \in Clusters : /\ d2[b].subdir = d[b].subdir
                                  /\ d2[b].notEmpty = d[b].notEmpty
                                  /\ d2[b].data = d[b].data
           /\ \A b \in Clusters, l \in Slots :
                 d2[b].slots[l] = IF b = p /\ l = i THEN FolderEntry(c, new) ELSE d[b].slots[l]
  <1> DEFINE en == FolderEntry(c, new)
  <1>1. /\ p \in Clusters /\ i \in Slots
        /\ c \in Clusters /\ c # p /\ d[p] \in Cluster /\ d[c] \in Cluster
        /\ d[p].slots \in [Slots -> Entry]
    BY FolderAt DEF Relabelled
  <1>2. f2 = f /\ d2 = [d EXCEPT ![p].slots[i] = en, ![c] = Renamed(d[c], new)]
    BY DEF Relabelled
  <1> HIDE DEF en
  <1>3. /\ d2[p] = [d[p] EXCEPT !.slots = [d[p].slots EXCEPT ![i] = en]]
        /\ d2[c] = [d[c] EXCEPT !.name = new]
        /\ \A b \in Clusters \ {p, c} : d2[b] = d[b]
    BY <1>1, <1>2 DEF Renamed, Disk
  <1>4. /\ d2[p].slots = [d[p].slots EXCEPT ![i] = en]
        /\ d2[p].subdir = d[p].subdir /\ d2[p].data = d[p].data /\ d2[p].notEmpty = d[p].notEmpty
    <2>1. d[p] \in Cluster /\ d2[p] = [d[p] EXCEPT !.slots = [d[p].slots EXCEPT ![i] = en]]
      BY <1>1, <1>3
    <2> QED
      BY ONLY <2>1 DEF Cluster
  <1>5. /\ d2[c].slots = d[c].slots /\ d2[c].subdir = d[c].subdir /\ d2[c].data = d[c].data
        /\ d2[c].notEmpty = d[c].notEmpty
    <2>1. d[c] \in Cluster /\ d2[c] = [d[c] EXCEPT !.name = new]
      BY <1>1, <1>3
    <2> QED
      BY ONLY <2>1 DEF Cluster
  <1>6. ASSUME NEW b \in Clusters, NEW l \in Slots
        PROVE  d2[b].slots[l] = IF b = p /\ l = i THEN en ELSE d[b].slots[l]
    <2>1. CASE b = p
      BY <1>1, <1>4, <2>1
    <2>2. CASE b # p
      BY <1>3, <1>5, <2>2
    <2> QED
      BY <2>1, <2>2
  <1> QED
    BY <1>2, <1>3, <1>4, <1>5, <1>6 DEF en

LEMMA RelabelledStore ==
    ASSUME NEW d \in Disk, NEW f, Sound(d, f), NEW p \in DirsOf(d, f), NEW s, s = StoreIn(d, f),
           NEW d2, NEW f2, NEW i, NEW new, Relabelled(d, f, d2, f2, p, i, new)
    PROVE  Store!Put(s, p, i, Store!Folder(new, d[p].slots[i].cluster)) = StoreIn(d2, f2)
  <1> DEFINE c == d[p].slots[i].cluster
             t == Store!Folder(new, c)
             slots == [l \in Slots |-> EntryIn(d, d[p].slots[l])]
             put == [slots EXCEPT ![i] = t]
  <1>1. /\ p \in Clusters /\ i \in Slots /\ p \in DOMAIN s /\ DOMAIN s = DirsOf(d, f)
        /\ DirsOf(d, f) \subseteq Clusters
    <2>1. DirsOf(d, f) \subseteq Clusters
      BY SizeFacts DEF DirsOf
    <2>2. p \in DOMAIN s /\ DOMAIN s = DirsOf(d, f)
      BY StoreDirectory
    <2>3. i \in Slots
      BY DEF Relabelled, InTable, LiveSlots
    <2> QED
      BY <2>1, <2>2, <2>3
  <1>2. /\ f2 = f
        /\ \A b \in Clusters : /\ d2[b].subdir = d[b].subdir
                               /\ d2[b].notEmpty = d[b].notEmpty
                               /\ d2[b].data = d[b].data
        /\ \A b \in Clusters, l \in Slots :
              d2[b].slots[l] = IF b = p /\ l = i THEN FolderEntry(c, new) ELSE d[b].slots[l]
    BY RelabelledFields
  <1> HIDE DEF c
  <1>3. DirsOf(d2, f2) = DirsOf(d, f)
    BY <1>2, SizeFacts DEF DirsOf
  <1>4. ASSUME NEW b \in DirsOf(d, f), NEW l \in Slots
        PROVE  EntryIn(d2, d[b].slots[l]) = EntryIn(d, d[b].slots[l])
    BY <1>1, <1>2, EntrySame, SizeFacts DEF DirsOf
  <1>5. s[p] = [notEmpty |-> d[p].notEmpty, slots |-> slots] /\ s = [b \in DOMAIN s |-> s[b]]
    BY DEF StoreIn, DirIn
  <1>6. put = [l \in Slots |-> EntryIn(d2, d2[p].slots[l])]
    <2>1. put = [l \in Slots |-> IF l = i THEN t ELSE EntryIn(d, d[p].slots[l])]
      BY <1>1
    <2>2. EntryIn(d2, FolderEntry(c, new)) = t
      BY FolderStands
    <2> HIDE DEF put, t
    <2>3. \A l \in Slots : EntryIn(d2, d2[p].slots[l])
                             = IF l = i THEN t ELSE EntryIn(d, d[p].slots[l])
      BY <1>1, <1>2, <1>4, <2>2
    <2> QED
      BY <2>1, <2>3
  <1> HIDE DEF slots
  <1>7. Store!Put(s, p, i, t)
           = [b \in DOMAIN s |-> IF b = p THEN [notEmpty |-> d[p].notEmpty, slots |-> put] ELSE s[b]]
    BY <1>1, <1>5, PutFields
  <1>8. [notEmpty |-> d[p].notEmpty, slots |-> put] = DirIn(d2, p)
    BY <1>1, <1>2, <1>6 DEF DirIn
  <1>9. ASSUME NEW b \in DirsOf(d, f), b # p PROVE s[b] = DirIn(d2, b)
    <2>1. s[b] = DirIn(d, b)
      BY DEF StoreIn
    <2>2. \A l \in Slots : EntryIn(d2, d2[b].slots[l]) = EntryIn(d, d[b].slots[l])
      BY <1>1, <1>2, <1>4, <1>9
    <2> QED
      BY <1>1, <1>2, <2>1, <2>2 DEF DirIn
  <1> HIDE DEF put, t
  <1>10. Store!Put(s, p, i, t) = [b \in DirsOf(d, f) |-> DirIn(d2, b)]
    BY <1>1, <1>7, <1>8, <1>9
  <1> QED
    BY <1>3, <1>10 DEF StoreIn, t, c

\* The slot that rename_dir and move_dir take is the directory's for both.
LEMMA FolderFound ==
    ASSUME Fresh, NEW p \in Parents, Known(p), NEW n, NEW e,
           FoundIn(disk[p], n, e) # {}, ~Mistaken(disk[p], n), NEW i, i = FirstNamed(disk[p], n)
    PROVE  /\ Store!ReadDirectory(StoreOf, p, n, e).ret = 0
           /\ Store!ReadDirectory(StoreOf, p, n, e).dir = disk[p].slots[i].cluster
           /\ Store!FirstOfName(StoreOf, p, n) = i
           /\ ~Store!Mistaken(StoreOf, p, n)
           /\ i \in Slots
  <1> DEFINE s == StoreOf
             a == Store!ReadDirectory(s, p, n, e)
  <1>1. /\ p \in DirsOf(disk, diskFat) /\ s = StoreIn(disk, diskFat) /\ Sound(disk, diskFat)
        /\ Good /\ p \in Clusters /\ disk[p].subdir
    BY DEF Fresh, Known
  <1>2. i \in LiveSlots(disk[p]) /\ disk[p].slots[i].subdir
        /\ disk[p].slots[i].cluster = ChildIn(disk[p], n, e)
    BY <1>1, FirstNamedFound, GoodFit
  <1>3. Store!FirstOfName(s, p, n) = i /\ Store!IsFolder(Store!At(s, p, i))
    BY <1>1, <1>2, StoreDirectory
  <1>4. a.ret = 0 /\ a.dir = ChildIn(disk[p], n, e)
    <2> HIDE DEF a, s
    <2>1. a = Store!ReadDirectory(s, p, n, e)
      BY DEF a
    <2>2. /\ a.ret = IF FoundIn(disk[p], n, e) # {} THEN 0
                      ELSE IF Named(disk[p], n, e) = {} THEN 3 ELSE 1
          /\ FoundIn(disk[p], n, e) # {} => a.dir = ChildIn(disk[p], n, e)
      BY ONLY <1>1, <2>1, StoreReadDirectory
    <2> QED
      BY <2>2
  <1> QED
    BY <1>2, <1>3, <1>4 DEF Store!Mistaken, LiveSlots

LEMMA rename_dirStore ==
    ASSUME Fresh, NEW p \in Parents, NEW n \in Names, NEW e \in Exts, NEW size \in BufferSizes,
           NEW new \in Names, rename_dir(p, n, e, size, new)
    PROVE  Store!Next
  <1> DEFINE i == FirstNamed(disk[p], n)
             c == disk[p].slots[i].cluster
             r == Store!ReadDirectory(StoreOf, p, n, e)
  <1>1. \/ NotFound(p, ReadDirectory(p, n, e, size))
        \/ /\ fat_table' = diskFat' /\ Answer(0, <<>>)
           /\ FoundIn(disk[p], n, e) # {} /\ ~Mistaken(disk[p], n)
           /\ Relabelled(disk, diskFat, disk', diskFat', p, i, new)
    BY rename_dirGood, GoodFit DEF Fresh, Within
  <1>2. CASE NotFound(p, ReadDirectory(p, n, e, size))
    BY <1>2, NotFoundStore
  <1>3. CASE /\ fat_table' = diskFat' /\ Answer(0, <<>>)
             /\ FoundIn(disk[p], n, e) # {} /\ ~Mistaken(disk[p], n)
             /\ Relabelled(disk, diskFat, disk', diskFat', p, i, new)
    <2>1. Known(p)
      <3>1. p \in Dirs
        BY <1>3 DEF Relabelled, InTable, Tables, Dirs, Fresh, Good
      <3> QED
        BY <3>1, DirectoryKnown
    <2> HIDE DEF i
    <2>2. r.ret = 0 /\ r.dir = c /\ Store!FirstOfName(StoreOf, p, n) = i
          /\ ~Store!Mistaken(StoreOf, p, n)
      BY <1>3, <2>1, FolderFound DEF i
    <2>3. /\ p \in DirsOf(disk, diskFat) /\ StoreOf = StoreIn(disk, diskFat) /\ Sound(disk, diskFat)
          /\ disk \in Disk
      BY <2>1 DEF Known, Fresh, IInv, DiskOK, Disk
    <2>4. StoreOf' = Store!Put(StoreOf, p, i, Store!Folder(new, c))
      <3>1. Store!Put(StoreOf, p, i, Store!Folder(new, c)) = StoreIn(disk', diskFat')
        BY <1>3, <2>3, RelabelledStore
      <3> QED
        BY <1>3, <3>1, StoreNow
    <2> HIDE DEF c, r
    <2>5. Store!RenameDir(StoreOf, p, n, e, new) = [ret |-> 0, store |-> StoreOf']
      BY <2>2, <2>4 DEF Store!RenameDir, r
    <2>6. reply' = [ret |-> 0, data |-> <<>>]
      BY <1>3 DEF Answer
    <2>7. Store!rename_dir(p, n, e, new)
      BY <2>2, <2>5, <2>6 DEF Store!rename_dir, Store!Done
    <2> QED
      BY <2>1, <2>7 DEF Store!Next, Known
  <1> QED
    BY <1>1, <1>2, <1>3

-----------------------------------------------------------------------------
(***************************************************************************)
(* move_dir is FileStore's                                                 *)
(***************************************************************************)
\* move_dir marks the slot of the directory as free.
Gone(en) == [en EXCEPT !.undelete = FALSE]

\* Clusters as they are after a directory is moved.
LEMMA CarriedFields ==
    ASSUME NEW d \in Disk, NEW f, Sound(d, f), NEW d2, NEW f2, NEW p, NEW i, NEW q, NEW j,
           Carried(d, f, d2, f2, p, i, q, j),
           NEW c, c = d[p].slots[i].cluster,
           NEW gone, gone = Gone(d[p].slots[i]), NEW old, old = Unhooked(d, p, i)
    PROVE  /\ f2 = f /\ q \in DirsOf(d, f) /\ i \in Slots /\ j \in FreeSlots(old[q])
           /\ \A b \in Clusters : d2[b].subdir = d[b].subdir /\ d2[b].notEmpty = d[b].notEmpty
           /\ \A b \in Clusters \ {q} : d2[b].data = d[b].data
           /\ \A l \in Slots :
                 old[q].slots[l] = IF q = p /\ l = i THEN gone ELSE d[q].slots[l]
           /\ \A b \in Clusters, l \in Slots :
                 d2[b].slots[l] = IF b # c /\ b = q /\ l = j THEN FolderEntry(c, d[c].name)
                                  ELSE IF b = p /\ l = i THEN gone ELSE d[b].slots[l]
  <1> DEFINE en == FolderEntry(c, d[c].name)
  <1>1. /\ p \in Clusters /\ i \in Slots
        /\ c \in Clusters /\ c # p /\ d[p] \in Cluster /\ d[c] \in Cluster
        /\ d[p].slots \in [Slots -> Entry]
    <2>1. InTable(d, p, i) /\ d[p].slots[i].subdir
      BY Zenon DEF Carried
    <2> QED
      BY <2>1, FolderAt
  <1>2. q \in Clusters /\ q \in DirsOf(d, f) /\ d[q] \in Cluster /\ d[q].slots \in [Slots -> Entry]
    <2>1. q \in Clusters /\ q \in DirsOf(d, f)
      BY SizeFacts DEF Carried, DirsOf
    <2> QED
      BY <2>1 DEF Disk, Cluster
  <1>3. /\ f2 = f /\ j \in FreeSlots(old[q])
        /\ d2 = [old EXCEPT ![q].slots[j] = en, ![q].data = NoData, ![c] = Reparented(d[c], q)]
    BY DEF Carried, Unhooked
  <1>4. /\ old[p] = [d[p] EXCEPT !.slots = [d[p].slots EXCEPT ![i] = gone]]
        /\ \A b \in Clusters \ {p} : old[b] = d[b]
        /\ old \in [Clusters -> {old[b] : b \in Clusters}]
    BY <1>1 DEF Disk, Gone, Unhooked
  <1> HIDE DEF en
  <1>5. /\ q # c => d2[q] = [[old[q] EXCEPT !.slots = [old[q].slots EXCEPT ![j] = en]] EXCEPT !.data = NoData]
        /\ d2[c] = [d[c] EXCEPT !.parent = q]
        /\ \A b \in Clusters \ {q, c} : d2[b] = old[b]
    <2>1. /\ old \in [Clusters -> {old[b] : b \in Clusters}]
          /\ d2 = [old EXCEPT ![q].slots[j] = en, ![q].data = NoData, ![c] = Reparented(d[c], q)]
          /\ q \in Clusters /\ c \in Clusters
      BY <1>1, <1>2, <1>3, <1>4
    <2> QED
      BY ONLY <2>1 DEF Reparented
  <1>6. /\ old[p].slots = [d[p].slots EXCEPT ![i] = gone]
        /\ old[p].subdir = d[p].subdir /\ old[p].data = d[p].data /\ old[p].notEmpty = d[p].notEmpty
    <2>1. d[p] \in Cluster /\ old[p] = [d[p] EXCEPT !.slots = [d[p].slots EXCEPT ![i] = gone]]
      BY <1>1, <1>4
    <2> QED
      BY ONLY <2>1 DEF Cluster
  <1>7. /\ d2[c].slots = d[c].slots /\ d2[c].subdir = d[c].subdir /\ d2[c].data = d[c].data
        /\ d2[c].notEmpty = d[c].notEmpty
    <2>1. d[c] \in Cluster /\ d2[c] = [d[c] EXCEPT !.parent = q]
      BY <1>1, <1>5
    <2> QED
      BY ONLY <2>1 DEF Cluster
  <1>8. ASSUME q # c
        PROVE  /\ d2[q].slots = [old[q].slots EXCEPT ![j] = en]
               /\ d2[q].subdir = d[q].subdir /\ d2[q].notEmpty = d[q].notEmpty
    <2>1. PICK sl : old[q] = [d[q] EXCEPT !.slots = sl]
      <3>1. CASE q = p
        BY <1>4, <3>1
      <3>2. CASE q # p
        <4>1. d[q] = [d[q] EXCEPT !.slots = d[q].slots]
          BY <1>2 DEF Cluster
        <4> QED
          BY <1>2, <1>4, <3>2, <4>1
      <3> QED
        BY <3>1, <3>2
    <2>2. old[q] = [subdir |-> d[q].subdir, name |-> d[q].name, parent |-> d[q].parent,
                    notEmpty |-> d[q].notEmpty, data |-> d[q].data, slots |-> sl]
      BY <1>2, <2>1 DEF Cluster
    <2>3. d2[q] = [[old[q] EXCEPT !.slots = [old[q].slots EXCEPT ![j] = en]] EXCEPT !.data = NoData]
      BY <1>5, <1>8
    <2> QED
      BY ONLY <2>2, <2>3
  <1>9. \A l \in Slots : old[q].slots[l] = IF q = p /\ l = i THEN gone ELSE d[q].slots[l]
    <2>1. CASE q = p
      BY <1>1, <1>6, <2>1
    <2>2. CASE q # p
      BY <1>2, <1>4, <2>2
    <2> QED
      BY <2>1, <2>2
  <1>10. j \in Slots /\ DOMAIN old[q].slots = Slots
    <2>1. j \in Slots
      BY <1>3 DEF FreeSlots
    <2>2. CASE q = p
      BY <1>1, <1>6, <2>1, <2>2
    <2>3. CASE q # p
      BY <1>2, <1>4, <2>1, <2>3
    <2> QED
      BY <2>1, <2>2, <2>3
  <1>11. ASSUME NEW b \in Clusters
         PROVE  /\ d2[b].subdir = d[b].subdir /\ d2[b].notEmpty = d[b].notEmpty
                /\ b # q => d2[b].data = d[b].data
    <2>1. CASE b = c
      BY <1>7, <2>1
    <2>2. CASE b # c /\ b = q
      BY <1>8, <2>2
    <2>3. CASE b # c /\ b # q /\ b = p
      BY <1>5, <1>6, <2>3
    <2>4. CASE b # c /\ b # q /\ b # p
      BY <1>4, <1>5, <2>4
    <2> QED
      BY <2>1, <2>2, <2>3, <2>4
  <1>12. ASSUME NEW b \in Clusters, NEW l \in Slots
         PROVE  d2[b].slots[l] = IF b # c /\ b = q /\ l = j THEN en
                                 ELSE IF b = p /\ l = i THEN gone ELSE d[b].slots[l]
    <2>1. CASE b = c
      BY <1>1, <1>7, <2>1
    <2>2. CASE b # c /\ b = q
      <3>1. d2[q].slots = [old[q].slots EXCEPT ![j] = en] /\ l \in DOMAIN old[q].slots
        BY <1>8, <1>10, <2>2
      <3>2. d2[q].slots[l] = IF l = j THEN en ELSE old[q].slots[l]
        BY ONLY <3>1
      <3> QED
        BY <1>9, <2>2, <3>2
    <2>3. CASE b # c /\ b # q /\ b = p
      <3>1. d2[b].slots = [d[p].slots EXCEPT ![i] = gone] /\ l \in DOMAIN d[p].slots
        BY <1>1, <1>5, <1>6, <2>3
      <3>2. d2[b].slots[l] = IF l = i THEN gone ELSE d[p].slots[l]
        BY ONLY <3>1
      <3> QED
        BY <2>3, <3>2
    <2>4. CASE b # c /\ b # q /\ b # p
      BY <1>4, <1>5, <2>4
    <2> QED
      BY <2>1, <2>2, <2>3, <2>4
  <1> QED
    BY <1>1, <1>2, <1>3, <1>9, <1>11, <1>12 DEF en

\* What is left in the slot of a directory that was moved away.
LEMMA GoneStands ==
    ASSUME NEW en \in Entry, NEW d
    PROVE  EntryIn(d, Gone(en)) = [Store!Free EXCEPT !.name = en.name]
  <1> DEFINE gone == Gone(en)
             no == FALSE
             left == [live |-> no, name |-> en.name, ext |-> NoExt, dir |-> 0,
                      size |-> 0, x |-> NoData]
  <1>1. ~gone.undelete /\ gone.undelete = no /\ gone.name = en.name
    BY DEF Entry, Gone
  <1>2. Store!Free = [live |-> no, name |-> NoName, ext |-> NoExt, dir |-> 0, size |-> 0, x |-> NoData]
    BY Zenon DEF Store!Free
  <1> HIDE DEF gone, no
  <1>3. EntryIn(d, gone) = left
    BY <1>1 DEF EntryIn
  <1>4. [Store!Free EXCEPT !.name = en.name] = left
    BY <1>2
  <1> QED
    BY <1>3, <1>4, Zenon DEF gone

LEMMA CarriedStore ==
    ASSUME NEW d \in Disk, NEW f, Sound(d, f), NEW p \in DirsOf(d, f), NEW s, s = StoreIn(d, f),
           NEW d2, NEW f2, NEW i, NEW q, NEW j, Carried(d, f, d2, f2, p, i, q, j),
           NEW c, c = d[p].slots[i].cluster, NEW n, n = d[p].slots[i].name,
           NEW old, old = Unhooked(d, p, i), j = Min(FreeSlots(old[q])),
           NEW taken, taken = Store!Put(s, p, i, [Store!Free EXCEPT !.name = n]),
           NEW moved, moved = Store!Put(taken, q, Store!FirstFree(taken, q), Store!Folder(n, c))
    PROVE  /\ [moved EXCEPT ![c] = s[c]] = StoreIn(d2, f2)
           /\ q \in DOMAIN s
           /\ Store!HasRoom(s, q) \/ p = q
  <1> DEFINE gone == Gone(d[p].slots[i])
             g == [Store!Free EXCEPT !.name = n]
             t == Store!Folder(n, c)
             sp == [l \in Slots |-> EntryIn(d, d[p].slots[l])]
             sq == [l \in Slots |-> IF q = p /\ l = i THEN g ELSE EntryIn(d, d[q].slots[l])]
  <1>0. /\ d \in Disk /\ Sound(d, f) /\ Carried(d, f, d2, f2, p, i, q, j)
        /\ c = d[p].slots[i].cluster
        /\ gone = Gone(d[p].slots[i]) /\ old = Unhooked(d, p, i)
    OBVIOUS
  <1> HIDE DEF gone, g, t, sp, sq
  <1>1. /\ f2 = f /\ q \in DirsOf(d, f) /\ i \in Slots /\ j \in FreeSlots(old[q])
        /\ \A b \in Clusters : d2[b].subdir = d[b].subdir /\ d2[b].notEmpty = d[b].notEmpty
        /\ \A b \in Clusters \ {q} : d2[b].data = d[b].data
        /\ \A l \in Slots : old[q].slots[l] = IF q = p /\ l = i THEN gone ELSE d[q].slots[l]
        /\ \A b \in Clusters, l \in Slots :
              d2[b].slots[l] = IF b # c /\ b = q /\ l = j THEN FolderEntry(c, d[c].name)
                               ELSE IF b = p /\ l = i THEN gone ELSE d[b].slots[l]
    BY ONLY <1>0, CarriedFields
  <1>2. /\ p \in Clusters /\ c \in DirsOf(d, f) /\ c # p /\ d[c].name = n /\ d[p].slots[i] \in Entry
    <2>1. /\ p \in Clusters /\ i \in Slots /\ c \in FatIndex /\ c # p /\ d[c].subdir /\ f[c] # 0
          /\ d[c].name = n /\ d[p].slots \in [Slots -> Entry]
      <3>1. InTable(d, p, i) /\ d[p].slots[i].subdir
        BY DEF Carried
      <3> QED
        BY <3>1, FolderAt
    <2> QED
      BY <2>1 DEF DirsOf
  <1>3. /\ DOMAIN s = DirsOf(d, f) /\ s = [b \in DOMAIN s |-> s[b]]
        /\ DirsOf(d, f) \subseteq Clusters /\ DirsOf(d2, f2) = DirsOf(d, f)
        /\ \A b \in DirsOf(d, f) : s[b] = DirIn(d, b)
    BY <1>1, SizeFacts DEF StoreIn, DirsOf
  <1>4. \A e : EntryIn(e, gone) = g /\ EntryIn(e, FolderEntry(c, d[c].name)) = t
    BY <1>2, GoneStands, FolderStands DEF gone, g, t
  <1>5. ASSUME NEW b \in DirsOf(d, f), NEW l \in Slots
        PROVE  EntryIn(d2, d[b].slots[l]) = EntryIn(d, d[b].slots[l])
    BY <1>1, <1>3, EntrySame, SizeFacts DEF DirsOf
  <1>6. ~g.live /\ ~gone.undelete
    BY <1>2 DEF Store!Free, Entry, g, gone, Gone
  <1>7. j \in Slots
    BY <1>1 DEF FreeSlots
  <1>8. taken = [b \in DOMAIN s |->
                   IF b = p THEN [notEmpty |-> d[p].notEmpty, slots |-> [sp EXCEPT ![i] = g]] ELSE s[b]]
    <2>1. s[p] = [notEmpty |-> d[p].notEmpty, slots |-> sp]
      BY <1>3 DEF DirIn, sp
    <2>2. taken = Store!Put(s, p, i, g) /\ p \in DOMAIN s
      BY <1>3 DEF g
    <2> QED
      BY <1>3, <2>1, <2>2, PutFields
  <1>9. taken[q] = [notEmpty |-> d[q].notEmpty, slots |-> sq]
        /\ DOMAIN taken = DOMAIN s /\ taken = [b \in DOMAIN taken |-> taken[b]]
    <2>1. CASE q = p
      <3>1. [sp EXCEPT ![i] = g] = sq
        BY <1>1, <2>1 DEF sp, sq
      <3> QED
        BY <1>1, <1>3, <1>8, <2>1, <3>1
    <2>2. CASE q # p
      <3>1. s[q] = [notEmpty |-> d[q].notEmpty, slots |-> sq]
        BY <1>1, <1>3, <2>2 DEF DirIn, sq
      <3> QED
        BY <1>1, <1>3, <1>8, <2>2, <3>1
    <2> QED
      BY <2>1, <2>2
  <1>10. Store!FirstFree(taken, q) = j
    <2>1. \A l \in Slots : sq[l].live <=> old[q].slots[l].undelete
      BY <1>1, <1>6 DEF EntryIn, sq
    <2>2. \A l \in Slots : Store!At(taken, q, l) = sq[l]
      BY <1>9 DEF Store!At
    <2>3. Store!LiveIn(taken, q) = LiveSlots(old[q])
      BY <2>1, <2>2 DEF Store!LiveIn, LiveSlots
    <2> QED
      BY <2>3, StoreMin DEF Store!FirstFree, FreeSlots
  <1>11. moved = [b \in DOMAIN taken |->
                    IF b = q THEN [notEmpty |-> d[q].notEmpty, slots |-> [sq EXCEPT ![j] = t]]
                    ELSE taken[b]]
    <2>1. moved = Store!Put(taken, q, j, t) /\ q \in DOMAIN taken
      BY <1>1, <1>3, <1>9, <1>10 DEF t
    <2> QED
      BY ONLY <1>9, <2>1, PutFields
  <1>12. ASSUME NEW b \in DirsOf(d, f), NEW l \in Slots
         PROVE  EntryIn(d2, d2[b].slots[l])
                  = IF b # c /\ b = q /\ l = j THEN t
                    ELSE IF b = p /\ l = i THEN g ELSE EntryIn(d, d[b].slots[l])
    <2>1. d2[b].slots[l] = IF b # c /\ b = q /\ l = j THEN FolderEntry(c, d[c].name)
                           ELSE IF b = p /\ l = i THEN gone ELSE d[b].slots[l]
      BY <1>1, <1>3
    <2> QED
      BY <1>4, <1>5, <2>1
  <1>13. ASSUME NEW b \in DirsOf(d, f)
         PROVE  (IF b = c THEN s[c] ELSE moved[b]) = DirIn(d2, b)
    <2>0. b \in Clusters /\ b \in DOMAIN taken /\ d2[b].notEmpty = d[b].notEmpty
      BY <1>1, <1>3, <1>9
    <2>1. CASE b = c
      <3>1. \A l \in Slots : EntryIn(d2, d2[b].slots[l]) = EntryIn(d, d[b].slots[l])
        BY <1>2, <1>12, <2>1
      <3>2. s[c] = DirIn(d, b)
        BY <1>2, <1>3, <2>1
      <3> QED
        BY <2>0, <2>1, <3>1, <3>2 DEF DirIn
    <2>2. CASE b # c /\ b = q
      <3>1. [sq EXCEPT ![j] = t] = [l \in Slots |-> EntryIn(d2, d2[b].slots[l])]
        BY <1>7, <1>12, <2>2 DEF sq
      <3> QED
        BY <1>11, <2>0, <2>2, <3>1 DEF DirIn
    <2>3. CASE b # c /\ b # q /\ b = p
      <3>1. [sp EXCEPT ![i] = g] = [l \in Slots |-> EntryIn(d2, d2[b].slots[l])]
        BY <1>1, <1>12, <2>3 DEF sp
      <3> QED
        BY <1>3, <1>8, <1>11, <2>0, <2>3, <3>1 DEF DirIn
    <2>4. CASE b # c /\ b # q /\ b # p
      <3>1. \A l \in Slots : EntryIn(d2, d2[b].slots[l]) = EntryIn(d, d[b].slots[l])
        BY <1>12, <2>4
      <3>2. moved[b] = s[b]
        <4>1. moved[b] = taken[b]
          BY <1>11, <2>0, <2>4
        <4> QED
          BY <1>3, <1>8, <2>4, <4>1
      <3> QED
        BY <1>3, <2>0, <2>4, <3>1, <3>2 DEF DirIn
    <2> QED
      BY <2>1, <2>2, <2>3, <2>4
  <1>14. [moved EXCEPT ![c] = s[c]] = [b \in DirsOf(d, f) |-> IF b = c THEN s[c] ELSE moved[b]]
    <2>1. moved = [b \in DirsOf(d, f) |-> moved[b]]
      BY <1>3, <1>9, <1>11
    <2> QED
      BY <2>1
  <1>15. [moved EXCEPT ![c] = s[c]] = StoreIn(d2, f2)
    <2>1. [moved EXCEPT ![c] = s[c]] = [b \in DirsOf(d, f) |-> DirIn(d2, b)]
      BY <1>13, <1>14
    <2> QED
      BY <1>3, <2>1 DEF StoreIn
  <1>16. Store!HasRoom(s, q) \/ p = q
    <2> SUFFICES ASSUME p # q PROVE Store!HasRoom(s, q)
      OBVIOUS
    <2>1. \A l \in Slots : old[q].slots[l] = d[q].slots[l]
      BY <1>1
    <2>2. Store!LiveIn(s, q) = LiveSlots(d[q])
      BY <1>1, StoreDirectory
    <2>3. j \notin LiveSlots(d[q])
      BY <1>1, <1>7, <2>1 DEF FreeSlots, LiveSlots
    <2> QED
      BY <1>7, <2>2, <2>3 DEF Store!HasRoom
  <1> QED
    BY <1>1, <1>3, <1>15, <1>16

LEMMA move_dirStore ==
    ASSUME Fresh, NEW p \in Parents, NEW n \in Names, NEW e \in Exts, NEW size \in BufferSizes,
           NEW q \in Parents, move_dir(p, n, e, size, q)
    PROVE  Store!Next
  <1> DEFINE i == FirstNamed(disk[p], n)
             old == Unhooked(disk, p, i)
             j == Min(FreeSlots(old[q]))
             c == disk[p].slots[i].cluster
             r == Store!ReadDirectory(StoreOf, p, n, e)
             taken == Store!Put(StoreOf, p, i, [Store!Free EXCEPT !.name = n])
             moved == Store!Put(taken, q, Store!FirstFree(taken, q), Store!Folder(n, c))
  <1>1. \/ NotFound(p, ReadDirectory(p, n, e, size))
        \/ /\ fat_table' = diskFat' /\ Answer(0, <<>>)
           /\ FoundIn(disk[p], n, e) # {} /\ ~Mistaken(disk[p], n)
           /\ Carried(disk, diskFat, disk', diskFat', p, i, q, j)
    BY move_dirGood, GoodFit DEF Fresh, Within, Unhooked
  <1>2. CASE NotFound(p, ReadDirectory(p, n, e, size))
    BY <1>2, NotFoundStore
  <1>3. CASE /\ fat_table' = diskFat' /\ Answer(0, <<>>)
             /\ FoundIn(disk[p], n, e) # {} /\ ~Mistaken(disk[p], n)
             /\ Carried(disk, diskFat, disk', diskFat', p, i, q, j)
    <2>1. Known(p)
      <3>1. p \in Dirs
        BY <1>3 DEF Carried, InTable, Tables, Dirs, Fresh, Good
      <3> QED
        BY <3>1, DirectoryKnown
    <2>2. n = disk[p].slots[i].name
      <3> DEFINE named == {l \in Slots : disk[p].slots[l].name = n}
      <3>1. named # {}
        BY <1>3 DEF FoundIn, Named
      <3>2. Min(named) \in named
        BY <3>1, MinSlot
      <3> QED
        BY <3>2 DEF FirstNamed
    <2> HIDE DEF i
    <2>3. r.ret = 0 /\ r.dir = c /\ Store!FirstOfName(StoreOf, p, n) = i
          /\ ~Store!Mistaken(StoreOf, p, n)
      <3>1. /\ Fresh /\ p \in Parents /\ i = FirstNamed(disk[p], n)
            /\ FoundIn(disk[p], n, e) # {} /\ ~Mistaken(disk[p], n)
        BY <1>3 DEF i
      <3> QED
        BY ONLY <2>1, <3>1, FolderFound
    <2>4. /\ disk \in Disk /\ Sound(disk, diskFat)
          /\ p \in DirsOf(disk, diskFat) /\ StoreOf = StoreIn(disk, diskFat)
      BY <2>1 DEF Known, Fresh, IInv, DiskOK, Disk
    <2> HIDE DEF old, j, c, taken, moved, r
    <2>5. /\ old = Unhooked(disk, p, i) /\ j = Min(FreeSlots(old[q])) /\ c = disk[p].slots[i].cluster
          /\ taken = Store!Put(StoreOf, p, i, [Store!Free EXCEPT !.name = n])
          /\ moved = Store!Put(taken, q, Store!FirstFree(taken, q), Store!Folder(n, c))
      BY DEF old, j, c, taken, moved
    <2>6. /\ [moved EXCEPT ![c] = StoreOf[c]] = StoreIn(disk', diskFat')
          /\ q \in DOMAIN StoreOf
          /\ Store!HasRoom(StoreOf, q) \/ p = q
      <3>1. Carried(disk, diskFat, disk', diskFat', p, i, q, j)
        BY <1>3
      <3> QED
        BY ONLY <2>2, <2>4, <2>5, <3>1, CarriedStore
    <2>7. StoreOf' = [moved EXCEPT ![c] = StoreOf[c]]
      BY <1>3, <2>6, StoreNow
    <2>8. Store!MoveDir(StoreOf, p, n, e, q) = [ret |-> 0, store |-> StoreOf']
      BY <2>3, <2>5, <2>7 DEF Store!MoveDir, r
    <2>9. reply' = [ret |-> 0, data |-> <<>>]
      BY <1>3 DEF Answer
    <2>10. Store!move_dir(p, n, e, q)
      BY <2>3, <2>6, <2>8, <2>9 DEF Store!move_dir, Store!Done
    <2> QED
      BY <2>1, <2>6, <2>10 DEF Store!Next, Known
  <1> QED
    BY <1>1, <1>2, <1>3

-----------------------------------------------------------------------------
(***************************************************************************)
(* write is FileStore's                                                    *)
(***************************************************************************)
Marked(s, p) == [s EXCEPT ![p].notEmpty = TRUE]

LEMMA MarkFields ==
    ASSUME NEW s, s = [c \in DOMAIN s |-> s[c]], NEW p \in DOMAIN s, NEW flag, NEW slots,
           s[p] = [notEmpty |-> flag, slots |-> slots]
    PROVE  Marked(s, p) =
             [c \in DOMAIN s |-> IF c = p THEN [notEmpty |-> TRUE, slots |-> slots] ELSE s[c]]
  <1> DEFINE table == [notEmpty |-> TRUE, slots |-> slots]
  <1>1. [s[p] EXCEPT !.notEmpty = TRUE] = table
    <2>1. ASSUME NEW new PROVE [s[p] EXCEPT !.notEmpty = new] = [notEmpty |-> new, slots |-> slots]
      OBVIOUS
    <2> QED
      BY <2>1, Zenon
  <1>2. Marked(s, p) = [s EXCEPT ![p] = [s[p] EXCEPT !.notEmpty = TRUE]]
    BY DEF Marked
  <1>3. Marked(s, p) = [s EXCEPT ![p] = table]
    BY <1>1, <1>2
  <1> HIDE DEF table
  <1>4. Marked(s, p) = [c \in DOMAIN s |-> IF c = p THEN table ELSE s[c]]
    BY <1>3
  <1> QED
    BY <1>4 DEF table

\* FileStore's entry of a file, written out.
LEMMA StoreFile ==
    ASSUME NEW name, NEW ext, NEW k, NEW x
    PROVE  Store!File(name, ext, k, x) = [live |-> TRUE, name |-> name, ext |-> ext, dir |-> 0,
                                          size |-> k, x |-> x]
  <1> DEFINE no == FALSE
             yes == TRUE
  <1>1. Store!File(name, ext, k, x)
           = [[[[[Store!Free EXCEPT !.live = yes] EXCEPT !.name = name] EXCEPT !.ext = ext]
                 EXCEPT !.size = k] EXCEPT !.x = x]
    BY Zenon DEF Store!File
  <1>2. Store!Free = [live |-> no, name |-> NoName, ext |-> NoExt, dir |-> 0, size |-> 0, x |-> NoData]
    BY Zenon DEF Store!Free
  <1> HIDE DEF no, yes
  <1> DEFINE r == [Store!Free EXCEPT !.live = yes]
  <1>3. r = [live |-> yes, name |-> NoName, ext |-> NoExt, dir |-> 0, size |-> 0, x |-> NoData]
    BY <1>2
  <1> HIDE DEF r
  <1> DEFINE u == [r EXCEPT !.name = name]
  <1>4. u = [live |-> yes, name |-> name, ext |-> NoExt, dir |-> 0, size |-> 0, x |-> NoData]
    BY <1>3
  <1> HIDE DEF u
  <1> DEFINE v == [u EXCEPT !.ext = ext]
  <1>5. v = [live |-> yes, name |-> name, ext |-> ext, dir |-> 0, size |-> 0, x |-> NoData]
    BY <1>4
  <1> HIDE DEF v
  <1> DEFINE w == [v EXCEPT !.size = k]
  <1>6. w = [live |-> yes, name |-> name, ext |-> ext, dir |-> 0, size |-> k, x |-> NoData]
    BY <1>5
  <1> HIDE DEF w
  <1>7. [w EXCEPT !.x = x] = [live |-> yes, name |-> name, ext |-> ext, dir |-> 0, size |-> k, x |-> x]
    BY <1>6
  <1> QED
    BY <1>1, <1>7, Zenon DEF r, u, v, w, yes

\* The entry of a new object is one for FileStore.
LEMMA NewStands ==
    ASSUME NEW d, NEW p, NEW n, NEW e, NEW k \in Nat, NEW x \in Contents, NEW c,
           d[c] = NewCluster(p, n, k, x, 1)
    PROVE  EntryIn(d, NewEntry(n, e, k, c)) = IF k = 0 THEN Store!Folder(n, c) ELSE Store!File(n, e, k, x)
  <1> DEFINE en == NewEntry(n, e, k, c)
  <1>1. /\ en.undelete /\ en.undelete = TRUE /\ en.cluster = c /\ en.name = n /\ en.filesize = k
        /\ en.ext = (IF k = 0 THEN NoExt ELSE e) /\ (en.subdir <=> k = 0)
    BY DEF NewEntry
  <1> HIDE DEF en
  <1>2. CASE k = 0
    <2>1. EntryIn(d, en) = [live |-> TRUE, name |-> n, ext |-> NoExt, dir |-> c, size |-> 0, x |-> NoData]
      BY <1>1, <1>2 DEF EntryIn
    <2> QED
      BY <1>2, <2>1, StoreFolder DEF en
  <1>3. CASE k # 0
    <2>1. d[c].data = <<x, 0>>
      <3>1. (1 - 1) % FRAGMENT_CTR_SIZE = 0
        BY SizeAssumption
      <3>2. NewCluster(p, n, k, x, 1) = [Blank EXCEPT !.data = <<x, (1 - 1) % FRAGMENT_CTR_SIZE>>]
        BY <1>3 DEF NewCluster
      <3> QED
        BY <3>1, <3>2 DEF Blank
    <2>2. d[c].data # NoData /\ d[c].data[1] = x
      BY <2>1, DataAssumption
    <2>3. EntryIn(d, en) = [live |-> TRUE, name |-> n, ext |-> e, dir |-> 0, size |-> k, x |-> x]
      BY <1>1, <1>3, <2>2 DEF EntryIn
    <2> QED
      BY <1>3, <2>3, StoreFile DEF en
  <1> QED
    BY <1>2, <1>3

\* The clusters after an object is added, and the directories among them.
AddedTo(d, f, d2, f2, p, i, en, new, c) ==
    /\ p \in Clusters /\ p \notin new /\ i \in Slots
    /\ \A b \in Clusters \ new : d2[b].subdir = d[b].subdir /\ d2[b].data = d[b].data
    /\ \A b \in Clusters \ new : d2[b].notEmpty = IF b = p THEN TRUE ELSE d[b].notEmpty
    /\ \A b \in Clusters \ new, l \in Slots :
          d2[b].slots[l] = IF b = p /\ l = i THEN en ELSE d[b].slots[l]
    /\ c \in new /\ new \cap DirsOf(d, f) = {} /\ new \subseteq Clusters
    /\ en.subdir => new = {c}
    /\ DirsOf(d2, f2) = DirsOf(d, f) \cup IF en.subdir THEN {c} ELSE {}

LEMMA AddedFields ==
    ASSUME NEW d \in Disk, NEW f, Sound(d, f), NEW d2, NEW f2, NEW p, NEW i, NEW en, NEW new,
           Added(d, f, d2, f2, p, i, en, new), NEW c, c = en.cluster
    PROVE  AddedTo(d, f, d2, f2, p, i, en, new, c)
  <1>1. /\ p \in FatIndex /\ p \in Clusters /\ d[p].subdir /\ f[p] # 0 /\ i \in Slots
        /\ new \subseteq {b \in 3 .. CLUSTER_MAP_SIZE - 1 : f[b] = 0}
        /\ \A b \in FatIndex \ new : f2[b] = f[b]
        /\ \A b \in Clusters \ (new \cup {p}) : d2[b] = d[b]
        /\ d2[p] = [d[p] EXCEPT !.notEmpty = TRUE, !.slots = [@ EXCEPT ![i] = en]]
        /\ Path(f2, c) = new /\ Holds(d2, f2, p, en)
    BY SizeFacts DEF Added, FreeSlots
  <1>2. p \notin new /\ d[p] \in Cluster /\ d[p].slots \in [Slots -> Entry]
    BY <1>1 DEF Disk, Cluster
  <1>3. /\ d2[p].subdir = d[p].subdir /\ d2[p].data = d[p].data /\ d2[p].notEmpty = TRUE
        /\ d2[p].slots = [d[p].slots EXCEPT ![i] = en]
    <2>1. d[p] \in Cluster /\ d2[p] = [d[p] EXCEPT !.notEmpty = TRUE, !.slots = [@ EXCEPT ![i] = en]]
      BY <1>1, <1>2
    <2> QED
      BY ONLY <2>1 DEF Cluster
  <1>4. \A b \in Clusters \ new : d2[b].subdir = d[b].subdir /\ d2[b].data = d[b].data
    BY <1>1, <1>3
  <1>5. \A b \in Clusters \ new : d2[b].notEmpty = IF b = p THEN TRUE ELSE d[b].notEmpty
    BY <1>1, <1>3
  <1>6. ASSUME NEW b \in Clusters \ new, NEW l \in Slots
        PROVE  d2[b].slots[l] = IF b = p /\ l = i THEN en ELSE d[b].slots[l]
    <2>1. CASE b = p
      BY <1>2, <1>3, <2>1
    <2>2. CASE b # p
      BY <1>1, <2>2
    <2> QED
      BY <2>1, <2>2
  <1>7. c \in new /\ new \cap DirsOf(d, f) = {} /\ new \subseteq Clusters
    <2>1. c \in Clusters
      BY <1>1 DEF Holds, Stored
    <2> QED
      BY <1>1, <2>1, ReachBasic, SizeFacts DEF Path, DirsOf, Clusters
  <1>8. en.subdir => new = {c}
    BY <1>1, FolderPath DEF Holds
  <1>9. \A b \in new : b \in FatIndex /\ f2[b] # 0 /\ d2[b].subdir = en.subdir
    <2>1. \A b \in new : f2[b] # 0 /\ d2[b].subdir = en.subdir
      BY <1>1 DEF Holds, Stored
    <2> QED
      BY <1>1, <2>1, SizeFacts DEF FatIndex
  <1>10. DirsOf(d2, f2) = DirsOf(d, f) \cup IF en.subdir THEN {c} ELSE {}
    <2>1. \A b \in FatIndex \ new : b \in DirsOf(d2, f2) <=> b \in DirsOf(d, f)
      BY <1>1, <1>4, SizeFacts DEF DirsOf
    <2>2. \A b \in new : b \in DirsOf(d2, f2) <=> en.subdir
      BY <1>9 DEF DirsOf
    <2>3. DirsOf(d2, f2) \subseteq FatIndex /\ DirsOf(d, f) \subseteq FatIndex
      BY DEF DirsOf
    <2>4. CASE en.subdir
      BY <1>7, <1>8, <1>9, <2>1, <2>2, <2>3, <2>4
    <2>5. CASE ~en.subdir
      BY <1>7, <2>1, <2>2, <2>3, <2>5
    <2> QED
      BY <2>4, <2>5
  <1> QED
    BY <1>1, <1>2, <1>4, <1>5, <1>6, <1>7, <1>8, <1>10 DEF AddedTo

\* write adds an object, in the first slot of the table of p that is free.
Writes(d, f, d2, f2, p, n, e, k, x, c, new) ==
    /\ d \in Disk /\ Sound(d, f) /\ p \in DirsOf(d, f) /\ k \in Nat /\ x \in Contents
    /\ Added(d, f, d2, f2, p, Min(FreeSlots(d[p])), NewEntry(n, e, k, c), new)
    /\ d2[c] = NewCluster(p, n, k, x, 1)

\* A table as write makes it.
LEMMA EmptyTable ==
    \A n, p : LET t == init_directory_table(n, p)
              IN  t.notEmpty = FALSE /\ \A l \in Slots : t.slots[l] = NullEntry
  <1> TAKE n, p
  <1> DEFINE t == init_directory_table(n, p)
  <1>1. t.notEmpty = Blank.notEmpty /\ t.slots = Blank.slots
    BY DEF init_directory_table, Blank
  <1>2. Blank.notEmpty = FALSE /\ \A l \in Slots : Blank.slots[l] = NullEntry
    BY DEF Blank
  <1> QED
    BY <1>1, <1>2

\* FileStore's Create, where the driver adds an object.
LEMMA AddedStore ==
    ASSUME NEW d, NEW f, NEW d2, NEW f2, NEW p, NEW n, NEW e, NEW k, NEW x, NEW c, NEW new,
           Writes(d, f, d2, f2, p, n, e, k, x, c, new),
           NEW s, s = StoreIn(d, f), NEW r, r = Store!Create(s, p, n, e, k, x, c)
    PROVE  /\ r = StoreIn(d2, f2)
           /\ c \notin DOMAIN s /\ c \in Clusters /\ Store!HasRoom(s, p)
  <1> DEFINE i == Min(FreeSlots(d[p]))
             en == NewEntry(n, e, k, c)
  <1>0. /\ d \in Disk /\ Sound(d, f) /\ p \in DirsOf(d, f) /\ k \in Nat /\ x \in Contents
        /\ Added(d, f, d2, f2, p, i, en, new)
        /\ d2[c] = NewCluster(p, n, k, x, 1)
    BY DEF Writes
  <1> DEFINE t == IF k = 0 THEN Store!Folder(n, c) ELSE Store!File(n, e, k, x)
             put == Store!Put(s, p, i, t)
             made == Marked(put, p)
             sp == [l \in Slots |-> EntryIn(d, d[p].slots[l])]
  <1>1. en.cluster = c /\ (en.subdir <=> k = 0)
    BY DEF NewEntry
  <1> HIDE DEF i, en
  <1>2. /\ p \in Clusters /\ p \notin new /\ i \in Slots
        /\ \A b \in Clusters \ new : d2[b].subdir = d[b].subdir /\ d2[b].data = d[b].data
        /\ \A b \in Clusters \ new : d2[b].notEmpty = IF b = p THEN TRUE ELSE d[b].notEmpty
        /\ \A b \in Clusters \ new, l \in Slots :
              d2[b].slots[l] = IF b = p /\ l = i THEN en ELSE d[b].slots[l]
        /\ c \in new /\ new \cap DirsOf(d, f) = {} /\ new \subseteq Clusters
        /\ DirsOf(d2, f2) = DirsOf(d, f) \cup IF k = 0 THEN {c} ELSE {}
    <2>1. AddedTo(d, f, d2, f2, p, i, en, new, c)
      BY <1>0, <1>1, AddedFields
    <2>2. CASE k = 0
      BY <1>1, <2>1, <2>2 DEF AddedTo
    <2>3. CASE k # 0
      BY <1>1, <2>1, <2>3 DEF AddedTo
    <2> QED
      BY <2>2, <2>3
  <1>3. EntryIn(d2, en) = t
    BY <1>0, NewStands DEF en
  <1>4. /\ DOMAIN s = DirsOf(d, f) /\ \A b \in DirsOf(d, f) : s[b] = DirIn(d, b)
        /\ s = [b \in DOMAIN s |-> s[b]] /\ p \in DOMAIN s
        /\ s[p] = [notEmpty |-> d[p].notEmpty, slots |-> sp]
        /\ Store!FirstFree(s, p) = i /\ Store!LiveIn(s, p) = LiveSlots(d[p])
    BY <1>0, StoreDirectory DEF StoreIn, DirIn, i
  <1>5. ASSUME NEW b \in DirsOf(d, f), NEW l \in Slots
        PROVE  EntryIn(d2, d[b].slots[l]) = EntryIn(d, d[b].slots[l])
    <2>1. \A a \in FatIndex : f[a] # 0 /\ ~d[a].subdir => d2[a].data = d[a].data
      <3>1. new \subseteq {a \in 3 .. CLUSTER_MAP_SIZE - 1 : f[a] = 0}
        BY <1>0 DEF Added
      <3> QED
        BY <1>2, <3>1, SizeFacts
    <2>2. b \in Clusters /\ d[b].subdir
      BY SizeFacts DEF DirsOf
    <2> QED
      BY <1>0, <2>1, <2>2, EntrySame
  <1> HIDE DEF t, sp
  <1>6. put = [b \in DOMAIN s |-> IF b = p THEN [notEmpty |-> d[p].notEmpty, slots |-> [sp EXCEPT ![i] = t]]
                                  ELSE s[b]]
    BY ONLY <1>4, PutFields DEF put
  <1> HIDE DEF put
  <1>7. made = [b \in DOMAIN s |-> IF b = p THEN [notEmpty |-> TRUE, slots |-> [sp EXCEPT ![i] = t]]
                                   ELSE s[b]]
    <2>1. /\ put = [b \in DOMAIN put |-> put[b]] /\ p \in DOMAIN put /\ DOMAIN put = DOMAIN s
          /\ put[p] = [notEmpty |-> d[p].notEmpty, slots |-> [sp EXCEPT ![i] = t]]
          /\ \A b \in DOMAIN s : b # p => put[b] = s[b]
      BY <1>4, <1>6
    <2>2. made = [b \in DOMAIN put |-> IF b = p THEN [notEmpty |-> TRUE, slots |-> [sp EXCEPT ![i] = t]]
                                       ELSE put[b]]
      BY ONLY <2>1, MarkFields DEF made
    <2> QED
      BY <2>1, <2>2
  <1>8. r = IF k = 0 THEN [b \in DOMAIN s \cup {c} |-> IF b = c THEN Store!EmptyDir ELSE made[b]]
            ELSE made
    <2> DEFINE j == Store!FirstFree(s, p)
               grown == [Store!Put(s, p, j, t) EXCEPT ![p].notEmpty = TRUE]
    <2>1. r = IF k = 0 THEN [b \in DOMAIN s \cup {c} |-> IF b = c THEN Store!EmptyDir ELSE grown[b]]
              ELSE grown
      BY Zenon DEF Store!Create, t
    <2>2. grown = made
      BY <1>4, Zenon DEF made, put, Marked
    <2> HIDE DEF grown, j
    <2> QED
      BY <2>1, <2>2, Zenon
  <1> HIDE DEF made
  <1>9. ASSUME NEW b \in DirsOf(d, f)
        PROVE  made[b] = DirIn(d2, b)
    <2>1. b \in Clusters \ new /\ b \in DOMAIN s
      BY <1>2, <1>4, SizeFacts DEF DirsOf
    <2>2. CASE b = p
      <3>1. d2[b].notEmpty = TRUE
        BY <1>2, <2>1, <2>2
      <3>2. [sp EXCEPT ![i] = t] = [l \in Slots |-> EntryIn(d2, d2[b].slots[l])]
        <4>1. ASSUME NEW l \in Slots
              PROVE  EntryIn(d2, d2[b].slots[l]) = IF l = i THEN t ELSE EntryIn(d, d[p].slots[l])
          <5>1. d2[b].slots[l] = IF l = i THEN en ELSE d[p].slots[l]
            BY <1>2, <2>1, <2>2
          <5> QED
            BY <1>3, <1>5, <2>2, <5>1
        <4> QED
          BY <4>1 DEF sp
      <3> QED
        BY <1>7, <2>1, <2>2, <3>1, <3>2, Zenon DEF DirIn
    <2>3. CASE b # p
      <3>1. \A l \in Slots : EntryIn(d2, d2[b].slots[l]) = EntryIn(d, d[b].slots[l])
        BY <1>2, <1>5, <2>1, <2>3
      <3>2. made[b] = DirIn(d, b)
        BY <1>4, <1>7, <2>1, <2>3
      <3>3. d2[b].notEmpty = d[b].notEmpty
        BY <1>2, <2>1, <2>3
      <3> QED
        BY <3>1, <3>2, <3>3 DEF DirIn
    <2> QED
      BY <2>2, <2>3
  <1>10. c \notin DOMAIN s /\ c \in Clusters
    BY <1>2, <1>4
  <1>11. ASSUME k = 0
         PROVE  Store!EmptyDir = DirIn(d2, c)
    <2>1. d2[c] = init_directory_table(n, p)
      BY <1>0, <1>11 DEF NewCluster
    <2>2. d2[c].notEmpty = FALSE /\ \A l \in Slots : d2[c].slots[l] = NullEntry
      BY <2>1, EmptyTable, Zenon
    <2>3. \A l \in Slots : EntryIn(d2, d2[c].slots[l]) = Store!Free
      BY <2>2, FreeEntry
    <2> QED
      BY <2>2, <2>3, Zenon DEF DirIn, Store!EmptyDir
  <1>12. r = StoreIn(d2, f2)
    <2>1. CASE k = 0
      <3>1. r = [b \in DOMAIN s \cup {c} |-> DirIn(d2, b)]
        BY <1>4, <1>8, <1>9, <1>10, <1>11, <2>1
      <3> QED
        BY <1>2, <1>4, <2>1, <3>1 DEF StoreIn
    <2>2. CASE k # 0
      <3>1. made = [b \in DOMAIN s |-> made[b]]
        BY <1>7
      <3>2. r = [b \in DOMAIN s |-> DirIn(d2, b)]
        BY <1>4, <1>8, <1>9, <2>2, <3>1
      <3> QED
        BY <1>2, <1>4, <2>2, <3>2 DEF StoreIn
    <2> QED
      BY <2>1, <2>2
  <1>13. Store!HasRoom(s, p)
    <2>1. i \in FreeSlots(d[p])
      BY <1>0 DEF Added
    <2> QED
      BY <1>4, <2>1 DEF FreeSlots, Store!HasRoom
  <1> QED
    BY <1>10, <1>12, <1>13

\* The entry that write must not find.
LEMMA ExistsSame ==
    ASSUME NEW d, NEW f, Sound(d, f), NEW p \in DirsOf(d, f), NEW s, s = StoreIn(d, f),
           NEW n, NEW e, NEW folder \in BOOLEAN
    PROVE  Store!Exists(s, p, n, e, folder) <=> Exists(d[p], n, e, folder)
  <1>1. /\ \A i \in Slots : Store!At(s, p, i) = EntryIn(d, d[p].slots[i])
        /\ Store!LiveIn(s, p) = LiveSlots(d[p])
        /\ \A i \in LiveSlots(d[p]) : Store!IsFolder(Store!At(s, p, i)) <=> d[p].slots[i].subdir
        /\ Store!Named(s, p, n, e) = Named(d[p], n, e)
    BY StoreDirectory
  <1>2. CASE folder
    <2>1. \A i \in LiveSlots(d[p]) : i \in Slots /\ Store!At(s, p, i).name = d[p].slots[i].name
      BY <1>1 DEF EntryIn, LiveSlots
    <2> QED
      BY <1>1, <1>2, <2>1 DEF Store!Exists, Exists
  <1>3. CASE ~folder
    BY <1>1, <1>3 DEF Store!Exists, Exists, Named, LiveSlots
  <1> QED
    BY <1>2, <1>3

LEMMA writeStore ==
    ASSUME Fresh, NEW p \in Parents, NEW n \in Names, NEW e \in Exts,
           NEW k \in 0 .. MAX_FILE_CLUSTERS, NEW x \in Contents, write(p, n, e, k, x)
    PROVE  Store!Next
  <1> DEFINE v == DirView(diskFat)
             exists == \E t \in Reach(v, p) : Exists(disk[t], n, e, k = 0)
  <1>1. k \in Nat /\ (k = 0) \in BOOLEAN /\ k \in 0 .. MAX_FILE_CLUSTERS
    BY SizeAssumption
  <1>2. \/ disk[p].subdir /\ ~exists /\ Terminates(v, p) /\ WriteObject(p, n, e, k, x)
        \/ /\ ~disk[p].subdir \/ exists \/ ~Terminates(v, p)
           /\ Breach(Stale(p))
           /\ fat_table' = diskFat
           /\ IF ~disk[p].subdir THEN Answer(2, <<>>)
              ELSE IF exists THEN Answer(1, <<>>) ELSE Hang
           /\ UNCHANGED <<disk, diskFat>>
    BY DEF write
  <1>3. ASSUME Known(p)
        PROVE  Store!Exists(StoreOf, p, n, e, k = 0) <=> Exists(disk[p], n, e, k = 0)
    BY <1>1, <1>3, ExistsSame DEF Known
  <1>4. CASE disk[p].subdir /\ ~exists /\ Terminates(v, p) /\ WriteObject(p, n, e, k, x)
    <2>1. /\ fat_table' = diskFat' /\ Answer(0, <<>>)
          /\ diskFat[p] # 0 /\ ~Exists(disk[p], n, e, k = 0)
          /\ \E c, new :
               LET en == NewEntry(n, e, k, c)
               IN  /\ en \in Entry /\ disk'[c] = NewCluster(p, n, k, x, 1)
                   /\ Added(disk, diskFat, disk', diskFat', p, HomeSlot(p), en, new)
      BY <1>4, WriteObjectGood, GoodFit DEF Fresh, Within
    <2>2. PICK c, new : /\ disk'[c] = NewCluster(p, n, k, x, 1)
                        /\ Added(disk, diskFat, disk', diskFat', p, HomeSlot(p), NewEntry(n, e, k, c), new)
      BY <2>1
    <2>3. Known(p)
      <3>1. p \in Dirs
        BY <2>1, <1>4, SizeFacts DEF Dirs, Fresh, Good, Parents, FatIndex
      <3> QED
        BY <3>1, DirectoryKnown
    <2>4. c \in Parents
      <3>1. /\ c = NewEntry(n, e, k, c).cluster
            /\ Holds(disk', diskFat', p, NewEntry(n, e, k, c))
            /\ Path(diskFat', NewEntry(n, e, k, c).cluster) = new
            /\ new \subseteq {b \in 3 .. CLUSTER_MAP_SIZE - 1 : diskFat[b] = 0}
        BY <2>2 DEF Added, NewEntry
      <3>2. c \in new
        BY <3>1, ReachBasic DEF Path, Holds, Stored
      <3> QED
        BY <3>1, <3>2, SizeFacts DEF Parents
    <2> DEFINE made == Store!Create(StoreOf, p, n, e, k, x, c)
    <2>5. /\ made = StoreIn(disk', diskFat')
          /\ c \notin DOMAIN StoreOf /\ Store!HasRoom(StoreOf, p)
      <3>1. Writes(disk, diskFat, disk', diskFat', p, n, e, k, x, c, new)
        BY <1>1, <2>2, <2>3 DEF Writes, Known, Fresh, IInv, DiskOK, Disk, HomeSlot
      <3>2. StoreOf = StoreIn(disk, diskFat) /\ made = Store!Create(StoreOf, p, n, e, k, x, c)
        BY <2>3 DEF Known
      <3> HIDE DEF made
      <3> QED
        BY ONLY <3>1, <3>2, AddedStore
    <2>6. Store!Write(StoreOf, p, n, e, k, x, c) = [ret |-> 0, store |-> made]
      BY <1>3, <2>1, <2>3 DEF Store!Write
    <2>7. StoreOf' = made
      BY <2>1, <2>5, StoreNow
    <2> HIDE DEF made
    <2>8. Store!write(p, n, e, k, x, c)
      BY <2>1, <2>5, <2>6, <2>7 DEF Store!write, Store!Done, Answer
    <2>9. p \in DOMAIN StoreOf
      BY <2>3 DEF Known
    <2> QED
      BY <1>1, <2>4, <2>8, <2>9 DEF Store!Next
  <1>5. CASE /\ ~disk[p].subdir \/ exists \/ ~Terminates(v, p)
             /\ Breach(Stale(p))
             /\ fat_table' = diskFat
             /\ IF ~disk[p].subdir THEN Answer(2, <<>>)
                ELSE IF exists THEN Answer(1, <<>>) ELSE Hang
             /\ UNCHANGED <<disk, diskFat>>
    <2>1. Known(p)
      BY <1>5, ParentKnown
    <2>2. disk[p].subdir /\ Reach(v, p) = {p} /\ Terminates(v, p)
      BY <2>1, TableWalk, GoodFit DEF Known, DirView, Fresh
    <2>3. exists /\ Exists(disk[p], n, e, k = 0)
      BY <1>5, <2>2
    <2>4. Answer(1, <<>>)
      BY <1>5, <2>2, <2>3
    <2>5. StoreOf' = StoreOf
      BY <1>5, SameStore DEF Same, Fresh
    <2> DEFINE c == ROOT_CLUSTER_NUMBER
    <2>6. Store!Write(StoreOf, p, n, e, k, x, c) = [ret |-> 1, store |-> StoreOf]
      BY <1>3, <2>1, <2>3 DEF Store!Write
    <2>7. Store!write(p, n, e, k, x, c)
      BY <1>3, <2>1, <2>3, <2>4, <2>5, <2>6 DEF Store!write, Store!Done, Answer
    <2>8. p \in DOMAIN StoreOf /\ c \in Parents
      BY <2>1, SizeFacts DEF Known, Parents, ROOT_CLUSTER_NUMBER
    <2> QED
      BY <1>1, <2>7, <2>8 DEF Store!Next
  <1> QED
    BY <1>2, <1>4, <1>5

-----------------------------------------------------------------------------
(***************************************************************************)
(* The refinement                                                          *)
(***************************************************************************)
\* The root directory stays a directory.
LEMMA EffectRoot ==
    ASSUME IInv, Good, Effect, disk[ROOT_CLUSTER_NUMBER].subdir
    PROVE  disk'[ROOT_CLUSTER_NUMBER].subdir
  <1> DEFINE root == ROOT_CLUSTER_NUMBER
  <1>1. disk \in Disk /\ Sound(disk, diskFat) /\ root \in Clusters /\ root \in FatIndex
        /\ diskFat[root] # 0 /\ root \in DirsOf(disk, diskFat)
    BY SizeFacts DEF IInv, DiskOK, FatOK, Disk, Good, DirsOf, ROOT_CLUSTER_NUMBER
  <1> HIDE DEF root
  <1>2. ASSUME NEW p, NEW i, NEW en, NEW new, Added(disk, diskFat, disk', diskFat', p, i, en, new)
        PROVE  disk'[root].subdir
    <2>1. AddedTo(disk, diskFat, disk', diskFat', p, i, en, new, en.cluster)
      BY <1>1, <1>2, AddedFields
    <2> QED
      BY <1>1, <2>1 DEF AddedTo, DirsOf
  <1>3. ASSUME NEW p, NEW i, Removed(disk, diskFat, disk', diskFat', p, i)
        PROVE  disk'[root].subdir
    <2> DEFINE cleared == [disk[p] EXCEPT !.slots[i] = NullEntry]
               flag == IF LiveSlots(cleared) = {} THEN FALSE ELSE cleared.notEmpty
    <2>1. p \in Clusters /\ disk[p] \in Cluster
      BY <1>1, <1>3 DEF Removed, InTable, Tables, Disk
    <2>2. disk' = [disk EXCEPT ![p] = [cleared EXCEPT !.notEmpty = flag]]
      BY <1>3 DEF Removed
    <2> HIDE DEF flag
    <2>3. [cleared EXCEPT !.notEmpty = flag].subdir = disk[p].subdir
      BY <2>1 DEF Cluster
    <2> HIDE DEF cleared
    <2> QED
      BY <1>1, <2>1, <2>2, <2>3 DEF Disk, DirsOf
  <1>4. ASSUME NEW p, NEW i, NEW new, Relabelled(disk, diskFat, disk', diskFat', p, i, new)
        PROVE  disk'[root].subdir
    <2>1. disk'[root].subdir = disk[root].subdir
      BY <1>1, <1>4, RelabelledFields
    <2> QED
      BY <1>1, <2>1 DEF DirsOf
  <1>5. ASSUME NEW p, NEW i, NEW q, NEW j, Carried(disk, diskFat, disk', diskFat', p, i, q, j)
        PROVE  disk'[root].subdir
    <2>1. disk'[root].subdir = disk[root].subdir
      BY <1>1, <1>5, CarriedFields
    <2> QED
      BY <1>1, <2>1 DEF DirsOf
  <1>6. CASE Same
    BY <1>6 DEF Same
  <1> QED
    BY <1>2, <1>3, <1>4, <1>5, <1>6 DEF Effect, Adds, Removes, Relabels, Carries, root

RInv == SInv /\ (Within => disk[ROOT_CLUSTER_NUMBER].subdir)

LEMMA InitRoot == Init => RInv
  <1> SUFFICES ASSUME Init PROVE disk[ROOT_CLUSTER_NUMBER].subdir
    BY InitSound DEF RInv
  <1>1. disk[ROOT_CLUSTER_NUMBER] = init_directory_table(RootName, ROOT_CLUSTER_NUMBER)
    BY SizeFacts DEF Init, create_fat32, ROOT_CLUSTER_NUMBER
  <1> QED
    BY <1>1 DEF init_directory_table, Blank

LEMMA NextRoot == ASSUME RInv, [Next]_vars PROVE RInv'
  <1>1. SInv' /\ (Within' => Good)
    BY NextSound DEF RInv
  <1>2. ASSUME Within' PROVE disk'[ROOT_CLUSTER_NUMBER].subdir
    <2>1. Within
      BY <1>2, LimitsGrow DEF Within
    <2>2. IInv
      BY <2>1, WithinIInv DEF RInv, SInv
    <2>3. Effect
      BY <1>1, <1>2, <2>2, NextEffect
    <2> QED
      BY <1>1, <1>2, <2>1, <2>2, <2>3, EffectRoot DEF RInv
  <1> QED
    BY <1>1, <1>2 DEF RInv

LEMMA RootInvariance == Spec => []RInv
  <1>1. RInv /\ [Next]_vars => RInv'
    BY NextRoot
  <1> QED
    BY <1>1, InitRoot, PTL DEF Spec

\* Every call is one of FileStore's, as long as limits' allows only moves.
LEMMA StepStore ==
    ASSUME RInv, [Next]_vars, limits' \subseteq {"moved"}
    PROVE  [Store!Next]_<<StoreOf, reply>>
  <1>1. Fresh
    <2>1. Within
      BY LimitsGrow DEF Within
    <2>2. IInv
      BY <2>1, WithinIInv DEF RInv, SInv
    <2> QED
      BY <2>1, <2>2 DEF Fresh, RInv, SInv
  <1>2. ASSUME NEW p \in Parents, NEW n \in Names, NEW e \in Exts, NEW size \in BufferSizes,
               read_directory(p, n, e, size)
        PROVE  Store!Next
    BY <1>1, <1>2, read_directoryStore
  <1>3. ASSUME NEW p \in Parents, NEW n \in Names, NEW e \in Exts, NEW size \in BufferSizes,
               read(p, n, e, size)
        PROVE  Store!Next
    BY <1>1, <1>3, readStore
  <1>4. ASSUME NEW p \in Parents, NEW n \in Names, NEW e \in Exts, NEW size \in BufferSizes,
               NEW new \in Names, rename_dir(p, n, e, size, new)
        PROVE  Store!Next
    BY <1>1, <1>4, rename_dirStore
  <1>5. ASSUME NEW p \in Parents, NEW n \in Names, NEW e \in Exts, NEW size \in BufferSizes,
               NEW q \in Parents, move_dir(p, n, e, size, q)
        PROVE  Store!Next
    BY <1>1, <1>5, move_dirStore
  <1>6. ASSUME NEW p \in Parents, NEW n \in Names, NEW e \in Exts,
               NEW k \in 0 .. MAX_FILE_CLUSTERS, NEW x \in Contents, write(p, n, e, k, x)
        PROVE  Store!Next
    BY <1>1, <1>6, writeStore
  <1>7. ASSUME NEW p \in Parents, NEW n \in Names, NEW e \in Exts, delete(p, n, e)
        PROVE  Store!Next
    BY <1>1, <1>7, deleteStore
  <1>8. CASE read_root_directory \/ initialize_filesystem_fat32
    BY <1>1, <1>8, RestStore
  <1>9. CASE UNCHANGED vars
    <2>1. StoreOf' = StoreOf /\ reply' = reply
      BY <1>9, StoreNow DEF vars
    <2> QED
      BY <2>1
  <1> QED
    BY <1>2, <1>3, <1>4, <1>5, <1>6, <1>7, <1>8, <1>9, Zenon DEF Next

\* A new file system is a root directory without entries.
LEMMA InitStore == Init => Store!Init
  <1> SUFFICES ASSUME Init PROVE Store!Init
    OBVIOUS
  <1> DEFINE root == ROOT_CLUSTER_NUMBER
  <1>1. /\ \A c \in Clusters \ {root} : disk[c] = Blank
        /\ disk[root] = init_directory_table(RootName, root)
        /\ fat_table = FreshFat /\ reply = NoReply /\ root \in Clusters /\ root \in FatIndex
    BY SizeFacts DEF Init, create_fat32, ROOT_CLUSTER_NUMBER
  <1>2. \A c \in Clusters \ {root} : ~disk[c].subdir
    BY <1>1 DEF Blank
  <1>3. disk[root].subdir /\ disk[root].notEmpty = FALSE /\ \A l \in Slots : disk[root].slots[l] = NullEntry
    <2> DEFINE table == disk[root]
    <2>1. table = init_directory_table(RootName, root)
      BY <1>1
    <2> HIDE DEF table, root
    <2>2. table.subdir = TRUE /\ table.notEmpty = FALSE /\ \A l \in Slots : table.slots[l] = NullEntry
      BY ONLY <2>1, Zenon DEF init_directory_table, Blank
    <2> QED
      BY <2>2 DEF table
  <1>4. fat_table[root] # 0
    BY <1>1, SizeFacts DEF FreshFat, ROOT_CLUSTER_NUMBER, FatIndex
  <1> HIDE DEF root
  <1>5. DirsOf(disk, fat_table) = {root}
    BY <1>1, <1>2, <1>3, <1>4, SizeFacts DEF DirsOf
  <1>6. DirIn(disk, root) = Store!EmptyDir
    <2>1. \A l \in Slots : EntryIn(disk, disk[root].slots[l]) = Store!Free
      BY <1>3, FreeEntry
    <2> QED
      BY <1>3, <2>1, Zenon DEF DirIn, Store!EmptyDir
  <1>7. StoreIn(disk, fat_table) = [c \in {root} |-> Store!EmptyDir]
    BY <1>5, <1>6 DEF StoreIn
  <1> QED
    BY <1>1, <1>7, StoreNow DEF Store!Init, NoReply, root

\* Until a call reaches a cluster that is not a directory any more, every call
\* answers and leaves the directories as FileStore says, also when directories
\* are moved (fat32.c: read_directory to move_dir): no chain, no second table,
\* no FAT and no buffer shows in what callers see.
THEOREM ImplementsUntilStale == Spec => ImplementsStoreUntilStale
  <1>1. RInv /\ [Next]_vars => [limits' \subseteq {"moved"} => Store!Next]_<<StoreOf, reply>>
    BY StepStore
  <1> QED
    BY <1>1, InitStore, RootInvariance, PTL DEF Spec, ImplementsStoreUntilStale

\* The driver is a FileStore where callers only move directories and keep
\* within all its other limits, and do not use what move_dir leaves stale
\* (fat32.c: read_directory to move_dir).
THEOREM Implements ==
    ASSUME Breaches \subseteq {"moved"}
    PROVE  Spec => ImplementsStore
  <1>1. RInv /\ RInv' /\ [Next]_vars => [Store!Next]_<<StoreOf, reply>>
    <2> SUFFICES ASSUME RInv, RInv', [Next]_vars PROVE [Store!Next]_<<StoreOf, reply>>
      OBVIOUS
    <2>1. limits' \subseteq {"moved"}
      BY DEF RInv, SInv, Base, Held
    <2> QED
      BY <2>1, StepStore
  <1> QED
    BY <1>1, InitStore, RootInvariance, PTL DEF Spec, ImplementsStore, Store!Spec, Store!vars
=============================================================================
