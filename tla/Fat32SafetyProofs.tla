-------------------------- MODULE Fat32SafetyProofs --------------------------
(***************************************************************************)
(* The safety properties of Fat32 that hold within its limits: the file    *)
(* system is sound in the beginning, and every call leaves it so.          *)
(***************************************************************************)
EXTENDS Fat32CallProofs

\* A call changes nothing, or makes one of the four changes.
Adds == \E p, i, en, new : en \in Entry /\ Added(disk, diskFat, disk', diskFat', p, i, en, new)

Removes == \E p \in Parents : \E i : Removed(disk, diskFat, disk', diskFat', p, i)

Relabels == \E p, i, new : Relabelled(disk, diskFat, disk', diskFat', p, i, new)

Carries ==
    /\ "moved" \in limits'
    /\ \E p, i, q, j : Carried(disk, diskFat, disk', diskFat', p, i, q, j)

Effect == \/ Same
          \/ fat_table' = diskFat' /\ (Adds \/ Removes \/ Relabels \/ Carries)

\* Nothing is written to the boot sector.
LEMMA BootIntact == ASSUME Good PROVE ~is_empty_storage
  BY DEF Good, Sound, is_empty_storage, Blank

\* What every call does within the limits.
LEMMA NextEffect == ASSUME IInv, Good, [Next]_vars, Within' PROVE Effect
  <1>1. ASSUME NEW p \in Parents, NEW n \in Names, NEW e \in Exts, NEW size \in BufferSizes,
               read_directory(p, n, e, size)
        PROVE  Effect
    BY <1>1, read_directorySame, GoodFit DEF Effect
  <1>2. ASSUME NEW p \in Parents, NEW n \in Names, NEW e \in Exts, NEW size \in BufferSizes,
               read(p, n, e, size)
        PROVE  Effect
    BY <1>2, readSame, GoodFit DEF Effect
  <1>3. ASSUME NEW p \in Parents, NEW n \in Names, NEW e \in Exts, NEW size \in BufferSizes,
               NEW new \in Names, rename_dir(p, n, e, size, new)
        PROVE  Effect
    BY <1>3, rename_dirGood, GoodFit DEF Effect, Relabels
  <1>4. ASSUME NEW p \in Parents, NEW n \in Names, NEW e \in Exts, NEW size \in BufferSizes,
               NEW q \in Parents, move_dir(p, n, e, size, q)
        PROVE  Effect
    BY <1>4, move_dirGood, GoodFit DEF Effect, Carries
  <1>5. ASSUME NEW p \in Parents, NEW n \in Names, NEW e \in Exts,
               NEW k \in 0 .. MAX_FILE_CLUSTERS, NEW x \in Contents, write(p, n, e, k, x)
        PROVE  Effect
    BY <1>5, writeGood, GoodFit DEF Effect, Adds
  <1>6. ASSUME NEW p \in Parents, NEW n \in Names, NEW e \in Exts, delete(p, n, e)
        PROVE  Effect
    BY <1>6, deleteGood, GoodFit DEF Effect, Removes
  <1>7. CASE read_root_directory
    BY <1>7 DEF Effect, Same, read_root_directory, Good
  <1>8. CASE initialize_filesystem_fat32
    BY <1>8, BootIntact DEF Effect, Same, initialize_filesystem_fat32
  <1>9. CASE UNCHANGED vars
    BY <1>9 DEF Effect, Same, vars, Good
  <1> HIDE DEF Effect
  <1> QED
    BY <1>1, <1>2, <1>3, <1>4, <1>5, <1>6, <1>7, <1>8, <1>9, Zenon DEF Next

\* Every change keeps the file system sound, and all files but the one it
\* adds or removes.
LEMMA EffectSound ==
    ASSUME IInv, IInv', Good, Effect
    PROVE  Good' /\ FilesKept(disk, diskFat, disk', diskFat')
  <1>1. disk \in Disk /\ disk' \in Disk /\ Sound(disk, diskFat)
    BY DEF IInv, DiskOK, Disk, Good
  <1>2. CASE Same
    <2>1. Good' /\ disk' = disk /\ diskFat' = diskFat
      BY <1>2, SameGood DEF Same
    <2>2. \A s \in Refs(disk) : Kept(disk, diskFat, disk, diskFat, s)
      BY DEF Kept
    <2> QED
      BY <2>1, <2>2 DEF FilesKept
  <1>3. CASE fat_table' = diskFat' /\ Adds
    BY <1>1, <1>3, AddedSound DEF Adds, Good
  <1>4. CASE fat_table' = diskFat' /\ Removes
    BY <1>1, <1>4, RemovedSound DEF Removes, Good
  <1>5. CASE fat_table' = diskFat' /\ Relabels
    BY <1>1, <1>5, RelabelledSound DEF Relabels, Good
  <1>6. CASE fat_table' = diskFat' /\ Carries
    BY <1>1, <1>6, CarriedSound DEF Carries, Good
  <1> QED
    BY <1>2, <1>3, <1>4, <1>5, <1>6 DEF Effect

SInv == Base /\ (Within => Good)

LEMMA WithinIInv == ASSUME Base, Within PROVE IInv
  BY NotFull DEF Within

LEMMA FreshSound == ASSUME create_fat32 PROVE Sound(disk, diskFat)
  <1>1. /\ \A c \in Clusters \ {ROOT_CLUSTER_NUMBER} : disk[c] = Blank
        /\ disk[ROOT_CLUSTER_NUMBER] = init_directory_table(RootName, ROOT_CLUSTER_NUMBER)
        /\ diskFat = FreshFat
    BY SizeFacts DEF create_fat32, ROOT_CLUSTER_NUMBER
  <1>2. \A c \in Clusters : \A i \in Slots : ~disk[c].slots[i].undelete
    <2>1. init_directory_table(RootName, ROOT_CLUSTER_NUMBER).slots = Blank.slots
      BY DEF init_directory_table, Blank
    <2>2. \A i \in Slots : ~Blank.slots[i].undelete
      BY DEF Blank, NullEntry
    <2> QED
      BY <1>1, <2>1, <2>2
  <1>3. \A c \in Clusters : disk[c].subdir => c = ROOT_CLUSTER_NUMBER
    BY <1>1 DEF Blank
  <1>4. Refs(disk) = {} /\ \A c \in Clusters : LiveSlots(disk[c]) = {}
    BY <1>2 DEF Refs, Tables, LiveSlots
  <1>5. OneTable(disk, diskFat)
    BY <1>1, <1>3, SizeFacts DEF OneTable, FreshFat, ROOT_CLUSTER_NUMBER
  <1>6. disk[0] = Blank
    BY <1>1, SizeFacts DEF ROOT_CLUSTER_NUMBER
  <1>7. AllHold(disk, diskFat) /\ Disjoint(disk, diskFat) /\ NoClash(disk)
    BY <1>4 DEF AllHold, Disjoint, NoClash, Tables
  <1> QED
    BY <1>1, <1>5, <1>6, <1>7 DEF Sound

LEMMA InitSound == Init => SInv
  BY FreshSound, InitOK DEF Init, SInv, Good

LEMMA NextSound ==
    ASSUME SInv, [Next]_vars
    PROVE  SInv' /\ (Within' => FilesKept(disk, diskFat, disk', diskFat') /\ Good /\ Good')
  <1>1. Base'
    BY NextOK DEF SInv
  <1>2. ASSUME Within'
        PROVE  FilesKept(disk, diskFat, disk', diskFat') /\ Good /\ Good'
    <2>1. Good /\ Within
      BY <1>2, LimitsGrow DEF SInv, Within
    <2>2. IInv
      BY <2>1, WithinIInv DEF SInv
    <2>3. IInv'
      <3>1. "disk_full" \notin limits'
        BY <1>2 DEF Within
      <3> QED
        BY <1>1, <3>1, NotFullNext
    <2>4. Effect
      BY <1>2, <2>1, <2>2, NextEffect
    <2> QED
      BY <2>1, <2>2, <2>3, <2>4, EffectSound
  <1> QED
    BY <1>1, <1>2 DEF SInv

LEMMA SoundInvariance == Spec => []SInv
  <1>1. SInv /\ [Next]_vars => SInv'
    BY NextSound
  <1> QED
    BY <1>1, InitSound, PTL DEF Spec

-----------------------------------------------------------------------------
(***************************************************************************)
(* The theorems                                                            *)
(***************************************************************************)
LEMMA LiveEntryHolds ==
    ASSUME SInv, Within, NEW s \in LiveEntries
    PROVE  /\ s \in Refs(disk) /\ At(s) = Ref(disk, s) /\ fat_table = diskFat
           /\ s[1] \in Dirs /\ s[2] \in Slots
           /\ ChainOf(s) = Path(diskFat, At(s).cluster)
           /\ Holds(disk, diskFat, s[1], At(s))
  <1>1. Good
    BY DEF SInv
  <1>2. /\ s \in Refs(disk) /\ At(s) = Ref(disk, s) /\ s[1] \in Dirs /\ s[2] \in Slots
    BY SizeFacts DEF LiveEntries, Dirs, Refs, Ref, Tables, At
  <1>3. ChainOf(s) = Path(diskFat, At(s).cluster)
    BY <1>1 DEF ChainOf, FatNow, Path, Good
  <1>4. Holds(disk, diskFat, s[1], At(s))
    BY <1>1, <1>2 DEF Good, Sound, AllHold
  <1> QED
    BY <1>1, <1>2, <1>3, <1>4 DEF Good

\* Whatever is created, deleted, renamed and moved, and also when a caller
\* uses the number of a deleted directory, every live entry leads to a chain
\* that write has made for it: as long as its object, ending, marked used, and
\* of the object's kind.
THEOREM NothingDangles == Spec => []NoDangling
  <1>1. SInv => NoDangling
    <2> SUFFICES ASSUME SInv, Within, NEW s \in LiveEntries
                 PROVE  /\ ChainOf(s) \subseteq 3 .. CLUSTER_MAP_SIZE - 1
                        /\ Terminates(FatNow, At(s).cluster)
                        /\ \A c \in ChainOf(s) : fat_table[c] # 0 /\ disk[c].subdir = At(s).subdir
                        /\ Cardinality(ChainOf(s)) = IF At(s).subdir THEN 1 ELSE At(s).filesize
      BY DEF NoDangling, Within
    <2> QED
      BY LiveEntryHolds DEF Holds, Stored, FatNow
  <1> QED
    BY <1>1, SoundInvariance, PTL

\* Under the same conditions no cluster is used by two entries: write
\* allocates only what is free, and delete frees nothing that is in use.
THEOREM ChainsUnshared == Spec => []NoSharing
  <1>1. SInv => NoSharing
    <2> SUFFICES ASSUME SInv, Within, NEW s \in LiveEntries, NEW u \in LiveEntries, s # u
                 PROVE  ChainOf(s) \cap ChainOf(u) = {}
      BY DEF NoSharing, ClustersUnshared, Within
    <2>1. Disjoint(disk, diskFat)
      BY DEF SInv, Good, Sound
    <2> QED
      BY <2>1, LiveEntryHolds DEF Disjoint
  <1> QED
    BY <1>1, SoundInvariance, PTL

\* The header of a directory has the name and the parent that the entry it is
\* reached by says, through every rename_dir and move_dir.
THEOREM HeadersAgree == Spec => []HeaderAgrees
  <1>1. SInv => HeaderAgrees
    <2> SUFFICES ASSUME SInv, Within, NEW s \in LiveEntries, At(s).subdir
                 PROVE  /\ disk[At(s).cluster].name = At(s).name
                        /\ disk[At(s).cluster].parent = s[1]
      BY DEF HeaderAgrees, Within
    <2> QED
      BY LiveEntryHolds DEF Holds, Stored
  <1> QED
    BY <1>1, SoundInvariance, PTL

\* No directory has two files or two folders of the same name.
THEOREM NamesUnique == Spec => []UniqueNames
  <1>1. SInv => UniqueNames
    <2> SUFFICES ASSUME SInv, Within, NEW c \in Dirs,
                        NEW i \in LiveSlots(disk[c]), NEW j \in LiveSlots(disk[c]), i # j
                 PROVE  LET a == disk[c].slots[i]
                            b == disk[c].slots[j]
                        IN  a.name # b.name \/ a.ext # b.ext \/ a.subdir # b.subdir
      BY DEF UniqueNames, Within
    <2>1. c \in Tables(disk) /\ NoClash(disk)
      BY SizeFacts DEF Dirs, Tables, SInv, Good, Sound
    <2> QED
      BY <2>1 DEF NoClash, Clash
  <1> QED
    BY <1>1, SoundInvariance, PTL

\* A file holds the fragments of one write in their order, whatever has been
\* written and deleted around it.
THEOREM FilesIntact == Spec => []FileIntact
  <1>1. SInv => FileIntact
    <2> SUFFICES ASSUME SInv, Within, NEW s \in LiveEntries, ~At(s).subdir
                 PROVE  \E x \in Contents : \A i \in 1 .. At(s).filesize :
                           disk[Nth(FatNow, At(s).cluster, i)].data = <<x, i - 1>>
      BY DEF FileIntact, Within
    <2>1. Holds(disk, diskFat, s[1], At(s)) /\ FatNow = FatView(diskFat, NoName)
      BY LiveEntryHolds DEF FatNow
    <2> QED
      BY <2>1 DEF Holds, Stored, Part
  <1> QED
    BY <1>1, SoundInvariance, PTL

\* The data of a file that a call leaves.
LEMMA FileDataSame ==
    ASSUME SInv, [Next]_vars, Within', NEW s \in LiveEntries, ~At(s).subdir,
           s \in LiveEntries', At(s)' = At(s)
    PROVE  DataOf(s)' = DataOf(s)
  <1>1. SInv' /\ Good /\ Good' /\ FilesKept(disk, diskFat, disk', diskFat') /\ Within
    BY NextSound, LimitsGrow DEF Within
  <1>2. s \in Refs(disk) /\ At(s) = Ref(disk, s) /\ Holds(disk, diskFat, s[1], At(s))
    BY <1>1, LiveEntryHolds
  <1>3. s \in Refs(disk') /\ Ref(disk', s) = At(s)
    <2>1. s \in {u \in Clusters \X Slots : disk'[u[1]].subdir /\ disk'[u[1]].slots[u[2]].undelete}
      BY SizeFacts DEF LiveEntries, Dirs
    <2>2. s \in Refs(disk')
      BY <2>1 DEF Refs, Tables
    <2>3. Ref(disk', s) = At(s)
      BY DEF At, Ref
    <2> QED
      BY <2>2, <2>3
  <1>4. Kept(disk, diskFat, disk', diskFat', s)
    BY <1>1, <1>2, <1>3 DEF FilesKept
  <1> DEFINE en == At(s)
  <1>5. \A i : Part(diskFat', en, i) = Part(diskFat, en, i)
    BY <1>2, <1>4, HoldsFrame DEF Kept
  <1>6. ASSUME NEW i \in 1 .. en.filesize
        PROVE  disk'[Part(diskFat', en, i)].data = disk[Part(diskFat, en, i)].data
    <2>1. Part(diskFat, en, i) \in Path(diskFat, en.cluster) /\ ~disk[Part(diskFat, en, i)].subdir
      BY <1>2 DEF Holds, Stored
    <2> QED
      BY <1>2, <1>4, <1>5, <2>1 DEF Kept
  <1>7. /\ FatNow = FatView(diskFat, NoName)
        /\ FatNow' = FatView(diskFat', NoName)
    BY <1>1 DEF FatNow, Good
  <1>8. DataOf(s) = [i \in 1 .. en.filesize |-> disk[Part(diskFat, en, i)].data]
    BY <1>7 DEF DataOf, Part
  <1>9. DataOf(s)' = [i \in 1 .. At(s)'.filesize |-> disk'[Part(diskFat', At(s)', i)].data]
    BY <1>7 DEF DataOf, Part
  <1> QED
    BY <1>6, <1>8, <1>9

\* No call changes what a file contains that is there before and after it.
THEOREM FilesStay == Spec => FilesUndisturbed
  <1> DEFINE Undisturbed ==
               limits' \subseteq {"moved", "stale"} => \A s \in LiveEntries :
                 ~At(s).subdir /\ s \in LiveEntries' /\ At(s)' = At(s) => DataOf(s)' = DataOf(s)
  <1>1. SInv /\ [Next]_vars => Undisturbed
    BY FileDataSame DEF Within
  <1>2. SInv /\ [Next]_vars => [Undisturbed]_vars
    BY <1>1
  <1> QED
    BY <1>2, SoundInvariance, PTL DEF Spec, FilesUndisturbed
=============================================================================
