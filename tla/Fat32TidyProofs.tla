--------------------------- MODULE Fat32TidyProofs ---------------------------
(***************************************************************************)
(* The properties of Fat32 that hold as long as calls run into no limit at *)
(* all: flags are right, no cluster is lost, every call returns.           *)
(***************************************************************************)
EXTENDS Fat32SafetyProofs

\* The flag of every table is right, and a deleted directory is empty.
FlagsRight(d, f) ==
    \A c \in FatIndex : d[c].subdir =>
        /\ d[c].notEmpty <=> LiveSlots(d[c]) # {}
        /\ f[c] = 0 => LiveSlots(d[c]) = {}

\* The cluster c is one of an entry's.
Owned(d, f, c) ==
    \E s \in Refs(d) : s[1] \in FatIndex /\ f[s[1]] # 0 /\ c \in Path(f, Ref(d, s).cluster)

NothingLost(d, f) == \A c \in 3 .. CLUSTER_MAP_SIZE - 1 : f[c] # 0 => Owned(d, f, c)

Tidy(d, f) == d[ROOT_CLUSTER_NUMBER].subdir /\ FlagsRight(d, f) /\ NothingLost(d, f)

\* A directory that is one before and not after is empty.
VanishEmpty(d, f, d2, f2) ==
    \A c \in FatIndex :
        d[c].subdir /\ f[c] # 0 /\ ~(d2[c].subdir /\ f2[c] # 0) => LiveSlots(d[c]) = {}

TInv == SInv /\ (limits = {} => ~hung /\ Tidy(disk, diskFat))

LEMMA RootFacts ==
    /\ ROOT_CLUSTER_NUMBER \in FatIndex /\ ROOT_CLUSTER_NUMBER \in Parents
    /\ ROOT_CLUSTER_NUMBER \in Clusters /\ ROOT_CLUSTER_NUMBER \notin 3 .. CLUSTER_MAP_SIZE - 1
  BY SizeFacts DEF ROOT_CLUSTER_NUMBER, FatIndex, Parents, Clusters

-----------------------------------------------------------------------------
(***************************************************************************)
(* The changes keep a tidy file system tidy.                               *)
(***************************************************************************)
\* An entry that is kept, in a table that is not deleted, owns its clusters.
LEMMA KeptOwns ==
    ASSUME NEW d, NEW f, AllHold(d, f), NEW d2, NEW f2, NEW s \in Refs(d2), Kept(d, f, d2, f2, s),
           s[1] \in FatIndex, f2[s[1]] # 0, NEW c \in Path(f, Ref(d, s).cluster)
    PROVE  Owned(d2, f2, c)
  <1>1. s \in Refs(d) /\ Ref(d2, s) = Ref(d, s)
    BY DEF Kept
  <1>2. Path(f2, Ref(d, s).cluster) = Path(f, Ref(d, s).cluster)
    BY <1>1, HoldsFrame DEF Kept, AllHold
  <1> QED
    BY <1>1, <1>2 DEF Owned

LEMMA AddedTidy ==
    ASSUME NEW d \in Disk, NEW f, Sound(d, f), FatOK(f), Tidy(d, f), NEW d2 \in Disk, NEW f2,
           NEW p, NEW i, NEW en \in Entry, NEW new, Added(d, f, d2, f2, p, i, en, new)
    PROVE  Tidy(d2, f2) /\ VanishEmpty(d, f, d2, f2)
  <1> DEFINE n == <<p, i>>
  <1>1. KeptBut(d, f, d2, f2, n)
    BY AddedSound
  <1>2. /\ p \in Clusters /\ p \in FatIndex /\ d[p].subdir /\ f[p] # 0 /\ i \in Slots /\ i \notin LiveSlots(d[p])
        /\ new \subseteq {c \in 3 .. CLUSTER_MAP_SIZE - 1 : f[c] = 0} /\ p \notin new
        /\ \A c \in FatIndex \ new : f2[c] = f[c]
        /\ \A c \in Clusters \ (new \cup {p}) : d2[c] = d[c]
        /\ d[p] \in Cluster
    BY SizeFacts DEF Added, FreeSlots, Disk
  <1>3. /\ d2[p].subdir /\ d2[p].notEmpty /\ d2[p].slots = [d[p].slots EXCEPT ![i] = en]
    <2>1. d2[p] = [d[p] EXCEPT !.notEmpty = TRUE, !.slots = [d[p].slots EXCEPT ![i] = en]]
      BY DEF Added
    <2> QED
      BY <1>2, <2>1 DEF Cluster
  <1>4. /\ d[p].slots \in [Slots -> Entry] /\ en.undelete
    BY <1>2 DEF Cluster, Added
  <1>5. /\ i \in LiveSlots(d2[p]) /\ n \in Refs(d2) /\ Ref(d2, n) = en
    BY <1>2, <1>3, <1>4 DEF LiveSlots, Refs, Ref, Tables
  <1>6. d2[ROOT_CLUSTER_NUMBER].subdir
    <2>1. ROOT_CLUSTER_NUMBER \notin new
      BY <1>2, RootFacts
    <2> QED
      BY <1>2, <1>3, <2>1, RootFacts DEF Tidy
  <1>7. FlagsRight(d2, f2)
    <2> SUFFICES ASSUME NEW c \in FatIndex, d2[c].subdir
                 PROVE  /\ d2[c].notEmpty <=> LiveSlots(d2[c]) # {}
                        /\ f2[c] = 0 => LiveSlots(d2[c]) = {}
      BY DEF FlagsRight
    <2>1. CASE c = p
      BY <1>2, <1>3, <1>5, <2>1
    <2>2. CASE c \in new
      BY <2>2 DEF Added
    <2>3. CASE c # p /\ c \notin new
      BY <1>2, <2>3, SizeFacts DEF Tidy, FlagsRight
    <2> QED
      BY <2>1, <2>2, <2>3
  <1>8. NothingLost(d2, f2)
    <2> SUFFICES ASSUME NEW c \in 3 .. CLUSTER_MAP_SIZE - 1, f2[c] # 0
                 PROVE  Owned(d2, f2, c)
      BY DEF NothingLost
    <2>1. CASE c \in new
      <3>1. Path(f2, Ref(d2, n).cluster) = new
        BY <1>5 DEF Added
      <3>2. n[1] \in FatIndex /\ f2[n[1]] # 0
        BY <1>2
      <3> HIDE DEF n
      <3> QED
        BY <1>5, <2>1, <3>1, <3>2 DEF Owned
    <2>2. CASE c \notin new
      <3>1. c \in FatIndex /\ f[c] # 0
        BY <1>2, <2>2, SizeFacts DEF FatIndex
      <3>2. PICK s \in Refs(d) : s[1] \in FatIndex /\ f[s[1]] # 0 /\ c \in Path(f, Ref(d, s).cluster)
        BY <3>1 DEF Tidy, NothingLost, Owned
      <3>3. PICK b \in Tables(d), l \in Slots : s = <<b, l>> /\ d[b].slots[l].undelete
        BY DEF Refs
      <3>4. b \in FatIndex /\ b \in Clusters /\ b \notin new /\ f2[b] # 0 /\ d[b].subdir
        BY <1>2, <3>2, <3>3 DEF Tables
      <3>5. s \in Refs(d2) /\ s # n
        <4>1. CASE b = p
          <5>1. l # i
            BY <1>2, <3>3, <4>1 DEF LiveSlots
          <5> QED
            BY <1>2, <1>3, <1>4, <3>3, <4>1, <5>1 DEF Refs, Tables
        <4>2. CASE b # p
          BY <1>2, <3>3, <3>4, <4>2 DEF Refs, Tables
        <4> QED
          BY <4>1, <4>2
      <3>6. Kept(d, f, d2, f2, s)
        BY <1>1, <3>5 DEF KeptBut
      <3>7. s[1] \in FatIndex /\ f2[s[1]] # 0
        BY <3>3, <3>4
      <3> QED
        BY <3>2, <3>5, <3>6, <3>7, KeptOwns DEF Sound
    <2> QED
      BY <2>1, <2>2
  <1>9. VanishEmpty(d, f, d2, f2)
    BY <1>2, <1>3, SizeFacts DEF VanishEmpty
  <1> QED
    BY <1>6, <1>7, <1>8, <1>9 DEF Tidy

LEMMA RemovedTidy ==
    ASSUME NEW d \in Disk, NEW f, Sound(d, f), FatOK(f), Tidy(d, f), NEW d2, NEW f2,
           NEW p \in Parents, NEW i, Removed(d, f, d2, f2, p, i)
    PROVE  Tidy(d2, f2) /\ VanishEmpty(d, f, d2, f2)
  <1> DEFINE n == <<p, i>>
             c0 == d[p].slots[i].cluster
             chain == Path(f, c0)
             cleared == [d[p] EXCEPT !.slots[i] = NullEntry]
             flag == IF LiveSlots(cleared) = {} THEN FALSE ELSE d[p].notEmpty
  <1>1. KeptBut(d, f, d2, f2, n)
    BY RemovedSound
  <1>2. /\ p \in Clusters /\ p \in FatIndex /\ d[p].subdir /\ i \in Slots /\ n \in Refs(d)
        /\ i \in LiveSlots(d[p]) /\ d[p] \in Cluster /\ d[p].slots \in [Slots -> Entry]
    <2>1. p \in Clusters /\ p \in FatIndex
      BY ParentsOK DEF Parents, FatIndex
    <2>2. d[p].subdir /\ i \in LiveSlots(d[p]) /\ i \in Slots /\ d[p].slots[i].undelete
      BY DEF Removed, InTable, Tables, LiveSlots
    <2> QED
      BY <2>1, <2>2 DEF Refs, Tables, Disk, Cluster
  <1>3. Holds(d, f, p, d[p].slots[i])
    BY <1>2 DEF Sound, AllHold, Ref
  <1>4. p \notin chain /\ chain \subseteq 3 .. CLUSTER_MAP_SIZE - 1
    <2>1. chain \subseteq 3 .. CLUSTER_MAP_SIZE - 1
      BY <1>3 DEF Holds, Stored
    <2>2. CASE d[p].slots[i].subdir
      <3>1. c0 # p
        BY <1>3, <2>2 DEF Holds, Stored
      <3> QED
        BY <1>3, <2>1, <2>2, <3>1, FolderPath DEF Holds
    <2>3. CASE ~d[p].slots[i].subdir
      BY <1>2, <1>3, <2>1, <2>3 DEF Holds, Stored
    <2> QED
      BY <2>1, <2>2, <2>3
  <1>5. ASSUME NEW c \in chain, d[c].subdir PROVE ~d[c].notEmpty
    <2>1. d[p].slots[i].subdir
      BY <1>3, <1>5 DEF Holds, Stored
    <2>2. c = c0
      BY <1>3, <1>5, <2>1, FolderPath DEF Holds
    <2> QED
      BY <2>1, <2>2 DEF Removed
  <1>6. /\ \A c \in FatIndex : f2[c] = IF c \in chain THEN 0 ELSE f[c]
        /\ \A c \in Clusters \ {p} : d2[c] = d[c]
    BY DEF Removed, FreeChain, Disk
  <1>7. /\ d2[p].slots = [d[p].slots EXCEPT ![i] = NullEntry] /\ cleared.slots = d2[p].slots
        /\ d2[p].subdir = d[p].subdir /\ d2[p].notEmpty = flag
    <2>1. cleared = [d[p] EXCEPT !.slots = [d[p].slots EXCEPT ![i] = NullEntry]]
      OBVIOUS
    <2> HIDE DEF cleared
    <2>2. cleared = [subdir |-> d[p].subdir, name |-> d[p].name, parent |-> d[p].parent,
                     notEmpty |-> d[p].notEmpty, data |-> d[p].data,
                     slots |-> [d[p].slots EXCEPT ![i] = NullEntry]]
      BY <1>2, <2>1 DEF Cluster
    <2>3. d2[p] = [cleared EXCEPT !.notEmpty = IF LiveSlots(cleared) = {} THEN FALSE ELSE @]
      BY <1>2 DEF Removed, Disk, cleared
    <2> QED
      BY <2>2, <2>3
  <1>8. LiveSlots(cleared) = LiveSlots(d2[p])
    BY <1>7 DEF LiveSlots
  <1> HIDE DEF cleared
  <1>9. f[p] # 0 /\ d[p].notEmpty
    BY <1>2 DEF Tidy, FlagsRight
  <1>10. d2[ROOT_CLUSTER_NUMBER].subdir
    BY <1>2, <1>6, <1>7, RootFacts DEF Tidy
  <1>11. FlagsRight(d2, f2)
    <2> SUFFICES ASSUME NEW c \in FatIndex, d2[c].subdir
                 PROVE  /\ d2[c].notEmpty <=> LiveSlots(d2[c]) # {}
                        /\ f2[c] = 0 => LiveSlots(d2[c]) = {}
      BY DEF FlagsRight
    <2>1. CASE c = p
      BY <1>2, <1>4, <1>6, <1>7, <1>8, <1>9, <2>1
    <2>2. CASE c # p
      <3>1. d2[c] = d[c]
        BY <1>6, <2>2, SizeFacts
      <3>2. d[c].notEmpty <=> LiveSlots(d[c]) # {}
        BY <3>1 DEF Tidy, FlagsRight
      <3>3. f[c] = 0 => LiveSlots(d[c]) = {}
        BY <3>1 DEF Tidy, FlagsRight
      <3>4. c \in chain => LiveSlots(d[c]) = {}
        BY <1>5, <3>1, <3>2
      <3> QED
        BY <1>6, <3>1, <3>2, <3>3, <3>4
    <2> QED
      BY <2>1, <2>2
  <1>12. VanishEmpty(d, f, d2, f2)
    <2> SUFFICES ASSUME NEW c \in FatIndex, d[c].subdir, f[c] # 0, ~(d2[c].subdir /\ f2[c] # 0)
                 PROVE  LiveSlots(d[c]) = {}
      BY DEF VanishEmpty
    <2>1. d2[c].subdir
      BY <1>6, <1>7, SizeFacts
    <2>2. c \in chain
      BY <1>6, <2>1
    <2> QED
      BY <1>5, <2>2 DEF Tidy, FlagsRight
  <1>13. ~NullEntry.undelete
    BY DEF NullEntry
  <1>14. NothingLost(d2, f2)
    <2> SUFFICES ASSUME NEW c \in 3 .. CLUSTER_MAP_SIZE - 1, f2[c] # 0
                 PROVE  Owned(d2, f2, c)
      BY DEF NothingLost
    <2>1. c \in FatIndex /\ f[c] # 0 /\ c \notin chain
      BY <1>6, SizeFacts DEF FatIndex
    <2>2. PICK s \in Refs(d) : s[1] \in FatIndex /\ f[s[1]] # 0 /\ c \in Path(f, Ref(d, s).cluster)
      BY <2>1 DEF Tidy, NothingLost, Owned
    <2>3. s # n
      BY <2>1, <2>2 DEF Ref
    <2>4. PICK b \in Tables(d), l \in Slots : s = <<b, l>> /\ d[b].slots[l].undelete
      BY DEF Refs
    <2>5. b \in FatIndex /\ b \in Clusters /\ f[b] # 0 /\ d[b].subdir /\ l \in LiveSlots(d[b])
      BY <2>2, <2>4 DEF Tables, LiveSlots
    <2>6. f2[b] # 0
      <3>1. b \notin chain
        BY <1>5, <2>5 DEF Tidy, FlagsRight
      <3> QED
        BY <1>6, <2>5, <3>1
    <2>7. s \in Refs(d2)
      <3>1. CASE b = p
        <4>1. l # i
          BY <2>3, <2>4, <3>1
        <4> QED
          BY <1>2, <1>7, <2>4, <2>5, <3>1, <4>1 DEF Refs, Tables
      <3>2. CASE b # p
        BY <1>6, <2>4, <2>5, <3>2 DEF Refs, Tables
      <3> QED
        BY <3>1, <3>2
    <2>8. Kept(d, f, d2, f2, s)
      BY <1>1, <2>3, <2>7 DEF KeptBut
    <2>9. s[1] \in FatIndex /\ f2[s[1]] # 0
      BY <2>4, <2>5, <2>6
    <2> QED
      BY <2>2, <2>7, <2>8, <2>9, KeptOwns DEF Sound
  <1> QED
    BY <1>10, <1>11, <1>12, <1>14 DEF Tidy

LEMMA RelabelledTidy ==
    ASSUME NEW d \in Disk, NEW f, Sound(d, f), FatOK(f), Tidy(d, f), NEW d2, NEW f2,
           NEW p, NEW i, NEW new, Relabelled(d, f, d2, f2, p, i, new)
    PROVE  Tidy(d2, f2) /\ VanishEmpty(d, f, d2, f2)
  <1> DEFINE n == <<p, i>>
             c == d[p].slots[i].cluster
             en == FolderEntry(c, new)
  <1>1. KeptBut(d, f, d2, f2, n)
    BY RelabelledSound
  <1>2. /\ p \in Clusters /\ p \in FatIndex /\ f[p] # 0 /\ d[p].subdir /\ i \in Slots /\ n \in Refs(d)
        /\ i \in LiveSlots(d[p]) /\ d[p].slots[i].undelete /\ d[p].slots[i].subdir
        /\ d[p] \in Cluster /\ d[p].slots \in [Slots -> Entry]
    <2>1. p \in Clusters /\ d[p].subdir /\ i \in LiveSlots(d[p]) /\ i \in Slots
          /\ d[p].slots[i].undelete /\ d[p].slots[i].subdir /\ p \in FatIndex /\ f[p] # 0
      BY DEF Relabelled, InTable, Tables, LiveSlots
    <2> QED
      BY <2>1 DEF Refs, Tables, Disk, Cluster
  <1>3. Holds(d, f, p, d[p].slots[i])
    BY <1>2 DEF Sound, AllHold, Ref
  <1>4. /\ Path(f, c) = {c} /\ c \in Clusters /\ c # p /\ d[c].subdir /\ d[c] \in Cluster
    <2>1. c # p
      BY <1>2, <1>3 DEF Holds, Stored
    <2> QED
      BY <1>2, <1>3, <2>1, FolderPath DEF Disk, Holds
  <1>5. f2 = f /\ d2 = [d EXCEPT ![p].slots[i] = en, ![c] = Renamed(d[c], new)]
    BY DEF Relabelled
  <1>6. en.undelete /\ en.subdir /\ en.cluster = c
    BY FolderEntryFields
  <1> HIDE DEF c, en
  <1>7. /\ d2[p] = [d[p] EXCEPT !.slots = [d[p].slots EXCEPT ![i] = en]]
        /\ d2[c] = [d[c] EXCEPT !.name = new]
        /\ \A b \in Clusters \ {p, c} : d2[b] = d[b]
    BY <1>2, <1>4, <1>5 DEF Renamed, Disk
  <1>8. /\ d2[p].slots = [d[p].slots EXCEPT ![i] = en] /\ d2[p].subdir = d[p].subdir
        /\ d2[p].notEmpty = d[p].notEmpty
    <2>1. d[p] \in Cluster
      BY <1>2
    <2>2. d2[p] = [d[p] EXCEPT !.slots = [d[p].slots EXCEPT ![i] = en]]
      BY <1>7
    <2> QED
      BY <2>1, <2>2 DEF Cluster
  <1>9. /\ d2[c].slots = d[c].slots /\ d2[c].subdir = d[c].subdir /\ d2[c].notEmpty = d[c].notEmpty
    <2>1. d[c] \in Cluster
      BY <1>4
    <2>2. d2[c] = [d[c] EXCEPT !.name = new]
      BY <1>7
    <2> QED
      BY <2>1, <2>2 DEF Cluster
  <1>10. \A b \in Clusters :
            /\ d2[b].subdir = d[b].subdir /\ d2[b].notEmpty = d[b].notEmpty
            /\ LiveSlots(d2[b]) = LiveSlots(d[b])
    <2> TAKE b \in Clusters
    <2>1. CASE b = p
      BY <1>2, <1>6, <1>8, <2>1 DEF LiveSlots
    <2>2. CASE b = c
      BY <1>9, <2>2 DEF LiveSlots
    <2>3. CASE b # p /\ b # c
      BY <1>7, <2>3
    <2> QED
      BY <2>1, <2>2, <2>3
  <1>11. d2[ROOT_CLUSTER_NUMBER].subdir /\ FlagsRight(d2, f2)
    BY <1>5, <1>10, RootFacts, SizeFacts DEF Tidy, FlagsRight
  <1>12. VanishEmpty(d, f, d2, f2)
    BY <1>5, <1>10, SizeFacts DEF VanishEmpty
  <1>13. Ref(d2, n) = en /\ Ref(d, n).cluster = c
    BY <1>2, <1>8 DEF Ref, c
  <1>14. Refs(d2) = Refs(d)
    BY <1>10 DEF Refs, Tables, LiveSlots
  <1>15. NothingLost(d2, f2)
    <2> SUFFICES ASSUME NEW b \in 3 .. CLUSTER_MAP_SIZE - 1, f2[b] # 0
                 PROVE  Owned(d2, f2, b)
      BY DEF NothingLost
    <2>1. PICK s \in Refs(d) : s[1] \in FatIndex /\ f[s[1]] # 0 /\ b \in Path(f, Ref(d, s).cluster)
      BY <1>5 DEF Tidy, NothingLost, Owned
    <2>2. s \in Refs(d2) /\ f2[s[1]] # 0
      BY <1>5, <1>14, <2>1
    <2>3. CASE s # n
      <3>1. Kept(d, f, d2, f2, s)
        BY <1>1, <2>2, <2>3 DEF KeptBut
      <3> QED
        BY <2>1, <2>2, <3>1, KeptOwns DEF Sound
    <2>4. CASE s = n
      <3>1. Path(f2, Ref(d2, s).cluster) = Path(f, Ref(d, s).cluster)
        BY <1>5, <1>6, <1>13, <2>4
      <3> QED
        BY <2>1, <2>2, <3>1 DEF Owned
    <2> QED
      BY <2>3, <2>4
  <1> QED
    BY <1>11, <1>12, <1>15 DEF Tidy

-----------------------------------------------------------------------------
(***************************************************************************)
(* Every call returns.                                                     *)
(***************************************************************************)
\* What holds when a call is made that runs into no limit.
Calm == IInv /\ Good /\ Tidy(disk, diskFat) /\ ~hung /\ limits' = {}

LEMMA CalmWithin == ASSUME Calm PROVE Within'
  BY DEF Calm, Within

\* The parent of such a call is a directory, and walks over it end.
LEMMA CalmParent ==
    ASSUME Calm, NEW p \in Parents, Breach(Stale(p))
    PROVE  /\ disk[p].subdir /\ diskFat[p] # 0
           /\ \A name : Terminates(FatView(diskFat, name), p)
  <1>1. Stale(p) = {}
    BY DEF Breach, Calm
  <1>2. p \in Dirs
    BY <1>1 DEF Stale
  <1>3. disk[p].subdir /\ diskFat[p] # 0
    BY <1>2 DEF Dirs, Calm, Good
  <1> QED
    BY <1>3, TableWalk, GoodFit DEF Calm

LEMMA NotFoundReturns ==
    ASSUME Calm, NEW p \in Parents, NEW n, NEW e, NEW size \in BufferSizes,
           NotFound(p, ReadDirectory(p, n, e, size))
    PROVE  ~hung'
  <1> DEFINE r == ReadDirectory(p, n, e, size)
  <1>1. ~r.hangs
    BY ReadDirectoryGood, GoodFit, CalmParent DEF NotFound, Calm
  <1> QED
    BY <1>1 DEF NotFound, Answer, Calm

LEMMA read_directoryReturns ==
    ASSUME Calm, NEW p \in Parents, NEW n, NEW e, NEW size \in BufferSizes,
           read_directory(p, n, e, size)
    PROVE  ~hung'
  <1> DEFINE r == ReadDirectory(p, n, e, size)
  <1>1. ~r.hangs
    BY ReadDirectoryGood, GoodFit, CalmParent DEF read_directory, Calm
  <1> QED
    BY <1>1 DEF read_directory, Answer, Calm

LEMMA readReturns ==
    ASSUME Calm, NEW p \in Parents, NEW n, NEW e, NEW size, read(p, n, e, size)
    PROVE  ~hung'
  <1> DEFINE v == DirView(fat_table)
             tables == Reach(v, p)
             files(t) == {i \in Named(disk[t], n, e) : ~disk[t].slots[i].subdir}
             hits == {t \in tables : files(t) # {}}
             file(t) == disk[t].slots[Min(files(t))]
             w(t) == FatView(diskFat, disk[t].name)
             before(t) == {u \in hits : u # t /\ t \in Reach(v, u)}
             room(t) == size - Cardinality({u \in hits \X Clusters :
                          u[1] \in before(t) /\ u[2] \in Reach(w(u[1]), file(u[1]).cluster)})
             small == {t \in hits : room(t) < file(t).filesize}
             served == {t \in hits \ small : before(t) \cap small = {}}
  <1>1. disk[p].subdir /\ diskFat[p] # 0 /\ \A name : Terminates(FatView(diskFat, name), p)
    BY CalmParent DEF read
  <1>2. fat_table = diskFat /\ Terminates(v, p)
    BY <1>1 DEF Calm, Good, DirView
  <1>3. (\E ret, data : Answer(ret, data)) \/ \E t \in served : ~Terminates(w(t), file(t).cluster)
    <2>1. \/ \E t \in served : ~Terminates(w(t), file(t).cluster)
          \/ small = {} /\ ~Terminates(v, p)
          \/ \E ret, data : Answer(ret, data)
      BY <1>1, Zenon DEF read
    <2> QED
      BY <1>2, <2>1
  <1>4. ASSUME NEW t \in served PROVE Terminates(w(t), file(t).cluster)
    <2>1. t \in Reach(FatView(diskFat, disk[CLUSTER_MAP_SIZE].name), p) /\ files(t) # {}
      BY <1>2 DEF DirView
    <2>2. files(t) \in SUBSET Slots
      BY DEF Named
    <2>3. Min(files(t)) \in files(t)
      BY <2>1, <2>2, MinSlot
    <2>4. Min(files(t)) \in LiveSlots(disk[t])
      BY <2>3, NamedLive
    <2>5. t = p
      BY <1>1, <2>1, <2>4, OnlyHere, GoodFit DEF Calm
    <2> HIDE DEF files, served
    <2> QED
      BY <1>1, <2>4, <2>5, DeletedChain, GoodFit DEF Calm
  <1>5. \E ret, data : Answer(ret, data)
    BY <1>3, <1>4
  <1> QED
    BY <1>5 DEF Answer, Calm

LEMMA writeReturns ==
    ASSUME Calm, NEW p \in Parents, NEW n, NEW e, NEW k, NEW x, write(p, n, e, k, x)
    PROVE  ~hung'
  <1> DEFINE v == DirView(diskFat)
             exists == \E t \in Reach(v, p) : Exists(disk[t], n, e, k = 0)
  <1>1. CASE WriteObject(p, n, e, k, x)
    BY <1>1 DEF WriteObject, Answer, Calm
  <1>2. CASE ~WriteObject(p, n, e, k, x)
    <2>1. /\ Breach(Stale(p))
          /\ IF ~disk[p].subdir THEN Answer(2, <<>>)
             ELSE IF exists THEN Answer(1, <<>>) ELSE Hang
          /\ ~disk[p].subdir \/ exists \/ ~Terminates(v, p)
      BY <1>2 DEF write
    <2>2. Terminates(v, p)
      BY <2>1, CalmParent DEF DirView
    <2> HIDE DEF exists
    <2> QED
      BY <2>1, <2>2 DEF Answer, Calm
  <1> QED
    BY <1>1, <1>2

LEMMA deleteReturns ==
    ASSUME Calm, NEW p \in Parents, NEW n, NEW e, delete(p, n, e)
    PROVE  ~hung'
  <1> DEFINE v == DirView(diskFat)
             hits == {t \in Reach(v, p) : Named(disk[t], n, e) # {}}
             t == FirstOf(v, hits)
             i == Min(Named(disk[t], n, e))
             entry == disk[t].slots[i]
             w == FatView(diskFat, disk[t].name)
             chain == Reach(w, entry.cluster)
             cleared == ClearSlot(disk[t], i, chain)
             fat == FreeChain(diskFat, chain)
             ret == IF ~disk[p].subdir THEN -1
                    ELSE IF hits = {} THEN 1
                    ELSE IF InUse(entry) THEN 2 ELSE 0
             hangs == \/ ret = 1 /\ ~Terminates(v, p)
                      \/ ret = 0 /\ (~Terminates(w, entry.cluster) \/ SearchHangs(p, cleared, fat))
  <1>1. Breach(Stale(p)) /\ IF hangs THEN Hang ELSE Answer(ret, <<>>)
    BY DEF delete
  <1>2. disk[p].subdir /\ diskFat[p] # 0 /\ \A name : Terminates(FatView(diskFat, name), p)
    BY <1>1, CalmParent
  <1>3. Terminates(v, p)
    BY <1>2 DEF DirView
  <1>4. ASSUME hits # {}
        PROVE  Terminates(w, entry.cluster) /\ ~SearchHangs(p, cleared, fat)
    <2>1. \A u \in hits : u = p
      <3> SUFFICES ASSUME NEW u \in hits PROVE u = p
        OBVIOUS
      <3>1. u \in Reach(FatView(diskFat, disk[CLUSTER_MAP_SIZE].name), p) /\ LiveSlots(disk[u]) # {}
        BY NamedLive DEF DirView
      <3> QED
        BY <1>2, <3>1, OnlyHere, GoodFit DEF Calm
    <2>2. t = p /\ Named(disk[p], n, e) # {}
      <3>1. hits \in SUBSET Reach(v, p) /\ p \in Clusters
        BY ParentsOK
      <3>2. t \in hits
        BY <1>4, <3>1, FirstOfIn
      <3> QED
        BY <2>1, <3>2
    <2> HIDE DEF t
    <2>3. i \in LiveSlots(disk[p])
      <3>1. Named(disk[p], n, e) \in SUBSET Slots
        BY DEF Named
      <3>2. i \in Named(disk[p], n, e)
        BY <2>2, <3>1, MinSlot
      <3> QED
        BY <3>2, NamedLive
    <2> HIDE DEF i, w
    <2>4. /\ Terminates(w, entry.cluster)
          /\ FatOK(fat) /\ fat[p] = diskFat[p]
      BY <1>2, <2>2, <2>3, DeletedChain, GoodFit DEF Calm, w
    <2> HIDE DEF fat
    <2>5. diskFat[p] = FAT32_FAT_END_OF_FILE
      BY <1>2, TableWalk, GoodFit DEF Calm
    <2>6. Terminates(DirView(fat), p)
      BY <1>2, <2>4, <2>5, Walk, SizeFacts DEF Calm, DirView
    <2> QED
      BY <2>4, <2>6 DEF SearchHangs
  <1>5. ret = 0 => hits # {}
    OBVIOUS
  <1> HIDE DEF ret, hits, cleared, fat, v, w, entry
  <1>6. ~hangs
    BY <1>3, <1>4, <1>5
  <1> HIDE DEF hangs
  <1> QED
    BY <1>1, <1>6 DEF Answer, Calm

LEMMA rename_dirReturns ==
    ASSUME Calm, NEW p \in Parents, NEW n, NEW e, NEW size \in BufferSizes, NEW new,
           rename_dir(p, n, e, size, new)
    PROVE  ~hung'
  <1>1. NotFound(p, ReadDirectory(p, n, e, size)) \/ Answer(0, <<>>)
    BY DEF rename_dir
  <1> QED
    BY <1>1, NotFoundReturns DEF Answer, Calm

LEMMA move_dirReturns ==
    ASSUME Calm, NEW p \in Parents, NEW n, NEW e, NEW size \in BufferSizes, NEW q,
           move_dir(p, n, e, size, q)
    PROVE  ~hung'
  <1>1. \A b : Breach(b) => "moved" \notin b
    BY DEF Breach, Calm
  <1>2. NotFound(p, ReadDirectory(p, n, e, size)) \/ \E b : Breach(b) /\ "moved" \in b
    BY DEF move_dir
  <1> QED
    BY <1>1, <1>2, NotFoundReturns

LEMMA NextReturns == ASSUME Calm, [Next]_vars PROVE ~hung'
  <1>1. ASSUME NEW p \in Parents, NEW n \in Names, NEW e \in Exts, NEW size \in BufferSizes,
               read_directory(p, n, e, size)
        PROVE  ~hung'
    BY <1>1, read_directoryReturns
  <1>2. ASSUME NEW p \in Parents, NEW n \in Names, NEW e \in Exts, NEW size \in BufferSizes,
               read(p, n, e, size)
        PROVE  ~hung'
    BY <1>2, readReturns
  <1>3. ASSUME NEW p \in Parents, NEW n \in Names, NEW e \in Exts, NEW size \in BufferSizes,
               NEW new \in Names, rename_dir(p, n, e, size, new)
        PROVE  ~hung'
    BY <1>3, rename_dirReturns
  <1>4. ASSUME NEW p \in Parents, NEW n \in Names, NEW e \in Exts, NEW size \in BufferSizes,
               NEW q \in Parents, move_dir(p, n, e, size, q)
        PROVE  ~hung'
    BY <1>4, move_dirReturns
  <1>5. ASSUME NEW p \in Parents, NEW n \in Names, NEW e \in Exts,
               NEW k \in 0 .. MAX_FILE_CLUSTERS, NEW x \in Contents, write(p, n, e, k, x)
        PROVE  ~hung'
    BY <1>5, writeReturns
  <1>6. ASSUME NEW p \in Parents, NEW n \in Names, NEW e \in Exts, delete(p, n, e)
        PROVE  ~hung'
    BY <1>6, deleteReturns
  <1>7. CASE read_root_directory
    <2>1. diskFat[ROOT_CLUSTER_NUMBER] # 0 /\ disk[ROOT_CLUSTER_NUMBER].subdir
      BY DEF Calm, Tidy, IInv, FatOK
    <2>2. \A name : Terminates(FatView(diskFat, name), ROOT_CLUSTER_NUMBER)
      BY <2>1, RootFacts, TableWalk, GoodFit DEF Calm
    <2> QED
      BY <1>7, <2>2 DEF read_root_directory, Answer, Calm, Good
  <1>8. CASE initialize_filesystem_fat32
    BY <1>8 DEF initialize_filesystem_fat32
  <1>9. CASE UNCHANGED vars
    BY <1>9 DEF vars, Calm
  <1> QED
    BY <1>1, <1>2, <1>3, <1>4, <1>5, <1>6, <1>7, <1>8, <1>9, Zenon DEF Next

-----------------------------------------------------------------------------
(***************************************************************************)
(* The theorems                                                            *)
(***************************************************************************)
LEMMA EffectTidy ==
    ASSUME IInv, IInv', Good, Tidy(disk, diskFat), Effect, limits' = {}
    PROVE  Tidy(disk', diskFat') /\ VanishEmpty(disk, diskFat, disk', diskFat')
  <1>1. disk \in Disk /\ disk' \in Disk /\ Sound(disk, diskFat) /\ FatOK(diskFat)
    BY DEF IInv, DiskOK, Disk, Good
  <1>2. CASE Same
    BY <1>2 DEF Same, VanishEmpty
  <1>3. CASE Adds
    BY <1>1, <1>3, AddedTidy DEF Adds
  <1>4. CASE Removes
    BY <1>1, <1>4, RemovedTidy DEF Removes
  <1>5. CASE Relabels
    BY <1>1, <1>5, RelabelledTidy DEF Relabels
  <1>6. ~Carries
    BY DEF Carries
  <1> QED
    BY <1>2, <1>3, <1>4, <1>5, <1>6 DEF Effect

LEMMA InitTidy == Init => TInv
  <1> SUFFICES ASSUME Init PROVE ~hung /\ Tidy(disk, diskFat)
    BY InitSound DEF TInv
  <1>1. /\ \A c \in Clusters \ {ROOT_CLUSTER_NUMBER} : disk[c] = Blank
        /\ disk[ROOT_CLUSTER_NUMBER] = init_directory_table(RootName, ROOT_CLUSTER_NUMBER)
        /\ diskFat = FreshFat
    BY SizeFacts DEF Init, create_fat32, ROOT_CLUSTER_NUMBER
  <1>2. /\ disk[ROOT_CLUSTER_NUMBER].slots = Blank.slots /\ disk[ROOT_CLUSTER_NUMBER].subdir
        /\ ~disk[ROOT_CLUSTER_NUMBER].notEmpty
    BY <1>1 DEF init_directory_table, Blank
  <1>3. \A i \in Slots : ~Blank.slots[i].undelete
    BY DEF Blank, NullEntry
  <1>4. \A c \in Clusters : LiveSlots(disk[c]) = {} /\ ~disk[c].notEmpty
    <2>1. ~Blank.notEmpty
      BY DEF Blank
    <2> QED
      BY <1>1, <1>2, <1>3, <2>1 DEF LiveSlots
  <1>5. FlagsRight(disk, diskFat)
    BY <1>4, SizeFacts DEF FlagsRight
  <1>6. \A c \in 3 .. CLUSTER_MAP_SIZE - 1 : diskFat[c] = 0
    BY <1>1, SizeFacts DEF FreshFat, FatIndex, ROOT_CLUSTER_NUMBER
  <1> QED
    BY <1>2, <1>5, <1>6 DEF Tidy, NothingLost, Init

LEMMA NextTidy ==
    ASSUME TInv, [Next]_vars
    PROVE  TInv' /\ (limits' = {} => /\ VanishEmpty(disk, diskFat, disk', diskFat')
                                     /\ fat_table = diskFat /\ fat_table' = diskFat')
  <1>1. SInv' /\ (Within' => Good /\ Good')
    BY NextSound DEF TInv
  <1>2. ASSUME limits' = {}
        PROVE  /\ ~hung' /\ Tidy(disk', diskFat') /\ VanishEmpty(disk, diskFat, disk', diskFat')
               /\ fat_table = diskFat /\ fat_table' = diskFat'
    <2>1. limits = {} /\ Within'
      BY <1>2, LimitsGrow DEF Within
    <2>2. Calm
      <3>1. IInv
        <4>1. Within /\ Base
          BY <2>1 DEF Within, TInv, SInv
        <4> QED
          BY <4>1, WithinIInv
      <3> QED
        BY <1>1, <1>2, <2>1, <3>1 DEF Calm, TInv
    <2>3. ~hung'
      BY <2>2, NextReturns
    <2>4. Effect
      BY <2>1, <2>2, NextEffect DEF Calm
    <2>5. Tidy(disk', diskFat') /\ VanishEmpty(disk, diskFat, disk', diskFat')
      <3>1. IInv'
        BY <1>1, <1>2, NotFullNext DEF SInv
      <3> QED
        BY <1>2, <2>2, <2>4, <3>1, EffectTidy DEF Calm
    <2> QED
      BY <1>1, <2>1, <2>3, <2>5 DEF Good
  <1> QED
    BY <1>1, <1>2 DEF TInv

LEMMA TidyInvariance == Spec => []TInv
  <1>1. TInv /\ [Next]_vars => TInv'
    BY NextTidy
  <1> QED
    BY <1>1, InitTidy, PTL DEF Spec

\* Calls on directories that exist always return: no walk over a table, no
\* chain of a file and no search of delete goes round for ever.
THEOREM CallsReturn == Spec => []NoHang
  <1>1. TInv => NoHang
    BY DEF TInv, NoHang
  <1> QED
    BY <1>1, TidyInvariance, PTL

\* The flag by which delete tells whether a folder is empty is right in every
\* directory after every call.
THEOREM FlagsAgree == Spec => []EmptyFlag
  <1>1. TInv => EmptyFlag
    <2> SUFFICES ASSUME TInv, limits = {}, NEW c \in Dirs
                 PROVE  disk[c].notEmpty <=> LiveSlots(disk[c]) # {}
      BY DEF EmptyFlag
    <2>1. c \in FatIndex /\ disk[c].subdir
      BY DEF Dirs
    <2> QED
      BY <2>1 DEF TInv, Tidy, FlagsRight
  <1> QED
    BY <1>1, TidyInvariance, PTL

\* No cluster is lost: each one that is marked used belongs to an entry of a
\* directory that exists.
THEOREM NothingLeaks == Spec => []NoLeak
  <1>1. TInv => NoLeak
    <2> SUFFICES ASSUME TInv, limits = {}, NEW c \in 3 .. CLUSTER_MAP_SIZE - 1, fat_table[c] # 0
                 PROVE  \E s \in LiveEntries : c \in ChainOf(s)
      BY DEF NoLeak
    <2>1. fat_table = diskFat /\ Tidy(disk, diskFat)
      BY DEF TInv, SInv, Within, Good
    <2>2. PICK s \in Refs(disk) : s[1] \in FatIndex /\ diskFat[s[1]] # 0
                                  /\ c \in Path(diskFat, Ref(disk, s).cluster)
      BY <2>1 DEF Tidy, NothingLost, Owned
    <2>3. s \in LiveEntries
      BY <2>1, <2>2 DEF LiveEntries, Refs, Tables, Dirs
    <2>4. c \in ChainOf(s)
      BY <2>1, <2>2 DEF ChainOf, At, Ref, Path, FatNow
    <2> QED
      BY <2>3, <2>4
  <1> QED
    BY <1>1, TidyInvariance, PTL

\* A directory ceases to exist only when it has no entries.
THEOREM DirsEndEmpty == Spec => DirsVanishEmpty
  <1> DEFINE End == limits' = {} => \A d \in Dirs : d \notin Dirs' => LiveSlots(disk[d]) = {}
  <1>1. ASSUME TInv, [Next]_vars PROVE End
    <2> SUFFICES ASSUME limits' = {}, NEW c \in Dirs, c \notin Dirs'
                 PROVE  LiveSlots(disk[c]) = {}
      OBVIOUS
    <2>1. /\ VanishEmpty(disk, diskFat, disk', diskFat')
          /\ fat_table = diskFat /\ fat_table' = diskFat'
      BY <1>1, NextTidy
    <2> QED
      BY <2>1 DEF Dirs, VanishEmpty
  <1>2. TInv /\ [Next]_vars => [End]_vars
    BY <1>1
  <1> QED
    BY <1>2, TidyInvariance, PTL DEF Spec, DirsVanishEmpty
=============================================================================
