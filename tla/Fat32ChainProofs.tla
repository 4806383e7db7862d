-------------------------- MODULE Fat32ChainProofs --------------------------
(***************************************************************************)
(* Every entry of every directory keeps a chain of its own, and its        *)
(* directory, its header and its contents fit it, whatever directories are *)
(* moved and whatever stale cluster numbers the driver is called with.     *)
(***************************************************************************)
EXTENDS Fat32Proofs

-----------------------------------------------------------------------------
(***************************************************************************)
(* Chains under changes of the FAT                                         *)
(***************************************************************************)
\* The clusters of the chain that starts at c in a FAT.
Path(f, c) == Reach(FatView(f, NoName), c)

\* A chain depends on the links of its own clusters only.
LEMMA ReachSame ==
    ASSUME NEW v, NEW w, NEW c \in Clusters, \A d \in Reach(v, c) : w[d] = v[d]
    PROVE  Reach(w, c) = Reach(v, c)
  <1>1. Reach(v, c) \in SUBSET Clusters /\ Reach(w, c) \in SUBSET Clusters
        /\ c \in Reach(v, c) /\ c \in Reach(w, c)
    BY ReachBasic
  <1>2. Closed(w, Reach(v, c))
    BY ReachClosed DEF Closed
  <1>3. Reach(w, c) \subseteq Reach(v, c)
    BY <1>1, <1>2, ReachLeast
  <1>4. Closed(v, Reach(w, c))
    BY <1>3, ReachClosed DEF Closed
  <1> QED
    BY <1>1, <1>3, <1>4, ReachLeast

LEMMA ChainSame ==
    ASSUME NEW v, NEW w, NEW c \in Clusters, \A d \in Reach(v, c) : w[d] = v[d]
    PROVE  /\ Reach(w, c) = Reach(v, c)
           /\ Terminates(w, c) <=> Terminates(v, c)
           /\ \A i : Nth(w, c, i) = Nth(v, c, i)
  <1>1. Reach(w, c) = Reach(v, c)
    BY ReachSame
  <1>2. \A d \in Reach(v, c) : Reach(w, d) = Reach(v, d)
    BY ReachTransitive, ReachSame
  <1>3. Terminates(w, c) <=> Terminates(v, c)
    BY <1>1 DEF Terminates
  <1>4. ASSUME NEW i PROVE Nth(w, c, i) = Nth(v, c, i)
    <2> DEFINE P(d) == d \in Reach(v, c) /\ Cardinality(Reach(v, d)) = Cardinality(Reach(v, c)) - i + 1
               Q(d) == d \in Reach(w, c) /\ Cardinality(Reach(w, d)) = Cardinality(Reach(w, c)) - i + 1
    <2>1. \A d : P(d) <=> Q(d)
      BY <1>1, <1>2
    <2>2. Nth(v, c, i) = (CHOOSE d : P(d)) /\ Nth(w, c, i) = (CHOOSE d : Q(d))
      BY DEF Nth
    <2> HIDE DEF P, Q
    <2>3. (CHOOSE d : P(d)) = (CHOOSE d : Q(d))
      BY <2>1, Zenon
    <2> QED
      BY <2>2, <2>3
  <1> QED
    BY <1>1, <1>3, <1>4

\* What lies behind the FAT does not matter for a chain that stays inside.
LEMMA ViewSame ==
    ASSUME NEW f, NEW name, NEW c \in Clusters, Path(f, c) \subseteq FatIndex
    PROVE  /\ Reach(FatView(f, name), c) = Path(f, c)
           /\ Terminates(FatView(f, name), c) <=> Terminates(FatView(f, NoName), c)
  <1>1. \A d \in Path(f, c) : FatView(f, name)[d] = FatView(f, NoName)[d]
    BY SizeFacts DEF FatView
  <1> QED
    BY <1>1, ChainSame DEF Path

\* A change elsewhere leaves the chain as it is.
LEMMA PathSame ==
    ASSUME NEW f, NEW g, NEW c \in Clusters, Path(f, c) \subseteq FatIndex,
           \A d \in Path(f, c) : g[d] = f[d]
    PROVE  /\ Path(g, c) = Path(f, c)
           /\ Terminates(FatView(g, NoName), c) <=> Terminates(FatView(f, NoName), c)
           /\ \A i : Nth(FatView(g, NoName), c, i) = Nth(FatView(f, NoName), c, i)
  <1>1. \A d \in Path(f, c) : FatView(g, NoName)[d] = FatView(f, NoName)[d]
    BY SizeFacts DEF FatView
  <1> QED
    BY <1>1, ChainSame DEF Path

-----------------------------------------------------------------------------
(***************************************************************************)
(* The inductive invariant.  It is about all tables on the disk, also      *)
(* those of deleted directories: a caller that still has the number of     *)
(* one can delete through it.                                              *)
(***************************************************************************)
Tables(d) == {c \in Clusters : d[c].subdir}

Refs(d) == {s \in Tables(d) \X Slots : d[s[1]].slots[s[2]].undelete}

Ref(d, s) == d[s[1]].slots[s[2]]

\* Cluster i of a file.
Part(f, en, i) == Nth(FatView(f, NoName), en.cluster, i)

\* On disk d with FAT f the entry en, in the table of cluster p, has what it
\* says: a chain of as many clusters as its object needs that are marked used
\* and hold another table or none, and the fragments of one write in their
\* order.
Stored(d, f, p, en) ==
    /\ en.cluster \in Clusters
    /\ Path(f, en.cluster) \subseteq 3 .. CLUSTER_MAP_SIZE - 1
    /\ Terminates(FatView(f, NoName), en.cluster)
    /\ \A c \in Path(f, en.cluster) : f[c] # 0 /\ d[c].subdir = en.subdir
    /\ Cardinality(Path(f, en.cluster)) = IF en.subdir THEN 1 ELSE en.filesize
    /\ en.subdir => en.ext = NoExt /\ en.cluster # p
    /\ ~en.subdir => \E x \in Contents : \A i \in 1 .. en.filesize :
                        /\ Part(f, en, i) \in Path(f, en.cluster)
                        /\ d[Part(f, en, i)].data = <<x, i - 1>>

\* And the header of a directory fits the entry.
Holds(d, f, p, en) ==
    /\ Stored(d, f, p, en)
    /\ en.subdir => /\ d[en.cluster].name = en.name
                    /\ d[en.cluster].parent = p

Clash(a, b) == a.name = b.name /\ a.ext = b.ext /\ a.subdir = b.subdir

\* A directory has one table: a directory that got a second one has gone
\* beyond table_full.
OneTable(d, f) == \A c \in FatIndex : d[c].subdir /\ f[c] # 0 => f[c] = FAT32_FAT_END_OF_FILE

AllStored(d, f) == \A s \in Refs(d) : Stored(d, f, s[1], Ref(d, s))

AllHold(d, f) == \A s \in Refs(d) : Holds(d, f, s[1], Ref(d, s))

Disjoint(d, f) ==
    \A s, u \in Refs(d) : s # u =>
        Path(f, Ref(d, s).cluster) \cap Path(f, Ref(d, u).cluster) = {}

NoClash(d) ==
    \A c \in Tables(d) : \A i, j \in LiveSlots(d[c]) :
        i # j => ~Clash(d[c].slots[i], d[c].slots[j])

\* What the driver relies on.
Usable(d, f) ==
    /\ d[0] = Blank
    /\ OneTable(d, f)
    /\ AllStored(d, f)
    /\ Disjoint(d, f)
    /\ NoClash(d)

\* What it keeps up as long as the power does not fail.
Sound(d, f) ==
    /\ d[0] = Blank
    /\ OneTable(d, f)
    /\ AllHold(d, f)
    /\ Disjoint(d, f)
    /\ NoClash(d)

LEMMA SoundUsable == ASSUME NEW d, NEW f, Sound(d, f) PROVE Usable(d, f)
  BY DEF Sound, Usable, AllHold, AllStored, Holds

\* An entry still has what it says if its clusters have not changed.
LEMMA HoldsFrame ==
    ASSUME NEW d, NEW f, NEW p, NEW en, Holds(d, f, p, en), NEW d2, NEW f2,
           \A c \in Path(f, en.cluster) :
              /\ f2[c] = f[c]
              /\ d2[c].subdir = d[c].subdir
              /\ ~d[c].subdir => d2[c].data = d[c].data
              /\ d2[c].name = d[c].name
              /\ d2[c].parent = d[c].parent
    PROVE  /\ Holds(d2, f2, p, en)
           /\ Path(f2, en.cluster) = Path(f, en.cluster)
           /\ \A i : Part(f2, en, i) = Part(f, en, i)
  <1>1. en.cluster \in Clusters /\ Path(f, en.cluster) \subseteq FatIndex
    BY SizeFacts DEF Holds, Stored, FatIndex
  <1>2. /\ Path(f2, en.cluster) = Path(f, en.cluster)
        /\ Terminates(FatView(f2, NoName), en.cluster)
        /\ \A i : Part(f2, en, i) = Part(f, en, i)
    <2>1. \A c \in Path(f, en.cluster) : f2[c] = f[c]
      OBVIOUS
    <2>2. Terminates(FatView(f, NoName), en.cluster)
      BY DEF Holds, Stored
    <2> QED
      BY <1>1, <2>1, <2>2, PathSame DEF Part
  <1>3. en.cluster \in Path(f, en.cluster)
    BY <1>1, ReachBasic DEF Path
  <1>4. ~en.subdir => \E x \in Contents : \A i \in 1 .. en.filesize :
                        /\ Part(f2, en, i) \in Path(f2, en.cluster)
                        /\ d2[Part(f2, en, i)].data = <<x, i - 1>>
    <2> SUFFICES ASSUME ~en.subdir
                 PROVE  \E x \in Contents : \A i \in 1 .. en.filesize :
                           /\ Part(f2, en, i) \in Path(f2, en.cluster)
                           /\ d2[Part(f2, en, i)].data = <<x, i - 1>>
      OBVIOUS
    <2>1. PICK x \in Contents : \A i \in 1 .. en.filesize :
             /\ Part(f, en, i) \in Path(f, en.cluster)
             /\ d[Part(f, en, i)].data = <<x, i - 1>>
      BY DEF Holds, Stored
    <2>2. \A c \in Path(f, en.cluster) : ~d[c].subdir
      BY DEF Holds, Stored
    <2> QED
      BY <1>2, <2>1, <2>2
  <1>5. Holds(d2, f2, p, en)
    BY <1>1, <1>2, <1>3, <1>4 DEF Holds, Stored
  <1> QED
    BY <1>2, <1>5

\* The entry s is in its slot before and after, and its clusters are as they
\* were, but for the entries in them and the flag.
Kept(d, f, d2, f2, s) ==
    /\ s \in Refs(d)
    /\ Ref(d2, s) = Ref(d, s)
    /\ \A c \in Path(f, Ref(d, s).cluster) :
          /\ f2[c] = f[c]
          /\ d2[c].subdir = d[c].subdir
          /\ ~d[c].subdir => d2[c].data = d[c].data
          /\ d2[c].name = d[c].name
          /\ d2[c].parent = d[c].parent

\* All entries that a call leaves but n are kept.
KeptBut(d, f, d2, f2, n) == \A s \in Refs(d2) : s # n => Kept(d, f, d2, f2, s)

\* No file that has its slot before and after is changed.
FilesKept(d, f, d2, f2) ==
    \A s \in Refs(d) \cap Refs(d2) : ~Ref(d2, s).subdir => Kept(d, f, d2, f2, s)

\* After a call all entries but one are kept; that one has what it says, and
\* none of the others' clusters.
LEMMA SoundFrame ==
    ASSUME NEW d, NEW f, AllHold(d, f), Disjoint(d, f), NEW d2, NEW f2, NEW n,
           \A s \in Refs(d2) : s # n => Kept(d, f, d2, f2, s),
           n \in Refs(d2) =>
              /\ Holds(d2, f2, n[1], Ref(d2, n))
              /\ \A s \in Refs(d2) : s # n =>
                    Path(f2, Ref(d2, n).cluster) \cap Path(f, Ref(d, s).cluster) = {}
    PROVE  AllHold(d2, f2) /\ Disjoint(d2, f2)
  <1>1. ASSUME NEW s \in Refs(d2), s # n
        PROVE  /\ Holds(d2, f2, s[1], Ref(d2, s))
               /\ Path(f2, Ref(d2, s).cluster) = Path(f, Ref(d, s).cluster)
               /\ s \in Refs(d)
    <2>1. Kept(d, f, d2, f2, s)
      BY <1>1
    <2>2. s \in Refs(d) /\ Holds(d, f, s[1], Ref(d, s))
      BY <2>1 DEF Kept, AllHold
    <2> QED
      BY <2>1, <2>2, HoldsFrame DEF Kept
  <1>2. AllHold(d2, f2)
    BY <1>1 DEF AllHold
  <1>3. ASSUME NEW s \in Refs(d2), NEW u \in Refs(d2), s # u
        PROVE  Path(f2, Ref(d2, s).cluster) \cap Path(f2, Ref(d2, u).cluster) = {}
    <2>1. CASE s # n /\ u # n
      BY <1>1, <1>3, <2>1 DEF Disjoint
    <2>2. CASE s = n \/ u = n
      BY <1>1, <1>3, <2>2
    <2> QED
      BY <2>1, <2>2
  <1> QED
    BY <1>2, <1>3 DEF Disjoint

-----------------------------------------------------------------------------
(***************************************************************************)
(* What the calls that change something do to the disk and the FAT.        *)
(***************************************************************************)
InTable(d, p, i) == p \in Tables(d) /\ i \in LiveSlots(d[p])

\* write puts the entry en into the free slot i of table p; its clusters new
\* were free.
Added(d, f, d2, f2, p, i, en, new) ==
    /\ p \in FatIndex /\ d[p].subdir /\ f[p] # 0
    /\ i \in FreeSlots(d[p])
    /\ new \subseteq {c \in 3 .. CLUSTER_MAP_SIZE - 1 : f[c] = 0}
    /\ \A c \in FatIndex \ new : f2[c] = f[c]
    /\ \A c \in Clusters \ (new \cup {p}) : d2[c] = d[c]
    /\ d2[p] = [d[p] EXCEPT !.notEmpty = TRUE, !.slots = [@ EXCEPT ![i] = en]]
    /\ \A c \in new : LiveSlots(d2[c]) = {} /\ ~d2[c].notEmpty
    /\ en.undelete
    /\ Path(f2, en.cluster) = new
    /\ Holds(d2, f2, p, en)
    /\ \A j \in LiveSlots(d[p]) : ~Clash(en, d[p].slots[j])

\* delete clears slot i of table p and frees its chain.
Removed(d, f, d2, f2, p, i) ==
    LET cleared == [d[p] EXCEPT !.slots[i] = NullEntry]
    IN  /\ InTable(d, p, i)
        /\ d[p].slots[i].subdir => ~d[d[p].slots[i].cluster].notEmpty
        /\ f2 = FreeChain(f, Path(f, d[p].slots[i].cluster))
        /\ d2 = [d EXCEPT ![p] = [cleared EXCEPT
                    !.notEmpty = IF LiveSlots(cleared) = {} THEN FALSE ELSE @]]

\* The entry of a directory as rename_dir and move_dir write it.
FolderEntry(c, name) ==
    [undelete |-> TRUE, name |-> name, ext |-> NoExt, subdir |-> TRUE,
     cluster |-> c, filesize |-> 0]

\* rename_dir writes the entry in slot i of table p and the directory's header.
Relabelled(d, f, d2, f2, p, i, new) ==
    LET c == d[p].slots[i].cluster
    IN  /\ p \in FatIndex /\ f[p] # 0
        /\ InTable(d, p, i) /\ d[p].slots[i].subdir
        /\ \A j \in LiveSlots(d[p]) : ~Clash(FolderEntry(c, new), d[p].slots[j])
        /\ f2 = f
        /\ d2 = [d EXCEPT ![p].slots[i] = FolderEntry(c, new), ![c] = Renamed(d[c], new)]

\* move_dir marks slot i of table p as free and writes the entry to slot j of
\* table q, and the directory with q as its parent.
Carried(d, f, d2, f2, p, i, q, j) ==
    LET c == d[p].slots[i].cluster
        old == [d EXCEPT ![p].slots[i].undelete = FALSE]
    IN  /\ p \in FatIndex /\ f[p] # 0 /\ q \in FatIndex /\ d[q].subdir /\ f[q] # 0
        /\ InTable(d, p, i) /\ d[p].slots[i].subdir
        /\ j \in FreeSlots(old[q])
        /\ \A l \in LiveSlots(old[q]) : ~Clash(FolderEntry(c, d[c].name), old[q].slots[l])
        /\ f2 = f
        /\ d2 = [old EXCEPT ![q].slots[j] = FolderEntry(c, d[c].name),
                            ![q].data = NoData,
                            ![c] = Reparented(d[c], q)]

Disk == [Clusters -> Cluster]

LEMMA AddedSound ==
    ASSUME NEW d \in Disk, NEW f, Sound(d, f), NEW d2 \in Disk, NEW f2, NEW p, NEW i,
           NEW en \in Entry, NEW new, Added(d, f, d2, f2, p, i, en, new)
    PROVE  Sound(d2, f2) /\ KeptBut(d, f, d2, f2, <<p, i>>) /\ FilesKept(d, f, d2, f2)
  <1> DEFINE n == <<p, i>>
  <1>1. /\ p \in Clusters /\ p \notin new /\ p # 0 /\ i \in Slots
        /\ 0 \notin new /\ new \subseteq Clusters
    <2>1. p # 0
      BY DEF Sound, Added, Blank
    <2> QED
      BY <2>1, SizeFacts DEF Added, FreeSlots, Clusters
  <1>2. /\ d2[p].slots = [d[p].slots EXCEPT ![i] = en]
        /\ d2[p].subdir = d[p].subdir /\ d2[p].data = d[p].data
        /\ d2[p].name = d[p].name /\ d2[p].parent = d[p].parent
    <2>1. d[p] \in Cluster
      BY <1>1 DEF Disk
    <2>2. d2[p] = [d[p] EXCEPT !.notEmpty = TRUE, !.slots = [d[p].slots EXCEPT ![i] = en]]
      BY DEF Added
    <2> QED
      BY <2>1, <2>2 DEF Cluster
  <1>3. d[p].slots \in [Slots -> Entry]
    BY <1>1 DEF Cluster, Disk
  <1>4. d2[0] = Blank
    BY <1>1, SizeFacts DEF Sound, Added
  <1>5. ASSUME NEW s \in Refs(d2), s # n
        PROVE  s \in Refs(d) /\ Ref(d2, s) = Ref(d, s)
    <2>1. PICK c \in Tables(d2), l \in Slots : s = <<c, l>> /\ d2[c].slots[l].undelete
      BY DEF Refs
    <2>2. c \in Clusters /\ c \notin new
      BY <2>1 DEF Tables, Added, LiveSlots
    <2>3. CASE c = p
      BY <1>1, <1>2, <1>3, <1>5, <2>1, <2>2, <2>3 DEF Refs, Ref, Tables
    <2>4. CASE c # p
      BY <2>1, <2>2, <2>4 DEF Refs, Ref, Tables, Added
    <2> QED
      BY <2>3, <2>4
  <1>6. ASSUME NEW s \in Refs(d), NEW c \in Path(f, Ref(d, s).cluster)
        PROVE  c \in FatIndex \ new /\ c \in Clusters
    <2>1. c \in 3 .. CLUSTER_MAP_SIZE - 1 /\ f[c] # 0
      BY DEF Sound, AllHold, Holds, Stored
    <2> QED
      BY <2>1, SizeFacts DEF FatIndex, Added
  <1>7. ASSUME NEW s \in Refs(d2), s # n PROVE Kept(d, f, d2, f2, s)
    <2>1. s \in Refs(d) /\ Ref(d2, s) = Ref(d, s)
      BY <1>5, <1>7
    <2>2. ASSUME NEW c \in Path(f, Ref(d, s).cluster)
          PROVE  /\ f2[c] = f[c]
                 /\ d2[c].subdir = d[c].subdir /\ d2[c].data = d[c].data
                 /\ d2[c].name = d[c].name /\ d2[c].parent = d[c].parent
      <3>1. c \in FatIndex \ new /\ c \in Clusters
        BY <1>6, <2>1
      <3> QED
        BY <1>2, <3>1 DEF Added
    <2> QED
      BY <2>1, <2>2 DEF Kept
  <1>8. Ref(d2, n) = en
    BY <1>1, <1>2, <1>3 DEF Ref
  <1>9. ASSUME NEW s \in Refs(d2), s # n
        PROVE  Path(f2, Ref(d2, n).cluster) \cap Path(f, Ref(d, s).cluster) = {}
    BY <1>5, <1>6, <1>8, <1>9 DEF Added
  <1>10. Holds(d2, f2, n[1], Ref(d2, n))
    BY <1>8 DEF Added
  <1>11. AllHold(d2, f2) /\ Disjoint(d2, f2)
    <2> HIDE DEF n
    <2> QED
      BY <1>7, <1>9, <1>10, SoundFrame DEF Sound
  <1>12. OneTable(d2, f2)
    <2> SUFFICES ASSUME NEW c \in FatIndex, d2[c].subdir, f2[c] # 0
                 PROVE  f2[c] = FAT32_FAT_END_OF_FILE
      BY DEF OneTable
    <2>1. c \in Clusters
      BY SizeFacts
    <2>2. CASE c \notin new
      BY <1>2, <2>1, <2>2 DEF Added, Sound, OneTable
    <2>3. CASE c \in new
      <3>1. en.subdir /\ Cardinality(new) = 1 /\ en.cluster \in new /\ en.cluster \in Clusters
        BY <2>3, ReachBasic DEF Added, Holds, Stored, Path
      <3>2. PICK x : new = {x}
        BY <3>1, FS_Singleton, <1>1, ClustersFinite, FS_Subset
      <3>3. PICK y \in Path(f2, en.cluster) : FatView(f2, NoName)[y] = FAT32_FAT_END_OF_FILE
        BY DEF Added, Holds, Stored, Terminates, Path
      <3>4. y = c
        BY <2>3, <3>2, <3>3 DEF Added
      <3> QED
        BY <2>1, <3>3, <3>4 DEF FatView
    <2> QED
      BY <2>2, <2>3
  <1>13. NoClash(d2)
    <2> SUFFICES ASSUME NEW c \in Tables(d2), NEW j \in LiveSlots(d2[c]), NEW l \in LiveSlots(d2[c]),
                        j # l
                 PROVE  ~Clash(d2[c].slots[j], d2[c].slots[l])
      BY DEF NoClash
    <2>1. c \in Clusters /\ c \notin new
      BY DEF Tables, Added
    <2>2. CASE c # p
      BY <2>1, <2>2 DEF Added, Sound, NoClash, Tables
    <2>3. CASE c = p
      <3>1. p \in Tables(d) /\ j \in Slots /\ l \in Slots
        BY <1>1, <1>2, <2>3 DEF Tables, LiveSlots
      <3>2. \A m \in Slots \ {i} : m \in LiveSlots(d2[p]) => m \in LiveSlots(d[p])
        BY <1>2, <1>3 DEF LiveSlots
      <3>3. CASE j # i /\ l # i
        BY <1>2, <1>3, <2>3, <3>1, <3>2, <3>3 DEF Sound, NoClash
      <3>4. CASE j = i
        <4>1. d2[c].slots[j] = en /\ l \in LiveSlots(d[p]) /\ d2[c].slots[l] = d[p].slots[l]
          BY <1>1, <1>2, <1>3, <2>3, <3>1, <3>2, <3>4
        <4> QED
          BY <4>1 DEF Added
      <3>5. CASE l = i
        <4>1. d2[c].slots[l] = en /\ j \in LiveSlots(d[p]) /\ d2[c].slots[j] = d[p].slots[j]
          BY <1>1, <1>2, <1>3, <2>3, <3>1, <3>2, <3>5
        <4> QED
          BY <4>1 DEF Added, Clash
      <3> QED
        BY <3>3, <3>4, <3>5
    <2> QED
      BY <2>2, <2>3
  <1>14. KeptBut(d, f, d2, f2, n)
    BY <1>7 DEF KeptBut
  <1>15. n \notin Refs(d)
    BY DEF Added, FreeSlots, LiveSlots, Refs
  <1>16. FilesKept(d, f, d2, f2)
    BY <1>7, <1>15 DEF FilesKept
  <1> QED
    BY <1>4, <1>11, <1>12, <1>13, <1>14, <1>16 DEF Sound

\* Table p has lost the entry in slot i, and the FAT the entry's chain.
Cleared(d, f, d2, f2, p, i) ==
    /\ d[p].subdir /\ i \in Slots /\ <<p, i>> \in Refs(d)
    /\ d[p].slots[i].undelete /\ d[p] \in Cluster /\ d[p].slots \in [Slots -> Entry]
    /\ d2[p].slots = [d[p].slots EXCEPT ![i] = NullEntry]
    /\ d2[p].subdir = d[p].subdir /\ d2[p].data = d[p].data
    /\ d2[p].name = d[p].name /\ d2[p].parent = d[p].parent
    /\ d2[p].notEmpty = IF LiveSlots(d2[p]) = {} THEN FALSE ELSE d[p].notEmpty
    /\ \A c \in Clusters \ {p} : d2[c] = d[c]
    /\ \A c \in FatIndex : f2[c] = IF c \in Path(f, d[p].slots[i].cluster) THEN 0 ELSE f[c]
    /\ \A s \in Refs(d2) : s \in Refs(d) /\ s # <<p, i>> /\ Ref(d2, s) = Ref(d, s)

LEMMA RemovedTable ==
    ASSUME NEW d \in Disk, NEW f, NEW d2, NEW f2, NEW p \in Clusters, NEW i,
           Removed(d, f, d2, f2, p, i)
    PROVE  Cleared(d, f, d2, f2, p, i)
  <1> DEFINE n == <<p, i>>
             chain == Path(f, d[p].slots[i].cluster)
             cleared == [d[p] EXCEPT !.slots[i] = NullEntry]
             flag == IF LiveSlots(cleared) = {} THEN FALSE ELSE d[p].notEmpty
  <1>1. /\ d[p].subdir /\ i \in Slots /\ n \in Refs(d)
        /\ d[p].slots[i].undelete /\ d[p] \in Cluster /\ d[p].slots \in [Slots -> Entry]
    <2>1. d[p].subdir /\ i \in Slots /\ d[p].slots[i].undelete
      BY DEF Removed, InTable, Tables, LiveSlots
    <2> QED
      BY <2>1 DEF Refs, Tables, Disk, Cluster
  <1>2. /\ f2 = FreeChain(f, chain)
        /\ d2 = [d EXCEPT ![p] = [cleared EXCEPT !.notEmpty = flag]]
    <2>1. cleared.notEmpty = d[p].notEmpty
      BY <1>1 DEF Cluster
    <2> QED
      BY <2>1 DEF Removed
  <1>3. /\ d2[p].slots = [d[p].slots EXCEPT ![i] = NullEntry]
        /\ d2[p].subdir = d[p].subdir /\ d2[p].data = d[p].data
        /\ d2[p].name = d[p].name /\ d2[p].parent = d[p].parent
        /\ d2[p].notEmpty = flag /\ cleared.slots = d2[p].slots
    <2>1. d2[p] = [cleared EXCEPT !.notEmpty = flag]
      BY <1>2 DEF Disk
    <2>2. cleared = [d[p] EXCEPT !.slots = [d[p].slots EXCEPT ![i] = NullEntry]]
      OBVIOUS
    <2> HIDE DEF flag, cleared
    <2>3. cleared = [subdir |-> d[p].subdir, name |-> d[p].name, parent |-> d[p].parent,
                     notEmpty |-> d[p].notEmpty, data |-> d[p].data,
                     slots |-> [d[p].slots EXCEPT ![i] = NullEntry]]
      BY <1>1, <2>2 DEF Cluster
    <2> QED
      BY <2>1, <2>3
  <1>4. d2[p].notEmpty = IF LiveSlots(d2[p]) = {} THEN FALSE ELSE d[p].notEmpty
    <2>1. LiveSlots(cleared) = LiveSlots(d2[p])
      BY <1>3 DEF LiveSlots
    <2> QED
      BY <1>3, <2>1
  <1> HIDE DEF flag, cleared
  <1>5. \A c \in Clusters \ {p} : d2[c] = d[c]
    BY <1>2 DEF Disk
  <1>6. \A c \in FatIndex : f2[c] = IF c \in chain THEN 0 ELSE f[c]
    BY <1>2 DEF FreeChain
  <1>7. ~NullEntry.undelete
    BY DEF NullEntry
  <1>8. ASSUME NEW s \in Refs(d2)
        PROVE  s \in Refs(d) /\ s # n /\ Ref(d2, s) = Ref(d, s)
    <2>1. PICK c \in Tables(d2), l \in Slots : s = <<c, l>> /\ d2[c].slots[l].undelete
      BY DEF Refs
    <2>2. CASE c = p
      <3>1. l # i
        BY <1>1, <1>3, <1>7, <2>1, <2>2
      <3> QED
        BY <1>1, <1>3, <2>1, <2>2, <3>1 DEF Refs, Ref, Tables
    <2>3. CASE c # p
      BY <1>5, <2>1, <2>3 DEF Refs, Ref, Tables
    <2> QED
      BY <2>2, <2>3
  <1> QED
    BY <1>1, <1>3, <1>4, <1>5, <1>6, <1>8 DEF Cleared

LEMMA RemovedSound ==
    ASSUME NEW d \in Disk, NEW f, Sound(d, f), NEW d2, NEW f2, NEW p, NEW i,
           Removed(d, f, d2, f2, p, i)
    PROVE  Sound(d2, f2) /\ KeptBut(d, f, d2, f2, <<p, i>>) /\ FilesKept(d, f, d2, f2)
  <1> DEFINE n == <<p, i>>
             chain == Path(f, d[p].slots[i].cluster)
  <1>0. p \in Clusters /\ p # 0
    BY DEF Sound, Removed, InTable, Tables, Blank
  <1>2. Cleared(d, f, d2, f2, p, i)
    BY <1>0, RemovedTable
  <1>1. /\ d[p].subdir /\ i \in Slots /\ n \in Refs(d)
        /\ d[p].slots[i].undelete /\ d[p] \in Cluster /\ d[p].slots \in [Slots -> Entry]
        /\ p \in Clusters /\ p # 0
    BY <1>0, <1>2 DEF Cleared
  <1>3. /\ d2[p].slots = [d[p].slots EXCEPT ![i] = NullEntry]
        /\ d2[p].subdir = d[p].subdir /\ d2[p].data = d[p].data
        /\ d2[p].name = d[p].name /\ d2[p].parent = d[p].parent
    BY <1>2 DEF Cleared
  <1>4. \A c \in Clusters \ {p} : d2[c] = d[c]
    BY <1>2 DEF Cleared
  <1>5. \A c \in FatIndex : f2[c] = IF c \in chain THEN 0 ELSE f[c]
    BY <1>2 DEF Cleared
  <1>6. d2[0] = Blank
    BY <1>1, <1>4, SizeFacts DEF Sound
  <1>8. ASSUME NEW s \in Refs(d2)
        PROVE  s \in Refs(d) /\ s # n /\ Ref(d2, s) = Ref(d, s)
    BY <1>2 DEF Cleared
  <1>9. ASSUME NEW s \in Refs(d2) PROVE Kept(d, f, d2, f2, s)
    <2>1. s \in Refs(d) /\ s # n /\ Ref(d2, s) = Ref(d, s)
      BY <1>8
    <2>2. Path(f, Ref(d, s).cluster) \cap chain = {}
      BY <1>1, <2>1 DEF Sound, Disjoint, Ref
    <2>3. ASSUME NEW c \in Path(f, Ref(d, s).cluster)
          PROVE  /\ f2[c] = f[c]
                 /\ d2[c].subdir = d[c].subdir /\ d2[c].data = d[c].data
                 /\ d2[c].name = d[c].name /\ d2[c].parent = d[c].parent
      <3>1. c \in 3 .. CLUSTER_MAP_SIZE - 1
        BY <2>1 DEF Sound, AllHold, Holds, Stored
      <3>2. c \in FatIndex /\ c \in Clusters /\ c \notin chain
        BY <2>2, <3>1, SizeFacts DEF FatIndex, Clusters
      <3> QED
        BY <1>3, <1>4, <1>5, <3>2
    <2> QED
      BY <2>1, <2>3 DEF Kept
  <1>10. AllHold(d2, f2) /\ Disjoint(d2, f2)
    <2>1. n \notin Refs(d2)
      BY <1>8
    <2> HIDE DEF n
    <2> QED
      BY <1>9, <2>1, SoundFrame DEF Sound
  <1>11. OneTable(d2, f2)
    BY <1>3, <1>4, <1>5, SizeFacts DEF Sound, OneTable
  <1>12. NoClash(d2)
    <2> SUFFICES ASSUME NEW c \in Tables(d2), NEW j \in LiveSlots(d2[c]), NEW l \in LiveSlots(d2[c]),
                        j # l
                 PROVE  ~Clash(d2[c].slots[j], d2[c].slots[l])
      BY DEF NoClash
    <2>1. <<c, j>> \in Refs(d2) /\ <<c, l>> \in Refs(d2)
      BY DEF Refs, LiveSlots
    <2>2. /\ c \in Tables(d) /\ j \in LiveSlots(d[c]) /\ l \in LiveSlots(d[c])
          /\ d2[c].slots[j] = d[c].slots[j] /\ d2[c].slots[l] = d[c].slots[l]
      BY <1>8, <2>1 DEF Refs, Ref, LiveSlots
    <2> QED
      BY <2>2 DEF Sound, NoClash
  <1>13. KeptBut(d, f, d2, f2, n) /\ FilesKept(d, f, d2, f2)
    BY <1>9 DEF KeptBut, FilesKept
  <1> QED
    BY <1>6, <1>10, <1>11, <1>12, <1>13 DEF Sound

LEMMA FolderEntryFields ==
    ASSUME NEW c, NEW name
    PROVE  LET en == FolderEntry(c, name)
           IN  /\ en.undelete /\ en.subdir /\ en.cluster = c /\ en.name = name
               /\ en.ext = NoExt
  BY DEF FolderEntry

\* A directory has one cluster, the one its entries lead to.
LEMMA FolderPath ==
    ASSUME NEW d, NEW f, NEW p, NEW en, Stored(d, f, p, en), en.subdir
    PROVE  /\ Path(f, en.cluster) = {en.cluster}
           /\ en.cluster \in 3 .. CLUSTER_MAP_SIZE - 1
           /\ en.cluster \in FatIndex /\ en.cluster \in Clusters
           /\ d[en.cluster].subdir
           /\ f[en.cluster] # 0
  <1>1. en.cluster \in Path(f, en.cluster) /\ Path(f, en.cluster) \subseteq Clusters
        /\ IsFiniteSet(Path(f, en.cluster))
    BY ReachBasic DEF Stored, Path
  <1>2. Cardinality(Path(f, en.cluster)) = 1
    BY DEF Stored
  <1>3. Path(f, en.cluster) = {en.cluster}
    BY <1>1, <1>2, FS_Singleton
  <1>4. en.cluster \in 3 .. CLUSTER_MAP_SIZE - 1 /\ f[en.cluster] # 0 /\ d[en.cluster].subdir = en.subdir
    BY <1>1 DEF Stored
  <1>5. en.cluster \in FatIndex /\ en.cluster \in Clusters
    BY <1>4, SizeFacts DEF FatIndex
  <1> QED
    BY <1>3, <1>4, <1>5

LEMMA RelabelledSound ==
    ASSUME NEW d \in Disk, NEW f, Sound(d, f), NEW d2, NEW f2, NEW p, NEW i,
           NEW new, Relabelled(d, f, d2, f2, p, i, new)
    PROVE  Sound(d2, f2) /\ KeptBut(d, f, d2, f2, <<p, i>>) /\ FilesKept(d, f, d2, f2)
  <1> DEFINE n == <<p, i>>
             c == d[p].slots[i].cluster
             en == FolderEntry(c, new)
  <1>1. /\ p \in Clusters /\ p # 0 /\ d[p].subdir /\ i \in Slots /\ n \in Refs(d)
        /\ d[p].slots[i].undelete /\ d[p].slots[i].subdir
        /\ d[p] \in Cluster /\ d[p].slots \in [Slots -> Entry]
    <2>1. p # 0
      BY DEF Sound, Relabelled, InTable, Tables, Blank
    <2>2. p \in Clusters /\ d[p].subdir /\ i \in Slots /\ d[p].slots[i].undelete /\ d[p].slots[i].subdir
      BY DEF Relabelled, InTable, Tables, LiveSlots
    <2> QED
      BY <2>1, <2>2 DEF Refs, Tables, Disk, Cluster
  <1>2. Holds(d, f, p, d[p].slots[i])
    BY <1>1 DEF Sound, AllHold, Ref
  <1>3. /\ Path(f, c) = {c} /\ c \in 3 .. CLUSTER_MAP_SIZE - 1 /\ c \in FatIndex /\ c \in Clusters
        /\ c # p /\ c # 0 /\ d[c].subdir /\ f[c] # 0 /\ d[c] \in Cluster
    <2>1. c # p
      BY <1>1, <1>2 DEF Holds, Stored
    <2> QED
      BY <1>1, <1>2, <2>1, FolderPath DEF Disk, Holds
  <1>4. f2 = f /\ d2 = [d EXCEPT ![p].slots[i] = en, ![c] = Renamed(d[c], new)]
    BY DEF Relabelled
  <1> HIDE DEF c
  <1>5. /\ d2[p] = [d[p] EXCEPT !.slots = [d[p].slots EXCEPT ![i] = en]]
        /\ d2[c] = [d[c] EXCEPT !.name = new]
        /\ \A b \in Clusters \ {p, c} : d2[b] = d[b]
    BY <1>1, <1>3, <1>4 DEF Renamed, Disk
  <1> HIDE DEF en
  <1>6. /\ d2[p].slots = [d[p].slots EXCEPT ![i] = en]
        /\ d2[p].subdir = d[p].subdir /\ d2[p].data = d[p].data
        /\ d2[p].name = d[p].name /\ d2[p].parent = d[p].parent
    <2>1. d[p] \in Cluster
      BY <1>1
    <2>2. d2[p] = [d[p] EXCEPT !.slots = [d[p].slots EXCEPT ![i] = en]]
      BY <1>5
    <2> QED
      BY <2>1, <2>2 DEF Cluster
  <1>7. /\ d2[c].slots = d[c].slots /\ d2[c].subdir = d[c].subdir /\ d2[c].data = d[c].data
        /\ d2[c].name = new /\ d2[c].parent = d[c].parent
    <2>1. d[c] \in Cluster
      BY <1>3
    <2>2. d2[c] = [d[c] EXCEPT !.name = new]
      BY <1>5
    <2> QED
      BY <2>1, <2>2 DEF Cluster
  <1>8. en.undelete /\ en.subdir /\ en.cluster = c /\ en.name = new /\ en.ext = NoExt
    BY FolderEntryFields DEF en
  <1>9. d2[0] = Blank
    BY <1>1, <1>3, <1>5, SizeFacts DEF Sound
  <1>10. ASSUME NEW s \in Refs(d2), s # n
         PROVE  s \in Refs(d) /\ Ref(d2, s) = Ref(d, s)
    <2>1. PICK b \in Tables(d2), l \in Slots : s = <<b, l>> /\ d2[b].slots[l].undelete
      BY DEF Refs
    <2>2. CASE b = p
      BY <1>1, <1>6, <1>10, <2>1, <2>2 DEF Refs, Ref, Tables
    <2>3. CASE b = c
      BY <1>3, <1>7, <2>1, <2>3 DEF Refs, Ref, Tables
    <2>4. CASE b # p /\ b # c
      BY <1>5, <2>1, <2>4 DEF Refs, Ref, Tables
    <2> QED
      BY <2>2, <2>3, <2>4
  <1>11. ASSUME NEW s \in Refs(d2), s # n
         PROVE  c \notin Path(f, Ref(d, s).cluster)
    <2>1. Path(f, Ref(d, s).cluster) \cap Path(f, Ref(d, n).cluster) = {}
      BY <1>1, <1>10, <1>11 DEF Sound, Disjoint
    <2> QED
      BY <1>3, <2>1 DEF Ref, c
  <1>12. ASSUME NEW s \in Refs(d2), s # n PROVE Kept(d, f, d2, f2, s)
    <2>1. s \in Refs(d) /\ Ref(d2, s) = Ref(d, s)
      BY <1>10, <1>12
    <2>2. ASSUME NEW b \in Path(f, Ref(d, s).cluster)
          PROVE  /\ f2[b] = f[b]
                 /\ d2[b].subdir = d[b].subdir /\ d2[b].data = d[b].data
                 /\ d2[b].name = d[b].name /\ d2[b].parent = d[b].parent
      <3>1. b \in 3 .. CLUSTER_MAP_SIZE - 1
        BY <2>1 DEF Sound, AllHold, Holds, Stored
      <3>2. b \in Clusters /\ b # c
        BY <1>11, <1>12, <3>1, SizeFacts DEF Clusters
      <3> QED
        BY <1>4, <1>5, <1>6, <3>2
    <2> QED
      BY <2>1, <2>2 DEF Kept
  <1>13. Ref(d2, n) = en
    BY <1>1, <1>6 DEF Ref
  <1>14. Holds(d2, f2, p, en)
    <2>1. Path(f, c) \subseteq 3 .. CLUSTER_MAP_SIZE - 1 /\ Terminates(FatView(f, NoName), c)
          /\ Cardinality(Path(f, c)) = 1 /\ d[c].parent = p
      BY <1>1, <1>2 DEF Holds, Stored, c
    <2> QED
      BY <1>3, <1>4, <1>7, <1>8, <2>1 DEF Holds, Stored
  <1>15. AllHold(d2, f2) /\ Disjoint(d2, f2)
    <2>1. \A s \in Refs(d2) : s # n =>
            Path(f2, Ref(d2, n).cluster) \cap Path(f, Ref(d, s).cluster) = {}
      BY <1>3, <1>4, <1>8, <1>11, <1>13
    <2>2. Holds(d2, f2, n[1], Ref(d2, n))
      BY <1>13, <1>14
    <2> HIDE DEF n
    <2> QED
      BY <1>12, <2>1, <2>2, SoundFrame DEF Sound
  <1>16. OneTable(d2, f2)
    BY <1>4, <1>5, <1>6, <1>7, SizeFacts DEF Sound, OneTable
  <1>17. NoClash(d2)
    <2> SUFFICES ASSUME NEW b \in Tables(d2), NEW j \in LiveSlots(d2[b]), NEW l \in LiveSlots(d2[b]),
                        j # l
                 PROVE  ~Clash(d2[b].slots[j], d2[b].slots[l])
      BY DEF NoClash
    <2>1. b \in Tables(d)
      BY <1>1, <1>3, <1>5 DEF Tables
    <2>2. CASE b # p
      BY <1>5, <1>7, <2>1, <2>2 DEF Sound, NoClash, Tables, LiveSlots
    <2>3. CASE b = p
      <3>1. \A m \in Slots \ {i} : m \in LiveSlots(d2[p]) => m \in LiveSlots(d[p])
                                   /\ d2[p].slots[m] = d[p].slots[m]
        BY <1>1, <1>6 DEF LiveSlots
      <3>2. j \in Slots /\ l \in Slots /\ d2[p].slots[i] = en
        BY <1>1, <1>6 DEF LiveSlots
      <3>3. \A m \in LiveSlots(d[p]) : ~Clash(en, d[p].slots[m])
        BY DEF Relabelled, en, c
      <3>4. CASE j # i /\ l # i
        BY <2>1, <2>3, <3>1, <3>2, <3>4 DEF Sound, NoClash
      <3>5. CASE j = i
        BY <2>3, <3>1, <3>2, <3>3, <3>5
      <3>6. CASE l = i
        BY <2>3, <3>1, <3>2, <3>3, <3>6 DEF Clash
      <3> QED
        BY <3>4, <3>5, <3>6
    <2> QED
      BY <2>2, <2>3
  <1>18. KeptBut(d, f, d2, f2, n)
    BY <1>12 DEF KeptBut
  <1>19. FilesKept(d, f, d2, f2)
    BY <1>8, <1>12, <1>13 DEF FilesKept
  <1> QED
    BY <1>9, <1>15, <1>16, <1>17, <1>18, <1>19 DEF Sound

\* The disk after the first write of move_dir.
Unhooked(d, p, i) == [d EXCEPT ![p].slots[i].undelete = FALSE]

\* The directory c of slot i of table p is in slot j of table q.
Rehung(d, f, d2, f2, p, i, q, j) ==
    LET c == d[p].slots[i].cluster
        en == FolderEntry(c, d[c].name)
        old == Unhooked(d, p, i)
    IN  /\ p \in Clusters /\ p # 0 /\ d[p].subdir /\ i \in Slots /\ <<p, i>> \in Refs(d)
        /\ d[p].slots[i].subdir
        /\ q \in Clusters /\ q # 0 /\ d[q].subdir /\ j \in Slots
        /\ Path(f, c) = {c} /\ c \in 3 .. CLUSTER_MAP_SIZE - 1 /\ c \in FatIndex /\ c \in Clusters
        /\ c # p /\ c # 0 /\ d[c].subdir /\ f[c] # 0 /\ d[c] \in Cluster
        /\ old \in [Clusters -> {old[b] : b \in Clusters}]
        /\ \A b \in Clusters \ {p} : old[b] = d[b]
        /\ old[p].subdir = d[p].subdir /\ old[p].data = d[p].data /\ old[p].name = d[p].name
        /\ old[p].parent = d[p].parent /\ old[p].notEmpty = d[p].notEmpty
        /\ \A l \in Slots \ {i} : old[p].slots[l] = d[p].slots[l]
        /\ f2 = f /\ j \in FreeSlots(old[q])
        /\ \A l \in LiveSlots(old[q]) : ~Clash(en, old[q].slots[l])
        /\ \A b \in Clusters \ {q, c} : d2[b] = old[b]
        /\ d2[c].slots = d[c].slots /\ d2[c].subdir = d[c].subdir /\ d2[c].data = d[c].data
        /\ d2[c].name = d[c].name /\ d2[c].parent = q /\ d2[c].notEmpty = d[c].notEmpty
        /\ q # c => /\ \A l \in Slots \ {j} : d2[q].slots[l] = old[q].slots[l]
                    /\ d2[q].slots[j] = en
                    /\ d2[q].subdir = d[q].subdir /\ d2[q].notEmpty = d[q].notEmpty
                    /\ d2[q].name = d[q].name /\ d2[q].parent = d[q].parent
        /\ \A s \in Refs(old) : s \in Refs(d) /\ s # <<p, i>> /\ Ref(old, s) = Ref(d, s)
        /\ \A s \in Refs(d2) : s # <<q, j>> => s \in Refs(old) /\ Ref(d2, s) = Ref(old, s)

LEMMA CarriedTables ==
    ASSUME NEW d \in Disk, NEW f, Usable(d, f), NEW d2, NEW f2, NEW p, NEW i, NEW q, NEW j,
           Carried(d, f, d2, f2, p, i, q, j)
    PROVE  Rehung(d, f, d2, f2, p, i, q, j)
  <1> DEFINE m == <<p, i>>
             n == <<q, j>>
             c == d[p].slots[i].cluster
             en == FolderEntry(c, d[c].name)
             old == Unhooked(d, p, i)
             gone == [d[p].slots[i] EXCEPT !.undelete = FALSE]
  <1>1. /\ p \in Clusters /\ p # 0 /\ d[p].subdir /\ i \in Slots /\ m \in Refs(d)
        /\ d[p].slots[i].undelete /\ d[p].slots[i].subdir
        /\ d[p] \in Cluster /\ d[p].slots \in [Slots -> Entry] /\ d[p].slots[i] \in Entry
    <2>0. InTable(d, p, i) /\ d[p].slots[i].subdir
      BY Zenon DEF Carried
    <2>1. p # 0
      BY <2>0 DEF Usable, InTable, Tables, Blank
    <2>2. p \in Clusters /\ d[p].subdir /\ i \in Slots /\ d[p].slots[i].undelete /\ d[p].slots[i].subdir
      BY <2>0 DEF InTable, Tables, LiveSlots
    <2> QED
      BY <2>1, <2>2 DEF Refs, Tables, Disk, Cluster
  <1>2. /\ q \in Clusters /\ q # 0 /\ d[q].subdir /\ d[q] \in Cluster
        /\ d[q].slots \in [Slots -> Entry]
    <2>0. q \in FatIndex /\ d[q].subdir
      BY Zenon DEF Carried
    <2>1. q # 0
      BY <2>0 DEF Usable, Blank
    <2>2. q \in Clusters /\ d[q].subdir
      BY <2>0, SizeFacts
    <2> QED
      BY <2>1, <2>2 DEF Disk, Cluster
  <1>3. Stored(d, f, p, d[p].slots[i])
    BY <1>1 DEF Usable, AllStored, Ref
  <1>4. /\ Path(f, c) = {c} /\ c \in 3 .. CLUSTER_MAP_SIZE - 1 /\ c \in FatIndex /\ c \in Clusters
        /\ c # p /\ c # 0 /\ d[c].subdir /\ f[c] # 0 /\ d[c] \in Cluster
    <2>1. c # p
      BY <1>1, <1>3 DEF Stored
    <2> QED
      BY <1>1, <1>3, <2>1, FolderPath DEF Disk
  <1>5. /\ old[p] = [d[p] EXCEPT !.slots = [d[p].slots EXCEPT ![i] = gone]]
        /\ \A b \in Clusters \ {p} : old[b] = d[b]
        /\ old \in [Clusters -> {old[b] : b \in Clusters}]
    BY <1>1 DEF Disk, Unhooked
  <1>6. /\ f2 = f /\ j \in FreeSlots(old[q])
        /\ d2 = [old EXCEPT ![q].slots[j] = en, ![q].data = NoData, ![c] = Reparented(d[c], q)]
        /\ \A l \in LiveSlots(old[q]) : ~Clash(en, old[q].slots[l])
    BY DEF Carried, Unhooked
  <1>7. ~gone.undelete
    BY <1>1 DEF Entry
  <1> HIDE DEF c, old, gone
  <1>8. /\ q # c => d2[q] = [[old[q] EXCEPT !.slots = [old[q].slots EXCEPT ![j] = en]] EXCEPT !.data = NoData]
        /\ d2[c] = [d[c] EXCEPT !.parent = q]
        /\ \A b \in Clusters \ {q, c} : d2[b] = old[b]
    BY <1>2, <1>4, <1>5, <1>6 DEF Reparented
  <1> HIDE DEF en
  <1>9. /\ old[p].slots = [d[p].slots EXCEPT ![i] = gone]
        /\ old[p].subdir = d[p].subdir /\ old[p].data = d[p].data
        /\ old[p].name = d[p].name /\ old[p].parent = d[p].parent
        /\ old[p].notEmpty = d[p].notEmpty
    <2>1. d[p] \in Cluster
      BY <1>1
    <2>2. old[p] = [d[p] EXCEPT !.slots = [d[p].slots EXCEPT ![i] = gone]]
      BY <1>5
    <2> QED
      BY <2>1, <2>2 DEF Cluster
  <1>10. /\ d2[c].slots = d[c].slots /\ d2[c].subdir = d[c].subdir /\ d2[c].data = d[c].data
         /\ d2[c].name = d[c].name /\ d2[c].parent = q /\ d2[c].notEmpty = d[c].notEmpty
    <2>1. d[c] \in Cluster
      BY <1>4
    <2>2. d2[c] = [d[c] EXCEPT !.parent = q]
      BY <1>8
    <2> QED
      BY <2>1, <2>2 DEF Cluster
  <1>11. ASSUME q # c
         PROVE  /\ d2[q].slots = [old[q].slots EXCEPT ![j] = en]
                /\ d2[q].subdir = d[q].subdir /\ d2[q].notEmpty = d[q].notEmpty
                /\ d2[q].name = d[q].name /\ d2[q].parent = d[q].parent
    <2>1. \E sl : old[q] = [d[q] EXCEPT !.slots = sl]
      <3>1. CASE q = p
        BY <1>5, <3>1
      <3>2. CASE q # p
        <4>1. d[q] = [d[q] EXCEPT !.slots = d[q].slots]
          BY <1>2 DEF Cluster
        <4> QED
          BY <1>2, <1>5, <3>2, <4>1
      <3> QED
        BY <3>1, <3>2
    <2>2. PICK sl : old[q] = [d[q] EXCEPT !.slots = sl]
      BY <2>1
    <2>3. old[q] = [subdir |-> d[q].subdir, name |-> d[q].name, parent |-> d[q].parent,
                    notEmpty |-> d[q].notEmpty, data |-> d[q].data, slots |-> sl]
      BY <1>2, <2>2 DEF Cluster
    <2>4. d2[q] = [[old[q] EXCEPT !.slots = [old[q].slots EXCEPT ![j] = en]] EXCEPT !.data = NoData]
      BY <1>8, <1>11
    <2> QED
      BY <2>3, <2>4
  <1>12. en.undelete /\ en.subdir /\ en.cluster = c /\ en.name = d[c].name /\ en.ext = NoExt
    BY FolderEntryFields DEF en
  <1>13. /\ old[q].slots \in [Slots -> {old[q].slots[l] : l \in Slots}] /\ j \in Slots
         /\ old[q].subdir
    <2>1. CASE q = p
      BY <1>1, <1>2, <1>6, <1>9, <2>1 DEF FreeSlots
    <2>2. CASE q # p
      BY <1>2, <1>5, <1>6, <2>2 DEF FreeSlots
    <2> QED
      BY <2>1, <2>2
  <1>14. ASSUME NEW s \in Refs(old) PROVE s \in Refs(d) /\ s # m /\ Ref(old, s) = Ref(d, s)
    <2>0. PICK b \in Clusters, l \in Slots : s = <<b, l>> /\ old[b].subdir /\ old[b].slots[l].undelete
      BY DEF Refs, Tables
    <2>1. CASE b = p
      <3>1. l # i
        BY <1>1, <1>7, <1>9, <2>0, <2>1
      <3> QED
        BY <1>1, <1>9, <2>0, <2>1, <3>1 DEF Refs, Tables, Ref
    <2>2. CASE b # p
      BY <1>5, <2>0, <2>2 DEF Refs, Tables, Ref
    <2> QED
      BY <2>1, <2>2
  <1>15. ASSUME NEW s \in Refs(d2), s # n
         PROVE  s \in Refs(old) /\ Ref(d2, s) = Ref(old, s)
    <2>1. PICK b \in Tables(d2), l \in Slots : s = <<b, l>> /\ d2[b].slots[l].undelete
      BY DEF Refs
    <2>2. b \in Clusters /\ d2[b].subdir
      BY DEF Tables
    <2>3. CASE b = c
      <3>1. old[c] = d[c]
        BY <1>4, <1>5
      <3> QED
        BY <1>4, <1>10, <2>1, <2>2, <2>3, <3>1 DEF Refs, Tables, Ref
    <2>4. CASE b = q /\ q # c
      <3>1. l # j
        BY <1>15, <2>1, <2>4
      <3> QED
        BY <1>2, <1>11, <1>13, <2>1, <2>2, <2>4, <3>1 DEF Refs, Tables, Ref
    <2>5. CASE b # q /\ b # c
      BY <1>8, <2>1, <2>2, <2>5 DEF Refs, Tables, Ref
    <2> QED
      BY <2>3, <2>4, <2>5
  <1>16. /\ \A l \in Slots \ {i} : old[p].slots[l] = d[p].slots[l]
         /\ q # c => /\ \A l \in Slots \ {j} : d2[q].slots[l] = old[q].slots[l]
                     /\ d2[q].slots[j] = en
    BY <1>1, <1>9, <1>11, <1>13
  <1>17. /\ p \in Clusters /\ p # 0 /\ d[p].subdir /\ i \in Slots /\ <<p, i>> \in Refs(d)
         /\ d[p].slots[i].subdir
         /\ q \in Clusters /\ q # 0 /\ d[q].subdir /\ j \in Slots
         /\ \A b \in Clusters \ {q, c} : d2[b] = old[b]
    BY <1>1, <1>2, <1>8, <1>13
  <1> HIDE DEF m, n
  <1> QED
    BY <1>4, <1>5, <1>6, <1>9, <1>10, <1>11, <1>14, <1>15, <1>16, <1>17 DEF Rehung, c, en, old, m, n

LEMMA CarriedSound ==
    ASSUME NEW d \in Disk, NEW f, Sound(d, f), NEW d2, NEW f2, NEW p, NEW i, NEW q, NEW j,
           Carried(d, f, d2, f2, p, i, q, j)
    PROVE  Sound(d2, f2) /\ KeptBut(d, f, d2, f2, <<q, j>>) /\ FilesKept(d, f, d2, f2)
  <1> DEFINE m == <<p, i>>
             n == <<q, j>>
             c == d[p].slots[i].cluster
             en == FolderEntry(c, d[c].name)
             old == Unhooked(d, p, i)
  <1>0. Rehung(d, f, d2, f2, p, i, q, j)
    BY SoundUsable, CarriedTables
  <1>1. /\ p \in Clusters /\ p # 0 /\ d[p].subdir /\ i \in Slots /\ m \in Refs(d)
        /\ d[p].slots[i].subdir
        /\ q \in Clusters /\ q # 0 /\ d[q].subdir /\ j \in Slots
    BY <1>0 DEF Rehung
  <1>3. Holds(d, f, p, d[p].slots[i])
    BY <1>1 DEF Sound, AllHold, Ref
  <1>4. /\ Path(f, c) = {c} /\ c \in 3 .. CLUSTER_MAP_SIZE - 1 /\ c \in FatIndex /\ c \in Clusters
        /\ c # p /\ c # 0 /\ d[c].subdir /\ f[c] # 0 /\ d[c] \in Cluster
    BY <1>0 DEF Rehung
  <1> HIDE DEF en
  <1>6. /\ f2 = f /\ j \in FreeSlots(old[q])
        /\ \A l \in LiveSlots(old[q]) : ~Clash(en, old[q].slots[l])
    BY <1>0 DEF Rehung, en
  <1>5. /\ \A b \in Clusters \ {p} : old[b] = d[b]
        /\ \A b \in Clusters \ {q, c} : d2[b] = old[b]
    BY <1>0 DEF Rehung
  <1>9. /\ old[p].subdir = d[p].subdir /\ old[p].data = d[p].data
        /\ old[p].name = d[p].name /\ old[p].parent = d[p].parent
    BY <1>0 DEF Rehung
  <1>10. /\ d2[c].slots = d[c].slots /\ d2[c].subdir = d[c].subdir /\ d2[c].data = d[c].data
         /\ d2[c].name = d[c].name /\ d2[c].parent = q
    BY <1>0 DEF Rehung
  <1>11. ASSUME q # c
         PROVE  /\ d2[q].slots[j] = en /\ d2[q].subdir = d[q].subdir
                /\ d2[q].name = d[q].name /\ d2[q].parent = d[q].parent
    BY <1>0, <1>11 DEF Rehung, en
  <1>12. en.undelete /\ en.subdir /\ en.cluster = c /\ en.name = d[c].name /\ en.ext = NoExt
    BY FolderEntryFields DEF en
  \* The entries after the first half: one less.
  <1>14. \A s \in Refs(old) : s \in Refs(d) /\ s # m /\ Ref(old, s) = Ref(d, s)
    BY <1>0 DEF Rehung
  <1>15. \A s \in Refs(d2) : s # n => s \in Refs(old) /\ Ref(d2, s) = Ref(old, s)
    BY <1>0 DEF Rehung
  <1> HIDE DEF c, old
  <1>16. ASSUME NEW s \in Refs(d2), s # n
         PROVE  s \in Refs(d) /\ s # m /\ Ref(d2, s) = Ref(d, s)
    BY <1>14, <1>15, <1>16
  <1>17. ASSUME NEW s \in Refs(d2), s # n
         PROVE  c \notin Path(f, Ref(d, s).cluster)
    <2>1. s \in Refs(d) /\ s # m
      BY <1>16, <1>17
    <2>2. Path(f, Ref(d, s).cluster) \cap Path(f, Ref(d, m).cluster) = {}
      BY <1>1, <2>1 DEF Sound, Disjoint
    <2> QED
      BY <1>4, <2>2 DEF Ref, c
  <1>18. ASSUME NEW b \in Clusters, b # c
         PROVE  /\ d2[b].subdir = d[b].subdir /\ (~d[b].subdir => d2[b].data = d[b].data)
                /\ d2[b].name = d[b].name /\ d2[b].parent = d[b].parent
    <2>1. CASE b = q
      BY <1>1, <1>11, <1>18, <2>1
    <2>2. CASE b # q /\ b = p
      BY <1>5, <1>9, <1>18, <2>2
    <2>3. CASE b # q /\ b # p
      BY <1>5, <1>18, <2>3
    <2> QED
      BY <2>1, <2>2, <2>3
  <1>19. ASSUME NEW s \in Refs(d2), s # n PROVE Kept(d, f, d2, f2, s)
    <2>1. s \in Refs(d) /\ Ref(d2, s) = Ref(d, s)
      BY <1>16, <1>19
    <2>2. ASSUME NEW b \in Path(f, Ref(d, s).cluster)
          PROVE  b \in Clusters /\ b # c
      <3>1. b \in 3 .. CLUSTER_MAP_SIZE - 1
        BY <2>1 DEF Sound, AllHold, Holds, Stored
      <3> QED
        BY <1>17, <1>19, <3>1, SizeFacts DEF Clusters
    <2> QED
      BY <1>6, <1>18, <2>1, <2>2 DEF Kept
  <1>20. ASSUME n \in Refs(d2)
         PROVE  /\ q # c /\ Ref(d2, n) = en
                /\ Holds(d2, f2, q, en)
    <2>1. q # c
      <3> SUFFICES ASSUME q = c PROVE FALSE
        OBVIOUS
      <3>1. old[q] = d[q] /\ d2[q].slots = d[q].slots
        BY <1>4, <1>5, <1>10
      <3> QED
        BY <1>6, <1>20, <3>1 DEF Refs, FreeSlots, LiveSlots
    <2>2. Ref(d2, n) = en
      BY <1>11, <2>1 DEF Ref
    <2>3. Path(f, c) \subseteq 3 .. CLUSTER_MAP_SIZE - 1 /\ Terminates(FatView(f, NoName), c)
          /\ Cardinality(Path(f, c)) = 1
      BY <1>1, <1>3 DEF Holds, Stored, c
    <2>4. Holds(d2, f2, q, en)
      BY <1>4, <1>6, <1>10, <1>12, <2>1, <2>3 DEF Holds, Stored
    <2> QED
      BY <2>1, <2>2, <2>4
  <1>21. AllHold(d2, f2) /\ Disjoint(d2, f2)
    <2>1. n \in Refs(d2) =>
            /\ Holds(d2, f2, n[1], Ref(d2, n))
            /\ \A s \in Refs(d2) : s # n =>
                  Path(f2, Ref(d2, n).cluster) \cap Path(f, Ref(d, s).cluster) = {}
      BY <1>4, <1>6, <1>12, <1>17, <1>20
    <2> HIDE DEF n, m
    <2> QED
      BY <1>19, <2>1, SoundFrame DEF Sound
  <1>22. OneTable(d2, f2)
    BY <1>6, <1>10, <1>18, SizeFacts DEF Sound, OneTable
  <1>23. d2[0] = Blank
    BY <1>1, <1>4, <1>5, SizeFacts DEF Sound
  <1>24. NoClash(d2)
    <2> SUFFICES ASSUME NEW b \in Tables(d2), NEW k \in LiveSlots(d2[b]), NEW l \in LiveSlots(d2[b]),
                        k # l
                 PROVE  ~Clash(d2[b].slots[k], d2[b].slots[l])
      BY DEF NoClash
    <2>1. <<b, k>> \in Refs(d2) /\ <<b, l>> \in Refs(d2)
      BY DEF Refs, LiveSlots
    <2>2. CASE <<b, k>> # n /\ <<b, l>> # n
      <3>1. /\ <<b, k>> \in Refs(d) /\ <<b, l>> \in Refs(d)
            /\ d2[b].slots[k] = d[b].slots[k] /\ d2[b].slots[l] = d[b].slots[l]
        BY <1>16, <2>1, <2>2 DEF Ref
      <3>2. b \in Tables(d) /\ k \in LiveSlots(d[b]) /\ l \in LiveSlots(d[b])
        BY <3>1 DEF Refs, LiveSlots
      <3> QED
        BY <3>1, <3>2 DEF Sound, NoClash
    <2>3. ASSUME NEW x \in LiveSlots(d2[q]), NEW y \in LiveSlots(d2[q]), x = j, y # j,
                 n \in Refs(d2), <<q, y>> \in Refs(d2)
          PROVE  ~Clash(d2[q].slots[x], d2[q].slots[y])
      <3>1. d2[q].slots[x] = en
        BY <1>20, <2>3 DEF Ref
      <3>2. /\ y \in Slots /\ old[q].slots[y].undelete
            /\ d2[q].slots[y] = old[q].slots[y]
        BY <1>15, <2>3 DEF Refs, Ref
      <3> QED
        BY <1>6, <3>1, <3>2 DEF LiveSlots
    <2> QED
      BY <2>1, <2>2, <2>3 DEF Clash
  <1>25. KeptBut(d, f, d2, f2, n)
    BY <1>19 DEF KeptBut
  <1>26. FilesKept(d, f, d2, f2)
    BY <1>12, <1>19, <1>20 DEF FilesKept
  <1> QED
    BY <1>21, <1>22, <1>23, <1>24, <1>25, <1>26 DEF Sound
=============================================================================
