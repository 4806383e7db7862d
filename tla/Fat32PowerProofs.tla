-------------------------- MODULE Fat32PowerProofs --------------------------
(***************************************************************************)
(* What is on the disk whenever the power fails (Fat32Power).              *)
(*                                                                         *)
(* The writes of a running call pass through states of the disk; all of    *)
(* them are usable or lack one mark in the FAT, and the last is the one    *)
(* that the call leaves behind.  So there is nothing that a power failure  *)
(* could bring to light but one of these states, and from it every call    *)
(* does what it does on any usable disk (Fat32CallProofs).                 *)
(***************************************************************************)
EXTENDS Fat32Power, Fat32SafetyProofs

-----------------------------------------------------------------------------
(***************************************************************************)
(* Disks without a full one's past: nothing leads to CLUSTER_MAP_SIZE.     *)
(***************************************************************************)
TableLow(t) ==
    TableOK(t) /\ \A i \in Slots : t.slots[i].undelete => t.slots[i].cluster # CLUSTER_MAP_SIZE

DiskLow(d) == DiskOK(d) /\ \A c \in Clusters : TableLow(d[c])

FatLow(f) == FatOK(f) /\ \A c \in FatIndex : f[c] # CLUSTER_MAP_SIZE

Low == Data \ {CLUSTER_MAP_SIZE}

LEMMA LowIn ==
    /\ \A t : TableLow(t) <=> TableIn(t, Low)
    /\ \A d : DiskLow(d) <=> DiskIn(d, Low)
    /\ \A f : FatLow(f) <=> FatIn(f, Low)
  <1>0. Low \subseteq Data /\ CLUSTER_MAP_SIZE \notin Low /\ Low = Data \ {CLUSTER_MAP_SIZE}
    BY DEF Low
  <1>1. \A t : TableLow(t) <=> TableIn(t, Low)
    BY <1>0 DEF TableLow, TableOK, TableIn
  <1>2. \A d : DiskLow(d) <=> DiskIn(d, Low)
    BY <1>0, <1>1 DEF DiskLow, DiskOK, DiskIn, TableLow
  <1>3. \A f : FatLow(f) <=> FatIn(f, Low)
    <2>1. CLUSTER_MAP_SIZE \notin {0, FAT32_FAT_END_OF_FILE, CLUSTER_0_VALUE}
      BY SizeFacts, SizeAssumption DEF FAT32_FAT_END_OF_FILE, CLUSTER_0_VALUE
    <2> QED
      BY <1>0, <2>1 DEF FatLow, FatOK, FatIn
  <1> QED
    BY <1>1, <1>2, <1>3

LEMMA LowChain ==
    ASSUME NEW f, FatLow(f), NEW m \in Nat \ {0}, NEW al \in [1 .. m -> 3 .. CLUSTER_MAP_SIZE - 1],
           NEW ext, NEW last \in Clusters \ {0, 1}
    PROVE  FatLow(ChainFat(f, al, ext, last))
  <1>1. Low = 3 .. CLUSTER_MAP_SIZE - 1 /\ Low \in SUBSET Data
    BY SizeFacts, SizeAssumption DEF Low, Data
  <1>2. FatIn(ChainFat(f, al, ext, last), Low)
    BY <1>1, LowIn, ChainFatOK
  <1> QED
    BY <1>2, LowIn

LEMMA LowPut ==
    ASSUME NEW d, DiskLow(d)
    PROVE  /\ \A c, t : TableLow(t) => DiskLow([d EXCEPT ![c] = t])
           /\ \A c \in Clusters : \A i : DiskLow([d EXCEPT ![c].slots[i].undelete = FALSE])
  <1>1. Low \in SUBSET Data
    BY DEF Low
  <1>2. DiskIn(d, Low)
    BY LowIn
  <1>3. \A c, t : TableIn(t, Low) => DiskIn([d EXCEPT ![c] = t], Low)
    BY <1>1, <1>2, DiskPut
  <1>4. \A c \in Clusters : \A i : DiskIn([d EXCEPT ![c].slots[i].undelete = FALSE], Low)
    BY <1>1, <1>2, UnmarkOK
  <1> QED
    BY <1>3, <1>4, LowIn

Platters ==
    [signed : BOOLEAN, fat : [FatIndex -> FatValues], clusters : [Clusters -> Cluster]]

-----------------------------------------------------------------------------
(***************************************************************************)
(* Usable disks                                                            *)
(***************************************************************************)
\* The entry s is in its slot before and after, and has its clusters: the
\* headers of directories may have changed.
Still(d, f, d2, f2, s) ==
    /\ s \in Refs(d)
    /\ Ref(d2, s) = Ref(d, s)
    /\ \A c \in Path(f, Ref(d, s).cluster) :
          /\ f2[c] = f[c]
          /\ d2[c].subdir = d[c].subdir
          /\ ~d[c].subdir => d2[c].data = d[c].data

\* Such an entry has what it says as before.
LEMMA StillStored ==
    ASSUME NEW d, NEW f, NEW s, Stored(d, f, s[1], Ref(d, s)), NEW d2, NEW f2,
           Still(d, f, d2, f2, s)
    PROVE  /\ Stored(d2, f2, s[1], Ref(d2, s))
           /\ Path(f2, Ref(d2, s).cluster) = Path(f, Ref(d, s).cluster)
           /\ \A i : Part(f2, Ref(d2, s), i) = Part(f, Ref(d, s), i)
  <1> DEFINE en == Ref(d, s)
  <1>0. Ref(d2, s) = en
    BY DEF Still
  <1>a. \A c \in Path(f, en.cluster) :
          /\ f2[c] = f[c]
          /\ d2[c].subdir = d[c].subdir
          /\ ~d[c].subdir => d2[c].data = d[c].data
    BY DEF Still
  <1> HIDE DEF en
  <1>b. Stored(d, f, s[1], en)
    BY DEF en
  <1>1. en.cluster \in Clusters /\ Path(f, en.cluster) \subseteq FatIndex
    BY <1>b, SizeFacts DEF Stored, FatIndex
  <1>2. /\ Path(f2, en.cluster) = Path(f, en.cluster)
        /\ Terminates(FatView(f2, NoName), en.cluster)
        /\ \A i : Part(f2, en, i) = Part(f, en, i)
    <2>1. \A c \in Path(f, en.cluster) : f2[c] = f[c]
      BY <1>a
    <2>2. Terminates(FatView(f, NoName), en.cluster)
      BY <1>b DEF Stored
    <2> QED
      BY <1>1, <2>1, <2>2, PathSame DEF Part
  <1>4. ~en.subdir => \E x \in Contents : \A i \in 1 .. en.filesize :
                        /\ Part(f2, en, i) \in Path(f2, en.cluster)
                        /\ d2[Part(f2, en, i)].data = <<x, i - 1>>
    <2> SUFFICES ASSUME ~en.subdir
                 PROVE  \E x \in Contents : \A i \in 1 .. en.filesize :
                           /\ Part(f2, en, i) \in Path(f2, en.cluster)
                           /\ d2[Part(f2, en, i)].data = <<x, i - 1>>
      OBVIOUS
    <2>1. PICK x \in Contents : \A i \in 1 .. en.filesize :
             /\ Part(f, en, i) \in Path(f, en.cluster)
             /\ d[Part(f, en, i)].data = <<x, i - 1>>
      BY <1>b DEF Stored
    <2>2. \A c \in Path(f, en.cluster) : ~d[c].subdir
      BY <1>b DEF Stored
    <2> QED
      BY <1>a, <1>2, <2>1, <2>2
  <1>5. Stored(d2, f2, s[1], en)
    BY <1>a, <1>b, <1>1, <1>2, <1>4 DEF Stored
  <1> QED
    BY <1>0, <1>2, <1>5 DEF en

\* The entry n is new or changed: it has what it says, nothing of what any
\* other entry has, and a name of its own.
NewFits(d, f, d2, f2, n) ==
    /\ Stored(d2, f2, n[1], Ref(d2, n))
    /\ \A s \in Refs(d2) : s # n =>
          /\ Path(f2, Ref(d2, n).cluster) \cap Path(f, Ref(d, s).cluster) = {}
          /\ s[1] = n[1] => ~Clash(Ref(d2, n), Ref(d2, s))

\* A disk stays usable if the others stay as they are.
LEMMA UsableFrame ==
    ASSUME NEW d, NEW f, Usable(d, f), NEW d2, NEW f2, NEW n,
           d2[0] = Blank, OneTable(d2, f2),
           \A s \in Refs(d2) : s # n => Still(d, f, d2, f2, s),
           n \in Refs(d2) => NewFits(d, f, d2, f2, n)
    PROVE  Usable(d2, f2)
  <1>1. ASSUME NEW s \in Refs(d2), s # n
        PROVE  /\ s \in Refs(d) /\ Ref(d2, s) = Ref(d, s)
               /\ Stored(d2, f2, s[1], Ref(d2, s))
               /\ Path(f2, Ref(d2, s).cluster) = Path(f, Ref(d, s).cluster)
    <2>1. Still(d, f, d2, f2, s)
      BY <1>1
    <2>2. s \in Refs(d) /\ Ref(d2, s) = Ref(d, s) /\ Stored(d, f, s[1], Ref(d, s))
      BY <2>1 DEF Still, Usable, AllStored
    <2> QED
      BY <2>1, <2>2, StillStored
  <1>2. AllStored(d2, f2)
    BY <1>1 DEF AllStored, NewFits
  <1>3. Disjoint(d2, f2)
    <2> SUFFICES ASSUME NEW s \in Refs(d2), NEW u \in Refs(d2), s # u
                 PROVE  Path(f2, Ref(d2, s).cluster) \cap Path(f2, Ref(d2, u).cluster) = {}
      BY DEF Disjoint
    <2>1. CASE s # n /\ u # n
      BY <1>1, <2>1 DEF Usable, Disjoint
    <2>2. CASE s = n \/ u = n
      BY <1>1, <2>2 DEF NewFits
    <2> QED
      BY <2>1, <2>2
  <1>4. NoClash(d2)
    <2> SUFFICES ASSUME NEW c \in Tables(d2), NEW i \in LiveSlots(d2[c]),
                        NEW j \in LiveSlots(d2[c]), i # j
                 PROVE  ~Clash(d2[c].slots[i], d2[c].slots[j])
      BY DEF NoClash
    <2> DEFINE s == <<c, i>>
               u == <<c, j>>
    <2>1. s \in Refs(d2) /\ u \in Refs(d2) /\ s # u
          /\ Ref(d2, s) = d2[c].slots[i] /\ Ref(d2, u) = d2[c].slots[j]
      BY DEF Refs, Ref, LiveSlots
    <2>2. CASE s # n /\ u # n
      <3>1. s \in Refs(d) /\ u \in Refs(d) /\ Ref(d2, s) = Ref(d, s) /\ Ref(d2, u) = Ref(d, u)
        BY <1>1, <2>1, <2>2
      <3>2. c \in Tables(d) /\ i \in LiveSlots(d[c]) /\ j \in LiveSlots(d[c])
        BY <3>1 DEF Refs, LiveSlots
      <3>3. ~Clash(d[c].slots[i], d[c].slots[j])
        BY <3>2 DEF Usable, NoClash
      <3> QED
        BY <2>1, <3>1, <3>3 DEF Ref
    <2>3. CASE s = n
      BY <2>1, <2>3 DEF NewFits
    <2>4. CASE u = n
      <3>1. ~Clash(Ref(d2, u), Ref(d2, s))
        BY <2>1, <2>4 DEF NewFits
      <3> QED
        BY <2>1, <3>1 DEF Clash
    <2> QED
      BY <2>2, <2>3, <2>4
  <1> QED
    BY <1>2, <1>3, <1>4 DEF Usable

\* The FAT is changed at X alone, where no entry has clusters.
FatSpares(d, f, f2, X) ==
    /\ \A c \in FatIndex \ X : f2[c] = f[c]
    /\ \A s \in Refs(d) : X \cap Path(f, Ref(d, s).cluster) = {}
    /\ \A c \in FatIndex \cap X : d[c].subdir /\ f2[c] # 0 => f2[c] = FAT32_FAT_END_OF_FILE

LEMMA FatWritten ==
    ASSUME NEW d, NEW f, Usable(d, f), NEW f2, NEW X, FatSpares(d, f, f2, X)
    PROVE  /\ Usable(d, f2)
           /\ \A s \in Refs(d) : /\ Still(d, f, d, f2, s)
                                 /\ Path(f2, Ref(d, s).cluster) = Path(f, Ref(d, s).cluster)
  <1>1. ASSUME NEW s \in Refs(d)
        PROVE  /\ Still(d, f, d, f2, s)
               /\ Path(f2, Ref(d, s).cluster) = Path(f, Ref(d, s).cluster)
    <2>1. Stored(d, f, s[1], Ref(d, s))
      BY DEF Usable, AllStored
    <2>2. Path(f, Ref(d, s).cluster) \subseteq FatIndex
      BY <2>1, SizeFacts DEF Stored, FatIndex
    <2>3. Still(d, f, d, f2, s)
      BY <2>2 DEF Still, FatSpares
    <2> QED
      BY <2>1, <2>3, StillStored
  <1>2. OneTable(d, f2)
    BY DEF Usable, OneTable, FatSpares
  <1>3. d[0] = Blank
    BY DEF Usable
  <1>4. <<>> \notin Refs(d)
    BY DEF Refs
  <1>5. Usable(d, f2)
    BY <1>1, <1>2, <1>3, <1>4, UsableFrame
  <1> QED
    BY <1>1, <1>5

\* Clusters that no entry has are written.
LEMMA ClustersWritten ==
    ASSUME NEW d, NEW f, Usable(d, f), NEW d2, NEW C \in SUBSET (3 .. CLUSTER_MAP_SIZE - 1),
           \A c \in Clusters \ C : d2[c] = d[c],
           \A s \in Refs(d) : C \cap Path(f, Ref(d, s).cluster) = {},
           \A c \in C : /\ LiveSlots(d2[c]) = {}
                        /\ d2[c].subdir => f[c] \in {0, FAT32_FAT_END_OF_FILE}
    PROVE  /\ Usable(d2, f)
           /\ \A s \in Refs(d2) : s \in Refs(d)
           /\ \A s \in Refs(d) : s[1] \notin C => s \in Refs(d2) /\ Still(d, f, d2, f, s)
  <1>1. ASSUME NEW s \in Refs(d), s[1] \notin C
        PROVE  s \in Refs(d2) /\ Still(d, f, d2, f, s)
    <2>1. s[1] \in Clusters /\ d2[s[1]] = d[s[1]]
      BY <1>1 DEF Refs, Tables
    <2>2. Path(f, Ref(d, s).cluster) \subseteq Clusters
      BY SizeFacts DEF Usable, AllStored, Stored, Clusters
    <2> QED
      BY <2>1, <2>2 DEF Still, Refs, Tables, Ref
  <1>2. ASSUME NEW s \in Refs(d2) PROVE s[1] \notin C /\ s \in Refs(d)
    <2>1. s[1] \notin C
      BY DEF Refs, LiveSlots
    <2>2. s[1] \in Clusters /\ d2[s[1]] = d[s[1]]
      BY <2>1 DEF Refs, Tables
    <2> QED
      BY <2>1, <2>2 DEF Refs, Tables
  <1>3. OneTable(d2, f)
    <2>1. \A c \in FatIndex : c \in Clusters
      BY SizeFacts
    <2> QED
      BY <2>1 DEF Usable, OneTable
  <1>4. d2[0] = Blank
    BY SizeFacts DEF Usable
  <1>5. <<>> \notin Refs(d2)
    BY DEF Refs
  <1>6. Usable(d2, f)
    BY <1>1, <1>2, <1>3, <1>4, <1>5, UsableFrame
  <1> QED
    BY <1>1, <1>2, <1>6

\* Table p is written with another entry in slot i, or none.
TablePut(d, d2, p, i) ==
    /\ d[p].subdir /\ d2[p].subdir = d[p].subdir
    /\ \A c \in Clusters \ {p} : d2[c] = d[c]
    /\ \A j \in Slots \ {i} : d2[p].slots[j] = d[p].slots[j]

\* All entries but n stay, and there is no new one but n.
Remain(d, f, d2, f2, n) ==
    /\ \A s \in Refs(d2) : s # n => s \in Refs(d)
    /\ \A s \in Refs(d) : s # n => s \in Refs(d2) /\ Still(d, f, d2, f2, s)

LEMMA TableWritten ==
    ASSUME NEW d, NEW f, Usable(d, f), NEW d2, NEW p \in Clusters, NEW i, TablePut(d, d2, p, i),
           <<p, i>> \in Refs(d2) => NewFits(d, f, d2, f, <<p, i>>)
    PROVE  Usable(d2, f) /\ Remain(d, f, d2, f, <<p, i>>)
  <1> DEFINE n == <<p, i>>
  <1> USE DEF TablePut
  <1>1. p # 0 /\ d2[0] = Blank
    BY SizeFacts DEF Usable, Blank
  <1>2. \A s \in Tables(d) \X Slots : s # n => Ref(d2, s) = Ref(d, s)
    BY DEF Ref, Tables
  <1>3. Tables(d2) = Tables(d)
    BY DEF Tables
  <1>4. \A s : s # n => (s \in Refs(d2) <=> s \in Refs(d))
    BY <1>2, <1>3 DEF Refs, Ref
  <1>5. ASSUME NEW s \in Refs(d), s # n
        PROVE  s \in Refs(d2) /\ Still(d, f, d2, f, s)
    <2>1. Path(f, Ref(d, s).cluster) \subseteq Clusters
      BY SizeFacts DEF Usable, AllStored, Stored, Clusters
    <2>2. Ref(d2, s) = Ref(d, s)
      BY <1>2, <1>5 DEF Refs
    <2> QED
      BY <1>4, <1>5, <2>1, <2>2 DEF Still
  <1>6. OneTable(d2, f)
    <2>1. \A c \in FatIndex : c \in Clusters
      BY SizeFacts
    <2> QED
      BY <2>1 DEF Usable, OneTable
  <1>7. Usable(d2, f)
    BY <1>1, <1>4, <1>5, <1>6, UsableFrame
  <1> QED
    BY <1>4, <1>5, <1>7 DEF Remain

-----------------------------------------------------------------------------
(***************************************************************************)
(* The inductive invariant.                                                *)
(***************************************************************************)
\* The FAT as it will be: a folder that has its entry and its empty table may
\* lack its mark.
Mends(on, g) ==
    \/ g = on.fat
    \/ \E s \in EntriesOn(on) :
         LET c == EntryOn(on, s).cluster
         IN  /\ EntryOn(on, s).subdir
             /\ on.fat[c] = 0
             /\ on.clusters[c] = init_directory_table(EntryOn(on, s).name, s[1])
             /\ g = [on.fat EXCEPT ![c] = FAT32_FAT_END_OF_FILE]

Nearly(on) == \E g : Mends(on, g) /\ Usable(on.clusters, g)

\* Every directory with entries can be reached from another.
Kin(on) ==
    \A t \in FatIndex \ {ROOT_CLUSTER_NUMBER} :
        on.clusters[t].subdir /\ LiveSlots(on.clusters[t]) # {} => on.fat[t] # 0 /\ Entered(on, t)

\* A directory whose flag says that it is empty is, or has got its one entry
\* from the one move_dir.
Flags(on, l) ==
    \A t \in FatIndex : on.clusters[t].subdir /\ ~on.clusters[t].notEmpty =>
        /\ l = {} => LiveSlots(on.clusters[t]) = {}
        /\ LimitsOnce => \A i, j \in LiveSlots(on.clusters[t]) : i = j

\* A free cluster holds no directory whose flag says that it is not empty.
FreeFlags(on) ==
    \A t \in FatIndex : on.clusters[t].subdir /\ on.fat[t] = 0 => ~on.clusters[t].notEmpty

\* What holds of the disk at all times, once it is formatted.
Fine(on, l) ==
    /\ on \in Platters /\ on.signed
    /\ DiskLow(on.clusters) /\ FatLow(on.fat)
    /\ Nearly(on)
    /\ l = {} => Kin(on)
    /\ Flags(on, l)
    /\ FreeFlags(on)

\* A write leaves all entries but one as they are, and what their files
\* contain.  That one goes, or is the entry of a folder.
OneChange(on, on2) ==
    LimitsOnce => \E n : \A s \in EntriesOn(on) :
        \/ s \in EntriesOn(on2) /\ Still(on.clusters, on.fat, on2.clusters, on2.fat, s)
        \/ s = n /\ (s \notin EntriesOn(on2) \/ EntryOn(on2, s).subdir)

\* The writes ws take the platter on to clusters d and FAT f, through fine
\* states.
Runs(on, ws, d, f, l) ==
    \E n \in Nat : \E st :
        /\ ws = [i \in 1 .. n |-> ws[i]]
        /\ st[1] = on
        /\ \A i \in 1 .. n : st[i + 1] = Written(st[i], ws[i]) /\ OneChange(st[i], st[i + 1])
        /\ \A i \in 1 .. n + 1 : Fine(st[i], l)
        /\ st[n + 1].clusters = d /\ st[n + 1].fat = f

\* The format of a new disk.  Cut off after its first write it is never
\* finished: the disk is signed and has no FAT.
FormatRuns ==
    /\ platter \in Platters
    /\ limits = {}
    /\ platter.clusters = [c \in Clusters |-> Blank]
    /\ \/ writes = FormatWrites /\ create_fat32
       \/ writes = Tail(FormatWrites) /\ create_fat32 /\ platter.signed
       \/ /\ writes = Tail(Tail(FormatWrites)) /\ create_fat32 /\ platter.signed
          /\ platter.fat = FreshFat
       \/ /\ writes = <<>> /\ platter.signed
          /\ disk = platter.clusters /\ diskFat = platter.fat

PInv ==
    /\ reply.ret \in Codes /\ hung \in BOOLEAN /\ limits \subseteq Breaches
    /\ fat_table = diskFat
    /\ formatted \in BOOLEAN
    /\ formatted => Runs(platter, writes, disk, diskFat, limits)
    /\ ~formatted => FormatRuns

-----------------------------------------------------------------------------
(***************************************************************************)
(* Runs                                                                    *)
(***************************************************************************)
LEMMA RunsNow ==
    ASSUME NEW on, NEW ws, NEW d, NEW f, NEW l, Runs(on, ws, d, f, l)
    PROVE  Fine(on, l) /\ (ws = <<>> => on.clusters = d /\ on.fat = f)
  <1>1. PICK n \in Nat : \E st :
           /\ ws = [i \in 1 .. n |-> ws[i]]
           /\ st[1] = on
           /\ \A i \in 1 .. n + 1 : Fine(st[i], l)
           /\ st[n + 1].clusters = d /\ st[n + 1].fat = f
    BY DEF Runs
  <1>2. ws = <<>> => n = 0
    <2> SUFFICES ASSUME ws = <<>> PROVE n = 0
      OBVIOUS
    <2>1. Len(ws) = n
      BY <1>1
    <2> QED
      BY <2>1
  <1>3. 1 \in 1 .. n + 1
    OBVIOUS
  <1> QED
    BY <1>1, <1>2, <1>3

LEMMA RunsNil ==
    ASSUME NEW on, NEW l, Fine(on, l)
    PROVE  Runs(on, <<>>, on.clusters, on.fat, l)
  <1> DEFINE st == [i \in 1 .. 1 |-> on]
             ws == <<>>
  <1>1. ws = [i \in 1 .. 0 |-> ws[i]]
    OBVIOUS
  <1>2. st[1] = on /\ \A i \in 1 .. 0 + 1 : st[i] = on
    OBVIOUS
  <1>3. \A i \in 1 .. 0 : FALSE
    OBVIOUS
  <1> HIDE DEF st, ws
  <1>4. Runs(on, ws, on.clusters, on.fat, l)
    BY <1>1, <1>2, <1>3 DEF Runs
  <1> QED
    BY <1>4 DEF ws

\* The sequence ws2 is w and then ws.
Prefixed(w, ws, ws2) ==
    \E n \in Nat : /\ ws = [i \in 1 .. n |-> ws[i]] /\ ws2 = [i \in 1 .. n + 1 |-> ws2[i]]
                   /\ ws2[1] = w /\ \A i \in 1 .. n : ws2[i + 1] = ws[i]

LEMMA Prefixes ==
    ASSUME NEW w, NEW u, NEW v, NEW x
    PROVE  /\ Prefixed(x, <<>>, <<x>>)
           /\ Prefixed(v, <<x>>, <<v, x>>)
           /\ Prefixed(u, <<v, x>>, <<u, v, x>>)
           /\ Prefixed(w, <<u, v, x>>, <<w, u, v, x>>)
  <1> DEFINE s0 == <<>>
             s1 == <<x>>
             s2 == <<v, x>>
             s3 == <<u, v, x>>
             s4 == <<w, u, v, x>>
  <1>0. s0 = [i \in 1 .. 0 |-> s0[i]]
    OBVIOUS
  <1>1. s1 = [i \in 1 .. 1 |-> s1[i]] /\ s1[1] = x
    OBVIOUS
  <1>2. s2 = [i \in 1 .. 2 |-> s2[i]] /\ s2[1] = v /\ s2[2] = x
    OBVIOUS
  <1>3. s3 = [i \in 1 .. 3 |-> s3[i]] /\ s3[1] = u /\ s3[2] = v /\ s3[3] = x
    OBVIOUS
  <1>4. s4 = [i \in 1 .. 4 |-> s4[i]] /\ s4[1] = w /\ s4[2] = u /\ s4[3] = v /\ s4[4] = x
    OBVIOUS
  <1> HIDE DEF s0, s1, s2, s3, s4
  <1>5. Prefixed(x, s0, s1)
    <2>1. 0 \in Nat /\ 0 + 1 = 1 /\ \A i \in 1 .. 0 : FALSE
      OBVIOUS
    <2> QED
      BY <1>0, <1>1, <2>1 DEF Prefixed
  <1>6. Prefixed(v, s1, s2)
    <2>1. 1 \in Nat /\ 1 + 1 = 2 /\ \A i \in 1 .. 1 : i = 1
      OBVIOUS
    <2> QED
      BY <1>1, <1>2, <2>1 DEF Prefixed
  <1>7. Prefixed(u, s2, s3)
    <2>1. 2 \in Nat /\ 2 + 1 = 3 /\ \A i \in 1 .. 2 : i = 1 \/ i = 2
      OBVIOUS
    <2>2. \A i \in 1 .. 2 : s3[i + 1] = s2[i]
      BY <1>2, <1>3, <2>1
    <2> QED
      BY <1>2, <1>3, <2>1, <2>2 DEF Prefixed
  <1>8. Prefixed(w, s3, s4)
    <2>1. 3 \in Nat /\ 3 + 1 = 4 /\ \A i \in 1 .. 3 : i = 1 \/ i = 2 \/ i = 3
      OBVIOUS
    <2>2. \A i \in 1 .. 3 : s4[i + 1] = s3[i]
      BY <1>3, <1>4, <2>1
    <2> QED
      BY <1>3, <1>4, <2>1, <2>2 DEF Prefixed
  <1> QED
    BY <1>5, <1>6, <1>7, <1>8 DEF s0, s1, s2, s3, s4

LEMMA RunsCons ==
    ASSUME NEW on, NEW w, NEW ws, NEW d, NEW f, NEW l, Fine(on, l),
           NEW on2, on2 = Written(on, w), OneChange(on, on2), Runs(on2, ws, d, f, l),
           NEW ws2, Prefixed(w, ws, ws2)
    PROVE  Runs(on, ws2, d, f, l)
  <1>1. PICK n \in Nat : \E st :
           /\ ws = [i \in 1 .. n |-> ws[i]]
           /\ st[1] = on2
           /\ \A i \in 1 .. n : st[i + 1] = Written(st[i], ws[i]) /\ OneChange(st[i], st[i + 1])
           /\ \A i \in 1 .. n + 1 : Fine(st[i], l)
           /\ st[n + 1].clusters = d /\ st[n + 1].fat = f
    BY DEF Runs
  <1>2. PICK st :
           /\ ws = [i \in 1 .. n |-> ws[i]]
           /\ st[1] = on2
           /\ \A i \in 1 .. n : st[i + 1] = Written(st[i], ws[i]) /\ OneChange(st[i], st[i + 1])
           /\ \A i \in 1 .. n + 1 : Fine(st[i], l)
           /\ st[n + 1].clusters = d /\ st[n + 1].fat = f
    BY <1>1
  <1>3. /\ ws2 = [i \in 1 .. n + 1 |-> ws2[i]]
        /\ ws2[1] = w /\ \A i \in 1 .. n : ws2[i + 1] = ws[i]
    <2>1. PICK k \in Nat : /\ ws = [i \in 1 .. k |-> ws[i]] /\ ws2 = [i \in 1 .. k + 1 |-> ws2[i]]
                           /\ ws2[1] = w /\ \A i \in 1 .. k : ws2[i + 1] = ws[i]
      BY DEF Prefixed
    <2>2. Len(ws) = n
      BY <1>2
    <2>3. Len(ws) = k
      BY <2>1
    <2> QED
      BY <2>1, <2>2, <2>3
  <1> DEFINE st2 == [i \in 1 .. n + 2 |-> IF i = 1 THEN on ELSE st[i - 1]]
  <1>4. st2[1] = on /\ \A i \in 2 .. n + 2 : st2[i] = st[i - 1]
    OBVIOUS
  <1> HIDE DEF st2
  <1>5. ASSUME NEW i \in 1 .. n + 1
        PROVE  st2[i + 1] = Written(st2[i], ws2[i]) /\ OneChange(st2[i], st2[i + 1])
    <2>1. CASE i = 1
      <3>1. 2 \in 2 .. n + 2 /\ 2 - 1 = 1 /\ 1 + 1 = 2
        OBVIOUS
      <3>2. st2[2] = on2
        BY <1>2, <1>4, <3>1
      <3> QED
        BY <1>3, <1>4, <2>1, <3>1, <3>2
    <2>2. CASE i # 1
      <3>1. i - 1 \in 1 .. n /\ i \in 2 .. n + 2 /\ i + 1 \in 2 .. n + 2
            /\ (i - 1) + 1 = i /\ (i + 1) - 1 = i
        BY <2>2
      <3>2. st[i] = Written(st[i - 1], ws[i - 1]) /\ OneChange(st[i - 1], st[i])
        BY <1>2, <3>1
      <3> QED
        BY <1>3, <1>4, <3>1, <3>2
    <2> QED
      BY <2>1, <2>2
  <1>6. ASSUME NEW i \in 1 .. (n + 1) + 1 PROVE Fine(st2[i], l)
    <2>1. i = 1 \/ (i \in 2 .. n + 2 /\ i - 1 \in 1 .. n + 1)
      OBVIOUS
    <2> QED
      BY <1>2, <1>4, <2>1
  <1>7. st2[(n + 1) + 1] = st[n + 1] /\ n + 1 \in Nat
    BY <1>4
  <1> QED
    BY <1>2, <1>3, <1>4, <1>5, <1>6, <1>7 DEF Runs

LEMMA RunsTail ==
    ASSUME NEW on, NEW ws, NEW d, NEW f, NEW l, Runs(on, ws, d, f, l), ws # <<>>
    PROVE  /\ Runs(Written(on, Head(ws)), Tail(ws), d, f, l)
           /\ OneChange(on, Written(on, Head(ws)))
  <1>0. PICK n \in Nat : \E st :
           /\ ws = [i \in 1 .. n |-> ws[i]]
           /\ st[1] = on
           /\ \A i \in 1 .. n : st[i + 1] = Written(st[i], ws[i]) /\ OneChange(st[i], st[i + 1])
           /\ \A i \in 1 .. n + 1 : Fine(st[i], l)
           /\ st[n + 1].clusters = d /\ st[n + 1].fat = f
    BY DEF Runs
  <1>1. PICK st :
           /\ ws = [i \in 1 .. n |-> ws[i]]
           /\ st[1] = on
           /\ \A i \in 1 .. n : st[i + 1] = Written(st[i], ws[i]) /\ OneChange(st[i], st[i + 1])
           /\ \A i \in 1 .. n + 1 : Fine(st[i], l)
           /\ st[n + 1].clusters = d /\ st[n + 1].fat = f
    BY <1>0
  <1>2. n # 0
    <2> SUFFICES ASSUME n = 0 PROVE ws = <<>>
      OBVIOUS
    <2>1. ws = [i \in 1 .. 0 |-> ws[i]]
      BY <1>1
    <2> QED
      BY <2>1
  <1> DEFINE m == n - 1
             st2 == [i \in 1 .. n |-> st[i + 1]]
             ws2 == Tail(ws)
  <1>3. m \in Nat /\ m + 1 = n /\ 1 \in 1 .. n
    BY <1>2
  <1>4. /\ ws2 = [i \in 1 .. m |-> ws2[i]]
        /\ Head(ws) = ws[1] /\ \A i \in 1 .. m : ws2[i] = ws[i + 1]
    <2> DEFINE S == {ws[i] : i \in 1 .. n}
    <2>1. ws \in Seq(S) /\ Len(ws) = n
      BY <1>1
    <2> HIDE DEF S
    <2>2. Tail(ws) \in Seq(S) /\ Len(Tail(ws)) = m /\ Head(ws) = ws[1]
          /\ \A i \in 1 .. m : Tail(ws)[i] = ws[i + 1]
      BY <1>2, <2>1
    <2>3. Tail(ws) = [i \in 1 .. m |-> Tail(ws)[i]]
      <3> DEFINE t == Tail(ws)
      <3>1. t \in Seq(S) /\ Len(t) = m
        BY <2>2
      <3> HIDE DEF t, m
      <3>2. t = [i \in 1 .. m |-> t[i]]
        BY <1>3, <3>1
      <3> QED
        BY <3>2 DEF t
    <2> QED
      BY <2>2, <2>3
  <1>5. \A i \in 1 .. n : st2[i] = st[i + 1]
    OBVIOUS
  <1> HIDE DEF m, st2, ws2
  <1>6. st2[1] = Written(on, ws[1]) /\ OneChange(on, Written(on, ws[1]))
    BY <1>1, <1>3, <1>5
  <1>7. ASSUME NEW i \in 1 .. m
        PROVE  st2[i + 1] = Written(st2[i], ws2[i]) /\ OneChange(st2[i], st2[i + 1])
    <2>1. i \in 1 .. n /\ i + 1 \in 1 .. n
      BY <1>3
    <2> QED
      BY <1>1, <1>4, <1>5, <2>1
  <1>8. \A i \in 1 .. m + 1 : Fine(st2[i], l)
    <2>1. \A i \in 1 .. m + 1 : i \in 1 .. n /\ i + 1 \in 1 .. n + 1
      BY <1>3
    <2> QED
      BY <1>1, <1>5, <2>1
  <1>9. st2[m + 1].clusters = d /\ st2[m + 1].fat = f
    BY <1>1, <1>3, <1>5
  <1>10. Runs(Written(on, ws[1]), ws2, d, f, l)
    BY <1>3, <1>4, <1>6, <1>7, <1>8, <1>9 DEF Runs
  <1> QED
    BY <1>4, <1>6, <1>10 DEF ws2

-----------------------------------------------------------------------------
(***************************************************************************)
(* What the entries on a fine disk lead to                                 *)
(***************************************************************************)
\* Where the entry's clusters are in the FAT as it is, the entry is whole.
LEMMA StoredWhole ==
    ASSUME NEW on, NEW s, Stored(on.clusters, on.fat, s[1], EntryOn(on, s)),
           EntryOn(on, s).filesize \in Nat
    PROVE  /\ ChainOn(on, s) = Path(on.fat, EntryOn(on, s).cluster)
           /\ ~EntryOn(on, s).subdir => WholeFile(on, s)
  <1> DEFINE en == EntryOn(on, s)
             d == on.clusters
             f == on.fat
  <1>1. Stored(d, f, s[1], en)
    OBVIOUS
  <1>2. ChainOn(on, s) = Path(f, en.cluster)
    <2>1. CASE en.subdir
      BY <1>1, <2>1, FolderPath DEF ChainOn
    <2>2. CASE ~en.subdir
      BY <2>2 DEF ChainOn, Path
    <2> QED
      BY <2>1, <2>2
  <1>3. ASSUME ~en.subdir PROVE WholeFile(on, s)
    <2>1. Cardinality(ChainOn(on, s)) = en.filesize
      BY <1>1, <1>2, <1>3 DEF Stored
    <2>2. PICK x \in Contents : \A i \in 1 .. en.filesize : d[Part(f, en, i)].data = <<x, i - 1>>
      BY <1>1, <1>3 DEF Stored
    <2>3. FileOn(on, s) = [i \in 1 .. en.filesize |-> d[Part(f, en, i)].data]
      BY <2>1 DEF FileOn, Part
    <2>4. FileOn(on, s) = [i \in 1 .. en.filesize |-> <<x, i - 1>>]
      <3> HIDE DEF en, d, f
      <3> QED
        BY <2>2, <2>3
    <2>5. \A c \in ChainOn(on, s) : on.fat[c] # 0
      BY <1>1, <1>2 DEF Stored
    <2>6. Terminates(FatView(on.fat, NoName), EntryOn(on, s).cluster)
      BY <1>1 DEF Stored
    <2> QED
      BY <2>4, <2>5, <2>6 DEF WholeFile
  <1> QED
    BY <1>2, <1>3

\* The one entry whose folder lacks its mark.
Missing(on, n) ==
    /\ EntryOn(on, n).subdir
    /\ on.fat[EntryOn(on, n).cluster] = 0
    /\ on.clusters[EntryOn(on, n).cluster] = init_directory_table(EntryOn(on, n).name, n[1])

\* An entry on a fine disk has what it says in the FAT as it will be, and, but
\* for the one that lacks its mark, in the FAT as it is.
LEMMA MendedEntry ==
    ASSUME NEW on \in Platters, NEW g, Mends(on, g), Usable(on.clusters, g),
           NEW s \in EntriesOn(on)
    PROVE  /\ s \in Refs(on.clusters) /\ EntryOn(on, s) = Ref(on.clusters, s)
           /\ EntryOn(on, s) \in Entry
           /\ Stored(on.clusters, g, s[1], EntryOn(on, s))
           /\ ChainOn(on, s) = Path(g, EntryOn(on, s).cluster)
           /\ \/ /\ Still(on.clusters, g, on.clusters, on.fat, s)
                 /\ Stored(on.clusters, on.fat, s[1], EntryOn(on, s))
                 /\ Path(on.fat, EntryOn(on, s).cluster) = Path(g, EntryOn(on, s).cluster)
              \/ /\ Missing(on, s)
                 /\ g = [on.fat EXCEPT ![EntryOn(on, s).cluster] = FAT32_FAT_END_OF_FILE]
  <1> DEFINE d == on.clusters
             f == on.fat
  <1>1. \A u \in EntriesOn(on) :
           /\ u \in Refs(d) /\ EntryOn(on, u) = Ref(d, u) /\ EntryOn(on, u) \in Entry
           /\ Stored(d, g, u[1], EntryOn(on, u))
    <2> SUFFICES ASSUME NEW u \in EntriesOn(on)
                 PROVE  /\ u \in Refs(d) /\ EntryOn(on, u) = Ref(d, u) /\ EntryOn(on, u) \in Entry
                        /\ Stored(d, g, u[1], EntryOn(on, u))
      OBVIOUS
    <2>1. u[1] \in Clusters /\ u[2] \in Slots /\ u \in Refs(d) /\ EntryOn(on, u) = Ref(d, u)
      BY SizeFacts DEF EntriesOn, DirsOn, EntryOn, Refs, Ref, Tables
    <2>2. EntryOn(on, u) \in Entry
      BY <2>1 DEF EntryOn, Platters, Cluster
    <2> QED
      BY <2>1, <2>2 DEF Usable, AllStored
  <1>2. ASSUME Still(d, g, d, f, s)
        PROVE  /\ Stored(d, f, s[1], EntryOn(on, s))
               /\ Path(f, EntryOn(on, s).cluster) = Path(g, EntryOn(on, s).cluster)
    <2>1. Ref(d, s) = EntryOn(on, s) /\ Stored(d, g, s[1], Ref(d, s))
      BY <1>1
    <2>2. Stored(d, f, s[1], Ref(d, s)) /\ Path(f, Ref(d, s).cluster) = Path(g, Ref(d, s).cluster)
      BY <1>2, <2>1, StillStored
    <2> QED
      BY <2>1, <2>2
  <1>3. ASSUME ~Still(d, g, d, f, s)
        PROVE  Missing(on, s) /\ g = [f EXCEPT ![EntryOn(on, s).cluster] = FAT32_FAT_END_OF_FILE]
    <2>1. s \in Refs(d) /\ Path(g, Ref(d, s).cluster) \subseteq FatIndex
      <3>1. s \in Refs(d) /\ Stored(d, g, s[1], Ref(d, s))
        BY <1>1
      <3> HIDE DEF d
      <3>2. Path(g, Ref(d, s).cluster) \subseteq 3 .. CLUSTER_MAP_SIZE - 1
        BY <3>1 DEF Stored
      <3> QED
        BY <3>1, <3>2, SizeFacts DEF FatIndex
    <2>2. \E c \in Path(g, Ref(d, s).cluster) : f[c] # g[c]
      BY <1>1, <1>3 DEF Still
    <2>3. g # f
      BY <2>2
    <2>4. PICK n \in EntriesOn(on) :
             /\ Missing(on, n)
             /\ g = [f EXCEPT ![EntryOn(on, n).cluster] = FAT32_FAT_END_OF_FILE]
      BY <2>3 DEF Mends, Missing
    <2>5. Path(g, EntryOn(on, n).cluster) = {EntryOn(on, n).cluster}
      BY <1>1, <2>4, FolderPath DEF Missing
    <2>6. f \in [FatIndex -> FatValues]
      BY DEF Platters
    <2>7. EntryOn(on, n).cluster \in Path(g, Ref(d, s).cluster)
      BY <2>1, <2>2, <2>4, <2>6
    <2>8. s = n
      BY <1>1, <2>1, <2>5, <2>7 DEF Usable, Disjoint
    <2> QED
      BY <2>4, <2>8
  <1>4. ChainOn(on, s) = Path(g, EntryOn(on, s).cluster)
    <2>1. CASE EntryOn(on, s).subdir
      BY <1>1, <2>1, FolderPath DEF ChainOn
    <2>2. CASE ~EntryOn(on, s).subdir
      <3>1. Still(d, g, d, f, s)
        BY <1>3, <2>2 DEF Missing
      <3>2. ChainOn(on, s) = Path(f, EntryOn(on, s).cluster)
        BY <2>2 DEF ChainOn, Path
      <3> QED
        BY <1>2, <3>1, <3>2
    <2> QED
      BY <2>1, <2>2
  <1> QED
    BY <1>1, <1>2, <1>3, <1>4

LEMMA WholeOrMissing ==
    ASSUME NEW on \in Platters, NEW g, Mends(on, g), Usable(on.clusters, g),
           NEW s \in EntriesOn(on)
    PROVE  \/ Whole(on, s)
           \/ /\ Missing(on, s)
              /\ g = [on.fat EXCEPT ![EntryOn(on, s).cluster] = FAT32_FAT_END_OF_FILE]
  <1> DEFINE en == EntryOn(on, s)
  <1>1. /\ en \in Entry /\ Stored(on.clusters, g, s[1], en)
        /\ s \in Refs(on.clusters) /\ en = Ref(on.clusters, s)
    BY MendedEntry
  <1>2. ASSUME ~(Missing(on, s) /\ g = [on.fat EXCEPT ![en.cluster] = FAT32_FAT_END_OF_FILE])
        PROVE  Whole(on, s)
    <2>1. Still(on.clusters, g, on.clusters, on.fat, s) /\ Stored(on.clusters, on.fat, s[1], en)
      BY <1>2, MendedEntry
    <2>2. CASE ~en.subdir
      <3>1. en.filesize \in Nat
        BY <1>1, SizeAssumption DEF Entry
      <3> QED
        BY <2>1, <2>2, <3>1, StoredWhole DEF Whole
    <2>3. CASE en.subdir
      <3>1. /\ en.cluster \in Path(g, en.cluster) /\ en.cluster \in FatIndex
            /\ on.clusters[en.cluster].subdir /\ g[en.cluster] # 0
        BY <1>1, <2>3, FolderPath
      <3>2. g[en.cluster] = FAT32_FAT_END_OF_FILE
        BY <3>1 DEF Usable, OneTable
      <3>3. on.fat[en.cluster] = g[en.cluster]
        BY <1>1, <2>1, <3>1 DEF Still
      <3> QED
        BY <2>3, <3>1, <3>2, <3>3 DEF Whole, WholeFolder
    <2> QED
      BY <2>2, <2>3
  <1> QED
    BY <1>2

\* A disk on which nothing lacks a mark is usable.
LEMMA NoneTorn ==
    ASSUME NEW on, NEW l, Fine(on, l), Torn(on) = {}
    PROVE  Usable(on.clusters, on.fat)
  <1>1. PICK g : Mends(on, g) /\ Usable(on.clusters, g)
    BY DEF Fine, Nearly
  <1>2. ASSUME NEW n \in EntriesOn(on), Missing(on, n) PROVE FALSE
    <2>1. ~Whole(on, n)
      BY <1>2, SizeFacts DEF Missing, Whole, WholeFolder
    <2> QED
      BY <2>1 DEF Torn
  <1>3. g = on.fat
    BY <1>1, <1>2 DEF Mends, Missing
  <1> QED
    BY <1>1, <1>3

LEMMA FineTorn ==
    ASSUME NEW on, NEW l, Fine(on, l)
    PROVE  /\ Cardinality(Torn(on)) <= 1
           /\ \A s \in Torn(on) : Missing(on, s)
  <1>1. PICK g : Mends(on, g) /\ Usable(on.clusters, g)
    BY DEF Fine, Nearly
  <1>2. on \in Platters /\ on.fat \in [FatIndex -> FatValues]
    BY DEF Fine, Platters
  <1>3. ASSUME NEW s \in Torn(on)
        PROVE  /\ s \in EntriesOn(on) /\ Missing(on, s)
               /\ g = [on.fat EXCEPT ![EntryOn(on, s).cluster] = FAT32_FAT_END_OF_FILE]
               /\ s \in Refs(on.clusters) /\ EntryOn(on, s) = Ref(on.clusters, s)
               /\ EntryOn(on, s).cluster \in FatIndex
               /\ Path(g, EntryOn(on, s).cluster) = {EntryOn(on, s).cluster}
    <2>1. s \in EntriesOn(on) /\ ~Whole(on, s)
      BY DEF Torn
    <2>2. /\ Missing(on, s)
          /\ g = [on.fat EXCEPT ![EntryOn(on, s).cluster] = FAT32_FAT_END_OF_FILE]
      BY <1>1, <1>2, <2>1, WholeOrMissing
    <2>3. /\ s \in Refs(on.clusters) /\ EntryOn(on, s) = Ref(on.clusters, s)
          /\ Stored(on.clusters, g, s[1], EntryOn(on, s))
      BY <1>1, <1>2, <2>1, MendedEntry
    <2>4. EntryOn(on, s).subdir
      BY <2>2 DEF Missing
    <2>5. /\ EntryOn(on, s).cluster \in FatIndex
          /\ Path(g, EntryOn(on, s).cluster) = {EntryOn(on, s).cluster}
      <3> DEFINE en == EntryOn(on, s)
                 d == on.clusters
      <3>1. Stored(d, g, s[1], en) /\ en.subdir
        BY <2>3, <2>4
      <3> HIDE DEF en, d
      <3>2. en.cluster \in FatIndex /\ Path(g, en.cluster) = {en.cluster}
        BY <3>1, FolderPath
      <3> QED
        BY <3>2 DEF en
    <2> QED
      BY <2>1, <2>2, <2>3, <2>5
  <1>4. ASSUME NEW s \in Torn(on), NEW u \in Torn(on) PROVE s = u
    <2> DEFINE c == EntryOn(on, s).cluster
               b == EntryOn(on, u).cluster
    <2>1. /\ c \in FatIndex /\ b \in FatIndex /\ on.fat[b] = 0 /\ on.fat[c] = 0
          /\ g = [on.fat EXCEPT ![c] = FAT32_FAT_END_OF_FILE]
          /\ g = [on.fat EXCEPT ![b] = FAT32_FAT_END_OF_FILE]
      BY <1>3 DEF Missing
    <2> HIDE DEF c, b
    <2>2. c = b
      BY <1>2, <2>1, SizeFacts
    <2>3. Path(g, c) = {c} /\ Path(g, b) = {b}
      BY <1>3 DEF c, b
    <2>4. s \in Refs(on.clusters) /\ u \in Refs(on.clusters)
          /\ c = Ref(on.clusters, s).cluster /\ b = Ref(on.clusters, u).cluster
      BY <1>3 DEF c, b
    <2> QED
      BY <1>1, <2>2, <2>3, <2>4 DEF Usable, Disjoint
  <1>5. Cardinality(Torn(on)) <= 1
    <2>1. CASE Torn(on) = {}
      BY <2>1, FS_EmptySet
    <2>2. CASE Torn(on) # {}
      <3>1. PICK s : Torn(on) = {s}
        BY <1>4, <2>2
      <3> QED
        BY <3>1, FS_Singleton
    <2> QED
      BY <2>1, <2>2
  <1> QED
    BY <1>3, <1>5

\* A file on a fine disk is whole, and no two entries share a cluster.
LEMMA FineEntries ==
    ASSUME NEW on, NEW l, Fine(on, l)
    PROVE  /\ \A s \in EntriesOn(on) :
                ~EntryOn(on, s).subdir =>
                   WholeFile(on, s) /\ Stored(on.clusters, on.fat, s[1], EntryOn(on, s))
           /\ \A s \in EntriesOn(on) : ChainOn(on, s) \subseteq 3 .. CLUSTER_MAP_SIZE - 1
           /\ \A s, u \in EntriesOn(on) : s # u => ChainOn(on, s) \cap ChainOn(on, u) = {}
  <1>1. PICK g : Mends(on, g) /\ Usable(on.clusters, g)
    BY DEF Fine, Nearly
  <1>2. on \in Platters
    BY DEF Fine
  <1>3. ASSUME NEW s \in EntriesOn(on)
        PROVE  /\ s \in Refs(on.clusters) /\ EntryOn(on, s) = Ref(on.clusters, s)
               /\ Stored(on.clusters, g, s[1], EntryOn(on, s))
               /\ ChainOn(on, s) = Path(g, EntryOn(on, s).cluster)
    BY <1>1, <1>2, MendedEntry
  <1>4. ASSUME NEW s \in EntriesOn(on), ~EntryOn(on, s).subdir
        PROVE  WholeFile(on, s) /\ Stored(on.clusters, on.fat, s[1], EntryOn(on, s))
    <2>1. ~Missing(on, s)
      BY <1>4 DEF Missing
    <2>2. Whole(on, s)
      BY <1>1, <1>2, <2>1, WholeOrMissing
    <2>3. Stored(on.clusters, on.fat, s[1], EntryOn(on, s))
      BY <1>1, <1>2, <2>1, MendedEntry
    <2> QED
      BY <1>4, <2>2, <2>3 DEF Whole
  <1>5. \A s \in EntriesOn(on) : ChainOn(on, s) \subseteq 3 .. CLUSTER_MAP_SIZE - 1
    BY <1>3 DEF Stored
  <1>6. \A s, u \in EntriesOn(on) : s # u => ChainOn(on, s) \cap ChainOn(on, u) = {}
    BY <1>1, <1>3 DEF Usable, Disjoint
  <1> QED
    BY <1>4, <1>5, <1>6

\* On a disk that is being formatted there is no entry.
LEMMA NoEntryYet == ASSUME FormatRuns PROVE EntriesOn(platter) = {}
  <1>1. \A c \in FatIndex : ~platter.clusters[c].subdir
    <2>1. platter.clusters = [c \in Clusters |-> Blank]
      BY DEF FormatRuns
    <2> QED
      BY <2>1, BlankDead, SizeFacts
  <1> QED
    BY <1>1 DEF EntriesOn, DirsOn

-----------------------------------------------------------------------------
(***************************************************************************)
(* Usable disks between two calls                                          *)
(***************************************************************************)
Image(d, f) == [signed |-> TRUE, fat |-> f, clusters |-> d]

\* Whatever the call in between that is running does, this holds of the disk
\* at its beginning and in its end.
Sane(d, f, l) ==
    /\ DiskLow(d) /\ FatLow(f)
    /\ Usable(d, f)
    /\ l = {} => Kin(Image(d, f))
    /\ Flags(Image(d, f), l)
    /\ FreeFlags(Image(d, f))

LEMMA ImageFields ==
    ASSUME NEW d, NEW f
    PROVE  /\ Image(d, f).signed /\ Image(d, f).fat = f /\ Image(d, f).clusters = d
           /\ \A v : Written(Image(d, f), Put(FAT_CLUSTER_NUMBER, v)) = Image(d, v)
  <1>1. Image(d, f).signed /\ Image(d, f).fat = f /\ Image(d, f).clusters = d
    BY DEF Image
  <1>2. ASSUME NEW v PROVE Written(Image(d, f), Put(FAT_CLUSTER_NUMBER, v)) = Image(d, v)
    <2> DEFINE on == Image(d, f)
               w == Put(FAT_CLUSTER_NUMBER, v)
    <2>1. w.at = 1 /\ w.value = v
      BY DEF Put, FAT_CLUSTER_NUMBER
    <2>2. Written(on, w) = [on EXCEPT !.fat = v]
      <3> HIDE DEF w, on
      <3> QED
        BY <2>1 DEF Written, FAT_CLUSTER_NUMBER, BOOT_SECTOR
    <2>3. [on EXCEPT !.fat = v] = Image(d, v)
      <3> DEFINE b == TRUE
      <3>1. on = [signed |-> b, fat |-> f, clusters |-> d]
        BY DEF Image
      <3>2. Image(d, v) = [signed |-> b, fat |-> v, clusters |-> d]
        BY DEF Image
      <3> HIDE DEF b, on
      <3> QED
        BY <3>1, <3>2
    <2> QED
      BY <2>2, <2>3
  <1> QED
    BY <1>1, <1>2

\* Cluster c is written.
Only(d, d2, c) == \A b \in Clusters \ {c} : d2[b] = d[b]

LEMMA ClusterPut ==
    ASSUME NEW d \in Disk, NEW f, NEW d2 \in Disk, NEW c \in Clusters, c # 0, c # 1, Only(d, d2, c)
    PROVE  Image(d2, f) = Written(Image(d, f), Put(c, d2[c]))
  <1> DEFINE on == Image(d, f)
             v == d2[c]
             w == Put(c, v)
             b == TRUE
  <1>1. w.at = c /\ w.value = v
    BY DEF Put
  <1>2. on.clusters = d
    BY DEF Image
  <1>3. on = [signed |-> b, fat |-> f, clusters |-> d]
    BY DEF Image
  <1>4. Image(d2, f) = [signed |-> b, fat |-> f, clusters |-> d2]
    BY DEF Image
  <1>0. d2 = [d EXCEPT ![c] = v]
    BY DEF Only, Disk
  <1> HIDE DEF w, on, b, v
  <1>5. Written(on, w) = [on EXCEPT !.clusters = [on.clusters EXCEPT ![c] = v]]
    BY <1>1 DEF Written, FAT_CLUSTER_NUMBER, BOOT_SECTOR
  <1>6. Written(on, w) = [on EXCEPT !.clusters = d2]
    BY <1>0, <1>2, <1>5
  <1>7. [on EXCEPT !.clusters = d2] = Image(d2, f)
    BY <1>3, <1>4
  <1>8. Image(d2, f) = Written(on, w)
    BY <1>6, <1>7
  <1> QED
    BY <1>8 DEF on, w, v

LEMMA ImageEntries ==
    ASSUME NEW d, NEW f
    PROVE  /\ \A s : s \in EntriesOn(Image(d, f)) <=>
                       s \in Refs(d) /\ s[1] \in FatIndex /\ f[s[1]] # 0
           /\ \A s : EntryOn(Image(d, f), s) = Ref(d, s)
  <1> DEFINE on == Image(d, f)
  <1>1. on.fat = f /\ on.clusters = d
    BY DEF Image
  <1> HIDE DEF on
  <1>2. \A s : s \in EntriesOn(on) <=> s \in Refs(d) /\ s[1] \in FatIndex /\ f[s[1]] # 0
    BY <1>1, SizeFacts DEF EntriesOn, DirsOn, Refs, Tables, EntryOn
  <1>3. \A s : EntryOn(on, s) = Ref(d, s)
    BY <1>1 DEF EntryOn, Ref
  <1> QED
    BY <1>2, <1>3 DEF on

LEMMA SaneFine ==
    ASSUME NEW d, NEW f, NEW l, Sane(d, f, l)
    PROVE  Fine(Image(d, f), l)
  <1>1. Image(d, f) \in Platters
    BY DEF Sane, DiskLow, DiskOK, FatLow, FatOK, Image, Platters
  <1>2. Mends(Image(d, f), f) /\ Usable(Image(d, f).clusters, f)
    BY ImageFields DEF Mends, Sane
  <1>3. Nearly(Image(d, f))
    BY <1>2 DEF Nearly
  <1> QED
    BY <1>1, <1>3, ImageFields DEF Fine, Sane

\* A run into a limit takes nothing back.
LEMMA SaneLater ==
    ASSUME NEW d, NEW f, NEW l, Sane(d, f, l), NEW l2, l2 = {} => l = {}
    PROVE  Sane(d, f, l2)
  <1>1. Flags(Image(d, f), l2)
    BY DEF Sane, Flags
  <1> QED
    BY <1>1 DEF Sane

LEMMA FlagsFrame ==
    ASSUME NEW d, NEW f, NEW l, Flags(Image(d, f), l), NEW d2, NEW f2,
           \A t \in FatIndex : d2[t].subdir /\ ~d2[t].notEmpty =>
              \/ LiveSlots(d2[t]) = {}
              \/ d[t].subdir /\ ~d[t].notEmpty /\ LiveSlots(d2[t]) \subseteq LiveSlots(d[t])
    PROVE  Flags(Image(d2, f2), l)
  <1> SUFFICES ASSUME NEW t \in FatIndex, d2[t].subdir, ~d2[t].notEmpty
               PROVE  /\ l = {} => LiveSlots(d2[t]) = {}
                      /\ LimitsOnce => \A i, j \in LiveSlots(d2[t]) : i = j
    <2>1. Image(d2, f2).clusters = d2
      BY ImageFields
    <2> QED
      BY <2>1 DEF Flags
  <1>1. CASE LiveSlots(d2[t]) = {}
    BY <1>1
  <1>2. CASE /\ d[t].subdir /\ ~d[t].notEmpty
             /\ LiveSlots(d2[t]) \subseteq LiveSlots(d[t])
    <2>1. /\ l = {} => LiveSlots(d[t]) = {}
          /\ LimitsOnce => \A i, j \in LiveSlots(d[t]) : i = j
      <3>1. Image(d, f).clusters = d
        BY ImageFields
      <3> QED
        BY <1>2, <3>1 DEF Flags
    <2> QED
      BY <1>2, <2>1
  <1> QED
    BY <1>1, <1>2

LEMMA FreeFlagsFrame ==
    ASSUME NEW d, NEW f, FreeFlags(Image(d, f)), NEW d2, NEW f2,
           \A t \in FatIndex : d2[t].subdir /\ d2[t].notEmpty /\ f2[t] = 0 =>
              d[t].subdir /\ d[t].notEmpty /\ f[t] = 0
    PROVE  FreeFlags(Image(d2, f2))
  BY ImageFields DEF FreeFlags

LEMMA KinFrame ==
    ASSUME NEW d, NEW f, Kin(Image(d, f)), NEW d2, NEW f2,
           \A s \in EntriesOn(Image(d, f)) :
              Ref(d, s).subdir /\ LiveSlots(d2[Ref(d, s).cluster]) # {} =>
                 \E u \in EntriesOn(Image(d2, f2)) :
                    Ref(d2, u).subdir /\ Ref(d2, u).cluster = Ref(d, s).cluster,
           \A t \in FatIndex \ {ROOT_CLUSTER_NUMBER} : d2[t].subdir /\ LiveSlots(d2[t]) # {} =>
              /\ f2[t] # 0
              /\ Entered(Image(d, f), t) \/ (d[t].subdir /\ LiveSlots(d[t]) # {})
    PROVE  Kin(Image(d2, f2))
  <1> SUFFICES ASSUME NEW t \in FatIndex \ {ROOT_CLUSTER_NUMBER}, d2[t].subdir,
                      LiveSlots(d2[t]) # {}
               PROVE  f2[t] # 0 /\ Entered(Image(d2, f2), t)
    BY ImageFields DEF Kin
  <1>1. f2[t] # 0 /\ Entered(Image(d, f), t)
    <2>1. f2[t] # 0 /\ (Entered(Image(d, f), t) \/ (d[t].subdir /\ LiveSlots(d[t]) # {}))
      OBVIOUS
    <2>2. Image(d, f).clusters[t] = d[t]
      BY ImageFields
    <2>3. d[t].subdir /\ LiveSlots(d[t]) # {} => Entered(Image(d, f), t)
      BY <2>2, Zenon DEF Kin
    <2> QED
      BY <2>1, <2>3
  <1>2. PICK s \in EntriesOn(Image(d, f)) : Ref(d, s).subdir /\ Ref(d, s).cluster = t
    BY <1>1, ImageEntries DEF Entered
  <1>3. PICK u \in EntriesOn(Image(d2, f2)) : Ref(d2, u).subdir /\ Ref(d2, u).cluster = t
    BY <1>2
  <1>4. Entered(Image(d2, f2), t)
    BY <1>3, ImageEntries DEF Entered
  <1> QED
    BY <1>1, <1>4

\* As long as no directory is moved, a cluster that is free holds no entry.
LEMMA FreeDead ==
    ASSUME NEW d, NEW f, Sane(d, f, {}), NEW s \in Refs(d), s[1] \in FatIndex
    PROVE  f[s[1]] # 0 /\ s \in EntriesOn(Image(d, f))
  <1>1. d[s[1]].subdir /\ LiveSlots(d[s[1]]) # {}
    BY DEF Refs, Tables, LiveSlots
  <1>2. f[s[1]] # 0
    BY <1>1, ImageFields DEF Sane, Kin, FatLow, FatOK, ROOT_CLUSTER_NUMBER
  <1> QED
    BY <1>2, ImageEntries

\* Writing a table changes one entry at most.
LEMMA TableChange ==
    ASSUME NEW d, NEW f, NEW d2, NEW n, Remain(d, f, d2, f, n),
           n \in Refs(d) /\ n \in Refs(d2) => Ref(d2, n).subdir
    PROVE  OneChange(Image(d, f), Image(d2, f))
  <1>1. \A s \in EntriesOn(Image(d, f)) :
           \/ /\ s \in EntriesOn(Image(d2, f))
              /\ Still(d, f, d2, f, s)
           \/ s = n /\ (s \notin EntriesOn(Image(d2, f)) \/ EntryOn(Image(d2, f), s).subdir)
    BY ImageEntries DEF Remain
  <1> QED
    BY <1>1, ImageFields DEF OneChange

-----------------------------------------------------------------------------
(***************************************************************************)
(* The writes of rename_dir                                                *)
(***************************************************************************)
\* A folder has another entry for the one it had: the entry has what it says.
Replaces(d, p, i, d1, q, j, en, d0) ==
    /\ \A s \in Refs(d1) : s # <<q, j>> =>
          s \in Refs(d) /\ s # <<p, i>> /\ Ref(d1, s) = Ref(d, s) /\ Ref(d0, s) = Ref(d, s)
    /\ \A s \in Refs(d1) : s # <<q, j>> /\ s[1] = q => ~Clash(en, Ref(d1, s))

LEMMA FolderFits ==
    ASSUME NEW d, NEW f, Usable(d, f), NEW p, NEW i, <<p, i>> \in Refs(d), NEW c,
           d[p].slots[i].subdir, c = d[p].slots[i].cluster,
           NEW d1, NEW q, NEW j, NEW name, q # c, Ref(d1, <<q, j>>) = FolderEntry(c, name),
           d1[c].subdir = TRUE, NEW d0, Replaces(d, p, i, d1, q, j, FolderEntry(c, name), d0)
    PROVE  NewFits(d0, f, d1, f, <<q, j>>)
  <1> DEFINE en == FolderEntry(c, name)
             n == <<p, i>>
             m == <<q, j>>
  <1>0. /\ \A s \in Refs(d1) : s # m =>
              s \in Refs(d) /\ s # n /\ Ref(d1, s) = Ref(d, s) /\ Ref(d0, s) = Ref(d, s)
        /\ \A s \in Refs(d1) : s # m /\ s[1] = q => ~Clash(en, Ref(d1, s))
    BY DEF Replaces
  <1>1. en.subdir /\ en.cluster = c /\ en.ext = NoExt
    BY FolderEntryFields
  <1>2. Stored(d, f, p, d[p].slots[i])
    BY DEF Usable, AllStored, Ref
  <1>3. Path(f, c) = {c} /\ d[c].subdir /\ f[c] # 0
    BY <1>2, FolderPath
  <1>4. /\ c \in Clusters /\ Path(f, c) \subseteq 3 .. CLUSTER_MAP_SIZE - 1
        /\ Terminates(FatView(f, NoName), c) /\ Cardinality(Path(f, c)) = 1
        /\ \A b \in Path(f, c) : f[b] # 0 /\ d[b].subdir = d[p].slots[i].subdir
    BY <1>2 DEF Stored
  <1> HIDE DEF en
  <1>5. Stored(d1, f, q, en)
    <2>1. en.subdir = TRUE
      BY DEF en, FolderEntry
    <2>2. en.cluster # q
      BY <1>1
    <2> QED
      BY <1>1, <1>3, <1>4, <2>1, <2>2 DEF Stored
  <1>6. \A s \in Refs(d1) : s # m => Path(f, c) \cap Path(f, Ref(d0, s).cluster) = {}
    BY <1>0 DEF Usable, Disjoint, Ref
  <1> QED
    BY <1>0, <1>1, <1>5, <1>6 DEF NewFits, en

\* Two writes to the clusters c and b, or to c and the FAT.
LEMMA TwoWrites ==
    ASSUME NEW d, NEW f, NEW l, NEW d2, NEW f2, NEW on, NEW w, NEW u,
           Fine(Image(d, f), l), Fine(on, l), Fine(Image(d2, f2), l),
           on = Written(Image(d, f), w), Image(d2, f2) = Written(on, u),
           OneChange(Image(d, f), on), OneChange(on, Image(d2, f2))
    PROVE  Runs(Image(d, f), <<w, u>>, d2, f2, l)
  <1>1. Runs(Image(d2, f2), <<>>, d2, f2, l)
    BY RunsNil, ImageFields
  <1>2. Prefixed(u, <<>>, <<u>>) /\ Prefixed(w, <<u>>, <<w, u>>)
    BY Prefixes
  <1>3. Runs(on, <<u>>, d2, f2, l)
    BY <1>1, <1>2, RunsCons
  <1> QED
    BY <1>2, <1>3, RunsCons

\* A header is written: all entries stay.
LEMMA HeaderWritten ==
    ASSUME NEW d, NEW f, NEW l, Sane(d, f, l), NEW d2, DiskLow(d2), NEW c \in Clusters,
           d[c].subdir, d2[c].subdir = d[c].subdir, d2[c].notEmpty = d[c].notEmpty,
           d2[c].slots = d[c].slots, \A b \in Clusters \ {c} : d2[b] = d[b]
    PROVE  Sane(d2, f, l) /\ OneChange(Image(d, f), Image(d2, f))
  <1>1. Usable(d, f)
    BY DEF Sane
  <1>2. <<c, 0>> \notin Refs(d) /\ <<c, 0>> \notin Refs(d2)
    BY DEF Refs, Slots
  <1>3. Usable(d2, f) /\ Remain(d, f, d2, f, <<c, 0>>)
    <2>1. TablePut(d, d2, c, 0)
      BY DEF TablePut
    <2> QED
      BY <1>1, <1>2, <2>1, TableWritten
  <1>4. \A t \in FatIndex : /\ d2[t].subdir = d[t].subdir
                            /\ d2[t].notEmpty = d[t].notEmpty
                            /\ LiveSlots(d2[t]) = LiveSlots(d[t])
    BY SizeFacts DEF LiveSlots
  <1>5. Flags(Image(d2, f), l)
    BY <1>4, FlagsFrame DEF Sane
  <1>8. FreeFlags(Image(d2, f))
    BY <1>4, FreeFlagsFrame DEF Sane
  <1>6. ASSUME l = {} PROVE Kin(Image(d2, f))
    <2>1. Kin(Image(d, f))
      BY <1>6 DEF Sane
    <2>2. \A s \in EntriesOn(Image(d, f)) : s \in EntriesOn(Image(d2, f)) /\ Ref(d2, s) = Ref(d, s)
      BY <1>2, <1>3, ImageEntries DEF Still, Remain
    <2>3. \A t \in FatIndex \ {ROOT_CLUSTER_NUMBER} : d2[t].subdir /\ LiveSlots(d2[t]) # {} =>
             f[t] # 0 /\ d[t].subdir /\ LiveSlots(d[t]) # {}
      BY <1>4, <2>1, ImageFields DEF Kin
    <2> QED
      BY <2>1, <2>2, <2>3, KinFrame
  <1>7. OneChange(Image(d, f), Image(d2, f))
    BY <1>2, <1>3, TableChange
  <1> QED
    BY <1>3, <1>5, <1>6, <1>7, <1>8 DEF Sane

\* What is between the two writes of rename_dir, and after them.
LEMMA RelabelledRuns ==
    ASSUME NEW d, NEW f, NEW l, Sane(d, f, l), NEW d2, DiskLow(d2), NEW f2,
           NEW p \in Parents, NEW i, NEW new, Relabelled(d, f, d2, f2, p, i, new),
           NEW c, c = d[p].slots[i].cluster
    PROVE  Runs(Image(d, f), <<Put(p, d2[p]), Put(c, d2[c])>>, d2, f2, l)
  <1> DEFINE n == <<p, i>>
             en == FolderEntry(c, new)
             d1 == [d EXCEPT ![p] = d2[p]]
  <1>0. /\ DiskLow(d) /\ Usable(d, f) /\ d \in [Clusters -> Cluster] /\ d2 \in [Clusters -> Cluster]
        /\ p \in FatIndex /\ p \in Clusters /\ p \notin {0, 1}
    BY ParentsOK DEF Sane, DiskLow, DiskOK, Parents, FatIndex
  <1>1. /\ d[p].subdir /\ i \in Slots /\ n \in Refs(d)
        /\ d[p].slots[i].undelete /\ d[p].slots[i].subdir
        /\ d[p] \in Cluster /\ d[p].slots \in [Slots -> Entry]
    <2>1. d[p].subdir /\ i \in Slots /\ d[p].slots[i].undelete /\ d[p].slots[i].subdir
      BY DEF Relabelled, InTable, Tables, LiveSlots
    <2> QED
      BY <1>0, <2>1 DEF Refs, Tables, Cluster
  <1>2. Stored(d, f, p, d[p].slots[i])
    BY <1>0, <1>1 DEF Usable, AllStored, Ref
  <1>3. /\ Path(f, c) = {c} /\ c \in 3 .. CLUSTER_MAP_SIZE - 1 /\ c \in FatIndex /\ c \in Clusters
        /\ c # p /\ c \notin {0, 1} /\ d[c].subdir /\ f[c] # 0 /\ d[c] \in Cluster
    <2>1. c # p
      BY <1>1, <1>2 DEF Stored
    <2> QED
      BY <1>0, <1>1, <1>2, <2>1, FolderPath
  <1>4. /\ f2 = f /\ d2 = [d EXCEPT ![p].slots[i] = en, ![c] = Renamed(d[c], new)]
        /\ \A j \in LiveSlots(d[p]) : ~Clash(en, d[p].slots[j])
    BY DEF Relabelled
  <1>5. /\ d2[p] = [d[p] EXCEPT !.slots = [d[p].slots EXCEPT ![i] = en]]
        /\ d2[c] = [d[c] EXCEPT !.name = new]
        /\ \A b \in Clusters \ {p, c} : d2[b] = d[b]
    BY <1>0, <1>3, <1>4 DEF Renamed
  <1>6. d2 = [d1 EXCEPT ![c] = d2[c]]
    BY <1>0, <1>3, <1>5
  <1>7. /\ d1[p] = d2[p] /\ \A b \in Clusters \ {p} : d1[b] = d[b]
    BY <1>0
  <1>8. DiskLow(d1)
    <2>1. TableLow(d2[p])
      BY <1>0 DEF DiskLow, DiskOK
    <2> QED
      BY <1>0, <2>1, LowPut
  <1> HIDE DEF d1, en
  <1>9. /\ d1[p].slots = [d[p].slots EXCEPT ![i] = en]
        /\ d1[p].subdir = d[p].subdir /\ d1[p].notEmpty = d[p].notEmpty
    <2>1. d1[p] = [d[p] EXCEPT !.slots = [d[p].slots EXCEPT ![i] = en]]
      BY <1>5, <1>7
    <2> QED
      BY <1>1, <2>1 DEF Cluster
  <1>10. /\ d2[c].slots = d1[c].slots /\ d2[c].subdir = d1[c].subdir
         /\ d2[c].notEmpty = d1[c].notEmpty /\ d1[c] = d[c]
    <2>1. d1[c] = d[c] /\ d2[c] = [d[c] EXCEPT !.name = new]
      BY <1>3, <1>5, <1>7
    <2> QED
      BY <1>3, <2>1 DEF Cluster
  <1>11. en.undelete /\ en.subdir /\ en.cluster = c
    BY FolderEntryFields DEF en
  <1>12. /\ Ref(d1, n) = en /\ n \in Refs(d1)
         /\ \A s \in Refs(d1) : s # n => s \in Refs(d) /\ Ref(d1, s) = Ref(d, s)
    <2>1. Ref(d1, n) = en /\ n \in Refs(d1)
      BY <1>0, <1>1, <1>9, <1>11 DEF Ref, Refs, Tables
    <2>2. ASSUME NEW s \in Refs(d1), s # n PROVE s \in Refs(d) /\ Ref(d1, s) = Ref(d, s)
      <3>1. PICK b \in Tables(d1), j \in Slots : s = <<b, j>> /\ d1[b].slots[j].undelete
        BY DEF Refs
      <3>2. CASE b = p
        BY <1>1, <1>9, <2>2, <3>1, <3>2 DEF Refs, Ref, Tables
      <3>3. CASE b # p
        BY <1>7, <3>1, <3>3 DEF Refs, Ref, Tables
      <3> QED
        BY <3>2, <3>3
    <2> QED
      BY <2>1, <2>2
  <1>13. NewFits(d, f, d1, f, n)
    <2>1. \A s \in Refs(d1) : s # n /\ s[1] = p => ~Clash(en, Ref(d1, s))
      <3> SUFFICES ASSUME NEW s \in Refs(d1), s # n, s[1] = p PROVE ~Clash(en, Ref(d1, s))
        OBVIOUS
      <3>1. s \in Refs(d) /\ Ref(d1, s) = Ref(d, s)
        BY <1>12
      <3>2. s[2] \in LiveSlots(d[p]) /\ Ref(d, s) = d[p].slots[s[2]]
        BY <3>1 DEF Refs, Ref, LiveSlots
      <3> QED
        BY <1>4, <3>1, <3>2
    <2>2. d1[c].subdir = TRUE
      BY <1>3, <1>10 DEF Cluster
    <2>3. Replaces(d, p, i, d1, p, i, FolderEntry(c, new), d)
      BY <1>12, <2>1 DEF Replaces, en
    <2>4. Ref(d1, n) = FolderEntry(c, new)
      BY <1>12 DEF en
    <2> QED
      BY <1>0, <1>1, <1>3, <2>2, <2>3, <2>4, FolderFits
  <1>14. Usable(d1, f) /\ Remain(d, f, d1, f, n)
    <2>1. TablePut(d, d1, p, i)
      BY <1>1, <1>7, <1>9 DEF TablePut
    <2> QED
      BY <1>0, <1>13, <2>1, TableWritten
  <1>15. \A t \in FatIndex : /\ d1[t].subdir = d[t].subdir
                             /\ d1[t].notEmpty = d[t].notEmpty
                             /\ LiveSlots(d1[t]) = LiveSlots(d[t])
    <2>1. LiveSlots(d1[p]) = LiveSlots(d[p])
      BY <1>1, <1>9, <1>11 DEF LiveSlots
    <2> QED
      BY <1>7, <1>9, <2>1, SizeFacts
  <1>16. Flags(Image(d1, f), l)
    BY <1>15, FlagsFrame DEF Sane
  <1>23. FreeFlags(Image(d1, f))
    BY <1>15, FreeFlagsFrame DEF Sane
  <1>17. ASSUME l = {} PROVE Kin(Image(d1, f))
    <2>1. Kin(Image(d, f))
      BY <1>17 DEF Sane
    <2>2. \A s \in EntriesOn(Image(d, f)) :
             /\ s \in EntriesOn(Image(d1, f)) /\ Ref(d1, s).cluster = Ref(d, s).cluster
             /\ Ref(d, s).subdir => Ref(d1, s).subdir
      <3> SUFFICES ASSUME NEW s \in Refs(d)
                   PROVE  /\ s \in Refs(d1) /\ Ref(d1, s).cluster = Ref(d, s).cluster
                          /\ Ref(d, s).subdir => Ref(d1, s).subdir
        BY ImageEntries
      <3>1. CASE s = n
        BY <1>11, <1>12, <3>1 DEF Ref
      <3>2. CASE s # n
        BY <1>14, <3>2 DEF Still, Remain
      <3> QED
        BY <3>1, <3>2
    <2>3. \A t \in FatIndex \ {ROOT_CLUSTER_NUMBER} : d1[t].subdir /\ LiveSlots(d1[t]) # {} =>
             f[t] # 0 /\ d[t].subdir /\ LiveSlots(d[t]) # {}
      BY <1>15, <2>1, ImageFields DEF Kin
    <2> QED
      BY <2>1, <2>2, <2>3, KinFrame
  <1>18. Sane(d1, f, l)
    BY <1>8, <1>14, <1>16, <1>17, <1>23 DEF Sane
  <1>19. OneChange(Image(d, f), Image(d1, f))
    BY <1>11, <1>12, <1>14, TableChange
  <1>20. Sane(d2, f, l) /\ OneChange(Image(d1, f), Image(d2, f))
    <2>1. \A b \in Clusters \ {c} : d2[b] = d1[b]
      BY <1>5, <1>7
    <2>2. d1[c].subdir
      BY <1>3, <1>10
    <2> QED
      BY <1>3, <1>10, <1>18, <2>1, <2>2, HeaderWritten
  <1>21. /\ Image(d1, f) = Written(Image(d, f), Put(p, d2[p]))
         /\ Image(d2, f) = Written(Image(d1, f), Put(c, d2[c]))
    <2>1. d \in Disk /\ d1 \in Disk /\ d2 \in Disk
      BY <1>0, <1>8 DEF DiskLow, DiskOK, Disk
    <2>2. Only(d, d1, p) /\ d1[p] = d2[p]
      BY <1>7 DEF Only
    <2>3. Only(d1, d2, c)
      BY <1>5, <1>7 DEF Only
    <2>4. Image(d1, f) = Written(Image(d, f), Put(p, d1[p]))
      BY <1>0, <2>1, <2>2, ClusterPut
    <2>5. Image(d2, f) = Written(Image(d1, f), Put(c, d2[c]))
      BY <1>3, <2>1, <2>3, ClusterPut
    <2> QED
      BY <2>2, <2>4, <2>5
  <1>22. Fine(Image(d, f), l) /\ Fine(Image(d1, f), l) /\ Fine(Image(d2, f), l)
    BY <1>18, <1>20, SaneFine
  <1> QED
    BY <1>4, <1>19, <1>20, <1>21, <1>22, TwoWrites

-----------------------------------------------------------------------------
(***************************************************************************)
(* The writes of delete                                                    *)
(***************************************************************************)
\* Writing the FAT where no entry has clusters loses the entries of the tables
\* that are freed: one at most.
LEMMA FatChange ==
    ASSUME NEW d, NEW f, NEW f2, \A s \in Refs(d) : Still(d, f, d, f2, s),
           LimitsOnce => \A s, u \in EntriesOn(Image(d, f)) : f2[s[1]] = 0 /\ f2[u[1]] = 0 => s = u
    PROVE  OneChange(Image(d, f), Image(d, f2))
  <1> DEFINE n == CHOOSE s \in EntriesOn(Image(d, f)) : f2[s[1]] = 0
  <1>1. ASSUME LimitsOnce, NEW s \in EntriesOn(Image(d, f))
        PROVE  \/ s \in EntriesOn(Image(d, f2)) /\ Still(d, f, d, f2, s)
               \/ s = n /\ s \notin EntriesOn(Image(d, f2))
    <2>1. s \in Refs(d) /\ s[1] \in FatIndex
      BY ImageEntries
    <2>2. CASE f2[s[1]] # 0
      BY <2>1, <2>2, ImageEntries
    <2>3. CASE f2[s[1]] = 0
      <3>1. n \in EntriesOn(Image(d, f)) /\ f2[n[1]] = 0
        BY <2>3
      <3>2. s = n
        <4> HIDE DEF n
        <4> QED
          BY <1>1, <2>3, <3>1
      <3>3. s \notin EntriesOn(Image(d, f2))
        BY <2>3, ImageEntries
      <3> QED
        BY <3>2, <3>3
    <2> QED
      BY <2>2, <2>3
  <1> HIDE DEF n
  <1>2. LimitsOnce => \E b : \A s \in EntriesOn(Image(d, f)) :
           \/ s \in EntriesOn(Image(d, f2)) /\ Still(d, f, d, f2, s)
           \/ s = b /\ (s \notin EntriesOn(Image(d, f2)) \/ EntryOn(Image(d, f2), s).subdir)
    BY <1>1
  <1> QED
    BY <1>2, ImageFields DEF OneChange

LEMMA SaneFat ==
    ASSUME NEW d, NEW f, NEW l, Sane(d, f, l), NEW f2, FatLow(f2), NEW X, FatSpares(d, f, f2, X),
           \A c \in FatIndex \cap X : d[c].subdir /\ f2[c] = 0 => ~d[c].notEmpty
    PROVE  /\ Sane(d, f2, l)
           /\ \A s \in Refs(d) : /\ Still(d, f, d, f2, s)
                                 /\ Path(f2, Ref(d, s).cluster) = Path(f, Ref(d, s).cluster)
  <1>1. Usable(d, f)
    BY DEF Sane
  <1>2. /\ Usable(d, f2)
        /\ \A s \in Refs(d) : /\ Still(d, f, d, f2, s)
                              /\ Path(f2, Ref(d, s).cluster) = Path(f, Ref(d, s).cluster)
    BY <1>1, FatWritten
  <1>3. Flags(Image(d, f2), l)
    BY FlagsFrame DEF Sane
  <1>4. FreeFlags(Image(d, f2))
    BY FreeFlagsFrame DEF Sane, FatSpares
  <1>5. ASSUME l = {} PROVE Kin(Image(d, f2))
    <2>1. Kin(Image(d, f)) /\ Flags(Image(d, f), l)
      BY <1>5 DEF Sane
    <2>2. ASSUME NEW t \in FatIndex, d[t].subdir, LiveSlots(d[t]) # {}, f[t] # 0
          PROVE  f2[t] # 0
      <3>1. d[t].notEmpty
        BY <1>5, <2>1, <2>2, ImageFields DEF Flags
      <3> QED
        BY <2>2, <3>1 DEF FatSpares
    <2>3. ASSUME NEW s \in EntriesOn(Image(d, f)) PROVE s \in EntriesOn(Image(d, f2))
      <3>1. s \in Refs(d) /\ s[1] \in FatIndex /\ f[s[1]] # 0
        BY ImageEntries
      <3>2. d[s[1]].subdir /\ LiveSlots(d[s[1]]) # {}
        BY <3>1 DEF Refs, Tables, LiveSlots
      <3>3. f2[s[1]] # 0
        BY <2>2, <3>1, <3>2
      <3> QED
        BY <3>1, <3>3, ImageEntries
    <2>4. ASSUME NEW t \in FatIndex \ {ROOT_CLUSTER_NUMBER}, d[t].subdir, LiveSlots(d[t]) # {}
          PROVE  f2[t] # 0
      BY <2>1, <2>2, <2>4, ImageFields DEF Kin
    <2> QED
      BY <2>1, <2>3, <2>4, KinFrame
  <1> QED
    BY <1>2, <1>3, <1>4, <1>5 DEF Sane

LEMMA RemovedRuns ==
    ASSUME NEW d, NEW f, NEW l, Sane(d, f, l), NEW d2, DiskLow(d2), NEW f2, FatLow(f2),
           NEW p \in Parents, NEW i, Removed(d, f, d2, f2, p, i)
    PROVE  Runs(Image(d, f), <<Put(p, d2[p]), Put(FAT_CLUSTER_NUMBER, f2)>>, d2, f2, l)
  <1> DEFINE n == <<p, i>>
             en == d[p].slots[i]
             c == en.cluster
             chain == Path(f, c)
  <1>0. /\ DiskLow(d) /\ Usable(d, f) /\ d \in Disk /\ d2 \in Disk
        /\ p \in FatIndex /\ p \in Clusters /\ p # 0 /\ p # 1
    BY ParentsOK DEF Sane, DiskLow, DiskOK, Parents, FatIndex, Disk
  <1>19. Cleared(d, f, d2, f2, p, i)
    BY <1>0, RemovedTable
  <1>1. d[p].subdir /\ i \in Slots /\ n \in Refs(d)
    BY <1>19 DEF Cleared
  <1>2. Stored(d, f, p, en)
    BY <1>0, <1>1 DEF Usable, AllStored, Ref
  <1> HIDE DEF en
  <1>3. /\ chain \subseteq 3 .. CLUSTER_MAP_SIZE - 1 /\ chain \subseteq FatIndex
        /\ \A b \in chain : d[b].subdir = en.subdir
        /\ en.subdir => chain = {c} /\ c # p
    <2>1. chain \subseteq 3 .. CLUSTER_MAP_SIZE - 1 /\ \A b \in chain : d[b].subdir = en.subdir
      BY <1>2 DEF Stored
    <2>2. chain \subseteq FatIndex
      BY <2>1, SizeFacts DEF FatIndex
    <2>3. ASSUME en.subdir PROVE Path(f, en.cluster) = {en.cluster} /\ en.cluster # p
      <3>1. Path(f, en.cluster) = {en.cluster}
        BY <1>2, <2>3, FolderPath
      <3>2. en.cluster # p
        BY <1>2, <2>3 DEF Stored
      <3> QED
        BY <3>1, <3>2
    <2> QED
      BY <2>1, <2>2, <2>3
  <1>4. en.subdir => ~d[c].notEmpty
    BY DEF Removed, en
  <1>5. /\ d2[p].slots = [d[p].slots EXCEPT ![i] = NullEntry] /\ d2[p].subdir = d[p].subdir
        /\ d2[p].notEmpty = IF LiveSlots(d2[p]) = {} THEN FALSE ELSE d[p].notEmpty
        /\ d[p].slots \in [Slots -> Entry]
    BY <1>19 DEF Cleared
  <1>6. /\ \A b \in Clusters \ {p} : d2[b] = d[b]
        /\ \A b \in FatIndex : f2[b] = IF b \in chain THEN 0 ELSE f[b]
        /\ \A s \in Refs(d2) : s \in Refs(d) /\ s # n /\ Ref(d2, s) = Ref(d, s)
    BY <1>19 DEF Cleared, en
  <1>7. Usable(d2, f) /\ Remain(d, f, d2, f, n)
    <2>1. TablePut(d, d2, p, i)
      BY <1>1, <1>5, <1>6 DEF TablePut
    <2> QED
      BY <1>0, <1>6, <2>1, TableWritten
  <1>8. \A t \in FatIndex : /\ d2[t].subdir = d[t].subdir
                            /\ LiveSlots(d2[t]) \subseteq LiveSlots(d[t])
                            /\ ~d2[t].notEmpty => ~d[t].notEmpty \/ LiveSlots(d2[t]) = {}
                            /\ d2[t].notEmpty => d[t].notEmpty
    <2>1. LiveSlots(d2[p]) \subseteq LiveSlots(d[p])
      BY <1>1, <1>5 DEF LiveSlots, NullEntry
    <2>2. ASSUME NEW t \in FatIndex, t # p PROVE d2[t] = d[t]
      BY <1>6, <2>2, SizeFacts
    <2> QED
      BY <1>5, <2>1, <2>2
  <1>9. Flags(Image(d2, f), l) /\ FreeFlags(Image(d2, f))
    <2>1. Flags(Image(d2, f), l)
      BY <1>8, FlagsFrame DEF Sane
    <2>2. FreeFlags(Image(d2, f))
      BY <1>8, FreeFlagsFrame DEF Sane
    <2> QED
      BY <2>1, <2>2
  <1>10. \A t \in FatIndex \cap chain : d2[t].subdir => t = c /\ d2[t] = d[t] /\ ~d2[t].notEmpty
    <2> SUFFICES ASSUME NEW t \in FatIndex, t \in chain, d2[t].subdir
                 PROVE  t = c /\ d2[t] = d[t] /\ ~d2[t].notEmpty
      OBVIOUS
    <2>1. en.subdir
      BY <1>3, <1>8
    <2>2. t = c /\ t # p /\ t \in Clusters
      BY <1>3, <2>1, SizeFacts
    <2> QED
      BY <1>4, <1>6, <2>1, <2>2
  <1>11. ASSUME l = {} PROVE Kin(Image(d2, f))
    <2>1. Kin(Image(d, f))
      BY <1>11 DEF Sane
    <2>2. ASSUME NEW s \in EntriesOn(Image(d, f)), Ref(d, s).subdir,
                 LiveSlots(d2[Ref(d, s).cluster]) # {}
          PROVE  s \in EntriesOn(Image(d2, f)) /\ Ref(d2, s) = Ref(d, s)
      <3>1. s # n
        <4> SUFFICES ASSUME s = n PROVE FALSE
          OBVIOUS
        <4>1. Ref(d, s) = en
          BY DEF Ref, en
        <4>2. c \in FatIndex /\ d[c].subdir /\ ~d[c].notEmpty /\ c # p /\ c \in Clusters
          BY <1>2, <1>3, <1>4, <2>2, <4>1, FolderPath
        <4>3. LiveSlots(d[c]) = {}
          BY <1>11, <4>2, ImageFields DEF Sane, Flags
        <4> QED
          BY <1>6, <2>2, <4>1, <4>2, <4>3
      <3>2. s \in Refs(d) /\ s[1] \in FatIndex /\ f[s[1]] # 0
        BY ImageEntries
      <3>3. s \in Refs(d2) /\ Ref(d2, s) = Ref(d, s)
        BY <1>7, <3>1, <3>2 DEF Remain, Still
      <3> QED
        BY <3>2, <3>3, ImageEntries
    <2>3. \A t \in FatIndex \ {ROOT_CLUSTER_NUMBER} : d2[t].subdir /\ LiveSlots(d2[t]) # {} =>
             f[t] # 0 /\ d[t].subdir /\ LiveSlots(d[t]) # {}
      BY <1>8, <2>1, ImageFields DEF Kin
    <2> QED
      BY <2>1, <2>2, <2>3, KinFrame
  <1>12. Sane(d2, f, l)
    BY <1>7, <1>9, <1>11 DEF Sane
  <1>13. /\ Sane(d2, f2, l)
         /\ \A s \in Refs(d2) : Still(d2, f, d2, f2, s)
    <2>1. \A b \in FatIndex \ chain : f2[b] = f[b]
      BY <1>6
    <2>2. \A s \in Refs(d2) : chain \cap Path(f, Ref(d2, s).cluster) = {}
      <3> SUFFICES ASSUME NEW s \in Refs(d2)
                   PROVE  chain \cap Path(f, Ref(d2, s).cluster) = {}
        OBVIOUS
      <3>1. s \in Refs(d) /\ s # n /\ Ref(d2, s) = Ref(d, s) /\ Ref(d, n) = en
        BY <1>6 DEF Ref, en
      <3> QED
        BY <1>0, <1>1, <3>1 DEF Usable, Disjoint
    <2>3. \A b \in FatIndex \cap chain : f2[b] = 0
      BY <1>6
    <2>4. FAT32_FAT_END_OF_FILE # 0
      BY SizeFacts
    <2> HIDE DEF chain
    <2>5. FatSpares(d2, f, f2, chain)
      BY <2>1, <2>2, <2>3 DEF FatSpares
    <2>6. \A b \in FatIndex \cap chain : d2[b].subdir /\ f2[b] = 0 => ~d2[b].notEmpty
      BY <1>10
    <2> QED
      BY <1>12, <2>5, <2>6, SaneFat
  <1>14. OneChange(Image(d, f), Image(d2, f))
    BY <1>6, <1>7, TableChange
  <1>15. OneChange(Image(d2, f), Image(d2, f2))
    <2>1. ASSUME LimitsOnce, NEW s \in EntriesOn(Image(d2, f)), NEW u \in EntriesOn(Image(d2, f)),
                 f2[s[1]] = 0, f2[u[1]] = 0
          PROVE  s = u
      <3>1. \A r \in {s, u} : /\ r \in Refs(d2) /\ r[1] \in FatIndex /\ f[r[1]] # 0 /\ f2[r[1]] = 0
                              /\ d2[r[1]].subdir /\ r[2] \in LiveSlots(d2[r[1]]) /\ r = <<r[1], r[2]>>
        BY <2>1, ImageEntries DEF Refs, Tables, LiveSlots
      <3>2. \A r \in {s, u} : r[1] \in chain /\ r[1] = c /\ ~d2[r[1]].notEmpty
        BY <1>6, <1>10, <3>1
      <3>3. \A a, b \in LiveSlots(d2[c]) : a = b
        BY <1>9, <2>1, <3>1, <3>2, ImageFields DEF Flags
      <3> QED
        BY <3>1, <3>2, <3>3
    <2> QED
      BY <1>13, <2>1, FatChange
  <1>16. Image(d2, f) = Written(Image(d, f), Put(p, d2[p]))
    BY <1>0, <1>6, ClusterPut DEF Only
  <1>17. Image(d2, f2) = Written(Image(d2, f), Put(FAT_CLUSTER_NUMBER, f2))
    BY ImageFields
  <1>18. Fine(Image(d, f), l) /\ Fine(Image(d2, f), l) /\ Fine(Image(d2, f2), l)
    BY <1>12, <1>13, SaneFine
  <1> QED
    BY <1>14, <1>15, <1>16, <1>17, <1>18, TwoWrites

-----------------------------------------------------------------------------
(***************************************************************************)
(* The writes of move_dir                                                  *)
(***************************************************************************)
\* As long as no directory is moved, a table that is flagged empty is empty.
NoneFlagged(d) == \A t \in FatIndex : d[t].subdir /\ ~d[t].notEmpty => LiveSlots(d[t]) = {}

\* The tables have their headers, and no new entries.
Shrunk(d, d1) ==
    \A t \in FatIndex : /\ d1[t].subdir = d[t].subdir
                        /\ d1[t].notEmpty = d[t].notEmpty
                        /\ LiveSlots(d1[t]) \subseteq LiveSlots(d[t])

\* The first write takes the entry out of the old parent.
LEMMA UnhookedChange ==
    ASSUME NEW d, NEW f, NEW l, Sane(d, f, l), l # {}, NEW d2, NEW f2, NEW p \in Parents, NEW i,
           NEW q, NEW j, Rehung(d, f, d2, f2, p, i, q, j),
           NEW d1, d1 = Unhooked(d, p, i)
    PROVE  /\ Sane(d1, f, l) /\ Only(d, d1, p)
           /\ OneChange(Image(d, f), Image(d1, f)) /\ Shrunk(d, d1)
  <1> DEFINE m == <<p, i>>
  <1>0. DiskLow(d) /\ Usable(d, f) /\ p \in Clusters
    BY ParentsOK DEF Sane
  <1>1. DiskLow(d1)
    BY <1>0, LowPut DEF Unhooked
  <1>2. /\ d[p].subdir /\ d1[p].subdir = d[p].subdir /\ d1[p].notEmpty = d[p].notEmpty
        /\ i \in Slots /\ \A b \in Clusters \ {p} : d1[b] = d[b]
        /\ \A k \in Slots \ {i} : d1[p].slots[k] = d[p].slots[k]
        /\ \A s \in Refs(d1) : s \in Refs(d) /\ s # <<p, i>> /\ Ref(d1, s) = Ref(d, s)
    BY DEF Rehung
  <1> HIDE DEF m
  <1>3. m \notin Refs(d1)
    BY <1>2 DEF m
  <1>4. Usable(d1, f) /\ Remain(d, f, d1, f, m)
    <2>1. TablePut(d, d1, p, i)
      BY <1>2 DEF TablePut
    <2> QED
      BY <1>0, <1>3, <2>1, TableWritten DEF m
  <1>5. \A t \in FatIndex : /\ d1[t].subdir = d[t].subdir
                            /\ d1[t].notEmpty = d[t].notEmpty
                            /\ LiveSlots(d1[t]) \subseteq LiveSlots(d[t])
    <2> SUFFICES ASSUME NEW t \in FatIndex
                 PROVE  /\ d1[t].subdir = d[t].subdir
                        /\ d1[t].notEmpty = d[t].notEmpty
                        /\ LiveSlots(d1[t]) \subseteq LiveSlots(d[t])
      OBVIOUS
    <2>1. CASE t # p
      BY <1>2, <2>1, SizeFacts
    <2>2. CASE t = p
      <3>1. ASSUME NEW k \in LiveSlots(d1[p]) PROVE k \in LiveSlots(d[p])
        <4>1. k \in Slots /\ d1[p].slots[k].undelete
          BY DEF LiveSlots
        <4>2. <<p, k>> \in Refs(d1)
          BY <1>0, <1>2, <4>1 DEF Refs, Tables
        <4>3. <<p, k>> \in Refs(d)
          BY <1>2, <4>2
        <4> QED
          BY <4>3 DEF Refs, LiveSlots
      <3> QED
        BY <1>2, <2>2, <3>1
    <2> QED
      BY <2>1, <2>2
  <1>6. Flags(Image(d1, f), l)
    BY <1>5, FlagsFrame DEF Sane
  <1>7. FreeFlags(Image(d1, f))
    BY <1>5, FreeFlagsFrame DEF Sane
  <1>8. OneChange(Image(d, f), Image(d1, f))
    BY <1>3, <1>4, TableChange
  <1>9. Sane(d1, f, l)
    BY <1>1, <1>4, <1>6, <1>7 DEF Sane
  <1>10. Only(d, d1, p)
    BY <1>2 DEF Only
  <1> QED
    BY <1>5, <1>8, <1>9, <1>10 DEF Shrunk

\* The second puts it into the new one.
LEMMA HungChange ==
    ASSUME NEW d, NEW f, NEW l, Sane(d, f, l), l # {}, LimitsOnce => NoneFlagged(d),
           NEW d2, DiskLow(d2), NEW f2, NEW p \in Parents, NEW i, NEW q, NEW j,
           Rehung(d, f, d2, f2, p, i, q, j), NEW c, c = d[p].slots[i].cluster, c # q,
           NEW d1, d1 = Unhooked(d, p, i), Sane(d1, f, l), Shrunk(d, d1),
           NEW dm, DiskLow(dm), Only(d1, dm, q), dm[q] = d2[q], Only(dm, d2, c)
    PROVE  Sane(dm, f, l) /\ OneChange(Image(d1, f), Image(dm, f))
  <1> DEFINE m == <<p, i>>
             n == <<q, j>>
             name == d[c].name
             en == FolderEntry(c, name)
  <1>0. Usable(d, f) /\ Usable(d1, f) /\ DiskLow(d1) /\ p \in Clusters
    BY ParentsOK DEF Sane
  <1>1. /\ m \in Refs(d) /\ d[p].slots[i].subdir
        /\ q \in Clusters /\ q # 0 /\ d[q].subdir /\ j \in Slots
        /\ c \in Clusters /\ c # p /\ d[c].subdir /\ d[c] \in Cluster
        /\ \A b \in Clusters \ {p} : d1[b] = d[b]
        /\ d1[p].subdir = d[p].subdir /\ d1[p].notEmpty = d[p].notEmpty
    BY DEF Rehung
  <1>2. /\ d2[c].slots = d[c].slots /\ d2[c].subdir = d[c].subdir
        /\ j \in FreeSlots(d1[q])
        /\ \A k \in Slots \ {j} : d2[q].slots[k] = d1[q].slots[k]
        /\ d2[q].slots[j] = en
        /\ d2[q].subdir = d[q].subdir /\ d2[q].notEmpty = d[q].notEmpty
        /\ \A k \in LiveSlots(d1[q]) : ~Clash(en, d1[q].slots[k])
    BY DEF Rehung
  <1>3. /\ \A s \in Refs(d1) : s \in Refs(d) /\ s # m /\ Ref(d1, s) = Ref(d, s)
        /\ \A s \in Refs(d2) : s # n => s \in Refs(d1) /\ Ref(d2, s) = Ref(d1, s)
    BY DEF Rehung
  <1> HIDE DEF en, name
  <1>4. en.undelete /\ en.subdir /\ en.cluster = c
    BY FolderEntryFields DEF en
  <1>5. /\ \A b \in Clusters \ {q} : dm[b] = d1[b]
        /\ dm[q] = d2[q] /\ \A b \in Clusters \ {c} : dm[b] = d2[b]
    BY DEF Only
  <1>6. dm[c] = d[c]
    BY <1>1, <1>5
  <1>7. /\ n \in Refs(dm) /\ Ref(dm, n) = en
        /\ \A s \in Refs(dm) : s # n => s \in Refs(d1) /\ Ref(dm, s) = Ref(d1, s)
    <2>1. n \in Refs(dm) /\ Ref(dm, n) = en
      BY <1>1, <1>2, <1>4, <1>5 DEF Refs, Ref, Tables
    <2>2. ASSUME NEW s \in Refs(dm), s # n PROVE s \in Refs(d1) /\ Ref(dm, s) = Ref(d1, s)
      <3>1. PICK b \in Clusters, k \in Slots : s = <<b, k>> /\ dm[b].subdir /\ dm[b].slots[k].undelete
        BY DEF Refs, Tables
      <3>2. CASE b = q
        <4>1. k # j
          BY <2>2, <3>1, <3>2
        <4> QED
          BY <1>1, <1>2, <1>5, <3>1, <3>2, <4>1 DEF Refs, Ref, Tables
      <3>3. CASE b # q
        BY <1>5, <3>1, <3>3 DEF Refs, Ref, Tables
      <3> QED
        BY <3>2, <3>3
    <2> QED
      BY <2>1, <2>2
  <1>8. TablePut(d1, dm, q, j)
    <2>1. d1[q].subdir = d[q].subdir
      BY <1>1
    <2> QED
      BY <1>1, <1>2, <1>5, <2>1 DEF TablePut
  <1>9. NewFits(d1, f, dm, f, n)
    <2>1. \A s \in Refs(dm) : s # n =>
             s \in Refs(d) /\ s # m /\ Ref(dm, s) = Ref(d, s) /\ Ref(d1, s) = Ref(d, s)
      BY <1>3, <1>7
    <2>2. \A s \in Refs(dm) : s # n /\ s[1] = q => ~Clash(en, Ref(dm, s))
      <3> SUFFICES ASSUME NEW s \in Refs(dm), s # n, s[1] = q PROVE ~Clash(en, Ref(dm, s))
        OBVIOUS
      <3>1. s \in Refs(d1) /\ Ref(dm, s) = Ref(d1, s)
        BY <1>7
      <3>2. s[2] \in LiveSlots(d1[q]) /\ Ref(d1, s) = d1[q].slots[s[2]]
        BY <3>1 DEF Refs, Ref, LiveSlots
      <3> QED
        BY <1>2, <3>1, <3>2
    <2>3. dm[c].subdir = TRUE
      BY <1>1, <1>6 DEF Cluster
    <2>4. Replaces(d, p, i, dm, q, j, FolderEntry(c, name), d1)
      BY <2>1, <2>2 DEF Replaces, en
    <2>5. m \in Refs(d) /\ Ref(dm, n) = FolderEntry(c, name)
      BY <1>1, <1>7 DEF en
    <2> QED
      BY <1>0, <1>1, <2>3, <2>4, <2>5, FolderFits
  <1>10. Usable(dm, f) /\ Remain(d1, f, dm, f, n)
    BY <1>0, <1>1, <1>8, <1>9, TableWritten
  <1>11. \A t \in FatIndex : /\ dm[t].subdir = d[t].subdir
                             /\ dm[t].notEmpty = d[t].notEmpty
                             /\ t # q => LiveSlots(dm[t]) \subseteq LiveSlots(d[t])
    <2> SUFFICES ASSUME NEW t \in FatIndex
                 PROVE  /\ dm[t].subdir = d[t].subdir
                        /\ dm[t].notEmpty = d[t].notEmpty
                        /\ t # q => LiveSlots(dm[t]) \subseteq LiveSlots(d[t])
      OBVIOUS
    <2>1. CASE t # q
      BY <1>5, <2>1, SizeFacts DEF Shrunk
    <2>2. CASE t = q
      BY <1>2, <1>5, <2>2
    <2> QED
      BY <2>1, <2>2
  <1>12. Flags(Image(dm, f), l)
    <2> SUFFICES ASSUME NEW t \in FatIndex, dm[t].subdir, ~dm[t].notEmpty, LimitsOnce,
                        NEW a \in LiveSlots(dm[t]), NEW b \in LiveSlots(dm[t])
                 PROVE  a = b
      BY ImageFields DEF Flags
    <2>1. LiveSlots(d[t]) = {}
      BY <1>11 DEF NoneFlagged
    <2>2. t = q
      BY <1>11, <2>1
    <2>3. LiveSlots(d1[t]) = {}
      BY <2>1 DEF Shrunk
    <2>4. \A k \in LiveSlots(dm[q]) : k = j
      BY <1>2, <1>5, <2>2, <2>3 DEF LiveSlots
    <2> QED
      BY <2>2, <2>4
  <1>13. FreeFlags(Image(dm, f))
    BY <1>11, FreeFlagsFrame DEF Sane
  <1>14. Sane(dm, f, l)
    BY <1>10, <1>12, <1>13 DEF Sane
  <1>15. OneChange(Image(d1, f), Image(dm, f))
    BY <1>4, <1>7, <1>10, TableChange
  <1> QED
    BY <1>14, <1>15

LEMMA CarriedRuns ==
    ASSUME NEW d, NEW f, NEW l, Sane(d, f, l), l # {}, LimitsOnce => NoneFlagged(d),
           NEW d2, DiskLow(d2), NEW f2, NEW p \in Parents, NEW i, NEW q \in Parents, NEW j,
           Carried(d, f, d2, f2, p, i, q, j), NEW c, c = d[p].slots[i].cluster, c # q,
           NEW left, left = Unhooked(d, p, i)[p]
    PROVE  Runs(Image(d, f), <<Put(p, left), Put(q, d2[q]), Put(c, d2[c]),
                               Put(FAT_CLUSTER_NUMBER, f2)>>, d2, f2, l)
  <1> DEFINE d1 == Unhooked(d, p, i)
             dm == [d2 EXCEPT ![c] = d[c]]
             w1 == Put(p, left)
             w2 == Put(q, d2[q])
             w3 == Put(c, d2[c])
             w4 == Put(FAT_CLUSTER_NUMBER, f2)
  <1>0. /\ DiskLow(d) /\ Usable(d, f) /\ d \in Disk /\ d2 \in Disk
        /\ p \in Clusters /\ p # 0 /\ p # 1 /\ q \in Clusters /\ q # 0 /\ q # 1
    BY ParentsOK DEF Sane, DiskLow, DiskOK, Parents, Disk
  <1>1. Rehung(d, f, d2, f2, p, i, q, j)
    BY <1>0, CarriedTables
  <1>2. /\ c \in Clusters /\ c \in 3 .. CLUSTER_MAP_SIZE - 1 /\ c # p /\ d[c].subdir
        /\ f2 = f /\ \A b \in Clusters \ {p} : d1[b] = d[b]
        /\ \A b \in Clusters \ {q, c} : d2[b] = d1[b]
        /\ d2[c].slots = d[c].slots /\ d2[c].subdir = d[c].subdir
        /\ d2[c].notEmpty = d[c].notEmpty
    BY <1>1 DEF Rehung
  <1>3. /\ Sane(d1, f, l) /\ Only(d, d1, p) /\ OneChange(Image(d, f), Image(d1, f))
        /\ Shrunk(d, d1)
    BY <1>1, UnhookedChange
  <1>4. DiskLow(dm)
    <2>1. TableLow(d[c])
      BY <1>0, <1>2 DEF DiskLow, DiskOK
    <2> QED
      BY <1>2, <2>1, LowPut
  <1>5. dm[c] = d[c] /\ \A b \in Clusters \ {c} : dm[b] = d2[b]
    BY <1>0, <1>2 DEF Disk
  <1> HIDE DEF d1, dm
  <1>6. Only(d1, dm, q) /\ dm[q] = d2[q] /\ Only(dm, d2, c)
    BY <1>0, <1>2, <1>5 DEF Only
  <1>7. Sane(dm, f, l) /\ OneChange(Image(d1, f), Image(dm, f))
    <2>1. d1 = Unhooked(d, p, i)
      BY DEF d1
    <2> QED
      BY <1>1, <1>3, <1>4, <1>6, <2>1, HungChange
  <1>8. Sane(d2, f, l) /\ OneChange(Image(dm, f), Image(d2, f))
    <2>1. /\ dm[c].subdir /\ d2[c].subdir = dm[c].subdir /\ d2[c].notEmpty = dm[c].notEmpty
          /\ d2[c].slots = dm[c].slots
      BY <1>2, <1>5
    <2>2. \A b \in Clusters \ {c} : d2[b] = dm[b]
      BY <1>5
    <2> QED
      BY <1>2, <1>7, <2>1, <2>2, HeaderWritten
  <1>9. OneChange(Image(d2, f), Image(d2, f2))
    <2>1. \A s \in Refs(d2) : Still(d2, f, d2, f2, s)
      BY <1>2 DEF Still
    <2>2. \A s \in EntriesOn(Image(d2, f)) : f2[s[1]] # 0
      BY <1>2, ImageEntries
    <2> QED
      BY <2>1, <2>2, FatChange
  <1>10. d1 \in Disk /\ dm \in Disk
    BY <1>3, <1>4 DEF Sane, DiskLow, DiskOK, Disk
  <1>11. Image(d1, f) = Written(Image(d, f), w1)
    <2>1. Image(d1, f) = Written(Image(d, f), Put(p, d1[p]))
      BY <1>0, <1>3, <1>10, ClusterPut
    <2> QED
      BY <2>1 DEF d1
  <1>12. Image(dm, f) = Written(Image(d1, f), w2)
    <2>1. Image(dm, f) = Written(Image(d1, f), Put(q, dm[q]))
      BY <1>0, <1>6, <1>10, ClusterPut
    <2> QED
      BY <1>6, <2>1
  <1>13. Image(d2, f) = Written(Image(dm, f), w3)
    <2>1. c # 0 /\ c # 1
      BY <1>2
    <2> QED
      BY <1>0, <1>2, <1>6, <1>10, <2>1, ClusterPut
  <1>14. Image(d2, f2) = Written(Image(d2, f), w4)
    BY ImageFields
  <1>15. /\ Fine(Image(d, f), l) /\ Fine(Image(d1, f), l) /\ Fine(Image(dm, f), l)
         /\ Fine(Image(d2, f), l) /\ Fine(Image(d2, f2), l)
    BY <1>2, <1>3, <1>7, <1>8, SaneFine
  <1>16. /\ Prefixed(w4, <<>>, <<w4>>) /\ Prefixed(w3, <<w4>>, <<w3, w4>>)
         /\ Prefixed(w2, <<w3, w4>>, <<w2, w3, w4>>)
         /\ Prefixed(w1, <<w2, w3, w4>>, <<w1, w2, w3, w4>>)
    BY Prefixes
  <1> HIDE DEF w1, w2, w3, w4
  <1>17. Runs(Image(d2, f2), <<>>, d2, f2, l)
    BY <1>15, RunsNil, ImageFields
  <1>18. Runs(Image(d2, f), <<w4>>, d2, f2, l)
    BY <1>9, <1>14, <1>15, <1>16, <1>17, RunsCons
  <1>19. Runs(Image(dm, f), <<w3, w4>>, d2, f2, l)
    BY <1>8, <1>13, <1>15, <1>16, <1>18, RunsCons
  <1>20. Runs(Image(d1, f), <<w2, w3, w4>>, d2, f2, l)
    BY <1>7, <1>12, <1>15, <1>16, <1>19, RunsCons
  <1>21. Runs(Image(d, f), <<w1, w2, w3, w4>>, d2, f2, l)
    BY <1>3, <1>11, <1>15, <1>16, <1>20, RunsCons
  <1> QED
    BY <1>21 DEF w1, w2, w3, w4

-----------------------------------------------------------------------------
(***************************************************************************)
(* The writes of write                                                     *)
(***************************************************************************)
\* The clusters C are free, and nothing leads to them; in d2 they are written.
Taking(d, f, d2, C) ==
    /\ \A c \in Clusters \ C : d2[c] = d[c]
    /\ \A s \in Refs(d) : C \cap Path(f, Ref(d, s).cluster) = {}
    /\ \A c \in C : f[c] = 0 /\ LiveSlots(d2[c]) = {} /\ ~d2[c].notEmpty

LEMMA SaneClusters ==
    ASSUME NEW d, NEW f, NEW l, Sane(d, f, l), NEW d2, DiskLow(d2),
           NEW C \in SUBSET (3 .. CLUSTER_MAP_SIZE - 1), Taking(d, f, d2, C)
    PROVE  /\ Sane(d2, f, l)
           /\ \A s \in Refs(d2) : s \in Refs(d) /\ Ref(d2, s) = Ref(d, s)
           /\ \A s \in Refs(d) : s[1] \notin C => s \in Refs(d2)
  <1>1. Usable(d, f)
    BY DEF Sane
  <1>2. /\ Usable(d2, f)
        /\ \A s \in Refs(d2) : s \in Refs(d)
        /\ \A s \in Refs(d) : s[1] \notin C => s \in Refs(d2) /\ Still(d, f, d2, f, s)
    BY <1>1, ClustersWritten DEF Taking
  <1>3. \A t \in FatIndex : t \notin C => d2[t] = d[t]
    BY SizeFacts DEF Taking
  <1>4. \A t \in C : f[t] = 0 /\ LiveSlots(d2[t]) = {} /\ ~d2[t].notEmpty
    BY DEF Taking
  <1>5. Flags(Image(d2, f), l)
    BY <1>3, <1>4, FlagsFrame DEF Sane
  <1>6. FreeFlags(Image(d2, f))
    BY <1>3, <1>4, FreeFlagsFrame DEF Sane
  <1>7. ASSUME l = {} PROVE Kin(Image(d2, f))
    <2>1. Kin(Image(d, f))
      BY <1>7 DEF Sane
    <2>2. ASSUME NEW s \in EntriesOn(Image(d, f))
          PROVE  s \in EntriesOn(Image(d2, f)) /\ Ref(d2, s) = Ref(d, s)
      <3>1. s \in Refs(d) /\ s[1] \in FatIndex /\ f[s[1]] # 0
        BY ImageEntries
      <3>2. s[1] \notin C
        BY <1>4, <3>1
      <3>3. s \in Refs(d2) /\ Ref(d2, s) = Ref(d, s)
        BY <1>2, <3>1, <3>2 DEF Still
      <3> QED
        BY <3>1, <3>3, ImageEntries
    <2>3. ASSUME NEW t \in FatIndex \ {ROOT_CLUSTER_NUMBER}, d2[t].subdir, LiveSlots(d2[t]) # {}
          PROVE  f[t] # 0 /\ d[t].subdir /\ LiveSlots(d[t]) # {}
      <3>1. t \notin C
        BY <1>4, <2>3
      <3>2. d2[t] = d[t]
        BY <1>3, <3>1
      <3> QED
        BY <2>1, <2>3, <3>2, ImageFields DEF Kin
    <2> QED
      BY <2>1, <2>2, <2>3, KinFrame
  <1>8. \A s \in Refs(d2) : Ref(d2, s) = Ref(d, s)
    <2> SUFFICES ASSUME NEW s \in Refs(d2) PROVE Ref(d2, s) = Ref(d, s)
      OBVIOUS
    <2>1. s[1] \in Clusters /\ s[1] \notin C
      BY <1>4 DEF Refs, Tables, LiveSlots
    <2> QED
      BY <2>1 DEF Taking, Ref
  <1> QED
    BY <1>2, <1>5, <1>6, <1>7, <1>8 DEF Sane

\* Where the table that was in cluster c is flagged empty, writing it loses one
\* entry at most.
LEMMA ClusterChange ==
    ASSUME NEW d, NEW f, NEW l, Sane(d, f, l), NEW d2, NEW c \in 3 .. CLUSTER_MAP_SIZE - 1,
           Only(d, d2, c), \A s \in Refs(d) : c \notin Path(f, Ref(d, s).cluster),
           LiveSlots(d2[c]) = {}, d2[c].subdir => f[c] \in {0, FAT32_FAT_END_OF_FILE},
           d[c].subdir => ~d[c].notEmpty
    PROVE  OneChange(Image(d, f), Image(d2, f))
  <1> DEFINE n == CHOOSE s \in EntriesOn(Image(d, f)) : s[1] = c
  <1>1. \A s \in Refs(d) : s[1] # c => s \in Refs(d2) /\ Still(d, f, d2, f, s)
    <2> DEFINE C == {c}
    <2>1. /\ C \in SUBSET (3 .. CLUSTER_MAP_SIZE - 1)
          /\ \A b \in Clusters \ C : d2[b] = d[b]
          /\ \A s \in Refs(d) : C \cap Path(f, Ref(d, s).cluster) = {}
          /\ \A b \in C : /\ LiveSlots(d2[b]) = {}
                          /\ d2[b].subdir => f[b] \in {0, FAT32_FAT_END_OF_FILE}
      BY DEF Only
    <2>2. Usable(d, f)
      BY DEF Sane
    <2> HIDE DEF C
    <2>3. \A s \in Refs(d) : s[1] \notin C => s \in Refs(d2) /\ Still(d, f, d2, f, s)
      BY <2>1, <2>2, ClustersWritten
    <2> QED
      BY <2>3 DEF C
  <1>2. ASSUME LimitsOnce, NEW s \in EntriesOn(Image(d, f)), NEW u \in EntriesOn(Image(d, f)),
               s[1] = c, u[1] = c
        PROVE  s = u
    <2>1. \A r \in {s, u} : /\ d[c].subdir /\ r[2] \in LiveSlots(d[c]) /\ r = <<c, r[2]>>
                            /\ c \in FatIndex
      BY <1>2, ImageEntries DEF Refs, Tables, LiveSlots
    <2>2. \A a, b \in LiveSlots(d[c]) : a = b
      BY <1>2, <2>1, ImageFields DEF Sane, Flags
    <2> QED
      BY <2>1, <2>2
  <1>3. LiveSlots(d2[c]) = {}
    OBVIOUS
  <1>4. ASSUME LimitsOnce, NEW s \in EntriesOn(Image(d, f))
        PROVE  \/ s \in EntriesOn(Image(d2, f)) /\ Still(d, f, d2, f, s)
               \/ s = n /\ s \notin EntriesOn(Image(d2, f))
    <2>1. s \in Refs(d) /\ s[1] \in FatIndex /\ f[s[1]] # 0
      BY ImageEntries
    <2>2. CASE s[1] # c
      BY <1>1, <2>1, <2>2, ImageEntries
    <2>3. CASE s[1] = c
      <3>1. n \in EntriesOn(Image(d, f)) /\ n[1] = c
        BY <2>3
      <3>2. s = n
        <4> HIDE DEF n
        <4> QED
          BY <1>2, <1>4, <2>3, <3>1
      <3>3. s \notin EntriesOn(Image(d2, f))
        BY <1>3, <2>3, ImageEntries DEF Refs, LiveSlots
      <3> QED
        BY <3>2, <3>3
    <2> QED
      BY <2>2, <2>3
  <1> HIDE DEF n
  <1>5. LimitsOnce => \E b : \A s \in EntriesOn(Image(d, f)) :
           \/ s \in EntriesOn(Image(d2, f)) /\ Still(d, f, d2, f, s)
           \/ s = b /\ (s \notin EntriesOn(Image(d2, f)) \/ EntryOn(Image(d2, f), s).subdir)
    BY <1>4
  <1> QED
    BY <1>5, ImageFields DEF OneChange

\* write puts the entry en into slot i of table p; it takes the clusters al.
Grown(d, f, d2, f2, p, i, en, al, m) ==
    /\ DiskLow(d2) /\ FatLow(f2)
    /\ p \in Parents /\ m \in Nat \ {0} /\ al \in [1 .. m -> 3 .. CLUSTER_MAP_SIZE - 1]
    /\ Injective(al, m)
    /\ f2 = ChainFat(f, al, 0, p)
    /\ Added(d, f, d2, f2, p, i, en, {al[j] : j \in 1 .. m})

\* The clusters when r of those have been written.
Filling(d, d2, al, r) == [c \in Clusters |-> IF \E j \in 1 .. r : al[j] = c THEN d2[c] ELSE d[c]]

\* The FAT when r of them have been marked.
Marking(f, p, al, r) == IF r = 0 THEN f ELSE ChainFat(f, SubSeq(al, 1, r), 0, p)

\* The first r of the clusters are chained in f2, and the rest is as in f.
ChainedTo(f, f2, al, r) ==
    /\ FatLow(f2)
    /\ \A c \in FatIndex : (\A j \in 1 .. r : al[j] # c) => f2[c] = f[c]
    /\ \A j \in 1 .. r : f2[al[j]] = IF j = r THEN FAT32_FAT_END_OF_FILE ELSE al[j + 1]

LEMMA PrefixOf ==
    ASSUME NEW m \in Nat, NEW S, NEW al \in [1 .. m -> S], NEW r \in 1 .. m
    PROVE  SubSeq(al, 1, r) = [j \in 1 .. r |-> al[j]]
  OBVIOUS

LEMMA MarkingFacts ==
    ASSUME NEW f, FatLow(f), NEW p \in Parents, NEW m \in Nat \ {0},
           NEW al \in [1 .. m -> 3 .. CLUSTER_MAP_SIZE - 1], Injective(al, m), NEW r \in 0 .. m
    PROVE  ChainedTo(f, Marking(f, p, al, r), al, r)
  <1>1. CASE r = 0
    BY <1>1 DEF ChainedTo, Marking
  <1>2. CASE r # 0
    <2> DEFINE a == [j \in 1 .. r |-> al[j]]
    <2>1. r \in Nat \ {0} /\ r \in 1 .. m /\ m \in Nat
      BY <1>2
    <2>2. a = SubSeq(al, 1, r)
      BY <2>1, PrefixOf
    <2>3. a \in [1 .. r -> 3 .. CLUSTER_MAP_SIZE - 1] /\ \A j \in 1 .. r : a[j] = al[j]
      OBVIOUS
    <2> HIDE DEF a
    <2>4. Injective(a, r)
      BY <2>3 DEF Injective
    <2>5. /\ Chained(ChainFat(f, a, 0, p), a, r)
          /\ \A c \in FatIndex : (\A j \in 1 .. r : a[j] # c) => ChainFat(f, a, 0, p)[c] = f[c]
      <3>1. r \in Nat \ {0} /\ a \in [1 .. r -> 3 .. CLUSTER_MAP_SIZE - 1]
        BY <2>1, <2>3
      <3> DEFINE g == ChainFat(f, a, 0, p)
      <3>2. g = ChainFat(f, a, 0, p)
        OBVIOUS
      <3> HIDE DEF g
      <3>3. Chained(g, a, r)
        BY <2>4, <3>1, <3>2, ChainFatChains
      <3>4. \A c \in FatIndex : (\A j \in 1 .. r : a[j] # c) => g[c] = f[c]
        BY <2>4, <3>1, <3>2, ChainFatChains
      <3> QED
        BY <3>3, <3>4 DEF g
    <2>6. FatLow(ChainFat(f, a, 0, p))
      <3>1. p \in Clusters \ {0, 1}
        BY ParentsOK
      <3> QED
        BY <2>1, <2>3, <3>1, LowChain
    <2>7. Marking(f, p, al, r) = ChainFat(f, a, 0, p)
      BY <1>2, <2>2 DEF Marking
    <2>8. \A j \in 1 .. r : j # r => a[j + 1] = al[j + 1]
      BY <2>3
    <2> QED
      BY <2>3, <2>5, <2>6, <2>7, <2>8 DEF ChainedTo, Chained
  <1> QED
    BY <1>1, <1>2

LEMMA MarkingAll ==
    ASSUME NEW f, NEW p, NEW m \in Nat \ {0}, NEW S, NEW al \in [1 .. m -> S]
    PROVE  Marking(f, p, al, m) = ChainFat(f, al, 0, p)
  <1>1. SubSeq(al, 1, m) = al
    <2>1. m \in 1 .. m /\ m \in Nat
      OBVIOUS
    <2>2. SubSeq(al, 1, m) = [j \in 1 .. m |-> al[j]]
      BY <2>1, PrefixOf
    <2> QED
      BY <2>2
  <1> QED
    BY <1>1 DEF Marking

LEMMA GrownFacts ==
    ASSUME NEW d, NEW f, NEW d2, NEW f2, NEW p, NEW i, NEW en, NEW al, NEW m,
           Grown(d, f, d2, f2, p, i, en, al, m)
    PROVE  /\ p \in Parents /\ p \in FatIndex /\ p \in Clusters /\ p # 0 /\ p # 1
           /\ d[p].subdir /\ f[p] # 0
           /\ \A j \in 1 .. m : /\ al[j] \in 3 .. CLUSTER_MAP_SIZE - 1 /\ f[al[j]] = 0
                                /\ al[j] \in FatIndex /\ al[j] \in Clusters /\ al[j] # p
                                /\ LiveSlots(d2[al[j]]) = {} /\ ~d2[al[j]].notEmpty
                                /\ d2[al[j]].subdir = en.subdir
           /\ \A c \in Clusters : c # p /\ (\A j \in 1 .. m : al[j] # c) => d2[c] = d[c]
           /\ \A j \in 1 .. m : al[j] \in Path(f2, en.cluster)
           /\ \A c \in Path(f2, en.cluster) : \E j \in 1 .. m : al[j] = c
           /\ Stored(d2, f2, p, en)
           /\ en.undelete
           /\ \A c \in FatIndex : (\A j \in 1 .. m : al[j] # c) => f2[c] = f[c]
           /\ i \in Slots /\ ~d[p].slots[i].undelete
           /\ \A j \in LiveSlots(d[p]) : ~Clash(en, d[p].slots[j])
  <1> DEFINE new == {al[j] : j \in 1 .. m}
  <1>1. Added(d, f, d2, f2, p, i, en, new) /\ p \in Parents
    BY DEF Grown
  <1>2. p \in Clusters /\ p # 0 /\ p # 1
    BY <1>1, ParentsOK
  <1>3. Stored(d2, f2, p, en) /\ Path(f2, en.cluster) = new
    BY <1>1 DEF Added, Holds
  <1>4. \A c \in new : d2[c].subdir = en.subdir
    BY <1>3 DEF Stored
  <1>5. \A j \in 1 .. m : al[j] \in new
    OBVIOUS
  <1>6. i \in Slots /\ ~d[p].slots[i].undelete
    <2>1. i \in FreeSlots(d[p])
      BY <1>1 DEF Added
    <2> QED
      BY <2>1 DEF FreeSlots, LiveSlots
  <1>7. /\ p \in FatIndex /\ d[p].subdir /\ f[p] # 0 /\ en.undelete
        /\ \A c \in new : c \in 3 .. CLUSTER_MAP_SIZE - 1 /\ f[c] = 0
        /\ \A c \in Clusters \ (new \cup {p}) : d2[c] = d[c]
        /\ \A c \in FatIndex \ new : f2[c] = f[c]
        /\ \A c \in new : LiveSlots(d2[c]) = {} /\ ~d2[c].notEmpty
        /\ \A j \in LiveSlots(d[p]) : ~Clash(en, d[p].slots[j])
    BY <1>1 DEF Added
  <1>8. \A c \in 3 .. CLUSTER_MAP_SIZE - 1 : c \in FatIndex /\ c \in Clusters
    BY SizeFacts DEF FatIndex
  <1>9. \A c : (\A j \in 1 .. m : al[j] # c) => c \notin new
    OBVIOUS
  <1> HIDE DEF new
  <1>10. \A j \in 1 .. m : /\ al[j] \in 3 .. CLUSTER_MAP_SIZE - 1 /\ f[al[j]] = 0
                           /\ al[j] \in FatIndex /\ al[j] \in Clusters /\ al[j] # p
                           /\ LiveSlots(d2[al[j]]) = {} /\ ~d2[al[j]].notEmpty
                           /\ d2[al[j]].subdir = en.subdir
    BY <1>4, <1>5, <1>7, <1>8
  <1>11. /\ \A c \in Clusters : c # p /\ (\A j \in 1 .. m : al[j] # c) => d2[c] = d[c]
         /\ \A c \in FatIndex : (\A j \in 1 .. m : al[j] # c) => f2[c] = f[c]
    BY <1>7, <1>9
  <1>12. /\ \A j \in 1 .. m : al[j] \in Path(f2, en.cluster)
         /\ \A c \in Path(f2, en.cluster) : \E j \in 1 .. m : al[j] = c
    BY <1>3 DEF new
  <1> QED
    BY <1>1, <1>2, <1>3, <1>6, <1>7, <1>10, <1>11, <1>12

\* The entries on a disk that is being filled are old ones, and have the
\* clusters they had.
Older(d, f, d1, f1, al, r) ==
    /\ \A s \in Refs(d1) : /\ s \in Refs(d) /\ Ref(d1, s) = Ref(d, s)
                           /\ Path(f1, Ref(d, s).cluster) = Path(f, Ref(d, s).cluster)
    /\ \A s \in Refs(d) : (\A j \in 1 .. r : al[j] # s[1]) => s \in Refs(d1)

LEMMA FillingSane ==
    ASSUME NEW d, NEW f, NEW l, Sane(d, f, l), NEW d2, NEW f2, NEW p, NEW i, NEW en, NEW al, NEW m,
           Grown(d, f, d2, f2, p, i, en, al, m), NEW r \in 0 .. m, NEW t \in 0 .. m,
           t = r \/ t = r + 1 \/ (t = 0 /\ m = 1),
           NEW d1, d1 = Filling(d, d2, al, r), NEW f1, f1 = Marking(f, p, al, t)
    PROVE  Sane(d1, f1, l) /\ Older(d, f, d1, f1, al, r)
  <1> DEFINE C == {al[j] : j \in 1 .. r}
             X == {al[j] : j \in 1 .. t}
  <1>0. m \in Nat \ {0} /\ al \in [1 .. m -> 3 .. CLUSTER_MAP_SIZE - 1] /\ Injective(al, m)
        /\ DiskLow(d2) /\ DiskLow(d) /\ FatLow(f) /\ Usable(d, f) /\ p \in Parents
    BY DEF Grown, Sane
  <1>1. \A j \in 1 .. m : /\ al[j] \in 3 .. CLUSTER_MAP_SIZE - 1 /\ f[al[j]] = 0
                          /\ al[j] \in FatIndex /\ al[j] \in Clusters
                          /\ LiveSlots(d2[al[j]]) = {} /\ ~d2[al[j]].notEmpty
                          /\ d2[al[j]].subdir = en.subdir
    BY GrownFacts
  <1>2. ASSUME NEW s \in Refs(d), NEW j \in 1 .. m PROVE al[j] \notin Path(f, Ref(d, s).cluster)
    <2>1. Stored(d, f, s[1], Ref(d, s)) /\ f[al[j]] = 0
      BY <1>0, <1>1 DEF Usable, AllStored
    <2> QED
      BY <2>1 DEF Stored
  <1>3. \A c \in Clusters : d1[c] = IF c \in C THEN d2[c] ELSE d[c]
    BY DEF Filling
  <1>4. /\ C \in SUBSET (3 .. CLUSTER_MAP_SIZE - 1) /\ \A c \in C : \E j \in 1 .. m : c = al[j]
        /\ \A c \in X : \E j \in 1 .. m : c = al[j]
    BY <1>0, <1>1
  <1>5. DiskLow(d1)
    <2>1. d1 \in [Clusters -> Cluster]
      BY <1>0 DEF Filling, DiskLow, DiskOK
    <2> QED
      BY <1>0, <1>3, <2>1 DEF DiskLow, DiskOK
  <1>6. Taking(d, f, d1, C)
    <2>1. \A c \in C : c \in Clusters /\ f[c] = 0 /\ LiveSlots(d2[c]) = {} /\ ~d2[c].notEmpty
      BY <1>1, <1>4
    <2>2. \A s \in Refs(d) : C \cap Path(f, Ref(d, s).cluster) = {}
      BY <1>2, <1>4
    <2> HIDE DEF C
    <2> QED
      BY <1>3, <2>1, <2>2 DEF Taking
  <1>7. \A c : c \in C <=> \E j \in 1 .. r : al[j] = c
    OBVIOUS
  <1>8. \A c : c \in X <=> \E j \in 1 .. t : al[j] = c
    OBVIOUS
  <1> HIDE DEF C, X
  <1>9. /\ Sane(d1, f, l)
        /\ \A s \in Refs(d1) : s \in Refs(d) /\ Ref(d1, s) = Ref(d, s)
        /\ \A s \in Refs(d) : s[1] \notin C => s \in Refs(d1)
    BY <1>4, <1>5, <1>6, SaneClusters
  <1>10. ChainedTo(f, f1, al, t)
    BY <1>0, MarkingFacts
  <1>11. FatLow(f1) /\ \A c \in FatIndex \ X : f1[c] = f[c]
    BY <1>8, <1>10 DEF ChainedTo
  <1>12. ASSUME NEW j \in 1 .. t PROVE f1[al[j]] # 0 /\ (d1[al[j]].subdir => f1[al[j]] = FAT32_FAT_END_OF_FILE \/ j \in 1 .. r)
    <2>1. f1[al[j]] = IF j = t THEN FAT32_FAT_END_OF_FILE ELSE al[j + 1]
      BY <1>10 DEF ChainedTo
    <2>2. j # t => j + 1 \in 1 .. m /\ j \in 1 .. r
      BY <1>0
    <2>3. FAT32_FAT_END_OF_FILE # 0 /\ \A k \in 1 .. m : al[k] # 0
      BY <1>1, SizeFacts
    <2> QED
      BY <2>1, <2>2, <2>3
  <1>13. ASSUME NEW j \in 1 .. t, d1[al[j]].subdir PROVE f1[al[j]] = FAT32_FAT_END_OF_FILE
    <2>1. j \in 1 .. m /\ 1 \in 1 .. m
      BY <1>0
    <2>2. CASE j \in 1 .. r
      <3>1. d1[al[j]] = d2[al[j]]
        BY <1>1, <1>3, <1>7, <2>1, <2>2
      <3>2. en.subdir
        BY <1>1, <1>13, <2>1, <3>1
      <3>3. m = 1
        <4>0. Stored(d2, f2, p, en)
          BY GrownFacts
        <4>1. \A k \in 1 .. m : al[k] \in Path(f2, en.cluster)
          BY GrownFacts
        <4>2. Path(f2, en.cluster) = {en.cluster}
          BY <3>2, <4>0, FolderPath
        <4>3. \A k \in 1 .. m : al[k] = en.cluster
          BY <4>1, <4>2
        <4>4. m \in 1 .. m
          BY <1>0
        <4> QED
          BY <1>0, <4>3, <4>4, <2>1 DEF Injective
      <3>4. j = t
        BY <1>0, <3>3
      <3> QED
        BY <1>10, <3>4 DEF ChainedTo
    <2>3. CASE j \notin 1 .. r
      BY <1>12, <1>13, <2>3
    <2> QED
      BY <2>2, <2>3
  <1>14. FatSpares(d1, f, f1, X)
    <2>1. \A s \in Refs(d1) : X \cap Path(f, Ref(d1, s).cluster) = {}
      BY <1>2, <1>4, <1>9
    <2>2. \A c \in X : d1[c].subdir => f1[c] = FAT32_FAT_END_OF_FILE
      BY <1>8, <1>13
    <2> QED
      BY <1>11, <2>1, <2>2 DEF FatSpares
  <1>15. \A c \in X : f1[c] # 0
    BY <1>8, <1>12
  <1>16. /\ Sane(d1, f1, l)
         /\ \A s \in Refs(d1) : Path(f1, Ref(d1, s).cluster) = Path(f, Ref(d1, s).cluster)
    BY <1>9, <1>11, <1>14, <1>15, SaneFat
  <1> QED
    BY <1>7, <1>9, <1>16 DEF Older

\* The entry is put into its table.
LEMMA GrownTable ==
    ASSUME NEW d, NEW f, NEW l, Sane(d, f, l), NEW d2, NEW f2, NEW p, NEW i, NEW en, NEW al, NEW m,
           Grown(d, f, d2, f2, p, i, en, al, m),
           NEW d1, d1 = Filling(d, d2, al, m), NEW n, n = <<p, i>>
    PROVE  /\ Sane(d1, f2, l) /\ Older(d, f, d1, f2, al, m)
           /\ Only(d1, d2, p) /\ Usable(d2, f2) /\ Remain(d1, f2, d2, f2, n)
           /\ n \notin Refs(d1) /\ n \in Refs(d2) /\ Ref(d2, n) = en
           /\ d2[p].notEmpty /\ d2[p].subdir
  <1>0. m \in Nat \ {0} /\ al \in [1 .. m -> 3 .. CLUSTER_MAP_SIZE - 1]
        /\ DiskLow(d2) /\ DiskLow(d) /\ f2 = ChainFat(f, al, 0, p)
    BY DEF Grown, Sane
  <1>1. Sane(d1, f2, l) /\ Older(d, f, d1, f2, al, m)
    <2>1. m \in 0 .. m
      BY <1>0
    <2>2. f2 = Marking(f, p, al, m)
      BY <1>0, MarkingAll
    <2> QED
      BY <2>1, <2>2, FillingSane
  <1>2. /\ p \in FatIndex /\ p \in Clusters /\ p # 0 /\ d[p].subdir /\ f[p] # 0
        /\ \A j \in 1 .. m : al[j] # p /\ f[al[j]] = 0
        /\ i \in Slots /\ ~d[p].slots[i].undelete
        /\ Stored(d2, f2, p, en) /\ en.undelete
    BY GrownFacts
  <1>3. \A c \in Clusters : c # p /\ (\A j \in 1 .. m : al[j] # c) => d2[c] = d[c]
    BY GrownFacts
  <1>4. \A c \in Clusters : d1[c] = IF \E j \in 1 .. m : al[j] = c THEN d2[c] ELSE d[c]
    BY DEF Filling
  <1>5. Only(d1, d2, p) /\ d1[p] = d[p]
    BY <1>2, <1>3, <1>4 DEF Only
  <1>6. /\ d2[p].slots = [d[p].slots EXCEPT ![i] = en] /\ d2[p].subdir = d[p].subdir
        /\ d2[p].notEmpty /\ d[p].slots \in [Slots -> Entry]
    <2>1. d2[p] = [d[p] EXCEPT !.notEmpty = TRUE, !.slots = [@ EXCEPT ![i] = en]]
      BY DEF Grown, Added
    <2>2. d[p] \in Cluster
      BY <1>0, <1>2 DEF DiskLow, DiskOK
    <2> QED
      BY <2>1, <2>2 DEF Cluster
  <1>7. n \notin Refs(d1) /\ n \in Refs(d2) /\ Ref(d2, n) = en
    <2>1. n \notin Refs(d1)
      BY <1>2, <1>5 DEF Refs
    <2>2. d2[p].slots[i] = en
      BY <1>2, <1>6
    <2> QED
      BY <1>2, <1>6, <2>1, <2>2 DEF Refs, Ref, Tables
  <1>8. TablePut(d1, d2, p, i)
    BY <1>2, <1>5, <1>6 DEF TablePut, Only
  <1>9. ASSUME NEW s \in Refs(d2), s # n PROVE s \in Refs(d1) /\ Ref(d2, s) = Ref(d1, s)
    <2>1. PICK b \in Clusters, k \in Slots : s = <<b, k>> /\ d2[b].subdir /\ d2[b].slots[k].undelete
      BY DEF Refs, Tables
    <2>2. CASE b = p
      <3>1. k # i
        BY <1>9, <2>1, <2>2
      <3>2. d2[p].slots[k] = d1[p].slots[k]
        BY <1>5, <1>6, <2>1, <3>1
      <3> QED
        BY <1>2, <1>5, <2>1, <2>2, <3>2 DEF Refs, Ref, Tables
    <2>3. CASE b # p
      BY <1>5, <2>1, <2>3 DEF Refs, Ref, Tables, Only
    <2> QED
      BY <2>2, <2>3
  <1>10. NewFits(d1, f2, d2, f2, n)
    <2>1. ASSUME NEW s \in Refs(d2), s # n
          PROVE  Path(f2, en.cluster) \cap Path(f2, Ref(d2, s).cluster) = {}
      <3>1. /\ s \in Refs(d) /\ Ref(d2, s) = Ref(d, s)
            /\ Path(f2, Ref(d2, s).cluster) = Path(f, Ref(d, s).cluster)
        BY <1>1, <1>9, <2>1 DEF Older
      <3>2. \A c \in Path(f, Ref(d, s).cluster) : f[c] # 0
        BY <3>1 DEF Sane, Usable, AllStored, Stored
      <3>3. \A c \in Path(f2, en.cluster) : f[c] = 0
        <4>1. \A c \in Path(f2, en.cluster) : \E j \in 1 .. m : al[j] = c
          BY GrownFacts
        <4> QED
          BY <1>2, <4>1
      <3> QED
        BY <3>1, <3>2, <3>3
    <2>2. ASSUME NEW s \in Refs(d2), s # n, s[1] = p PROVE ~Clash(en, Ref(d2, s))
      <3>1. s \in Refs(d1) /\ Ref(d2, s) = Ref(d1, s)
        BY <1>9, <2>2
      <3>2. s[2] \in LiveSlots(d[p]) /\ Ref(d1, s) = d[p].slots[s[2]]
        BY <1>5, <2>2, <3>1 DEF Refs, Ref, LiveSlots
      <3>3. \A j \in LiveSlots(d[p]) : ~Clash(en, d[p].slots[j])
        BY GrownFacts
      <3> QED
        BY <3>1, <3>2, <3>3
    <2>3. \A s \in Refs(d2) : s # n => Ref(d1, s) = Ref(d2, s)
      BY <1>9
    <2>4. n[1] = p
      OBVIOUS
    <2> QED
      BY <1>2, <1>7, <2>1, <2>2, <2>3, <2>4 DEF NewFits
  <1>11. Usable(d2, f2) /\ Remain(d1, f2, d2, f2, n)
    <2>1. Usable(d1, f2)
      BY <1>1 DEF Sane
    <2> QED
      BY <1>2, <1>8, <1>10, <2>1, TableWritten
  <1> QED
    BY <1>1, <1>2, <1>5, <1>6, <1>7, <1>11

\* Callers know a directory that they can reach.
Attached(d, f, p, l) == l = {} => p = ROOT_CLUSTER_NUMBER \/ Entered(Image(d, f), p)

LEMMA GrownSane ==
    ASSUME NEW d, NEW f, NEW l, Sane(d, f, l), NEW d2, NEW f2, NEW p, NEW i, NEW en, NEW al, NEW m,
           Grown(d, f, d2, f2, p, i, en, al, m), Attached(d, f, p, l)
    PROVE  Sane(d2, f2, l)
  <1> DEFINE n == <<p, i>>
             d1 == Filling(d, d2, al, m)
  <1> HIDE DEF n, d1
  <1>1. /\ Sane(d1, f2, l) /\ Older(d, f, d1, f2, al, m)
        /\ Only(d1, d2, p) /\ Usable(d2, f2) /\ Remain(d1, f2, d2, f2, n)
        /\ n \notin Refs(d1) /\ d2[p].notEmpty /\ d2[p].subdir
    BY GrownTable DEF d1, n
  <1>2. /\ DiskLow(d2) /\ FatLow(f2) /\ p \in FatIndex /\ p \in Clusters
        /\ f[p] # 0 /\ \A j \in 1 .. m : al[j] # p /\ f[al[j]] = 0
    <2>1. DiskLow(d2) /\ FatLow(f2)
      BY DEF Grown
    <2>2. /\ p \in FatIndex /\ p \in Clusters
          /\ f[p] # 0 /\ \A j \in 1 .. m : al[j] # p /\ f[al[j]] = 0
      BY GrownFacts
    <2> QED
      BY <2>1, <2>2
  <1>3. \A c \in FatIndex : (\A j \in 1 .. m : al[j] # c) => f2[c] = f[c]
    BY GrownFacts
  <1>4. \A c \in FatIndex : f[c] # 0 => f2[c] = f[c]
    BY <1>2, <1>3
  <1>5. \A t \in FatIndex : t # p => d2[t] = d1[t]
    BY <1>1, SizeFacts DEF Only
  <1>6. Flags(Image(d2, f2), l)
    BY <1>1, <1>5, FlagsFrame DEF Sane
  <1>7. FreeFlags(Image(d2, f2))
    BY <1>1, <1>2, <1>4, <1>5, FreeFlagsFrame DEF Sane
  <1>8. ASSUME l = {} PROVE Kin(Image(d2, f2))
    <2>1. Kin(Image(d1, f2))
      BY <1>1, <1>8 DEF Sane
    <2>2. ASSUME NEW s \in EntriesOn(Image(d1, f2))
          PROVE  s \in EntriesOn(Image(d2, f2)) /\ Ref(d2, s) = Ref(d1, s)
      <3>1. s \in Refs(d1) /\ s[1] \in FatIndex /\ f2[s[1]] # 0
        BY ImageEntries
      <3>2. s \in Refs(d2) /\ Ref(d2, s) = Ref(d1, s)
        BY <1>1, <3>1 DEF Remain, Still
      <3> QED
        BY <3>1, <3>2, ImageEntries
    <2>3. ASSUME NEW t \in FatIndex \ {ROOT_CLUSTER_NUMBER}, d2[t].subdir, LiveSlots(d2[t]) # {}
          PROVE  f2[t] # 0 /\ (Entered(Image(d1, f2), t) \/ (d1[t].subdir /\ LiveSlots(d1[t]) # {}))
      <3>1. CASE t # p
        BY <1>5, <2>1, <2>3, <3>1, ImageFields DEF Kin
      <3>2. CASE t = p
        <4>1. PICK s \in EntriesOn(Image(d, f)) : Ref(d, s).subdir /\ Ref(d, s).cluster = p
          BY <1>8, <2>3, <3>2, ImageEntries DEF Attached, Entered
        <4>2. s \in Refs(d) /\ s[1] \in FatIndex /\ f[s[1]] # 0
          BY ImageEntries
        <4>3. s \in Refs(d1)
          BY <1>1, <1>2, <4>2 DEF Older
        <4>4. Ref(d1, s) = Ref(d, s) /\ f2[s[1]] # 0
          BY <1>1, <1>4, <4>2, <4>3 DEF Older
        <4>5. Entered(Image(d1, f2), p)
          BY <4>1, <4>2, <4>3, <4>4, ImageEntries DEF Entered
        <4> QED
          BY <1>2, <1>4, <3>2, <4>5
      <3> QED
        BY <3>1, <3>2
    <2> QED
      BY <2>1, <2>2, <2>3, KinFrame
  <1> QED
    BY <1>1, <1>2, <1>6, <1>7, <1>8 DEF Sane

\* A new folder's table is written, and then its entry; it lacks its mark then.
LEMMA FolderEntered ==
    ASSUME NEW d, NEW f, NEW l, Sane(d, f, l), NEW d2, NEW f2, NEW p, NEW i, NEW en, NEW al,
           Grown(d, f, d2, f2, p, i, en, al, 1), Attached(d, f, p, l),
           NEW c, c = al[1], en.subdir, en.cluster = c,
           d2[c] = init_directory_table(en.name, p),
           NEW d1, d1 = Filling(d, d2, al, 1)
    PROVE  /\ Sane(d1, f, l) /\ Fine(Image(d2, f), l)
           /\ OneChange(Image(d1, f), Image(d2, f))
           /\ OneChange(Image(d2, f), Image(d2, f2))
  <1> DEFINE n == <<p, i>>
  <1>0. n[1] = p
    OBVIOUS
  <1> HIDE DEF n
  <1>1. Sane(d1, f, l) /\ Older(d, f, d1, f, al, 1)
    <2>1. f = Marking(f, p, al, 0) /\ 1 \in 0 .. 1 /\ 0 \in 0 .. 1 /\ 0 = 0 /\ 1 = 1
      BY DEF Marking
    <2> QED
      BY <2>1, FillingSane
  <1>2. /\ Older(d, f, d1, f2, al, 1) /\ Sane(d1, f2, l)
        /\ Only(d1, d2, p) /\ Usable(d2, f2) /\ Remain(d1, f2, d2, f2, n)
        /\ n \notin Refs(d1) /\ n \in Refs(d2) /\ Ref(d2, n) = en
    BY GrownTable DEF n
  <1>3. Sane(d2, f2, l)
    <2>1. Grown(d, f, d2, f2, p, i, en, al, 1)
      OBVIOUS
    <2> QED
      BY <2>1, GrownSane
  <1>4. /\ c \in 3 .. CLUSTER_MAP_SIZE - 1 /\ f[c] = 0 /\ c \in FatIndex /\ c \in Clusters /\ c # p
        /\ LiveSlots(d2[c]) = {} /\ ~d2[c].notEmpty
    <2>1. 1 \in 1 .. 1
      OBVIOUS
    <2> QED
      BY <2>1, GrownFacts
  <1>5. p \in FatIndex /\ f[p] # 0 /\ DiskLow(d2) /\ FatLow(f2) /\ FatLow(f)
    <2>1. p \in FatIndex /\ f[p] # 0
      BY GrownFacts
    <2> QED
      BY <1>3, <2>1 DEF Sane
  <1>6. f2 = [f EXCEPT ![c] = FAT32_FAT_END_OF_FILE]
    <2>1. \A b \in FatIndex : b # c => f2[b] = f[b]
      <3>1. \A b \in FatIndex : (\A j \in 1 .. 1 : al[j] # b) => f2[b] = f[b]
        BY GrownFacts
      <3>2. \A j \in 1 .. 1 : j = 1
        OBVIOUS
      <3> QED
        BY <3>1, <3>2
    <2>2. f2[c] = FAT32_FAT_END_OF_FILE
      <3>1. Stored(d2, f2, p, en)
        BY GrownFacts
      <3>2. f2[c] # 0 /\ d2[c].subdir
        BY <3>1, FolderPath
      <3> QED
        BY <1>2, <1>4, <3>2 DEF Usable, OneTable
    <2>3. f \in [FatIndex -> FatValues] /\ f2 \in [FatIndex -> FatValues]
      BY <1>5 DEF FatLow, FatOK
    <2> QED
      BY <1>4, <2>1, <2>2, <2>3
  <1>7. Fine(Image(d2, f), l)
    <2>1. Image(d2, f) \in Platters
      BY <1>5 DEF DiskLow, DiskOK, FatLow, FatOK, Image, Platters
    <2>2. n \in EntriesOn(Image(d2, f)) /\ EntryOn(Image(d2, f), n) = en
      BY <1>0, <1>2, <1>5, ImageEntries
    <2>3. Mends(Image(d2, f), f2)
      <3> DEFINE on == Image(d2, f)
      <3>1. n \in EntriesOn(on) /\ EntryOn(on, n) = en /\ on.fat = f /\ on.clusters = d2
        BY <2>2, ImageFields
      <3> HIDE DEF on
      <3>2. /\ EntryOn(on, n).subdir /\ EntryOn(on, n).cluster = c
            /\ on.fat[c] = 0 /\ on.clusters[c] = init_directory_table(EntryOn(on, n).name, n[1])
            /\ f2 = [on.fat EXCEPT ![c] = FAT32_FAT_END_OF_FILE]
        BY <1>0, <1>4, <1>6, <3>1
      <3>3. Mends(on, f2)
        BY <3>1, <3>2 DEF Mends
      <3> QED
        BY <3>3 DEF on
    <2>4. Nearly(Image(d2, f))
      BY <1>2, <2>3, ImageFields DEF Nearly
    <2>5. Flags(Image(d2, f), l)
      <3>1. Flags(Image(d2, f2), l)
        BY <1>3 DEF Sane
      <3> QED
        BY <3>1, FlagsFrame
    <2>6. FreeFlags(Image(d2, f))
      <3>1. FreeFlags(Image(d2, f2))
        BY <1>3 DEF Sane
      <3>2. \A t \in FatIndex : t # c => f2[t] = f[t]
        BY <1>5, <1>6 DEF FatLow, FatOK
      <3> QED
        <4>1. ASSUME NEW t \in FatIndex, d2[t].subdir, f[t] = 0 PROVE ~d2[t].notEmpty
          <5>1. CASE t = c
            BY <1>4, <5>1
          <5>2. CASE t # c
            BY <3>1, <3>2, <4>1, <5>2, ImageFields DEF FreeFlags
          <5> QED
            BY <5>1, <5>2
        <4> QED
          BY <4>1, ImageFields DEF FreeFlags
    <2>7. ASSUME l = {} PROVE Kin(Image(d2, f))
      <3>1. Kin(Image(d2, f2))
        BY <1>3, <2>7 DEF Sane
      <3>2. \A t \in FatIndex : t # c => f2[t] = f[t]
        BY <1>5, <1>6 DEF FatLow, FatOK
      <3>3. ASSUME NEW s \in EntriesOn(Image(d2, f2))
            PROVE  s \in EntriesOn(Image(d2, f))
        <4>1. s \in Refs(d2) /\ s[1] \in FatIndex /\ f2[s[1]] # 0
          BY ImageEntries
        <4>2. s[1] # c
          BY <1>4, <4>1 DEF Refs, LiveSlots
        <4> QED
          BY <3>2, <4>1, <4>2, ImageEntries
      <3>4. ASSUME NEW t \in FatIndex \ {ROOT_CLUSTER_NUMBER}, d2[t].subdir, LiveSlots(d2[t]) # {}
            PROVE  f[t] # 0 /\ d2[t].subdir /\ LiveSlots(d2[t]) # {}
        <4>1. f2[t] # 0 /\ t # c
          BY <1>4, <3>1, <3>4, ImageFields DEF Kin
        <4> QED
          BY <3>2, <3>4, <4>1
      <3> QED
        BY <3>1, <3>3, <3>4, KinFrame
    <2> QED
      BY <1>5, <2>1, <2>4, <2>5, <2>6, <2>7, ImageFields DEF Fine
  <1>8. \A s \in Refs(d1) : /\ s # n /\ s \in Refs(d2) /\ Still(d1, f2, d2, f2, s)
                            /\ Path(f2, Ref(d1, s).cluster) = Path(f, Ref(d1, s).cluster)
    BY <1>2 DEF Remain, Older
  <1>9. \A s \in Refs(d1) : Still(d1, f, d2, f, s)
    BY <1>8 DEF Still
  <1>10. OneChange(Image(d1, f), Image(d2, f))
    <2>1. \A s \in EntriesOn(Image(d1, f)) : s \in EntriesOn(Image(d2, f)) /\ Still(d1, f, d2, f, s)
      BY <1>8, <1>9, ImageEntries
    <2> QED
      BY <2>1, ImageFields DEF OneChange
  <1>11. OneChange(Image(d2, f), Image(d2, f2))
    <2>1. ASSUME NEW s \in EntriesOn(Image(d2, f)), s # n
          PROVE  s \in EntriesOn(Image(d2, f2)) /\ Still(d2, f, d2, f2, s)
      <3>1. s \in Refs(d2) /\ s[1] \in FatIndex /\ f[s[1]] # 0
        BY ImageEntries
      <3>2. s \in Refs(d1)
        BY <1>2, <2>1, <3>1 DEF Remain
      <3>3. Ref(d2, s) = Ref(d1, s)
        BY <1>9, <3>2 DEF Still
      <3>4. \A b \in Path(f, Ref(d2, s).cluster) : f[b] # 0 /\ b \in 3 .. CLUSTER_MAP_SIZE - 1
        BY <1>1, <3>2, <3>3 DEF Sane, Usable, AllStored, Stored
      <3>5. \A b \in FatIndex : f[b] # 0 => f2[b] = f[b]
        BY <1>4, <1>5, <1>6 DEF FatLow, FatOK
      <3>6. \A b \in Path(f, Ref(d2, s).cluster) : f2[b] = f[b]
        BY <3>4, <3>5 DEF FatIndex
      <3> QED
        BY <3>1, <3>5, <3>6, ImageEntries DEF Still
    <2>2. EntryOn(Image(d2, f2), n).subdir
      BY <1>2, ImageEntries
    <2>3. \A s \in EntriesOn(Image(d2, f)) :
             \/ s \in EntriesOn(Image(d2, f2)) /\ Still(d2, f, d2, f2, s)
             \/ s = n /\ (s \notin EntriesOn(Image(d2, f2)) \/ EntryOn(Image(d2, f2), s).subdir)
      BY <2>1, <2>2
    <2> QED
      BY <2>3, ImageFields DEF OneChange
  <1> QED
    BY <1>1, <1>7, <1>10, <1>11

LEMMA FolderRuns ==
    ASSUME NEW d, NEW f, NEW l, Sane(d, f, l), NEW d2, NEW f2, NEW p, NEW i, NEW en, NEW al,
           Grown(d, f, d2, f2, p, i, en, al, 1), Attached(d, f, p, l),
           NEW c, c = al[1], en.subdir, en.cluster = c,
           d2[c] = init_directory_table(en.name, p)
    PROVE  Runs(Image(d, f), <<Put(c, d2[c]), Put(p, d2[p]), Put(FAT_CLUSTER_NUMBER, f2)>>, d2, f2, l)
  <1> DEFINE d1 == Filling(d, d2, al, 1)
             w1 == Put(c, d2[c])
             w2 == Put(p, d2[p])
             w3 == Put(FAT_CLUSTER_NUMBER, f2)
  <1>1. \A b \in Clusters : d1[b] = IF b = c THEN d2[b] ELSE d[b]
    <2>1. \A j \in 1 .. 1 : j = 1
      OBVIOUS
    <2>2. 1 \in 1 .. 1
      OBVIOUS
    <2> QED
      BY <2>1, <2>2 DEF Filling
  <1> HIDE DEF d1, w1, w2, w3
  <1>2. /\ Sane(d1, f, l) /\ Fine(Image(d2, f), l)
        /\ OneChange(Image(d1, f), Image(d2, f)) /\ OneChange(Image(d2, f), Image(d2, f2))
    <2>1. d1 = Filling(d, d2, al, 1)
      BY DEF d1
    <2> QED
      BY <2>1, FolderEntered
  <1>3. Only(d1, d2, p)
    <2> DEFINE n == <<p, i>>
    <2> HIDE DEF n
    <2>1. Only(d1, d2, p) /\ n \notin Refs(d1)
      BY GrownTable DEF d1, n
    <2> QED
      BY <2>1
  <1>4. Sane(d2, f2, l)
    <2>1. Grown(d, f, d2, f2, p, i, en, al, 1)
      OBVIOUS
    <2> QED
      BY <2>1, GrownSane
  <1>5. /\ c \in 3 .. CLUSTER_MAP_SIZE - 1 /\ f[c] = 0 /\ c \in FatIndex /\ c \in Clusters /\ c # p
        /\ LiveSlots(d2[c]) = {} /\ ~d2[c].notEmpty
    <2>1. 1 \in 1 .. 1
      OBVIOUS
    <2> QED
      BY <2>1, GrownFacts
  <1>6. p \in Clusters /\ p # 0 /\ p # 1
    BY GrownFacts
  <1>7. d \in Disk /\ d1 \in Disk /\ d2 \in Disk
    BY <1>2, <1>4 DEF Sane, DiskLow, DiskOK, Disk
  <1>8. Image(d1, f) = Written(Image(d, f), w1)
    <2>1. Only(d, d1, c) /\ d1[c] = d2[c]
      BY <1>1, <1>5 DEF Only
    <2>2. c # 0 /\ c # 1
      BY <1>5
    <2>3. Image(d1, f) = Written(Image(d, f), Put(c, d1[c]))
      BY <1>5, <1>7, <2>1, <2>2, ClusterPut
    <2> QED
      BY <2>1, <2>3 DEF w1
  <1>9. OneChange(Image(d, f), Image(d1, f))
    <2>1. Only(d, d1, c) /\ d1[c] = d2[c]
      BY <1>1, <1>5 DEF Only
    <2>2. ASSUME NEW s \in Refs(d) PROVE c \notin Path(f, Ref(d, s).cluster)
      BY <1>5 DEF Sane, Usable, AllStored, Stored
    <2>3. d[c].subdir => ~d[c].notEmpty
      BY <1>5, ImageFields DEF Sane, FreeFlags
    <2>4. LiveSlots(d1[c]) = {} /\ f[c] \in {0, FAT32_FAT_END_OF_FILE}
      BY <1>5, <2>1
    <2>5. LiveSlots(d1[c]) = {} /\ (d1[c].subdir => f[c] \in {0, FAT32_FAT_END_OF_FILE})
          /\ c \in 3 .. CLUSTER_MAP_SIZE - 1 /\ Only(d, d1, c)
      BY <1>5, <2>1, <2>4
    <2> QED
      BY <2>2, <2>3, <2>5, ClusterChange
  <1>10. Image(d2, f) = Written(Image(d1, f), w2)
    BY <1>3, <1>6, <1>7, ClusterPut DEF w2
  <1>11. Image(d2, f2) = Written(Image(d2, f), w3)
    BY ImageFields DEF w3
  <1>12. /\ Fine(Image(d, f), l) /\ Fine(Image(d1, f), l) /\ Fine(Image(d2, f2), l)
    BY <1>2, <1>4, SaneFine
  <1>13. /\ Prefixed(w3, <<>>, <<w3>>) /\ Prefixed(w2, <<w3>>, <<w2, w3>>)
         /\ Prefixed(w1, <<w2, w3>>, <<w1, w2, w3>>)
    BY Prefixes
  <1>14. Runs(Image(d2, f2), <<>>, d2, f2, l)
    BY <1>12, RunsNil, ImageFields
  <1>15. Runs(Image(d2, f), <<w3>>, d2, f2, l)
    BY <1>2, <1>11, <1>13, <1>14, RunsCons
  <1>16. Runs(Image(d1, f), <<w2, w3>>, d2, f2, l)
    BY <1>2, <1>10, <1>12, <1>13, <1>15, RunsCons
  <1>17. Runs(Image(d, f), <<w1, w2, w3>>, d2, f2, l)
    BY <1>8, <1>9, <1>12, <1>13, <1>16, RunsCons
  <1> QED
    BY <1>17 DEF w1, w2, w3

\* A cluster is marked in the FAT and linked to the one before.
LEMMA MarkStep ==
    ASSUME NEW d, NEW f, NEW l, Sane(d, f, l), NEW d2, NEW f2, NEW p, NEW i, NEW en, NEW al, NEW m,
           Grown(d, f, d2, f2, p, i, en, al, m), NEW r \in 0 .. m - 1,
           NEW d1, d1 = Filling(d, d2, al, r), NEW f1, f1 = Marking(f, p, al, r),
           NEW g, g = Marking(f, p, al, r + 1)
    PROVE  /\ Sane(d1, f1, l) /\ Sane(d1, g, l)
           /\ Image(d1, g) = Written(Image(d1, f1), Put(FAT_CLUSTER_NUMBER, g))
           /\ OneChange(Image(d1, f1), Image(d1, g))
  <1>0. /\ m \in Nat \ {0} /\ al \in [1 .. m -> 3 .. CLUSTER_MAP_SIZE - 1] /\ Injective(al, m)
        /\ p \in Parents /\ FatLow(f)
        /\ r \in 0 .. m /\ r + 1 \in 0 .. m
    <2>1. /\ m \in Nat \ {0} /\ al \in [1 .. m -> 3 .. CLUSTER_MAP_SIZE - 1] /\ Injective(al, m)
          /\ p \in Parents /\ FatLow(f)
      BY DEF Grown, Sane
    <2> QED
      BY <2>1
  <1>1. \A j \in 1 .. m : f[al[j]] = 0 /\ al[j] \in 3 .. CLUSTER_MAP_SIZE - 1
    BY GrownFacts
  <1>2. Sane(d1, f1, l) /\ Older(d, f, d1, f1, al, r)
    BY <1>0, FillingSane
  <1>3. Sane(d1, g, l)
    BY <1>0, FillingSane
  <1>4. ChainedTo(f, f1, al, r) /\ ChainedTo(f, g, al, r + 1)
    BY <1>0, MarkingFacts
  <1>5. \A c \in FatIndex : f[c] # 0 => f1[c] = f[c] /\ g[c] = f[c]
    <2> SUFFICES ASSUME NEW c \in FatIndex, f[c] # 0 PROVE f1[c] = f[c] /\ g[c] = f[c]
      OBVIOUS
    <2>1. \A j \in 1 .. m : al[j] # c
      BY <1>1
    <2>2. /\ \A j \in 1 .. r : al[j] # c
          /\ \A j \in 1 .. r + 1 : al[j] # c
      BY <1>0, <2>1
    <2> QED
      BY <1>4, <2>2 DEF ChainedTo
  <1>6. \A c \in FatIndex : f1[c] # 0 => g[c] # 0
    <2> SUFFICES ASSUME NEW c \in FatIndex, f1[c] # 0, f[c] = 0 PROVE g[c] # 0
      BY <1>5
    <2>1. PICK j \in 1 .. r : al[j] = c
      BY <1>4 DEF ChainedTo
    <2>2. j \in 1 .. r + 1 /\ j # r + 1 /\ j + 1 \in 1 .. m
      BY <1>0
    <2>3. g[al[j]] = al[j + 1]
      BY <1>4, <2>2 DEF ChainedTo
    <2> QED
      BY <1>1, <2>1, <2>2, <2>3
  <1>7. \A s \in Refs(d1) : Still(d1, f1, d1, g, s)
    <2> SUFFICES ASSUME NEW s \in Refs(d1) PROVE Still(d1, f1, d1, g, s)
      OBVIOUS
    <2>1. /\ s \in Refs(d) /\ Ref(d1, s) = Ref(d, s)
          /\ Path(f1, Ref(d, s).cluster) = Path(f, Ref(d, s).cluster)
      BY <1>2 DEF Older
    <2>2. \A c \in Path(f, Ref(d, s).cluster) : f[c] # 0 /\ c \in 3 .. CLUSTER_MAP_SIZE - 1
      BY <2>1 DEF Sane, Usable, AllStored, Stored
    <2>3. \A c \in Path(f, Ref(d, s).cluster) : f[c] # 0 /\ c \in FatIndex
      BY <2>2, SizeFacts DEF FatIndex
    <2>4. \A c \in Path(f1, Ref(d1, s).cluster) : g[c] = f1[c]
      BY <1>5, <2>1, <2>3
    <2> QED
      BY <2>4 DEF Still
  <1>8. OneChange(Image(d1, f1), Image(d1, g))
    <2>1. \A s \in EntriesOn(Image(d1, f1)) : g[s[1]] # 0
      BY <1>6, ImageEntries
    <2> QED
      BY <1>7, <2>1, FatChange
  <1> QED
    BY <1>2, <1>3, <1>8, ImageFields

\* It is written.
LEMMA FillStep ==
    ASSUME NEW d, NEW f, NEW l, Sane(d, f, l), NEW d2, NEW f2, NEW p, NEW i, NEW en, NEW al, NEW m,
           Grown(d, f, d2, f2, p, i, en, al, m), NEW r \in 1 .. m,
           NEW d0, d0 = Filling(d, d2, al, r - 1), NEW d1, d1 = Filling(d, d2, al, r),
           NEW f1, f1 = Marking(f, p, al, r)
    PROVE  /\ Sane(d0, f1, l) /\ Sane(d1, f1, l)
           /\ Image(d1, f1) = Written(Image(d0, f1), Put(al[r], d2[al[r]]))
           /\ OneChange(Image(d0, f1), Image(d1, f1))
  <1> DEFINE c == al[r]
  <1>0. /\ m \in Nat \ {0} /\ al \in [1 .. m -> 3 .. CLUSTER_MAP_SIZE - 1] /\ Injective(al, m)
        /\ p \in Parents /\ FatLow(f)
        /\ r \in 0 .. m /\ r - 1 \in 0 .. m /\ (r - 1) + 1 = r
    <2>1. /\ m \in Nat \ {0} /\ al \in [1 .. m -> 3 .. CLUSTER_MAP_SIZE - 1] /\ Injective(al, m)
          /\ p \in Parents /\ FatLow(f)
      BY DEF Grown, Sane
    <2> QED
      BY <2>1
  <1>1. /\ c \in 3 .. CLUSTER_MAP_SIZE - 1 /\ f[c] = 0 /\ c \in FatIndex /\ c \in Clusters
        /\ LiveSlots(d2[c]) = {} /\ ~d2[c].notEmpty
    BY GrownFacts
  <1>2. Sane(d0, f1, l) /\ Older(d, f, d0, f1, al, r - 1)
    BY <1>0, FillingSane
  <1>3. Sane(d1, f1, l)
    BY <1>0, FillingSane
  <1>4. f1[c] = FAT32_FAT_END_OF_FILE
    <2>1. ChainedTo(f, f1, al, r) /\ r \in 1 .. r
      BY <1>0, MarkingFacts
    <2> QED
      BY <2>1 DEF ChainedTo
  <1>5. /\ \A b \in Clusters : d0[b] = IF \E j \in 1 .. r - 1 : al[j] = b THEN d2[b] ELSE d[b]
        /\ \A b \in Clusters : d1[b] = IF \E j \in 1 .. r : al[j] = b THEN d2[b] ELSE d[b]
    BY DEF Filling
  <1>6. Only(d0, d1, c) /\ d0[c] = d[c] /\ d1[c] = d2[c]
    <2>1. \A j \in 1 .. r - 1 : j \in 1 .. m /\ j # r /\ j \in 1 .. r
      BY <1>0
    <2>2. \A j \in 1 .. r : j = r \/ j \in 1 .. r - 1
      BY <1>0
    <2>3. \A j \in 1 .. r - 1 : al[j] # c
      BY <1>0, <2>1 DEF Injective
    <2>4. r \in 1 .. r
      BY <1>0
    <2>5. d0[c] = d[c] /\ d1[c] = d2[c]
      BY <1>1, <1>5, <2>3, <2>4
    <2>6. ASSUME NEW b \in Clusters, b # c PROVE d1[b] = d0[b]
      BY <1>5, <2>1, <2>2, <2>6
    <2> QED
      BY <2>5, <2>6 DEF Only
  <1> HIDE DEF c
  <1>7. Image(d1, f1) = Written(Image(d0, f1), Put(c, d2[c]))
    <2>1. d0 \in Disk /\ d1 \in Disk
      BY <1>2, <1>3 DEF Sane, DiskLow, DiskOK, Disk
    <2>2. c # 0 /\ c # 1
      BY <1>1
    <2>3. Image(d1, f1) = Written(Image(d0, f1), Put(c, d1[c]))
      BY <1>1, <1>6, <2>1, <2>2, ClusterPut
    <2> QED
      BY <1>6, <2>3
  <1>8. OneChange(Image(d0, f1), Image(d1, f1))
    <2>1. ASSUME NEW s \in Refs(d0) PROVE c \notin Path(f1, Ref(d0, s).cluster)
      <3>1. /\ s \in Refs(d) /\ Ref(d0, s) = Ref(d, s)
            /\ Path(f1, Ref(d, s).cluster) = Path(f, Ref(d, s).cluster)
        BY <1>2 DEF Older
      <3>2. \A b \in Path(f, Ref(d, s).cluster) : f[b] # 0
        BY <3>1 DEF Sane, Usable, AllStored, Stored
      <3> QED
        BY <1>1, <3>1, <3>2
    <2>2. d0[c].subdir => ~d0[c].notEmpty
      BY <1>1, <1>6, ImageFields DEF Sane, FreeFlags
    <2>3. LiveSlots(d1[c]) = {} /\ (d1[c].subdir => f1[c] \in {0, FAT32_FAT_END_OF_FILE})
          /\ c \in 3 .. CLUSTER_MAP_SIZE - 1 /\ Only(d0, d1, c) /\ Sane(d0, f1, l)
      BY <1>1, <1>2, <1>4, <1>6
    <2> QED
      BY <2>1, <2>2, <2>3, ClusterChange
  <1> QED
    BY <1>2, <1>3, <1>7, <1>8 DEF c

\* And in the end the entry is.
LEMMA EnterStep ==
    ASSUME NEW d, NEW f, NEW l, Sane(d, f, l), NEW d2, NEW f2, NEW p, NEW i, NEW en, NEW al, NEW m,
           Grown(d, f, d2, f2, p, i, en, al, m), Attached(d, f, p, l),
           NEW d1, d1 = Filling(d, d2, al, m)
    PROVE  /\ Sane(d1, f2, l) /\ Sane(d2, f2, l)
           /\ Image(d2, f2) = Written(Image(d1, f2), Put(p, d2[p]))
           /\ OneChange(Image(d1, f2), Image(d2, f2))
  <1> DEFINE n == <<p, i>>
  <1> HIDE DEF n
  <1>1. /\ Sane(d1, f2, l) /\ Only(d1, d2, p) /\ Remain(d1, f2, d2, f2, n) /\ n \notin Refs(d1)
    BY GrownTable DEF n
  <1>2. Sane(d2, f2, l)
    BY GrownSane
  <1>3. p \in Clusters /\ p # 0 /\ p # 1
    BY GrownFacts
  <1>4. d1 \in Disk /\ d2 \in Disk
    BY <1>1, <1>2 DEF Sane, DiskLow, DiskOK, Disk
  <1>5. Image(d2, f2) = Written(Image(d1, f2), Put(p, d2[p]))
    BY <1>1, <1>3, <1>4, ClusterPut
  <1>6. OneChange(Image(d1, f2), Image(d2, f2))
    BY <1>1, TableChange
  <1> QED
    BY <1>1, <1>2, <1>5, <1>6

\* Before each fragment its cluster is marked.
FileSteps(f, d2, p, al, m) ==
    [j \in 1 .. 2 * m + 1 |->
        IF j > 2 * m THEN Put(p, d2[p])
        ELSE IF j % 2 = 1 THEN Put(FAT_CLUSTER_NUMBER, ChainFat(f, SubSeq(al, 1, (j + 1) \div 2), 0, p))
        ELSE Put(al[j \div 2], d2[al[j \div 2]])]

LEMMA Halves ==
    ASSUME NEW j \in Nat
    PROVE  \E r \in Nat :
              \/ j = 2 * r /\ j % 2 = 0 /\ j \div 2 = r /\ (j + 1) \div 2 = r
              \/ j = 2 * r + 1 /\ j % 2 = 1 /\ j \div 2 = r /\ (j + 1) \div 2 = r + 1
  <1>1. j \div 2 \in Nat /\ (j = 2 * (j \div 2) \/ j = 2 * (j \div 2) + 1)
    OBVIOUS
  <1> DEFINE r == j \div 2
  <1>2. CASE j = 2 * r
    <2>1. j % 2 = 0 /\ (j + 1) \div 2 = r
      BY <1>2
    <2> QED
      BY <1>1, <1>2, <2>1
  <1>3. CASE j = 2 * r + 1
    <2>1. j % 2 = 1 /\ (j + 1) \div 2 = r + 1
      BY <1>3
    <2> QED
      BY <1>1, <1>3, <2>1
  <1> QED
    BY <1>1, <1>2, <1>3

LEMMA FileRuns ==
    ASSUME NEW d, NEW f, NEW l, Sane(d, f, l), NEW d2, NEW f2, NEW p, NEW i, NEW en, NEW al, NEW m,
           Grown(d, f, d2, f2, p, i, en, al, m), Attached(d, f, p, l),
           NEW ws, ws = FileSteps(f, d2, p, al, m)
    PROVE  Runs(Image(d, f), ws, d2, f2, l)
  <1> DEFINE D(r) == Filling(d, d2, al, r)
             F(r) == Marking(f, p, al, r)
             n == 2 * m + 1
             st == [j \in 1 .. 2 * m + 2 |->
                      IF j = 2 * m + 2 THEN Image(d2, f2) ELSE Image(D((j - 1) \div 2), F(j \div 2))]
  <1>0. /\ m \in Nat \ {0} /\ al \in [1 .. m -> 3 .. CLUSTER_MAP_SIZE - 1] /\ n \in Nat /\ n = 2 * m + 1
        /\ d \in [Clusters -> Cluster] /\ f2 = ChainFat(f, al, 0, p)
    BY DEF Grown, Sane, DiskLow, DiskOK
  <1>1. /\ st[2 * m + 2] = Image(d2, f2)
        /\ \A j \in 1 .. 2 * m + 1 : st[j] = Image(D((j - 1) \div 2), F(j \div 2))
    BY <1>0
  <1>2. F(0) = f /\ \A r \in 1 .. m : F(r) = ChainFat(f, SubSeq(al, 1, r), 0, p)
    BY DEF Marking
  <1>3. F(m) = f2
    BY <1>0, MarkingAll
  <1>4. D(0) = d
    <2>1. \A b \in Clusters : D(0)[b] = d[b]
      BY DEF Filling
    <2> QED
      BY <1>0, <2>1 DEF Filling
  <1>5. /\ \A j \in 1 .. 2 * m : j % 2 = 1 =>
              ws[j] = Put(FAT_CLUSTER_NUMBER, ChainFat(f, SubSeq(al, 1, (j + 1) \div 2), 0, p))
        /\ \A j \in 1 .. 2 * m : j % 2 = 0 => ws[j] = Put(al[j \div 2], d2[al[j \div 2]])
        /\ ws[2 * m + 1] = Put(p, d2[p])
        /\ ws = [j \in 1 .. n |-> ws[j]]
    BY <1>0 DEF FileSteps
  <1>6. ASSUME NEW r \in 0 .. m - 1
        PROVE  /\ Sane(D(r), F(r), l) /\ Sane(D(r), F(r + 1), l)
               /\ Image(D(r), F(r + 1)) = Written(Image(D(r), F(r)), Put(FAT_CLUSTER_NUMBER, F(r + 1)))
               /\ OneChange(Image(D(r), F(r)), Image(D(r), F(r + 1)))
    BY MarkStep
  <1>7. ASSUME NEW r \in 1 .. m
        PROVE  /\ Sane(D(r), F(r), l)
               /\ Image(D(r), F(r)) = Written(Image(D(r - 1), F(r)), Put(al[r], d2[al[r]]))
               /\ OneChange(Image(D(r - 1), F(r)), Image(D(r), F(r)))
    BY FillStep
  <1>8. /\ Sane(D(m), f2, l) /\ Sane(d2, f2, l)
        /\ Image(d2, f2) = Written(Image(D(m), f2), Put(p, d2[p]))
        /\ OneChange(Image(D(m), f2), Image(d2, f2))
    BY EnterStep
  <1> HIDE DEF D, F, st
  <1>9. st[1] = Image(d, f)
    <2>1. 1 \in 1 .. 2 * m + 1 /\ (1 - 1) \div 2 = 0 /\ 1 \div 2 = 0
      BY <1>0
    <2> QED
      BY <1>1, <1>2, <1>4, <2>1
  <1>10. ASSUME NEW j \in 1 .. n
         PROVE  st[j + 1] = Written(st[j], ws[j]) /\ OneChange(st[j], st[j + 1]) /\ Fine(st[j], l)
    <2>1. PICK r \in Nat :
              \/ j = 2 * r /\ j % 2 = 0 /\ j \div 2 = r /\ (j + 1) \div 2 = r
              \/ j = 2 * r + 1 /\ j % 2 = 1 /\ j \div 2 = r /\ (j + 1) \div 2 = r + 1
      <3>1. j \in Nat
        BY <1>0
      <3> QED
        BY <3>1, Halves
    <2>2. CASE j = 2 * m + 1
      <3>1. r = m
        BY <1>0, <2>1, <2>2
      <3>2. (j - 1) \div 2 = m /\ j \div 2 = m /\ j + 1 = 2 * m + 2 /\ j \in 1 .. 2 * m + 1
        BY <1>0, <2>2
      <3>3. st[j] = Image(D(m), f2) /\ st[j + 1] = Image(d2, f2)
        BY <1>1, <1>3, <3>2
      <3> QED
        BY <1>5, <1>8, <2>2, <3>3, SaneFine
    <2>3. CASE j # 2 * m + 1 /\ j = 2 * r + 1
      <3>1. r \in 0 .. m - 1 /\ j \in 1 .. 2 * m /\ j \in 1 .. 2 * m + 1 /\ j + 1 \in 1 .. 2 * m + 1
        BY <1>0, <2>3
      <3>2. (j - 1) \div 2 = r /\ j \div 2 = r /\ (j + 1 - 1) \div 2 = r /\ (j + 1) \div 2 = r + 1
            /\ j % 2 = 1 /\ r + 1 \in 1 .. m
        <4>1. j - 1 = 2 * r /\ j + 1 - 1 = j /\ r + 1 \in 1 .. m
          BY <1>0, <2>3, <3>1
        <4>2. (2 * r) \div 2 = r
          OBVIOUS
        <4>3. j % 2 = 1 /\ j \div 2 = r /\ (j + 1) \div 2 = r + 1
          BY <2>1, <2>3
        <4> QED
          BY <4>1, <4>2, <4>3
      <3>3. st[j] = Image(D(r), F(r)) /\ st[j + 1] = Image(D(r), F(r + 1))
        BY <1>1, <3>1, <3>2
      <3>4. ws[j] = Put(FAT_CLUSTER_NUMBER, F(r + 1))
        BY <1>2, <1>5, <3>1, <3>2
      <3> QED
        BY <1>6, <3>1, <3>3, <3>4, SaneFine
    <2>4. CASE j # 2 * m + 1 /\ j = 2 * r
      <3>1. r \in 1 .. m /\ r - 1 \in 0 .. m - 1 /\ j \in 1 .. 2 * m /\ j \in 1 .. 2 * m + 1
            /\ j + 1 \in 1 .. 2 * m + 1 /\ (r - 1) + 1 = r
        BY <1>0, <2>4
      <3>2. (j - 1) \div 2 = r - 1 /\ j \div 2 = r /\ (j + 1 - 1) \div 2 = r /\ (j + 1) \div 2 = r
            /\ j % 2 = 0
        BY <2>4, <3>1
      <3>3. st[j] = Image(D(r - 1), F(r)) /\ st[j + 1] = Image(D(r), F(r))
        BY <1>1, <3>1, <3>2
      <3>4. ws[j] = Put(al[r], d2[al[r]])
        BY <1>5, <3>1, <3>2
      <3>5. Sane(D(r - 1), F((r - 1) + 1), l)
        BY <1>6, <3>1
      <3>6. Sane(D(r - 1), F(r), l)
        BY <3>1, <3>5
      <3> QED
        BY <1>7, <3>1, <3>3, <3>4, <3>6, SaneFine
    <2> QED
      BY <2>1, <2>2, <2>3, <2>4
  <1>11. \A j \in 1 .. n + 1 : Fine(st[j], l)
    <2>1. Fine(st[2 * m + 2], l)
      BY <1>1, <1>8, SaneFine
    <2>2. \A j \in 1 .. n + 1 : j \in 1 .. n \/ j = 2 * m + 2
      BY <1>0
    <2> QED
      BY <1>10, <2>1, <2>2
  <1>12. st[n + 1].clusters = d2 /\ st[n + 1].fat = f2
    <2>1. n + 1 = 2 * m + 2
      BY <1>0
    <2> QED
      BY <1>1, <2>1, ImageFields
  <1> HIDE DEF n
  <1> QED
    BY <1>0, <1>5, <1>9, <1>10, <1>11, <1>12 DEF Runs


-----------------------------------------------------------------------------
(***************************************************************************)
(* The calls                                                               *)
(***************************************************************************)
\* What findEmptyCluster returns time after time is determined by the FAT.
LEMMA FirstFitUnique ==
    ASSUME NEW f, NEW m \in Nat, NEW S, NEW al \in [1 .. m -> S], NEW be \in [1 .. m -> S],
           FirstFit(f, al), FirstFit(f, be)
    PROVE  al = be
  <1> DEFINE D == {i \in 1 .. m : al[i] # be[i]}
  <1>1. CASE D = {}
    BY <1>1
  <1>2. CASE D # {}
    <2>1. D \in SUBSET Nat
      OBVIOUS
    <2> HIDE DEF D
    <2>2. PICK i \in D : \A x \in D : i <= x
      BY <1>2, <2>1, MinNat
    <2>3. i \in 1 .. m /\ al[i] # be[i] /\ \A j \in 1 .. i - 1 : al[j] = be[j]
      BY <2>2 DEF D
    <2>4. {al[j] : j \in 1 .. i - 1} = {be[j] : j \in 1 .. i - 1}
      BY <2>3
    <2>5. al[i] = findEmptyCluster(f, {al[j] : j \in 1 .. i - 1})
      BY <2>3 DEF FirstFit
    <2>6. be[i] = findEmptyCluster(f, {be[j] : j \in 1 .. i - 1})
      BY <2>3 DEF FirstFit
    <2> QED
      BY <2>3, <2>4, <2>5, <2>6
  <1> QED
    BY <1>1, <1>2

\* The driver before a call.
Ready == Base /\ IInv /\ Fit /\ Sane(disk, diskFat, limits) /\ platter = Image(disk, diskFat)

LEMMA ReadyNow ==
    ASSUME PInv, writes = <<>>, formatted, Torn(platter) = {}, Breaches \subseteq {"moved"}
    PROVE  Ready
  <1>1. Runs(platter, writes, disk, diskFat, limits)
    BY DEF PInv
  <1>2. Fine(platter, limits) /\ platter.clusters = disk /\ platter.fat = diskFat
    BY <1>1, RunsNow
  <1>3. Usable(disk, diskFat)
    <2>1. Usable(platter.clusters, platter.fat)
      BY <1>2, NoneTorn
    <2> QED
      BY <1>2, <2>1
  <1>4. platter = Image(disk, diskFat)
    <2> DEFINE b == TRUE
    <2>1. platter \in Platters /\ platter.signed = b
      BY <1>2 DEF Fine, Platters
    <2>2. Image(disk, diskFat) = [signed |-> b, fat |-> diskFat, clusters |-> disk]
      BY DEF Image
    <2> HIDE DEF b
    <2>3. platter = [signed |-> b, fat |-> diskFat, clusters |-> disk]
      BY <1>2, <2>1 DEF Platters
    <2> QED
      BY <2>2, <2>3
  <1>5. DiskLow(disk) /\ FatLow(diskFat)
    BY <1>2 DEF Fine
  <1>6. Base /\ IInv /\ Fit
    <2>1. Room = Low
      BY DEF Room, Low, PInv
    <2>2. Base
      BY <1>5, <2>1, LowIn DEF PInv, Base, Held
    <2> QED
      BY <1>3, <1>5, <2>2 DEF PInv, IInv, Fit, DiskLow, FatLow
  <1>7. Sane(disk, diskFat, limits)
    <2>1. /\ limits = {} => Kin(platter)
          /\ Flags(platter, limits) /\ FreeFlags(platter)
      BY <1>2 DEF Fine
    <2> QED
      BY <1>3, <1>4, <1>5, <2>1 DEF Sane
  <1> QED
    BY <1>4, <1>6, <1>7 DEF Ready

\* What is known of a call that stays within the limits but for move_dir.
Legal == Base' /\ limits \subseteq limits' /\ Breaches \subseteq {"moved"}

LEMMA LegalFacts ==
    ASSUME Ready, Legal
    PROVE  /\ Within' /\ DiskLow(disk') /\ FatLow(diskFat')
           /\ Sane(disk, diskFat, limits')
           /\ limits \subseteq {"moved"}
  <1>1. limits' \subseteq {"moved"} /\ limits \subseteq {"moved"}
    BY DEF Legal, Base, Held, IInv, Ready
  <1>2. limits' = {} => limits = {}
    BY DEF Legal
  <1>3. Sane(disk, diskFat, limits')
    BY <1>2, SaneLater DEF Ready
  <1>4. Room' = Low
    BY <1>1 DEF Room, Low
  <1>5. DiskLow(disk') /\ FatLow(diskFat')
    BY <1>4, LowIn DEF Legal, Base, Held
  <1> QED
    BY <1>1, <1>3, <1>5 DEF Within

LEMMA KnownAttached ==
    ASSUME Ready, NEW p \in Known, NEW l
    PROVE  p \in Parents /\ Attached(disk, diskFat, p, l)
  BY DEF Known, Ready, Attached

LEMMA DeleteRuns ==
    ASSUME Ready, Legal, NEW p \in Parents, NEW n, NEW e, Delete(p, n, e), writes' # <<>>
    PROVE  fat_table' = diskFat' /\ Runs(platter, writes', disk', diskFat', limits')
  <1>1. ~Unchanged /\ writes' = <<Put(p, disk'[p]), Put(FAT_CLUSTER_NUMBER, diskFat')>>
    BY DEF Delete, DeleteWrites, Table, Fat
  <1>2. delete(p, n, e) /\ IInv /\ Fit
    BY DEF Delete, Ready
  <1>3. ~Same
    BY <1>1 DEF Same, Unchanged
  <1>4. fat_table' = diskFat' /\ \E i : Removed(disk, diskFat, disk', diskFat', p, i)
    BY <1>2, <1>3, deleteGood
  <1>5. PICK i : Removed(disk, diskFat, disk', diskFat', p, i)
    BY <1>4
  <1>6. DiskLow(disk') /\ FatLow(diskFat') /\ Sane(disk, diskFat, limits')
    BY LegalFacts
  <1>7. Runs(Image(disk, diskFat), <<Put(p, disk'[p]), Put(FAT_CLUSTER_NUMBER, diskFat')>>,
             disk', diskFat', limits')
    BY <1>5, <1>6, RemovedRuns
  <1> QED
    BY <1>1, <1>4, <1>7 DEF Ready

\* The directory that rename_dir or move_dir takes is not in its own table.
LEMMA RelabelledOther ==
    ASSUME Sane(disk, diskFat, limits), NEW p \in Parents, NEW i, NEW new,
           Relabelled(disk, diskFat, disk', diskFat', p, i, new)
    PROVE  LET c == disk[p].slots[i].cluster IN c \in Clusters /\ c # p /\ disk[c].subdir
  <1>1. /\ disk[p].subdir /\ i \in Slots /\ <<p, i>> \in Refs(disk) /\ disk[p].slots[i].subdir
    BY ParentsOK DEF Relabelled, InTable, Tables, LiveSlots, Refs
  <1>2. Stored(disk, diskFat, p, disk[p].slots[i])
    BY <1>1 DEF Sane, Usable, AllStored, Ref
  <1> QED
    BY <1>1, <1>2, FolderPath DEF Stored

LEMMA CarriedOther ==
    ASSUME Sane(disk, diskFat, limits), NEW p \in Parents, NEW i, NEW q, NEW j,
           Carried(disk, diskFat, disk', diskFat', p, i, q, j)
    PROVE  LET c == disk[p].slots[i].cluster IN c \in Clusters /\ c # p /\ disk[c].subdir
  <1>1. /\ disk[p].subdir /\ i \in Slots /\ <<p, i>> \in Refs(disk) /\ disk[p].slots[i].subdir
    BY ParentsOK DEF Carried, InTable, Tables, LiveSlots, Refs
  <1>2. Stored(disk, diskFat, p, disk[p].slots[i])
    BY <1>1 DEF Sane, Usable, AllStored, Ref
  <1> QED
    BY <1>1, <1>2, FolderPath DEF Stored

LEMMA RenameRuns ==
    ASSUME Ready, Legal, NEW p \in Parents, NEW n, NEW e, NEW size \in BufferSizes, NEW new,
           RenameDir(p, n, e, size, new), writes' # <<>>
    PROVE  fat_table' = diskFat' /\ Runs(platter, writes', disk', diskFat', limits')
  <1> DEFINE r == ReadDirectory(p, n, e, size)
             i == FirstNamed(disk[p], n)
             c == disk[p].slots[i].cluster
             named == [disk[p] EXCEPT !.slots[i] = DirEntry(r, new)]
  <1>0. IInv /\ Fit
    BY DEF Ready
  <1>2. rename_dir(p, n, e, size, new)
    BY DEF RenameDir
  <1>3. ~NotFound(p, r)
    <2> SUFFICES ASSUME NotFound(p, r) PROVE writes' = <<>>
      OBVIOUS
    <2>1. ~Did
      BY DEF NotFound, Did, Hang, Answer
    <2>2. r.disk = disk
      <3> HIDE DEF r
      <3>1. r = ReadDirectory(p, n, e, size)
        BY DEF r
      <3> QED
        BY <1>0, <3>1, ReadDirectoryGood
    <2>3. disk' = disk
      BY <2>2 DEF NotFound
    <2>4. writes' = OtherWrites(p)
      BY <2>1 DEF RenameDir
    <2> QED
      BY <2>3, <2>4 DEF OtherWrites
  <1>1. writes' = <<Put(p, named), Put(r.cluster, disk'[r.cluster])>>
    <2>1. Did
      <3> HIDE DEF r
      <3>1. Answer(0, <<>>)
        BY <1>2, <1>3 DEF rename_dir, r
      <3>2. ~hung
        BY <1>2 DEF rename_dir
      <3> QED
        BY <3>1, <3>2 DEF Answer, Did
    <2> QED
      BY <2>1 DEF RenameDir, RenameWrites, Table
  <1>4. /\ fat_table' = diskFat'
        /\ FoundIn(disk[p], n, e) # {} /\ ~Mistaken(disk[p], n)
        /\ Relabelled(disk, diskFat, disk', diskFat', p, i, new)
    BY <1>0, <1>2, <1>3, LegalFacts, rename_dirGood
  <1>5. disk[p].subdir /\ p \in Clusters /\ ~r.hangs /\ r.ret = 0
    BY <1>2, <1>3, <1>4, ParentsOK DEF Relabelled, InTable, Tables, rename_dir
  <1>6. r.cluster = ChildIn(disk[p], n, e) /\ r.buf = disk[r.cluster]
    <2> HIDE DEF r
    <2>1. r = ReadDirectory(p, n, e, size)
      BY DEF r
    <2> QED
      BY <1>0, <1>5, <2>1, ReadDirectoryGood
  <1>7. c = ChildIn(disk[p], n, e)
    BY <1>0, <1>4, <1>5, FirstNamedFound
  <1>11. named = disk'[p]
    <2> HIDE DEF r, i
    <2>1. c \in Clusters /\ c # p /\ disk[c].subdir
      BY <1>0, <1>4, RelabelledOther DEF Ready
    <2>2. DirEntry(r, new) = FolderEntry(c, new)
      BY <1>6, <1>7, <2>1 DEF DirEntry, FolderEntry
    <2>3. disk' = [disk EXCEPT ![p].slots[i] = FolderEntry(c, new), ![c] = Renamed(disk[c], new)]
      BY <1>4 DEF Relabelled
    <2>4. disk \in [Clusters -> Cluster]
      BY <1>0 DEF IInv, DiskOK
    <2> HIDE DEF c
    <2> QED
      BY <1>5, <2>1, <2>2, <2>3, <2>4
  <1> HIDE DEF r, i, c, named
  <1>8. DiskLow(disk') /\ Sane(disk, diskFat, limits')
    BY LegalFacts
  <1>9. c = disk[p].slots[i].cluster
    BY DEF c
  <1>10. Runs(Image(disk, diskFat), <<Put(p, disk'[p]), Put(c, disk'[c])>>, disk', diskFat', limits')
    BY <1>4, <1>8, <1>9, RelabelledRuns
  <1> QED
    BY <1>1, <1>4, <1>6, <1>7, <1>10, <1>11 DEF Ready

LEMMA MoveRuns ==
    ASSUME Ready, Legal, NEW p \in Parents, NEW n, NEW e, NEW size \in BufferSizes,
           NEW q \in Parents, MoveDir(p, n, e, size, q), writes' # <<>>,
           ReadDirectory(p, n, e, size).cluster # q
    PROVE  fat_table' = diskFat' /\ Runs(platter, writes', disk', diskFat', limits')
  <1> DEFINE r == ReadDirectory(p, n, e, size)
             i == FirstNamed(disk[p], n)
             c == disk[p].slots[i].cluster
             old == [disk EXCEPT ![p].slots[i].undelete = FALSE]
             j == Min(FreeSlots(old[q]))
             left == [disk[p] EXCEPT !.slots[i].undelete = FALSE]
             to == IF q = p THEN left ELSE disk[q]
             taking == [to EXCEPT !.slots[Min(FreeSlots(to))] = DirEntry(r, r.buf.name),
                                  !.data = NoData]
  <1>0. IInv /\ Fit
    BY DEF Ready
  <1>2. move_dir(p, n, e, size, q)
    BY DEF MoveDir
  <1>3. ~NotFound(p, r)
    <2> SUFFICES ASSUME NotFound(p, r) PROVE writes' = <<>>
      OBVIOUS
    <2>1. ~Did
      BY DEF NotFound, Did, Hang, Answer
    <2>2. r.disk = disk
      <3> HIDE DEF r
      <3>1. r = ReadDirectory(p, n, e, size)
        BY DEF r
      <3> QED
        BY <1>0, <3>1, ReadDirectoryGood
    <2>3. disk' = disk
      BY <2>2 DEF NotFound
    <2>4. writes' = OtherWrites(p)
      BY <2>1 DEF MoveDir
    <2> QED
      BY <2>3, <2>4 DEF OtherWrites
  <1>1. /\ r.cluster # q
        /\ writes' = <<Put(p, left), Put(q, taking), Put(r.cluster, disk'[r.cluster]),
                       Put(FAT_CLUSTER_NUMBER, diskFat')>>
    <2>1. Did
      <3> HIDE DEF r
      <3>1. Answer(0, <<>>)
        BY <1>0, <1>2, <1>3, LegalFacts, move_dirGood DEF r
      <3>2. ~hung
        BY <1>2 DEF move_dir
      <3> QED
        BY <3>1, <3>2 DEF Answer, Did
    <2> QED
      BY <2>1 DEF MoveDir, MoveWrites, Table, Fat
  <1>4. /\ fat_table' = diskFat'
        /\ "moved" \in limits' /\ (LimitsOnce => "moved" \notin limits)
        /\ FoundIn(disk[p], n, e) # {} /\ ~Mistaken(disk[p], n)
        /\ Carried(disk, diskFat, disk', diskFat', p, i, q, j)
    BY <1>0, <1>2, <1>3, LegalFacts, move_dirGood
  <1>5. disk[p].subdir /\ p \in Clusters /\ ~r.hangs /\ r.ret = 0
    BY <1>2, <1>3, <1>4, ParentsOK DEF Carried, InTable, Tables, move_dir
  <1>6. r.cluster = ChildIn(disk[p], n, e) /\ r.buf = disk[r.cluster]
    <2> HIDE DEF r
    <2>1. r = ReadDirectory(p, n, e, size)
      BY DEF r
    <2> QED
      BY <1>0, <1>5, <2>1, ReadDirectoryGood
  <1>7. c = ChildIn(disk[p], n, e)
    BY <1>0, <1>4, <1>5, FirstNamedFound
  <1>8. left = Unhooked(disk, p, i)[p]
    <2>1. disk \in [Clusters -> Cluster]
      BY <1>0 DEF IInv, DiskLow, DiskOK
    <2> QED
      BY <1>5, <2>1 DEF Unhooked
  <1>13. taking = disk'[q]
    <2> HIDE DEF r, i
    <2>1. c \in Clusters /\ c # p /\ c # q /\ disk[c].subdir
      BY <1>0, <1>1, <1>4, <1>6, <1>7, CarriedOther DEF Ready
    <2>2. DirEntry(r, r.buf.name) = FolderEntry(c, disk[c].name)
      BY <1>6, <1>7, <2>1 DEF DirEntry, FolderEntry
    <2>3. disk' = [old EXCEPT ![q].slots[j] = FolderEntry(c, disk[c].name), ![q].data = NoData,
                              ![c] = Reparented(disk[c], q)]
      BY <1>4 DEF Carried
    <2>4. disk \in [Clusters -> Cluster] /\ q \in Clusters
      BY <1>0, ParentsOK DEF IInv, DiskOK
    <2>5. to = old[q] /\ q \in DOMAIN old
      BY <1>5, <2>4
    <2> HIDE DEF c, to, old
    <2>6. taking = [old[q] EXCEPT !.slots[j] = FolderEntry(c, disk[c].name), !.data = NoData]
      BY <2>2, <2>5
    <2> HIDE DEF taking, j
    <2> QED
      BY <2>1, <2>3, <2>5, <2>6
  <1> HIDE DEF r, i, c, j, left, old, to, taking
  <1>9. DiskLow(disk') /\ Sane(disk, diskFat, limits') /\ limits' # {}
    BY <1>4, LegalFacts
  <1>10. LimitsOnce => NoneFlagged(disk)
    <2> SUFFICES ASSUME LimitsOnce PROVE NoneFlagged(disk)
      OBVIOUS
    <2>1. limits = {}
      BY <1>4, LegalFacts
    <2>2. Flags(Image(disk, diskFat), limits)
      BY DEF Ready, Sane
    <2> QED
      BY <2>1, <2>2, ImageFields DEF Flags, NoneFlagged
  <1>11. c = disk[p].slots[i].cluster /\ c # q
    BY <1>1, <1>6, <1>7 DEF c
  <1>12. Runs(Image(disk, diskFat), <<Put(p, left), Put(q, disk'[q]), Put(c, disk'[c]),
                                      Put(FAT_CLUSTER_NUMBER, diskFat')>>,
              disk', diskFat', limits')
    BY <1>4, <1>8, <1>9, <1>10, <1>11, CarriedRuns
  <1> QED
    BY <1>1, <1>4, <1>6, <1>7, <1>12, <1>13 DEF Ready

LEMMA WriteRuns ==
    ASSUME Ready, Legal, NEW p \in Known, NEW n \in Names, NEW e \in Exts,
           NEW k \in 0 .. MAX_FILE_CLUSTERS, NEW x \in Contents,
           Write(p, n, e, k, x), writes' # <<>>
    PROVE  fat_table' = diskFat' /\ Runs(platter, writes', disk', diskFat', limits')
  <1> DEFINE m == Clustered(k)
             i == HomeSlot(p)
  <1>0. IInv /\ Fit /\ p \in Parents /\ Attached(disk, diskFat, p, limits')
    BY KnownAttached DEF Ready
  <1>1. /\ ~Unchanged
        /\ \E be \in Taken(k) :
             writes' = IF k = 0 THEN FolderWrites(p, be[1]) ELSE FileWrites(p, be)
    BY DEF Write
  <1>2. write(p, n, e, k, x)
    BY DEF Write
  <1>3. /\ disk[p].subdir /\ Terminates(DirView(diskFat), p)
        /\ ~\E t \in Reach(DirView(diskFat), p) : Exists(disk[t], n, e, k = 0)
        /\ WriteObject(p, n, e, k, x)
    BY <1>1, <1>2 DEF write, Unchanged
  <1>4. Within'
    BY LegalFacts
  <1>5. /\ fat_table' = diskFat'
        /\ \E al \in [1 .. m -> 3 .. CLUSTER_MAP_SIZE - 1] :
             /\ Placed(p, n, e, k, x, al, m)
             /\ PutIn(p, n, k, x, NewEntry(n, e, k, al[1]), al, m)
    BY <1>0, <1>3, <1>4, WriteObjectPlaced
  <1> HIDE DEF i
  <1>6. m \in Nat \ {0} /\ m = IF k = 0 THEN 1 ELSE k
    BY SizeAssumption DEF Clustered
  <1> HIDE DEF m
  <1>7. PICK al \in [1 .. m -> 3 .. CLUSTER_MAP_SIZE - 1] :
             /\ Placed(p, n, e, k, x, al, m)
             /\ PutIn(p, n, k, x, NewEntry(n, e, k, al[1]), al, m)
    BY <1>5
  <1>8. PICK be \in Taken(k) :
             writes' = IF k = 0 THEN FolderWrites(p, be[1]) ELSE FileWrites(p, be)
    BY <1>1
  <1>9. be = al
    <2>1. be \in [1 .. m -> 3 .. CLUSTER_MAP_SIZE] /\ FirstFit(diskFat, be)
      BY <1>6 DEF Taken
    <2>2. FirstFit(diskFat, al)
      BY <1>7 DEF Placed
    <2>3. m \in Nat /\ al \in [1 .. m -> 3 .. CLUSTER_MAP_SIZE]
      BY <1>6, SizeFacts
    <2> QED
      BY <2>1, <2>2, <2>3, FirstFitUnique
  <1> DEFINE en == NewEntry(n, e, k, al[1])
  <1>10. en.subdir = (k = 0) /\ en.cluster = al[1] /\ en.name = n
    BY DEF NewEntry
  <1> HIDE DEF en
  <1>11. /\ DiskLow(disk') /\ FatLow(diskFat') /\ Sane(disk, diskFat, limits')
    BY LegalFacts
  <1>12. Grown(disk, diskFat, disk', diskFat', p, i, en, al, m)
    <2>1. Injective(al, m) /\ diskFat' = ChainFat(diskFat, al, 0, p)
      BY <1>7 DEF Placed
    <2>2. Added(disk, diskFat, disk', diskFat', p, i, en, {al[j] : j \in 1 .. m})
      BY <1>7 DEF PutIn, i, en
    <2> QED
      BY <1>0, <1>6, <1>7, <1>11, <2>1, <2>2 DEF Grown
  <1>13. CASE k = 0
    <2> DEFINE c == al[1]
    <2>1. m = 1 /\ writes' = <<Put(c, disk'[c]), Put(p, disk'[p]), Put(FAT_CLUSTER_NUMBER, diskFat')>>
      BY <1>6, <1>8, <1>9, <1>13 DEF FolderWrites, Table, Fat
    <2>2. disk'[c] = init_directory_table(n, p)
      BY <1>7, <1>13 DEF PutIn, NewCluster
    <2>3. en.subdir /\ en.cluster = c /\ disk'[c] = init_directory_table(en.name, p)
      BY <1>10, <1>13, <2>2
    <2>4. Grown(disk, diskFat, disk', diskFat', p, i, en, al, 1)
      BY <1>12, <2>1
    <2> DEFINE ws == <<Put(c, disk'[c]), Put(p, disk'[p]), Put(FAT_CLUSTER_NUMBER, diskFat')>>
    <2>5. c = al[1]
      OBVIOUS
    <2>6. ws = <<Put(c, disk'[c]), Put(p, disk'[p]), Put(FAT_CLUSTER_NUMBER, diskFat')>>
      OBVIOUS
    <2>7. writes' = ws
      BY <2>1
    <2> HIDE DEF c, ws
    <2>8. Runs(Image(disk, diskFat), ws, disk', diskFat', limits')
      <3>1. Runs(Image(disk, diskFat),
                 <<Put(c, disk'[c]), Put(p, disk'[p]), Put(FAT_CLUSTER_NUMBER, diskFat')>>,
                 disk', diskFat', limits')
        BY <1>0, <1>11, <2>3, <2>4, <2>5, FolderRuns
      <3> QED
        BY <2>6, <3>1
    <2> QED
      BY <1>5, <2>7, <2>8 DEF Ready
  <1>14. CASE k # 0
    <2>1. writes' = FileWrites(p, al)
      BY <1>8, <1>9, <1>14
    <2>2. Len(al) = m
      BY <1>6, <1>7
    <2>3. FileWrites(p, al) = FileSteps(diskFat, disk', p, al, m)
      BY <2>2 DEF FileWrites, FileSteps, Table, Fat
    <2> DEFINE ws == writes'
    <2>4. ws = FileSteps(diskFat, disk', p, al, m)
      BY <2>1, <2>3
    <2> HIDE DEF ws
    <2>5. Runs(Image(disk, diskFat), ws, disk', diskFat', limits')
      BY <1>0, <1>11, <1>12, <2>4, FileRuns
    <2> QED
      BY <1>5, <2>5 DEF Ready, ws
  <1> QED
    BY <1>13, <1>14

\* Every call takes risks.
LEMMA CallRisks == ASSUME Call PROVE \E r : Risk(r)
  <1>1. ASSUME NEW p, NEW n, NEW e, NEW k, NEW x, Write(p, n, e, k, x) PROVE \E r : Risk(r)
    BY <1>1 DEF Write
  <1>2. ASSUME NEW p, NEW n, NEW e, Delete(p, n, e) PROVE \E r : Risk(r)
    BY <1>2 DEF Delete
  <1>3. ASSUME NEW p, NEW n, NEW e, NEW size, NEW new, RenameDir(p, n, e, size, new)
        PROVE  \E r : Risk(r)
    BY <1>3 DEF RenameDir
  <1>4. ASSUME NEW p, NEW n, NEW e, NEW size, NEW q, MoveDir(p, n, e, size, q)
        PROVE  \E r : Risk(r)
    BY <1>4 DEF MoveDir
  <1> QED
    BY <1>1, <1>2, <1>3, <1>4, Zenon DEF Call

\* A call writes what takes the disk to the state it is left in.
LEMMA CallStep ==
    ASSUME PInv, Call, risks' = {}, Breaches \subseteq {"moved"}
    PROVE  PInv'
  <1>0. ASSUME NEW r, Risk(r) PROVE r = {} /\ Torn(platter) = {}
    BY <1>0 DEF Risk
  <1>1. /\ writes = <<>> /\ formatted /\ Torn(platter) = {} /\ writes' # <<>>
        /\ platter' = platter /\ formatted' = formatted
    <2> QED
      BY <1>0, CallRisks DEF Call
  <1>2. Ready
    BY <1>1, ReadyNow
  <1>3. Base
    BY <1>2 DEF Ready
  <1>4. ASSUME [Next]_vars PROVE Legal
    <2>1. Base' /\ limits \subseteq limits'
      BY <1>3, <1>4, NextOK, LimitsGrow
    <2> QED
      BY <2>1 DEF Legal
  <1>5. Known \subseteq Parents
    BY DEF Known
  <1> DEFINE Done == Legal /\ fat_table' = diskFat' /\ Runs(platter, writes', disk', diskFat', limits')
  <1>6. ASSUME NEW p \in Known, NEW n \in Names, NEW e \in Exts,
               NEW k \in 0 .. MAX_FILE_CLUSTERS, NEW x \in Contents, Write(p, n, e, k, x)
        PROVE  Done
    <2>1. p \in Parents /\ write(p, n, e, k, x)
      BY <1>5, <1>6 DEF Write
    <2>2. Next
      BY <2>1 DEF Next
    <2> QED
      BY <1>1, <1>2, <1>4, <1>6, <2>2, WriteRuns
  <1>7. ASSUME NEW p \in Known, NEW n \in Names, NEW e \in Exts, Delete(p, n, e)
        PROVE  Done
    <2>1. p \in Parents /\ delete(p, n, e)
      BY <1>5, <1>7 DEF Delete
    <2>2. Next
      BY <2>1 DEF Next
    <2> QED
      BY <1>1, <1>2, <1>4, <1>7, <2>1, <2>2, DeleteRuns
  <1>8. ASSUME NEW p \in Known, NEW n \in Names, NEW e \in Exts, NEW size \in BufferSizes,
               NEW new \in Names, RenameDir(p, n, e, size, new)
        PROVE  Done
    <2>1. p \in Parents /\ rename_dir(p, n, e, size, new)
      BY <1>5, <1>8 DEF RenameDir
    <2>2. Next
      BY <2>1 DEF Next
    <2> QED
      BY <1>1, <1>2, <1>4, <1>8, <2>1, <2>2, RenameRuns
  <1>9. ASSUME NEW p \in Known, NEW n \in Names, NEW e \in Exts, NEW size \in BufferSizes,
               NEW q \in Known, MoveDir(p, n, e, size, q)
        PROVE  Done
    <2>1. p \in Parents /\ q \in Parents /\ move_dir(p, n, e, size, q)
      BY <1>5, <1>9 DEF MoveDir
    <2>2. Next
      BY <2>1 DEF Next
    <2>3. ReadDirectory(p, n, e, size).cluster # q
      <3>1. Risk(IF ReadDirectory(p, n, e, size).cluster = q THEN {"itself"} ELSE {})
        BY <1>9 DEF MoveDir
      <3> QED
        BY <1>0, <3>1
    <2> QED
      BY <1>1, <1>2, <1>4, <1>9, <2>1, <2>2, <2>3, MoveRuns
  <1> HIDE DEF Done
  <1>10. Done
    BY <1>6, <1>7, <1>8, <1>9, Zenon DEF Call
  <1> QED
    BY <1>1, <1>10 DEF Done, Legal, Base, Held, PInv

-----------------------------------------------------------------------------
(***************************************************************************)
(* The steps                                                               *)
(***************************************************************************)
\* A new disk.
LEMMA FreshFine ==
    ASSUME create_fat32, NEW on, on \in Platters, on.signed, on.clusters = disk, on.fat = diskFat,
           NEW l
    PROVE  Fine(on, l)
  <1>1. DiskLow(disk) /\ FatLow(diskFat) /\ Usable(disk, diskFat)
    BY FreshOK, LowIn, FreshSound, SoundUsable
  <1>2. Nearly(on)
    BY <1>1 DEF Nearly, Mends
  <1>3. /\ \A c \in Clusters \ {ROOT_CLUSTER_NUMBER} : disk[c] = Blank
        /\ disk[ROOT_CLUSTER_NUMBER] = init_directory_table(RootName, ROOT_CLUSTER_NUMBER)
        /\ diskFat = FreshFat
    BY SizeFacts DEF create_fat32, ROOT_CLUSTER_NUMBER
  <1>4. \A t \in FatIndex : disk[t].subdir => t = ROOT_CLUSTER_NUMBER
    BY <1>3, BlankDead, SizeFacts
  <1>5. LiveSlots(disk[ROOT_CLUSTER_NUMBER]) = {}
    <2>1. init_directory_table(RootName, ROOT_CLUSTER_NUMBER).slots = Blank.slots
      BY DEF init_directory_table, Blank
    <2> QED
      BY <1>3, <2>1, BlankDead DEF LiveSlots
  <1>6. diskFat[ROOT_CLUSTER_NUMBER] # 0
    BY <1>1 DEF FatLow, FatOK
  <1>7. Kin(on)
    BY <1>4 DEF Kin
  <1>8. Flags(on, l)
    BY <1>4, <1>5 DEF Flags
  <1>9. FreeFlags(on)
    BY <1>4, <1>6 DEF FreeFlags
  <1> QED
    BY <1>1, <1>2, <1>7, <1>8, <1>9 DEF Fine

LEMMA FormatSteps ==
    /\ FormatWrites # <<>> /\ Head(FormatWrites) = Put(BOOT_SECTOR, Blank)
    /\ Tail(FormatWrites) # <<>> /\ Head(Tail(FormatWrites)) = Put(FAT_CLUSTER_NUMBER, FreshFat)
    /\ Head(Tail(Tail(FormatWrites))) =
         Put(ROOT_CLUSTER_NUMBER, init_directory_table(RootName, ROOT_CLUSTER_NUMBER))
    /\ Tail(Tail(Tail(FormatWrites))) = <<>>
    /\ Len(FormatWrites) = 3 /\ Len(Tail(FormatWrites)) = 2 /\ Len(Tail(Tail(FormatWrites))) = 1
  <1> DEFINE a == Put(BOOT_SECTOR, Blank)
             b == Put(FAT_CLUSTER_NUMBER, FreshFat)
             c == Put(ROOT_CLUSTER_NUMBER, init_directory_table(RootName, ROOT_CLUSTER_NUMBER))
  <1>1. FormatWrites = <<a, b, c>>
    BY DEF FormatWrites, Fat
  <1> HIDE DEF a, b, c
  <1>2. Tail(<<a, b, c>>) = <<b, c>> /\ Tail(<<b, c>>) = <<c>> /\ Tail(<<c>>) = <<>>
    OBVIOUS
  <1>3. /\ Head(<<a, b, c>>) = a /\ Head(<<b, c>>) = b /\ Head(<<c>>) = c
        /\ Len(<<a, b, c>>) = 3 /\ Len(<<b, c>>) = 2 /\ Len(<<c>>) = 1
        /\ <<a, b, c>> # <<>> /\ <<b, c>> # <<>>
    OBVIOUS
  <1> QED
    BY <1>1, <1>2, <1>3 DEF a, b, c

\* The next write of a call, or of the format.
LEMMA WriteStep ==
    ASSUME PInv, write_clusters
    PROVE  PInv' /\ (formatted => OneChange(platter, platter'))
  <1>1. /\ writes # <<>> /\ platter' = Written(platter, Head(writes)) /\ writes' = Tail(writes)
        /\ formatted' = (formatted \/ Len(writes) = 1)
        /\ disk' = disk /\ diskFat' = diskFat /\ fat_table' = fat_table /\ reply' = reply
        /\ hung' = hung /\ limits' = limits
    BY DEF write_clusters, vars
  <1>2. formatted \in BOOLEAN /\ formatted' \in BOOLEAN
    BY <1>1 DEF PInv
  <1>3. ASSUME formatted
        PROVE  /\ Runs(platter', writes', disk', diskFat', limits') /\ formatted'
               /\ OneChange(platter, platter')
    <2>1. Runs(platter, writes, disk, diskFat, limits)
      BY <1>3 DEF PInv
    <2>2. /\ Runs(Written(platter, Head(writes)), Tail(writes), disk, diskFat, limits)
          /\ OneChange(platter, Written(platter, Head(writes)))
      BY <1>1, <2>1, RunsTail
    <2> QED
      BY <1>1, <1>3, <2>2
  <1>4. ASSUME ~formatted
        PROVE  /\ formatted' => Runs(platter', writes', disk', diskFat', limits')
               /\ ~formatted' => FormatRuns'
    <2>1. FormatRuns
      BY <1>4 DEF PInv
    <2>2. /\ platter \in Platters /\ limits = {}
          /\ platter.clusters = [c \in Clusters |-> Blank]
      BY <2>1 DEF FormatRuns
    <2>3. CASE writes = FormatWrites /\ create_fat32
      <3>1. platter' = [platter EXCEPT !.signed = TRUE]
        BY <1>1, <2>3, FormatSteps DEF Written, Put
      <3>2. platter' \in Platters /\ platter'.signed /\ platter'.clusters = platter.clusters
        BY <2>2, <3>1 DEF Platters
      <3>3. writes' = Tail(FormatWrites) /\ ~formatted' /\ create_fat32'
        <4>1. Len(writes) # 1
          BY <2>3, FormatSteps
        <4>2. ~formatted'
          BY <1>1, <1>4, <4>1, Zenon
        <4>3. create_fat32'
          BY <1>1, <2>3 DEF create_fat32
        <4> QED
          BY <1>1, <2>3, <4>2, <4>3
      <3> QED
        BY <1>1, <2>2, <3>2, <3>3 DEF FormatRuns
    <2>4. CASE writes = Tail(FormatWrites) /\ create_fat32 /\ platter.signed
      <3>1. platter' = [platter EXCEPT !.fat = FreshFat]
        BY <1>1, <2>4, FormatSteps DEF Written, Put, FAT_CLUSTER_NUMBER, BOOT_SECTOR
      <3>2. FreshFat \in [FatIndex -> FatValues]
        BY <2>4, FreshOK, LowIn DEF create_fat32, FatLow, FatOK
      <3>3. /\ platter' \in Platters /\ platter'.signed /\ platter'.clusters = platter.clusters
            /\ platter'.fat = FreshFat
        BY <2>2, <2>4, <3>1, <3>2 DEF Platters
      <3>4. writes' = Tail(Tail(FormatWrites)) /\ ~formatted' /\ create_fat32'
        <4>0. Len(Tail(FormatWrites)) = 2 /\ writes = Tail(FormatWrites)
          BY <2>4, FormatSteps, Zenon
        <4>1. Len(writes) # 1
          <5>1. Len(writes) = 2
            BY ONLY <4>0, Zenon
          <5> QED
            BY ONLY <5>1
        <4>2. ~formatted'
          BY <1>1, <1>4, <4>1, Zenon
        <4>3. create_fat32'
          BY <1>1, <2>4 DEF create_fat32
        <4> QED
          BY <1>1, <2>4, <4>2, <4>3
      <3> QED
        BY <1>1, <2>2, <3>3, <3>4 DEF FormatRuns
    <2>5. CASE writes = Tail(Tail(FormatWrites)) /\ create_fat32 /\ platter.signed
               /\ platter.fat = FreshFat
      <3> DEFINE root == init_directory_table(RootName, ROOT_CLUSTER_NUMBER)
      <3>1. platter' = [platter EXCEPT !.clusters = [platter.clusters EXCEPT ![ROOT_CLUSTER_NUMBER] = root]]
        <4> DEFINE w == Head(writes)
        <4>1. w = Put(ROOT_CLUSTER_NUMBER, root)
          BY <2>5, FormatSteps
        <4>2. w.at = 2 /\ w.value = root /\ ROOT_CLUSTER_NUMBER = 2
          BY <4>1 DEF Put, ROOT_CLUSTER_NUMBER
        <4>3. platter' = Written(platter, w)
          BY <1>1
        <4> HIDE DEF w, root
        <4> QED
          BY <4>2, <4>3 DEF Written, FAT_CLUSTER_NUMBER, BOOT_SECTOR
      <3>2. disk = [platter.clusters EXCEPT ![ROOT_CLUSTER_NUMBER] = root] /\ diskFat = FreshFat
        BY <2>2, <2>5, SizeFacts DEF create_fat32, ROOT_CLUSTER_NUMBER
      <3>3. disk \in [Clusters -> Cluster]
        BY <2>5, FreshOK, LowIn DEF DiskLow, DiskOK
      <3> HIDE DEF root
      <3>4. /\ platter' \in Platters /\ platter'.signed /\ platter'.clusters = disk
            /\ platter'.fat = diskFat
        BY <2>2, <2>5, <3>1, <3>2, <3>3 DEF Platters
      <3>5. writes' = <<>> /\ formatted'
        BY <1>1, <2>5, FormatSteps
      <3> DEFINE on == platter'
      <3>6. Fine(on, limits)
        <4>1. on \in Platters /\ on.signed /\ on.clusters = disk /\ on.fat = diskFat /\ create_fat32
          BY <2>5, <3>4
        <4> HIDE DEF on
        <4> QED
          BY <4>1, FreshFine
      <3>7. Runs(on, <<>>, disk, diskFat, limits)
        <4>1. on.clusters = disk /\ on.fat = diskFat
          BY <3>4
        <4> HIDE DEF on
        <4>2. Runs(on, <<>>, on.clusters, on.fat, limits)
          BY <3>6, RunsNil
        <4> QED
          BY <4>1, <4>2
      <3> QED
        BY <1>1, <3>5, <3>7
    <2> QED
      BY <1>1, <2>1, <2>3, <2>4, <2>5 DEF FormatRuns
  <1>5. reply'.ret \in Codes /\ hung' \in BOOLEAN /\ limits' \subseteq Breaches /\ fat_table' = diskFat'
    BY <1>1 DEF PInv
  <1>6. PInv'
    BY <1>2, <1>3, <1>4, <1>5 DEF PInv
  <1> QED
    BY <1>3, <1>6

\* The power fails: what is on the disk is fine, or the format begins again.
LEMMA FailStep == ASSUME PInv, PowerFails PROVE PInv'
  <1>1. /\ reply' = NoReply /\ fat_table' = diskFat' /\ hung' = FALSE /\ limits' = limits
        /\ platter' = platter /\ formatted' = formatted
    BY DEF PowerFails
  <1>2. /\ platter.signed => disk' = platter.clusters /\ diskFat' = platter.fat /\ writes' = <<>>
        /\ ~platter.signed => disk' = disk /\ diskFat' = diskFat /\ writes' = FormatWrites
    BY DEF PowerFails
  <1>3. ASSUME formatted PROVE Runs(platter', writes', disk', diskFat', limits')
    <2>1. Fine(platter, limits)
      <3>1. Runs(platter, writes, disk, diskFat, limits)
        BY <1>3 DEF PInv
      <3> QED
        BY <3>1, RunsNow
    <2>2. platter.signed
      BY <2>1 DEF Fine
    <2>3. Runs(platter, <<>>, platter.clusters, platter.fat, limits)
      BY <2>1, RunsNil
    <2> QED
      BY <1>1, <1>2, <2>2, <2>3
  <1>4. ASSUME ~formatted PROVE FormatRuns'
    <2>1. FormatRuns
      BY <1>4 DEF PInv
    <2>2. CASE platter.signed
      BY <1>1, <1>2, <2>1, <2>2 DEF FormatRuns
    <2>3. CASE ~platter.signed
      <3>1. create_fat32 /\ create_fat32'
        BY <1>2, <2>1, <2>3 DEF FormatRuns, create_fat32
      <3> QED
        BY <1>1, <1>2, <2>1, <2>3, <3>1 DEF FormatRuns
    <2> QED
      BY <2>2, <2>3
  <1>5. 0 \in Codes
    BY DEF Codes
  <1>6. reply'.ret \in Codes /\ hung' \in BOOLEAN /\ limits' \subseteq Breaches
    BY <1>1, <1>5 DEF PInv, NoReply
  <1> QED
    BY <1>1, <1>3, <1>4, <1>6 DEF PInv

LEMMA StutterStep == ASSUME PInv, UNCHANGED powerVars PROVE PInv'
  <1>1. /\ platter' = platter /\ writes' = writes /\ formatted' = formatted /\ reply' = reply
        /\ disk' = disk /\ diskFat' = diskFat /\ fat_table' = fat_table /\ hung' = hung
        /\ limits' = limits
    BY DEF powerVars
  <1>2. FormatRuns => FormatRuns'
    BY <1>1 DEF FormatRuns, create_fat32
  <1> QED
    BY <1>1, <1>2 DEF PInv

LEMMA PowerStarts == PowerInit => PInv
  <1> SUFFICES ASSUME PowerInit PROVE PInv
    OBVIOUS
  <1> DEFINE b == FALSE
  <1>1. /\ create_fat32 /\ fat_table = diskFat /\ reply = NoReply /\ hung = FALSE /\ limits = {}
        /\ platter = [signed |-> b, fat |-> [c \in FatIndex |-> 0],
                      clusters |-> [c \in Clusters |-> Blank]]
        /\ writes = FormatWrites /\ ~formatted /\ formatted \in BOOLEAN
    BY DEF PowerInit, Init
  <1>2. Blank \in Cluster /\ 0 \in FatValues /\ b \in BOOLEAN
    BY BlankOK, SizeFacts DEF TableIn, FatValues
  <1> HIDE DEF b
  <1>3. platter \in Platters /\ platter.clusters = [c \in Clusters |-> Blank]
    BY <1>1, <1>2 DEF Platters
  <1>4. FormatRuns
    BY <1>1, <1>3 DEF FormatRuns
  <1>5. reply.ret \in Codes
    BY <1>1 DEF NoReply, Codes
  <1> QED
    BY <1>1, <1>4, <1>5 DEF PInv

\* Nothing is known once a call has taken a risk.
PowerInv == risks = {} => PInv

LEMMA PowerStep ==
    ASSUME Breaches \subseteq {"moved"}
    PROVE  PowerInv /\ [PowerNext]_powerVars => PowerInv'
  <1> SUFFICES ASSUME PowerInv, [PowerNext]_powerVars, risks' = {} PROVE PInv'
    BY DEF PowerInv
  <1>1. risks = {}
    <2>1. CASE Call
      BY <2>1, CallRisks DEF Risk
    <2>2. CASE ~Call
      BY <2>2 DEF PowerNext, write_clusters, PowerFails, powerVars
    <2> QED
      BY <2>1, <2>2
  <1>2. PInv
    BY <1>1 DEF PowerInv
  <1> QED
    BY <1>2, CallStep, WriteStep, FailStep, StutterStep DEF PowerNext

-----------------------------------------------------------------------------
(***************************************************************************)
(* The theorems                                                            *)
(***************************************************************************)
LEMMA PowerInvariance == ASSUME Breaches \subseteq {"moved"} PROVE PowerSpec => []PowerInv
  <1>1. PowerInit => PowerInv
    BY PowerStarts DEF PowerInv
  <1>2. PowerInv /\ [PowerNext]_powerVars => PowerInv'
    BY PowerStep
  <1> QED
    BY <1>1, <1>2, PTL DEF PowerSpec

\* When a call returns, what it has changed is on the disk, and the driver's
\* copy of the FAT is the one there; so it is after a restart, and after the
\* format.
THEOREM CallsSettle ==
    ASSUME Breaches \subseteq {"moved"} PROVE PowerSpec => [](risks = {} => Settled)
  <1>1. PowerInv => (risks = {} => Settled)
    <2> SUFFICES ASSUME PInv, writes = <<>>
                 PROVE  platter.clusters = disk /\ platter.fat = fat_table
      BY DEF Settled, PowerInv
    <2>1. CASE formatted
      <3>1. Runs(platter, writes, disk, diskFat, limits) /\ fat_table = diskFat
        BY <2>1 DEF PInv
      <3> QED
        BY <3>1, RunsNow
    <2>2. CASE ~formatted
      <3>1. /\ FormatWrites # <<>> /\ Tail(FormatWrites) # <<>>
            /\ Len(Tail(Tail(FormatWrites))) = 1 /\ Len(<<>>) # 1
        BY FormatSteps
      <3>2. FormatRuns /\ fat_table = diskFat
        BY <2>2 DEF PInv
      <3>3. disk = platter.clusters /\ diskFat = platter.fat
        BY <3>1, <3>2, Zenon DEF FormatRuns
      <3> QED
        BY <3>2, <3>3
    <2> QED
      BY <2>1, <2>2
  <1> QED
    BY <1>1, PowerInvariance, PTL

\* What is on the disk at any time: nothing but an unfinished format, or a
\* fine platter.
LEMMA PlatterFine == ASSUME PInv PROVE EntriesOn(platter) = {} \/ Fine(platter, limits)
  <1>1. CASE formatted
    <2>1. Runs(platter, writes, disk, diskFat, limits)
      BY <1>1 DEF PInv
    <2> QED
      BY <2>1, RunsNow
  <1>2. CASE ~formatted
    BY <1>2, NoEntryYet DEF PInv
  <1> QED
    BY <1>1, <1>2

\* Whenever the power fails, a file that has an entry is all there: write has
\* marked and written all its clusters before it writes the entry, and delete
\* takes the entry away before it frees them.
THEOREM FilesStayWhole == ASSUME Breaches \subseteq {"moved"} PROVE PowerSpec => []FilesWhole
  <1>1. PowerInv => FilesWhole
    BY PlatterFine, FineEntries DEF FilesWhole, PowerInv
  <1> QED
    BY <1>1, PowerInvariance, PTL

\* Whenever the power fails, no two entries lead to the same cluster and none
\* to a reserved one: neither an interrupted delete nor an interrupted move_dir
\* leaves two owners of anything.
THEOREM NothingIsShared == ASSUME Breaches \subseteq {"moved"} PROVE PowerSpec => []NothingShared
  <1>1. PowerInv => NothingShared
    <2> SUFFICES ASSUME Fine(platter, limits) PROVE NothingShared
      BY PlatterFine DEF NothingShared, Apart, PowerInv
    <2>1. \A s \in EntriesOn(platter) : ChainOn(platter, s) \subseteq 3 .. CLUSTER_MAP_SIZE - 1
      BY FineEntries
    <2>2. \A c \in 0 .. ROOT_CLUSTER_NUMBER : c \notin 3 .. CLUSTER_MAP_SIZE - 1
      BY DEF ROOT_CLUSTER_NUMBER
    <2>3. \A s \in EntriesOn(platter) : \A c \in 0 .. ROOT_CLUSTER_NUMBER : c \notin ChainOn(platter, s)
      BY <2>1, <2>2
    <2>4. \A s, u \in EntriesOn(platter) : s # u => ChainOn(platter, s) \cap ChainOn(platter, u) = {}
      BY FineEntries
    <2> QED
      BY <2>3, <2>4 DEF NothingShared, Apart
  <1> QED
    BY <1>1, PowerInvariance, PTL

\* Whenever the power fails, at most one entry leads to a cluster that is not
\* marked: that of the folder write is making, whose table is there and empty.
THEOREM AtMostOneTorn == ASSUME Breaches \subseteq {"moved"} PROVE PowerSpec => []OneTorn
  <1>1. PowerInv => OneTorn
    <2>1. ASSUME EntriesOn(platter) = {} PROVE OneTorn
      <3>1. Torn(platter) = {}
        BY <2>1 DEF Torn
      <3> QED
        BY <3>1, FS_EmptySet DEF OneTorn
    <2>2. ASSUME Fine(platter, limits) PROVE OneTorn
      BY <2>2, FineTorn DEF OneTorn, Missing
    <2> QED
      BY <2>1, <2>2, PlatterFine DEF OneTorn, PowerInv
  <1> QED
    BY <1>1, PowerInvariance, PTL

\* Whenever the power fails, a directory with entries has its own in another,
\* unless move_dir has been called: no other call has it for a moment in no
\* directory at all.
THEOREM OnlyMoveLoses == ASSUME Breaches \subseteq {"moved"} PROVE PowerSpec => []LostOnlyByMove
  <1>1. PowerInv => LostOnlyByMove
    <2> SUFFICES ASSUME PInv, limits = {}, NEW t \in DirsOn(platter) \ {ROOT_CLUSTER_NUMBER},
                        NEW i \in Slots, platter.clusters[t].slots[i].undelete
                 PROVE  Entered(platter, t)
      BY DEF LostOnlyByMove, PowerInv
    <2>1. t \in FatIndex \ {ROOT_CLUSTER_NUMBER} /\ platter.clusters[t].subdir
      BY DEF DirsOn
    <2>2. LiveSlots(platter.clusters[t]) # {}
      BY DEF LiveSlots
    <2>3. EntriesOn(platter) # {}
      <3>1. <<t, i>> \in EntriesOn(platter)
        BY DEF EntriesOn
      <3> QED
        BY <3>1
    <2>4. Kin(platter)
      BY <2>3, PlatterFine DEF Fine
    <2> QED
      BY <2>1, <2>2, <2>4 DEF Kin
  <1> QED
    BY <1>1, PowerInvariance, PTL

\* A file whose clusters a write leaves reads the same.
LEMMA FileSame ==
    ASSUME NEW on, NEW l, Fine(on, l), NEW on2, NEW s \in EntriesOn(on), ~EntryOn(on, s).subdir,
           EntryOn(on2, s) = EntryOn(on, s),
           Still(on.clusters, on.fat, on2.clusters, on2.fat, s)
    PROVE  FileOn(on2, s) = FileOn(on, s)
  <1> DEFINE d == on.clusters
             f == on.fat
             d2 == on2.clusters
             f2 == on2.fat
             en == EntryOn(on, s)
  <1>1. en = Ref(d, s) /\ Ref(d2, s) = en /\ ~en.subdir /\ ~EntryOn(on2, s).subdir
        /\ EntryOn(on2, s) = en /\ EntryOn(on, s) = en
    BY DEF EntryOn, Ref
  <1>2. Stored(d, f, s[1], en)
    BY FineEntries
  <1>3. Still(d, f, d2, f2, s)
    OBVIOUS
  <1>4. ChainOn(on, s) = Path(f, en.cluster) /\ ChainOn(on2, s) = Path(f2, en.cluster)
    BY <1>1 DEF ChainOn, Path
  <1>5. /\ FileOn(on, s) = [i \in 1 .. Cardinality(Path(f, en.cluster)) |-> d[Part(f, en, i)].data]
        /\ FileOn(on2, s) = [i \in 1 .. Cardinality(Path(f2, en.cluster)) |-> d2[Part(f2, en, i)].data]
    BY <1>1, <1>4 DEF FileOn, Part
  <1> HIDE DEF d, f, d2, f2, en
  <1>6. /\ Path(f2, en.cluster) = Path(f, en.cluster)
        /\ \A i : Part(f2, en, i) = Part(f, en, i)
    BY <1>1, <1>2, <1>3, StillStored
  <1>7. Cardinality(Path(f, en.cluster)) = en.filesize
    BY <1>1, <1>2 DEF Stored
  <1>8. ASSUME NEW i \in 1 .. en.filesize
        PROVE  d2[Part(f2, en, i)].data = d[Part(f, en, i)].data
    <2>1. Part(f, en, i) \in Path(f, en.cluster) /\ ~d[Part(f, en, i)].subdir
      BY <1>1, <1>2 DEF Stored
    <2> QED
      BY <1>1, <1>3, <1>6, <2>1 DEF Still
  <1> QED
    BY <1>5, <1>6, <1>7, <1>8

\* What a step of the driver or a power failure does to the entries.
LEMMA OneEntry ==
    ASSUME NEW on, NEW l, Fine(on, l), NEW on2, OneChange(on, on2), LimitsOnce
    PROVE  LET same(s) == s \in EntriesOn(on2) /\ EntryOn(on2, s) = EntryOn(on, s)
           IN  /\ Cardinality({s \in EntriesOn(on) : ~same(s)}) <= 1
               /\ \A s \in EntriesOn(on) :
                    same(s) /\ ~EntryOn(on, s).subdir => FileOn(on2, s) = FileOn(on, s)
  <1> DEFINE same(s) == s \in EntriesOn(on2) /\ EntryOn(on2, s) = EntryOn(on, s)
             changed == {s \in EntriesOn(on) : ~same(s)}
  <1>1. PICK n : \A s \in EntriesOn(on) :
           \/ s \in EntriesOn(on2) /\ Still(on.clusters, on.fat, on2.clusters, on2.fat, s)
           \/ s = n /\ (s \notin EntriesOn(on2) \/ EntryOn(on2, s).subdir)
    BY DEF OneChange
  <1>2. ASSUME NEW s, Still(on.clusters, on.fat, on2.clusters, on2.fat, s)
        PROVE  EntryOn(on2, s) = EntryOn(on, s)
    BY <1>2 DEF Still, EntryOn, Ref
  <1>3. \A s \in changed : s = n
    BY <1>1, <1>2
  <1>4. Cardinality(changed) <= 1
    <2> HIDE DEF changed
    <2>1. CASE changed = {}
      BY <2>1, FS_EmptySet
    <2>2. CASE changed # {}
      <3>1. changed = {n}
        BY <1>3, <2>2
      <3> QED
        BY <3>1, FS_Singleton
    <2> QED
      BY <2>1, <2>2
  <1>5. ASSUME NEW s \in EntriesOn(on), same(s), ~EntryOn(on, s).subdir
        PROVE  FileOn(on2, s) = FileOn(on, s)
    <2>1. Still(on.clusters, on.fat, on2.clusters, on2.fat, s)
      BY <1>1, <1>5
    <2> QED
      BY <1>5, <2>1, FileSame
  <1> QED
    BY <1>4, <1>5

\* A write of a cluster changes no more than one entry on the disk, and the
\* contents of no file whose entry it leaves: no write of the driver puts two
\* things at stake.  Two directories moved into the same empty one would go
\* with it at one write, for their new parent still says that it is empty, so
\* here move_dir is called once.
THEOREM OneEntryAtATime ==
    ASSUME Breaches \subseteq {"moved"}, LimitsOnce
    PROVE  PowerSpec => OneAtATime
  <1> DEFINE same(s) == s \in EntriesOn(platter') /\ EntryOn(platter', s) = EntryOn(platter, s)
             One == formatted /\ risks' = {} =>
                      /\ Cardinality({s \in EntriesOn(platter) : ~same(s)}) <= 1
                      /\ \A s \in EntriesOn(platter) :
                           same(s) /\ ~EntryOn(platter, s).subdir
                             => FileOn(platter', s) = FileOn(platter, s)
  <1>1. ASSUME PInv, write_clusters PROVE One
    <2> SUFFICES ASSUME formatted PROVE One
      OBVIOUS
    <2>1. Runs(platter, writes, disk, diskFat, limits)
      BY <1>1 DEF PInv
    <2>2. Fine(platter, limits) /\ OneChange(platter, platter')
      BY <1>1, <2>1, RunsNow, WriteStep
    <2> QED
      BY <2>2, OneEntry
  <1>2. ASSUME platter' = platter PROVE One
    <2>1. \A s \in EntriesOn(platter) : same(s)
      BY <1>2
    <2>2. {s \in EntriesOn(platter) : ~same(s)} = {}
      BY <2>1
    <2> QED
      BY <1>2, <2>2, FS_EmptySet
  <1>3. PowerInv /\ [PowerNext]_powerVars => [One]_powerVars
    <2> SUFFICES ASSUME PowerInv, PowerNext PROVE One
      OBVIOUS
    <2>1. Call \/ PowerFails => platter' = platter
      BY DEF Call, PowerFails
    <2>2. CASE write_clusters
      <3> SUFFICES ASSUME risks' = {} PROVE One
        OBVIOUS
      <3>1. PInv
        BY <2>2 DEF write_clusters, PowerInv
      <3> HIDE DEF One
      <3> QED
        BY <1>1, <2>2, <3>1
    <2> HIDE DEF One
    <2> QED
      BY <1>2, <2>1, <2>2 DEF PowerNext
  <1> QED
    BY <1>3, PowerInvariance, PTL DEF PowerSpec, OneAtATime
=============================================================================
