---------------------------- MODULE Fat32Proofs ----------------------------
(***************************************************************************)
(* What TLAPS proves about Fat32, for a disk, tables and files of any size.*)
(***************************************************************************)
EXTENDS Fat32, FiniteSetTheorems, WellFoundedInduction, TLAPS

-----------------------------------------------------------------------------
(***************************************************************************)
(* Smallest and largest numbers                                            *)
(***************************************************************************)
LEMMA MinNat ==
    ASSUME NEW S \in SUBSET Nat, S # {}
    PROVE  Min(S) \in S /\ \A x \in S : Min(S) <= x
  <1>1. PICK x \in S : \A y \in S : <<y, x>> \notin OpToRel(<, Nat)
    BY NatLessThanWellFounded, WFMin
  <1>2. \A y \in S : x <= y
    <2>1. \A y \in S : ~(y < x)
      BY <1>1, Zenon DEF OpToRel
    <2> QED
      BY <2>1
  <1> QED
    BY <1>2 DEF Min

LEMMA MaxNat ==
    ASSUME NEW b \in Nat, NEW S \in SUBSET (0 .. b), S # {}
    PROVE  Max(S) \in S
  <1> DEFINE T == {b - x : x \in S}
  <1>1. T \in SUBSET Nat /\ T # {}
    <2>1. \A x \in S : b - x \in Nat
      OBVIOUS
    <2> QED
      BY <2>1
  <1>2. PICK x \in S : b - x = Min(T)
    BY <1>1, MinNat
  <1>3. \A y \in S : b - x <= b - y
    BY <1>1, <1>2, MinNat
  <1>4. \A y \in S : x >= y
    BY <1>3
  <1> QED
    BY <1>4 DEF Max

LEMMA SizeFacts ==
    /\ CLUSTER_MAP_SIZE \in Nat /\ CLUSTER_MAP_SIZE > 3
    /\ FatIndex \subseteq Clusters /\ Clusters \subseteq Nat
    /\ CLUSTER_MAP_SIZE \in Clusters /\ CLUSTER_MAP_SIZE \notin FatIndex
    /\ {0, 1, 2} \subseteq FatIndex
    /\ FAT32_FAT_END_OF_FILE \notin Clusters /\ CLUSTER_0_VALUE \notin Clusters
    /\ FAT32_FAT_END_OF_FILE # CLUSTER_0_VALUE
  BY SizeAssumption DEF FatIndex, Clusters, FAT32_FAT_END_OF_FILE, CLUSTER_0_VALUE

LEMMA ClustersFinite == IsFiniteSet(Clusters)
  BY SizeFacts, FS_Interval DEF Clusters

-----------------------------------------------------------------------------
(***************************************************************************)
(* Chains                                                                  *)
(***************************************************************************)
LEMMA ReachBasic ==
    ASSUME NEW v, NEW c \in Clusters
    PROVE  /\ Reach(v, c) \subseteq Clusters
           /\ c \in Reach(v, c)
           /\ IsFiniteSet(Reach(v, c))
           /\ v[c] \notin Clusters => Reach(v, c) = {c}
  <1>1. Reach(v, c) \subseteq Clusters /\ c \in Reach(v, c)
    BY DEF Reach
  <1>2. IsFiniteSet(Reach(v, c))
    BY <1>1, ClustersFinite, FS_Subset
  <1>3. v[c] \notin Clusters => Reach(v, c) = {c}
    BY DEF Reach
  <1> QED
    BY <1>1, <1>2, <1>3

\* A chain is closed under the map.
LEMMA ReachClosed ==
    ASSUME NEW v, NEW c \in Clusters
    PROVE  Closed(v, Reach(v, c))
  <1> SUFFICES ASSUME NEW d \in Reach(v, c), v[d] \in Clusters
               PROVE  v[d] \in Reach(v, c)
    BY DEF Closed
  <1> DEFINE linked == {v[x] : x \in Clusters} \cap Clusters
  <1>1. CASE v[c] \notin Clusters
    BY <1>1, ReachBasic
  <1>2. CASE v[c] \in Clusters
    <2>1. d \in Clusters
      BY ReachBasic
    <2>2. v[d] \in linked
      BY <2>1
    <2>3. ASSUME NEW S \in SUBSET linked, v[c] \in S, Closed(v, S)
          PROVE  v[d] \in S
      <3>1. CASE d = c
        BY <2>3, <3>1
      <3>2. CASE d # c
        <4>1. d \in S
          BY <1>2, <2>3, <3>2 DEF Reach
        <4> QED
          BY <2>3, <4>1 DEF Closed
      <3> QED
        BY <3>1, <3>2
    <2> QED
      BY <1>2, <2>2, <2>3 DEF Reach
  <1> QED
    BY <1>1, <1>2

\* It is the least such set.
LEMMA ReachLeast ==
    ASSUME NEW v, NEW c \in Clusters, NEW S \in SUBSET Clusters,
           c \in S, Closed(v, S)
    PROVE  Reach(v, c) \subseteq S
  <1>1. CASE v[c] \notin Clusters
    BY <1>1, ReachBasic
  <1>2. CASE v[c] \in Clusters
    <2> DEFINE linked == {v[x] : x \in Clusters} \cap Clusters
               T == S \cap linked
    <2>1. T \in SUBSET linked /\ v[c] \in T
      BY <1>2 DEF Closed
    <2>2. Closed(v, T)
      BY DEF Closed
    <2> QED
      BY <1>2, <2>1, <2>2 DEF Reach
  <1> QED
    BY <1>1, <1>2

LEMMA ReachTransitive ==
    ASSUME NEW v, NEW c \in Clusters, NEW d \in Reach(v, c)
    PROVE  d \in Clusters /\ Reach(v, d) \subseteq Reach(v, c)
  <1>1. d \in Clusters /\ Reach(v, c) \in SUBSET Clusters
    BY ReachBasic
  <1> QED
    BY <1>1, ReachClosed, ReachLeast

\* After its first cluster a chain is the chain of the next one.
LEMMA ReachStep ==
    ASSUME NEW v, NEW c \in Clusters, v[c] \in Clusters
    PROVE  Reach(v, c) = {c} \cup Reach(v, v[c])
  <1>1. v[c] \in Reach(v, c)
    BY ReachBasic, ReachClosed DEF Closed
  <1>2. Reach(v, v[c]) \subseteq Reach(v, c)
    BY <1>1, ReachTransitive
  <1>3. Closed(v, {c} \cup Reach(v, v[c]))
    BY ReachBasic, ReachClosed DEF Closed
  <1>4. Reach(v, c) \subseteq {c} \cup Reach(v, v[c])
    BY <1>3, ReachBasic, ReachLeast
  <1> QED
    BY <1>2, <1>4, ReachBasic

\* Of two clusters of a chain one is behind the other.
LEMMA ReachTotal ==
    ASSUME NEW v, NEW c \in Clusters, NEW t \in Reach(v, c), NEW u \in Reach(v, c)
    PROVE  t \in Reach(v, u) \/ u \in Reach(v, t)
  <1> DEFINE S == {d \in Reach(v, c) : d \in Reach(v, u) \/ u \in Reach(v, d)}
  <1>1. u \in Clusters /\ Reach(v, c) \in SUBSET Clusters
    BY ReachBasic
  <1>2. c \in S
    BY ReachBasic
  <1>3. ASSUME NEW d \in S, v[d] \in Clusters PROVE v[d] \in S
    <2>1. v[d] \in Reach(v, c) /\ d \in Clusters
      BY <1>3, <1>1, ReachClosed DEF Closed
    <2>2. CASE d \in Reach(v, u)
      BY <1>1, <1>3, <2>1, <2>2, ReachClosed DEF Closed
    <2>3. CASE u \in Reach(v, d) /\ u # d
      BY <1>3, <2>1, <2>3, ReachStep
    <2>4. CASE u = d
      BY <1>1, <1>3, <2>1, <2>4, ReachBasic, ReachClosed DEF Closed
    <2> QED
      BY <2>2, <2>3, <2>4
  <1>4. Closed(v, S)
    BY <1>3 DEF Closed
  <1>5. Reach(v, c) \subseteq S
    BY <1>1, <1>2, <1>4, ReachLeast
  <1> QED
    BY <1>5

\* The longer of two chains contains the shorter one.
LEMMA ReachSize ==
    ASSUME NEW v, NEW c \in Clusters, NEW t \in Reach(v, c), NEW u \in Reach(v, c),
           Cardinality(Reach(v, t)) <= Cardinality(Reach(v, u))
    PROVE  t \in Reach(v, u)
  <1>1. t \in Clusters /\ u \in Clusters
    BY ReachBasic
  <1>2. CASE u \in Reach(v, t)
    <2>1. Reach(v, u) \subseteq Reach(v, t) /\ IsFiniteSet(Reach(v, t))
      BY <1>1, <1>2, ReachTransitive, ReachBasic
    <2>2. Cardinality(Reach(v, u)) <= Cardinality(Reach(v, t))
      BY <2>1, FS_Subset
    <2>3. IsFiniteSet(Reach(v, u)) /\ Cardinality(Reach(v, u)) \in Nat /\ Cardinality(Reach(v, t)) \in Nat
      BY <1>1, ReachBasic, FS_CardinalityType
    <2>4. Reach(v, u) = Reach(v, t)
      BY <2>1, <2>2, <2>3, FS_Subset
    <2> QED
      BY <1>1, <2>4, ReachBasic
  <1> QED
    BY <1>2, ReachTotal

\* A set of clusters of one chain has a first and a last element.
LEMMA LastOfIn ==
    ASSUME NEW v, NEW c \in Clusters, NEW S \in SUBSET Reach(v, c), S # {}
    PROVE  LastOf(v, S) \in S /\ \A u \in S : LastOf(v, S) \in Reach(v, u)
  <1> DEFINE Sizes == {Cardinality(Reach(v, t)) : t \in S}
  <1>1. Sizes \in SUBSET Nat /\ Sizes # {}
    BY ReachBasic, FS_CardinalityType
  <1>2. PICK t \in S : Cardinality(Reach(v, t)) = Min(Sizes)
    BY <1>1, MinNat
  <1>3. \A u \in S : Cardinality(Reach(v, t)) <= Cardinality(Reach(v, u))
    BY <1>1, <1>2, MinNat
  <1>4. \A u \in S : t \in Reach(v, u)
    BY <1>3, ReachSize
  <1> QED
    BY <1>2, <1>4 DEF LastOf

LEMMA FirstOfIn ==
    ASSUME NEW v, NEW c \in Clusters, NEW S \in SUBSET Reach(v, c), S # {}
    PROVE  FirstOf(v, S) \in S /\ S \subseteq Reach(v, FirstOf(v, S))
  <1> DEFINE Room(t) == CLUSTER_MAP_SIZE + 1 - Cardinality(Reach(v, t))
             Rooms == {Room(t) : t \in S}
  <1>1. Cardinality(Clusters) = CLUSTER_MAP_SIZE + 1
    BY SizeFacts, FS_Interval DEF Clusters
  <1>2. \A t \in S : Cardinality(Reach(v, t)) \in Nat /\ Room(t) \in Nat
    <2> TAKE t \in S
    <2>1. t \in Clusters
      BY ReachBasic
    <2>2. Cardinality(Reach(v, t)) \in Nat
          /\ Cardinality(Reach(v, t)) <= Cardinality(Clusters)
      BY <2>1, ReachBasic, ClustersFinite, FS_Subset, FS_CardinalityType
    <2> QED
      BY <1>1, <2>2, SizeFacts
  <1>3. Rooms \in SUBSET Nat /\ Rooms # {}
    BY <1>2
  <1>4. PICK t \in S : Room(t) = Min(Rooms)
    BY <1>3, MinNat
  <1>5. \A u \in S : Room(t) <= Room(u)
    BY <1>3, <1>4, MinNat
  <1>6. \A u \in S : Cardinality(Reach(v, u)) <= Cardinality(Reach(v, t))
    BY <1>2, <1>5, SizeFacts
  <1>7. S \subseteq Reach(v, t)
    BY <1>6, ReachSize
  <1> QED
    BY <1>4, <1>7 DEF FirstOf


\* The last cluster of a chain that ends is the one with the mark.
LEMMA LastIsEnd ==
    ASSUME NEW v, NEW c \in Clusters, Terminates(v, c)
    PROVE  /\ LastOf(v, Reach(v, c)) \in Reach(v, c)
           /\ v[LastOf(v, Reach(v, c))] = FAT32_FAT_END_OF_FILE
  <1>1. PICK d \in Reach(v, c) : v[d] = FAT32_FAT_END_OF_FILE
    BY DEF Terminates
  <1>2. d \in Clusters /\ Reach(v, d) = {d}
    BY <1>1, ReachBasic, SizeFacts
  <1>3. LastOf(v, Reach(v, c)) \in Reach(v, c) /\ LastOf(v, Reach(v, c)) \in Reach(v, d)
    BY <1>1, LastOfIn
  <1> QED
    BY <1>1, <1>2, <1>3

-----------------------------------------------------------------------------
(***************************************************************************)
(* The inductive invariant: beyond the types, no link of the FAT leads to  *)
(* the reserved clusters and no live entry points to one, so that no chain *)
(* that write extends or delete frees contains them.  On a disk that has   *)
(* never been full none leads to cluster CLUSTER_MAP_SIZE either, from     *)
(* where a chain may go on to root.                                        *)
(***************************************************************************)
Data == 3 .. CLUSTER_MAP_SIZE

\* The clusters that entries and links may lead to.
Room == IF "disk_full" \in limits THEN Data ELSE Data \ {CLUSTER_MAP_SIZE}

FatIn(f, D) ==
    /\ f \in [FatIndex -> FatValues]
    /\ f[0] = CLUSTER_0_VALUE
    /\ f[1] = FAT32_FAT_END_OF_FILE
    /\ CLUSTER_MAP_SIZE \notin D => f[ROOT_CLUSTER_NUMBER] # 0
    /\ \A c \in FatIndex \ {0, 1} : f[c] \in {0, FAT32_FAT_END_OF_FILE} \cup D

TableIn(t, D) ==
    /\ t \in Cluster
    /\ \A i \in Slots : t.slots[i].undelete => t.slots[i].cluster \in D

DiskIn(d, D) == d \in [Clusters -> Cluster] /\ \A c \in Clusters : TableIn(d[c], D)

Held(D) ==
    /\ DiskIn(disk, D)
    /\ FatIn(diskFat, D)
    /\ FatIn(fat_table, D)
    /\ ~hung => fat_table = diskFat
    /\ reply.ret \in Codes
    /\ hung \in BOOLEAN
    /\ limits \subseteq Breaches

Base == Held(Room)

\* More room is no harm.
LEMMA RoomGrows ==
    ASSUME NEW D, NEW E \in SUBSET Data, D \subseteq E
    PROVE  /\ \A t : TableIn(t, D) => TableIn(t, E)
           /\ \A d : DiskIn(d, D) => DiskIn(d, E)
           /\ \A f : FatIn(f, D) => FatIn(f, E)
  <1>1. \A t : TableIn(t, D) => TableIn(t, E)
    BY DEF TableIn
  <1>2. \A d : DiskIn(d, D) => DiskIn(d, E)
    BY <1>1 DEF DiskIn
  <1>3. \A f : FatIn(f, D) => FatIn(f, E)
    BY DEF FatIn
  <1> QED
    BY <1>1, <1>2, <1>3

LEMMA DataFacts == Data \subseteq Clusters /\ {0, 1, 2} \cap Data = {} /\ CLUSTER_MAP_SIZE \in Data
  BY SizeFacts DEF Data, Clusters

\* No name spells the cluster of the FAT.
LEMMA WordNotOne == ASSUME NEW name PROVE WordOf(name) # 1
  BY WordAssumption, SizeFacts DEF WordOf, Clusters, FAT32_FAT_END_OF_FILE, CLUSTER_0_VALUE

\* A chain keeps off the FAT's own cluster, and off root as well unless it
\* starts there or the disk has been full.
LEMMA ChainAvoids ==
    ASSUME NEW D \in SUBSET Data, NEW f, FatIn(f, D), NEW name, NEW c \in Clusters \ {1}
    PROVE  /\ Reach(FatView(f, name), c) \subseteq Clusters \ {1}
           /\ CLUSTER_MAP_SIZE \notin D \cup {c} => Reach(FatView(f, name), c) \subseteq {c, 0} \cup D
  <1> DEFINE v == FatView(f, name)
             S == Clusters \ {1}
             T == {c, 0} \cup D
  <1>1. c \in S /\ c \in T /\ S \in SUBSET Clusters /\ T \in SUBSET Clusters /\ c \in Clusters
    BY DataFacts, SizeFacts
  <1>2. v[0] \notin Clusters
    BY SizeFacts DEF FatView, FatIn
  <1>3. \A d \in FatIndex \ {0, 1} : v[d] \in {0, FAT32_FAT_END_OF_FILE} \cup D
    BY SizeFacts DEF FatView, FatIn
  <1>4. v[CLUSTER_MAP_SIZE] # 1
    <2>1. v[CLUSTER_MAP_SIZE] = WordOf(name)
      BY SizeFacts DEF FatView
    <2> QED
      BY <2>1, WordNotOne
  <1>5. \A d \in Clusters : d = CLUSTER_MAP_SIZE \/ d \in FatIndex
    BY SizeFacts DEF Clusters, FatIndex
  <1> HIDE DEF v
  <1>6. ASSUME NEW d \in S, v[d] \in Clusters PROVE v[d] \in S
    <2>1. CASE d \in FatIndex \ {0, 1}
      BY <1>3, <1>6, <2>1, DataFacts, SizeFacts
    <2>2. CASE d = 0
      BY <1>2, <1>6, <2>2
    <2>3. CASE d = CLUSTER_MAP_SIZE
      BY <1>4, <1>6, <2>3
    <2> QED
      BY <1>5, <2>1, <2>2, <2>3
  <1>7. ASSUME CLUSTER_MAP_SIZE \notin D \cup {c}, NEW d \in T, v[d] \in Clusters PROVE v[d] \in T
    <2>1. d = 0 \/ d \in FatIndex \ {0, 1}
      BY <1>5, <1>7, DataFacts
    <2> QED
      BY <1>2, <1>3, <1>7, <2>1, SizeFacts
  <1>8. Closed(v, S) /\ (CLUSTER_MAP_SIZE \notin D \cup {c} => Closed(v, T))
    BY <1>6, <1>7 DEF Closed
  <1> HIDE DEF S, T
  <1>9. /\ Reach(v, c) \subseteq S
        /\ CLUSTER_MAP_SIZE \notin D \cup {c} => Reach(v, c) \subseteq T
    BY <1>1, <1>8, ReachLeast
  <1> QED
    BY <1>9 DEF v, S, T

\* If it ends, it keeps off cluster 0 as well.
LEMMA EndingChainAvoids ==
    ASSUME NEW D \in SUBSET Data, NEW f, FatIn(f, D), NEW name, NEW c \in Clusters \ {0, 1},
           Terminates(FatView(f, name), c)
    PROVE  /\ Reach(FatView(f, name), c) \subseteq Clusters \ {0, 1}
           /\ CLUSTER_MAP_SIZE \notin D \cup {c} => Reach(FatView(f, name), c) \subseteq {c} \cup D
  <1> DEFINE v == FatView(f, name)
  <1>1. c \in Clusters /\ 0 \in Clusters /\ v[0] = CLUSTER_0_VALUE
    BY SizeFacts DEF FatView, FatIn
  <1>2. Reach(v, 0) = {0}
    BY <1>1, ReachBasic, SizeFacts
  <1> HIDE DEF v
  <1>3. PICK d \in Reach(v, c) : v[d] = FAT32_FAT_END_OF_FILE
    BY DEF Terminates, v
  <1>4. d \in Clusters /\ Reach(v, d) = {d} /\ d # 0
    BY <1>1, <1>3, ReachBasic, SizeFacts
  <1>5. 0 \notin Reach(v, c)
    <2> SUFFICES ASSUME 0 \in Reach(v, c) PROVE FALSE
      OBVIOUS
    <2>1. 0 \in Reach(v, d) \/ d \in Reach(v, 0)
      BY <1>1, <1>3, ReachTotal
    <2> QED
      BY <1>2, <1>4, <2>1
  <1>6. /\ Reach(v, c) \subseteq Clusters \ {1}
        /\ CLUSTER_MAP_SIZE \notin D \cup {c} => Reach(v, c) \subseteq {c, 0} \cup D
    BY ChainAvoids DEF v
  <1> QED
    BY <1>5, <1>6 DEF v

LEMMA FreeChainOK ==
    ASSUME NEW D \in SUBSET Data, NEW f, FatIn(f, D), NEW chain \in SUBSET (Clusters \ {0, 1}),
           CLUSTER_MAP_SIZE \notin D => ROOT_CLUSTER_NUMBER \notin chain
    PROVE  FatIn(FreeChain(f, chain), D)
  <1>1. FreeChain(f, chain) \in [FatIndex -> FatValues]
    BY SizeFacts DEF FatIn, FreeChain, FatValues
  <1> QED
    BY <1>1, SizeFacts DEF FatIn, FreeChain, ROOT_CLUSTER_NUMBER

LEMMA ChainFatOK ==
    ASSUME NEW D \in SUBSET Data, NEW f, FatIn(f, D), NEW m \in Nat \ {0}, NEW al \in [1 .. m -> D],
           NEW ext, NEW last \in Clusters \ {0, 1}
    PROVE  FatIn(ChainFat(f, al, ext, last), D)
  <1> DEFINE g == ChainFat(f, al, ext, last)
  <1>1. D \subseteq FatValues /\ FAT32_FAT_END_OF_FILE \in FatValues
    BY DataFacts DEF FatValues
  <1>2. ASSUME NEW c \in FatIndex
        PROVE  \/ g[c] \in {FAT32_FAT_END_OF_FILE} \cup D /\ c \notin {0, 1}
               \/ g[c] = f[c]
    <2>1. CASE \E i \in DOMAIN al : al[i] = c
      <3>1. c \in D
        BY <2>1
      <3>2. c \notin {0, 1}
        BY <3>1, DataFacts
      <3>3. g[c] \in {FAT32_FAT_END_OF_FILE} \cup D
        BY <1>2, <2>1 DEF ChainFat
      <3> QED
        BY <3>2, <3>3
    <2>2. CASE ~\E i \in DOMAIN al : al[i] = c
      BY <1>2, <2>2 DEF ChainFat
    <2> QED
      BY <2>1, <2>2
  <1>3. g \in [FatIndex -> FatValues]
    <2>1. \A c \in FatIndex : g[c] \in FatValues
      BY <1>1, <1>2 DEF FatIn
    <2> QED
      BY <2>1 DEF ChainFat
  <1>4. CLUSTER_MAP_SIZE \notin D => g[ROOT_CLUSTER_NUMBER] # 0
    BY <1>2, SizeFacts, DataFacts DEF FatIn, ROOT_CLUSTER_NUMBER
  <1> HIDE DEF g
  <1>5. FatIn(g, D)
    BY <1>2, <1>3, <1>4, SizeFacts DEF FatIn
  <1> QED
    BY <1>5 DEF g

\* A table stays well formed when an entry is put into it.
LEMMA PutEntry ==
    ASSUME NEW D \in SUBSET Data, NEW t, TableIn(t, D), NEW i, NEW en \in Entry, en.undelete => en.cluster \in D
    PROVE  TableIn([t EXCEPT !.slots[i] = en], D)
  <1> DEFINE u == [t EXCEPT !.slots[i] = en]
  <1>1. t.slots \in [Slots -> Entry] /\ t \in Cluster
    BY DEF TableIn, Cluster
  <1>2. [t.slots EXCEPT ![i] = en] \in [Slots -> Entry]
    BY <1>1
  <1>3. u \in Cluster /\ u.slots = [t.slots EXCEPT ![i] = en]
    BY <1>1, <1>2 DEF Cluster
  <1>4. \A j \in Slots : u.slots[j] = en \/ u.slots[j] = t.slots[j]
    BY <1>1, <1>3
  <1> QED
    BY <1>3, <1>4 DEF TableIn

-----------------------------------------------------------------------------
(***************************************************************************)
(* Entries and tables                                                      *)
(***************************************************************************)
NameSet == Names \cup {NoName, RootName, Smashed}

LEMMA findEmptyClusterOK ==
    ASSUME NEW f, NEW taken
    PROVE  findEmptyCluster(f, taken) \in Data
  <1> DEFINE free == {c \in 3 .. CLUSTER_MAP_SIZE - 1 : f[c] = 0 /\ c \notin taken}
  <1>1. free \in SUBSET Nat
    BY SizeFacts
  <1>2. CASE free = {}
    BY <1>2, SizeFacts DEF findEmptyCluster, Data
  <1>3. CASE free # {}
    <2>1. Min(free) \in free
      BY <1>1, <1>3, MinNat
    <2> QED
      BY <1>3, <2>1, SizeFacts DEF findEmptyCluster, Data
  <1> QED
    BY <1>2, <1>3

LEMMA MinSlot ==
    ASSUME NEW S \in SUBSET Slots, S # {}
    PROVE  Min(S) \in S
  <1>1. Slots \in SUBSET Nat
    BY SizeAssumption DEF Slots
  <1> QED
    BY <1>1, MinNat

LEMMA EntryTypes ==
    /\ NullEntry \in Entry
    /\ \A n \in Names, e \in Exts, k \in 0 .. MAX_FILE_CLUSTERS, c \in Data :
         NewEntry(n, e, k, c) \in Entry /\ NewEntry(n, e, k, c).cluster = c
    /\ \A r : \A name \in NameSet : r.buf \in Cluster /\ r.cluster \in Data =>
         DirEntry(r, name) \in Entry /\ DirEntry(r, name).cluster = r.cluster
  <1>1. 0 \in 0 .. MAX_FILE_CLUSTERS /\ NoExt \in Exts /\ 0 \in Clusters /\ Data \subseteq Clusters
    BY SizeAssumption, SizeFacts, NameAssumption DEF Clusters, Data
  <1>2. NullEntry \in Entry
    BY <1>1 DEF NullEntry, Entry
  <1>3. ASSUME NEW n \in Names, NEW e \in Exts, NEW k \in 0 .. MAX_FILE_CLUSTERS, NEW c \in Data
        PROVE  NewEntry(n, e, k, c) \in Entry /\ NewEntry(n, e, k, c).cluster = c
    <2>1. (IF k = 0 THEN NoExt ELSE e) \in Exts
      BY <1>1
    <2> QED
      BY <1>1, <2>1 DEF NewEntry, Entry
  <1>4. ASSUME NEW r, r.buf \in Cluster, r.cluster \in Data, NEW name \in NameSet
        PROVE  DirEntry(r, name) \in Entry /\ DirEntry(r, name).cluster = r.cluster
    <2>1. r.buf.subdir \in BOOLEAN
      BY <1>4 DEF Cluster
    <2> QED
      BY <1>1, <1>4, <2>1 DEF DirEntry, Entry, NameSet
  <1> QED
    BY <1>2, <1>3, <1>4

LEMMA BlankOK == ASSUME NEW D PROVE TableIn(Blank, D)
  <1>1. 0 \in Clusters
    BY SizeFacts DEF Clusters
  <1>2. [i \in Slots |-> NullEntry] \in [Slots -> Entry]
    BY EntryTypes
  <1>3. Blank \in Cluster
    BY <1>1, <1>2 DEF Blank, Cluster
  <1> QED
    BY <1>3 DEF TableIn, Blank, NullEntry

LEMMA NewClusterOK ==
    ASSUME NEW D \in SUBSET Data, NEW p \in Clusters, NEW n \in NameSet, NEW k \in Nat, NEW x \in Contents,
           NEW i \in Nat \ {0}
    PROVE  /\ TableIn(init_directory_table(n, p), D)
           /\ TableIn(NewCluster(p, n, k, x, i), D)
  <1>1. TableIn(init_directory_table(n, p), D)
    <2>1. init_directory_table(n, p) \in Cluster
      BY BlankOK DEF TableIn, init_directory_table, Cluster, NameSet
    <2>2. init_directory_table(n, p).slots = Blank.slots
      BY BlankOK DEF TableIn, Cluster, init_directory_table
    <2> QED
      BY <2>1, <2>2, BlankOK DEF TableIn
  <1>2. ASSUME NEW j \in Nat PROVE TableIn([Blank EXCEPT !.data = <<x, j>>], D)
    <2>1. [Blank EXCEPT !.data = <<x, j>>] \in Cluster
      BY BlankOK DEF TableIn, Cluster
    <2>2. [Blank EXCEPT !.data = <<x, j>>].slots = Blank.slots
      BY BlankOK DEF TableIn, Cluster
    <2> QED
      BY <2>1, <2>2, BlankOK DEF TableIn
  <1>3. (i - 1) % FRAGMENT_CTR_SIZE \in Nat
    BY SizeAssumption
  <1> QED
    BY <1>1, <1>2, <1>3 DEF NewCluster

\* Changes of the header leave the entries alone.
LEMMA HeaderChange ==
    ASSUME NEW D \in SUBSET Data, NEW t, TableIn(t, D)
    PROVE  /\ \A name \in NameSet : TableIn([t EXCEPT !.name = name], D)
           /\ \A parent \in Clusters : TableIn([t EXCEPT !.parent = parent], D)
           /\ \A b \in BOOLEAN : TableIn([t EXCEPT !.notEmpty = b], D)
           /\ TableIn([t EXCEPT !.data = NoData], D)
  <1>1. t \in Cluster
    BY DEF TableIn
  <1>2. ASSUME NEW name \in NameSet PROVE TableIn([t EXCEPT !.name = name], D)
    <2>1. [t EXCEPT !.name = name] \in Cluster /\ [t EXCEPT !.name = name].slots = t.slots
      BY <1>1 DEF Cluster, NameSet
    <2> QED
      BY <2>1 DEF TableIn
  <1>3. ASSUME NEW parent \in Clusters PROVE TableIn([t EXCEPT !.parent = parent], D)
    <2>1. [t EXCEPT !.parent = parent] \in Cluster /\ [t EXCEPT !.parent = parent].slots = t.slots
      BY <1>1 DEF Cluster
    <2> QED
      BY <2>1 DEF TableIn
  <1>4. ASSUME NEW b \in BOOLEAN PROVE TableIn([t EXCEPT !.notEmpty = b], D)
    <2>1. [t EXCEPT !.notEmpty = b] \in Cluster /\ [t EXCEPT !.notEmpty = b].slots = t.slots
      BY <1>1 DEF Cluster
    <2> QED
      BY <2>1 DEF TableIn
  <1>5. TableIn([t EXCEPT !.data = NoData], D)
    <2>1. [t EXCEPT !.data = NoData] \in Cluster /\ [t EXCEPT !.data = NoData].slots = t.slots
      BY <1>1 DEF Cluster
    <2> QED
      BY <2>1 DEF TableIn
  <1> QED
    BY <1>2, <1>3, <1>4, <1>5

-----------------------------------------------------------------------------
(***************************************************************************)
(* read_directory, read and read_root_directory                            *)
(***************************************************************************)
LEMMA ParentsOK == ASSUME NEW p \in Parents PROVE p \in 2 .. CLUSTER_MAP_SIZE /\ p \in Clusters \ {0, 1}
  BY SizeFacts DEF Parents, Clusters

\* The child found in a table is a data cluster.
LEMMA ChildOK ==
    ASSUME NEW D \in SUBSET Data, NEW t, TableIn(t, D), NEW n, NEW e, FoundIn(t, n, e) # {}
    PROVE  ChildIn(t, n, e) \in D
  <1>1. FoundIn(t, n, e) \in SUBSET Slots
    BY DEF FoundIn, Named
  <1>2. Min(FoundIn(t, n, e)) \in FoundIn(t, n, e)
    BY <1>1, MinSlot
  <1> QED
    BY <1>1, <1>2 DEF ChildIn, FoundIn, Named, TableIn

LEMMA LastReadOK ==
    ASSUME NEW D \in SUBSET Data, DiskIn(disk, D), NEW w, NEW c \in Clusters, NEW room, 0 < room
    PROVE  TableIn(LastRead(w, c, room), D)
  <1> DEFINE S == {d \in Reach(w, c) :
                     Cardinality(Reach(w, c)) - Cardinality(Reach(w, d)) < room}
  <1>1. Cardinality(Reach(w, c)) \in Nat
    BY ReachBasic, FS_CardinalityType
  <1>2. c \in S
    BY <1>1, ReachBasic
  <1>3. LastOf(w, S) \in Clusters
    BY <1>2, LastOfIn, ReachBasic
  <1> QED
    BY <1>3 DEF LastRead, DiskIn

LEMMA ReadDirectoryOK ==
    ASSUME NEW D \in SUBSET Data, DiskIn(disk, D), FatIn(fat_table, D), FatIn(diskFat, D),
           NEW p \in Parents, NEW n, NEW e, NEW size \in BufferSizes,
           NEW r, r = ReadDirectory(p, n, e, size)
    PROVE  /\ DiskIn(r.disk, D)
           /\ r.fat \in {fat_table, diskFat}
           /\ TableIn(r.buf, D)
           /\ r.ret \in Codes
           /\ r.ret = 0 => r.cluster \in D
  <1> DEFINE v == DirView(fat_table)
             seen == {t \in Reach(v, p) : Named(disk[t], n, e) # {}}
             hits == {t \in seen : FoundIn(disk[t], n, e) # {}}
             child(t) == ChildIn(disk[t], n, e)
             w(t) == FatView(diskFat, disk[t].name)
             before(t) == {u \in hits : u # t /\ t \in Reach(v, u)}
             space(t) == size - Cardinality({u \in before(t) \X Clusters :
                                               u[2] \in Reach(w(u[1]), child(u[1]))})
             room(t) == IF \A u \in before(t) : Terminates(w(u), child(u)) THEN space(t) ELSE 0
             served == {t \in hits : room(t) > 0}
             last == LastOf(v, served)
  <1>1. r = IF ~disk[p].subdir \/ served = {}
            THEN [ret |-> IF ~disk[p].subdir THEN -1 ELSE IF seen = {} THEN 3 ELSE 1,
                  hangs |-> disk[p].subdir /\ ~Terminates(v, p),
                  disk |-> disk, fat |-> fat_table, cluster |-> 0, buf |-> Blank]
            ELSE [ret |-> IF LastOf(v, seen) \notin hits THEN 1
                          ELSE IF LastOf(v, seen) \in served THEN 0 ELSE 2,
                  hangs |-> ~Terminates(v, p),
                  disk |-> [disk EXCEPT ![p] = disk[last]],
                  fat |-> diskFat,
                  cluster |-> child(last),
                  buf |-> LastRead(w(last), child(last), room(last))]
    BY DEF ReadDirectory
  <1>2. \A t : room(t) > 0 => 0 < room(t)
    <2> TAKE t
    <2> DEFINE X == {u \in before(t) \X Clusters : u[2] \in Reach(w(u[1]), child(u[1]))}
    <2>1. X \subseteq Clusters \X Clusters
      BY ParentsOK, ReachBasic
    <2>2. IsFiniteSet(Clusters \X Clusters)
      BY ClustersFinite, FS_Product
    <2> HIDE DEF X
    <2>3. Cardinality(X) \in Nat
      BY <2>1, <2>2, FS_Subset, FS_CardinalityType
    <2>4. size - Cardinality(X) \in Int
      BY <2>3, SizeAssumption
    <2>5. room(t) \in Int
      BY <2>4 DEF X
    <2> HIDE DEF room
    <2> QED
      BY <2>5
  <1>3. served \in SUBSET Reach(v, p) /\ Reach(v, p) \in SUBSET Clusters
    BY ParentsOK, ReachBasic
  <1>4. CASE ~disk[p].subdir \/ served = {}
    <2> HIDE DEF v, seen, served, hits
    <2> QED
      BY <1>1, <1>4, BlankOK DEF Codes
  <1>5. CASE ~(~disk[p].subdir \/ served = {})
    <2>1. last \in served
      BY <1>3, <1>5, ParentsOK, LastOfIn
    <2>2. last \in Clusters /\ FoundIn(disk[last], n, e) # {} /\ 0 < room(last)
      BY <1>2, <1>3, <2>1
    <2> HIDE DEF v, seen, served, hits, last, room, w
    <2>3. child(last) \in D /\ child(last) \in Clusters
      BY <2>2, ChildOK, DataFacts DEF DiskIn
    <2> HIDE DEF child
    <2>4. TableIn(LastRead(w(last), child(last), room(last)), D)
      BY <2>2, <2>3, LastReadOK
    <2>5. DiskIn([disk EXCEPT ![p] = disk[last]], D)
      BY <2>2, ParentsOK DEF DiskIn
    <2> QED
      BY <1>1, <1>5, <2>3, <2>4, <2>5 DEF Codes
  <1> QED
    BY <1>4, <1>5

\* What a call that answers or hangs does to the variables outside the disk.
LEMMA CallOutcome ==
    ASSUME reply.ret \in Codes, limits \subseteq Breaches, NEW b, Breach(b),
           NEW ret \in Codes, NEW data, Answer(ret, data) \/ Hang, hung \in BOOLEAN
    PROVE  /\ reply'.ret \in Codes
           /\ hung' \in BOOLEAN
           /\ limits' \subseteq Breaches
  <1>1. limits' \subseteq Breaches
    BY DEF Breach
  <1>2. CASE Answer(ret, data)
    BY <1>1, <1>2 DEF Answer
  <1>3. CASE Hang
    BY <1>1, <1>3 DEF Hang
  <1> QED
    BY <1>2, <1>3

LEMMA read_directoryStep ==
    ASSUME NEW D \in SUBSET Data, Held(D), NEW p \in Parents, NEW n, NEW e, NEW size \in BufferSizes,
           read_directory(p, n, e, size)
    PROVE  Held(D)'
  <1> DEFINE r == ReadDirectory(p, n, e, size)
  <1>1. /\ DiskIn(r.disk, D) /\ r.fat \in {fat_table, diskFat} /\ r.ret \in Codes
    BY ReadDirectoryOK DEF Held
  <1>2. /\ ~hung /\ Breach(Stale(p))
        /\ disk' = r.disk /\ fat_table' = r.fat /\ diskFat' = diskFat
        /\ Answer(r.ret, <<>>) \/ Hang
    BY DEF read_directory
  <1> HIDE DEF r
  <1>3. reply'.ret \in Codes /\ hung' \in BOOLEAN /\ limits' \subseteq Breaches
    BY <1>1, <1>2, CallOutcome DEF Held
  <1> QED
    BY <1>1, <1>2, <1>3 DEF Held

LEMMA readStep ==
    ASSUME NEW D \in SUBSET Data, Held(D), NEW p \in Parents, NEW n, NEW e, NEW size, read(p, n, e, size)
    PROVE  Held(D)'
  <1> DEFINE v == DirView(fat_table)
             tables == Reach(v, p)
             files(t) == {i \in Named(disk[t], n, e) : ~disk[t].slots[i].subdir}
             hits == {t \in tables : files(t) # {}}
             file(t) == disk[t].slots[Min(files(t))]
             w(t) == FatView(diskFat, disk[t].name)
             before(t) == {u \in hits : u # t /\ t \in Reach(v, u)}
             room(t) == size - Cardinality({u \in hits \X Clusters :
                          u[1] \in before(t) /\ u[2] \in Reach(w(u[1]), file(u[1]).cluster)})
             small == {t \in hits : room(t) < file(t).filesize}
             served == {t \in hits \ small : before(t) \cap small = {}}
             last == LastOf(v, served)
  <1>1. /\ ~hung /\ Breach(Stale(p)) /\ diskFat' = diskFat
        /\ \/ disk' = disk
           \/ disk' = [disk EXCEPT ![p] = disk[last]] /\ served # {}
        /\ fat_table' \in {fat_table, diskFat}
        /\ \E ret \in Codes : \E data : Answer(ret, data) \/ Hang
    <2>1. {-1, 0, 1, 2, 3} \subseteq Codes
      BY DEF Codes
    <2> QED
      BY <2>1 DEF read
  <1>2. served \in SUBSET Reach(v, p) /\ Reach(v, p) \in SUBSET Clusters
    BY ParentsOK, ReachBasic
  <1> HIDE DEF v, served
  <1>3. DiskIn(disk', D)
    <2>1. CASE served # {}
      <3>1. last \in Clusters
        BY <1>2, <2>1, ParentsOK, LastOfIn
      <3> QED
        BY <1>1, <3>1, ParentsOK DEF Held, DiskIn
    <2> QED
      BY <1>1, <2>1 DEF Held
  <1>4. reply'.ret \in Codes /\ hung' \in BOOLEAN /\ limits' \subseteq Breaches
    BY <1>1, CallOutcome DEF Held
  <1> QED
    BY <1>1, <1>3, <1>4 DEF Held

LEMMA read_root_directoryStep == ASSUME NEW D \in SUBSET Data, Held(D), read_root_directory PROVE Held(D)'
  <1>1. 0 \in Codes
    BY DEF Codes
  <1>2. reply'.ret \in Codes /\ hung' \in BOOLEAN /\ limits' \subseteq Breaches
    BY <1>1, CallOutcome DEF Held, read_root_directory
  <1> QED
    BY <1>2 DEF Held, read_root_directory, Answer, Hang

-----------------------------------------------------------------------------
(***************************************************************************)
(* write                                                                   *)
(***************************************************************************)
\* The table in the buffer, once it has the entry and the flag.
LEMMA WriteBufferOK ==
    ASSUME NEW D \in SUBSET Data, NEW t, TableIn(t, D), NEW full \in BOOLEAN, NEW ext, NEW i,
           NEW en \in Entry, en.cluster \in D
    PROVE  TableIn([t EXCEPT !.notEmpty = TRUE,
                             !.name = IF full THEN Smashed ELSE @,
                             !.slots = IF ext = 1 THEN @ ELSE [@ EXCEPT ![i] = en]], D)
  <1> DEFINE name == IF full THEN Smashed ELSE t.name
             flagged == [t EXCEPT !.notEmpty = TRUE]
             named == [flagged EXCEPT !.name = name]
             buf == [t EXCEPT !.notEmpty = TRUE,
                              !.name = IF full THEN Smashed ELSE @,
                              !.slots = IF ext = 1 THEN @ ELSE [@ EXCEPT ![i] = en]]
  <1>1. t \in Cluster /\ name \in NameSet
    BY DEF TableIn, Cluster, NameSet
  <1>2. TableIn(flagged, D)
    BY HeaderChange
  <1>3. TableIn(named, D)
    BY <1>1, <1>2, HeaderChange
  <1>4. CASE ext = 1
    <2>1. buf = named
      BY <1>1, <1>4 DEF Cluster
    <2> QED
      BY <1>3, <2>1
  <1>5. CASE ext # 1
    <2>1. TableIn([named EXCEPT !.slots[i] = en], D)
      BY <1>3, PutEntry
    <2>2. buf = [named EXCEPT !.slots[i] = en]
      BY <1>1, <1>5 DEF Cluster
    <2> QED
      BY <2>1, <2>2
  <1> QED
    BY <1>4, <1>5

LEMMA WriteObjectStep ==
    ASSUME NEW D \in SUBSET Data, Held(D), ~hung, NEW p \in Parents, NEW n \in Names, NEW e \in Exts,
           NEW k \in 0 .. MAX_FILE_CLUSTERS, NEW x \in Contents,
           Terminates(DirView(diskFat), p), Room' \subseteq D,
           WriteObject(p, n, e, k, x)
    PROVE  Held(D)'
  <1> DEFINE v == DirView(diskFat)
             tables == Reach(v, p)
             roomy == {t \in tables : FreeSlots(disk[t]) # {}}
             ext == IF roomy = {} THEN 1 ELSE 0
             last == LastOf(v, tables)
             count == ext + (IF k = 0 THEN 1 ELSE k)
             slot == Min(FreeSlots(disk[FirstOf(v, roomy)]))
  <1>1. last \in Clusters \ {0, 1}
    <2>1. tables \subseteq Clusters \ {0, 1} /\ last \in tables
      BY ParentsOK, EndingChainAvoids, LastIsEnd DEF Held, DirView
    <2> QED
      BY <2>1
  <1>2. ext \in {0, 1} /\ count \in Nat \ {0} /\ k \in Nat
    BY SizeAssumption
  <1>3. PICK al \in [1 .. count -> Data] :
          LET full == \E i \in DOMAIN al : al[i] = CLUSTER_MAP_SIZE
              home == IF ext = 1 THEN al[1] ELSE p
              fat == ChainFat(diskFat, al, ext, last)
              buf == [disk[last] EXCEPT
                        !.notEmpty = TRUE,
                        !.name = IF full THEN Smashed ELSE @,
                        !.slots = IF ext = 1 THEN @
                                  ELSE [@ EXCEPT ![slot] = NewEntry(n, e, k, al[1])]]
          IN  /\ \E b : Breach(b) /\ (full => "disk_full" \in b)
              /\ disk' = [c \in Clusters |->
                            IF c = home THEN buf
                            ELSE IF \E i \in 1 + ext .. count : al[i] = c
                            THEN NewCluster(p, n, k, x,
                                   Max({i \in 1 + ext .. count : al[i] = c}) - ext)
                            ELSE disk[c]]
              /\ StoreFat(fat)
              /\ Answer(0, <<>>)
    <2> DEFINE Risk(al) == Stale(p) \cup {l \in {"disk_full", "table_full", "long_file"} :
                     CASE l = "disk_full" -> \E i \in DOMAIN al : al[i] = CLUSTER_MAP_SIZE
                       [] l = "table_full" -> ext = 1
                       [] l = "long_file" -> k > FRAGMENT_CTR_SIZE}
    <2>1. \A al : (\E i \in DOMAIN al : al[i] = CLUSTER_MAP_SIZE) => "disk_full" \in Risk(al)
      OBVIOUS
    <2> HIDE DEF Risk
    <2>2. PICK al \in [1 .. count -> Data] :
          LET full == \E i \in DOMAIN al : al[i] = CLUSTER_MAP_SIZE
              home == IF ext = 1 THEN al[1] ELSE p
              fat == ChainFat(diskFat, al, ext, last)
              buf == [disk[last] EXCEPT
                        !.notEmpty = TRUE,
                        !.name = IF full THEN Smashed ELSE @,
                        !.slots = IF ext = 1 THEN @
                                  ELSE [@ EXCEPT ![slot] = NewEntry(n, e, k, al[1])]]
          IN  /\ Breach(Risk(al))
              /\ disk' = [c \in Clusters |->
                            IF c = home THEN buf
                            ELSE IF \E i \in 1 + ext .. count : al[i] = c
                            THEN NewCluster(p, n, k, x,
                                   Max({i \in 1 + ext .. count : al[i] = c}) - ext)
                            ELSE disk[c]]
              /\ StoreFat(fat)
              /\ Answer(0, <<>>)
      BY Zenon DEF WriteObject, Data, Risk
    <2> QED
      BY <2>1, <2>2, Zenon
  <1> DEFINE full == \E i \in DOMAIN al : al[i] = CLUSTER_MAP_SIZE
             home == IF ext = 1 THEN al[1] ELSE p
             fat == ChainFat(diskFat, al, ext, last)
             buf == [disk[last] EXCEPT
                       !.notEmpty = TRUE,
                       !.name = IF full THEN Smashed ELSE @,
                       !.slots = IF ext = 1 THEN @
                                 ELSE [@ EXCEPT ![slot] = NewEntry(n, e, k, al[1])]]
             index(c) == Max({i \in 1 + ext .. count : al[i] = c}) - ext
  <1> HIDE DEF v, tables, roomy, ext, last, count, slot
  <1>11. al \in [1 .. count -> D]
    <2>1. full => "disk_full" \in limits'
      BY <1>3 DEF Breach
    <2>2. \A i \in 1 .. count : al[i] \in D
      BY <1>2, <2>1 DEF Room
    <2> QED
      BY <1>2, <2>2
  <1>4. FatIn(fat, D)
    BY <1>1, <1>2, <1>11, ChainFatOK DEF Held
  <1>5. TableIn(buf, D)
    <2>1. 1 \in 1 .. count
      BY <1>2
    <2>2. NewEntry(n, e, k, al[1]) \in Entry /\ NewEntry(n, e, k, al[1]).cluster \in D
      BY <1>11, <2>1, EntryTypes
    <2>3. TableIn(disk[last], D) /\ full \in BOOLEAN
      BY <1>1 DEF Held, DiskIn
    <2> DEFINE t == disk[last]
               en == NewEntry(n, e, k, al[1])
    <2>4. en \in Entry /\ en.cluster \in D /\ TableIn(t, D)
      BY <2>2, <2>3
    <2>5. buf = [t EXCEPT !.notEmpty = TRUE,
                          !.name = IF full THEN Smashed ELSE @,
                          !.slots = IF ext = 1 THEN @ ELSE [@ EXCEPT ![slot] = en]]
      OBVIOUS
    <2> HIDE DEF full, t, en, buf
    <2>6. TableIn([t EXCEPT !.notEmpty = TRUE,
                            !.name = IF full THEN Smashed ELSE @,
                            !.slots = IF ext = 1 THEN @ ELSE [@ EXCEPT ![slot] = en]], D)
      BY <2>3, <2>4, WriteBufferOK
    <2> QED
      BY <2>5, <2>6
  <1>6. ASSUME NEW c \in Clusters, \E i \in 1 + ext .. count : al[i] = c
        PROVE  TableIn(NewCluster(p, n, k, x, index(c)), D)
    <2> DEFINE S == {i \in 1 + ext .. count : al[i] = c}
    <2>1. S \in SUBSET (0 .. count) /\ S # {}
      BY <1>2, <1>6
    <2>2. Max(S) \in S
      BY <1>2, <2>1, MaxNat
    <2>3. index(c) \in Nat \ {0}
      BY <1>2, <2>2
    <2> HIDE DEF index
    <2> QED
      BY <1>2, <2>3, ParentsOK, NewClusterOK DEF NameSet
  <1>7. disk' = [c \in Clusters |->
                   IF c = home THEN buf
                   ELSE IF \E i \in 1 + ext .. count : al[i] = c
                   THEN NewCluster(p, n, k, x, index(c))
                   ELSE disk[c]]
        /\ StoreFat(fat) /\ (\E b : Breach(b)) /\ Answer(0, <<>>)
    BY <1>3
  <1> HIDE DEF buf, fat, home, index
  <1>8. DiskIn(disk', D)
    <2>1. \A c \in Clusters : TableIn(disk[c], D)
      BY DEF Held, DiskIn
    <2>2. \A c \in Clusters : TableIn(disk'[c], D)
      BY <1>5, <1>6, <1>7, <2>1
    <2>3. disk' \in [Clusters -> Cluster]
      BY <1>7, <2>2 DEF TableIn
    <2> QED
      BY <2>2, <2>3 DEF DiskIn
  <1>9. reply'.ret \in Codes /\ hung' \in BOOLEAN /\ limits' \subseteq Breaches
    <2>1. 0 \in Codes
      BY DEF Codes
    <2> QED
      BY <1>7, <2>1, CallOutcome DEF Held
  <1> QED
    BY <1>4, <1>7, <1>8, <1>9 DEF Held, StoreFat

LEMMA writeStep ==
    ASSUME NEW D \in SUBSET Data, Held(D), NEW p \in Parents, NEW n \in Names, NEW e \in Exts,
           NEW k \in 0 .. MAX_FILE_CLUSTERS, NEW x \in Contents, write(p, n, e, k, x),
           Room' \subseteq D
    PROVE  Held(D)'
  <1>1. CASE Terminates(DirView(diskFat), p) /\ WriteObject(p, n, e, k, x)
    BY <1>1, WriteObjectStep DEF write
  <1>2. CASE ~(Terminates(DirView(diskFat), p) /\ WriteObject(p, n, e, k, x))
    <2>1. {0, 1, 2} \subseteq Codes
      BY DEF Codes
    <2>2. /\ ~hung /\ Breach(Stale(p)) /\ fat_table' = diskFat /\ disk' = disk /\ diskFat' = diskFat
          /\ \E ret \in Codes : \E data : Answer(ret, data) \/ Hang
      BY <1>2, <2>1 DEF write
    <2>3. reply'.ret \in Codes /\ hung' \in BOOLEAN /\ limits' \subseteq Breaches
      BY <2>2, CallOutcome DEF Held
    <2> QED
      BY <2>2, <2>3 DEF Held
  <1> QED
    BY <1>1, <1>2

-----------------------------------------------------------------------------
(***************************************************************************)
(* delete                                                                  *)
(***************************************************************************)
LEMMA ClearSlotOK ==
    ASSUME NEW D \in SUBSET Data, NEW t, TableIn(t, D), NEW i, NEW chain
    PROVE  TableIn(ClearSlot(t, i, chain), D)
  <1> DEFINE emptied == [t EXCEPT !.slots[i] = NullEntry]
             name == IF CLUSTER_MAP_SIZE \in chain THEN NoName ELSE t.name
  <1>1. TableIn(emptied, D)
    <2>1. ~NullEntry.undelete
      BY DEF NullEntry
    <2> QED
      BY <2>1, EntryTypes, PutEntry
  <1>2. t \in Cluster /\ name \in NameSet
    BY DEF TableIn, Cluster, NameSet
  <1>3. TableIn([emptied EXCEPT !.name = name], D)
    BY <1>1, <1>2, HeaderChange
  <1>4. ClearSlot(t, i, chain) = [emptied EXCEPT !.name = name]
    BY <1>2 DEF ClearSlot, Cluster
  <1> QED
    BY <1>3, <1>4

LEMMA TableAfterDeleteOK ==
    ASSUME NEW D \in SUBSET Data, DiskIn(disk, D), NEW p \in Parents, NEW cleared, TableIn(cleared, D), NEW f,
           ~SearchHangs(p, cleared, f)
    PROVE  TableIn(TableAfterDelete(p, cleared, f), D)
  <1> DEFINE v == DirView(f)
             rest == Reach(v, p) \ {p}
             live == {t \in rest : LiveSlots(disk[t]) # {}}
             buf == IF LiveSlots(cleared) # {} \/ f[p] = FAT32_FAT_END_OF_FILE THEN cleared
                    ELSE IF live # {} THEN disk[FirstOf(v, live)] ELSE disk[LastOf(v, rest)]
  <1>1. Reach(v, p) \in SUBSET Clusters /\ p \in Clusters
    BY ParentsOK, ReachBasic
  <1>2. TableIn(buf, D)
    <2>1. CASE LiveSlots(cleared) # {} \/ f[p] = FAT32_FAT_END_OF_FILE
      BY <2>1
    <2>2. CASE ~(LiveSlots(cleared) # {} \/ f[p] = FAT32_FAT_END_OF_FILE) /\ live # {}
      <3>1. FirstOf(v, live) \in Clusters
        BY <1>1, <2>2, FirstOfIn
      <3> QED
        BY <2>2, <3>1 DEF DiskIn
    <2>3. CASE ~(LiveSlots(cleared) # {} \/ f[p] = FAT32_FAT_END_OF_FILE) /\ live = {}
      <3>1. Terminates(v, p)
        BY <2>3 DEF SearchHangs
      <3>2. PICK d \in Reach(v, p) : v[d] = FAT32_FAT_END_OF_FILE
        BY <3>1 DEF Terminates
      <3>3. v[p] = f[p]
        BY <1>1, SizeFacts DEF DirView, FatView, Parents, FatIndex
      <3>4. rest # {}
        BY <2>3, <3>2, <3>3
      <3>5. LastOf(v, rest) \in Clusters
        BY <1>1, <3>4, LastOfIn
      <3> QED
        BY <2>3, <3>5 DEF DiskIn
    <2> QED
      BY <2>1, <2>2, <2>3
  <1>3. TableAfterDelete(p, cleared, f) =
          [buf EXCEPT !.notEmpty = IF LiveSlots(buf) = {} THEN FALSE ELSE @]
    BY DEF TableAfterDelete
  <1> HIDE DEF buf
  <1>4. (IF LiveSlots(buf) = {} THEN FALSE ELSE buf.notEmpty) \in BOOLEAN
    BY <1>2 DEF TableIn, Cluster
  <1> QED
    BY <1>2, <1>3, <1>4, HeaderChange

LEMMA deleteStep ==
    ASSUME NEW D \in SUBSET Data, Held(D), NEW p \in Parents, NEW n, NEW e, delete(p, n, e)
    PROVE  Held(D)'
  <1> DEFINE v == DirView(diskFat)
             hits == {t \in Reach(v, p) : Named(disk[t], n, e) # {}}
             t == FirstOf(v, hits)
             i == Min(Named(disk[t], n, e))
             entry == disk[t].slots[i]
             w == FatView(diskFat, disk[t].name)
             chain == Reach(w, entry.cluster)
             cleared == ClearSlot(disk[t], i, chain)
             fat == FreeChain(diskFat, chain)
             ret == IF ~disk[p].subdir THEN -1
                    ELSE IF hits = {} THEN 1
                    ELSE IF InUse(entry) THEN 2 ELSE 0
             hangs == \/ ret = 1 /\ ~Terminates(v, p)
                      \/ ret = 0 /\ (~Terminates(w, entry.cluster) \/ SearchHangs(p, cleared, fat))
  <1>1. /\ ~hung /\ Breach(Stale(p))
        /\ IF ret = 0 /\ ~hangs
           THEN /\ disk' = [disk EXCEPT ![p] = TableAfterDelete(p, cleared, fat)]
                /\ StoreFat(fat)
           ELSE /\ fat_table' = diskFat
                /\ UNCHANGED <<disk, diskFat>>
        /\ IF hangs THEN Hang ELSE Answer(ret, <<>>)
    BY DEF delete
  <1>2. ret \in Codes /\ (ret = 0 => hits # {})
    BY DEF Codes
  <1>3. CASE ret = 0 /\ ~hangs
    <2>1. hits \in SUBSET Reach(v, p) /\ Reach(v, p) \in SUBSET Clusters
      BY ParentsOK, ReachBasic
    <2>2. t \in hits /\ t \in Clusters
      BY <1>2, <1>3, <2>1, ParentsOK, FirstOfIn
    <2>3. i \in Named(disk[t], n, e) /\ i \in Slots
      <3>1. Named(disk[t], n, e) \in SUBSET Slots /\ Named(disk[t], n, e) # {}
        BY <2>2 DEF Named
      <3> QED
        BY <3>1, MinSlot
    <2>4. Terminates(w, entry.cluster) /\ ~SearchHangs(p, cleared, fat)
      BY <1>3
    <2> HIDE DEF t, i, hits
    <2>5. TableIn(disk[t], D)
      BY <2>2 DEF Held, DiskIn
    <2>6. entry.cluster \in D
      BY <2>3, <2>5 DEF TableIn, Named
    <2>7. /\ chain \in SUBSET (Clusters \ {0, 1})
          /\ CLUSTER_MAP_SIZE \notin D => ROOT_CLUSTER_NUMBER \notin chain
      <3>1. entry.cluster \in Clusters \ {0, 1} /\ {entry.cluster} \cup D = D
        BY <2>6, DataFacts
      <3>2. ROOT_CLUSTER_NUMBER \notin D
        BY DataFacts DEF ROOT_CLUSTER_NUMBER
      <3> HIDE DEF entry
      <3> QED
        BY <2>4, <3>1, <3>2, EndingChainAvoids DEF Held
    <2>8. FatIn(fat, D)
      BY <2>7, FreeChainOK DEF Held
    <2>9. TableIn(cleared, D)
      BY <2>5, ClearSlotOK
    <2> HIDE DEF cleared, fat, chain, entry, ret, hangs
    <2>10. TableIn(TableAfterDelete(p, cleared, fat), D)
      BY <2>4, <2>9, TableAfterDeleteOK DEF Held
    <2>11. DiskIn(disk', D)
      BY <1>1, <1>3, <2>10, ParentsOK DEF Held, DiskIn, TableIn
    <2>12. reply'.ret \in Codes /\ hung' \in BOOLEAN /\ limits' \subseteq Breaches
      BY <1>1, <1>2, CallOutcome DEF Held
    <2> QED
      BY <1>1, <1>3, <2>8, <2>11, <2>12 DEF Held, StoreFat
  <1>4. CASE ~(ret = 0 /\ ~hangs)
    <2> HIDE DEF ret, hangs
    <2>1. reply'.ret \in Codes /\ hung' \in BOOLEAN /\ limits' \subseteq Breaches
      BY <1>1, <1>2, CallOutcome DEF Held
    <2> QED
      BY <1>1, <1>4, <2>1 DEF Held
  <1> QED
    BY <1>3, <1>4

-----------------------------------------------------------------------------
(***************************************************************************)
(* rename_dir and move_dir                                                 *)
(***************************************************************************)
\* Replacing a table or an entry of the disk.
LEMMA DiskPut ==
    ASSUME NEW D \in SUBSET Data, NEW d, DiskIn(d, D)
    PROVE  /\ \A c, t : TableIn(t, D) => DiskIn([d EXCEPT ![c] = t], D)
           /\ \A c \in Clusters : \A i : \A en \in Entry : en.cluster \in D =>
                DiskIn([d EXCEPT ![c].slots[i] = en], D)
  <1>1. ASSUME NEW c, NEW t, TableIn(t, D) PROVE DiskIn([d EXCEPT ![c] = t], D)
    <2>1. t \in Cluster
      BY <1>1 DEF TableIn
    <2> QED
      BY <1>1, <2>1 DEF DiskIn
  <1>2. ASSUME NEW c \in Clusters, NEW i, NEW en \in Entry, en.cluster \in D
        PROVE  DiskIn([d EXCEPT ![c].slots[i] = en], D)
    <2>1. TableIn([d[c] EXCEPT !.slots[i] = en], D)
      BY <1>2, PutEntry DEF DiskIn
    <2>2. [d EXCEPT ![c].slots[i] = en] = [d EXCEPT ![c] = [d[c] EXCEPT !.slots[i] = en]]
      OBVIOUS
    <2> QED
      BY <1>1, <2>1, <2>2
  <1> QED
    BY <1>1, <1>2

LEMMA UnmarkOK ==
    ASSUME NEW D \in SUBSET Data, NEW d, DiskIn(d, D), NEW c \in Clusters, NEW i
    PROVE  DiskIn([d EXCEPT ![c].slots[i].undelete = FALSE], D)
  <1> DEFINE t == d[c]
             en == [t.slots[i] EXCEPT !.undelete = FALSE]
             u == [t EXCEPT !.slots[i].undelete = FALSE]
  <1>1. TableIn(t, D)
    BY DEF DiskIn
  <1>2. t \in Cluster /\ t.slots \in [Slots -> Entry]
    BY <1>1 DEF TableIn, Cluster
  <1>3. u = [t EXCEPT !.slots = [t.slots EXCEPT ![i] = en]]
    OBVIOUS
  <1>4. TableIn(u, D)
    <2>1. CASE i \in Slots
      <3>1. en \in Entry /\ ~en.undelete
        BY <1>2, <2>1 DEF Entry
      <3> QED
        BY <1>1, <1>3, <3>1, PutEntry
    <2>2. CASE i \notin Slots
      <3>1. [t.slots EXCEPT ![i] = en] = t.slots
        BY <1>2, <2>2
      <3>2. u = t
        BY <1>2, <1>3, <3>1 DEF Cluster
      <3> QED
        BY <1>1, <3>2
    <2> QED
      BY <2>1, <2>2
  <1>5. [d EXCEPT ![c].slots[i].undelete = FALSE] = [d EXCEPT ![c] = u]
    OBVIOUS
  <1> QED
    BY <1>4, <1>5, DiskPut

LEMMA NotFoundStep ==
    ASSUME NEW D \in SUBSET Data, Held(D), ~hung, NEW p, NEW r, DiskIn(r.disk, D), r.fat \in {fat_table, diskFat},
           r.ret \in Codes, NotFound(p, r)
    PROVE  Held(D)'
  <1>1. Answer(r.ret, <<>>) \/ Hang
    BY DEF NotFound
  <1>2. reply'.ret \in Codes /\ hung' \in BOOLEAN /\ limits' \subseteq Breaches
    BY <1>1, CallOutcome DEF Held, NotFound
  <1> QED
    BY <1>2 DEF Held, NotFound

LEMMA rename_dirStep ==
    ASSUME NEW D \in SUBSET Data, Held(D), NEW p \in Parents, NEW n, NEW e, NEW size \in BufferSizes,
           NEW new \in Names, rename_dir(p, n, e, size, new)
    PROVE  Held(D)'
  <1> DEFINE r == ReadDirectory(p, n, e, size)
  <1>1. /\ DiskIn(r.disk, D) /\ r.fat \in {fat_table, diskFat} /\ TableIn(r.buf, D)
        /\ r.ret \in Codes /\ (r.ret = 0 => r.cluster \in D)
    BY ReadDirectoryOK DEF Held
  <1>2. /\ ~hung
        /\ \/ NotFound(p, r)
           \/ /\ r.ret = 0 /\ \E b : Breach(b)
              /\ disk' = [r.disk EXCEPT
                            ![p].slots[FirstNamed(r.disk[p], n)] = DirEntry(r, new),
                            ![r.cluster] = Renamed(r.buf, new)]
              /\ fat_table' = diskFat
              /\ Answer(0, <<>>)
              /\ UNCHANGED diskFat
    BY DEF rename_dir
  <1> HIDE DEF r
  <1>3. CASE NotFound(p, r)
    BY <1>1, <1>2, <1>3, NotFoundStep
  <1>4. CASE ~NotFound(p, r)
    <2>1. new \in NameSet /\ r.buf \in Cluster
      BY <1>1 DEF NameSet, TableIn
    <2>2. TableIn(Renamed(r.buf, new), D)
      BY <1>1, <2>1, HeaderChange DEF Renamed
    <2>3. DirEntry(r, new) \in Entry /\ DirEntry(r, new).cluster \in D
      BY <1>1, <1>2, <1>4, <2>1, EntryTypes
    <2> DEFINE i == FirstNamed(r.disk[p], n)
               mid == [r.disk EXCEPT ![p].slots[i] = DirEntry(r, new)]
    <2>4. DiskIn(mid, D)
      BY <1>1, <2>3, ParentsOK, DiskPut
    <2>5. disk' = [mid EXCEPT ![r.cluster] = Renamed(r.buf, new)]
      BY <1>2, <1>4
    <2>6. DiskIn(disk', D)
      BY <2>2, <2>4, <2>5, DiskPut
    <2>7. 0 \in Codes
      BY DEF Codes
    <2>8. reply'.ret \in Codes /\ hung' \in BOOLEAN /\ limits' \subseteq Breaches
      BY <1>2, <1>4, <2>7, CallOutcome DEF Held
    <2> QED
      BY <1>2, <1>4, <2>6, <2>8 DEF Held
  <1> QED
    BY <1>3, <1>4

LEMMA MoveIntoOK ==
    ASSUME NEW D \in SUBSET Data, NEW r, TableIn(r.buf, D), r.cluster \in D, NEW old, DiskIn(old, D), NEW v,
           NEW q \in Clusters, \E u \in Reach(v, q) : FreeSlots(old[u]) # {},
           MoveInto(r, old, v, q)
    PROVE  DiskIn(disk', D)
  <1> DEFINE roomy == {t \in Reach(v, q) : FreeSlots(old[t]) # {}}
             home == FirstOf(v, roomy)
             i == Min(FreeSlots(old[home]))
             en == DirEntry(r, r.buf.name)
             mid == [old EXCEPT ![home].slots[i] = en]
  <1>1. home \in Clusters
    BY FirstOfIn, ReachBasic
  <1>2. r.buf \in Cluster /\ r.buf.name \in NameSet
    BY DEF TableIn, Cluster, NameSet
  <1>3. en \in Entry /\ en.cluster \in D
    BY <1>2, EntryTypes
  <1> HIDE DEF home, en
  <1>4. DiskIn(mid, D)
    BY <1>1, <1>3, DiskPut
  <1>5. TableIn(Reparented(r.buf, home), D)
    BY <1>1, HeaderChange DEF Reparented
  <1> DEFINE bare == [mid EXCEPT ![home].data = NoData]
  <1>6. DiskIn(bare, D)
    <2>1. bare = [mid EXCEPT ![home] = [mid[home] EXCEPT !.data = NoData]]
      OBVIOUS
    <2>2. TableIn([mid[home] EXCEPT !.data = NoData], D)
      BY <1>1, <1>4, HeaderChange DEF DiskIn
    <2> HIDE DEF mid, bare
    <2> QED
      BY <1>4, <2>1, <2>2, DiskPut
  <1>7. disk' = [bare EXCEPT ![r.cluster] = Reparented(r.buf, home)]
    BY DEF MoveInto, home, en
  <1> HIDE DEF bare
  <1> QED
    BY <1>5, <1>6, <1>7, DiskPut

LEMMA MoveExtendingOK ==
    ASSUME NEW D \in SUBSET Data, NEW r, TableIn(r.buf, D), r.cluster \in D, NEW old, DiskIn(old, D),
           FatIn(diskFat, D), NEW name, NEW q \in Parents, Terminates(FatView(diskFat, name), q),
           findEmptyCluster(diskFat, {}) \in D,
           MoveExtending(r, old, FatView(diskFat, name), q)
    PROVE  /\ DiskIn(disk', D) /\ FatIn(fat_table', D) /\ FatIn(diskFat', D)
           /\ \/ Hang
              \/ fat_table' = diskFat' /\ Answer(0, <<>>)
  <1> DEFINE v == FatView(diskFat, name)
             last == LastOf(v, Reach(v, q))
             new == findEmptyCluster(diskFat, {})
             fat == ChainFat(diskFat, <<new>>, 1, last)
             Table(junk) == [junk EXCEPT !.subdir = TRUE, !.name = old[last].name,
                                         !.parent = old[last].parent, !.data = NoData]
             Filled(t) == [t EXCEPT !.slots[Min(FreeSlots(t))] = DirEntry(r, r.buf.name)]
  <1>1. last \in Clusters \ {0, 1}
    <2>1. Reach(v, q) \subseteq Clusters \ {0, 1} /\ last \in Reach(v, q)
      BY ParentsOK, EndingChainAvoids, LastIsEnd
    <2> QED
      BY <2>1
  <1>2. new \in D /\ new \in Clusters
    BY DataFacts
  <1>3. FatIn(fat, D)
    <2> DEFINE al == <<new>>
    <2>1. al \in [1 .. 1 -> D] /\ 1 \in Nat \ {0}
      BY <1>2
    <2> HIDE DEF last, new, al
    <2>2. FatIn(ChainFat(diskFat, al, 1, last), D)
      BY <1>1, <2>1, ChainFatOK
    <2> QED
      BY <2>2 DEF al
  <1>4. PICK junk \in {old[c] : c \in Clusters} :
          IF FreeSlots(Table(junk)) = {}
          THEN /\ \E m \in new .. CLUSTER_MAP_SIZE :
                    disk' = [c \in Clusters |->
                               IF c \in new .. m /\ (v[c] = 0 \/ c = CLUSTER_MAP_SIZE)
                               THEN Table(junk) ELSE old[c]]
               /\ fat_table' = fat /\ Hang /\ UNCHANGED diskFat
          ELSE /\ disk' = [c \in Clusters |->
                             IF c = r.cluster THEN Reparented(r.buf, new)
                             ELSE IF c = new THEN Filled(Table(junk)) ELSE old[c]]
               /\ StoreFat(fat)
               /\ Answer(0, <<>>)
    BY DEF MoveExtending
  <1> HIDE DEF fat, new, last
  <1>5. TableIn(Table(junk), D)
    <2>1. TableIn(junk, D) /\ TableIn(old[last], D)
      BY <1>1 DEF DiskIn
    <2>2. /\ junk \in Cluster
          /\ old[last].name \in NameSet /\ old[last].parent \in Clusters
      BY <2>1 DEF TableIn, Cluster, NameSet
    <2>3. Table(junk) \in Cluster /\ Table(junk).slots = junk.slots
      BY <2>2 DEF Cluster, NameSet
    <2> QED
      BY <2>1, <2>3 DEF TableIn
  <1>6. TableIn(Filled(Table(junk)), D)
    <2>1. r.buf \in Cluster /\ r.buf.name \in NameSet
      BY DEF TableIn, Cluster, NameSet
    <2>2. DirEntry(r, r.buf.name) \in Entry /\ DirEntry(r, r.buf.name).cluster \in D
      BY <2>1, EntryTypes
    <2> HIDE DEF Table
    <2> QED
      BY <1>5, <2>2, PutEntry
  <1>7. TableIn(Reparented(r.buf, new), D)
    BY <1>2, HeaderChange DEF Reparented
  <1> HIDE DEF Table, Filled, v
  <1>8. CASE FreeSlots(Table(junk)) = {}
    <2>1. \A c \in Clusters : TableIn(disk'[c], D)
      BY <1>4, <1>5, <1>8 DEF DiskIn
    <2>2. disk' \in [Clusters -> Cluster]
      BY <1>4, <1>8, <2>1 DEF TableIn
    <2>3. DiskIn(disk', D)
      BY <2>1, <2>2 DEF DiskIn
    <2> QED
      BY <1>3, <1>4, <1>8, <2>3
  <1>9. CASE FreeSlots(Table(junk)) # {}
    <2>1. \A c \in Clusters : TableIn(disk'[c], D)
      BY <1>4, <1>6, <1>7, <1>9 DEF DiskIn
    <2>2. disk' \in [Clusters -> Cluster]
      BY <1>4, <1>9, <2>1 DEF TableIn
    <2>3. DiskIn(disk', D)
      BY <2>1, <2>2 DEF DiskIn
    <2> QED
      BY <1>3, <1>4, <1>9, <2>3 DEF StoreFat
  <1> QED
    BY <1>8, <1>9

LEMMA move_dirStep ==
    ASSUME NEW D \in SUBSET Data, Held(D), NEW p \in Parents, NEW n, NEW e, NEW size \in BufferSizes,
           NEW q \in Parents, move_dir(p, n, e, size, q), Room' \subseteq D
    PROVE  Held(D)'
  <1> DEFINE r == ReadDirectory(p, n, e, size)
             t == r.disk[p]
             old == [r.disk EXCEPT ![p].slots[FirstNamed(t, n)].undelete = FALSE]
             name == disk[LastOf(DirView(fat_table), Reach(DirView(fat_table), p))].name
             v == FatView(diskFat, name)
             room == \E u \in Reach(v, q) : FreeSlots(old[u]) # {}
  <1>1. /\ DiskIn(r.disk, D) /\ r.fat \in {fat_table, diskFat} /\ TableIn(r.buf, D)
        /\ r.ret \in Codes /\ (r.ret = 0 => r.cluster \in D)
    BY ReadDirectoryOK DEF Held
  <1>2. /\ ~hung
        /\ \/ NotFound(p, r)
           \/ /\ r.ret = 0 /\ \E b : Breach(b)
              /\ \/ /\ room /\ MoveInto(r, old, v, q)
                    /\ fat_table' = diskFat /\ Answer(0, <<>>) /\ UNCHANGED diskFat
                 \/ /\ Terminates(v, q) /\ MoveExtending(r, old, v, q)
                    /\ findEmptyCluster(diskFat, {}) = CLUSTER_MAP_SIZE => "disk_full" \in limits'
                 \/ disk' = old /\ fat_table' = diskFat /\ Hang /\ UNCHANGED diskFat
    BY DEF move_dir, Breach
  <1> HIDE DEF r, t
  <1>3. DiskIn(old, D)
    BY <1>1, ParentsOK, UnmarkOK
  <1> HIDE DEF old, name
  <1>4. CASE NotFound(p, r)
    BY <1>1, <1>2, <1>4, NotFoundStep
  <1>5. CASE ~NotFound(p, r)
    <2>1. 0 \in Codes /\ r.cluster \in D /\ q \in Clusters /\ \E b : Breach(b)
      BY <1>1, <1>2, <1>5, ParentsOK DEF Codes
    <2>2. CASE room /\ MoveInto(r, old, v, q) /\ fat_table' = diskFat
               /\ Answer(0, <<>>) /\ UNCHANGED diskFat
      <3>1. DiskIn(disk', D)
        BY <1>1, <1>3, <2>1, <2>2, MoveIntoOK
      <3>2. reply'.ret \in Codes /\ hung' \in BOOLEAN /\ limits' \subseteq Breaches
        BY <2>1, <2>2, CallOutcome DEF Held
      <3> QED
        BY <2>2, <3>1, <3>2 DEF Held
    <2>3. CASE /\ Terminates(v, q) /\ MoveExtending(r, old, v, q)
               /\ findEmptyCluster(diskFat, {}) = CLUSTER_MAP_SIZE => "disk_full" \in limits'
      <3>3. findEmptyCluster(diskFat, {}) \in D
        BY <2>3, findEmptyClusterOK DEF Room
      <3>1. /\ DiskIn(disk', D) /\ FatIn(fat_table', D) /\ FatIn(diskFat', D)
            /\ \/ Hang
               \/ fat_table' = diskFat' /\ Answer(0, <<>>)
        BY <1>1, <1>3, <2>1, <2>3, <3>3, MoveExtendingOK DEF Held
      <3>2. reply'.ret \in Codes /\ hung' \in BOOLEAN /\ limits' \subseteq Breaches
        BY <2>1, <3>1, CallOutcome DEF Held
      <3> QED
        BY <3>1, <3>2 DEF Held, Hang
    <2>4. CASE disk' = old /\ fat_table' = diskFat /\ Hang /\ UNCHANGED diskFat
      <3>1. reply'.ret \in Codes /\ hung' \in BOOLEAN /\ limits' \subseteq Breaches
        BY <2>1, <2>4, CallOutcome DEF Held
      <3> QED
        BY <1>3, <2>4, <3>1 DEF Held
    <2> QED
      BY <1>2, <1>5, <2>2, <2>3, <2>4
  <1> QED
    BY <1>4, <1>5

-----------------------------------------------------------------------------
(***************************************************************************)
(* The theorems                                                            *)
(***************************************************************************)
\* A new disk is well typed.
LEMMA FreshOK == ASSUME NEW D, create_fat32 PROVE DiskIn(disk, D) /\ FatIn(diskFat, D)
  <1>1. DiskIn(disk, D)
    <2>1. RootName \in NameSet /\ ROOT_CLUSTER_NUMBER \in Clusters
      BY SizeFacts DEF NameSet, ROOT_CLUSTER_NUMBER, Clusters
    <2>2. \A c \in Clusters : TableIn(disk[c], D)
      <3> TAKE c \in Clusters
      <3>1. CASE c = ROOT_CLUSTER_NUMBER
        <4>1. disk[c] = init_directory_table(RootName, ROOT_CLUSTER_NUMBER)
          BY <3>1 DEF create_fat32
        <4>2. init_directory_table(RootName, ROOT_CLUSTER_NUMBER).slots = Blank.slots
              /\ init_directory_table(RootName, ROOT_CLUSTER_NUMBER) \in Cluster
          BY <2>1, BlankOK DEF TableIn, Cluster, init_directory_table, NameSet
        <4> QED
          BY <4>1, <4>2, BlankOK DEF TableIn
      <3>2. CASE c # ROOT_CLUSTER_NUMBER
        BY <3>2, BlankOK DEF create_fat32
      <3> QED
        BY <3>1, <3>2
    <2>3. disk \in [Clusters -> Cluster]
      BY <2>2 DEF TableIn, create_fat32
    <2> QED
      BY <2>2, <2>3 DEF DiskIn
  <1>2. FatIn(FreshFat, D)
    BY SizeFacts DEF FatIn, FreshFat, FatValues, ROOT_CLUSTER_NUMBER
  <1> QED
    BY <1>1, <1>2 DEF create_fat32

LEMMA InitOK == Init => Base
  <1> SUFFICES ASSUME Init PROVE Base
    OBVIOUS
  <1>1. DiskIn(disk, Room) /\ FatIn(diskFat, Room)
    BY FreshOK DEF Init
  <1>2. 0 \in Codes
    BY DEF Codes
  <1> QED
    BY <1>1, <1>2 DEF Init, Base, Held, NoReply

\* A restart that finds entries in the boot sector makes a new file system.
LEMMA initialize_filesystem_fat32Step ==
    ASSUME NEW D \in SUBSET Data, Held(D), initialize_filesystem_fat32
    PROVE  Held(D)'
  <1>1. 0 \in Codes
    BY DEF Codes
  <1>2. DiskIn(disk', D) /\ FatIn(diskFat', D)
    <2>1. CASE ~is_empty_storage
      BY <2>1 DEF initialize_filesystem_fat32, Held
    <2>2. CASE is_empty_storage
      <3> DEFINE slots == [i \in Slots |-> IF i < BOOT_ENTRIES THEN NullEntry ELSE disk[0].slots[i]]
                 boot == [disk[0] EXCEPT !.slots = slots]
                 root == init_directory_table(RootName, ROOT_CLUSTER_NUMBER)
      <3>1. TableIn(disk[0], D) /\ 0 \in Clusters
        BY SizeFacts DEF Held, DiskIn
      <3>2. slots \in [Slots -> Entry]
        BY <3>1, EntryTypes DEF TableIn, Cluster
      <3>3. boot \in Cluster /\ boot.slots = slots
        BY <3>1, <3>2 DEF TableIn, Cluster
      <3>4. \A i \in Slots : slots[i] = NullEntry \/ slots[i] = disk[0].slots[i]
        OBVIOUS
      <3> HIDE DEF slots, boot
      <3>5. TableIn(boot, D)
        BY <3>1, <3>3, <3>4 DEF TableIn, NullEntry
      <3>6. TableIn(root, D)
        <4>1. RootName \in NameSet /\ ROOT_CLUSTER_NUMBER \in Clusters
          BY SizeFacts DEF NameSet, ROOT_CLUSTER_NUMBER
        <4>2. root.slots = Blank.slots /\ root \in Cluster
          BY <4>1, BlankOK DEF TableIn, Cluster, init_directory_table, NameSet
        <4> QED
          BY <4>2, BlankOK DEF TableIn
      <3>7. disk' = [[disk EXCEPT ![0] = boot] EXCEPT ![ROOT_CLUSTER_NUMBER] = root]
        <4>1. Reformat
          BY <2>2 DEF initialize_filesystem_fat32
        <4> QED
          BY <4>1 DEF Reformat, boot, slots
      <3> HIDE DEF root
      <3>8. DiskIn([disk EXCEPT ![0] = boot], D)
        BY <3>5, DiskPut DEF Held
      <3>9. DiskIn(disk', D)
        BY <3>6, <3>7, <3>8, DiskPut
      <3>10. FatIn(FreshFat, D)
        BY SizeFacts DEF FatIn, FreshFat, FatValues, ROOT_CLUSTER_NUMBER
      <3> QED
        BY <2>2, <3>9, <3>10 DEF initialize_filesystem_fat32, Reformat
    <2> QED
      BY <2>1, <2>2
  <1> QED
    BY <1>1, <1>2 DEF Held, initialize_filesystem_fat32, NoReply, Breach

\* Limits that calls have run into are not forgotten.
LEMMA LimitsGrow == ASSUME [Next]_vars PROVE limits \subseteq limits'
  <1>1. \A b : Breach(b) => limits \subseteq limits'
    BY DEF Breach
  <1>2. ASSUME NEW p, NEW n, NEW e, NEW size, read_directory(p, n, e, size)
        PROVE  limits \subseteq limits'
    BY <1>1, <1>2 DEF read_directory
  <1>3. ASSUME NEW p, NEW n, NEW e, NEW size, read(p, n, e, size)
        PROVE  limits \subseteq limits'
    BY <1>1, <1>3 DEF read
  <1>4. ASSUME NEW p, NEW n, NEW e, NEW size, NEW new, rename_dir(p, n, e, size, new)
        PROVE  limits \subseteq limits'
    BY <1>1, <1>4 DEF rename_dir, NotFound
  <1>5. ASSUME NEW p, NEW n, NEW e, NEW size, NEW q, move_dir(p, n, e, size, q)
        PROVE  limits \subseteq limits'
    BY <1>1, <1>5 DEF move_dir, NotFound
  <1>6. ASSUME NEW p, NEW n, NEW e, NEW k, NEW x, write(p, n, e, k, x)
        PROVE  limits \subseteq limits'
    <2>1. ASSUME WriteObject(p, n, e, k, x) PROVE limits \subseteq limits'
      BY <1>1, <2>1 DEF WriteObject
    <2>2. WriteObject(p, n, e, k, x) \/ Breach(Stale(p))
      BY <1>6 DEF write
    <2> QED
      BY <1>1, <2>1, <2>2
  <1>7. ASSUME NEW p, NEW n, NEW e, delete(p, n, e)
        PROVE  limits \subseteq limits'
    BY <1>1, <1>7 DEF delete
  <1>8. CASE read_root_directory \/ initialize_filesystem_fat32
    BY <1>1, <1>8, Zenon DEF read_root_directory, initialize_filesystem_fat32
  <1>9. CASE UNCHANGED vars
    BY <1>9 DEF vars
  <1> QED
    BY <1>2, <1>3, <1>4, <1>5, <1>6, <1>7, <1>8, <1>9, Zenon DEF Next

LEMMA NextOK == Base /\ [Next]_vars => Base'
  <1> SUFFICES ASSUME Base, [Next]_vars PROVE Base'
    OBVIOUS
  <1> PICK D : D = Room'
    OBVIOUS
  <1>1. D \in SUBSET Data /\ Room' \subseteq D /\ Room \subseteq D
    BY LimitsGrow DEF Room
  <1>2. Held(D)
    BY <1>1, RoomGrows DEF Base, Held
  <1>3. ASSUME NEW p \in Parents, NEW n \in Names, NEW e \in Exts, NEW size \in BufferSizes,
               read_directory(p, n, e, size)
        PROVE  Held(D)'
    BY <1>1, <1>2, <1>3, read_directoryStep
  <1>4. ASSUME NEW p \in Parents, NEW n \in Names, NEW e \in Exts, NEW size \in BufferSizes,
               read(p, n, e, size)
        PROVE  Held(D)'
    BY <1>1, <1>2, <1>4, readStep
  <1>5. ASSUME NEW p \in Parents, NEW n \in Names, NEW e \in Exts, NEW size \in BufferSizes,
               NEW new \in Names, rename_dir(p, n, e, size, new)
        PROVE  Held(D)'
    BY <1>1, <1>2, <1>5, rename_dirStep
  <1>6. ASSUME NEW p \in Parents, NEW n \in Names, NEW e \in Exts, NEW size \in BufferSizes,
               NEW q \in Parents, move_dir(p, n, e, size, q)
        PROVE  Held(D)'
    BY <1>1, <1>2, <1>6, move_dirStep
  <1>7. ASSUME NEW p \in Parents, NEW n \in Names, NEW e \in Exts,
               NEW k \in 0 .. MAX_FILE_CLUSTERS, NEW x \in Contents, write(p, n, e, k, x)
        PROVE  Held(D)'
    BY <1>1, <1>2, <1>7, writeStep
  <1>8. ASSUME NEW p \in Parents, NEW n \in Names, NEW e \in Exts, delete(p, n, e)
        PROVE  Held(D)'
    BY <1>1, <1>2, <1>8, deleteStep
  <1>9. ASSUME read_root_directory PROVE Held(D)'
    BY <1>1, <1>2, <1>9, read_root_directoryStep
  <1>10. ASSUME initialize_filesystem_fat32 PROVE Held(D)'
    BY <1>1, <1>2, <1>10, initialize_filesystem_fat32Step
  <1>11. ASSUME UNCHANGED vars PROVE Held(D)'
    BY <1>2, <1>11 DEF Held, vars
  <1>12. Held(D)'
    BY <1>3, <1>4, <1>5, <1>6, <1>7, <1>8, <1>9, <1>10, <1>11, Zenon DEF Next
  <1> QED
    BY <1>12 DEF Base, Held

LEMMA Invariance == Spec => []Base
  BY InitOK, NextOK, PTL DEF Spec

\* Whatever calls the driver gets, also on full disks and full directories and
\* with stale cluster numbers, what it writes to the disk stays well typed and
\* its return codes are those of fat32.h.
THEOREM TypeCorrect == Spec => []TypeOK
  <1>1. Base => TypeOK
    BY DEF Base, Held, TypeOK, DiskIn, FatIn
  <1> QED
    BY <1>1, Invariance, PTL

\* Whatever calls the driver gets, when one returns the FAT in memory is the
\* FAT on the disk.  The reserved clusters and root stay reserved on a disk that
\* has never been full, also when directories have been, entries have clashed,
\* or calls have used the numbers of clusters that are no directories.
THEOREM FatStaysCoherent == Spec => []FatCoherent
  <1>1. Base => FatCoherent
    <2> SUFFICES ASSUME Base PROVE FatCoherent
      OBVIOUS
    <2>1. "disk_full" \notin limits => CLUSTER_MAP_SIZE \notin Room
      BY DEF Room
    <2> QED
      BY <2>1 DEF Base, Held, FatCoherent, FatIn
  <1> QED
    BY <1>1, Invariance, PTL

-----------------------------------------------------------------------------
(***************************************************************************)
(* The same facts on a disk that has never been full, where root is in     *)
(* use, as the proofs about calls within the limits need them.             *)
(***************************************************************************)
FatOK(f) ==
    /\ f \in [FatIndex -> FatValues]
    /\ f[0] = CLUSTER_0_VALUE
    /\ f[1] = FAT32_FAT_END_OF_FILE
    /\ f[ROOT_CLUSTER_NUMBER] # 0
    /\ \A c \in FatIndex \ {0, 1} : f[c] \in {0, FAT32_FAT_END_OF_FILE} \cup Data

TableOK(t) ==
    /\ t \in Cluster
    /\ \A i \in Slots : t.slots[i].undelete => t.slots[i].cluster \in Data

DiskOK(d) == d \in [Clusters -> Cluster] /\ \A c \in Clusters : TableOK(d[c])

IInv ==
    /\ DiskOK(disk)
    /\ FatOK(diskFat)
    /\ FatOK(fat_table)
    /\ ~hung => fat_table = diskFat
    /\ reply.ret \in Codes
    /\ hung \in BOOLEAN
    /\ limits \subseteq Breaches

LEMMA OKIn ==
    /\ \A t : TableOK(t) <=> TableIn(t, Data)
    /\ \A d : DiskOK(d) <=> DiskIn(d, Data)
    /\ \A f : FatOK(f) <=> FatIn(f, Data) /\ f[ROOT_CLUSTER_NUMBER] # 0
  BY DataFacts DEF TableOK, TableIn, DiskOK, DiskIn, FatOK, FatIn

LEMMA NotFull == ASSUME Base, "disk_full" \notin limits PROVE IInv
  <1>1. Room \subseteq Data /\ CLUSTER_MAP_SIZE \notin Room
    BY DEF Room
  <1>2. DiskIn(disk, Data) /\ FatIn(diskFat, Data) /\ FatIn(fat_table, Data)
    BY <1>1, RoomGrows DEF Base, Held
  <1>3. diskFat[ROOT_CLUSTER_NUMBER] # 0 /\ fat_table[ROOT_CLUSTER_NUMBER] # 0
    BY <1>1 DEF Base, Held, FatIn
  <1> QED
    BY <1>2, <1>3, OKIn DEF Base, Held, IInv

\* The same after a step.
LEMMA NotFullNext == ASSUME Base', "disk_full" \notin limits' PROVE IInv'
  <1>1. Room' \subseteq Data /\ CLUSTER_MAP_SIZE \notin Room'
    BY DEF Room
  <1>2. DiskIn(disk', Data) /\ FatIn(diskFat', Data) /\ FatIn(fat_table', Data)
    BY <1>1, RoomGrows DEF Base, Held
  <1>3. diskFat'[ROOT_CLUSTER_NUMBER] # 0 /\ fat_table'[ROOT_CLUSTER_NUMBER] # 0
    BY <1>1 DEF Base, Held, FatIn
  <1> QED
    BY <1>2, <1>3, OKIn DEF Base, Held, IInv

LEMMA FatChangeOK ==
    ASSUME NEW f, FatOK(f)
    PROVE  /\ \A chain \in SUBSET Data : FatOK(FreeChain(f, chain))
           /\ \A m \in Nat \ {0} : \A al \in [1 .. m -> Data] : \A ext : \A last \in Clusters \ {0, 1} :
                FatOK(ChainFat(f, al, ext, last))
  <1>1. FatIn(f, Data) /\ f[ROOT_CLUSTER_NUMBER] # 0
    BY OKIn
  <1>2. ASSUME NEW chain \in SUBSET Data PROVE FatOK(FreeChain(f, chain))
    <2>1. chain \in SUBSET (Clusters \ {0, 1}) /\ ROOT_CLUSTER_NUMBER \notin chain
      BY DataFacts DEF ROOT_CLUSTER_NUMBER
    <2>2. FatIn(FreeChain(f, chain), Data)
      BY <1>1, <2>1, FreeChainOK
    <2>3. FreeChain(f, chain)[ROOT_CLUSTER_NUMBER] = f[ROOT_CLUSTER_NUMBER]
      BY <2>1, SizeFacts DEF FreeChain, ROOT_CLUSTER_NUMBER
    <2> QED
      BY <1>1, <2>2, <2>3, OKIn
  <1>3. ASSUME NEW m \in Nat \ {0}, NEW al \in [1 .. m -> Data], NEW ext, NEW last \in Clusters \ {0, 1}
        PROVE  FatOK(ChainFat(f, al, ext, last))
    <2> DEFINE g == ChainFat(f, al, ext, last)
    <2>1. FatIn(g, Data)
      BY <1>1, ChainFatOK
    <2>2. g[ROOT_CLUSTER_NUMBER] # 0
      <3>1. ROOT_CLUSTER_NUMBER \in FatIndex /\ 1 \in 1 .. m /\ 0 \notin Data
            /\ FAT32_FAT_END_OF_FILE # 0
        BY SizeFacts, DataFacts DEF ROOT_CLUSTER_NUMBER, FAT32_FAT_END_OF_FILE
      <3>2. \A i \in 1 .. m : al[i] # 0
        BY <3>1
      <3>3. ROOT_CLUSTER_NUMBER \notin Data
        BY DataFacts DEF ROOT_CLUSTER_NUMBER
      <3>4. ~\E i \in DOMAIN al : al[i] = ROOT_CLUSTER_NUMBER
        BY <3>3
      <3> QED
        BY <1>1, <3>1, <3>2, <3>4 DEF ChainFat
    <2> QED
      BY <2>1, <2>2, OKIn
  <1> QED
    BY <1>2, <1>3

LEMMA DiskChangeOK ==
    ASSUME NEW d, DiskOK(d)
    PROVE  /\ \A c, t : TableOK(t) => DiskOK([d EXCEPT ![c] = t])
           /\ \A c \in Clusters : \A i : \A en \in Entry : en.cluster \in Data =>
                DiskOK([d EXCEPT ![c].slots[i] = en])
           /\ \A c \in Clusters : \A i : DiskOK([d EXCEPT ![c].slots[i].undelete = FALSE])
  BY OKIn, DiskPut, UnmarkOK
=============================================================================
