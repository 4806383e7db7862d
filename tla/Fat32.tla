------------------------------- MODULE Fat32 -------------------------------
(***************************************************************************)
(* The FAT32 driver of the kernel (src/fat32.c) as its callers see it:     *)
(* every operation of the driver is one system call, it runs with          *)
(* interrupts off and so it is one atomic step here.                       *)
(*                                                                         *)
(* A cluster of the disk is one record.  A directory table is a cluster    *)
(* with subdir = TRUE: name, parent and notEmpty are table[0] (the header) *)
(* and slots are table[1] .. table[TABLE_LENGTH - 1].  A file cluster has  *)
(* only data: which file contents and which fragment of them it holds.     *)
(*                                                                         *)
(* The driver's directory table buffer is reloaded by every operation, so  *)
(* it is local to the operations and not a variable.  Times and dates are  *)
(* left out.  File sizes and buffer sizes are counted in clusters.         *)
(*                                                                         *)
(* A call that follows a chain without end never returns: hung is set.     *)
(* From then on nothing happens until the machine is started again, which  *)
(* loads the FAT from the disk; fat_table has no meaning until then.       *)
(*                                                                         *)
(* The operators named Mutant... are mistakes a programmer could make in   *)
(* the definition they precede.  Nothing uses them; the properties are     *)
(* tried against them.                                                     *)
(***************************************************************************)
EXTENDS Integers, FiniteSets, Sequences, FiniteSetsExt

CONSTANTS
    CLUSTER_MAP_SIZE,    \* number of entries of the FAT (512)
    TABLE_LENGTH,        \* entries of a directory table, header included (64)
    FRAGMENT_CTR_SIZE,   \* values of write's uint8_t fragment counter (256)
    MAX_FILE_CLUSTERS,   \* bound: longest file a caller writes
    BufferSizes,         \* buffer sizes callers pass to read and read_directory
    Names, Exts,         \* names and extensions of requests
    NoExt, NoName,       \* all-zero extension and name
    RootName,            \* the name in root's header
    Smashed,             \* a name whose first four bytes are an end-of-file mark
    FirstWord,           \* the first four bytes of each name, as a number
    Contents,            \* what files contain
    NoData,              \* the data of a cluster that is not part of a file
    Breaches,            \* which limits of the driver callers may run into
    LimitsOnce           \* bound: they run into each limit at most once

ASSUME SizeAssumption ==
    /\ CLUSTER_MAP_SIZE \in Nat /\ CLUSTER_MAP_SIZE > 3
    /\ CLUSTER_MAP_SIZE < 268435440
    /\ TABLE_LENGTH \in Nat /\ TABLE_LENGTH > 1
    /\ FRAGMENT_CTR_SIZE \in Nat \ {0}
    /\ MAX_FILE_CLUSTERS \in Nat \ {0}
    /\ BufferSizes \subseteq Nat \ {0}

ASSUME NameAssumption ==
    /\ NoExt \in Exts
    /\ NoName \notin Names
    /\ Smashed \notin Names \cup {NoName, RootName}

FAT32_FAT_END_OF_FILE == 268435455

CLUSTER_0_VALUE == 268435440

ROOT_CLUSTER_NUMBER == 2

\* Entries of a directory table in the first block of a cluster.
BOOT_ENTRIES == 16

\* Cluster CLUSTER_MAP_SIZE exists on the disk and has no entry in the FAT.
Clusters == 0 .. CLUSTER_MAP_SIZE

FatIndex == 0 .. CLUSTER_MAP_SIZE - 1

FatValues == Clusters \cup {FAT32_FAT_END_OF_FILE, CLUSTER_0_VALUE}

\* A word that is no cluster is CLUSTER_0_VALUE here, whatever it is: as an
\* index it leads out of the driver's memory.  Bound: no name starts with the
\* word 1, by which the FAT would be read as a directory table, or with one of
\* the words a little above CLUSTER_MAP_SIZE, which lead on into the buffer.
ASSUME WordAssumption == FirstWord \in [Names -> FatValues \ {1}]

ASSUME DataAssumption == NoData \notin Contents \X Nat

\* The ways in which a call can leave the conditions under which the driver
\* keeps its promises: no free cluster, no free slot in a directory table, a
\* file longer than the fragment counter counts, a second entry of the same
\* name in rename_dir or move_dir, a directory moved by move_dir, a parent
\* whose cluster is not (any more) that of a directory, a destination of
\* move_dir whose cluster is not.
Limits == {"disk_full", "table_full", "long_file", "name_clash", "moved", "stale", "astray"}

ASSUME BreachAssumption == Breaches \subseteq Limits /\ LimitsOnce \in BOOLEAN

VARIABLES
    disk,       \* the clusters (the FAT, cluster 1, is diskFat)
    diskFat,    \* the FAT on the disk
    fat_table,  \* driver_state.fat_table, the driver's copy of it
    reply,      \* return code and data of the last call
    hung,       \* a call follows a chain that never ends: the kernel is stuck
    limits      \* history: the limits that calls have run into

vars == <<disk, diskFat, fat_table, reply, hung, limits>>

Slots == 1 .. TABLE_LENGTH - 1

Entry == [undelete : BOOLEAN, name : Names \cup {NoName, RootName, Smashed},
          ext : Exts, subdir : BOOLEAN, cluster : Clusters,
          filesize : 0 .. MAX_FILE_CLUSTERS]

Cluster == [subdir : BOOLEAN, name : Names \cup {NoName, RootName, Smashed},
            parent : Clusters, notEmpty : BOOLEAN, slots : [Slots -> Entry],
            data : (Contents \X Nat) \cup {NoData}]

NullEntry == [undelete |-> FALSE, name |-> NoName, ext |-> NoExt,
              subdir |-> FALSE, cluster |-> 0, filesize |-> 0]

Blank == [subdir |-> FALSE, name |-> NoName, parent |-> 0, notEmpty |-> FALSE,
          slots |-> [i \in Slots |-> NullEntry], data |-> NoData]

\* A directory table as init_directory_table fills a zeroed one.
init_directory_table(name, parent) ==
    [Blank EXCEPT !.subdir = TRUE, !.name = name, !.parent = parent]

\* create_fat32: the FAT and the root directory of a new file system.
FreshFat ==
    [c \in FatIndex |-> IF c = 0 THEN CLUSTER_0_VALUE
                        ELSE IF c \in {1, ROOT_CLUSTER_NUMBER}
                             THEN FAT32_FAT_END_OF_FILE ELSE 0]

create_fat32 ==
    /\ disk = [c \in Clusters |->
                 IF c = ROOT_CLUSTER_NUMBER
                 THEN init_directory_table(RootName, ROOT_CLUSTER_NUMBER)
                 ELSE Blank]
    /\ diskFat = FreshFat

-----------------------------------------------------------------------------
(***************************************************************************)
(* Chains.  cluster_map[CLUSTER_MAP_SIZE] lies behind the array: it is the *)
(* start of the header's name in the directory table buffer, so a chain    *)
(* that gets there goes on at the cluster that the name spells.            *)
(***************************************************************************)
\* The first four bytes of a header's name.
WordOf(name) ==
    CASE name \in Names -> FirstWord[name]
      [] name = Smashed -> FAT32_FAT_END_OF_FILE
      [] name = NoName -> 0
      [] OTHER -> CLUSTER_0_VALUE

FatView(fat, name) ==
    [c \in Clusters |-> IF c \in FatIndex THEN fat[c] ELSE WordOf(name)]

\* While a directory is walked the buffer holds the table the walk is at.
DirView(fat) == FatView(fat, disk[CLUSTER_MAP_SIZE].name)

Closed(v, S) == \A c \in S : v[c] \in Clusters => v[c] \in S

\* The clusters a loop visits that follows v from c: c and what is in every
\* set that holds v[c] and is closed under v.
Reach(v, c) ==
    LET linked == {v[d] : d \in Clusters} \cap Clusters
    IN  IF v[c] \notin Clusters THEN {c}
        ELSE {c} \cup {d \in linked :
                         \A S \in SUBSET linked : v[c] \in S /\ Closed(v, S) => d \in S}

\* That loop ends.  It does not when it gets to a free cluster: the entry 0 of
\* a free cluster leads to cluster 0, whose entry is CLUSTER_0_VALUE, and the
\* word that the array access reads there is 0 again.
Terminates(v, c) == \E d \in Reach(v, c) : v[d] = FAT32_FAT_END_OF_FILE

FirstOf(v, S) == CHOOSE t \in S : S \subseteq Reach(v, t)

LastOf(v, S) == CHOOSE t \in S : \A u \in S : t \in Reach(v, u)

\* The i-th cluster of the chain that starts at c.
Nth(v, c, i) ==
    CHOOSE d \in Reach(v, c) :
        Cardinality(Reach(v, d)) = Cardinality(Reach(v, c)) - i + 1

\* Every cluster with an entry in the FAT that holds a directory table.
Dirs == {c \in FatIndex : fat_table[c] # 0 /\ disk[c].subdir}

Named(t, n, e) ==
    {i \in Slots : t.slots[i].undelete /\ t.slots[i].name = n /\ t.slots[i].ext = e}

LiveSlots(t) == {i \in Slots : t.slots[i].undelete}

FreeSlots(t) == Slots \ LiveSlots(t)

Stale(p) == IF p \in Dirs THEN {} ELSE {"stale"}

Astray(q) == IF q \in Dirs THEN {} ELSE {"astray"}

\* A call that runs into limits only happens where Breaches allows it.
Breach(b) ==
    /\ b \subseteq Breaches
    /\ LimitsOnce => b \cap limits = {}
    /\ limits' = limits \cup b

Answer(ret, data) == reply' = [ret |-> ret, data |-> data] /\ UNCHANGED hung

\* The copy in memory is not updated.
MutantStoreDisk(fat) == diskFat' = fat /\ UNCHANGED fat_table

\* Both copies of the FAT after it is written to the disk.
StoreFat(fat) == diskFat' = fat /\ fat_table' = fat

Hang == hung' = TRUE /\ UNCHANGED reply


-----------------------------------------------------------------------------
(***************************************************************************)
(* read_directory.  Every table of the parent's chain is looked at, also   *)
(* after the directory has been found: the last table with an entry of     *)
(* that name decides the return code.  A table with the directory is       *)
(* written back (access date) to the first cluster of the parent, whichever*)
(* table it is.  The directory's tables are all read to the same address,  *)
(* as many as fit the buffer: what stays there is the last of them.        *)
(***************************************************************************)
FoundIn(t, n, e) == {i \in Named(t, n, e) : t.slots[i].subdir}

ChildIn(t, n, e) == t.slots[Min(FoundIn(t, n, e))].cluster

\* What the chain from c leaves in a buffer of room clusters.
LastRead(w, c, room) ==
    disk[LastOf(w, {d \in Reach(w, c) :
                      Cardinality(Reach(w, c)) - Cardinality(Reach(w, d)) < room})]

ReadDirectory(p, n, e, size) ==
    LET v == DirView(fat_table)
        seen == {t \in Reach(v, p) : Named(disk[t], n, e) # {}}
        hits == {t \in seen : FoundIn(disk[t], n, e) # {}}
        child(t) == ChildIn(disk[t], n, e)
        w(t) == FatView(diskFat, disk[t].name)
        before(t) == {u \in hits : u # t /\ t \in Reach(v, u)}
        room(t) == IF \A u \in before(t) : Terminates(w(u), child(u))
                   THEN size - Cardinality({u \in before(t) \X Clusters :
                                              u[2] \in Reach(w(u[1]), child(u[1]))})
                   ELSE 0
        served == {t \in hits : room(t) > 0}
        last == LastOf(v, served)
    IN  IF ~disk[p].subdir \/ served = {}
        THEN [ret |-> IF ~disk[p].subdir THEN -1 ELSE IF seen = {} THEN 3 ELSE 1,
              hangs |-> disk[p].subdir /\ ~Terminates(v, p),
              disk |-> disk, fat |-> fat_table, cluster |-> 0, buf |-> Blank]
        ELSE [ret |-> IF LastOf(v, seen) \notin hits THEN 1
                      ELSE IF LastOf(v, seen) \in served THEN 0 ELSE 2,
              hangs |-> ~Terminates(v, p),
              disk |-> [disk EXCEPT ![p] = disk[last]],
              fat |-> diskFat,
              cluster |-> child(last),
              buf |-> LastRead(w(last), child(last), room(last))]

read_directory(p, n, e, size) ==
    LET r == ReadDirectory(p, n, e, size)
    IN  /\ ~hung
        /\ Breach(Stale(p))
        /\ disk' = r.disk
        /\ fat_table' = r.fat
        /\ IF r.hangs THEN Hang ELSE Answer(r.ret, <<>>)
        /\ UNCHANGED diskFat

(***************************************************************************)
(* read.  A directory of the name is remembered and the search goes on; a  *)
(* file that does not fit the buffer ends the call at once.                *)
(***************************************************************************)
read(p, n, e, size) ==
    LET v == DirView(fat_table)
        tables == Reach(v, p)
        files(t) == {i \in Named(disk[t], n, e) : ~disk[t].slots[i].subdir}
        hits == {t \in tables : files(t) # {}}
        seen == hits \cup {t \in tables : \E i \in LiveSlots(disk[t]) :
                                disk[t].slots[i].name = n /\ disk[t].slots[i].subdir}
        file(t) == disk[t].slots[Min(files(t))]
        w(t) == FatView(diskFat, disk[t].name)
        before(t) == {u \in hits : u # t /\ t \in Reach(v, u)}
        room(t) == size - Cardinality({u \in hits \X Clusters :
                              u[1] \in before(t) /\ u[2] \in Reach(w(u[1]), file(u[1]).cluster)})
        small == {t \in hits : room(t) < file(t).filesize}
        served == {t \in hits \ small : before(t) \cap small = {}}
        last == LastOf(v, served)
        chain == Reach(w(last), file(last).cluster)
    IN  /\ ~hung
        /\ Breach(Stale(p))
        /\ IF ~disk[p].subdir
           THEN Answer(-1, <<>>) /\ UNCHANGED <<disk, fat_table>>
           ELSE /\ disk' = IF served = {} THEN disk ELSE [disk EXCEPT ![p] = disk[last]]
                /\ fat_table' = IF served = {} THEN fat_table ELSE diskFat
                /\ IF \/ \E t \in served : ~Terminates(w(t), file(t).cluster)
                      \/ small = {} /\ ~Terminates(v, p)
                   THEN Hang
                   ELSE IF small # {} THEN Answer(2, <<>>)
                   ELSE IF seen = {} THEN Answer(3, <<>>)
                   ELSE IF LastOf(v, seen) \notin hits THEN Answer(1, <<>>)
                   ELSE Answer(0, [i \in 1 .. Cardinality(chain) |->
                                     disk[Nth(w(last), file(last).cluster, i)].data])
        /\ UNCHANGED diskFat

\* read_root_directory reads the tables of root and changes nothing.  It does
\* not load them into the directory table buffer, which holds whatever table
\* the last call left there.
read_root_directory ==
    /\ ~hung
    /\ Breach({})
    /\ \E name \in {disk[c].name : c \in Clusters} :
         IF Terminates(FatView(fat_table, name), ROOT_CLUSTER_NUMBER)
         THEN Answer(0, <<>>) ELSE Hang
    /\ UNCHANGED <<disk, diskFat, fat_table>>

-----------------------------------------------------------------------------
(***************************************************************************)
(* write                                                                   *)
(***************************************************************************)
\* Marks in the FAT are ignored.
MutantFindMarked(fat, taken) == Min((3 .. CLUSTER_MAP_SIZE) \ taken)

\* The first free cluster, CLUSTER_MAP_SIZE if there is none.
findEmptyCluster(fat, taken) ==
    LET free == {c \in 3 .. CLUSTER_MAP_SIZE - 1 : fat[c] = 0 /\ c \notin taken}
    IN  IF free = {} THEN CLUSTER_MAP_SIZE ELSE Min(free)

\* al is what consecutive calls of findEmptyCluster return when each cluster is
\* marked in the FAT before the next call.
FirstFit(fat, al) ==
    \A i \in DOMAIN al : al[i] = findEmptyCluster(fat, {al[j] : j \in 1 .. i - 1})

\* Extensions of folders are compared.
MutantExistsFolderExt(t, n, e, isFolder) ==
    \E i \in LiveSlots(t) : t.slots[i].name = n /\ t.slots[i].ext = e

\* Only files are looked for.
MutantExistsFiles(t, n, e, isFolder) ==
    \E i \in LiveSlots(t) : t.slots[i].name = n /\ ~t.slots[i].subdir /\ t.slots[i].ext = e

\* An entry of the name exists: a folder clashes with folders of any
\* extension, a file with files and folders of the same extension.
Exists(t, n, e, isFolder) ==
    \E i \in LiveSlots(t) : /\ t.slots[i].name = n
                            /\ IF isFolder THEN t.slots[i].subdir ELSE t.slots[i].ext = e

\* The size is one cluster too many.
MutantEntrySize(n, e, k, c) ==
    [undelete |-> TRUE, name |-> n, ext |-> IF k = 0 THEN NoExt ELSE e,
     subdir |-> k = 0, cluster |-> c, filesize |-> k + 1]

NewEntry(n, e, k, c) ==
    [undelete |-> TRUE, name |-> n, ext |-> IF k = 0 THEN NoExt ELSE e,
     subdir |-> k = 0, cluster |-> c, filesize |-> k]

\* Fragments are counted from one.
MutantFragment(p, n, k, x, i) ==
    IF k = 0 THEN init_directory_table(n, p)
    ELSE [Blank EXCEPT !.data = <<x, i % FRAGMENT_CTR_SIZE>>]

\* Cluster i of the new object: the table of a folder, or fragment i of a file.
\* fragment_ctr is a uint8_t and wraps.
NewCluster(p, n, k, x, i) ==
    IF k = 0 THEN init_directory_table(n, p)
    ELSE [Blank EXCEPT !.data = <<x, (i - 1) % FRAGMENT_CTR_SIZE>>]

\* The end of the chain is not marked.
MutantChainNoEnd(fat, al, ext, last) ==
    [c \in FatIndex |->
        IF \E i \in DOMAIN al : al[i] = c /\ i + 1 \in DOMAIN al
        THEN al[(CHOOSE j \in DOMAIN al : al[j] = c) + 1]
        ELSE IF ext = 1 /\ c = last THEN al[1] ELSE fat[c]]

\* The FAT after the object's clusters are chained.  ext = 1: al[1] is a table
\* that extends the parent, chained to its last table.
ChainFat(fat, al, ext, last) ==
    [c \in FatIndex |->
        IF \E i \in DOMAIN al : al[i] = c
        THEN LET i == CHOOSE j \in DOMAIN al : al[j] = c
             IN  IF i = ext \/ i + 1 \notin DOMAIN al
                 THEN FAT32_FAT_END_OF_FILE ELSE al[i + 1]
        ELSE IF ext = 1 /\ c = last THEN al[1] ELSE fat[c]]

\* k = 0 creates a folder, k > 0 a file of k clusters with contents x.  The
\* buffer holds the last table of the parent, whichever table the free slot
\* was found in, and is written to the parent's first cluster.  A parent
\* without a free slot gets a new last table: the buffer is written there, and
\* the entry, at index TABLE_LENGTH, behind the buffer.
WriteObject(p, n, e, k, x) ==
    LET v == DirView(diskFat)
        tables == Reach(v, p)
        roomy == {t \in tables : FreeSlots(disk[t]) # {}}
        ext == IF roomy = {} THEN 1 ELSE 0
        last == LastOf(v, tables)
        count == ext + (IF k = 0 THEN 1 ELSE k)
    IN  \E al \in [1 .. count -> 3 .. CLUSTER_MAP_SIZE] :
          LET full == \E i \in DOMAIN al : al[i] = CLUSTER_MAP_SIZE
              home == IF ext = 1 THEN al[1] ELSE p
              fat == ChainFat(diskFat, al, ext, last)
              buf == [disk[last] EXCEPT
                        !.notEmpty = TRUE,
                        !.name = IF full THEN Smashed ELSE @,
                        !.slots = IF ext = 1 THEN @
                                  ELSE [@ EXCEPT ![Min(FreeSlots(disk[FirstOf(v, roomy)]))] =
                                            NewEntry(n, e, k, al[1])]]
          IN  /\ FirstFit(diskFat, al)
              /\ Breach(Stale(p) \cup {l \in {"disk_full", "table_full", "long_file"} :
                     CASE l = "disk_full" -> full
                       [] l = "table_full" -> ext = 1
                       [] l = "long_file" -> k > FRAGMENT_CTR_SIZE})
              /\ disk' = [c \in Clusters |->
                            IF c = home THEN buf
                            ELSE IF \E i \in 1 + ext .. count : al[i] = c
                            THEN NewCluster(p, n, k, x,
                                   Max({i \in 1 + ext .. count : al[i] = c}) - ext)
                            ELSE disk[c]]
              /\ StoreFat(fat)
              /\ Answer(0, <<>>)

write(p, n, e, k, x) ==
    LET v == DirView(diskFat)
        exists == \E t \in Reach(v, p) : Exists(disk[t], n, e, k = 0)
    IN  /\ ~hung
        /\ \/ /\ disk[p].subdir /\ ~exists /\ Terminates(v, p)
              /\ WriteObject(p, n, e, k, x)
           \/ /\ ~disk[p].subdir \/ exists \/ ~Terminates(v, p)
              /\ Breach(Stale(p))
              /\ fat_table' = diskFat
              /\ IF ~disk[p].subdir THEN Answer(2, <<>>)
                 ELSE IF exists THEN Answer(1, <<>>) ELSE Hang
              /\ UNCHANGED <<disk, diskFat>>


-----------------------------------------------------------------------------
(***************************************************************************)
(* delete                                                                  *)
(***************************************************************************)
\* Only the first cluster of the chain is freed.
MutantFreeFirst(fat, chain) == [c \in FatIndex |-> IF c = Min(chain) THEN 0 ELSE fat[c]]

\* All that is behind the chain is freed with it.
MutantFreeRest(fat, chain) == [c \in FatIndex |-> IF c >= Min(chain) THEN 0 ELSE fat[c]]

\* The FAT with the entries of a chain cleared.
FreeChain(fat, chain) == [c \in FatIndex |-> IF c \in chain THEN 0 ELSE fat[c]]

\* The entry stays.
MutantKeepSlot(t, i, chain) ==
    [t EXCEPT !.name = IF CLUSTER_MAP_SIZE \in chain THEN NoName ELSE @]

\* The table with the deleted entry zeroed.  Clearing the entry of cluster
\* CLUSTER_MAP_SIZE clears the header's name.
ClearSlot(t, i, chain) ==
    [t EXCEPT !.slots[i] = NullEntry,
              !.name = IF CLUSTER_MAP_SIZE \in chain THEN NoName ELSE @]

\* The flag stays set when the last entry goes.
MutantKeepFlag(p, cleared, fat) == cleared

\* The flag is reset whatever remains.
MutantResetFlag(p, cleared, fat) == [cleared EXCEPT !.notEmpty = FALSE]

\* What is written to the parent: the search for remaining entries starts in
\* the table with the cleared slot and continues in the tables behind the
\* parent's first one, read into the same buffer.
TableAfterDelete(p, cleared, fat) ==
    LET v == DirView(fat)
        rest == Reach(v, p) \ {p}
        live == {t \in rest : LiveSlots(disk[t]) # {}}
        buf == IF LiveSlots(cleared) # {} \/ fat[p] = FAT32_FAT_END_OF_FILE THEN cleared
               ELSE IF live # {} THEN disk[FirstOf(v, live)] ELSE disk[LastOf(v, rest)]
    IN  [buf EXCEPT !.notEmpty = IF LiveSlots(buf) = {} THEN FALSE ELSE @]

\* That search never ends.
SearchHangs(p, cleared, fat) ==
    LET v == DirView(fat)
    IN  /\ LiveSlots(cleared) = {}
        /\ ~Terminates(v, p)
        /\ \A t \in Reach(v, p) \ {p} : LiveSlots(disk[t]) = {}

\* A folder is in use when its header says so.
InUse(entry) == entry.subdir /\ disk[entry.cluster].notEmpty

delete(p, n, e) ==
    LET v == DirView(diskFat)
        hits == {t \in Reach(v, p) : Named(disk[t], n, e) # {}}
        t == FirstOf(v, hits)
        i == Min(Named(disk[t], n, e))
        entry == disk[t].slots[i]
        w == FatView(diskFat, disk[t].name)
        chain == Reach(w, entry.cluster)
        cleared == ClearSlot(disk[t], i, chain)
        fat == FreeChain(diskFat, chain)
        ret == IF ~disk[p].subdir THEN -1
               ELSE IF hits = {} THEN 1
               ELSE IF InUse(entry) THEN 2 ELSE 0
        hangs == \/ ret = 1 /\ ~Terminates(v, p)
                 \/ ret = 0 /\ (~Terminates(w, entry.cluster) \/ SearchHangs(p, cleared, fat))
    IN  /\ ~hung
        /\ Breach(Stale(p))
        /\ IF ret = 0 /\ ~hangs
           THEN /\ disk' = [disk EXCEPT ![p] = TableAfterDelete(p, cleared, fat)]
                /\ StoreFat(fat)
           ELSE /\ fat_table' = diskFat
                /\ UNCHANGED <<disk, diskFat>>
        /\ IF hangs THEN Hang ELSE Answer(ret, <<>>)

-----------------------------------------------------------------------------
(***************************************************************************)
(* rename_dir and move_dir.  Both start with read_directory, which leaves  *)
(* the table with the directory in the parent's first cluster.  Both then  *)
(* take the first slot with the name for the directory's, live or not and  *)
(* whatever its extension.                                                 *)
(***************************************************************************)
FirstNamed(t, n) == Min({i \in Slots : t.slots[i].name = n})

\* Another entry is taken for the directory's.
Mistaken(t, n) ==
    LET i == FirstNamed(t, n)
    IN  ~t.slots[i].undelete \/ ~t.slots[i].subdir \/ t.slots[i].ext # NoExt

NameClash(b) == IF b THEN {"name_clash"} ELSE {}

\* read_directory has not found the directory, or does not return.
NotFound(p, r) ==
    /\ r.hangs \/ r.ret # 0
    /\ Breach(Stale(p))
    /\ disk' = r.disk
    /\ fat_table' = r.fat
    /\ IF r.hangs THEN Hang ELSE Answer(r.ret, <<>>)
    /\ UNCHANGED diskFat

\* The entry leads to the parent.
MutantEntryParent(r, name) ==
    [undelete |-> TRUE, name |-> name, ext |-> NoExt, subdir |-> r.buf.subdir,
     cluster |-> r.buf.parent, filesize |-> 0]

DirEntry(r, name) ==
    [undelete |-> TRUE, name |-> name, ext |-> NoExt, subdir |-> r.buf.subdir,
     cluster |-> r.cluster, filesize |-> 0]

\* The header of the directory itself.
Renamed(t, name) == [t EXCEPT !.name = name]

\* The header keeps its parent.
MutantKeepParent(t, parent) == t

Reparented(t, parent) == [t EXCEPT !.parent = parent]

rename_dir(p, n, e, size, new) ==
    LET r == ReadDirectory(p, n, e, size)
        t == r.disk[p]
    IN  /\ ~hung
        /\ \/ NotFound(p, r)
           \/ /\ ~r.hangs /\ r.ret = 0
              /\ Breach(Stale(p) \cup NameClash(Mistaken(t, n) \/ Exists(t, new, NoExt, FALSE)))
              /\ disk' = [r.disk EXCEPT
                            ![p].slots[FirstNamed(t, n)] = DirEntry(r, new),
                            ![r.cluster] = Renamed(r.buf, new)]
              /\ fat_table' = diskFat
              /\ Answer(0, <<>>)
              /\ UNCHANGED diskFat

\* The destination q has room: the entry goes to the first free slot of its
\* tables.  Nothing asks whether q is a directory: the entry overwrites what a
\* file has there.  The child's table is written last, as read_directory
\* returned it, with the table that took the entry as its parent.
MoveInto(r, old, v, q) ==
    LET roomy == {t \in Reach(v, q) : FreeSlots(old[t]) # {}}
        home == FirstOf(v, roomy)
    IN  disk' = [old EXCEPT
                   ![home].slots[Min(FreeSlots(old[home]))] = DirEntry(r, r.buf.name),
                   ![home].data = NoData,
                   ![r.cluster] = Reparented(r.buf, home)]

\* The destination is full: it gets a new table whose slots are what the stack
\* held, here the slots of any table that is on the disk.  The entry goes to
\* the first slot that looks free; if none does, tables are added for ever:
\* when the machine is switched off the free clusters up to some m hold one.
MoveExtending(r, old, v, q) ==
    LET last == LastOf(v, Reach(v, q))
        new == findEmptyCluster(diskFat, {})
        fat == ChainFat(diskFat, <<new>>, 1, last)
    IN  \E junk \in {old[c] : c \in Clusters} :
          LET table == [junk EXCEPT !.subdir = TRUE, !.name = old[last].name,
                                    !.parent = old[last].parent, !.data = NoData]
          IN  IF FreeSlots(table) = {}
              THEN /\ \E m \in new .. CLUSTER_MAP_SIZE :
                        disk' = [c \in Clusters |->
                                   IF c \in new .. m /\ (v[c] = 0 \/ c = CLUSTER_MAP_SIZE)
                                   THEN table ELSE old[c]]
                   /\ fat_table' = fat
                   /\ Hang
                   /\ UNCHANGED diskFat
              ELSE /\ disk' = [c \in Clusters |->
                         IF c = r.cluster THEN Reparented(r.buf, new)
                         ELSE IF c = new
                         THEN [table EXCEPT !.slots[Min(FreeSlots(table))] = DirEntry(r, r.buf.name)]
                         ELSE old[c]]
                   /\ StoreFat(fat)
                   /\ Answer(0, <<>>)

move_dir(p, n, e, size, q) ==
    LET r == ReadDirectory(p, n, e, size)
        t == r.disk[p]
        old == [r.disk EXCEPT ![p].slots[FirstNamed(t, n)].undelete = FALSE]
        v == FatView(diskFat, disk[LastOf(DirView(fat_table), Reach(DirView(fat_table), p))].name)
        room == \E u \in Reach(v, q) : FreeSlots(old[u]) # {}
        taken == \E u \in Reach(v, q) : Exists(old[u], r.buf.name, NoExt, FALSE)
        common == {"moved"} \cup Stale(p) \cup Astray(q) \cup NameClash(Mistaken(t, n) \/ taken)
    IN  /\ ~hung
        /\ \/ NotFound(p, r)
           \/ /\ ~r.hangs /\ r.ret = 0
              /\ \/ /\ room
                    /\ Breach(common)
                    /\ MoveInto(r, old, v, q)
                    /\ fat_table' = diskFat
                    /\ Answer(0, <<>>)
                    /\ UNCHANGED diskFat
                 \/ /\ ~room /\ Terminates(v, q)
                    /\ Breach(common \cup {"table_full"} \cup
                         IF findEmptyCluster(diskFat, {}) = CLUSTER_MAP_SIZE
                         THEN {"disk_full"} ELSE {})
                    /\ MoveExtending(r, old, v, q)
                 \/ /\ ~room /\ ~Terminates(v, q)
                    /\ Breach(common)
                    /\ disk' = old
                    /\ fat_table' = diskFat
                    /\ Hang
                    /\ UNCHANGED diskFat


-----------------------------------------------------------------------------
NoReply == [ret |-> 0, data |-> <<>>]

\* The boot sector, which is the first block of cluster 0, is the signature.
\* Read as entries the signature is a header and empty slots.
is_empty_storage == \E i \in Slots : i < BOOT_ENTRIES /\ disk[0].slots[i] # NullEntry

\* create_fat32 on a used disk writes the boot sector, the FAT and root.
Reformat ==
    /\ disk' = [disk EXCEPT
                  ![0].slots = [i \in Slots |-> IF i < BOOT_ENTRIES THEN NullEntry ELSE @[i]],
                  ![ROOT_CLUSTER_NUMBER] = init_directory_table(RootName, ROOT_CLUSTER_NUMBER)]
    /\ diskFat' = FreshFat

\* The machine is switched off between two calls, or because it hangs, and
\* started again.
initialize_filesystem_fat32 ==
    /\ IF is_empty_storage THEN Reformat ELSE UNCHANGED <<disk, diskFat>>
    /\ fat_table' = diskFat'
    /\ reply' = NoReply
    /\ hung' = FALSE
    /\ Breach({})

\* The first start of the machine formats the disk.
Init ==
    /\ create_fat32
    /\ fat_table = diskFat
    /\ reply = NoReply
    /\ hung = FALSE
    /\ limits = {}

Parents == 2 .. CLUSTER_MAP_SIZE - 1

Next ==
    \/ \E p \in Parents, n \in Names :
         \/ \E e \in Exts :
              \/ \E size \in BufferSizes :
                   \/ read_directory(p, n, e, size)
                   \/ read(p, n, e, size)
                   \/ \E new \in Names : rename_dir(p, n, e, size, new)
                   \/ \E q \in Parents : move_dir(p, n, e, size, q)
              \/ \E k \in 0 .. MAX_FILE_CLUSTERS, x \in Contents : write(p, n, e, k, x)
              \/ delete(p, n, e)
    \/ read_root_directory
    \/ initialize_filesystem_fat32

Spec == Init /\ [][Next]_vars

-----------------------------------------------------------------------------
Codes == -1 .. 3

\* Types: the disk holds clusters, both copies of the FAT map clusters to
\* clusters or marks, replies are codes of fat32.h.
TypeOK ==
    /\ disk \in [Clusters -> Cluster]
    /\ diskFat \in [FatIndex -> FatValues]
    /\ fat_table \in [FatIndex -> FatValues]
    /\ reply.ret \in Codes
    /\ hung \in BOOLEAN
    /\ limits \subseteq Breaches

LiveEntries == {s \in Dirs \X Slots : disk[s[1]].slots[s[2]].undelete}

At(s) == disk[s[1]].slots[s[2]]

FatNow == FatView(fat_table, NoName)

ChainOf(s) == Reach(FatNow, At(s).cluster)

\* Between two calls the driver's copy of the FAT is the one on the disk: no
\* path of write, delete or move_dir returns with a change it has not written.
\* And unless the disk has been full, the reserved entries and root are never
\* handed out, whatever other limits calls have run into.
FatCoherent ==
    /\ ~hung => fat_table = diskFat
    /\ "disk_full" \notin limits =>
         /\ diskFat[0] = CLUSTER_0_VALUE
         /\ diskFat[1] = FAT32_FAT_END_OF_FILE
         /\ diskFat[ROOT_CLUSTER_NUMBER] # 0

\* Every live entry leads to a chain of allocated clusters that ends and holds
\* what the entry says: one directory table, or as many file clusters as the
\* file has.
NoDangling ==
    limits \subseteq {"moved", "stale"} => \A s \in LiveEntries :
        /\ ChainOf(s) \subseteq 3 .. CLUSTER_MAP_SIZE - 1
        /\ Terminates(FatNow, At(s).cluster)
        /\ \A c \in ChainOf(s) : fat_table[c] # 0 /\ disk[c].subdir = At(s).subdir
        /\ Cardinality(ChainOf(s)) = IF At(s).subdir THEN 1 ELSE At(s).filesize

\* fat32.h: write answers "0 success".  Two objects that write has created do
\* not use the same cluster.
ClustersUnshared ==
    \A s, u \in LiveEntries : s # u => ChainOf(s) \cap ChainOf(u) = {}

\* No cluster belongs to two entries: what write allocates is free, and what
\* delete frees is used by nothing else.
NoSharing == limits \subseteq {"moved", "stale"} => ClustersUnshared

\* No cluster is lost: each one that is marked used belongs to an entry.
NoLeak ==
    limits = {} => \A c \in 3 .. CLUSTER_MAP_SIZE - 1 :
        fat_table[c] # 0 => \E s \in LiveEntries : c \in ChainOf(s)

\* The header's user_attribute, by which delete tells whether a folder is
\* empty, is right in every directory.
EmptyFlag ==
    limits = {} => \A d \in Dirs : disk[d].notEmpty <=> LiveSlots(disk[d]) # {}

\* The header of a directory names it and its parent as the parent's entry does.
HeaderAgrees ==
    limits \subseteq {"moved", "stale"} => \A s \in LiveEntries : At(s).subdir =>
        /\ disk[At(s).cluster].name = At(s).name
        /\ disk[At(s).cluster].parent = s[1]

\* A directory has no two files and no two folders of the same name.
UniqueNames ==
    limits \subseteq {"moved", "stale"} => \A d \in Dirs : \A i, j \in LiveSlots(disk[d]) :
        LET a == disk[d].slots[i]
            b == disk[d].slots[j]
        IN  i # j => a.name # b.name \/ a.ext # b.ext \/ a.subdir # b.subdir

\* A file holds the fragments of one write, in their order.
FileIntact ==
    limits \subseteq {"moved", "stale"} => \A s \in LiveEntries : ~At(s).subdir =>
        \E x \in Contents : \A i \in 1 .. At(s).filesize :
            disk[Nth(FatNow, At(s).cluster, i)].data = <<x, i - 1>>

\* Calls on directories that exist always return.
NoHang == limits = {} => ~hung

DataOf(s) == [i \in 1 .. At(s).filesize |-> disk[Nth(FatNow, At(s).cluster, i)].data]

\* No call changes what another file contains: as long as an entry stays the
\* entry of that file, wherever its directory is moved, it reads the same.
FilesUndisturbed ==
    [][limits' \subseteq {"moved", "stale"} => \A s \in LiveEntries :
          ~At(s).subdir /\ s \in LiveEntries' /\ At(s)' = At(s) => DataOf(s)' = DataOf(s)]_vars

\* A directory ceases to exist only when it has no entries.
DirsVanishEmpty ==
    [][limits' = {} => \A d \in Dirs : d \notin Dirs' => LiveSlots(disk[d]) = {}]_vars

\* fat32.h: delete is to "delete a file or empty directory (only 1
\* DirectoryEntry)" and answers "2 folder is not empty".  Whatever has been
\* done to them before, directories with entries do not cease to exist.
OnlyEmptyDeleted ==
    [][\A d \in Dirs : d \notin Dirs' => LiveSlots(disk[d]) = {}]_vars
=============================================================================
