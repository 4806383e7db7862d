----------------------------- MODULE Fat32Power -----------------------------
(***************************************************************************)
(* The FAT32 driver and the disk under it (src/fat32.c, src/disk.c): a call*)
(* is the writes of clusters that it makes, one after the other, and the   *)
(* power may fail between any two of them.                                 *)
(*                                                                         *)
(* The variables of Fat32 are what the running call leaves behind once all *)
(* its writes are done; platter is what is on the disk now, and writes is  *)
(* what the call has still to write.  After a power failure the machine is *)
(* started again, and what is on the platter is all there is.              *)
(*                                                                         *)
(* The calls stay within the driver's limits, but for move_dir.  On a disk *)
(* whose format was cut off there is no root: every call is refused and    *)
(* none is made here.                                                      *)
(*                                                                         *)
(* Two kinds of calls undo what the driver keeps otherwise, and risks      *)
(* remembers that one was made: any call on a disk where a power failure   *)
(* has left an entry that leads to a free cluster, which the next write    *)
(* takes, and move_dir of a directory into itself.                         *)
(***************************************************************************)
EXTENDS Fat32

CONSTANTS
    Risks,          \* which of the risks callers take
    MaxFailures,    \* bound: the power fails so often
    MaxCalls        \* bound: so many calls write

ASSUME RiskAssumption == Risks \subseteq {"torn", "itself"}

VARIABLES
    platter,    \* the boot sector's signature, the FAT and the clusters
    writes,     \* the writes that the running call has still to do
    formatted,  \* history: the format was finished
    risks,      \* history: the risks that calls have taken
    failures,   \* history: how often the power failed
    calls       \* history: how many calls wrote

powerVars == <<disk, diskFat, fat_table, reply, hung, limits, platter, writes, formatted,
               risks, failures, calls>>

BOOT_SECTOR == 0

FAT_CLUSTER_NUMBER == 1

Put(c, value) == [at |-> c, value |-> value]

Written(on, w) ==
    IF w.at = BOOT_SECTOR THEN [on EXCEPT !.signed = TRUE]
    ELSE IF w.at = FAT_CLUSTER_NUMBER THEN [on EXCEPT !.fat = w.value]
    ELSE [on EXCEPT !.clusters[w.at] = w.value]

-----------------------------------------------------------------------------
(***************************************************************************)
(* The writes of a call, in their order, from what it leaves behind.       *)
(***************************************************************************)
Table(c) == Put(c, disk'[c])

Fat(fat) == Put(FAT_CLUSTER_NUMBER, fat)

\* The parent is written before the table it leads to.
MutantFolderWrites(p, c) == <<Table(p), Table(c), Fat(diskFat')>>

FolderWrites(p, c) == <<Table(c), Table(p), Fat(diskFat')>>

\* The entry is written before the file.
MutantFileWrites(p, al) ==
    <<Table(p)>> \o [i \in 1 .. 2 * Len(al) |->
        IF i % 2 = 1 THEN Fat(ChainFat(diskFat, SubSeq(al, 1, (i + 1) \div 2), 0, p))
        ELSE Table(al[i \div 2])]

\* Each cluster is marked and linked in the FAT before it is written.
FileWrites(p, al) ==
    [i \in 1 .. 2 * Len(al) + 1 |->
        IF i > 2 * Len(al) THEN Table(p)
        ELSE IF i % 2 = 1 THEN Fat(ChainFat(diskFat, SubSeq(al, 1, (i + 1) \div 2), 0, p))
        ELSE Table(al[i \div 2])]

\* What findEmptyCluster returns to write: one cluster for a folder's table, or
\* one for each fragment of a file.
Taken(k) ==
    {al \in [1 .. (IF k = 0 THEN 1 ELSE k) -> 3 .. CLUSTER_MAP_SIZE] : FirstFit(diskFat, al)}

DeleteWrites(p) == <<Table(p), Fat(diskFat')>>

\* The child's table is not written.
MutantRenameWrites(p, named, child) == <<Put(p, named)>>

\* named is the parent with the new name: the child's table may overwrite it.
RenameWrites(p, named, child) == <<Put(p, named), Table(child)>>

\* The new entry is written before the old one is gone.
MutantMoveWrites(p, left, q, taking, child) ==
    <<Put(q, taking), Put(p, IF p = q THEN taking ELSE left), Table(child), Fat(diskFat')>>

\* left is the old parent without the directory, taking is the new one with
\* it: the child's table overwrites that of a directory moved into itself.
MoveWrites(p, left, q, taking, child) ==
    <<Put(p, left), Put(q, taking), Table(child), Fat(diskFat')>>

\* A call that does not get that far writes the parent or nothing.
OtherWrites(p) == IF disk' = disk THEN <<>> ELSE <<Table(p)>>

-----------------------------------------------------------------------------
(***************************************************************************)
(* What is on a disk.                                                      *)
(***************************************************************************)
\* Entries, and whether an entry leads to what it says.
DirsOn(on) == {c \in FatIndex : on.fat[c] # 0 /\ on.clusters[c].subdir}

EntriesOn(on) == {s \in DirsOn(on) \X Slots : on.clusters[s[1]].slots[s[2]].undelete}

EntryOn(on, s) == on.clusters[s[1]].slots[s[2]]

\* A folder has one table here.
ChainOn(on, s) ==
    IF EntryOn(on, s).subdir THEN {EntryOn(on, s).cluster}
    ELSE Reach(FatView(on.fat, NoName), EntryOn(on, s).cluster)

WholeFolder(on, s) ==
    /\ on.fat[EntryOn(on, s).cluster] = FAT32_FAT_END_OF_FILE
    /\ on.clusters[EntryOn(on, s).cluster].subdir

FileOn(on, s) ==
    [i \in 1 .. Cardinality(ChainOn(on, s)) |->
        on.clusters[Nth(FatView(on.fat, NoName), EntryOn(on, s).cluster, i)].data]

WholeFile(on, s) ==
    /\ \A c \in ChainOn(on, s) : on.fat[c] # 0
    /\ Terminates(FatView(on.fat, NoName), EntryOn(on, s).cluster)
    /\ \E x \in Contents : FileOn(on, s) = [i \in 1 .. EntryOn(on, s).filesize |-> <<x, i - 1>>]

Whole(on, s) == IF EntryOn(on, s).subdir THEN WholeFolder(on, s) ELSE WholeFile(on, s)

Torn(on) == {s \in EntriesOn(on) : ~Whole(on, s)}

Entered(on, d) == \E s \in EntriesOn(on) : EntryOn(on, s).subdir /\ EntryOn(on, s).cluster = d

-----------------------------------------------------------------------------
(***************************************************************************)
(* Calls.                                                                  *)
(***************************************************************************)
Did == reply'.ret = 0 /\ ~hung'

Unchanged == disk' = disk /\ diskFat' = diskFat

\* A call takes risks only where Risks allows it.
Risk(r) ==
    LET taken == r \cup (IF Torn(platter) = {} THEN {} ELSE {"torn"})
    IN  taken \subseteq Risks /\ risks' = risks \cup taken

Write(p, n, e, k, x) ==
    /\ write(p, n, e, k, x)
    /\ Risk({})
    /\ \/ Unchanged /\ writes' = <<>>
       \/ /\ ~Unchanged
          /\ \E al \in Taken(k) :
               writes' = IF k = 0 THEN FolderWrites(p, al[1]) ELSE FileWrites(p, al)

Delete(p, n, e) ==
    /\ delete(p, n, e)
    /\ Risk({})
    /\ writes' = IF Unchanged THEN <<>> ELSE DeleteWrites(p)

RenameDir(p, n, e, size, new) ==
    LET r == ReadDirectory(p, n, e, size)
        named == [disk[p] EXCEPT !.slots[FirstNamed(disk[p], n)] = DirEntry(r, new)]
    IN  /\ rename_dir(p, n, e, size, new)
        /\ Risk({})
        /\ writes' = IF Did THEN RenameWrites(p, named, r.cluster) ELSE OtherWrites(p)

MoveDir(p, n, e, size, q) ==
    LET r == ReadDirectory(p, n, e, size)
        left == [disk[p] EXCEPT !.slots[FirstNamed(disk[p], n)].undelete = FALSE]
        to == IF q = p THEN left ELSE disk[q]
        taking == [to EXCEPT !.slots[Min(FreeSlots(to))] = DirEntry(r, r.buf.name),
                             !.data = NoData]
    IN  /\ move_dir(p, n, e, size, q)
        /\ Risk(IF r.cluster = q THEN {"itself"} ELSE {})
        /\ writes' = IF Did THEN MoveWrites(p, left, q, taking, r.cluster) ELSE OtherWrites(p)

\* The directories callers know of: after a power failure they start from root.
Known == {d \in Parents : d = ROOT_CLUSTER_NUMBER \/ Entered(platter, d)}

Call ==
    /\ writes = <<>> /\ formatted /\ calls < MaxCalls
    /\ \E p \in Known, n \in Names, e \in Exts :
         \/ \E k \in 0 .. MAX_FILE_CLUSTERS, x \in Contents : Write(p, n, e, k, x)
         \/ Delete(p, n, e)
         \/ \E size \in BufferSizes :
              \/ \E new \in Names : RenameDir(p, n, e, size, new)
              \/ \E q \in Known : MoveDir(p, n, e, size, q)
    /\ writes' # <<>> /\ calls' = calls + 1
    /\ UNCHANGED <<platter, formatted, failures>>

\* write_clusters, or in create_fat32 write_blocks: one write.
write_clusters ==
    /\ writes # <<>>
    /\ platter' = Written(platter, Head(writes))
    /\ writes' = Tail(writes)
    /\ formatted' = (formatted \/ Len(writes) = 1)
    /\ UNCHANGED <<vars, risks, failures, calls>>

FormatWrites ==
    <<Put(BOOT_SECTOR, Blank), Fat(FreshFat),
      Put(ROOT_CLUSTER_NUMBER, init_directory_table(RootName, ROOT_CLUSTER_NUMBER))>>

\* The power fails.  The machine formats a disk without signature, and loads
\* the FAT of another.
PowerFails ==
    /\ writes # <<>>
    /\ failures < MaxFailures /\ failures' = failures + 1
    /\ reply' = NoReply /\ hung' = FALSE
    /\ IF platter.signed
       THEN disk' = platter.clusters /\ diskFat' = platter.fat /\ writes' = <<>>
       ELSE UNCHANGED <<disk, diskFat>> /\ writes' = FormatWrites
    /\ fat_table' = diskFat'
    /\ UNCHANGED <<limits, platter, formatted, risks, calls>>

PowerInit ==
    /\ Init
    /\ platter = [signed |-> FALSE, fat |-> [c \in FatIndex |-> 0],
                  clusters |-> [c \in Clusters |-> Blank]]
    /\ writes = FormatWrites
    /\ formatted = FALSE
    /\ risks = {}
    /\ failures = 0
    /\ calls = 0

PowerNext == Call \/ write_clusters \/ PowerFails

PowerSpec == PowerInit /\ [][PowerNext]_powerVars

-----------------------------------------------------------------------------
(***************************************************************************)
(* Properties.                                                             *)
(***************************************************************************)
\* When a call returns, all that it has changed is on the disk, and the driver's
\* copy of the FAT is the one there: no path leaves out a write.
Settled ==
    writes = <<>> => platter.clusters = disk /\ platter.fat = fat_table

\* Whenever the power fails, a file that has an entry is all there: its chain
\* is marked in the FAT and holds the fragments of one write, in their order.
FilesWhole ==
    risks = {} =>
      \A s \in EntriesOn(platter) : ~EntryOn(platter, s).subdir => WholeFile(platter, s)

Apart(on) == \A s, u \in EntriesOn(on) : s # u => ChainOn(on, s) \cap ChainOn(on, u) = {}

\* Whenever the power fails, no two entries lead to the same clusters, and none
\* to those of root or the FAT: write takes free clusters, and move_dir removes
\* the old entry before it writes the new one.
NothingShared ==
    risks = {} =>
      /\ Apart(platter)
      /\ \A s \in EntriesOn(platter) : \A c \in 0 .. ROOT_CLUSTER_NUMBER : c \notin ChainOn(platter, s)

\* fat32.h: write answers "0 success": what it has created is there.  When a call
\* has returned, or the machine has started again after a power failure, no two
\* entries lead to the same cluster.
OwnersApart == writes = <<>> => Apart(platter)

\* Whenever the power fails, at most one entry leads to what is not marked in
\* the FAT: that of the folder which write is making (fat32.c:309).  Its table
\* is written, and is empty.
OneTorn ==
    risks = {} =>
      /\ Cardinality(Torn(platter)) <= 1
      /\ \A s \in Torn(platter) :
           /\ EntryOn(platter, s).subdir
           /\ platter.fat[EntryOn(platter, s).cluster] = 0
           /\ platter.clusters[EntryOn(platter, s).cluster] =
                init_directory_table(EntryOn(platter, s).name, s[1])

\* A write of a cluster changes no more than one entry on the disk, and the
\* contents of no file whose entry it leaves as it is.
OneAtATime ==
    [][LET same(s) == s \in EntriesOn(platter') /\ EntryOn(platter', s) = EntryOn(platter, s)
       IN  formatted /\ risks' = {} =>
             /\ Cardinality({s \in EntriesOn(platter) : ~same(s)}) <= 1
             /\ \A s \in EntriesOn(platter) :
                  same(s) /\ ~EntryOn(platter, s).subdir
                    => FileOn(platter', s) = FileOn(platter, s)]_powerVars

\* A directory with entries ceases to exist, also when the power fails, only
\* while move_dir has it in neither of its two parents (fat32.c:710).
LostOnlyByMove ==
    limits = {} /\ risks = {} => \A d \in DirsOn(platter) \ {ROOT_CLUSTER_NUMBER} :
        (\E i \in Slots : platter.clusters[d].slots[i].undelete) => Entered(platter, d)
=============================================================================
