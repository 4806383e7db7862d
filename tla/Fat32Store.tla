----------------------------- MODULE Fat32Store -----------------------------
(***************************************************************************)
(* The FAT32 driver implements FileStore: the directories are the tables   *)
(* whose cluster is in use, a file is the contents of its first cluster    *)
(* and the size of its entry.                                              *)
(***************************************************************************)
EXTENDS Fat32

\* What an entry of a directory table stands for.  The entry of a directory
\* that was moved away still has its name.
EntryOf(t) ==
    LET data == disk[t.cluster].data
    IN  [live |-> t.undelete,
         name |-> t.name,
         ext |-> IF t.undelete THEN t.ext ELSE NoExt,
         dir |-> IF t.undelete /\ t.subdir THEN t.cluster ELSE 0,
         size |-> IF t.undelete THEN t.filesize ELSE 0,
         x |-> IF t.undelete /\ ~t.subdir /\ data # NoData THEN data[1] ELSE NoData]

StoreOf ==
    [d \in Dirs |-> [notEmpty |-> disk[d].notEmpty,
                     slots |-> [i \in Slots |-> EntryOf(disk[d].slots[i])]]]

Store == INSTANCE FileStore WITH
    store <- StoreOf,
    DirIds <- Parents,
    Root <- ROOT_CLUSTER_NUMBER,
    MaxSize <- MAX_FILE_CLUSTERS

\* Within its limits the driver is a FileStore: every call answers and leaves
\* the directories as the specification says, whatever was done before and
\* however often the machine was restarted.
ImplementsStore == Store!Spec

\* Also when directories are moved, until a call reaches a cluster that is not
\* a directory any more.
ImplementsStoreUntilStale ==
    Store!Init /\ [][limits' \subseteq {"moved"} => Store!Next]_<<StoreOf, reply>>
=============================================================================
