----------------------------- MODULE Directories -----------------------------
(***************************************************************************)
(* Directories and files as the callers of the FAT32 driver see them, and  *)
(* the driver's operations (src/fat32.c) on them: there are no clusters, no*)
(* FAT and no second copy of it, and a file is its contents and its size,  *)
(* not a chain of fragments.                                               *)
(*                                                                         *)
(* Each operation takes the directories s, a function from the identities  *)
(* of those that exist, and returns its return code and the directories it *)
(* leaves.  FileStore makes steps of them, Shell composes commands of them.*)
(***************************************************************************)
EXTENDS Integers, FiniteSets, FiniteSetsExt

CONSTANTS
    DirIds,         \* identities of directories
    Root,           \* that of the root directory
    Slots,          \* places for entries in a directory
    NoName, NoExt,  \* empty name and extension
    NoData          \* the contents of what is not a file

ASSUME DirectoryAssumption ==
    Root \in DirIds /\ DirIds \subseteq Nat \ {0} /\ Slots \subseteq Nat

-----------------------------------------------------------------------------
(***************************************************************************)
(* Entries.  A free slot keeps the name of a directory that was moved away.*)
(***************************************************************************)
Free == [live |-> FALSE, name |-> NoName, ext |-> NoExt, dir |-> 0,
         size |-> 0, x |-> NoData]

Folder(n, d) == [Free EXCEPT !.live = TRUE, !.name = n, !.dir = d]

File(n, e, k, x) ==
    [Free EXCEPT !.live = TRUE, !.name = n, !.ext = e, !.size = k, !.x = x]

IsFolder(t) == t.live /\ t.dir # 0

EmptyDir == [notEmpty |-> FALSE, slots |-> [i \in Slots |-> Free]]

At(s, p, i) == s[p].slots[i]

LiveIn(s, p) == {i \in Slots : At(s, p, i).live}

Named(s, p, n, e) == {i \in LiveIn(s, p) : At(s, p, i).name = n /\ At(s, p, i).ext = e}

Put(s, p, i, t) == [s EXCEPT ![p].slots[i] = t]

FirstFree(s, p) == Min(Slots \ LiveIn(s, p))

HasRoom(s, p) == LiveIn(s, p) # Slots

NoneLeft(s, p) == LiveIn(s, p) = {}

-----------------------------------------------------------------------------
(***************************************************************************)
(* The operations.                                                         *)
(***************************************************************************)
\* 0: a directory of that name, 1: only a file of it, 3: neither.
ReadDirectory(s, p, n, e) ==
    LET folders == {i \in Named(s, p, n, e) : IsFolder(At(s, p, i))}
    IN  IF folders # {} THEN [ret |-> 0, dir |-> At(s, p, Min(folders)).dir]
        ELSE [ret |-> IF Named(s, p, n, e) = {} THEN 3 ELSE 1, dir |-> 0]

\* 0: a file that fits the buffer, 1: only a folder of that name, whatever the
\* extension, 2: a file that does not fit, 3: neither.
Read(s, p, n, e, size) ==
    LET files == {i \in Named(s, p, n, e) : ~IsFolder(At(s, p, i))}
        file == At(s, p, Min(files))
        folder == \E i \in LiveIn(s, p) : IsFolder(At(s, p, i)) /\ At(s, p, i).name = n
        no(ret) == [ret |-> ret, x |-> NoData, size |-> 0]
    IN  IF files = {} THEN no(IF folder THEN 1 ELSE 3)
        ELSE IF file.size > size THEN no(2)
        ELSE [ret |-> 0, x |-> file.x, size |-> file.size]

\* A folder clashes with a folder of its name, a file with whatever has its
\* name and extension.
Exists(s, p, n, e, folder) ==
    IF folder THEN \E i \in LiveIn(s, p) : IsFolder(At(s, p, i)) /\ At(s, p, i).name = n
    ELSE Named(s, p, n, e) # {}

\* Nothing of the name is in the way: d is the new folder, if it is one.
Create(s, p, n, e, k, x, d) ==
    LET entry == IF k = 0 THEN Folder(n, d) ELSE File(n, e, k, x)
        made == [Put(s, p, FirstFree(s, p), entry) EXCEPT ![p].notEmpty = TRUE]
    IN  IF k = 0 THEN [q \in DOMAIN s \cup {d} |-> IF q = d THEN EmptyDir ELSE made[q]]
        ELSE made

\* A file of k clusters, or with k = 0 a folder.  1: it exists.
Write(s, p, n, e, k, x, d) ==
    IF Exists(s, p, n, e, k = 0) THEN [ret |-> 1, store |-> s]
    ELSE [ret |-> 0, store |-> Create(s, p, n, e, k, x, d)]

\* The directory is given back, its entry stays.
MutantDelete(s, p, n, e) ==
    LET d == At(s, p, Min(Named(s, p, n, e))).dir
    IN  IF Named(s, p, n, e) = {} THEN [ret |-> 1, store |-> s]
        ELSE IF d # 0 /\ s[d].notEmpty THEN [ret |-> 2, store |-> s]
        ELSE [ret |-> 0, store |-> [q \in DOMAIN s \ {d} |-> s[q]]]

\* The first entry of the name goes, and with it the directory it leads to,
\* unless that is marked.  1: there is none, 2: the directory is marked.
Delete(s, p, n, e) ==
    LET i == Min(Named(s, p, n, e))
        d == At(s, p, i).dir
        cleared == Put(s, p, i, Free)
        unmarked == IF NoneLeft(cleared, p) THEN [cleared EXCEPT ![p].notEmpty = FALSE]
                    ELSE cleared
    IN  IF Named(s, p, n, e) = {} THEN [ret |-> 1, store |-> s]
        ELSE IF d # 0 /\ s[d].notEmpty THEN [ret |-> 2, store |-> s]
        ELSE [ret |-> 0, store |-> [q \in DOMAIN s \ {d} |-> unmarked[q]]]

\* rename_dir and move_dir take the first slot of the name for the directory's.
FirstOfName(s, p, n) == Min({i \in Slots : At(s, p, i).name = n})

\* That slot is another's, so that the call breaks its own promise.
Mistaken(s, p, n) == ~IsFolder(At(s, p, FirstOfName(s, p, n)))

RenameDir(s, p, n, e, new) ==
    LET r == ReadDirectory(s, p, n, e)
    IN  IF r.ret # 0 THEN [ret |-> r.ret, store |-> s]
        ELSE [ret |-> 0, store |-> Put(s, p, FirstOfName(s, p, n), Folder(new, r.dir))]

\* The directory itself is written last, as it was found: an entry that has
\* just been put into it is lost.
MoveDir(s, p, n, e, q) ==
    LET r == ReadDirectory(s, p, n, e)
        i == FirstOfName(s, p, n)
        taken == Put(s, p, i, [Free EXCEPT !.name = n])
        moved == Put(taken, q, FirstFree(taken, q), Folder(n, r.dir))
    IN  IF r.ret # 0 THEN [ret |-> r.ret, store |-> s]
        ELSE [ret |-> 0, store |-> [moved EXCEPT ![r.dir] = s[r.dir]]]

=============================================================================
