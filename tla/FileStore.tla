------------------------------ MODULE FileStore ------------------------------
(***************************************************************************)
(* What the FAT32 driver promises its callers as long as they stay within  *)
(* its limits: each call answers and changes the directories as module     *)
(* Directories says.  Module Fat32Store states that Fat32 implements this. *)
(***************************************************************************)
EXTENDS Directories

CONSTANTS
    Names, Exts,  \* names and extensions of requests
    Contents,     \* what files contain
    MaxSize,      \* size of the largest file, in clusters
    BufferSizes   \* sizes of the buffers callers read to

VARIABLES
    store,  \* the directories that exist
    reply   \* return code and data of the last call

vars == <<store, reply>>

Init == store = [d \in {Root} |-> EmptyDir] /\ reply = [ret |-> 0, data |-> <<>>]

Done(ret) == reply' = [ret |-> ret, data |-> <<>>]

read_directory(p, n, e) ==
    /\ Done(ReadDirectory(store, p, n, e).ret)
    /\ UNCHANGED store

\* The data are the fragments of the file.
read(p, n, e, size) ==
    LET r == Read(store, p, n, e, size)
    IN  /\ reply' = [ret |-> r.ret, data |-> [i \in 1 .. r.size |-> <<r.x, i - 1>>]]
        /\ UNCHANGED store

write(p, n, e, k, x, d) ==
    LET r == Write(store, p, n, e, k, x, d)
    IN  /\ Exists(store, p, n, e, k = 0) \/ (HasRoom(store, p) /\ d \notin DOMAIN store)
        /\ Done(r.ret)
        /\ store' = r.store

delete(p, n, e) ==
    LET r == Delete(store, p, n, e)
    IN  Done(r.ret) /\ store' = r.store

rename_dir(p, n, e, new) ==
    LET r == RenameDir(store, p, n, e, new)
    IN  /\ ReadDirectory(store, p, n, e).ret = 0 => ~Mistaken(store, p, n)
        /\ Done(r.ret)
        /\ store' = r.store

move_dir(p, n, e, q) ==
    LET r == MoveDir(store, p, n, e, q)
    IN  /\ ReadDirectory(store, p, n, e).ret = 0 =>
              ~Mistaken(store, p, n) /\ (HasRoom(store, q) \/ p = q)
        /\ Done(r.ret)
        /\ store' = r.store

\* The machine is started again, or root is read.
no_change == Done(0) /\ UNCHANGED store

Next ==
    \/ \E p \in DOMAIN store, n \in Names, e \in Exts :
         \/ read_directory(p, n, e)
         \/ \E size \in BufferSizes : read(p, n, e, size)
         \/ delete(p, n, e)
         \/ \E k \in 0 .. MaxSize, x \in Contents, d \in DirIds : write(p, n, e, k, x, d)
         \/ \E new \in Names : rename_dir(p, n, e, new)
         \/ \E q \in DOMAIN store : move_dir(p, n, e, q)
    \/ no_change

Spec == Init /\ [][Next]_vars
=============================================================================
