-------------------------------- MODULE Shell --------------------------------
(***************************************************************************)
(* The user program: the shell's loop (src/user-shell.c), the commands     *)
(* (src/commands), and read_path and separate_filename (src/syscall.c),    *)
(* composed of the system calls of the file system (module Directories).   *)
(*                                                                         *)
(* There is one process, so nothing interleaves with a command but the     *)
(* power switch: a command is the sequence of the directories that its     *)
(* system calls leave behind, and the machine may be switched off after    *)
(* any of them and started again.                                          *)
(*                                                                         *)
(* Lines, paths, names and extensions are sequences of symbols (module     *)
(* Strings); lengths of names are left out.  The contents of a file are    *)
(* the sequence of its clusters.                                           *)
(*                                                                         *)
(* Nothing is said of a command that needs more room than there is, that   *)
(* makes rename_dir or move_dir take one entry for another, or that builds *)
(* a path longer than its buffers (Fat32 says what the driver does then).  *)
(***************************************************************************)
EXTENDS Directories, Strings

CONSTANTS
    Lines,             \* lines that are entered
    MaxLines,          \* bound: so many of them
    BUFFER_CLUSTERS,   \* clusters in the buffers of the commands (8)
    SHOWN_CLUSTERS,    \* clusters of them that cat prints (5)
    PATH_LENGTH,       \* symbols that the buffers of paths take (50 bytes)
    shell, oshiete,    \* names of the files of the system
    os,                \* an extension
    Text,              \* the contents of oshiete.os
    ShellData,         \* the clusters of the file shell
    Junk               \* a cluster of whatever was in memory

VARIABLES
    store,    \* the directories on the disk
    cwd,      \* the shell's CurrentWorkingDirectory: the stack up to its top
    strayed,  \* a command has taken away a directory on the stack
    input,    \* the last line, whether its command was cut off, and which it was
    out       \* what its command printed, errors left out

vars == <<store, cwd, strayed, input, out>>

Blank == " "

Slash == "/"

Dot == "."

DotDot == <<Dot, Dot>>

RootName == <<"root">>

Home == <<[dir |-> Root, name |-> RootName]>>

Top(c) == Last(c).dir

-----------------------------------------------------------------------------
(***************************************************************************)
(* System calls.  A run r of a command has the directories after each of   *)
(* its calls, the return code of the last one, and whether a call went     *)
(* beyond what is modelled.                                                *)
(***************************************************************************)
Start(s) == [h |-> <<s>>, ret |-> 0, beyond |-> FALSE]

Now(r) == Last(r.h)

Spare(s) == DirIds \ DOMAIN s

CanWrite(s, p, n, e, k) ==
    Exists(s, p, n, e, k = 0) \/ (HasRoom(s, p) /\ (k > 0 \/ Spare(s) # {}))

\* A call within the limits of the driver, and what it returns.
Call(r, within, result) ==
    IF within THEN [r EXCEPT !.ret = result.ret, !.h = Append(@, result.store)]
    ELSE [r EXCEPT !.beyond = TRUE]

\* write with a buffer of x; <<>> makes a folder.
Written(r, s, p, f, x) ==
    Call(r, CanWrite(s, p, f.name, f.ext, Len(x)),
         Write(s, p, f.name, f.ext, Len(x), x, Min(Spare(s))))

SysWrite(r, p, f, x) == Written(r, Now(r), p, f, x)

SysDelete(r, p, f) == Call(r, TRUE, Delete(Now(r), p, f.name, f.ext))

SysRename(r, p, f, new) ==
    Call(r, ~Mistaken(Now(r), p, f.name), RenameDir(Now(r), p, f.name, f.ext, new))

SysMove(r, p, f, q) ==
    Call(r, ~Mistaken(Now(r), p, f.name) /\ (p = q \/ HasRoom(Now(r), q)),
         MoveDir(Now(r), p, f.name, f.ext, q))

-----------------------------------------------------------------------------
(***************************************************************************)
(* Paths.                                                                  *)
(***************************************************************************)
\* One component of a path but the last: w has the return code, the stack and
\* curr_dir_cluster, which does not follow "..".
Enter(w, dir, r) ==
    IF w.ret # 0 \/ dir = <<>> THEN w
    ELSE IF dir = DotDot
    THEN IF w.curr # Root /\ Len(w.cwd) > 1 THEN [w EXCEPT !.cwd = Front(@)]
         ELSE [w EXCEPT !.ret = 3]
    ELSE IF r.ret # 0 THEN [w EXCEPT !.ret = r.ret]
    ELSE [ret |-> 0, curr |-> r.dir, cwd |-> Append(w.cwd, [dir |-> r.dir, name |-> dir])]

\* The last component is not entered, but "..".
Arrive(w, last) ==
    IF w.ret # 0 \/ last # DotDot
    THEN [ret |-> w.ret, cwd |-> w.cwd, to_find |-> IF w.ret = 0 THEN last ELSE NoName]
    ELSE [ret |-> 0, cwd |-> IF Len(w.cwd) > 1 THEN Front(w.cwd) ELSE w.cwd, to_find |-> NoName]

\* The stack is the caller's: what has been entered before a component is
\* missing stays entered.
Along(s, c, dirs) ==
    Arrive(FoldLeft(LAMBDA v, dir : Enter(v, dir, ReadDirectory(s, Top(v.cwd), dir, NoExt)),
                    [ret |-> 0, cwd |-> c, curr |-> Top(c)], Front(dirs)),
           Last(dirs))

read_path(s, c, path) == Along(s, c, strparse(path, Slash))

\* The name up to the first ".", the extension up to the next.
NameExt(t) ==
    [name |-> t.token,
     ext |-> IF t.next_token = NULL THEN NoExt ELSE strtok(t.next_token, Dot).token]

separate_filename(file) == NameExt(strtok(file, Dot))

\* The path of the directory is left out.
MutantSpelled(path, t) == t.name \o IF IsFolder(t) THEN <<>> ELSE <<Dot>> \o t.ext

\* How rm and cp -r spell an entry of a directory they go through.
Spelled(path, t) ==
    path \o <<Slash>> \o t.name \o IF IsFolder(t) THEN <<>> ELSE <<Dot>> \o t.ext

\* What the commands find out about a path: where it leads, and whether that is
\* a directory, or a file that fits their buffers.
Looked(w, f, p, asDir, asFile) ==
    [ret |-> w.ret, parent |-> p, file |-> f, dir |-> asDir.dir,
     kind |-> IF asDir.ret = 0 THEN "dir" ELSE IF asFile.ret = 0 THEN "file" ELSE "none",
     data |-> IF asFile.ret = 0 THEN asFile.x ELSE <<>>]

LookUp(s, w, f, p) ==
    Looked(w, f, p, ReadDirectory(s, p, f.name, f.ext), Read(s, p, f.name, f.ext, BUFFER_CLUSTERS))

Led(s, w) == LookUp(s, w, separate_filename(w.to_find), Top(w.cwd))

Find(s, c, path) == Led(s, read_path(s, c, path))

\* A destination, where "." stands for the directory of the shell.
Dotted(f, c, dot) == IF dot THEN [f EXCEPT !.kind = "dir", !.dir = Top(c)] ELSE f

FindDest(s, c, path, dot) == Dotted(Find(s, c, path), c, dot)

\* The buffer a file was read to: the rest of it is what was on the stack.
Buffer(data) == data \o [i \in 1 .. BUFFER_CLUSTERS - Len(data) |-> Junk]

-----------------------------------------------------------------------------
(***************************************************************************)
(* Commands that read.  Their run stays where it starts.                   *)
(***************************************************************************)
Changed(w, r) ==
    IF w.to_find = NoName \/ r.ret # 0 THEN w.cwd
    ELSE Append(w.cwd, [dir |-> r.dir, name |-> w.to_find])

\* The last component is looked up where the shell is, not where the rest leads.
MutantCd(s, c, w) == Changed(w, ReadDirectory(s, Top(c), w.to_find, NoExt))

\* The stack after cd: a path that ends in ".." leads nowhere else, any other
\* to its last component, if that is a directory.
ChangeTo(s, c, w) == Changed(w, ReadDirectory(s, Top(w.cwd), w.to_find, NoExt))

cd(s, c, path) == ChangeTo(s, c, read_path(s, c, path))

\* The clusters cat prints: those of the file and what follows in the buffer.
Shown(data) == IF data = <<>> THEN <<>> ELSE SubSeq(Buffer(data), 1, SHOWN_CLUSTERS)

cat(s, c, path) == Shown(Find(s, c, path).data)

Listed(t) == <<t.name, IF IsFolder(t) THEN NoExt ELSE t.ext, IsFolder(t)>>

\* Entries without a name are not printed.
Listing(s, d) ==
    {Listed(At(s, d, i)) : i \in {j \in LiveIn(s, d) : At(s, d, j).name # NoName}}

\* The directory is looked up in itself.
MutantHere(s, c) == ReadDirectory(s, Top(c), Last(c).name, NoExt)

\* Without a path the directory of the shell is looked up in its parent again,
\* unless it is called root.
Here(s, c) == ReadDirectory(s, Top(Front(c)), Last(c).name, NoExt)

ListAt(s, ret, r) == IF ret # 0 \/ r.ret # 0 THEN {} ELSE Listing(s, r.dir)

ListPath(s, w) == ListAt(s, w.ret, ReadDirectory(s, Top(w.cwd), w.to_find, NoExt))

ls(s, c, path) ==
    IF path # <<>> THEN ListPath(s, read_path(s, c, path))
    ELSE IF Last(c).name = RootName THEN Listing(s, Root)
    ELSE ListAt(s, 0, Here(s, c))

NamedIn(s, d) == {At(s, d, i) : i \in {j \in LiveIn(s, d) : At(s, d, j).name # NoName}}

\* The names are compared over the length of the file's.
MutantHits(s, d, path, f) ==
    {<<path, t.ext>> : t \in {u \in NamedIn(s, d) : /\ ~IsFolder(u)
                                                   /\ IsPrefix(u.name, f.name)
                                                   /\ f.ext \in {NoExt, u.ext}}}

Hits(s, d, path, f) ==
    {<<path, t.ext>> : t \in {u \in NamedIn(s, d) : /\ ~IsFolder(u)
                                                   /\ IsPrefix(f.name, u.name)
                                                   /\ f.ext \in {NoExt, u.ext}}}

\* Where the files whose name starts with that of f are, below directory d at
\* path: directories are looked up by name again.
RECURSIVE searchUtil(_, _, _, _)
searchUtil(s, d, path, f) ==
    Hits(s, d, path, f)
    \cup UNION {searchUtil(s, u, Append(path, t.name), f) :
                 <<u, t>> \in {<<ReadDirectory(s, d, t.name, NoExt).dir, t>> :
                                t \in {v \in NamedIn(s, d) : IsFolder(v)}}}

whereis(s, name) == searchUtil(s, Root, <<RootName>>, separate_filename(name))

-----------------------------------------------------------------------------
(***************************************************************************)
(* Commands that write.                                                    *)
(***************************************************************************)
\* A path with no "/" but a first one starts at root.  All that is before the
\* last "/" is entered.
MakeIn(r, w, name) ==
    IF w.ret # 0 THEN r ELSE SysWrite(r, Top(w.cwd), [name |-> name, ext |-> NoExt], <<>>)

MakeAt(r, c, path, last) ==
    MakeIn(r, read_path(Now(r), IF last = 1 THEN Home ELSE c, SubSeq(path, 1, last)),
           SubSeq(path, last + 1, Len(path)))

mkdir(r, c, path) == MakeAt(r, c, path, Max({0} \cup {i \in DOMAIN path : path[i] = Slash}))

\* One byte is written from a buffer of none.  The stack is the command's: one
\* path starts where the one before it led.
TouchAt(r, w) ==
    [cwd |-> w.cwd, run |-> IF w.ret # 0 THEN r
                            ELSE SysWrite(r, Top(w.cwd), separate_filename(w.to_find), <<Junk>>)]

touch(r, c, paths) ==
    FoldLeft(LAMBDA v, path : TouchAt(v.run, read_path(Now(v.run), v.cwd, path)),
             [cwd |-> c, run |-> r], paths).run

EntriesIn(s, d, slots) == FoldLeft(LAMBDA all, i : Append(all, At(s, d, i)), <<>>, SetToSortSeq(slots, <))

\* The first entry is left out, as if it were the directory's own.
MutantEntries(s, d) == EntriesIn(s, d, LiveIn(s, d) \ {Min(Slots)})

\* The entries of a directory that is removed or copied, as they were when it
\* was read.
Entries(s, d) == EntriesIn(s, d, LiveIn(s, d))

RECURSIVE RmFound(_, _, _, _, _, _)
RmFound(r, c, src, recursive, root, f) ==
    LET one(v, t) == RmFound(v, c, Spelled(src, t), TRUE, FALSE, Find(Now(v), c, Spelled(src, t)))
    IN  IF r.beyond \/ (f.ret = 3 /\ root) \/ f.kind = "none" THEN r
        ELSE IF Len(src) > PATH_LENGTH THEN [r EXCEPT !.beyond = TRUE]
        ELSE IF f.kind = "file" \/ ~Now(r)[f.dir].notEmpty THEN SysDelete(r, f.parent, f.file)
        ELSE IF ~recursive THEN r
        ELSE SysDelete(FoldLeft(one, r, Entries(Now(r), f.dir)), f.parent, f.file)

rm(r, c, src, recursive) == RmFound(r, c, src, recursive, TRUE, Find(Now(r), c, src))

\* A file is written from as many bytes as a pointer has: one cluster.
RECURSIVE CpFound(_, _, _, _, _, _, _, _)
CpFound(r, c, src, dest, recursive, root, f, g) ==
    LET next(v, s, d, rooted) ==
            CpFound(v, c, s, d, TRUE, rooted, Find(Now(v), c, s), FindDest(Now(v), c, d, d = <<Dot>>))
        one(v, t) == next(v, Spelled(src, t), Spelled(dest, t), FALSE)
    IN  IF r.beyond \/ f.ret = 3 \/ f.kind = "none" THEN r
        ELSE IF Len(src) > PATH_LENGTH \/ Len(dest) > PATH_LENGTH THEN [r EXCEPT !.beyond = TRUE]
        ELSE IF f.kind = "file"
        THEN IF g.kind = "file" /\ root THEN r
             ELSE IF g.kind = "dir" THEN SysWrite(r, g.dir, f.file, SubSeq(f.data, 1, 1))
             ELSE SysWrite(r, g.parent, g.file, SubSeq(f.data, 1, 1))
        ELSE IF ~recursive /\ root THEN r
        ELSE IF g.kind = "dir" THEN next(r, src, dest \o <<Slash>> \o f.file.name, TRUE)
        ELSE FoldLeft(one, SysWrite(r, g.parent, g.file, <<>>), Entries(Now(r), f.dir))

cp(r, c, src, dest, recursive) ==
    CpFound(r, c, src, dest, recursive, TRUE,
         Find(Now(r), c, src), FindDest(Now(r), c, dest, dest = <<Dot>>))

\* The source is deleted whether the write has failed or not.
MutantDeleteMoved(copied, f) == SysDelete(copied, f.parent, f.file)

\* A file is written to its new place before it is deleted from the old.
DeleteMoved(copied, f) == IF copied.ret = 0 THEN SysDelete(copied, f.parent, f.file) ELSE copied

Moved(r, f, p, g) == DeleteMoved(SysWrite(r, p, g, Buffer(f.data)), f)

\* Both files are deleted before the one is written in place of the other.
WriteInPlace(gone, f, g) ==
    IF gone.ret = 0 THEN SysWrite(gone, g.parent, g.file, Buffer(f.data)) ELSE gone

Replaced(gone, f, g) ==
    IF gone.ret = 0 THEN WriteInPlace(SysDelete(gone, g.parent, g.file), f, g)
    ELSE SysDelete(gone, g.parent, g.file)

\* The destination's path is what read_path has left of it: its first
\* component.  A file that gets another name stays in its directory.
MvFound(r, f, g) ==
    IF f.ret = 3 \/ f.kind = "none" THEN r
    ELSE IF f.kind = "dir"
    THEN IF g.kind = "dir" THEN SysMove(r, f.parent, f.file, g.dir)
         ELSE SysRename(r, f.parent, f.file, g.file.name)
    ELSE IF g.kind = "file" THEN Replaced(SysDelete(r, f.parent, f.file), f, g)
    ELSE IF g.kind = "dir" THEN Moved(r, f, g.dir, f.file)
    ELSE Moved(r, f, f.parent, g.file)

mv(r, c, src, dest) ==
    MvFound(r, Find(Now(r), c, src),
         FindDest(Now(r), c, dest, Head(strparse(dest, Slash)) = <<Dot>>))

-----------------------------------------------------------------------------
(***************************************************************************)
(* The shell's loop, and the machine around it.                            *)
(***************************************************************************)
Arg(words, i) == IF i \in DOMAIN words THEN words[i] ELSE <<>>

IsVerb(words, verb, count) == words[1] = <<verb>> /\ Len(words) >= count

Recursive(words) == Arg(words, 2) = <<"-r">>

\* The paths of touch end at an empty one.
Paths(words) ==
    LET empty == {i \in DOMAIN words : words[i] = <<>>}
    IN  SubSeq(words, 2, IF empty = {} THEN Len(words) ELSE Min(empty) - 1)

\* The calls that the command of a line of words makes.
Run(s, c, words) ==
    LET r == Start(s)
    IN  IF IsVerb(words, "mkdir", 2) THEN mkdir(r, c, Arg(words, 2))
        ELSE IF IsVerb(words, "mv", 3) THEN mv(r, c, Arg(words, 2), Arg(words, 3))
        ELSE IF IsVerb(words, "touch", 2) THEN touch(r, c, Paths(words))
        ELSE IF IsVerb(words, "rm", 2)
        THEN rm(r, c, Arg(words, IF Recursive(words) THEN 3 ELSE 2), Recursive(words))
        ELSE IF IsVerb(words, "cp", 3)
        THEN IF Recursive(words) THEN cp(r, c, Arg(words, 3), Arg(words, 4), TRUE)
             ELSE cp(r, c, Arg(words, 2), Arg(words, 3), FALSE)
        ELSE r

Printed(s, c, words) ==
    IF IsVerb(words, "cat", 1) THEN cat(s, c, Arg(words, 2))
    ELSE IF IsVerb(words, "ls", 1) THEN ls(s, c, Arg(words, 2))
    ELSE IF IsVerb(words, "whereis", 2) THEN whereis(s, Arg(words, 2))
    ELSE {}

\* The stack is a path of the directories on the disk.
IsPath(c, s) ==
    /\ Head(c) = Home[1]
    /\ \A i \in DOMAIN c : c[i].dir \in DOMAIN s
    /\ \A i \in DOMAIN c \ {1} : \E j \in LiveIn(s, c[i - 1].dir) :
           At(s, c[i - 1].dir, j) = Folder(c[i].name, c[i].dir)

\* The machine does not start: there is no shell to run.
Off == cwd = <<>>

Execute(l, words, r) ==
    /\ ~r.beyond
    /\ store' = Now(r)
    /\ cwd' = IF IsVerb(words, "cd", 1) THEN cd(store, cwd, Arg(words, 2)) ELSE cwd
    /\ strayed' = (words[1] \in {<<"rm">>, <<"mv">>} /\ ~IsPath(cwd, Now(r)))
    /\ input' = [line |-> l, cut |-> FALSE, nth |-> input.nth + 1]
    /\ out' = Printed(store, cwd, words)

\* kernel_setup makes a folder and a file, if they are not there.
kernel_setup(s) ==
    SysWrite(SysWrite(Start(s), Root, [name |-> oshiete, ext |-> NoExt], <<>>),
             Root, [name |-> oshiete, ext |-> os], <<Text>>)

HasShell(s) ==
    LET r == Read(s, Root, shell, NoExt, 512)
    IN  r.ret = 0 /\ IsPrefix(ShellData, r.x)

Boots(s) ==
    /\ cwd' = IF HasShell(s) THEN Home ELSE <<>>
    /\ \E r \in {kernel_setup(s)} : ~r.beyond /\ store' = Now(r)

\* The power fails while the command of a line runs, and comes back.
PowerCut(l, r) ==
    /\ ~r.beyond
    /\ \E i \in DOMAIN r.h : Boots(r.h[i])
    /\ strayed' = FALSE
    /\ input' = [line |-> l, cut |-> TRUE, nth |-> input.nth + 1]
    /\ out' = {}

\* After a command took away a directory on the stack.
Restart ==
    /\ strayed
    /\ Boots(store)
    /\ strayed' = FALSE
    /\ input' = [input EXCEPT !.line = <<>>]
    /\ out' = {}

\* The disk as create_fat32 leaves it.
EmptyDisk == [d \in {Root} |-> EmptyDir]

\* The inserter has a copy of the driver, whose write is the kernel's but for
\* the clock.
InsertInto(s) == SysWrite(Start(s), Root, [name |-> shell, ext |-> NoExt], ShellData)

\* The machine does not start for want of a shell: one is inserted again, unless
\* something is in its place.
Insert ==
    /\ Off
    /\ \E r \in {InsertInto(store)} : ~r.beyond /\ Boots(Now(r))
    /\ strayed' = FALSE
    /\ input' = [input EXCEPT !.line = <<>>]
    /\ out' = {}

\* The shell has been inserted into an empty disk, and the machine is started for
\* the first time.
Init ==
    /\ store = Now(kernel_setup(Now(InsertInto(EmptyDisk))))
    /\ cwd = Home
    /\ strayed = FALSE
    /\ input = [line |-> <<>>, cut |-> FALSE, nth |-> 0]
    /\ out = {}

Next ==
    \/ Restart
    \/ Insert
    \/ \E l \in Lines :
         /\ ~Off /\ ~strayed /\ input.nth < MaxLines
         /\ \E words \in {strparse(l, Blank)} : \E r \in {Run(store, cwd, words)} :
              Execute(l, words, r) \/ PowerCut(l, r)

Spec == Init /\ [][Next]_vars

-----------------------------------------------------------------------------
(***************************************************************************)
(* Properties.                                                             *)
(***************************************************************************)
TypeOK ==
    /\ Root \in DOMAIN store /\ DOMAIN store \subseteq DirIds
    /\ \A d \in DOMAIN store :
         /\ store[d].notEmpty \in BOOLEAN
         /\ DOMAIN store[d].slots = Slots
         /\ \A i \in Slots : At(store, d, i).dir \in DOMAIN store \cup {0} \/ ~At(store, d, i).live
    /\ \A i \in DOMAIN cwd : cwd[i].dir \in DOMAIN store \/ strayed
    /\ strayed \in BOOLEAN
    /\ input.line \in Lines \cup {<<>>} /\ input.nth \in 0 .. MaxLines

\* The directory stack of the shell always is a path of the directories on the
\* disk, one in the other, whatever cd did, and however it failed (user-shell.c
\* and syscall.c: read_path works on the caller's stack).
CwdIsPath == ~Off /\ ~strayed => IsPath(cwd, store)

\* The stacks that are paths: where a directory is.
Stacks(s) ==
    LET steps(c) == {Append(c, [dir |-> At(s, Top(c), i).dir, name |-> At(s, Top(c), i).name]) :
                     i \in {j \in LiveIn(s, Top(c)) : IsFolder(At(s, Top(c), j))}}
    IN  FoldSet(LAMBDA d, all : all \cup UNION {steps(c) : c \in all}, {Home}, DOMAIN s \ {Root})

Trail(c) == [i \in 1 .. Len(c) - 1 |-> c[i + 1].name]

FullName(t) == IF t.ext = NoExt THEN t.name ELSE t.name \o <<Dot>> \o t.ext

\* Live entries by where they are and what they are called.
Entered(s) ==
    UNION {{[dir |-> Top(c), slot |-> i, path |-> Append(Trail(c), FullName(At(s, Top(c), i)))] :
            i \in LiveIn(s, Top(c))} : c \in Stacks(s)}

\* What a path means, seen from a stack: names from the root on.
Meaning(c, path) ==
    FoldLeft(LAMBDA v, dir : IF dir = <<>> THEN v
                             ELSE IF dir = DotDot THEN IF v = <<>> THEN v ELSE Front(v)
                             ELSE Append(v, dir),
             Trail(c), strparse(path, Slash))

Words(l) == strparse(l, Blank)

Meant(l) == {Meaning(cwd, w) : w \in ToSet(Tail(Words(l)))}

Ran(verb) == input'.line # <<>> /\ Words(input'.line)[1] = <<verb>>

\* A command changes no entry but those that its line names, and rm -r what is
\* below them; an entry without a name cannot be named.  It holds as well when
\* the power fails on the way.
OthersUntouched ==
    [][\A e \in Entered(store) :
         \/ At(store, e.dir, e.slot).name = NoName
         \/ \E m \in Meant(input'.line) : e.path = m \/ (Ran("rm") /\ IsPrefix(m, e.path))
         \/ e.dir \in DOMAIN store' /\ At(store', e.dir, e.slot) = At(store, e.dir, e.slot)]_vars

Contents(s) ==
    {At(s, e.dir, e.slot).x : e \in {f \in Entered(s) : ~IsFolder(At(s, f.dir, f.slot))}}

\* mv replaces an existing file, or moves a directory into itself.
Replaces ==
    LET w == Words(input'.line)
        f == Find(store, cwd, Arg(w, 2))
        g == FindDest(store, cwd, Arg(w, 3), Head(strparse(Arg(w, 3), Slash)) = <<Dot>>)
    IN  IF f.kind = "file" THEN g.kind = "file"
        ELSE IsPrefix(Meaning(cwd, Arg(w, 2)), Meaning(cwd, Arg(w, 3)))

\* No command but rm loses the contents of a file, even when the power fails on
\* the way: mv writes the file to its new place before it deletes it from the
\* old.  What mv replaces is lost, and mv deletes that and its source before it
\* writes (mv.c:173): nothing is said of it, nor of a directory moved into itself.
FilesKept ==
    [][Ran("rm") \/ (Ran("mv") /\ Replaces)
         \/ \A x \in Contents(store) : \E y \in Contents(store') : IsPrefix(x, y)]_vars

\* No directory has two entries of a name and an extension: a folder and a file
\* that has no extension may share them, and two folders after a move.
NoTwins(s) ==
    \A d \in DOMAIN s : \A i, j \in LiveIn(s, d) :
        i = j \/ <<At(s, d, i).name, At(s, d, i).ext>> # <<At(s, d, j).name, At(s, d, j).ext>>

\* ls looks the directory of the shell up in its parent again: it finds it, and
\* lists what is in it, unless it is called root.
LsShowsHere ==
    [][Ran("ls") /\ ~input'.cut /\ Len(Words(input'.line)) = 1 /\ NoTwins(store)
         => (Last(cwd).name = RootName /\ Len(cwd) > 1) \/ out' = Listing(store, Top(cwd))]_vars

\* whereis goes down by name from the parent, with one stack for all levels of
\* its recursion: it prints every file whose name starts with the one given
\* (memcmp over strlen(name) bytes, whereis.c:51 and 112) and has the extension,
\* if one is given, at its path, and no other.
WhereisByPrefix ==
    [][Ran("whereis") /\ ~input'.cut /\ NoTwins(store) =>
         LET f == separate_filename(Words(input'.line)[2])
         IN  out' = {<<<<RootName>> \o Front(e.path), At(store, e.dir, e.slot).ext>> :
                       e \in {g \in Entered(store) :
                               LET t == At(store, g.dir, g.slot)
                               IN  /\ ~IsFolder(t) /\ NoName \notin ToSet(g.path)
                                   /\ IsPrefix(f.name, t.name) /\ f.ext \in {NoExt, t.ext}}}]_vars

\* rm -r of a directory removes it and all that is below it: nothing is left at
\* its path, unless something there is called ".." or nothing.  (Where a file has
\* its name as well, rm -r removes whichever has the first slot; and a directory
\* out of which a directory was moved stays marked, and delete refuses it.)
RemovesAll ==
    [][Ran("rm") /\ ~input'.cut /\ NoTwins(store) /\ Recursive(Words(input'.line)) =>
         LET f == Find(store, cwd, Words(input'.line)[3])
             below == {e \in Entered(store) : IsPrefix(Meaning(cwd, Words(input'.line)[3]), e.path)}
         IN  f.ret = 0 /\ f.kind = "dir" =>
             \/ \E e \in below : At(store, e.dir, e.slot).name \in {NoName, DotDot}
             \/ \E d \in DOMAIN store : store[d].notEmpty /\ NoneLeft(store, d)
             \/ f.dir \notin DOMAIN store']_vars

\* The lines and the paths in them are split at their delimiters: the tokens
\* put together again are the string (string.c:107).
StrparseSplits ==
    [][/\ Splits(Words(input'.line), input'.line, Blank)
       /\ \A w \in ToSet(Words(input'.line)) : Splits(strparse(w, Slash), w, Slash)]_vars
=============================================================================
