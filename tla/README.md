# A verification project for the oshiete kernel

The repository is a small 32-bit operating system: a kernel with a FAT32-like
file system on an ATA disk, a keyboard driver, a text screen, system calls
through `int 0x30`, and one user program, the shell. This directory holds TLA+
models of it, TLC configurations that check them on small instances, and proofs
of some of their properties that TLAPS checks for every size.

Paths below are relative to the repository's root (`src/...`).

## 1. The system

| Component | State it keeps | Operations | Modelled in |
|---|---|---|---|
| FAT32 driver (`src/fat32.c`) | disk; `driver_state`: the FAT in memory and a directory table buffer | `read_directory`, `read`, `read_root_directory`, `write`, `delete`, `rename_dir`, `move_dir`, `initialize_filesystem_fat32`, `create_fat32` | `Fat32`, `Fat32Power`; promises: `FileStore` |
| Keyboard driver (`src/keyboard.c`) | `keyboard_state`: input on/off, index, buffer, shift, caps lock | `keyboard_isr`, `keyboard_state_activate`, `get_keyboard_buffer`, `reset_buffer`, ... | `Keyboard` |
| Text screen (`src/framebuffer.c`) | video memory, cursor register | `puts_buff`, `framebuffer_write`, `framebuffer_set_cursor`, `framebuffer_scroll_down`, ... | `Framebuffer` |
| Interrupts and system calls (`src/interrupt.c`, `intsetup.s`, `idt.c`) | none of its own, apart from the PIC's | `main_interrupt_handler`, `syscall` | the actions of `Fat32` and `Keyboard`, the calls of `Shell` |
| Shell and paths (`src/user-shell.c`, `src/syscall.c`) | stack of directory clusters, the line | `read_path`, `separate_filename`, the main loop | `Shell` |
| Commands (`src/commands/*.c`) | local buffers | `cat cd cp ls mkdir mv rm touch whereis` | `Shell` |
| Strings and memory (`src/string.c`, `src/stdmem.c`) | `strtok`'s position | `strparse`, `strtok`, `memcpy`, ... | `Strings` (`strtok`, `strparse`) |
| ATA disk (`src/disk.c`) | the controller | `read_blocks`, `write_blocks` | `Fat32Power`, as single writes |
| Boot (`src/kernel.c`, loader, `gdt.c`) | none afterwards | `kernel_setup` | its file system part in `Fat32` and `Shell` |
| Inserter (`src/external-inserter.c`, `src/fat32-no-cmos.c`) | disk image | formats it and writes the shell | `Shell` (`Init`, `Insert`) |
| CMOS clock, paging, port I/O | registers, page directory | | not modelled |

How they interact. The shell calls the kernel with `int 0x30`. The gate is an
interrupt gate, so a system call runs with interrupts off and nothing
interleaves with it; a file system call is one atomic step as far as its callers
and the keyboard can tell. Only system call 4 (read a line) turns interrupts on,
and waits in a busy loop until the keyboard's interrupt service routine has seen
Enter; it then copies the line with interrupts still on. The service routine and
the rest share `keyboard_state` and the screen without any lock. The shell is the
only process: a command is a sequence of system calls, and nothing comes between
them but the power switch. The only state that survives a restart is the disk.

What is hard about this code:

* **Long sequences of legal calls.** Directory headers repeat what the parent's
  entry says (name, parent cluster) and cache whether the directory is empty
  (`user_attribute`). Every operation has to keep the copies in step, and
  `delete` trusts them.
* **Two copies of the FAT.** The driver's copy is reloaded on some paths only.
* **Limits.** 512 clusters, 64 entries in a table, a `uint8_t` fragment
  counter, a `uint8_t` buffer index, a `uint8_t` row.
* **Stale cluster numbers.** The shell names directories by cluster number and
  goes on using a number after the directory is deleted or moved.
* **Chains that do not end.** The loops follow the FAT until the end mark;
  nothing bounds them, and they run with interrupts off.
* **Interrupts.** A key can arrive at any point between Enter and the end of
  the copying, and while input is off.
* **Power loss** between two disk writes of one operation, and between two
  system calls of one command.
* **Paths that are built from names.** `rm -r` and `cp -r` spell the entries they
  find and look them up again; `read_path` works on its caller's stack.

`PROJECT.json` lists these hazards line by line, with the properties that watch
each of them.

What would make each component correct:

* FAT32 driver: every entry leads to a chain that ends and holds what the entry
  says; no two entries share a cluster; no cluster is lost; emptiness flags,
  names and parents in headers are right; names are unique; a file reads as it
  was written until it is overwritten; the two FATs agree; calls return.
* Keyboard: the line delivered is the line typed; it has an end; a call that
  waits for Enter gets it; echo and buffer agree.
* Screen: the cursor is on the screen.
* Shell: the stack of clusters is a path in the tree; a command changes the
  entries its line names and no others; files are lost by `rm` only; `ls` and
  `whereis` print what is there.
* Strings: the tokens with the delimiter between them are the string.
* Power loss: what a restart finds is the file system before or after the call,
  up to lost clusters.

## 2. The modules

### Fat32

State: `disk` (one record per cluster, the FAT's own cluster apart), `diskFat`
(the FAT on the disk), `fat_table` (`driver_state.fat_table`), `reply` (return
code and data of the last call), `hung`, and the history variable `limits`.

A cluster that holds a directory table is a record with `subdir` (the header's
attribute), `name`, `parent`, `notEmpty` (`user_attribute = UATTR_NOT_EMPTY`) and
the entries 1.. of the table in `slots`; a file's cluster holds a pair of the
file's contents and the number of the fragment. Sizes are counted in clusters.
Names, extensions and contents are model values. Times and dates are left out:
nothing reads them. The directory table buffer is reloaded by every operation
that uses it, so it is not a variable; what is behind the FAT in memory *is*
that buffer, and this matters: see cluster 512 below. (`read_root_directory` follows
the FAT without loading a table: the buffer then holds whichever table was there.)

Actions: one per operation, with the name it has in the source; the last two
lines of `Next` are `read_root_directory` and a restart. Each contains all the
writes, reloads and early returns of the operation in the code's order. `write`
is split into the cases that reply, create in a directory, and extend it.

Four things the code does are modelled as they are rather than as one would
expect:

* *Walks over a directory of several tables* use one buffer. `read` and
  `read_directory` write the table in which the object was found to the
  directory's first cluster, whichever table it was; they go on searching after
  a hit; a later hit is read over an earlier one.
* *Cluster 512.* `findEmptyCluster` returns 512 (`CLUSTER_MAP_SIZE`) if no entry
  of the FAT is free. There is such a cluster on the disk; its FAT "entry" is the
  first word of the buffer behind the FAT, i.e. the first four characters of
  the name in the header of the directory table. `FirstWord` says of each name
  which number its first four characters are, and `FatView` that a chain which gets
  there goes on at that cluster. Writing the end mark there changes the name to
  one that reads as an end mark (the model value `Smashed`). A name that spells no
  cluster of the disk leads out of the driver's memory; the model takes that as a
  call that does not return. `WordAssumption` leaves two kinds of names out: the word
  1, by which `delete` would read the FAT as a directory table, and the few words
  just above 512, which lead on into the buffer.
* *Endless loops.* `Terminates` says whether a loop that follows the FAT gets to
  the end mark. A free cluster leads to cluster 0, whose entry is no mark and
  too large to be a cluster: the word read there is 0, and back. A call that
  does not return sets `hung`; the only step then is a restart, which loads the
  FAT from the disk.
* *A restart* compares the whole boot sector with the signature. It is the first
  block of cluster 0, and the signature fills only the part that would be a
  table's header: once an entry is there (a `move_dir` that went astray)
  `initialize_filesystem_fat32` takes the disk for an empty one and formats it
  (`is_empty_storage`, `Reformat`). Files' clusters keep what they hold.

`Reach` (the clusters a loop visits) is defined as what is in every closed set,
not by recursion, so that it can be proved about.

**Limits.** The driver has preconditions that nothing enforces. `Limits` names
them: no free cluster (`disk_full`), no free slot in a table (`table_full`), a
file of more than 256 clusters (`long_file`), a second entry of the name in
`rename_dir` or `move_dir` (`name_clash`), any `move_dir` (`moved`), a parent
cluster number that is not, or no longer, a directory's (`stale`), and a
destination of `move_dir` that is none (`astray`). The last two differ. Every
operation looks at the header of its parent cluster before it does anything, or
finds nothing there; `move_dir` never looks at its destination, and puts an entry
over 32 bytes of a file, or in cluster 0. (A file's cluster read as a table is
modelled as one without entries, and one written as a table has no data.) The actions
are enabled in all these cases and do what the code does; `limits` records which
of them have occurred. The constant `Breaches` says which ones callers of an
instance run into, and a property says up to which limits it holds:
`limits \subseteq {"moved", "stale"} => ...`. `LimitsOnce` bounds a run: each
limit is run into at most once.

### Framebuffer and Keyboard

`Framebuffer` gives the screen as functions on a record of cells and cursor.
Rows are `uint8_t`, so the cursor can be below the screen.

`Keyboard` models the service routine against system calls 4 and 5. The keyboard
controller and the interrupt controller are not in the repository's code: the
output port holds one scancode, others queue behind it, and a scancode that gets
to an empty port makes an edge that is latched (`irr`). `port`, `queue` and `irr`
are theirs, and `Press` (the user hits a key) is their action. `keyboard_isr` is
one step, since it runs with interrupts off. System call 4 is `StartLine`,
`SeeEnter`, `CopyByte` (one step per byte, as an interrupt may come between any
two) and `ReturnLine`; `pc` says where it is. `typed` and `disturbed` are history
variables: the line as the user typed and corrected it, and whether an interrupt
arrived after Enter or the buffer index wrapped.

### Directories, FileStore and Fat32Store

`Directories` says what the driver's operations do if one forgets clusters: a
directory is an identity with a mark (not empty) and slots for entries; an entry
is a folder, which leads to a directory, or a file, which *is* its contents and
size. Each operation is an operator from the directories to a return code and
the directories afterwards. `FileStore` is the state machine of these operations:
the abstract specification of the driver, within its limits. `Fat32Store` is the
refinement mapping: the directories are the tables whose cluster is in use, an
entry's contents are those of its first cluster. `ImplementsStore` says that
every call of `Fat32` is a call of `FileStore` with the same answer and the same
data, after any history and any restarts.

Two things in it come from the code and not from what one would specify: a free
slot keeps the name of a directory that was moved away (`rename_dir` and
`move_dir` compare names of free slots as well, `Mistaken`), and `move_dir` writes
the directory last as it was read first, so that a directory that is moved into
itself loses the entry.

`Directories` without a state is also what `Shell` calls: the refinement is why
the shell can be checked on directories instead of clusters.

### Fat32Power

The same operations, as the writes of clusters they make. `Fat32`'s variables say
what the running call will have done; `platter` is what is on the disk now (the
boot sector's signature, the FAT, the clusters), `writes` what the call has still
to write. `Call` takes a step of `Fat32` and derives the writes from it, in the
code's order: a folder's table, its parent, the FAT; for each cluster of a file
the FAT and the cluster, then the parent; for `delete` the parent, then the FAT;
for `move_dir` the old parent, the new one, the directory, the FAT.
`write_clusters` does the next one; `PowerFails` drops what is left and starts the
machine, which formats a disk without signature and otherwise loads the FAT.
After that, callers know root and the directories that entries lead to.

`Settled` closes the circle: once a call's writes are done, the platter is what
`Fat32` says, so that the sequences leave nothing out.

What is found: a file with an entry is whole whenever the power fails, and no two
entries share clusters. A new folder is not that lucky: its entry is written
before its mark in the FAT. If the power fails between the two, the entry is
*torn*: it leads to a free cluster, which the next write hands out again. Callers
cannot see that and go on. The history variable `risks` remembers that a call was
made on such a disk (`"torn"`), and also that a directory was moved into itself
(`"itself"`): there `move_dir` writes the entry into the directory's own table and
overwrites it in the next write, so that a power failure between the two leaves a
directory that is entered twice or in itself, and later calls can make two entries
share a cluster. The constant `Risks` says which of them the callers of an instance
take; the properties but `Settled` are claimed while neither has been. What
happens after the first is the run `fat32_torn`. A power failure during the very
first format leaves a disk with signature and without root; every call on it is
refused, for ever, and nothing formats it again. `move_dir` can lose the
directory, and is the only call that can.

### Strings and Shell

A string is a sequence of symbols: a name is one symbol or two, so that one can be
the start of another; `..` is two. `strtok` and `strparse` are in `Strings`, with
their empty tokens.

`Shell` has the loop of `main`, the nine commands, `read_path` and
`separate_filename`. State: the directories (`store`), the shell's stack (`cwd`),
whether a command has taken away a directory on the stack (`strayed`), the last
line and what it printed. A command's *run* is the sequence of the directories
that its system calls leave, the last return code, and whether a call went beyond
what is modelled (no room for an entry or a directory, an entry taken for
another, a path longer than the command's buffer). `Execute` takes the whole run;
`PowerCut` takes any part of it and then boots: `kernel_setup` reads the shell and
makes its own folder and file again if they are gone; without a shell the machine
does not start, and `Insert` is the inserter run on its disk. `Init` is what the
inserter makes of an empty disk, after the first start.

`cp`, `rm` and `whereis` are recursive as in the code. Where a command looks
something up, `Find` is that whole part of it: path, name and extension, and the
two system calls that tell a directory from a file. Sizes are counted in clusters:
`touch` writes one byte, which is one cluster of whatever follows in memory, `cp`
the size of a pointer, `mv` all eight clusters of its buffer.

What the code does that its user would not expect, and that the model does too:

* `cd` to a path that fails half-way goes half-way; the stack is a path even so.
* `mv f d/g` to a missing `g` writes `g` in the directory of `f`, and `mv d e/f`
  renames `d` to `f` where it is.
* `mv f g` onto a file deletes both before it writes; `mv f f` loses the file.
* `mv` or `cp` to a path whose directory is missing makes an entry without a name,
  and so does `cp -r d .`; such an entry cannot be named afterwards.
* Return code 1 of `read_path` (a file where a directory should be) is not treated
  as an error by most commands.
* A second path of `touch` starts where the first one led; `mkdir ..` makes a
  directory of that name.
* `ls` in a directory named `root` lists the root. `cat` prints what was on the
  stack after a short file. `whereis` finds names that start with the one given
  (`WhereisByPrefix`).
* `rm -r` of a name that a file and a folder share removes whichever has the first
  slot; a directory out of which `move_dir` took the last entry stays marked, and
  `rm -r` cannot remove it.

### The proof modules

Each extends the one before it; section 5 has the arguments.

| Module | What is in it |
|---|---|
| `Fat32Proofs` | lemmas on chains (`Reach`, `Terminates`, `LastOf`); the invariant `IInv`; `TypeOK` and `FatCoherent` |
| `Fat32ChainProofs` | `Sound`, what all entries' chains are; the four ways a call may change tables and FAT, and that each keeps `Sound` |
| `Fat32CallProofs` | which of the four ways each operation of the driver goes |
| `Fat32SafetyProofs` | `SInv`; the theorems on entries, chains, names and files |
| `Fat32TidyProofs` | `TInv`; the theorems that hold while no limit is run into |
| `Fat32StoreProofs` | what disk and FAT stand for; each operation of the driver is `FileStore`'s; the refinement |
| `KeyboardProofs` | the theorems on `Keyboard` |

### MCFat32, MCKeyboard, MCPower and MCShell

Instances for TLC. The operators named `Mutant...` are plausible mistakes in the
definitions they precede; `PROJECT.json` lists which of them breaks which
property, as evidence that each property depends on the code.

## 3. What the runs check

| Run | Instance | Properties |
|---|---|---|
| `fat32_names` | 6 FAT entries (3 for files and directories), tables of 2 entries, 1 name, 2 extensions, 2 contents, files of 1 and 2 clusters, no limits run into | `UniqueNames FileIntact NoDangling NoSharing NoLeak EmptyFlag NoHang FilesUndisturbed DirsVanishEmpty ImplementsStore` |
| `fat32_moves` | 5 FAT entries, 2 names; directories are moved and stale cluster numbers used | `NoDangling NoSharing HeaderAgrees UniqueNames FilesUndisturbed ImplementsStoreUntilStale` |
| `fat32_limits` | 5 FAT entries, tables of 1 entry, a fragment counter of 1 value; every limit, each at most once; every name spells root's cluster | `TypeOK FatCoherent` |
| `fat32_power` | 6 FAT entries, 2 names, files of 1 and 2 clusters; 5 calls that write, one power failure, one move, both risks | `Settled FilesWhole NothingShared OneTorn LostOnlyByMove OneAtATime` |
| `keyboard_line` | screen of 3x2, buffer of 3, lines of up to 4 letters, one scancode queued | `TypeOK LineTerminated EchoMatches CursorOnScreen LineIntact` |
| `keyboard_live` | screen of 2x2, buffer of 2, two scancodes queued | `GetlineCompletes` |
| `shell` | 3 directories of 4 slots, 3 lines out of some sixty of all commands, a power failure in each | `TypeOK CwdIsPath OthersUntouched FilesKept LsShowsHere WhereisByPrefix RemovesAll StrparseSplits` |

Why these bounds are enough to see the interesting cases. Three usable clusters
allow a directory in a directory in root, two files in different directories, a
file of two clusters with its chain out of order (after deletions), and a
cluster that is freed and used again for something else. Two entries per table
allow a directory that loses one of two entries, and with `table_full` one entry
per table makes extended directories. Buffers of one cluster and of eight, and
of two in `fat32_limits`, make every return code of `read` and `read_directory`. The keyboard's buffer of three
is filled, overrun by one, emptied by backspace and interrupted at each byte
copied; the screen of two rows scrolls within one line, and backspace goes over
a row's end.

In `fat32_power`, `MaxCalls` = 5 calls that write are enough to make a directory,
put a file or directory into it, move it, delete something and use its cluster
again, with `MaxFailures` = 1 failure at any write of any of them, the format's
included: a second failure meets a disk as the first one may leave it without
failure, or one with lost clusters, where the calls do the same with less room.

In `shell`, `MaxLines` = 3 lines make a directory with something in it and then
move, copy, list or remove it, or go there first; the lines are made of the names
of the system's own files, one more name, `..`, `.`, empty tokens and paths of two
components, among them a `touch` of two paths. `cp`'s and `mv`'s buffers have two
clusters, and the file `shell` fills them. Each line may be cut off by the power
switch after any of its system calls.

The `Fat32` and `Fat32Power` runs identify states that differ only in `reply`,
which no action reads (in `fat32_limits` a code that is none of `fat32.h` is kept
apart, as `TypeOK` is about it), and `fat32_moves` and `fat32_power` also states that differ by a
permutation of the names; the properties checked there are all safety
properties. The `shell` runs identify states that differ in the last line and its
output, which only the step that sets them is judged by.

In `fat32_moves` a directory may be moved into itself or below itself. The
properties then hold of all directories, also those that no path leads to any
more: `Dirs` is every cluster that is marked used and holds a directory table.
`NoLeak`, `EmptyFlag` and `NoHang` are not claimed there, and do not hold:
see `fat32_moved_into`. `ImplementsStoreUntilStale` claims of the moves themselves
that they are `FileStore`'s, until a call names a cluster that is no directory.

`FilesUndisturbed` is the reason callers can be given raw cluster numbers at all:
whatever directories the shell names, live or gone, no call changes the contents
of a file other than the one it deletes.

`OthersUntouched` is the corresponding property of the shell. It relates three
different ways in which the code arrives at an entry (the stack and `read_path`,
the strings that `rm -r` and `cp -r` put together, and the driver's search by
name) to a fourth, the meaning of the path in the line (`Meaning`). `FilesKept`
adds that contents survive somewhere, also when the power fails between the two
system calls of a move; `mv` onto an existing file is excepted, since there the
code loses contents, and moving a directory into itself.

`FatCoherent` says in every state that the two FATs agree, and until the disk is full
that root and the reserved entries are taken. The condition is needed: all names of
`fat32_limits` spell root's cluster, so that `delete` frees root in this very instance
once the disk is full; without the condition the run would fail. In the other `Fat32` runs no name spells a cluster
(`MCNowhere`), as cluster 512 is not handed out in the passing ones, and the symmetry
of the names is sound.

The power failures in `fat32_power` are followed by calls on the torn disk and after
moves of a directory into itself; `Settled` holds of these too, the other
properties end there (`risks = {}`).

Deadlock is checked in the `fat32_names`, `fat32_moves` and `fat32_limits` runs (a
hung machine can be restarted). The keyboard runs may stop: there is a bound on
what the user types, and a keyboard whose port was not read is silent.
`fat32_power` stops after its calls, and `shell` after its lines.

### Fairness

`keyboard_live` and `keyboard_stuck` assume weak fairness of `keyboard_isr` (a
latched interrupt is taken: interrupts are on in the shell and during system
call 4, and the routine acknowledges each one) and of `Syscall4`, the steps of a
call that waits or copies (the processor executes the busy loop; there is no
other process). Nothing is assumed of the user: no key has to be pressed.

### Where the code departs from what it says

Each is a run TLC finds violated; `PROJECT.json` quotes the lines.

* `fat32_disk_full`: on a full disk `write` answers 0, and the next one too; both
  objects use cluster 512.
* `fat32_torn`: after a power failure between a new folder's entry and its mark in
  the FAT the next `write` answers 0 and puts its object into the folder's cluster
  (`OwnersApart`).
* `fat32_moved_into`: `move_dir` does not set the flag in the destination's
  header, so `delete` takes a directory with an entry for an empty one.
* `keyboard_stuck`: with input off the service routine does not read the port.
  Nothing interrupts again, and the next call that waits for a line waits for
  ever.
* `keyboard_lost`: with input off it clears the buffer, and system call 4 may
  not have copied it yet. The release of the Enter key is such a key.

Others that no run is about, though the models show them: `cp` writes as many bytes as
a pointer has (`cp.c:151`), so that a copy has one cluster; `whereis.c:50` says that
a file with the same name is looked for, but as many bytes are compared as the name
given has, and longer names are printed too (`WhereisByPrefix` says what it does);
the entry of cluster 512 in the FAT is a name, and in a directory that is renamed on a
full disk to a name whose first four bytes are 2, `delete` of what is in cluster 512
goes on to root, frees it and answers 0 (`fat32.c:491`); in a full directory
`write` answers 0 and the object is nowhere (the new table is chained but the
entry is stored behind the buffer); `puts_buff` scrolls after the last cell and
sets the cursor to column 80 of the last row, which is the row below the screen;
`fat32.h:203` says of a request for a folder that `ext` is unused, but the code
compares it. Outside the models: `separate_filename` copies three bytes to address
0 if there is no extension; `strparse` stores behind its array from the 13th token
on; `ATA_DRQ_wait` in `disk.c` waits for the ready bit and not for DRQ;
`allocate_single_user_page_frame` in `paging.c` returns -1 on every path.

## 4. Evidence that properties can fail

Every property of a passing run has an entry under `mutants`: a mistake in one
modelled definition (a free search that ignores a mark, a chain without its end
mark, only the first cluster freed, a flag not reset, an index that does not
wrap, ...) with which TLC finds the property violated in the same instance.

## 5. What is proved

Of `Fat32`, for a FAT of any length over three, tables, files and buffers of any
size, and any sets of names and contents:

| Theorem | Property | Holds for calls that run into |
|---|---|---|
| `TypeCorrect`, `FatStaysCoherent` | `TypeOK`, `FatCoherent` | any limit; the half of `FatCoherent` about root and the reserved entries, any but a full disk |
| `NothingDangles`, `ChainsUnshared`, `HeadersAgree`, `NamesUnique`, `FilesIntact`, `FilesStay` | `NoDangling`, `NoSharing`, `HeaderAgrees`, `UniqueNames`, `FileIntact`, `FilesUndisturbed` | moves and stale cluster numbers, no others |
| `ImplementsUntilStale`; `Implements`, if `Breaches` has no other limit | `ImplementsStoreUntilStale`, `ImplementsStore` | moves only |
| `CallsReturn`, `FlagsAgree`, `NothingLeaks`, `DirsEndEmpty` | `NoHang`, `EmptyFlag`, `NoLeak`, `DirsVanishEmpty` | no limit |

`FilesStay` and `DirsEndEmpty` are about steps. The properties themselves say up to
which limits they are claimed, so that the theorems are `Spec => []P` for every
`Breaches`; only `Implements` has a hypothesis on it. Assumptions: `SizeAssumption`,
`NameAssumption`, `WordAssumption`, `DataAssumption` (what a file cluster holds is not what the model
writes for "no file's cluster") and `BreachAssumption` of `Fat32`, which TLC evaluates
in every run.

**The FAT** (`Fat32Proofs`). `FatCoherent` is not inductive: whether `delete` can
free root depends on where entries lead, and whether `write` can overwrite a
reserved entry depends on what `findEmptyCluster` may return and on the chain that
is extended. `Base` adds, for each copy of the FAT and on the disk, that every
entry of the FAT but the reserved ones, and every live directory entry, leads into
`Room`: the clusters for data (3 and up), without cluster 512 until the disk is full.
While it is not, what `delete` frees and what `write` extends keeps off the reserved
clusters, and no chain gets to a name (`IInv`, which the later modules build on, is
this case). Once it is, a chain may get to cluster 512 and from there anywhere a
name leads; then only types and the agreement of the two FATs are kept. `Held` is
`Base` with the set of clusters as a parameter, as a step may be the one that makes
the disk full. There is a lemma for each action, and under them lemmas about chains:
`Reach` is contained in every closed set that holds its start and is itself closed,
the last cluster of a chain that ends is its end, and a chain that ends and does not
start at a reserved cluster avoids the reserved ones.

**Entries and chains** (`Fat32ChainProofs` to `Fat32SafetyProofs`). None of the six
properties in the second row is inductive, and together they are not either. They
speak of the directories that exist; but a table whose directory is gone is still
read by a caller who kept its number, and `delete` through such a table frees
whatever the entries in it lead to. `Sound` therefore speaks of *all* tables, live or
not: in every cluster that holds a table, each entry that is not deleted has a chain
that ends, is marked used, keeps off the reserved clusters, is of the entry's kind
and size, and holds the fragments of one content or a header with the entry's name
and parent; the chains of two entries are disjoint, wherever the entries are; two
entries of one table differ in name or kind; and a directory has one table. The last
is what makes the walks over several tables harmless (they would be none otherwise),
and it is where `table_full` comes in.

What keeps `Sound`: the operations do one of four things to the disk. They add an
entry with a chain of free clusters (`Added`: `write`), take an entry away and free
its chain (`Removed`: `delete`), change the name in an entry and in the header it
leads to (`Relabelled`: `rename_dir`), or carry an entry from one table to another
(`Carried`: `move_dir`); the others do nothing (`Same`). `AddedSound` and its three
companions show once for each that `Sound` is kept, and that the data of every other
file is; they know nothing of the operations. `Fat32CallProofs` shows for each
operation which of them it is: that `findEmptyCluster` gives different free clusters
that the FAT then chains, that the loop of `delete` clears exactly the chain of the
entry it found, that `move_dir` finds the slot it then fills. `NextEffect` collects
these, `SInv` is `IInv /\ (Within => Sound)` with `Within` for the limits allowed,
and since `limits` only grows, a step that ends within them started within them.

**Nothing lost** (`Fat32TidyProofs`). `TInv` adds, as long as no limit has been run
into, that the flag of every directory that exists is right and that every used
cluster is root or in the chain of an entry of a directory that exists. For
`NothingLeaks` alone neither half is enough: `delete` of a folder leaks whatever the
folder has, unless the flag by which it is refused is right. `EmptyFlag` fails with
`move_dir`, hence the condition on limits. `CallsReturn` follows from `Sound`: the
walks follow chains that end, and a directory is one table.

**The refinement** (`Fat32StoreProofs`). `StoreIn(d, f)` is what a disk and a FAT stand
for, so that the refinement mapping before and after a step is `StoreIn` of the disk
before and after it. `StoreDirectory` says, for a sound disk, that `FileStore`'s
helpers find in a directory what the driver's find in its table. For the calls that
only read (and those that are refused) the answer remains to be compared
(`ReadDirectoryRet`, `readRet`, `deleteRet`), for `read` fragment by fragment: the
chain's clusters in the order `Nth` gives them hold the contents of which the mapping
sees only the first cluster (`NthFirst`, `FileContents`). For those that change something
there is one lemma for each of the four ways: `AddedStore`, `RemovedStore`,
`RelabelledStore` and `CarriedStore` say that `StoreIn` of the changed disk is
`FileStore`'s `Create`, `Delete`, `RenameDir` and `MoveDir` of what it was. The
invariant is `RInv`: `SInv`, and root is a directory; a call in which a parent is not
one counts as `stale`, and `FileStore` has no such call. `TInv` is not needed: flags and lost
clusters are the same on both sides, right or wrong. `StepStore` collects the
operations and `InitStore` is the first start.

**Power failures** (`Fat32PowerProofs`), for a disk, tables and files of any size, any
number of calls and of failures:

| Theorem | Property | Hypotheses |
|---|---|---|
| `CallsSettle`, `FilesStayWhole`, `NothingIsShared`, `AtMostOneTorn`, `OnlyMoveLoses` | `Settled`, `FilesWhole`, `NothingShared`, `OneTorn`, `LostOnlyByMove` | `Breaches \subseteq {"moved"}` |
| `OneEntryAtATime` | `OneAtATime` | the same, and `LimitsOnce` |

All of them are about what happens as long as no call is made on a disk with a torn entry
and no directory is moved into itself. The properties say so themselves (`risks = {}`),
for every `Risks`; `CallsSettle` adds the condition, which the run does without. It is a
real one: the next `write` on a torn disk shares the cluster (`fat32_torn`), and with that
everything else is gone. The invariant is therefore `PowerInv`, that is `risks = {} => PInv`;
`risks` only grows, so that a step that ends without a risk has started without one
(`CallRisks`).

The first hypothesis is the module's scope, written in its header: `Fat32Power` has the
writes of a call for a parent with one table and a disk with room. `Sound` is of no use
here: a rename that is cut off leaves a header that does not agree with its entry. What
the driver needs of a disk it finds at the start is less. `Usable` is `Sound` without
the headers' names and parents, and what each call does (`Fat32CallProofs`) is shown
from `Usable`.

The invariant, `PInv`, looks ahead. The variables of `Fat32` are what the running call
will leave, so the platter says nothing about them, and what is on it half-way through a
call satisfies none of the properties by itself: it has to be known how it goes on.
`Runs(platter, writes, disk, diskFat, limits)` says that the writes left take the platter
through fine states to `disk` and `diskFat`, and that each of them is a `OneChange`. A
step of `write_clusters` takes the first state off (`RunsTail`), a power failure leaves a
fine state and nothing to write (`RunsNil`), and only a call has something to show: that
the sequence of its writes is such a run. `RelabelledRuns`, `RemovedRuns`, `CarriedRuns`,
`FolderRuns` and `FileRuns` do this for the changes a call makes, from the same
descriptions of them as in `Fat32ChainProofs` (`Relabelled`, `Removed`, `Carried`,
`Added`). `FileRuns` is for a file of any length: after `r` of its clusters the FAT is
`Marking` and the disk is `Filling`, which differ from the old ones in clusters no entry
leads to. `DeleteRuns`, `RenameRuns`, `MoveRuns` and `WriteRuns` show that the writes in
`Fat32Power` are those sequences; for `write` that its clusters are those
`findEmptyCluster` has returned, which `FirstFit` determines (`FirstFitUnique`).

A platter is `Fine` if it is `Usable` with one mark added in the FAT at most, that of a
folder which has its entry and its empty table (`Nearly`). This is `OneTorn`, and a folder
lacks its mark for exactly one write. `Kin`, as long as `move_dir` has not been called:
every table with entries, also that of no directory, is in another one. `LostOnlyByMove`
alone would not do, as a table that is not marked may become marked. `Flags` and
`FreeFlags` are about what `delete` believes: a flag that says "empty" is right, but for
an entry that came with the one `move_dir`, and a cluster that is not marked holds no
table that says "not empty". Without them `delete` may free a directory with entries.

`OneEntryAtATime` needs `LimitsOnce`, i.e. `move_dir` is called once: it does not set the
flag of its destination, so two directories moved into an empty one are gone with it in
one write, that of the FAT, when it is deleted as empty (`fat32_moved_into`). Nor does the
first of two moves have to be the one that counts: with any entry already in a directory
whose flag says "empty" the second would be one too many; the proof uses that before the
one `move_dir` every flag is right (`NoneFlagged`).

Two of the proofs about `Fat32` did not go through at first, for good reasons. With stale
numbers allowed, `move_dir` into the number of a deleted directory whose cluster has
become a file's breaks `FileIntact`. The other operations are protected by the check
of the header that `move_dir` does not make. The model had no limit for it; it is
`astray` now. And `FileStore` asked of every `write` that there be an identity for a
new directory and room for an entry, also of one that is refused because the name
exists. The driver looks for the name first and refuses on a full disk as well; so
does `FileStore` now.

**Keyboard** (`KeyboardProofs`), for buffers and lines of any length and any screen:
`TypeCorrect` says that the index stays inside the buffer, and `LinesTerminated` that
what system call 4 delivers contains a NUL however interrupts fall between the bytes
copied. The invariant needed for the latter: the number of bytes to copy is less than
the length of the buffer, and the caller's buffer has not been written from that
number on. `LineDelivered` says that the line is the one the user typed and corrected
(`LineIntact`). It needs to know where that line is at every moment (`LineInv`): up to
the index the buffer holds `typed` as long as a call waits, input is off once copying
starts, and the bytes copied so far are the beginning of `typed`.

**The screen** (`KeyboardProofs`). `CursorStays` and `EchoIsLine` are about every
behaviour in which what the shell prints leaves the cursor on the screen (`PutsStay`)
or leaves a tidy screen tidy (`PutsTidy`). The code needs such a condition: `puts_buff`
moves the cursor on from the last cell, the service routine does not. That no key is
to blame is what `CursorStays` says. `EchoMatches` is not inductive: from the first
column backspace goes back over the line's end to the first of the empty cells that
end the row above (`RowAbove`), which need not be where the last letter is, if there
is a gap in that row. `EchoInv` adds `Tidy`: in every row the characters come first,
nothing is on the screen from the cursor on, and its row has no gap before it. Each
key's function is first reduced to what it makes of the cells and the cursor
(`EchoCharFields`, `LineFeedFields`, `EchoBackspaceFields`); then there is a lemma for
what it keeps (`...Tidy`) and one for the line (`...Matches`). `PromptsAreSafe` has no
condition on behaviours: if all the shell prints is a line feed and characters that
leave room in the line (`IsPrompt`), `puts_buff` is `PutsTidy`. The runs' `Prompt` is one
of these. `puts_buff` is a fold; `PutsSteps` takes it apart into one `PutChar` after the
other, by the least number of characters for which that fails. Assumption:
`CharAssumption`, a letter is neither NUL nor the prompt's mark.

## 6. What is only model-checked, and the plan

Only model-checked, and out of the prover's reach:

* the safety properties of `Shell`, which declares recursive operators (`rm`, `cp` and
  `whereis` are recursive functions on trees), and `StrparseSplits`;
* liveness (`GetlineCompletes`), which needs ENABLED.

All other properties of the passing runs are stated by a theorem. Two of those have
conditions that the run need not make: `OneAtATime` of more than one `move_dir` is false
(above), and `Settled` is proved for calls that take no risk.

Written in this order: `Fat32` (the core), `Framebuffer`, `Keyboard`, their first proofs,
then `Directories`, `FileStore` and the refinement, `Strings`, `Shell`, `Fat32Power`, then
the proofs on chains, of the refinement, of the screen, and of the power failures.

## 7. Not modelled

* Descriptor tables, segment set-up, interrupt controller programming and port
  instructions have no state that a property relates to another; paging maps one
  user page at boot; the clock only stamps entries.
* `src/fat32-no-cmos.c`, the inserter's copy of the driver, is an older version of
  `fat32.c`. The inserter calls `initialize_filesystem_fat32` and `write`, which
  differ from the kernel's in the clock only; the copy's `read_directory`, `read`
  and `delete` are never called.
* Lengths: names of more than eight characters, extensions of more than three, and
  arrays that are too short for what is copied to them. The commands that would
  need them are left out of the instances (`PATH_LENGTH`).
* What a command does on a full disk or in a full directory, and after a removed
  directory on the shell's stack: `Fat32` has the driver's side of these
  (`fat32_limits`, `fat32_moves`), `Shell` stops there (`beyond`, `strayed`).
* Blocks within a cluster: a write of a cluster is one step, though the controller
  writes four blocks.
