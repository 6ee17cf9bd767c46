# A TLA+ model of the discitix kernel

Discitix is a hobby kernel for x86_64: one processor, a timer-driven
round-robin scheduler, Unix-like processes, a page allocator, terminals and a
FAT32 disk.  This directory holds TLA+ specifications of its core, TLC
configurations that check them on small instances, and proofs for instances of
any size.

Paths below are relative to the repository; `src/` there is the kernel,
`userland/source/` the C library and the programs.

## 1. Inventory

| component | state | operations | interacts with | what makes it correct |
|---|---|---|---|---|
| scheduler (`kernel/sched/scheduler.c`), `drivers/pit.c` | circular list of `task_t` from `task_list`, `current`, `next_task_id`, each task's `state`, `wake_tick`, saved registers | `schedule_tick` on every timer interrupt, `task_enqueue`, `find_task_by_id` | interrupt frames, TSS, CR3 | one running task, nobody starved, the loaded context is the current task's |
| process calls (`arch/x86_64/syscall.c`, `syscall/proc.c`) | `current_syscall_regs`, `parent_id`, `exit_status` | fork, exit, waitpid, exec; the library's waitpid loop | scheduler (blocking, waking), page tables, files | no lost wake-up, a child is collected once and by its parent, its memory is not in use when freed |
| page allocator (`mm/pmm.c`) | bitmap, `free_mem` | `pmalloc`, `pmm_free_pages`, `init_pmm` | everybody; `kmain` frees with interrupts on | no frame given twice or lost, exact count, failure only when memory is out |
| virtual memory (`mm/vmm.c`, `syscall/mem.c`) | page tables, `brk_current`, `mmap_base` | map, unmap, clone, free; brk, mmap, munmap | page allocator, fork, exec, exit | each frame has one holder, is freed once and not while held, none is lost |
| ELF loader and exec (`kernel/elf.c`, `kernel/sched/build_stack.c`) | `page_map`, `user_code`, `user_stack` | `elf_load_into`, `build_user_stack`, `sys_exec` | VFS, page tables | what a failed or a successful exec frees is what nobody uses any more; the first stack is aligned and within its pages |
| kernel heap (`mm/liballoc.c`) | majors and minors inside runs of pages | `kmalloc`, `kfree` | page allocator | blocks disjoint, books exact, pages taken only when needed and returned |
| keyboard and line discipline (`drivers/keyboard.c`, `drivers/tty/tty_input.c`) | modifier flags; per terminal: line buffer with cursor, escape state, ring, `line_ready` | key interrupt, `tty_input_char`, `tty_read`, `tty_switch` | interrupts against sleeping reads | a reader gets the bytes of the lines, in order, once; it sleeps only while there are none |
| terminal output (`tty_output.c`, `hansi_parser.c`, `psf2.c`, `framebuffer.c`) | cells, cursor, one parser for all terminals | `tty_putchar`, `tty_switch` | programs' writes against the keyboard's echo | cursor on the screen, sequences obeyed, the echo in step with the line |
| open files (`syscall/fops.c`, `kernel/vfs/files.c`) | `fd_table`, `file_t` | open, close, read, write, lseek; copied by fork | heap, VFS | a descriptor names a live file |
| VFS and dentry cache (`kernel/vfs/filesystem.c`, `fs/devfs.c`, `fs/stripFS.c`) | dentry tree, mounts, `cwd` | path lookup, create, mkdir, unlink | FAT driver, page allocator, heap | the cache agrees with the disk, nothing removed is reached |
| FAT32 (`fs/fat32.c`, `drivers/ata.c`) | FAT, one cached FAT sector, directory entries, data | create, mkdir, write, read, unlink | disk, dentry cache | no cluster in two chains, sizes within chains, also after a crash |
| descriptor tables, faults, serial, clock, library | filled at boot, or stateless | | | |

What is hard here: a timer tick can come at every instruction where the
processor's interrupt flag is set.  System calls run with the flag clear (the
`int 0x80` gate is an interrupt gate), except in the `sti; hlt` loops of exit,
waitpid and `tty_read` and on waitpid's way back; `kmain` runs with it set.  The
states that a tick may see in those places, tasks that sleep in the middle of a
system call, and memory that is freed while still in use are where the code can
go wrong without a test noticing.  PROJECT.json lists these hazards with their
lines.

## 2. Modules

| module | what it is |
|---|---|
| `ProcLife` | abstract: processes are spawned, end once with a status, and are collected once by their creator |
| `Sched` | scheduler, system-call gate, fork, exit, waitpid, the wait of a terminal read; implements `ProcLife` |
| `SchedProofs` | theorems about `Sched`: its properties, and that it implements `ProcLife` |
| `Pmm` | page allocator with the kernel and `kmain` as its users |
| `PmmProofs` | theorems about `Pmm` |
| `LineTty` | abstract: a line edited at a cursor, a queue of entered bytes, reads that stop at a newline |
| `Tty` | keyboard interrupt, canonical line discipline, reads; implements `LineTty` |
| `TtyProofs` | theorems about `Tty`: its properties, and that it implements `LineTty` |
| `FatDriver` | the FAT32 driver's algorithms as operators on a volume: FAT cache, allocation, chains, directory slots |
| `Fat` | the driver at work: every operation, the disk's writes one by one, crashes |
| `FatProofs` | theorems about `Fat`: what is on the disk after every sector write |
| `UserStack` | the layout `build_user_stack` gives a program's first stack |
| `AddrSpace` | who owns which frame: page tables, fork, exec, exit, waitpid, brk, mmap, munmap |
| `AddrSpaceProofs` | theorems about `AddrSpace` |
| `Vfs` | descriptors, open files, the dentry cache, mounts, and the system calls on them |
| `VfsProofs` | theorems about `Vfs`: descriptors, links, and where freed memory is reached; the dentry cache is a tree, and without aliases it is never seen |
| `Heap` | `kmalloc`, `kfree`, `krealloc` on top of the page allocator |
| `HeapProofs` | theorems about `Heap` |
| `Term` | escape sequences, cells and cursors, and the echo of the line under way |
| `TermProofs` | theorems about `Term` |
| `MC...` | instances of these for TLC |

Definitions whose comment begins with *Mutant* are plausible bugs in the
definition that follows them.  Nothing uses them; put in the place of that
definition, each makes TLC report the property PROJECT.json names for it.

### Sched

An action is what runs between two points at which an interrupt can be taken.
`intr` is the processor's flag and `Tick` needs it, so where ticks are possible
follows from the `sti`s and from the gate (`GateFlag`) and is not assumed.  A system
call is entered with `Enter` (`current_syscall_regs` becomes the caller's
frame: `sysregs`), runs through its handler's steps (`pc`) and ends with
`Return`.  The handler steps are as fine as a tick could split them if the gate
left the flag set: exit's wake-up of the parent and its death are two actions,
waitpid's look at the child and its blocking are two.  They cannot be separated
by a tick in the kernel as it is, and the properties say why that is needed.

`ring` is the task list from `task_list` on; `Main` (id 0) is the task that the
first tick makes of `kmain`.  `cr3`, `rsp0` and `tables` say which page table is
loaded, whose kernel stack the TSS names, and which tables are allocated.  The
page tables' contents are left to the address-space module.

*Abstracted:* `pit_ticks` appears only in `wake_tick <= ticks`, and the only
values of `wake_tick` are 0 and all ones, so one constant stands for all tick
counts.  `task_exit` and `scheduler_sleep` have no callers.  A program's own computation
is the state "user"; what calls it makes, and in which order, is unconstrained.
The log lines and the frames' contents are left out, except whose frame it is.
The library's waitpid loop (`stubs.c`) is part of the model because liveness
depends on it.  An `errno`-like difference between negative results is kept
only where somebody acts on it (-2).

### Pmm

`taken` is the bitmap; `held` and `buffer` are ghosts that say which runs the
callers own.  Kernel allocations and frees run with interrupts off and are
single actions.  `kmain`'s `pmm_free_pages` (`init/main.c:188`) comes after `sh`
was enqueued and runs with interrupts on: `LoaderClear` clears one bit,
`LoaderCount` adds to `free_mem`, and anything may come in between.  In the
build (gcc -O2) each is one read-modify-write instruction.

`free_mem` is in pages, and `Wrap` is 2^32 / 4096: the counter has 32 bits.
`PmmAssumption` asks for a padding bit at the end of the bitmap.  It exists
unless the memory's top is an exact multiple of 128 MiB; then the search reads
past the bitmap, which is outside this model.  `Release` gives back what
`Alloc` gave: the places where the kernel frees something else (see the hazards
at `proc.c:228`) are the address-space module's subject.

### Tty

A key's interrupt passes one to four characters to `tty_input_char` (`pending`);
while they are passed nothing else runs.  Otherwise a read runs up to its
`sti; hlt; cli` loop (`ReadWait`), or from the loop's end (`ReadWoken`), or
without waiting (`ReadNow`).  Buffers are the code's arrays with their
indices.  Characters are a few names; only those that the code tells apart differ.
The up and down arrows, which do nothing, are represented by one of them.
Not modelled: raw mode (`tty_set_ldisc` has no caller), Ctrl-C and Ctrl-L
(no entry of the key maps produces them), modifiers other than Ctrl, the echo.

### Fat

The driver is called by system calls, which run with interrupts off and wait for
the disk by polling, so operations do not overlap.  An operation (`Create`,
`Mkdir`, `Unlink`, `Write`) therefore computes in one step what it leaves in memory and
the list of sectors it writes; `DiskWrite` makes these writes one at a time, and
`Crash` drops those that are left and mounts the disk again.  Every property of
the disk is thereby checked after every single sector write.

`FatDriver` follows the order of the reads and writes because the one cached FAT
sector depends on it: a read of another FAT sector writes the cached one.
`want` says what the callers created and wrote, by first cluster; `busy` is the file
of the operation under way, `torn` the files that a crash cut short, `leaky`
that clusters may be lost.

*Abstracted:* a sector of a file holds one value, and offsets and lengths are whole
sectors; an entry is a slot with a kind, a name, a first cluster and a size; a
long name has one LFN slot in front of its entry.  The size in the inode changes
together with the one in the entry, so there is only the latter.
*Assumed:* one sector to a cluster, which is what `mkfs.fat` chooses for the image of
the Makefile; the volume ends where the search for a free cluster ends.
*Not modelled:* a write through a descriptor whose file was unlinked (the
descriptors' subject), reads that fail, alternative spellings of one name,
`getdents`, files that another system left without a cluster, directories below
the first level.  The second copy of the FAT is never written by the driver.

An unlinked file's LFN slot stays behind: `lfn_feed_entry` has reset the count of
slots when it hands the long name out, so the loop at `fat32.c:1116`, which means to
delete them, never runs.  The LFN slot
holds its entry's checksum, which a later entry behind it does not have, so what
comes of it is a lost slot (two names with one checksum are not modelled).

### UserStack and AddrSpace

A page table is a function from the nodes of a tree (`<<level, index>>`) to
frames; the leaves are the pages.  `Wanted` are the nodes for which
`vmm_map_page_in` and the pages' owner call `pmalloc`: the missing tables, and every
leaf, *present or not*.  That is why mapping over a page loses its frame.  A
task's record has the fields of `task_t` that name frames besides its table: `code`
(the frames that `page_map` lists), `meta` (the page of `page_map` itself),
`user_stack`, `kstack`, `self`.  `Held` collects what a task holds; fork's copy of
`page_map` and `user_stack` is `FrameAt` of the cloned table, as in
`fork_current_task`.

System calls run with interrupts off, so each is an action, with the failures as
actions of their own: `ExecFails` stands for the two failures that come after pages
have been mapped (segment data beyond the end of the file, arguments that do not fit);
earlier ones change nothing.  `pmalloc` never answers NULL, it halts the machine: the
code's paths for a failed allocation are dead, and an action waits until there is
`Room`.

*The first tear-down ends a run* (`torn`).  `sys_exec` frees frames that the page
table still maps (finding 1), so what a process does afterwards happens in somebody
else's memory, and no meaning can be given to it.  What holds up to that point, and of the
tear-down itself, is checked; what a machine does beyond it is not.

*Abstracted:* permissions, contents, the kernel half of the tables (shared, never
freed), the buffers `sys_exec` allocates and frees within the call; a kernel stack is one
frame; of the single-page allocations of one call the order is that of a walk over the
table.  The break is counted in half pages, so that it can be unaligned.  `Span` is
512, 512 * 512 ... in the code: the pages below a node of each level.
*Assumed:* programs ask for addresses in the user half (`AddressAssumption`); the
system calls do not check this, and with others they reach the kernel's tables.

### Vfs

The disk is a table of directories with slots; how it comes to be in sectors and
clusters is `Fat`'s subject.  `dentry` and `file` list every object there has ever
been, in order of allocation, and a freed one is marked `live = FALSE`: going through
a pointer to it sets `wild` to "freed" and ends the run, since the kernel then
reads memory that may be anything.  The same holds for a directory sector that is
free again (`fat32_vfs_write` puts the size there) and for the null `i_ops` of a
device, which `vfs_create` calls ("null").

A name's `Answers` are the spellings `fat32_vfs_lookup` accepts for an entry: an 8.3
entry answers to every mixture of cases and a long name to its short alias as well,
while the cache compares spellings exactly.  `Walk` is `vfs_get_dentry` component by
component and returns the cache it leaves: also failing calls fill the cache.
`Through` follows a mount downwards; `..` goes from the mounted root to the parent that
`vfs_mount` gave it.  `Getdents` takes a buffer that holds all names;
`/dev`'s children are all in memory.  A walk is a recursive function over the
components of the path, of which strtok makes no empty one (`Words`); the path `/` has
none at all.

*Abstracted:* a file's contents (`Fat`), access modes, the lists of mounts; a write is
of one unit.  Reads and writes of terminals are `Tty`'s and `Term`'s.  Removing a
directory does not ask whether it is empty, as in the code.  *Not followed:* a write
through the descriptor of a directory, which overwrites its entries: `vfs_write`
(`files.c:47`) asks only whether the driver can write.

### Heap

`majors` is the list from `l_memRoot`, each with its minors in order of address.  The
three places where `kmalloc` puts a block (in front of the first minor, between two,
behind the last) are one operator over the gaps; `Order` and `BetAfter` keep the
code's search: from the best bet to the end, then from the root, updating the best bet at every
major it looks at, and a new major only after that.  Alignment is the code's:
the byte in front of the pointer says how far it was shifted.  `others` are pages
that other callers of `pmalloc` hold between the majors.

*Assumed:* callers free what they hold, once, and write only in their blocks (the
exceptions are hazards of their own); the lock is never contended, since system calls
are not interrupted.  `kmalloc(0)`
gives a block like any other, because the padding is added first; `kfree(NULL)`
changes nothing.

### Term

`Handled` is `hansi_handler` and `Raw` is `tty_putchar_raw`.  There is one `parser` for
all terminals, programs and the echo, and sequences may come in pieces; the
cursor's two `uint16_t` wrap at `Wrap`.  `args` has a cell more than the code's array,
because `index` can reach its length; what else lies there in memory is not followed.
`line` is the line of `LineTty`, with the column it started in.  `Put` is a function of
the number of characters handled so far; `TypedAssumption` is the range of characters
that `tty_input_char` inserts.

*Abstracted:* SGR and the other sequences without effect on cursor or cells, colours,
pixels, the blinking cursor; `tty_write` through `/dev/ttyN` (see the hazards).

## 3. What the runs check

| run | instance | question |
|---|---|---|
| `sched_safety` | ids 1..3 (`sh` and two forks, so a grandchild exists), two statuses, both values of WNOHANG, readers 1 and 3 | `TypeOK`, `SoleRunner`, `NoLostWakeup`, `OwnFrame`, `OwnContext`, `ZombieFinal`, `FreedOffCpu`, and `Lifecycle`: `Sched` implements `ProcLife` |
| `sched_live` | the same, one status, blocking waits | `RunnableRuns`, `ZombieCollected` |
| `pmm` | 7 frames, 5 of them usable, with a hole, runs of 1 to 3 pages, `Wrap` 4 | `RunsDisjoint`, `NoLeak`, `FreeMemExact`, `HaltJustified` |
| `tty` | one terminal, buffers of 3 cells, all cursor keys, two readers that ask for 2 characters | `TypeOK`, `ReadyMeansInput`, and `Lines`: `Tty` implements `LineTty` |
| `fat` | 4 clusters with 2 slots or one sector each, 2 FAT entries to a sector, a short and a long name, the long one for directories as well, files of up to 2 sectors, one crash | `ChainsSound`, `NoLostCluster`, `Intact`, `Synced`, `SizeCovered`, `ShortFindable` |
| `fat_grow` | the same, one sector, both names for directories | violated: a file with a long name is not found after it was created |
| `addrspace` | three tasks, tables of two levels, 40 frames, an image that loads and one cut short, arguments that just fit and some that do not, two places to map and unmap, 4 system calls | `NoDangling`, `NothingShared`, `OnlyOverwritingLoses`, `CommitFreesOwn`, `EntrySound` |
| `addrspace_exec` | the same, 2 calls | violated: `TearDownSafe`, exec's tear-down frees frames still mapped |
| `vfs` | two processes, two descriptors, two names, seven paths (absolute, relative, `..`, `/`, `/dev`, below a device), 5 system calls | `LookupAgreesWithDisk`, `FdSound`, `CwdResolves`, `WildNeedsSharing` |
| `vfs_alias` | one process, an upper-case name that answers to both cases | violated: `NoDeletedInode` |
| `heap` | 6 pages of 12 bytes, majors of 2 or 3 pages, blocks of 1, 3 and 17 bytes, 3 in use | `BlocksDisjoint`, `BooksRight`, `GrowsOnlyWhenFull` |
| `term` | two terminals of 3 by 2 cells, cursors of 3 bits, 2 arguments, lines of 3 characters, 5 writes, keys or switches | `CursorOnScreen`, `PositionObeyed`, `EchoInStep` |

**The properties.** `SoleRunner`: the states the handlers set and those the tick
sets never disagree about who runs.  `NoLostWakeup`: whoever is BLOCKED waits for its
own child, and that child has not ended.  `OwnFrame`: `current_syscall_regs`, one
global shared by tasks that sleep inside system calls, is right whenever
a handler runs.  `OwnContext`: page table, kernel stack and allocation fit the
current task wherever user code or a handler runs; only the loops of exit and
kmain are exempt, and exit's loop does run on a freed table, which
is harmless as long as nobody reuses the frames before the next tick: that
follows from exit clearing the flag until the loop.  `ZombieFinal` and
`FreedOffCpu` are the two conditions under which waitpid may free a `task_t` and
the kernel stack with it.  `HaltJustified` compares a halt with what callers own,
not with the bitmap.  `ReadyMeansInput` is both "no reader sleeps on input" and
"no read returns 0".

`ChainsSound` depends on the order of the writes: the new cluster's
mark before the link to it, the entry's deletion before the release of its
clusters.  `Intact` is what a file's owner cares about: a file that was written is
unharmed by whatever is done to others, and by a crash.  `NoLostCluster` is the
converse of `ChainsSound` and cannot hold after a crash.  `SizeCovered`: the data and
the entry are written before the last link may be, so a crash can leave a size one
sector beyond the chain; no more than one, so that the next write still finds a
cluster at its offset.  `Synced` says that the cached FAT sector is on the disk at
the end of every operation, error paths included.

`NoDangling` and `NothingShared` say that until the first tear-down frames have
exactly one holder and are not free while held, whatever was forked, mapped over,
unmapped, exited, or half loaded by an exec that failed.  `OnlyOverwritingLoses` is the
converse: the only way to lose a frame is to map another over it.  `CommitFreesOwn`
limits the damage of finding 1: if `page_map` and `user_stack` of a process are what
its table maps, its exec takes no frame from another process, from its own tables
or from the new image.  A forked child's stack need not satisfy the condition.

`LookupAgreesWithDisk` compares every path's walk through the cache with a walk over the
directories on the disk, for files removed and made again, grown through
descriptors, and shadowed by a mount.  It holds where every entry has one spelling;
`vfs_alias` shows that this is needed.  `FdSound` and `WildNeedsSharing` say when
freed memory can be reached: a process that neither forked nor was forked never
holds a descriptor of a freed file, and a call goes astray only by a shared
descriptor or after a removal.  `CwdResolves`: what `getcwd` answers leads back
to the directory, through the mount as well.

`BlocksDisjoint` counts bytes: blocks, the alignment byte in front of each, and all
headers.  `GrowsOnlyWhenFull`: the search from the best bet overlooks no gap.

`PositionObeyed` holds for a sequence that is split over writes, with anything in
between, too many numbers, none, or one too large for the cursor.  `EchoInStep` ties
the cursor on the screen to the one in the line; a cell of the line shows its
character or a blank, never another.

**Bounds.** With three user processes there are a parent, a child and a
grandchild, or two children of one parent: every wake-up by "the other child",
every orphan and every collection from the middle and the end of the ring
occurs.  `MaxId` bounds the ids fork hands out and is the only bound on `Sched`.
With 7 frames and a hole all first-fit situations of runs up to 3 occur, and
`Wrap` 4 makes `free_mem` wrap.  Buffers of 3 cells hold a line of two
characters: full line, full ring, wrap-around and cursor in the middle occur.
In `fat`, four clusters on three FAT sectors let chains cross sectors, the disk
fill up in every operation, and a directory grow; one crash suffices because a crash
leaves nothing but the disk and what the ghosts say of it.  Deadlock is not checked in
`pmm`, because a halted kernel stops, nor where a run's calls are bounded
(`MaxCalls`, `MaxSteps`, `MaxHeld`).

In `addrspace`, four calls are a fork, two calls of either process and an exit or an
exec, or a grandchild, or an exit and a collection; an image's segments overlap in a page, the
mappings overlap the image and each other, and 40 frames are enough for both forks, but not for
both after much has been mapped.  In `vfs`, five calls make, open, share, remove and
make again; `Wrap` 4 makes `lseek` wrap, as the 32 bits that it stores do.  `MaxSize` 2 gives a size before and after a growth.  `heap` has the
proportions of the code scaled down: one of the requests needs a major above the usual size,
and three blocks make a gap in the middle of a major and between majors.  It has no
bound on the number of calls.  Reads of 2 characters take a part of a line, or all of it.  In `term`, 3 columns and 2 rows wrap and scroll within five
writes, a `Wrap` of 8 lets sums overflow, and two arguments are
exceeded by a third.  `TypeOK` of `Fat` and of `Vfs` hold
on the same instances and are left out of the configurations; both are proved.  The larger
instances that earlier versions of these runs had pass too, and take minutes: one more
call in `addrspace`, `vfs` and `term`, 7 pages in `heap`, files of 3 sectors with two values and directories of both names in `fat`.

**Further instances.**  These are not part of the regular runs; the files are kept
beside the others for `tlc -config`:

| configuration | module | result |
|---|---|---|
| `MCTtySwitch.cfg` | `MCTty` | holds: two terminals, buffers of 2 cells, escape and `[` typed by hand, switches between any two keys: `ReadyMeansInput`, `Lines` |
| `MCSchedOrphan.cfg` | `MCSched` | violated: `OrphanHasNoParent` (observation a below) |
| `MCPmmEmpty.cfg` | `MCPmm` | violated: `HaltJustified`, when 0 pages are asked for (b) |
| `MCTtyLong.cfg` | `MCTty` | violated: `ReadyIsWholeLine` (c) |
| `MCTtyDelete.cfg` | `MCTty` | violated: `DeleteInsertsNothing` (d) |
| `MCTermEcho.cfg` | `MCTerm` | violated: `EchoShowsLine` (e) |

**Fairness.** `Sched` assumes strong fairness of `Tick` (the PIT keeps its
interrupt pending while the flag is clear, so it is taken when the flag is set
again, even if only briefly) and of each task's own steps, in the kernel or the library (a
time slice of 10 ms is longer than any of them, so a task that is scheduled
again and again completes the step).  No program is obliged to call anything, and
no line has to arrive.

## 4. What is proved

Each theorem holds for every value of the constants that satisfies the module's
assumption: `SchedAssumption`, `PmmAssumption`, `AddrSpaceAssumption` with
`AddressAssumption`, `TtyAssumption`, `VfsAssumption`, `FatAssumption` with `FatBoundsAssumption`,
`HeapAssumption`, `TermAssumption` with `TypedAssumption`.  TLC has evaluated each
assumption on the instances, and checked each inductive invariant on the reachable
states of the run named.

**Scheduler** (`SchedProofs`): each safety invariant and both action properties of
`sched_safety`.  The invariants are not inductive: that exit cannot lose a
wake-up depends on the flag being clear in handlers, that waitpid's child is off
the processor depends on ring entries being distinct and on where each task is
in its code.  `IInv` adds: the flag is clear exactly in handlers; a task that is not
current is at a place where it could be interrupted; a blocked task is in
waitpid's loop and names a child; a zombie is in exit's loop; ids in the ring are
distinct, below `next_task_id`, and `Main` is in it as soon as there is a current
task (so the search always finds a runnable task); processes in the
ring that are not zombies have their tables.  `Inductive` proves `Spec => []IInv`, with one lemma per
action or group of actions, and the rest follows.

`Lifecycle` (same module) says that `Sched` implements `ProcLife`.  Every action is a
step of a process's life or invisible: fork is `Spawn`, the second half of exit is
`End` with the status its first half stored, waitpid's reaping is `Collect` by the
parent, with that status, of a child that has ended.  Beside `IInv` this needs
`StatusInv`: a process between the halves of exit has a status to end with.

**Page allocator** (`PmmProofs`): all properties of `pmm`.  `IInv` is `TypeOK`, `RunsDisjoint`,
`NoLeak`, `FreeMemExact`, and what the loader's phases say of its buffer.
`HaltIsJustified` needs `0 \notin Sizes`, which is exactly what `MCPmmEmpty.cfg`
shows to be necessary.  `FreeMemExact` rests on the cardinality theorems for
intervals and disjoint unions.

**Address spaces** (`AddrSpaceProofs`): `NoDangling`, `NothingShared`,
`OnlyOverwritingLoses`, `CommitFreesOwn` and the types.  `IInv` is
`TasksInv /\ (~torn => FramesInv)`.  `FramesInv` speaks of everything a task names
(`Held`) and not of page tables alone: a held frame is given out (`Owned`), and two
places that name one frame are one place (`Single`).  `NothingShared` alone is not
inductive, since waitpid and exec free what stands in `meta`, `kstack` and `user_stack`
as well.  `TasksInv` says that tables are trees (`Closed`: with a node its
parent), so that what `Wanted` adds lies beside what is there, and it survives the
tear-down.  Two lemmas carry the proof: `Fresh` numbers the nodes in the order of a walk
and gives each a frame of its own, not in use (`Precedes` is a linear order, and of a
frame the free ones below it are counted); and a step that gives a task new
frames and frees only its own keeps `FramesInv` (`Grows`, `Shrinks`).
`StacksSound` is about the stack a program starts with: `EntrySound` for
arguments of any sizes, also where exec's arguments come after a fork.  It needs of the
sum of the sizes only that it is a natural number, which is shown by the first
argument at which it would not be.

**Line discipline** (`TtyProofs`): `TypeOK`, which is that cursor,
length and indices stay in the buffers, `ReadyMeansInput`, and `Lines`, that `Tty`
implements `LineTty`.  The invariant is `TypeOK /\ ReadyMeansInput`.  The
refinement says that moving half the buffer by one cell is an insertion between two
sequences, and that filling and emptying cells of a ring with wrapping indices is
appending to a queue and taking from it.  Under it lies the arithmetic of the
ring, `Used(head, tail)` modulo `Size`, and that a read takes the bytes up to the first
newline and no more.

**Files** (`VfsProofs`): `FdSound`, `WildNeedsSharing`, and `TypeOK`, which says that
every link of the dentry tree, every file and every descriptor leads somewhere, that a
child's parent link leads back, and that files hang below directories of the disk.
`FdSound` is not inductive: a process may be related to nobody now, yet share a
`file_t` with a process that came by it otherwise.  `FdOwned` excludes this: no other
slot of any process holds such a file, and a task that does not exist yet holds
none.  `WildNeedsSharing` needs that a walk on a cache without freed dentries
meets none, in any path, `..` and mounts included (`WalkOnOK`); since
a walk is a recursive function, this is proved by taking the least component at which it
would fail.

**Dentry cache** (`VfsProofs`): `CwdResolves`; and, for a disk where every entry answers
to its own name only (`NoAliases`), `LookupAgreesWithDisk` and `NoDeletedInode`.  The
last two are false without that hypothesis: `vfs_alias` is a counterexample (finding 2).
So `EvictionSuffices` says how far the comment at `filesystem.c:347` is true.  TLC checked the
inductive invariant on the instances of `vfs` and `vfs_alias` first.  `CacheInv` has three parts.
`TreeOK`: every dentry hangs from an older one that is a directory; a live one is among
the children of the one above, children live and have different names; the mount of
`/dev` and its root are as at boot; and a dentry named `.` or `..`, should a call make one,
is never one that a walk goes through.  `PlacesOK`: working directories are dentries a walk may come to.  `AgreesOK`,
under `NoAliases`: in a directory in use names are unique, no cluster belongs to two entries or
is free, and each live dentry of the disk in the cache is as its directory entry says, size
included; the dentries below a removed directory have no entry at all.  None of the
properties is inductive without these: that an unlink evicts the right dentry depends on the
names of children being unique, that a create adds a new name depends on the walk before
it having found neither a child nor an entry (`NotCached`), and that a reused cluster is not
confused with the removed file's depends on the clusters of entries.

`WalkGood` says what any walk does to the cache (it adds dentries that agree with the disk
and changes nothing else) and `StepsGood` where it may end, both by the first component
that would go wrong; one lemma per system call says that it keeps `CacheInv`.
`CwdLeadsBack` goes along the ancestors of a dentry in the order of their age: the names
`getcwd` collects are the components that lead down again.  `CacheNeverSeen` compares
the walk through the cache with the one over the directories component by component
(`Matches`).

**FAT32** (`FatProofs`): `ChainsSound`, `NoLostCluster`, `Intact`, `Synced`, `SizeCovered`,
`ShortFindable` and the types, for volumes, clusters and FAT sectors of any size, any
names and contents, and any number of crashes at any sector write.  A volume is `Good`
when each file and directory has a chain of its own (`SoundVol`), sizes are covered
(`SizesOK`), the files that were written are there (`WantedOK`), and short names come
once and before any end slot (`ShortOK`).  Two of these say more than the properties: what a
file has beyond its data is blank, without which a write that grows it again could show
old contents, and a short name has no second entry, without which the lookup could find
another.  `FatInv` says of the *future* of the disk what the properties say of its present:
the writes still to be made lead from what is on the disk, through volumes good for all
files but the one of the operation, to a volume that is good for all and whose FAT is the
one in memory (`Shown`).  So `DiskWrite` only goes one volume further, and a crash finds a
good one.

The work is in the operations.  `InOp` says that what a driver has logged so far leads
to a disk that lacks at most the sector of the FAT that is cached (`Behind`): the disk can be
behind the memory because the sector is only written when another is wanted, and both
must be good whichever it is.  Each step of the driver keeps `InOp`, its order of writes
being the reason: an allocated cluster is `Fresh`, marked and blanked before anything
leads to it; a directory that grows has a blank cluster at its end at once, and a file
that grows is on the disk at most the last link behind memory (`Stretch`, `OneBehind`); a chain is
freed from its head when no entry leads to it any more.  `PerformKeeps` turns an
operation's result into `FatInv'`, and `MakeKeeps`, `UnlinkKeeps`, `WriteKeeps`, `DiskWriteKeeps` and `CrashKeeps` are the actions.
`NoLostCluster` is `Tight`, which every operation restores on the volume it ends with but
which does not hold in between, so it is asked of the end only.  That a file is found
again is proved for short names; for long ones it is false (finding 3).  TLC checked
`FatInv` with its witness, the disk after all pending writes, on the instances of `fat`
and `fat_grow` first.

**Terminals** (`TermProofs`): `CursorOnScreen`, `PositionObeyed` and `EchoInStep`.
`TermInv` says that every terminal is a screen with its cursor on it (`IsScreen`), that in
a sequence `index` is the number of the last argument and the array holds the numbers
as they were written (`IsParser`), and of a kept line that it is on its screen
(`OnScreen`).  The last strengthens `EchoInStep` by "and it fits its row": else a
shorter line could be kept after a longer one had wrapped.  That one character
keeps screen and parser is `HandledIs`; that a text does is an induction over its
characters, made by the least one that would fail (`UpTo`, `PutShows`).  `PositionObeyed`
needs that the number a sequence's end clears is never one of the first two
(`EndedIs`, `LastH`).  `EchoInStep` follows each echo character by character: printing goes right
and writes, a backspace goes left and erases, an arrow only moves (`Prints`,
`Erases`, `Shifts`), and `InsertShown`, `BackspaceShown` and `ArrowShown` put
them together.

**Heap** (`HeapProofs`): `BlocksDisjoint`, `BooksRight` and `GrowsOnlyWhenFull`, for any
memory, page size, header sizes, alignment and requests.  The invariant `HeapInv` says
that the minors of a major lie in order inside it, each with its padding, without
overlap and with an aligned pointer (`MinorSound`, `InOrder`), that majors lie apart from each other
and from other users' pages, that the blocks the callers hold are exactly the blocks of the
minors, that usage and totals are sums over the lists, and that the best bet is one of the
majors.  It is stated of any list of majors and not of the variables, because it has to
hold also between the two halves of a `krealloc` that moves its block.  `BooksRight`
alone is not inductive: kfree finds a minor from a pointer, and subtracts the right
size only if no two minors have the same one, which is a matter of where blocks lie.  The proof has two parts.  `GapIs` and `GapFits` say what the search
for a gap returns: a place after the k-th minor and before the next one; and that one gap
is never larger than what a major has free in all, by summing spans along the list.  So the
early test of the free bytes refuses no request that has room, which is what
`GrowsOnlyWhenFull` needs.  `Grown` and `HasInserted` say what one block more in a list
does to every part of the invariant; they serve kmalloc forwards and
kfree backwards, and `EmptySums`, `EmptyBlocks` and `EmptySound` do so for an
empty major more or less.

**Only model-checked.**  Liveness (`RunnableRuns`, `ZombieCollected`), as the prover has
no rules for fairness and `ENABLED`.  Every safety property of the passing runs is
proved; those of the violation runs are false, and `NoDeletedInode` is proved where
no entry has an alias.  The prover has no induction over data;
where a definition is a recursive function (the path, the walk, the sum of the arguments'
sizes, the characters of a text, the chain of a file, the loops over it) the least
argument at which a claim would fail takes its place.  So no theorem says what such a
definition computes for every input, only what its steps preserve.

## 5. Findings

1. `proc.c:211` marks the point where it is "safe to tear down the old image".  The
   frames of the old stack and of old pages outside the new image are freed, but stay
   mapped in the page table the new program runs on (`addrspace_exec`: the very
   first exec).  For a forked process `user_stack` names one of two frames
   that need not lie in a row, and two in a row are freed.
2. `filesystem.c:347` says that unlink's eviction keeps lookups from "returning a
   pointer to a since-deleted inode/cluster".  It evicts by spelling, the FAT driver
   finds by the 8.3 form: a file made as `A` and removed as `a` stays in the cache
   (`vfs_alias`).
3. `fat32.c:807` says that a directory without a long enough run of free slots
   grows, so that the run lies in the new cluster.  The free slots before it
   keep their end mark, where the scan of `fat32_vfs_lookup` stops
   (`fat32.c:494`): the file is created and not found (`fat_grow`).

Observations that the further instances reproduce:

- (a) `scheduler.h:29` promises `parent_id` 0 to orphans; nothing resets it, and an
  orphan that ends stays a zombie for ever.
- (b) `pmalloc(0)` reports exhaustion and stops the machine; `sys_exec` of an empty
  file gets there.
- (c) `tty_input.c:194` waits "for a complete line", but a line that fills the
  buffer, or the ring, is delivered without its newline.
- (d) `tty_input.c:86` means to ignore Delete; its `~` is inserted.
- (e) `tty_input.c:129` redraws the rest of the line and moves the cursor back with
  backspaces, which `tty_putchar_raw` answers by erasing (`tty.c:223`): what is right
  of the cursor disappears from the screen, though not from the line.

Other limits of the code that the models show without contradicting a statement of
the repository: mapping over pages loses their frames (`OnlyOverwritingLoses`),
close frees a file under a forked process (`FdSound`'s condition), open files and
working directories outlive what unlink frees (`WildNeedsSharing`), and a path below a
device given to open with O_CREAT calls through a null pointer (`OpenMissing`).

## 6. Plan

In this order:

1. `Vfs` over an abstract `Fat` with clusters and contents, so that
   `LookupAgreesWithDisk` extends to what is read.
2. `init_pmm`'s walk over the memory map against a reference definition.

## 7. Not modelled

Drivers that only move bytes (serial, clock, disk ports), the boot
protocol, descriptor tables filled once at boot, string and formatting routines
and the user programs; fonts, colours and pixels.  `stripFS` is compiled, but nothing
mounts it.  Also outside the models: the one-instruction
window at boot in which `task_enqueue` publishes a task whose `next` is still NULL
(`scheduler.c:42-43`), floating-point registers (never saved), and faults of user
programs, which halt the machine.  Undefined behaviour is followed up to the step in
which it happens: the heap under a stray `kfree`, frames after the first
tear-down, `tty_write`'s terminal outside the array, `page_map` beyond its page, and the
parser's ninth number.
