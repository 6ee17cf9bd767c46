----------------------------- MODULE AddrSpace -----------------------------
(***************************************************************************)
(* Who owns which page frame: the page tables (mm/vmm.c), what fork, exec, *)
(* exit and waitpid do to them (kernel/sched/scheduler.c, syscall/proc.c,  *)
(* kernel/elf.c) and the memory system calls (syscall/mem.c).  A system    *)
(* call runs with interrupts off, so each is one action.                   *)
(*                                                                         *)
(* A page table is a tree of nodes <<k, i>>: node <<k, i>> covers the       *)
(* Span[k] pages from i * Span[k] on.  The root is <<Levels, 0>>, the leaf  *)
(* of page v is <<0, v>>, and tree maps the nodes that are present to their *)
(* frames.                                                                 *)
(* pmalloc never answers NULL (it stops the machine), so the paths for a   *)
(* failed allocation are dead and an action waits for the frames it needs. *)
(* Permissions, contents and the buffer exec reads the file into are left  *)
(* out.                                                                    *)
(***************************************************************************)
EXTENDS UserStack, FiniteSets

CONSTANTS
    MaxTasks,   \* task ids are 1..MaxTasks; 1 is sh
    MaxFrame,   \* the frames are 0..MaxFrame, and 0 is never given
    Levels, Fan,    \* of a page table: 4, and the 512 entries of a table
    Span,       \* the pages under a node of each level: 1, Fan, Fan * Fan ...
    Top,        \* USER_STACK_TOP_VADDR, in pages
    MmapBase,   \* MMAP_BASE, in pages
    Shell,      \* the image of sh
    Images,     \* the images that exec is asked for
    Programs,   \* the argument lists, [argv, envp]
    Places,     \* the pages mmap and munmap are asked for
    Lengths,    \* and how many, in one call
    Breaks,     \* the breaks brk is asked for
    MmapEnd,    \* bound: where mmap_base stops
    MaxCalls    \* bound: system calls of a run

\* An image has the pages of its segments, in order, and for each segment
\* whether the file holds all of its data.  The break is counted in half pages,
\* so that it need not be aligned.
ASSUME AddrSpaceAssumption ==
    /\ MaxTasks \in Nat \ {0} /\ MaxFrame \in Nat
    /\ Levels \in Nat \ {0} /\ Fan \in Nat \ {0, 1}
    /\ Span \in [0..Levels -> Nat \ {0}] /\ Span[0] = 1
    /\ \A k \in 1..Levels : Span[k] = Span[k - 1] * Fan
    /\ MmapBase \in Nat \ {0} /\ MaxCalls \in Nat

\* What programs ask for lies in the address space; a string has a size.
ASSUME AddressAssumption ==
    /\ Top \in Nat /\ Top > 2 /\ Top + 1 < Span[Levels]
    /\ Places \subseteq Nat \ {0} /\ Lengths \subseteq Nat \ {0}
    /\ \A v \in Places, n \in Lengths : v + n <= Span[Levels]
    /\ Breaks \subseteq 0..(2 * Span[Levels])
    /\ MmapEnd \in 0..Span[Levels]
    /\ \A img \in Images \cup {Shell} :
         /\ Len(img) \in Nat
         /\ \A i \in 1..Len(img) :
              img[i].pages \subseteq 1..(Span[Levels] - 1) /\ img[i].whole \in BOOLEAN
    /\ \A prog \in Programs : prog.argv \in Seq(Nat) /\ prog.envp \in Seq(Nat)

VARIABLES
    used,       \* the frames the page allocator has given away
    task,       \* the fields of each task_t
    torn,       \* some exec has torn an old image down
    calls

vars == <<used, task, torn, calls>>

Tasks  == 1..MaxTasks
Frames == 0..MaxFrame
Node   == (0..Levels) \X Nat
Root   == <<Levels, 0>>
Leaf(v) == <<0, v>>
Nobody == 0

LeavesOf(tree) == {n \in DOMAIN tree : n[1] = 0}
FramesIn(f) == {f[x] : x \in DOMAIN f}

-----------------------------------------------------------------------------
(* Frames.  A call's single-page allocations take the lowest free frames.  *)

\* The order in which a page table is walked.
Precedes(m, n) ==
    LET first(x) == x[2] * Span[x[1]]
    IN  first(m) < first(n) \/ (first(m) = first(n) /\ m[1] > n[1])

\* pmalloc finds n single pages; where it does not, the machine stops.
Room(taken, n) == Cardinality(Frames \ taken) >= n

\* pmalloc(1) for each of the nodes.
Fresh(taken, nodes) ==
    [n \in nodes |->
        LET before == Cardinality({m \in nodes : Precedes(m, n)})
        IN  CHOOSE f \in Frames \ taken : Cardinality((0..(f - 1)) \ taken) = before]

\* The runs pmalloc(pages) chooses from, and the one it takes.
RunsOf(taken, pages) ==
    {b \in Frames : \A i \in 0..(pages - 1) : b + i \in Frames \ taken}
FirstRun(taken, pages) ==
    CHOOSE b \in RunsOf(taken, pages) : \A c \in RunsOf(taken, pages) : b <= c
Run(b, pages) == b..(b + pages - 1)

-----------------------------------------------------------------------------
(* Page tables.                                                            *)

\* The tables on the way to page v.
TablesTo(v) == {<<k, v \div Span[k]>> : k \in 1..Levels}

\* The nodes vmm_map_page_in and ensure_table want a new frame for when each of
\* the pages gets a new frame: its leaf, present or not, and the missing tables.
Wanted(tree, pages) ==
    {Leaf(v) : v \in pages} \cup ((UNION {TablesTo(v) : v \in pages}) \ DOMAIN tree)

Override(tree, new) ==
    [n \in DOMAIN tree \cup DOMAIN new |-> IF n \in DOMAIN new THEN new[n] ELSE tree[n]]

\* Mutant: unmapping frees the tables that lead to the page as well.
WithoutTables(tree, pages) ==
    [n \in DOMAIN tree \ (UNION {TablesTo(v) \ {Root} : v \in pages}
                            \cup {Leaf(v) : v \in pages}) |-> tree[n]]

\* What vmm_unmap_page_in leaves after each of the pages: the tables stay.
Without(tree, pages) ==
    [n \in DOMAIN tree \ {Leaf(v) : v \in pages} |-> tree[n]]

\* The frames it hands back: those of the pages that were mapped.
Unmapped(tree, pages) ==
    {tree[n] : n \in DOMAIN tree \cap {Leaf(v) : v \in pages}}

\* vmm_get_pte, as an address: 0 where nothing is mapped.
FrameAt(tree, v) == IF Leaf(v) \in DOMAIN tree THEN tree[Leaf(v)] ELSE 0

\* vmm_free_user_page_table gives back every leaf and every table, to the root.
TreeFrames(tree) == FramesIn(tree)

-----------------------------------------------------------------------------
(* ELF images.                                                             *)

\* elf_load goes through the segments up to the first whose data the file does
\* not hold, which it has mapped by then.
LoadedSegments(img) ==
    {i \in 1..Len(img) : \A j \in 1..(i - 1) : img[j].whole}
LoadedPages(img) == UNION {img[i].pages : i \in LoadedSegments(img)}

\* elf_validate and the first pass: there is something to load.
Loadable(img) == \E i \in 1..Len(img) : img[i].pages # {}
Loads(img) == \A i \in 1..Len(img) : img[i].whole

\* end_addr, in half pages: the end of the last page.
EndOf(img) ==
    LET pages == UNION {img[i].pages : i \in 1..Len(img)}
    IN  2 * ((CHOOSE v \in pages : \A w \in pages : w <= v) + 1)

\* page_map: the pages of the image and the frames they were given.
PageMap(new, pages) == [v \in pages |-> new[Leaf(v)]]

-----------------------------------------------------------------------------
(* Tasks.                                                                  *)

NoTask ==
    [state |-> "none", parent |-> Nobody, tree |-> <<>>, code |-> <<>>, meta |-> 0,
     user_stack |-> 0, kstack |-> 0, self |-> 0, brk_start |-> 0, brk_current |-> 0,
     mmap_base |-> 0, entry |-> UserStackOf(<<>>, <<>>)]

\* Everything a task holds a frame for: its page table and leaves, and beside
\* that its page_map, its kernel stack (one frame stands for its pages), and its
\* task_t, which for sh is on the heap.
Meta   == <<-1, 0>>
Kstack == <<-1, 1>>
Self   == <<-1, 2>>

Beside(t) ==
    [x \in (IF t.state = "live" THEN {Meta} ELSE {})
             \cup (IF t.state \in {"live", "zombie"} THEN {Kstack} ELSE {})
             \cup (IF t.state \in {"live", "zombie"} /\ t.self # 0 THEN {Self} ELSE {}) |->
        CASE x = Meta -> t.meta [] x = Kstack -> t.kstack [] x = Self -> t.self]

Held(t) == Override(t.tree, Beside(t))

\* The leaves of a stack of two pages, from page v and frame b on.
StackLeaves(v, b) == [n \in {Leaf(v), Leaf(v + 1)} |-> b + n[2] - v]

\* The tables vmm_map_page_in still has to allocate for a stack at page v.
StackTables(tree, v) == Wanted(tree, {v, v + 1}) \ {Leaf(v), Leaf(v + 1)}

\* create_elf_task_args for sh: its image and page_map, its kernel stack, and a
\* stack of two pages from Top on.
Init ==
    LET meta  == FirstRun({0}, 1)
        image == Fresh({0, meta}, Wanted(<<>>, LoadedPages(Shell)))
        kst   == FirstRun({0, meta} \cup FramesIn(image), 1)
        u1    == {0, meta, kst} \cup FramesIn(image)
        stk   == FirstRun(u1, 2)
        above == Fresh(u1 \cup Run(stk, 2), StackTables(image, Top))
    IN  /\ Loadable(Shell)
        /\ Room({0}, Cardinality(Wanted(<<>>, LoadedPages(Shell))) + 2)
        /\ RunsOf(u1, 2) # {}
        /\ Room(u1 \cup Run(stk, 2), Cardinality(StackTables(image, Top)))
        /\ used = u1 \cup Run(stk, 2) \cup FramesIn(above)
        /\ task = [t \in Tasks |->
             IF t # 1 THEN NoTask
             ELSE [NoTask EXCEPT !.state = "live", !.meta = meta,
                     !.tree = Override(Override(image, above), StackLeaves(Top, stk)),
                     !.code = PageMap(image, LoadedPages(Shell)),
                     !.user_stack = stk, !.kstack = kst,
                     !.brk_start = EndOf(Shell), !.brk_current = EndOf(Shell)]]
        /\ torn = FALSE
        /\ calls = 0

\* Types, and what makes a page table a tree: a node hangs from the one above it.
\* The break of a process is never below its start.
TypeOK ==
    /\ used \subseteq Frames
    /\ \A t \in Tasks :
         /\ task[t].state \in {"none", "live", "zombie", "gone"}
         /\ DOMAIN task[t].tree \subseteq Node
         /\ \A n \in DOMAIN task[t].tree : n = Root \/ <<n[1] + 1, n[2] \div Fan>> \in DOMAIN task[t].tree
         /\ task[t].brk_start <= task[t].brk_current
    /\ torn \in BOOLEAN
    /\ calls \in 0..MaxCalls

-----------------------------------------------------------------------------
\* A system call of task p, one of the bounded number of a run.  A run ends with
\* its first tear-down: the frames that frees may still be mapped (TearDownSafe),
\* and what becomes of a process in somebody else's frames is undefined.
Call(p) ==
    /\ task[p].state = "live" /\ ~torn
    /\ calls < MaxCalls
    /\ calls' = calls + 1

\* Mutant: the child's table names the parent's frames.
CloneShares(taken, tree) == tree

\* vmm_clone_user_page_table: a new frame for every table and every leaf.
Clone(taken, tree) == Fresh(taken, DOMAIN tree)

\* sys_fork, fork_current_task.
Fork(p) ==
    /\ Call(p)
    /\ Room(used, Cardinality(DOMAIN task[p].tree) + 3)
    /\ \E c \in Tasks :
         /\ task[c].state = "none"
         /\ \A d \in Tasks : task[d].state = "none" => c <= d
         /\ LET tree == Clone(used, task[p].tree)
                u1   == used \cup FramesIn(tree)
                self == FirstRun(u1, 1)
                kst  == FirstRun(u1 \cup {self}, 1)
                meta == FirstRun(u1 \cup {self, kst}, 1)
            IN  /\ used' = u1 \cup {self, kst, meta}
                /\ task' = [task EXCEPT ![c] =
                     [task[p] EXCEPT !.parent = p, !.tree = tree, !.self = self,
                        !.kstack = kst, !.meta = meta,
                        !.code = [v \in DOMAIN task[p].code |-> FrameAt(tree, v)],
                        !.user_stack = FrameAt(tree, Top)]]
    /\ UNCHANGED torn

\* Mutant: elf_free gives back the pages it lists, but leaves them mapped.
ElfFreePages(map, new) == {map} \cup FramesIn(new)

\* elf_free gives back the page_map only.
ElfFree(map, new) == {map}

\* sys_exec fails after elf_load_into has begun to map the new image into the
\* live table: the file is cut short, or the arguments do not fit the stack,
\* whose two pages the failing path gives back.
ExecFails(p, img, prog) ==
    /\ Call(p)
    /\ Loadable(img) /\ ~(Loads(img) /\ StackFits(prog.argv, prog.envp))
    /\ Room(used, Cardinality(Wanted(task[p].tree, LoadedPages(img))) + 1)
    /\ LET map == FirstRun(used, 1)
           new == Fresh(used \cup {map}, Wanted(task[p].tree, LoadedPages(img)))
       IN  /\ used' = (used \cup {map} \cup FramesIn(new)) \ ElfFree(map, new)
           /\ task' = [task EXCEPT ![p].tree = Override(@, new)]
    /\ UNCHANGED torn

\* Mutant: the page_map of the new image is freed with that of the old one.
TornDownTwice(t, map) ==
    FramesIn(t.code) \cup {t.meta, map} \cup Run(t.user_stack, 2)

\* What sys_exec frees of the old image: the frames its page_map lists, the
\* page_map, and user_stack as two pages in a row.
TornDown(t, map) == FramesIn(t.code) \cup {t.meta} \cup Run(t.user_stack, 2)

\* sys_exec succeeds.  The heap, the mappings, mmap_base and the leaves of the
\* old stack stay.
ExecCommits(p, img, prog) ==
    /\ Call(p)
    /\ Loadable(img) /\ Loads(img) /\ StackFits(prog.argv, prog.envp)
    /\ Room(used, Cardinality(Wanted(task[p].tree, LoadedPages(img))) + 1)
    /\ LET map  == FirstRun(used, 1)
           new  == Fresh(used \cup {map}, Wanted(task[p].tree, LoadedPages(img)))
           tree == Override(task[p].tree, new)
           u1   == used \cup {map} \cup FramesIn(new)
           stk  == FirstRun(u1, 2)
           way  == Fresh(u1 \cup Run(stk, 2), StackTables(tree, Top - 2))
       IN  /\ RunsOf(u1, 2) # {}
           /\ Room(u1 \cup Run(stk, 2), Cardinality(StackTables(tree, Top - 2)))
           /\ used' = (u1 \cup Run(stk, 2) \cup FramesIn(way)) \ TornDown(task[p], map)
           /\ task' = [task EXCEPT ![p] =
                [@ EXCEPT !.tree = Override(Override(tree, way), StackLeaves(Top - 2, stk)),
                          !.code = PageMap(new, LoadedPages(img)), !.meta = map,
                          !.user_stack = stk,
                          !.brk_start = EndOf(img), !.brk_current = EndOf(img),
                          !.entry = UserStackOf(prog.argv, prog.envp)]]
    /\ torn' = TRUE

\* PAGE_ALIGN_UP of a break, as the page it ends before.
AlignUp(addr) == (addr + 1) \div 2

\* The pages a break that moves from old up to new takes in.
PagesBetween(old, new) == AlignUp(old)..(AlignUp(new) - 1)

\* map_pages for task p: its fields become t, and each of the pages gets a new
\* frame, mapped before or not.
MapPages(p, t, pages) ==
    LET new == Fresh(used, Wanted(t.tree, pages))
    IN  /\ Room(used, Cardinality(Wanted(t.tree, pages)))
        /\ used' = used \cup FramesIn(new)
        /\ task' = [task EXCEPT ![p] = [t EXCEPT !.tree = Override(t.tree, new)]]

\* unmap_pages for task p, likewise.
UnmapPages(p, t, pages) ==
    /\ used' = used \ Unmapped(t.tree, pages)
    /\ task' = [task EXCEPT ![p] = [t EXCEPT !.tree = Without(t.tree, pages)]]

\* sys_brk: an address below brk_start changes nothing.
Brk(p, addr) ==
    LET old == task[p].brk_current
        t   == [task[p] EXCEPT !.brk_current = addr]
    IN  /\ Call(p)
        /\ addr >= task[p].brk_start
        /\ \/ addr > old /\ MapPages(p, t, PagesBetween(old, addr))
           \/ addr < old /\ UnmapPages(p, t, PagesBetween(addr, old))
        /\ UNCHANGED torn

\* sys_mmap with MAP_FIXED or a hint: the pages at that address.
MmapAt(p, v, n) ==
    /\ Call(p)
    /\ MapPages(p, task[p], v..(v + n - 1))
    /\ UNCHANGED torn

\* sys_mmap without an address: the pages at mmap_base, which moves up past them.
MmapAnywhere(p, n) ==
    LET base == IF task[p].mmap_base = 0 THEN MmapBase ELSE task[p].mmap_base IN
    /\ Call(p)
    /\ base + n <= MmapEnd
    /\ MapPages(p, [task[p] EXCEPT !.mmap_base = base + n], base..(base + n - 1))
    /\ UNCHANGED torn

\* sys_munmap.
Munmap(p, v, n) ==
    /\ Call(p)
    /\ UnmapPages(p, task[p], v..(v + n - 1))
    /\ UNCHANGED torn

\* Mutant: exit leaves the page_map behind.
ExitFramesTree(t) == TreeFrames(t.tree)

\* What sys_exit gives back: the page_map and the whole page table.
ExitFrames(t) == {t.meta} \cup TreeFrames(t.tree)

\* sys_exit; the kernel stack and the task_t wait for waitpid.
Exit(p) ==
    /\ Call(p)
    /\ used' = used \ ExitFrames(task[p])
    /\ task' = [task EXCEPT ![p].state = "zombie", ![p].tree = <<>>, ![p].code = <<>>,
                            ![p].user_stack = 0]
    /\ UNCHANGED torn

\* sys_waitpid on a child that has ended.
Collect(p, c) ==
    /\ Call(p)
    /\ task[c].state = "zombie" /\ task[c].parent = p
    /\ used' = used \ {task[c].kstack, task[c].self}
    /\ task' = [task EXCEPT ![c].state = "gone"]
    /\ UNCHANGED torn

Next == \E p \in Tasks :
    \/ Fork(p)
    \/ \E img \in Images, prog \in Programs : ExecFails(p, img, prog)
    \/ \E img \in Images, prog \in Programs : ExecCommits(p, img, prog)
    \/ \E addr \in Breaks : Brk(p, addr)
    \/ \E v \in Places, n \in Lengths : MmapAt(p, v, n)
    \/ \E n \in Lengths : MmapAnywhere(p, n)
    \/ \E v \in Places, n \in Lengths : Munmap(p, v, n)
    \/ Exit(p)
    \/ \E c \in Tasks : Collect(p, c)

Spec == Init /\ [][Next]_vars

-----------------------------------------------------------------------------
(* Properties.                                                             *)

\* The tear-down is safe, as the comment at sys_exec's point of no return has
\* it (proc.c:211): afterwards, no task holds a frame that the allocator thinks
\* is free.
TearDownSafe ==
    \A t \in Tasks : FramesIn(Held(task[t])) \subseteq used

\* Until an exec tears an image down, nothing dangles: no page table, page_map,
\* kernel stack or task_t is in a frame that is free, whatever was forked,
\* mapped over, unmapped, exited or failed to exec before.
NoDangling == ~torn => TearDownSafe

\* Until then no frame has two holders: not two pages of one process, a page
\* and a table, nor two processes.
NothingShared ==
    ~torn =>
      LET held == [t \in Tasks |-> Held(task[t])] IN
      \A t \in Tasks :
        /\ Cardinality(FramesIn(held[t])) = Cardinality(DOMAIN held[t])
        /\ \A u \in Tasks \ {t} : FramesIn(held[t]) \cap FramesIn(held[u]) = {}

\* The frames that are given away and nobody holds.
Lost == used \ ({0} \cup UNION {FramesIn(Held(task[t])) : t \in Tasks})

\* A frame is lost only when a page that was mapped to it is mapped to another
\* (mmap with an address, brk over a mapping, an exec): fork, exit, waitpid and
\* munmap account for every frame.
OnlyOverwritingLoses ==
    [][~torn' =>
         \A f \in Lost' \ Lost :
           \E t \in Tasks : \E n \in LeavesOf(task[t].tree) :
             /\ task[t].tree[n] = f
             /\ n \in DOMAIN task'[t].tree /\ task'[t].tree[n] # f]_vars

\* The process whose page_map and stack are as the page table has them.
TrueFields(t) ==
    /\ \A v \in DOMAIN t.code : Leaf(v) \in DOMAIN t.tree /\ t.tree[Leaf(v)] = t.code[v]
    /\ {t.user_stack, t.user_stack + 1} \subseteq {t.tree[n] : n \in LeavesOf(t.tree)}

\* The first exec of such a process takes no frame from another process, from
\* its own tables, or from the image it has just loaded.
CommitFreesOwn ==
    [][\A p \in Tasks :
         torn' /\ ~torn /\ task'[p] # task[p] /\ TrueFields(task[p]) =>
           /\ \A t \in Tasks \ {p} : FramesIn(Held(task[t])) \subseteq used'
           /\ FramesIn(task'[p].code) \cup {task'[p].meta} \subseteq used'
           /\ Run(task'[p].user_stack, 2) \subseteq used'
           /\ \A n \in DOMAIN task'[p].tree \ LeavesOf(task'[p].tree) :
                task'[p].tree[n] \in used']_vars

\* A program starts with an aligned stack pointer at argc, argv next to it, and
\* the arrays below the strings.
EntrySound ==
    \A t \in Tasks :
      LET e == task[t].entry IN
        /\ e.rsp % 16 = 0 /\ e.rsp >= 0 /\ e.argv = e.rsp + 8
        /\ e.envp >= e.argv + 8 * e.argc + 8
        /\ e.envp + 8 <= e.strings /\ e.strings <= StackBytes
=============================================================================
