-------------------------------- MODULE Pmm --------------------------------
(***************************************************************************)
(* The physical page allocator (mm/pmm.c) and its users: the kernel, which *)
(* allocates and frees with interrupts off, and kmain, which frees the     *)
(* buffer it loaded sh from (init/main.c) after sh has been enqueued, with *)
(* interrupts on.  pmalloc disables interrupts, pmm_free_pages does not,   *)
(* so sh's system calls may allocate between two steps of kmain's freeing. *)
(*                                                                         *)
(* `&=` on a bitmap byte and `+=` on free_mem are each one instruction in  *)
(* the kernel's build (gcc -O2, x86_64): an interrupt comes between them,  *)
(* never inside one.                                                       *)
(***************************************************************************)
EXTENDS Integers, FiniteSets

CONSTANTS
    MaxPages,   \* highest_page / PAGE_SIZE
    LastBit,    \* the last bit of the bitmap, which is whole pages long
    Usable,     \* the page frames init_pmm finds usable
    Sizes,      \* the page counts that pmalloc is asked for
    Wrap        \* 2^32 / PAGE_SIZE: free_mem, a uint32_t, in pages

\* The bitmap has at least one padding bit, which init_pmm leaves set: the
\* search for a run of frames ends there and never reads past the bitmap.
ASSUME PmmAssumption ==
    /\ MaxPages \in Nat \ {0} /\ LastBit \in Nat /\ LastBit >= MaxPages
    /\ Usable \subseteq 0..(MaxPages - 1)
    /\ Sizes \subseteq Nat
    /\ Wrap \in Nat \ {0}

VARIABLES
    taken,      \* the set bits of pmm_bitmap
    free_mem,   \* in pages
    held,       \* the runs of frames pmalloc has given to the kernel
    buffer,     \* the run kmain reads sh into
    cleared,    \* how many pages of it kmain's pmm_free_pages has cleared
    loader,     \* kmain before, with and after its buffer
    refused     \* the page count for which pmalloc ran out of memory

vars == <<taken, free_mem, held, buffer, cleared, loader, refused>>

Frames == 0..(MaxPages - 1)
Runs   == [base : Frames, pages : Sizes]
NoRun  == [base |-> 0, pages |-> 0]
NoSize == -1

\* The frames of a run.
Pages(run) == run.base..(run.base + run.pages - 1)

\* The frames of kmain's buffer that it has not given back yet.
Buffered == (buffer.base + cleared)..(buffer.base + buffer.pages - 1)

\* Types; the count of memory is modulo Wrap, and a free under way has a buffer.
TypeOK ==
    /\ taken \subseteq 0..LastBit
    /\ free_mem \in 0..(Wrap - 1)
    /\ held \subseteq Runs
    /\ buffer \in Runs \cup {NoRun}
    /\ cleared \in 0..buffer.pages
    /\ loader \in {"start", "loaded", "done"}
    /\ refused \in Sizes \cup {NoSize}

\* What init_pmm leaves: every bit set but those of the usable frames.
Init ==
    /\ taken = (0..LastBit) \ Usable
    /\ free_mem = Cardinality(Usable) % Wrap
    /\ held = {}
    /\ buffer = NoRun
    /\ cleared = 0
    /\ loader = "start"
    /\ refused = NoSize

-----------------------------------------------------------------------------
\* Mutant: the loop gives the run away one page before its end.
FitsShort(i, n) == n > 0 /\ \A j \in 0..(n - 2) : i + j \notin taken

\* The inner loop of pmalloc meets no set bit and comes to its last round;
\* for no pages at all there is no such round.
Fits(i, n) == n > 0 /\ \A j \in 0..(n - 1) : i + j \notin taken

\* pmm_alloc_pages on the first frame from which n frames are free.
Pmalloc(run) ==
    /\ refused = NoSize
    /\ Fits(run.base, run.pages)
    /\ \A i \in 0..(run.base - 1) : ~Fits(i, run.pages)
    /\ taken' = taken \cup Pages(run)
    /\ free_mem' = (free_mem - run.pages) % Wrap

Alloc(run) ==
    /\ Pmalloc(run)
    /\ held' = held \cup {run}
    /\ UNCHANGED <<buffer, cleared, loader, refused>>

\* Mutant: the search leaves out the last frame.
ExhaustedEarly(n) ==
    /\ refused = NoSize
    /\ \A i \in 0..(MaxPages - 2) : ~Fits(i, n)
    /\ refused' = n
    /\ UNCHANGED <<taken, free_mem, held, buffer, cleared, loader>>

\* "Ran out of memory! Halting!": pmalloc does not return.
Exhausted(n) ==
    /\ refused = NoSize
    /\ \A i \in Frames : ~Fits(i, n)
    /\ refused' = n
    /\ UNCHANGED <<taken, free_mem, held, buffer, cleared, loader>>

\* Mutant: the loop ends a page early.
ReleaseShort(run) ==
    /\ refused = NoSize
    /\ run \in held
    /\ taken' = taken \ (run.base..(run.base + run.pages - 2))
    /\ free_mem' = (free_mem + run.pages) % Wrap
    /\ held' = held \ {run}
    /\ UNCHANGED <<buffer, cleared, loader, refused>>

\* pmm_free_pages, called with interrupts off.
Release(run) ==
    /\ refused = NoSize
    /\ run \in held
    /\ taken' = taken \ Pages(run)
    /\ free_mem' = (free_mem + run.pages) % Wrap
    /\ held' = held \ {run}
    /\ UNCHANGED <<buffer, cleared, loader, refused>>

-----------------------------------------------------------------------------
\* kmain: run_elf_from_initrd's buffer, and pmm_free_pages on it step by
\* step while other tasks run.
LoaderAlloc(run) ==
    /\ loader = "start"
    /\ Pmalloc(run)
    /\ buffer' = run
    /\ loader' = "loaded"
    /\ UNCHANGED <<held, cleared, refused>>

\* Mutant: `<=` for `<` in the loop.
LoaderClearPast ==
    /\ refused = NoSize
    /\ loader = "loaded"
    /\ cleared <= buffer.pages
    /\ taken' = taken \ {buffer.base + cleared}
    /\ cleared' = cleared + 1
    /\ UNCHANGED <<free_mem, held, buffer, loader, refused>>

LoaderClear ==
    /\ refused = NoSize
    /\ loader = "loaded"
    /\ cleared < buffer.pages
    /\ taken' = taken \ {buffer.base + cleared}
    /\ cleared' = cleared + 1
    /\ UNCHANGED <<free_mem, held, buffer, loader, refused>>

\* Mutant: the pages are counted back in one by one, the last one twice.
LoaderCountTwice ==
    /\ refused = NoSize
    /\ loader = "loaded"
    /\ cleared = buffer.pages
    /\ free_mem' = (free_mem + buffer.pages + 1) % Wrap
    /\ buffer' = NoRun
    /\ cleared' = 0
    /\ loader' = "done"
    /\ UNCHANGED <<taken, held, refused>>

LoaderCount ==
    /\ refused = NoSize
    /\ loader = "loaded"
    /\ cleared = buffer.pages
    /\ free_mem' = (free_mem + buffer.pages) % Wrap
    /\ buffer' = NoRun
    /\ cleared' = 0
    /\ loader' = "done"
    /\ UNCHANGED <<taken, held, refused>>

Next ==
    \/ \E run \in Runs : Alloc(run) \/ Release(run) \/ LoaderAlloc(run)
    \/ \E n \in Sizes : Exhausted(n)
    \/ LoaderClear
    \/ LoaderCount

Spec == Init /\ [][Next]_vars

-----------------------------------------------------------------------------
\* The frames that belong to somebody.
Owned == (UNION {Pages(run) : run \in held}) \cup Buffered

\* No frame is ever given out twice: what the kernel holds and what kmain
\* has not given back yet are usable frames, and disjoint.
RunsDisjoint ==
    /\ \A r, s \in held : r # s => Pages(r) \cap Pages(s) = {}
    /\ \A r \in held : Pages(r) \cap Buffered = {}
    /\ Owned \subseteq Usable

\* No frame is lost: a usable frame whose bit is set belongs to somebody,
\* and whatever belongs to somebody has its bit set.
NoLeak == taken \cap Usable = Owned

\* free_mem counts the clear bits, except those that a pmm_free_pages under
\* way has cleared and not yet counted; the count wraps at 4 GiB.
FreeMemExact ==
    free_mem = (Cardinality(Usable \ taken) - cleared) % Wrap

\* pmalloc halts the machine only if the frames that nobody owns hold no
\* run of the length asked for.
HaltJustified ==
    [][refused = NoSize /\ refused' # NoSize =>
        \A i \in Frames : ~(i..(i + refused' - 1) \subseteq Usable \ Owned)]_vars
=============================================================================
