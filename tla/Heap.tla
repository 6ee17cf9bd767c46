-------------------------------- MODULE Heap --------------------------------
(***************************************************************************)
(* The kernel's heap (mm/liballoc.c): majors, runs of pages from pmalloc,  *)
(* in a list from l_memRoot; in each of them a list of minors, the headers *)
(* of the blocks handed out, by rising address.  The lists are sequences.  *)
(*                                                                         *)
(* kmalloc, kfree and krealloc hold one lock from end to end, nobody is    *)
(* switched away from while it holds it, and no interrupt handler uses the *)
(* heap: each call is an action.  The calls of the kernel (a block is freed *)
(* once, and nothing is written outside its block) are those of `held`; a   *)
(* file_t that fork shares is the exception, and module Vfs's subject.     *)
(***************************************************************************)
EXTENDS Integers, Sequences, FiniteSetsExt

CONSTANTS
    Pages,      \* the pages of memory, by number
    PageSize, PageCount,        \* l_pageSize, l_pageCount
    MajorHead, MinorHead,       \* the sizes of the two headers
    Alignment,                  \* ALIGNMENT and ALIGN_INFO, which are the same
    Requests,   \* the sizes asked for
    MaxHeld     \* bound: blocks in use at one time

ASSUME HeapAssumption ==
    /\ Pages \subseteq Nat \ {0}
    /\ {PageSize, PageCount, Alignment} \subseteq Nat \ {0}
    /\ {MajorHead, MinorHead, MaxHeld} \subseteq Nat /\ Requests \subseteq Nat

VARIABLES
    majors,     \* from l_memRoot on: [page, pages, usage, minors]
    l_bestBet,  \* the first page of a major, or Null
    l_inuse, l_allocated,
    held,       \* ghost: what callers hold, [ptr, size]
    others      \* the pages of pmalloc's other callers

vars == <<majors, l_bestBet, l_inuse, l_allocated, held, others>>

Null == 0

Init ==
    /\ majors = <<>> /\ l_bestBet = Null
    /\ l_inuse = 0 /\ l_allocated = 0
    /\ held = {} /\ others = {}

-----------------------------------------------------------------------------
(* Majors and the space in them.                                           *)

PagesOf(m) == m.page..(m.page + m.pages - 1)
Taken == others \cup UNION {PagesOf(majors[i]) : i \in 1..Len(majors)}

Start(m) == m.page * PageSize
Bytes(m) == m.pages * PageSize
FreeIn(m) == Bytes(m) - m.usage

\* pmalloc's lowest run of n free pages; there is none if the machine halts.
RunsOf(n) == {p \in Pages : p..(p + n - 1) \subseteq Pages \ Taken}

\* allocate_new_page: the major for a block of that size.
PagesFor(size) == Max({PageCount, (size + MajorHead + MinorHead + PageSize - 1) \div PageSize})
NewMajor(size) == [page |-> Min(RunsOf(PagesFor(size))), pages |-> PagesFor(size),
                   usage |-> MajorHead, minors |-> <<>>]

\* The space behind minor k of a major, or in front of its first one if k is 0.
GapStart(m, k) == IF k = 0 THEN Start(m) + MajorHead
                  ELSE m.minors[k].at + MinorHead + m.minors[k].size
GapEnd(m, k)   == IF k = Len(m.minors) THEN Start(m) + Bytes(m) ELSE m.minors[k + 1].at

\* Mutant: the header of the new minor is not counted.
GapsHeadless(m, size) == {k \in 0..Len(m.minors) : GapEnd(m, k) - GapStart(m, k) >= size}

\* The gaps that hold a block of that size and its header.
Gaps(m, size) == {k \in 0..Len(m.minors) : GapEnd(m, k) - GapStart(m, k) >= size + MinorHead}

\* Enough space in all, and in one piece.
HasRoom(m, size) == FreeIn(m) >= size + MinorHead /\ Gaps(m, size) # {}

-----------------------------------------------------------------------------
(* kmalloc.                                                                *)

\* A block has room for its alignment, and for the byte that records it.
Padded(req) == req + 2 * Alignment

\* ALIGN: what the caller gets of the block behind a minor's header.
ShiftAt(at) == LET p == at + MinorHead + Alignment
               IN  Alignment + ((Alignment - (p % Alignment)) % Alignment)
Pointer(minor) == minor.at + MinorHead + minor.shift

Minor(at, req) == [at |-> at, size |-> Padded(req), req |-> req, shift |-> ShiftAt(at)]

BestBetAt == CHOOSE i \in 1..Len(majors) : majors[i].page = l_bestBet
BestFree  == IF l_bestBet = Null THEN 0 ELSE FreeIn(majors[BestBetAt])
FromBest(size) == BestFree > size + MinorHead

\* Mutant: what lies before the best bet is never tried.
OrderFromBest(size) == [i \in 1..(Len(majors) - (IF FromBest(size) THEN BestBetAt ELSE 1) + 1) |->
                          i + (IF FromBest(size) THEN BestBetAt ELSE 1) - 1]

\* The majors in the order in which kmalloc looks at them: from the best bet to
\* the end and then all from the root, or just the latter.
Order(size) ==
    LET all == [i \in 1..Len(majors) |-> i]
    IN  IF FromBest(size) THEN SubSeq(all, BestBetAt, Len(all)) \o all ELSE all

\* l_bestBet after it has looked at these: each that has more free space than
\* the best so far becomes it.
Better(best, m) == IF best.free < FreeIn(m) THEN [page |-> m.page, free |-> FreeIn(m)] ELSE best
BetAfter(seen) ==
    LET best[n \in 0..Len(seen)] ==
          IF n = 0 THEN [page |-> l_bestBet, free |-> BestFree] ELSE Better(best[n - 1], seen[n])
    IN  best[Len(seen)].page

\* A block of req bytes behind minor k.
Inserted(m, k, req) ==
    [m EXCEPT !.minors = SubSeq(@, 1, k) \o <<Minor(GapStart(m, k), req)>>
                                         \o SubSeq(@, k + 1, Len(@)),
              !.usage = @ + Padded(req) + MinorHead]

\* The majors in which kmalloc(req) puts the block and the best bet it leaves:
\* the first gap of the first major with room, or a new major at the end.
Placed(req) ==
    LET size  == Padded(req)
        order == Order(size)
        hits  == {k \in 1..Len(order) : HasRoom(majors[order[k]], size)}
        hit   == order[Min(hits)]
        new   == NewMajor(size)
        last  == majors[Len(majors)]
        looks == [k \in 1..Len(order) |-> majors[order[k]]]
        \* The loop looks at a new major only if it is the first, or if the last
        \* had the space, but in pieces.
        sees  == IF majors = <<>> \/ FreeIn(last) >= size + MinorHead THEN Append(looks, new)
                 ELSE looks
    IN  IF hits # {}
        THEN [list |-> [majors EXCEPT ![hit] = Inserted(@, Min(Gaps(@, size)), req)],
              bet |-> BetAfter(SubSeq(looks, 1, Min(hits))),
              at |-> GapStart(majors[hit], Min(Gaps(majors[hit], size))), more |-> 0]
        ELSE [list |-> Append(majors, Inserted(new, 0, req)), bet |-> BetAfter(sees),
              at |-> GapStart(new, 0), more |-> Bytes(new)]

\* pmalloc finds the pages, if any are needed, or the machine halts.
CanPlace(req) ==
    \/ \E k \in 1..Len(Order(Padded(req))) : HasRoom(majors[Order(Padded(req))[k]], Padded(req))
    \/ RunsOf(PagesFor(Padded(req))) # {}

Malloc(req) ==
    /\ Cardinality(held) < MaxHeld
    /\ CanPlace(req)
    /\ LET p == Placed(req) IN
       /\ majors' = p.list /\ l_bestBet' = p.bet
       /\ l_inuse' = l_inuse + Padded(req)
       /\ l_allocated' = l_allocated + p.more
       /\ held' = held \cup {[ptr |-> Pointer(Minor(p.at, req)), size |-> req]}
    /\ UNCHANGED others

-----------------------------------------------------------------------------
(* kfree.                                                                  *)

\* UNALIGN: the major and the minor of a pointer.
Place(list, ptr) ==
    CHOOSE p \in UNION {{i} \X (1..Len(list[i].minors)) : i \in 1..Len(list)} :
      Pointer(list[p[1]].minors[p[2]]) = ptr

\* The major without its minor k.
Without(m, k) == [m EXCEPT !.usage = @ - (m.minors[k].size + MinorHead),
                           !.minors = SubSeq(@, 1, k - 1) \o SubSeq(@, k + 1, Len(@))]

\* Mutant: the best bet stays when its pages go.
FreedKeepsBet(list, bet, ptr) ==
    LET i == Place(list, ptr)[1]
        m == Without(list[i], Place(list, ptr)[2])
    IN  IF m.minors = <<>>
        THEN [list |-> SubSeq(list, 1, i - 1) \o SubSeq(list, i + 1, Len(list)), bet |-> bet]
        ELSE [list |-> [list EXCEPT ![i] = m], bet |-> bet]

\* The majors and the best bet after kfree(ptr): a major without minors goes back
\* to pmalloc; another one may have become the best bet.
Freed(list, bet, ptr) ==
    LET i == Place(list, ptr)[1]
        m == Without(list[i], Place(list, ptr)[2])
        after  == [list EXCEPT ![i] = m]
        better == \E j \in 1..Len(after) : after[j].page = bet /\ FreeIn(m) > FreeIn(after[j])
    IN  IF m.minors = <<>>
        THEN [list |-> SubSeq(list, 1, i - 1) \o SubSeq(list, i + 1, Len(list)),
              bet |-> IF bet = m.page THEN Null ELSE bet]
        ELSE [list |-> after, bet |-> IF better THEN m.page ELSE bet]

MinorOf(list, ptr) == list[Place(list, ptr)[1]].minors[Place(list, ptr)[2]]

\* What the major of ptr gives back, if ptr is its last block.
Returned(list, ptr) ==
    LET m == list[Place(list, ptr)[1]] IN IF Len(m.minors) = 1 THEN Bytes(m) ELSE 0

Free(b) ==
    /\ b \in held
    /\ LET f == Freed(majors, l_bestBet, b.ptr) IN majors' = f.list /\ l_bestBet' = f.bet
    /\ l_inuse' = l_inuse - MinorOf(majors, b.ptr).size
    /\ l_allocated' = l_allocated - Returned(majors, b.ptr)
    /\ held' = held \ {b}
    /\ UNCHANGED others

-----------------------------------------------------------------------------
(* krealloc.                                                               *)

\* Not more than what was asked for: the block stays and counts as smaller.
ReallocInPlace(b, size) ==
    LET p == Place(majors, b.ptr) IN
    /\ b \in held
    /\ 0 < size /\ size <= MinorOf(majors, b.ptr).req
    /\ majors' = [majors EXCEPT ![p[1]].minors[p[2]].req = size]
    /\ held' = (held \ {b}) \cup {[b EXCEPT !.size = size]}
    /\ UNCHANGED <<l_bestBet, l_inuse, l_allocated, others>>

\* More: a new block, the copy, and kfree of the old block.
ReallocMoves(b, size) ==
    /\ b \in held
    /\ size > MinorOf(majors, b.ptr).req /\ CanPlace(size)
    /\ LET p == Placed(size)
           f == Freed(p.list, p.bet, b.ptr)
       IN
       /\ majors' = f.list /\ l_bestBet' = f.bet
       /\ l_inuse' = l_inuse + Padded(size) - MinorOf(majors, b.ptr).size
       /\ l_allocated' = l_allocated + p.more - Returned(p.list, b.ptr)
       /\ held' = (held \ {b}) \cup {[ptr |-> Pointer(Minor(p.at, size)), size |-> size]}
    /\ UNCHANGED others

-----------------------------------------------------------------------------
(* pmalloc's other callers, whose pages lie between the heap's.            *)

OtherTakes ==
    /\ others = {} /\ RunsOf(1) # {}
    /\ others' = {Min(RunsOf(1))}
    /\ UNCHANGED <<majors, l_bestBet, l_inuse, l_allocated, held>>

OtherGives ==
    /\ others # {}
    /\ others' = {}
    /\ UNCHANGED <<majors, l_bestBet, l_inuse, l_allocated, held>>

Next ==
    \/ \E req \in Requests : Malloc(req)
    \/ \E b \in held : Free(b)
    \/ \E b \in held, size \in Requests : ReallocInPlace(b, size) \/ ReallocMoves(b, size)
    \/ OtherTakes \/ OtherGives

Spec == Init /\ [][Next]_vars

-----------------------------------------------------------------------------
(* Properties.                                                             *)

Minors == UNION {{[major |-> majors[i], minor |-> majors[i].minors[k]] :
                    k \in 1..Len(majors[i].minors)} : i \in 1..Len(majors)}

\* The bytes that a caller may write, with the one in front of them that records
\* the alignment, and the bytes of the headers.
CallersBytes(b)  == {b.ptr - Alignment} \cup b.ptr..(b.ptr + b.size - 1)
HeadersBytes ==
    (UNION {Start(majors[i])..(Start(majors[i]) + MajorHead - 1) : i \in 1..Len(majors)})
      \cup (UNION {x.minor.at..(x.minor.at + MinorHead - 1) : x \in Minors})

\* Blocks in use are aligned, lie within the heap's pages, and share no byte with
\* each other nor with a header, whatever gaps they were put into.
BlocksDisjoint ==
    /\ \A b \in held :
         /\ b.ptr % Alignment = 0
         /\ CallersBytes(b) \cap HeadersBytes = {}
         /\ \E i \in 1..Len(majors) :
              CallersBytes(b) \subseteq Start(majors[i])..(Start(majors[i]) + Bytes(majors[i]) - 1)
    /\ \A b, c \in held : b # c => CallersBytes(b) \cap CallersBytes(c) = {}

\* The sum of a sequence of numbers.
Total(s) ==
    LET sum[n \in 0..Len(s)] == IF n = 0 THEN 0 ELSE sum[n - 1] + s[n]
    IN  sum[Len(s)]

\* The blocks of a major with their headers, and the bytes in use in a list of majors.
Spans(m)   == [k \in 1..Len(m.minors) |-> m.minors[k].size + MinorHead]
Sizes(m)   == [k \in 1..Len(m.minors) |-> m.minors[k].size]
InUse(list) == Total([i \in 1..Len(list) |-> Total(Sizes(list[i]))])
AllBytes(list) == Total([i \in 1..Len(list) |-> Bytes(list[i])])

\* The heap's books are right: every block in use has its minor, `usage` and both
\* totals are the sums of what there is, no pages are kept without a block, none
\* belong to two majors or to another caller, and the best bet is one of the majors.
BooksRight ==
    /\ {Pointer(x.minor) : x \in Minors} = {b.ptr : b \in held}
    /\ \A i \in 1..Len(majors) :
         /\ majors[i].minors # <<>>
         /\ majors[i].usage = MajorHead + Total(Spans(majors[i]))
         /\ PagesOf(majors[i]) \cap others = {}
         /\ \A j \in 1..Len(majors) : i # j => PagesOf(majors[i]) \cap PagesOf(majors[j]) = {}
    /\ l_inuse = InUse(majors) /\ l_allocated = AllBytes(majors)
    /\ l_bestBet \in {Null} \cup {majors[i].page : i \in 1..Len(majors)}

\* The heap takes pages only when it must: if a call adds a major, no major had a
\* gap for the block, wherever the search began.
GrowsOnlyWhenFull ==
    [][\A req \in Requests :
         l_allocated' > l_allocated /\ Malloc(req) =>
           \A i \in 1..Len(majors) : \A k \in 0..Len(majors[i].minors) :
             GapEnd(majors[i], k) - GapStart(majors[i], k) < Padded(req) + MinorHead]_vars
=============================================================================
