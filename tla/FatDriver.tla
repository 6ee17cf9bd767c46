----------------------------- MODULE FatDriver -----------------------------
(***************************************************************************)
(* The FAT32 driver's algorithms (fs/fat32.c) as operators on a record d,  *)
(* the volume as the driver sees it in the middle of an operation:         *)
(*    fat    the FAT, with what the cached FAT sector has not put on disk  *)
(*    cache  which sector of the FAT is cached                             *)
(*    dirty  whether the cached sector differs from the disk               *)
(*    hint   next_free_cluster_hint                                        *)
(*    sec    what the clusters hold                                        *)
(*    log    the sector writes the operation has made, in order            *)
(*    ok     FALSE once the disk was found full                            *)
(*                                                                         *)
(* A cluster is one sector, as mkfs.fat makes it on the image of the       *)
(* Makefile.  Offsets and lengths count sectors.  A long name has one LFN  *)
(* slot.  Different names have different 8.3 forms.                        *)
(***************************************************************************)
EXTENDS Integers, SequencesExt, FiniteSetsExt

CONSTANTS
    Limit,       \* the first number that is not a cluster's
    PerSector,   \* FAT entries in a sector of the FAT
    PerCluster,  \* directory slots in a cluster
    Names,
    LongNames,   \* those that do not fit 8.3
    Values       \* what a sector of a file may hold

ASSUME FatAssumption ==
    /\ Limit \in Nat /\ Limit > 3
    /\ PerSector \in Nat \ {0} /\ PerCluster \in Nat /\ PerCluster >= 2
    /\ LongNames \subseteq Names

Clusters == 2..(Limit - 1)
RootDir  == 2
Unused   == 0    \* a free FAT entry, and "no cluster" of an allocation
Eoc      == -1   \* FAT32_EOC_MARKER

FatSector(c) == c \div PerSector
FatSectors   == {FatSector(c) : c \in Clusters}
NoSector     == -1   \* FAT_CACHE_INVALID

\* A directory slot: free, an LFN slot, a file, a directory, "." or "..".
Slot(kind, name, first) == [kind |-> kind, name |-> name, first |-> first, size |-> 0]
EndSlot   == Slot("end", "", 0)
Free(s)   == s.kind \in {"end", "deleted"}
Entry(s)  == s.kind \in {"file", "dir"}
Blank     == [k \in 1..PerCluster |-> EndSlot]   \* a zeroed cluster

SlotsOf(name) == IF name \in LongNames THEN 2 ELSE 1

-----------------------------------------------------------------------------
\* The sector writes, and their effect on a disk.
FatWrite(s, fat)   == [to |-> "fat", put |-> [c \in {x \in Clusters : FatSector(x) = s} |-> fat[c]]]
SectorWrite(c, v)  == [to |-> "data", put |-> [x \in {c} |-> v]]

Written(disk, w) ==
    IF w.to = "fat" THEN [disk EXCEPT !.fat = [c \in Clusters |-> IF c \in DOMAIN w.put THEN w.put[c] ELSE @[c]]]
                    ELSE [disk EXCEPT !.sec = [c \in Clusters |-> IF c \in DOMAIN w.put THEN w.put[c] ELSE @[c]]]

Put(d, c, v) == [d EXCEPT !.sec[c] = v, !.log = Append(@, SectorWrite(c, v))]

PutSlot(d, at, s) == Put(d, at[1], [d.sec[at[1]] EXCEPT ![at[2]] = s])

Sync(d) == IF d.dirty THEN [d EXCEPT !.dirty = FALSE, !.log = Append(@, FatWrite(d.cache, d.fat))]
                      ELSE d

\* Mutant: the cached sector is replaced without being written.
GetUnsynced(d, c) == IF FatSector(c) = d.cache THEN d
                     ELSE [d EXCEPT !.cache = FatSector(c), !.dirty = FALSE]

\* fat_cache_get, as get_next_cluster calls it for cluster c.
Get(d, c) == IF FatSector(c) = d.cache THEN d ELSE [Sync(d) EXCEPT !.cache = FatSector(c)]

SetNext(d, c, next) == [Get(d, c) EXCEPT !.fat[c] = next, !.dirty = TRUE]

-----------------------------------------------------------------------------
\* The clusters from c on, as far as the FAT leads; Limit is more than there are.
ChainOf(fat, c) ==
    LET walk[n \in 0..Limit] ==
          IF n = 0 THEN <<>>
          ELSE LET chain == walk[n - 1]
                   next  == IF chain = <<>> THEN c ELSE fat[Last(chain)]
               IN  IF next \in Clusters THEN Append(chain, next) ELSE chain
    IN  walk[Limit]

\* The clusters in the order of the search for a free one.
SearchOrder(hint) == [k \in 1..(Limit - 2) |-> 2 + ((hint - 2 + k - 1) % (Limit - 2))]

\* What the search looks at: up to the first free cluster, or everything.
Search(d) ==
    LET order == SearchOrder(d.hint)
        found == {k \in DOMAIN order : d.fat[order[k]] = Unused}
    IN  IF found = {} THEN order ELSE SubSeq(order, 1, Min(found))

\* The cluster the search finds.
NextFree(d) == IF d.fat[Last(Search(d))] = Unused THEN Last(Search(d)) ELSE Unused

\* The search, by what it does to the cached FAT sector: it ends as the one looked
\* at last, and has been written if the search left it.
Scan(d) ==
    IF \A k \in DOMAIN Search(d) : FatSector(Search(d)[k]) = d.cache THEN d
    ELSE [Sync(d) EXCEPT !.cache = FatSector(Last(Search(d)))]

\* fat32_allocate_cluster; the cluster is NextFree(d).
Allocate(d) ==
    LET c == NextFree(d)
    IN  IF c = Unused THEN [Scan(d) EXCEPT !.ok = FALSE]
        ELSE Put([Sync(SetNext(Scan(d), c, Eoc)) EXCEPT
                     !.hint = IF c + 1 >= Limit THEN 2 ELSE c + 1], c, Blank)

\* Mutant: only the first cluster is freed.
FreeFirst(d, c) == IF c \notin Clusters THEN d ELSE SetNext(d, c, Unused)

\* fat32_free_chain.
FreeChain(d, c) ==
    LET chain == ChainOf(d.fat, c)
        freed[k \in 0..Len(chain)] ==
          IF k = 0 THEN d ELSE SetNext(freed[k - 1], chain[k], Unused)
    IN  freed[Len(chain)]

-----------------------------------------------------------------------------
\* The slots of a directory in the order they are scanned, and their places.
PlaceIn(chain, i) == <<chain[((i - 1) \div PerCluster) + 1], ((i - 1) % PerCluster) + 1>>

Place(v, dir, i) == PlaceIn(ChainOf(v.fat, dir), i)

SlotAt(v, at) == v.sec[at[1]][at[2]]

DirSlots(v, dir) ==
    LET chain == ChainOf(v.fat, dir)
    IN  [i \in 1..(PerCluster * Len(chain)) |-> SlotAt(v, PlaceIn(chain, i))]

\* The scan of lookup and unlink: entries before the first end slot whose
\* name matches, a long name by the LFN slot in front.
Matches(v, dir, name) ==
    LET s == DirSlots(v, dir)
    IN  {i \in DOMAIN s :
            /\ \A j \in 1..i : s[j].kind # "end"
            /\ Entry(s[i]) /\ s[i].name = name
            /\ name \in LongNames => i > 1 /\ s[i - 1] = Slot("lfn", name, 0)}

Exists(v, dir, name) == Matches(v, dir, name) # {}
Lookup(v, dir, name) == Place(v, dir, Min(Matches(v, dir, name)))

\* What fat32_vfs_read returns for the whole file with entry s.
Content(v, s) ==
    LET chain == ChainOf(v.fat, s.first)
    IN  [i \in 1..Min({s.size, Len(chain)}) |-> v.sec[chain[i]]]

\* Places of n free slots in a row.
FreeRuns(d, dir, n) ==
    LET s == DirSlots(d, dir)
    IN  {i \in 1..(Len(s) - n + 1) : \A j \in i..(i + n - 1) : Free(s[j])}

\* The directory grown by a cluster, when no run is long enough.
Grow(d, dir) ==
    IF NextFree(d) = Unused THEN Allocate(d)
    ELSE Sync(SetNext(Allocate(d), Last(ChainOf(d.fat, dir)), NextFree(d)))

\* Mutant: the last run that is long enough.
RoomLast(d, dir, n) ==
    IF FreeRuns(d, dir, n) # {}
    THEN [j \in 1..n |-> Place(d, dir, Max(FreeRuns(d, dir, n)) + j - 1)]
    ELSE [j \in 1..n |-> <<NextFree(d), j>>]

\* fat32_find_contiguous_free_slots, fat32_add_entry: where n slots go.
Room(d, dir, n) ==
    IF FreeRuns(d, dir, n) # {}
    THEN [j \in 1..n |-> Place(d, dir, Min(FreeRuns(d, dir, n)) + j - 1)]
    ELSE [j \in 1..n |-> <<NextFree(d), j>>]

\* fat32_add_entry_named: the LFN slot, then the short entry.
AddEntry(d, dir, name, kind, first) ==
    LET n    == SlotsOf(name)
        room == Room(d, dir, n)
        e    == IF FreeRuns(d, dir, n) # {} THEN d ELSE Grow(d, dir)
        lfn  == IF n = 2 THEN PutSlot(e, room[1], Slot("lfn", name, 0)) ELSE e
    IN  IF e.ok THEN PutSlot(lfn, room[n], Slot(kind, name, first)) ELSE e
=============================================================================
