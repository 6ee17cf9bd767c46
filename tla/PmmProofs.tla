----------------------------- MODULE PmmProofs -----------------------------
(***************************************************************************)
(* Proofs about Pmm for every memory size and every set of run lengths.    *)
(***************************************************************************)
EXTENDS Pmm, FiniteSetTheorems, TLAPS

(* Arithmetic modulo a positive number.                                     *)

LEMMA MulLow ==
    ASSUME NEW w \in Nat \ {0}, NEW e \in Int, e >= 1
    PROVE  w * e >= w
  OBVIOUS

LEMMA DivMod ==
    ASSUME NEW w \in Nat \ {0}, NEW x \in Int
    PROVE  x \div w \in Int /\ x % w \in 0..(w - 1) /\ x = w * (x \div w) + (x % w)
  OBVIOUS

\* Quotient and remainder are unique.
LEMMA ModUnique ==
    ASSUME NEW w \in Nat \ {0}, NEW q \in Int, NEW r \in 0..(w - 1)
    PROVE  (w * q + r) % w = r
  <1> DEFINE x == w * q + r
             d == x \div w
             m == x % w
  <1>1. d \in Int /\ m \in 0..(w - 1) /\ x = w * d + m
    BY DivMod
  <1>2. w * (d - q) = r - m /\ w * (q - d) = m - r
    <2> HIDE DEF d, m
    <2>1. w * (d - q) = w * d - w * q /\ w * (q - d) = w * q - w * d
      BY <1>1
    <2>2. w * d + m = w * q + r /\ w * d \in Int /\ w * q \in Int
      BY <1>1
    <2> HIDE DEF x
    <2> QED
      BY <1>1, <2>1, <2>2
  <1> HIDE DEF d, m
  <1>3. ~(d - q >= 1) /\ ~(q - d >= 1)
    BY <1>1, <1>2, MulLow
  <1>4. d = q
    BY <1>1, <1>3
  <1> QED
    BY <1>1, <1>4 DEF m

\* An addend may be reduced before the addition or not.
LEMMA ModAdd ==
    ASSUME NEW w \in Nat \ {0}, NEW a \in Int, NEW b \in Int
    PROVE  ((a % w) + b) % w = (a + b) % w
  <1> DEFINE d == a \div w
             m == a % w
             e == (m + b) \div w
             s == (m + b) % w
  <1>1. d \in Int /\ m \in 0..(w - 1) /\ a = w * d + m
    BY DivMod
  <1>2. e \in Int /\ s \in 0..(w - 1) /\ m + b = w * e + s
    <2> HIDE DEF m
    <2> QED
      BY <1>1, DivMod
  <1> HIDE DEF d, m, e, s
  <1>3. a + b = w * (d + e) + s
    <2>1. w * (d + e) = w * d + w * e /\ w * d \in Int /\ w * e \in Int
      BY <1>1, <1>2
    <2> QED
      BY <1>1, <1>2, <2>1
  <1>4. (w * (d + e) + s) % w = s
    <2>1. d + e \in Int
      BY <1>1, <1>2
    <2> QED
      BY <1>2, <2>1, ModUnique
  <1>5. (a + b) % w = s
    BY <1>3, <1>4
  <1> QED
    BY <1>5 DEF m, s

\* The same for a subtrahend.
LEMMA ModSub ==
    ASSUME NEW w \in Nat \ {0}, NEW a \in Int, NEW b \in Int
    PROVE  ((a % w) - b) % w = (a - b) % w
  <1>1. -b \in Int /\ a % w \in Int
    BY DivMod
  <1>2. ((a % w) + (-b)) % w = (a + (-b)) % w
    BY <1>1, ModAdd
  <1>3. (a % w) + (-b) = (a % w) - b /\ a + (-b) = a - b
    BY <1>1
  <1> QED
    BY <1>2, <1>3

\* The remainder of a sum or a difference is a remainder.
LEMMA ModType ==
    ASSUME NEW w \in Nat \ {0}, NEW a \in Int, NEW b \in Int
    PROVE  (a + b) % w \in 0..(w - 1) /\ (a - b) % w \in 0..(w - 1)
  <1>1. a + b \in Int /\ a - b \in Int
    OBVIOUS
  <1> QED
    BY <1>1, DivMod

-----------------------------------------------------------------------------
(* The inductive invariant.                                                 *)

\* Bits outside the usable frames stay set, the padding bits among them.
PaddingInv == (0..LastBit) \ Usable \subseteq taken

\* kmain has a buffer only while it is loading.
LoaderInv == loader # "loaded" => buffer = NoRun /\ cleared = 0

IInv == TypeOK /\ RunsDisjoint /\ NoLeak /\ PaddingInv /\ LoaderInv /\ FreeMemExact

\* The usable frames are finitely many, and so are those with a clear bit.
LEMMA UsableFinite ==
    /\ IsFiniteSet(Usable) /\ Cardinality(Usable) \in Nat
    /\ \A S : IsFiniteSet(Usable \ S) /\ Cardinality(Usable \ S) \in Nat
  <1>1. IsFiniteSet(0..(MaxPages - 1))
    BY PmmAssumption, FS_Interval
  <1>2. IsFiniteSet(Usable)
    BY <1>1, PmmAssumption, FS_Subset
  <1> QED
    BY <1>2, FS_CardinalityType, FS_Difference

\* The frames of a run of n pages are n in number.
LEMMA RunSize ==
    ASSUME NEW b \in Nat, NEW n \in Nat
    PROVE  IsFiniteSet(b..(b + n - 1)) /\ Cardinality(b..(b + n - 1)) = n
  BY FS_Interval

\* A run that fits consists of usable frames that nobody owns.
LEMMA FitsUsable ==
    ASSUME IInv, NEW run \in Runs, Fits(run.base, run.pages)
    PROVE  /\ run.pages \in Nat \ {0} /\ run.base \in Nat
           /\ Pages(run) \subseteq Usable
           /\ Pages(run) \cap taken = {}
           /\ Pages(run) \cap Owned = {}
  <1>1. run.base \in 0..(MaxPages - 1) /\ run.pages \in Nat
    BY PmmAssumption DEF Runs, Frames
  <1>2. run.pages > 0 /\ \A j \in 0..(run.pages - 1) : run.base + j \notin taken
    BY DEF Fits
  <1>3. \A f \in Pages(run) : f \notin taken
    <2> SUFFICES ASSUME NEW f \in Pages(run) PROVE f \notin taken
      OBVIOUS
    <2>1. f - run.base \in 0..(run.pages - 1) /\ run.base + (f - run.base) = f
      BY <1>1 DEF Pages
    <2> QED
      BY <1>2, <2>1
  <1>4. MaxPages \in taken
    BY PmmAssumption DEF IInv, PaddingInv
  <1>5. \A f \in Pages(run) : f < MaxPages
    <2> SUFFICES ASSUME NEW f \in Pages(run), f >= MaxPages PROVE FALSE
      BY <1>1, PmmAssumption DEF Pages
    <2>1. MaxPages \in Pages(run)
      BY <1>1, PmmAssumption DEF Pages
    <2> QED
      BY <1>3, <1>4, <2>1
  <1>6. \A f \in Pages(run) : f \in 0..LastBit
    BY <1>1, <1>5, PmmAssumption DEF Pages
  <1>7. Pages(run) \subseteq Usable
    BY <1>3, <1>6 DEF IInv, PaddingInv
  <1> QED
    BY <1>1, <1>2, <1>3, <1>7 DEF IInv, NoLeak

\* Taking n clear usable frames lowers the count of clear ones by n.
LEMMA TakeCount ==
    ASSUME NEW b \in Nat, NEW n \in Nat, NEW S, NEW T,
           b..(b + n - 1) \subseteq Usable, (b..(b + n - 1)) \cap S = {},
           T = S \cup (b..(b + n - 1))
    PROVE  Cardinality(Usable \ T) = Cardinality(Usable \ S) - n
  <1> DEFINE R == b..(b + n - 1)
  <1>1. Usable \ T = (Usable \ S) \ R
    OBVIOUS
  <1>2. (Usable \ S) \cap R = R
    OBVIOUS
  <1>3. IsFiniteSet(Usable \ S)
    BY UsableFinite
  <1>4. Cardinality((Usable \ S) \ R) = Cardinality(Usable \ S) - Cardinality((Usable \ S) \cap R)
    BY <1>3, FS_Difference
  <1> QED
    BY <1>1, <1>2, <1>4, RunSize

\* Freeing n owned frames raises it by n.
LEMMA FreeCount ==
    ASSUME NEW b \in Nat, NEW n \in Nat, NEW S, NEW T,
           b..(b + n - 1) \subseteq Usable, b..(b + n - 1) \subseteq S,
           T = S \ (b..(b + n - 1))
    PROVE  Cardinality(Usable \ T) = Cardinality(Usable \ S) + n
  <1>1. (b..(b + n - 1)) \cap T = {} /\ S = T \cup (b..(b + n - 1))
    OBVIOUS
  <1>2. Cardinality(Usable \ S) = Cardinality(Usable \ T) - n
    BY <1>1, TakeCount
  <1>3. Cardinality(Usable \ S) \in Nat /\ Cardinality(Usable \ T) \in Nat
    BY UsableFinite
  <1> QED
    BY <1>2, <1>3

\* What makes up the owned frames.
LEMMA OwnedParts ==
    /\ Buffered \subseteq Owned
    /\ \A r \in held : Pages(r) \subseteq Owned
    /\ \A f \in Owned : f \in Buffered \/ \E r \in held : f \in Pages(r)
  BY DEF Owned

-----------------------------------------------------------------------------
LEMMA InitInv == Init => IInv
  <1> SUFFICES ASSUME Init PROVE IInv
    OBVIOUS
  <1>1. Buffered = {} /\ UNION {Pages(run) : run \in held} = {}
    BY DEF Init, Buffered, NoRun
  <1>2. Owned = {}
    BY <1>1 DEF Owned
  <1>3. TypeOK
    <2>1. Cardinality(Usable) % Wrap \in 0..(Wrap - 1)
      BY UsableFinite, DivMod, PmmAssumption
    <2>2. buffer = NoRun /\ cleared \in 0..buffer.pages
      BY DEF Init, NoRun
    <2> QED
      BY <2>1, <2>2 DEF Init, TypeOK
  <1>4. RunsDisjoint /\ NoLeak /\ PaddingInv /\ LoaderInv
    BY <1>1, <1>2 DEF Init, RunsDisjoint, NoLeak, PaddingInv, LoaderInv
  <1>5. FreeMemExact
    <2>1. Usable \ taken = Usable
      BY PmmAssumption DEF Init
    <2> QED
      BY <2>1, UsableFinite DEF Init, FreeMemExact
  <1> QED
    BY <1>3, <1>4, <1>5 DEF IInv

\* What follows from the types.
LEMMA RunFacts ==
    ASSUME NEW run \in Runs
    PROVE  run.base \in Nat /\ run.pages \in Nat /\ run.base \in Frames
  <1>1. run.base \in Frames /\ run.pages \in Sizes
    BY DEF Runs
  <1>2. Frames \subseteq Nat /\ Sizes \subseteq Nat
    BY PmmAssumption DEF Frames
  <1> QED
    BY <1>1, <1>2

LEMMA BufferFacts ==
    ASSUME IInv
    PROVE  /\ buffer.base \in Nat /\ buffer.pages \in Nat /\ cleared \in Nat
           /\ cleared <= buffer.pages /\ free_mem \in Nat
  <1>1. buffer \in Runs \cup {NoRun} /\ cleared \in 0..buffer.pages /\ free_mem \in Nat
    BY DEF IInv, TypeOK
  <1>2. CASE buffer \in Runs
    BY <1>1, <1>2, RunFacts
  <1>3. CASE buffer = NoRun
    BY <1>1, <1>3 DEF NoRun
  <1> QED
    BY <1>1, <1>2, <1>3

LEMMA AllocInv ==
    ASSUME IInv, NEW run \in Runs, Alloc(run)
    PROVE  IInv'
  <1>1. /\ run.pages \in Nat \ {0} /\ run.base \in Nat
        /\ Pages(run) \subseteq Usable /\ Pages(run) \cap taken = {}
        /\ Pages(run) \cap Owned = {}
    BY FitsUsable DEF Alloc, Pmalloc
  <1>2. /\ taken' = taken \cup Pages(run) /\ held' = held \cup {run}
        /\ free_mem' = (free_mem - run.pages) % Wrap
        /\ UNCHANGED <<buffer, cleared, loader, refused>>
    BY DEF Alloc, Pmalloc
  <1>3. Buffered' = Buffered /\ Owned' = Owned \cup Pages(run)
    BY <1>2 DEF Owned, Buffered
  <1>4. TypeOK'
    <2>1. free_mem' \in 0..(Wrap - 1)
      BY <1>1, <1>2, PmmAssumption, BufferFacts, ModType
    <2>2. Usable \subseteq 0..LastBit
      BY PmmAssumption
    <2> QED
      BY <1>1, <1>2, <2>1, <2>2 DEF IInv, TypeOK
  <1>5. RunsDisjoint'
    <2>1. \A r \in held : Pages(r) \subseteq Owned /\ Pages(r) \cap Pages(run) = {}
      BY <1>1, OwnedParts
    <2>2. Buffered \cap Pages(run) = {}
      BY <1>1, OwnedParts
    <2> QED
      BY <1>1, <1>2, <1>3, <2>1, <2>2 DEF IInv, RunsDisjoint
  <1>6. NoLeak' /\ PaddingInv' /\ LoaderInv'
    BY <1>1, <1>2, <1>3 DEF IInv, NoLeak, PaddingInv, LoaderInv
  <1>7. FreeMemExact'
    <2> DEFINE C == Cardinality(Usable \ taken)
    <2>1. Cardinality(Usable \ taken') = C - run.pages
      BY <1>1, <1>2, TakeCount DEF Pages
    <2>2. C \in Nat /\ cleared \in Nat /\ free_mem = (C - cleared) % Wrap
      BY UsableFinite, BufferFacts DEF IInv, FreeMemExact
    <2> HIDE DEF C
    <2>3. free_mem' = ((C - cleared) - run.pages) % Wrap
      BY <1>1, <1>2, <2>2, ModSub, PmmAssumption
    <2>4. (C - cleared) - run.pages = (C - run.pages) - cleared
      BY <1>1, <2>2
    <2> QED
      BY <1>2, <2>1, <2>3, <2>4 DEF FreeMemExact
  <1> QED
    BY <1>4, <1>5, <1>6, <1>7 DEF IInv

LEMMA LoaderAllocInv ==
    ASSUME IInv, NEW run \in Runs, LoaderAlloc(run)
    PROVE  IInv'
  <1>1. /\ run.pages \in Nat \ {0} /\ run.base \in Nat
        /\ Pages(run) \subseteq Usable /\ Pages(run) \cap taken = {}
        /\ Pages(run) \cap Owned = {}
    BY FitsUsable DEF LoaderAlloc, Pmalloc
  <1>2. /\ taken' = taken \cup Pages(run) /\ buffer' = run /\ loader' = "loaded"
        /\ free_mem' = (free_mem - run.pages) % Wrap
        /\ UNCHANGED <<held, cleared, refused>>
    BY DEF LoaderAlloc, Pmalloc
  <1>3. buffer = NoRun /\ cleared = 0
    BY DEF LoaderAlloc, IInv, LoaderInv
  <1>4. Buffered = {} /\ Buffered' = Pages(run) /\ Owned' = Owned \cup Pages(run)
    <2>1. Buffered = {}
      BY <1>3 DEF Buffered, NoRun
    <2>2. Buffered' = Pages(run)
      BY <1>1, <1>2, <1>3 DEF Buffered, Pages
    <2> QED
      BY <1>2, <2>1, <2>2 DEF Owned
  <1>5. TypeOK'
    <2>1. free_mem' \in 0..(Wrap - 1)
      BY <1>1, <1>2, PmmAssumption, BufferFacts, ModType
    <2>2. Usable \subseteq 0..LastBit
      BY PmmAssumption
    <2>3. buffer' \in Runs \cup {NoRun} /\ cleared' \in 0..buffer'.pages
      BY <1>1, <1>2, <1>3
    <2> QED
      BY <1>1, <1>2, <2>1, <2>2, <2>3 DEF IInv, TypeOK
  <1>6. RunsDisjoint'
    <2>1. \A r \in held : Pages(r) \subseteq Owned /\ Pages(r) \cap Pages(run) = {}
      BY <1>1, OwnedParts
    <2> QED
      BY <1>1, <1>2, <1>4, <2>1 DEF IInv, RunsDisjoint
  <1>7. NoLeak' /\ PaddingInv' /\ LoaderInv'
    BY <1>1, <1>2, <1>4 DEF IInv, NoLeak, PaddingInv, LoaderInv
  <1>8. FreeMemExact'
    <2> DEFINE C == Cardinality(Usable \ taken)
    <2>1. Cardinality(Usable \ taken') = C - run.pages
      BY <1>1, <1>2, TakeCount DEF Pages
    <2>2. C \in Nat /\ cleared \in Nat /\ free_mem = (C - cleared) % Wrap
      BY UsableFinite, BufferFacts DEF IInv, FreeMemExact
    <2> HIDE DEF C
    <2>3. free_mem' = ((C - cleared) - run.pages) % Wrap
      BY <1>1, <1>2, <2>2, ModSub, PmmAssumption
    <2>4. (C - cleared) - run.pages = (C - run.pages) - cleared
      BY <1>1, <1>3, <2>2
    <2> QED
      BY <1>2, <2>1, <2>3, <2>4 DEF FreeMemExact
  <1> QED
    BY <1>5, <1>6, <1>7, <1>8 DEF IInv

LEMMA ReleaseInv ==
    ASSUME IInv, NEW run \in Runs, Release(run)
    PROVE  IInv'
  <1>1. /\ run.base \in Nat /\ run.pages \in Nat /\ run \in held
        /\ taken' = taken \ Pages(run) /\ held' = held \ {run}
        /\ free_mem' = (free_mem + run.pages) % Wrap
        /\ UNCHANGED <<buffer, cleared, loader, refused>>
    BY RunFacts DEF Release
  <1>2. /\ \A r \in held' : Pages(r) \cap Pages(run) = {}
        /\ Buffered \cap Pages(run) = {} /\ Buffered' = Buffered
        /\ Pages(run) \subseteq taken /\ Pages(run) \subseteq Usable
    BY <1>1, OwnedParts DEF IInv, RunsDisjoint, NoLeak, Buffered
  <1>3. Owned' = Owned \ Pages(run)
    <2>1. \A f \in Owned' : f \in Owned /\ f \notin Pages(run)
      BY <1>1, <1>2 DEF Owned
    <2>2. \A f \in Owned : f \in Pages(run) \/ f \in Owned'
      BY <1>1, <1>2 DEF Owned
    <2> QED
      BY <2>1, <2>2
  <1>4. TypeOK'
    <2>1. free_mem' \in 0..(Wrap - 1)
      BY <1>1, PmmAssumption, BufferFacts, ModType
    <2> QED
      BY <1>1, <2>1 DEF IInv, TypeOK
  <1>5. RunsDisjoint'
    BY <1>1, <1>2, <1>3 DEF IInv, RunsDisjoint
  <1>6. NoLeak' /\ PaddingInv' /\ LoaderInv'
    BY <1>1, <1>2, <1>3 DEF IInv, NoLeak, PaddingInv, LoaderInv
  <1>7. FreeMemExact'
    <2> DEFINE C == Cardinality(Usable \ taken)
    <2>1. Cardinality(Usable \ taken') = C + run.pages
      BY <1>1, <1>2, FreeCount DEF Pages
    <2>2. C \in Nat /\ cleared \in Nat /\ free_mem = (C - cleared) % Wrap
      BY UsableFinite, BufferFacts DEF IInv, FreeMemExact
    <2> HIDE DEF C
    <2>3. free_mem' = ((C - cleared) + run.pages) % Wrap
      <3>1. C - cleared \in Int /\ run.pages \in Int /\ Wrap \in Nat \ {0}
        BY <1>1, <2>2, PmmAssumption
      <3>2. (((C - cleared) % Wrap) + run.pages) % Wrap = ((C - cleared) + run.pages) % Wrap
        BY <3>1, ModAdd
      <3> QED
        BY <1>1, <2>2, <3>2
    <2>4. (C - cleared) + run.pages = (C + run.pages) - cleared
      BY <1>1, <2>2
    <2> QED
      BY <1>1, <2>1, <2>3, <2>4 DEF FreeMemExact
  <1> QED
    BY <1>4, <1>5, <1>6, <1>7 DEF IInv

LEMMA LoaderClearInv ==
    ASSUME IInv, LoaderClear
    PROVE  IInv'
  <1> DEFINE f == buffer.base + cleared
  <1>1. /\ taken' = taken \ {f} /\ cleared' = cleared + 1 /\ cleared < buffer.pages
        /\ UNCHANGED <<free_mem, held, buffer, loader, refused>>
        /\ loader = "loaded"
    BY DEF LoaderClear
  <1>2. buffer.base \in Nat /\ buffer.pages \in Nat /\ cleared \in Nat
    BY BufferFacts
  <1>3. f \in Buffered /\ Buffered' = Buffered \ {f} /\ f \in Nat
    BY <1>1, <1>2 DEF Buffered
  <1>4. f \in Owned /\ f \in taken /\ f \in Usable /\ \A r \in held : f \notin Pages(r)
    BY <1>3, OwnedParts DEF IInv, RunsDisjoint, NoLeak
  <1>5. Owned' = Owned \ {f}
    BY <1>1, <1>3, <1>4 DEF Owned
  <1>6. TypeOK'
    <2>1. cleared' \in 0..buffer'.pages
      BY <1>1, <1>2
    <2> QED
      BY <1>1, <2>1 DEF IInv, TypeOK
  <1>7. RunsDisjoint' /\ NoLeak' /\ PaddingInv' /\ LoaderInv'
    BY <1>1, <1>3, <1>4, <1>5 DEF IInv, RunsDisjoint, NoLeak, PaddingInv, LoaderInv
  <1>8. FreeMemExact'
    <2>1. Usable \ taken' = (Usable \ taken) \cup {f} /\ f \notin Usable \ taken
      BY <1>1, <1>4
    <2>2. Cardinality(Usable \ taken') = Cardinality(Usable \ taken) + 1
      BY <2>1, UsableFinite, FS_AddElement
    <2>3. Cardinality(Usable \ taken) \in Nat
      BY UsableFinite
    <2>4. Cardinality(Usable \ taken') - cleared' = Cardinality(Usable \ taken) - cleared
      BY <1>1, <1>2, <2>2, <2>3
    <2> QED
      BY <1>1, <2>4 DEF IInv, FreeMemExact
  <1> QED
    BY <1>6, <1>7, <1>8 DEF IInv

LEMMA LoaderCountInv ==
    ASSUME IInv, LoaderCount
    PROVE  IInv'
  <1>1. /\ free_mem' = (free_mem + buffer.pages) % Wrap /\ buffer' = NoRun
        /\ cleared' = 0 /\ loader' = "done" /\ cleared = buffer.pages
        /\ UNCHANGED <<taken, held, refused>>
    BY DEF LoaderCount
  <1>2. buffer.base \in Nat /\ buffer.pages \in Nat /\ cleared \in Nat /\ free_mem \in Nat
    BY BufferFacts
  <1>3. Buffered = {} /\ Buffered' = {}
    <2>1. Buffered = {}
      BY <1>1, <1>2 DEF Buffered
    <2>2. Buffered' = {}
      BY <1>1 DEF Buffered, NoRun
    <2> QED
      BY <2>1, <2>2
  <1>4. Owned' = Owned
    BY <1>1, <1>3 DEF Owned
  <1>5. TypeOK'
    <2>1. free_mem' \in 0..(Wrap - 1)
      BY <1>1, <1>2, PmmAssumption, ModType
    <2>2. cleared' \in 0..buffer'.pages
      BY <1>1 DEF NoRun
    <2> QED
      BY <1>1, <2>1, <2>2 DEF IInv, TypeOK
  <1>6. RunsDisjoint' /\ NoLeak' /\ PaddingInv' /\ LoaderInv'
    BY <1>1, <1>3, <1>4 DEF IInv, RunsDisjoint, NoLeak, PaddingInv, LoaderInv
  <1>7. FreeMemExact'
    <2> DEFINE C == Cardinality(Usable \ taken)
    <2>1. C \in Nat /\ free_mem = (C - cleared) % Wrap
      BY UsableFinite DEF IInv, FreeMemExact
    <2> HIDE DEF C
    <2>2. free_mem' = ((C - cleared) + buffer.pages) % Wrap
      <3>1. C - cleared \in Int /\ buffer.pages \in Int /\ Wrap \in Nat \ {0}
        BY <1>2, <2>1, PmmAssumption
      <3>2. (((C - cleared) % Wrap) + buffer.pages) % Wrap = ((C - cleared) + buffer.pages) % Wrap
        BY <3>1, ModAdd
      <3> QED
        BY <1>1, <2>1, <3>2
    <2>3. (C - cleared) + buffer.pages = C - 0
      BY <1>1, <1>2, <2>1
    <2> QED
      BY <1>1, <2>2, <2>3 DEF FreeMemExact, C
  <1> QED
    BY <1>5, <1>6, <1>7 DEF IInv

LEMMA StepInv == IInv /\ [Next]_vars => IInv'
  <1> SUFFICES ASSUME IInv, [Next]_vars PROVE IInv'
    OBVIOUS
  <1>1. ASSUME NEW run \in Runs, Alloc(run) \/ Release(run) \/ LoaderAlloc(run)
        PROVE  IInv'
    BY <1>1, AllocInv, ReleaseInv, LoaderAllocInv
  <1>2. ASSUME NEW n \in Sizes, Exhausted(n)
        PROVE  IInv'
    BY <1>2 DEF Exhausted, IInv, TypeOK, RunsDisjoint, NoLeak, PaddingInv, LoaderInv,
       FreeMemExact, Owned, Buffered
  <1>3. CASE LoaderClear
    BY <1>3, LoaderClearInv
  <1>4. CASE LoaderCount
    BY <1>4, LoaderCountInv
  <1>5. CASE UNCHANGED vars
    BY <1>5 DEF vars, IInv, TypeOK, RunsDisjoint, NoLeak, PaddingInv, LoaderInv,
       FreeMemExact, Owned, Buffered
  <1> QED
    BY <1>1, <1>2, <1>3, <1>4, <1>5 DEF Next

\* The inductive invariant, of every behaviour.
THEOREM Inductive == Spec => []IInv
  BY InitInv, StepInv, PTL DEF Spec

-----------------------------------------------------------------------------
\* Type correctness.
THEOREM TypeCorrect == Spec => []TypeOK
  <1>1. IInv => TypeOK
    BY DEF IInv
  <1> QED
    BY <1>1, Inductive, PTL

\* pmalloc never gives a frame to two owners, although kmain frees its
\* buffer with interrupts enabled.
THEOREM NeverTwice == Spec => []RunsDisjoint
  <1>1. IInv => RunsDisjoint
    BY DEF IInv
  <1> QED
    BY <1>1, Inductive, PTL

\* No frame is lost.
THEOREM NothingLost == Spec => []NoLeak
  <1>1. IInv => NoLeak
    BY DEF IInv
  <1> QED
    BY <1>1, Inductive, PTL

\* get_free_physical_memory is right modulo 4 GiB, whoever interrupts kmain.
THEOREM FreeMemRight == Spec => []FreeMemExact
  <1>1. IInv => FreeMemExact
    BY DEF IInv
  <1> QED
    BY <1>1, Inductive, PTL

\* If nobody asks for zero pages, running out of memory means that no run
\* of the length asked for is left.
THEOREM HaltIsJustified == 0 \notin Sizes /\ Spec => HaltJustified
  <1> DEFINE A == refused = NoSize /\ refused' # NoSize =>
                    \A i \in Frames :
                        ~(i..(i + refused' - 1) \subseteq Usable \ Owned)
  <1> SUFFICES ASSUME 0 \notin Sizes
               PROVE  Spec => HaltJustified
    OBVIOUS
  <1>1. IInv /\ [Next]_vars => [A]_vars
    <2> SUFFICES ASSUME IInv, Next, refused = NoSize, refused' # NoSize
                 PROVE  \A i \in Frames :
                            ~(i..(i + refused' - 1) \subseteq Usable \ Owned)
      OBVIOUS
    <2>1. PICK n \in Sizes : Exhausted(n)
      BY DEF Next, Alloc, Release, LoaderAlloc, LoaderClear, LoaderCount
    <2>2. ASSUME NEW i \in Frames
          PROVE  ~(i..(i + n - 1) \subseteq Usable \ Owned)
      <3>1. n \in Nat \ {0} /\ i \in Nat
        BY PmmAssumption DEF Frames
      <3>2. PICK j \in 0..(n - 1) : i + j \in taken
        BY <2>1, <3>1 DEF Exhausted, Fits
      <3>3. i + j \in i..(i + n - 1)
        BY <3>1
      <3>4. i + j \notin Usable \ Owned
        BY <3>2 DEF IInv, NoLeak
      <3> QED
        BY <3>3, <3>4
    <2> QED
      BY <2>1, <2>2 DEF Exhausted
  <1>2. Spec => [][A]_vars
    BY <1>1, Inductive, PTL DEF Spec
  <1> QED
    BY <1>2 DEF HaltJustified
=============================================================================
