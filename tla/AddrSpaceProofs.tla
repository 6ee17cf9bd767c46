-------------------------- MODULE AddrSpaceProofs --------------------------
(***************************************************************************)
(* Proofs about AddrSpace, for any number of tasks and frames, any tables  *)
(* and any programs.                                                       *)
(***************************************************************************)
EXTENDS AddrSpace, FiniteSetTheorems, WellFoundedInduction, TLAPS

-----------------------------------------------------------------------------
(* Numbers.                                                                *)

\* A set of numbers has a least element; this stands in for induction.
LEMMA Minimum ==
    ASSUME NEW S \in SUBSET Nat, S # {}
    PROVE  \E x \in S : \A y \in S : x <= y
  <1> DEFINE R == {ss \in Nat \X Nat : ss[1] < ss[2]}
  <1>1. IsWellFoundedOn(R, Nat)
    BY NatLessThanWellFounded DEF OpToRel
  <1>2. PICK x \in S : \A y \in S : ~ (<<y, x>> \in R)
    <2> HIDE DEF R
    <2> QED BY <1>1, WFMin
  <1>3. \A y \in S : ~ (y < x)
    BY <1>2
  <1> QED
    BY <1>3

\* A bounded set of numbers has a greatest one.
LEMMA Maximum ==
    ASSUME NEW b \in Nat, NEW S \in SUBSET 0..b, S # {}
    PROVE  \E x \in S : \A y \in S : y <= x
  <1> DEFINE D == {n \in Nat : n <= b /\ b - n \in S}
  <1>1. D # {}
    <2>1. PICK y \in S : TRUE
      OBVIOUS
    <2>2. b - y \in Nat /\ b - y <= b /\ b - (b - y) = y
      OBVIOUS
    <2> QED
      BY <2>1, <2>2
  <1>2. PICK d \in D : \A e \in D : d <= e
    <2>1. D \in SUBSET Nat
      OBVIOUS
    <2> HIDE DEF D
    <2> QED BY <1>1, <2>1, Minimum
  <1>3. ASSUME NEW y \in S PROVE y <= b - d
    <2>1. b - y \in D
      <3>1. b - y \in Nat /\ b - y <= b /\ b - (b - y) = y
        OBVIOUS
      <3> QED BY <3>1
    <2> QED
      BY <2>1, <1>2
  <1> QED
    BY <1>2, <1>3

\* Dividing twice is dividing by the product.
LEMMA QuotientUnique ==
    ASSUME NEW w \in Nat \ {0}, NEW q \in Int, NEW r \in 0..(w - 1)
    PROVE  (w * q + r) \div w = q
  <1> DEFINE x == w * q + r
             d == x \div w
             m == x % w
  <1>0. x \in Int
    OBVIOUS
  <1>1. d \in Int /\ m \in 0..(w - 1) /\ x = w * d + m
    <2> HIDE DEF x
    <2> QED BY <1>0
  <1>2. w * (d - q) = r - m /\ w * (q - d) = m - r
    <2> HIDE DEF d, m
    <2>1. w * (d - q) = w * d - w * q /\ w * (q - d) = w * q - w * d
      BY <1>1
    <2>2. w * d + m = w * q + r /\ w * d \in Int /\ w * q \in Int
      BY <1>1
    <2> HIDE DEF x
    <2> QED
      BY <1>1, <2>1, <2>2
  <1> HIDE DEF d, m
  <1>3. \A e \in Int : e >= 1 => w * e >= w
    OBVIOUS
  <1>4. ~(d - q >= 1) /\ ~(q - d >= 1)
    BY <1>1, <1>2, <1>3
  <1>5. d = q
    BY <1>1, <1>4
  <1> QED
    BY <1>5 DEF d

LEMMA DivTwice ==
    ASSUME NEW v \in Nat, NEW a \in Nat \ {0}, NEW b \in Nat \ {0}
    PROVE  (v \div a) \div b = v \div (a * b)
  <1> DEFINE d == v \div a
             m == v % a
             e == d \div b
             s == d % b
  <1>1. d \in Int /\ m \in 0..(a - 1) /\ v = a * d + m
    OBVIOUS
  <1>2. e \in Int /\ s \in 0..(b - 1) /\ d = b * e + s
    <2> HIDE DEF d
    <2> QED BY <1>1
  <1> HIDE DEF d, m, e, s
  <1>3. v = (a * b) * e + (a * s + m)
    <2>1. a * (b * e + s) = (a * b) * e + a * s
      BY <1>1, <1>2
    <2> QED BY <1>1, <1>2, <2>1
  <1>4. a * s + m \in 0..(a * b - 1) /\ a * b \in Nat \ {0}
    <2>1. a * s <= a * (b - 1) /\ a * s >= 0 /\ a * s \in Int
      BY <1>2
    <2>2. a * (b - 1) = a * b - a /\ a * b \in Int
      OBVIOUS
    <2>3. a * b >= 1
      OBVIOUS
    <2> QED BY <1>1, <2>1, <2>2, <2>3
  <1>5. v \div (a * b) = e
    <2> DEFINE w == a * b
               r == a * s + m
    <2>1. w \in Nat \ {0} /\ r \in 0..(w - 1) /\ v = w * e + r
      BY <1>3, <1>4
    <2> HIDE DEF w, r
    <2>2. v \div w = e
      BY <2>1, <1>2, QuotientUnique
    <2> QED BY <2>2 DEF w
  <1> QED
    BY <1>5 DEF e, d

-----------------------------------------------------------------------------
(* Page frames: what pmalloc's first fit gives.                             *)

LEMMA FramesFinite ==
    ASSUME NEW taken
    PROVE  IsFiniteSet(Frames \ taken) /\ Cardinality(Frames \ taken) \in Nat
  <1>1. IsFiniteSet(0..MaxFrame)
    BY AddrSpaceAssumption, FS_Interval
  <1> QED
    BY <1>1, FS_Difference, FS_CardinalityType DEF Frames

\* The free frame with k free frames below it exists if there are more than k.
LEMMA RankExists ==
    ASSUME NEW taken, NEW k \in Nat, k < Cardinality(Frames \ taken)
    PROVE  \E f \in Frames \ taken : Cardinality((0..(f - 1)) \ taken) = k
  <1> DEFINE below(f) == (0..(f - 1)) \ taken
             S == {f \in Nat : Cardinality(below(f)) > k}
  <1>1. ASSUME NEW f \in Nat
        PROVE  IsFiniteSet(below(f)) /\ Cardinality(below(f)) \in Nat
    <2>1. f - 1 \in Int /\ IsFiniteSet(0..(f - 1))
      BY FS_Interval
    <2> QED
      BY <2>1, FS_Difference, FS_CardinalityType
  <1>2. MaxFrame + 1 \in S
    BY AddrSpaceAssumption DEF Frames
  <1>3. PICK m \in S : \A y \in S : m <= y
    <2>1. S \in SUBSET Nat /\ S # {}
      BY <1>2
    <2> HIDE DEF S
    <2> QED BY <2>1, Minimum
  <1>31. m \in Nat /\ Cardinality(below(m)) > k
    OBVIOUS
  <1>32. \A f \in Nat : f < m => ~(Cardinality(below(f)) > k)
    BY <1>3, <1>31
  <1> HIDE DEF S
  <1>4. m # 0
    <2> SUFFICES ASSUME m = 0 PROVE FALSE
      OBVIOUS
    <2>1. below(0) = {}
      OBVIOUS
    <2>2. Cardinality(below(0)) > k
      BY <1>31
    <2> HIDE DEF below
    <2>3. Cardinality(below(0)) = 0
      BY <2>1, FS_EmptySet
    <2> QED BY <2>2, <2>3
  <1>5. m - 1 \in Nat /\ m <= MaxFrame + 1 /\ m \in Nat
    <2>1. m <= MaxFrame + 1
      BY <1>2, <1>3
    <2> QED BY <2>1, <1>31, <1>4
  <1>6. Cardinality(below(m - 1)) <= k
    <2> HIDE DEF below
    <2>0. m - 1 \in Nat /\ m - 1 < m
      BY <1>5
    <2>1. ~(Cardinality(below(m - 1)) > k)
      BY <1>32, <2>0
    <2>2. Cardinality(below(m - 1)) \in Nat
      BY <1>1, <1>5
    <2> QED BY <2>1, <2>2
  <1>7. m - 1 \notin taken
    <2> SUFFICES ASSUME m - 1 \in taken PROVE FALSE
      OBVIOUS
    <2>1. below(m) = below(m - 1)
      BY <1>5
    <2>2. Cardinality(below(m)) > k
      BY <1>31
    <2>3. Cardinality(below(m)) \in Nat
      BY <1>1, <1>5
    <2> HIDE DEF below
    <2> QED BY <2>1, <2>2, <2>3, <1>6
  <1>8. below(m) = below(m - 1) \cup {m - 1} /\ m - 1 \notin below(m - 1)
    BY <1>5, <1>7
  <1>9. Cardinality(below(m)) = Cardinality(below(m - 1)) + 1
    BY <1>8, <1>1, <1>5, FS_AddElement
  <1>10. Cardinality(below(m)) > k
    BY <1>31
  <1>11. Cardinality(below(m - 1)) = k
    <2> HIDE DEF below
    <2> QED BY <1>1, <1>5, <1>6, <1>9, <1>10
  <1>12. m - 1 \in Frames \ taken
    BY <1>5, <1>7, AddrSpaceAssumption DEF Frames
  <1> QED
    BY <1>11, <1>12

LEMMA SpanType == \A k \in 0..Levels : Span[k] \in Nat \ {0}
  BY AddrSpaceAssumption

\* A table is walked in a strict total order.
LEMMA PrecedesOrder ==
    ASSUME NEW l \in Node, NEW m \in Node, NEW n \in Node
    PROVE  /\ ~Precedes(n, n)
           /\ Precedes(l, m) /\ Precedes(m, n) => Precedes(l, n)
           /\ m = n \/ Precedes(m, n) \/ Precedes(n, m)
  <1> DEFINE first(x) == x[2] * Span[x[1]]
  <1>1. \A x \in Node : first(x) \in Int /\ x[1] \in Int /\ x[2] \in Int /\ x = <<x[1], x[2]>>
    <2> TAKE x \in Node
    <2>1. x[1] \in 0..Levels /\ x[2] \in Nat /\ x = <<x[1], x[2]>>
      BY DEF Node
    <2>2. Span[x[1]] \in Nat
      BY <2>1, SpanType
    <2> QED BY <2>1, <2>2, AddrSpaceAssumption
  <1>2. \A x, y \in Node : Precedes(x, y) <=> first(x) < first(y) \/ (first(x) = first(y) /\ x[1] > y[1])
    BY DEF Precedes
  <1>3. first(m) = first(n) /\ m[1] = n[1] => m = n
    <2> SUFFICES ASSUME first(m) = first(n), m[1] = n[1] PROVE m[2] = n[2]
      BY <1>1
    <2> DEFINE s == Span[m[1]]
    <2>1. s \in Nat \ {0} /\ m[2] * s = n[2] * s
      BY SpanType DEF Node
    <2>2. m[2] \in Nat /\ n[2] \in Nat
      BY DEF Node
    <2> HIDE DEF s
    <2>3. (m[2] - n[2]) * s = 0
      BY <2>1, <2>2
    <2> QED
      BY <2>1, <2>2, <2>3
  <1> HIDE DEF first
  <1> QED
    BY <1>1, <1>2, <1>3

\* The nodes before a node, and how many there are.
LEMMA BeforeCount ==
    ASSUME NEW nodes \in SUBSET Node, IsFiniteSet(nodes)
    PROVE  /\ \A n \in nodes :
                 LET b == Cardinality({l \in nodes : Precedes(l, n)})
                 IN  b \in Nat /\ b < Cardinality(nodes)
           /\ \A m, n \in nodes :
                 Cardinality({l \in nodes : Precedes(l, m)})
                   = Cardinality({l \in nodes : Precedes(l, n)}) => m = n
  <1> DEFINE B(n) == {l \in nodes : Precedes(l, n)}
  <1>1. \A n \in nodes : IsFiniteSet(B(n)) /\ Cardinality(B(n)) \in Nat
    BY FS_Subset, FS_CardinalityType
  <1>2. Cardinality(nodes) \in Nat
    BY FS_CardinalityType
  <1>3. ASSUME NEW n \in nodes
        PROVE  Cardinality(B(n)) < Cardinality(nodes)
    <2>1. n \notin B(n) /\ B(n) \in SUBSET nodes
      BY PrecedesOrder
    <2>2. Cardinality(B(n)) <= Cardinality(nodes) /\ Cardinality(B(n)) # Cardinality(nodes)
      BY <2>1, FS_Subset
    <2> QED
      BY <1>1, <1>2, <2>2
  <1>4. ASSUME NEW m \in nodes, NEW n \in nodes, Precedes(m, n)
        PROVE  Cardinality(B(m)) < Cardinality(B(n))
    <2>1. B(m) \in SUBSET B(n)
      BY <1>4, PrecedesOrder
    <2>2. m \in B(n) /\ m \notin B(m)
      BY <1>4, PrecedesOrder
    <2>3. Cardinality(B(m)) <= Cardinality(B(n)) /\ Cardinality(B(m)) # Cardinality(B(n))
      BY <1>1, <2>1, <2>2, FS_Subset
    <2> QED
      BY <1>1, <2>3
  <1>5. ASSUME NEW m \in nodes, NEW n \in nodes, Cardinality(B(m)) = Cardinality(B(n))
        PROVE  m = n
    <2>1. Cardinality(B(m)) \in Nat /\ Cardinality(B(n)) \in Nat
      BY <1>1
    <2>2. Precedes(m, n) => Cardinality(B(m)) < Cardinality(B(n))
      BY <1>4
    <2>3. Precedes(n, m) => Cardinality(B(n)) < Cardinality(B(m))
      BY <1>4
    <2>4. ~Precedes(m, n) /\ ~Precedes(n, m)
      <3> HIDE DEF B
      <3> QED BY <2>1, <2>2, <2>3, <1>5
    <2> QED
      BY <2>4, PrecedesOrder
  <1> QED
    BY <1>1, <1>3, <1>5

Injective(f) == \A x, y \in DOMAIN f : f[x] = f[y] => x = y

\* A call's single-page allocations: a frame of its own for each node, one that
\* was free.
LEMMA FreshGives ==
    ASSUME NEW taken, NEW nodes \in SUBSET Node, IsFiniteSet(nodes),
           Room(taken, Cardinality(nodes))
    PROVE  /\ DOMAIN Fresh(taken, nodes) = nodes
           /\ \A n \in nodes : Fresh(taken, nodes)[n] \in Frames \ taken
           /\ Injective(Fresh(taken, nodes))
  <1> DEFINE B(n) == Cardinality({l \in nodes : Precedes(l, n)})
             F == Fresh(taken, nodes)
  <1>1. \A n \in nodes : B(n) \in Nat /\ B(n) < Cardinality(Frames \ taken)
    <2>1. Cardinality(nodes) \in Nat /\ Cardinality(Frames \ taken) \in Nat
      BY FS_CardinalityType, FramesFinite
    <2>2. Cardinality(nodes) <= Cardinality(Frames \ taken)
      BY DEF Room
    <2>3. \A n \in nodes : B(n) \in Nat /\ B(n) < Cardinality(nodes)
      BY BeforeCount
    <2> HIDE DEF B
    <2> QED
      BY <2>1, <2>2, <2>3
  <1>2. F = [n \in nodes |-> CHOOSE f \in Frames \ taken :
                                Cardinality((0..(f - 1)) \ taken) = B(n)]
    BY DEF Fresh
  <1>3. ASSUME NEW n \in nodes
        PROVE  F[n] \in Frames \ taken /\ Cardinality((0..(F[n] - 1)) \ taken) = B(n)
    <2> HIDE DEF B
    <2>1. \E f \in Frames \ taken : Cardinality((0..(f - 1)) \ taken) = B(n)
      BY <1>1, RankExists
    <2> HIDE DEF F
    <2>2. F[n] = CHOOSE f \in Frames \ taken : Cardinality((0..(f - 1)) \ taken) = B(n)
      BY <1>2
    <2> QED
      BY <2>1, <2>2
  <1>4. \A m, n \in nodes : B(m) = B(n) => m = n
    BY BeforeCount
  <1>5. \A m, n \in nodes : F[m] = F[n] => m = n
    <2> HIDE DEF F, B
    <2> QED BY <1>3, <1>4
  <1>6. DOMAIN F = nodes
    BY DEF Fresh
  <1> QED
    BY <1>3, <1>5, <1>6 DEF Injective

\* pmalloc(pages) finds a run if there is one.
LEMMA FirstRunGives ==
    ASSUME NEW taken, NEW pages, RunsOf(taken, pages) # {}
    PROVE  FirstRun(taken, pages) \in RunsOf(taken, pages)
  <1>1. RunsOf(taken, pages) \in SUBSET Nat
    BY AddrSpaceAssumption DEF RunsOf, Frames
  <1>2. \E b \in RunsOf(taken, pages) : \A c \in RunsOf(taken, pages) : b <= c
    BY <1>1, Minimum
  <1> QED
    BY <1>2 DEF FirstRun

\* And a single page if there is a free frame.
LEMMA FirstPageGives ==
    ASSUME NEW taken, NEW n \in Nat, Room(taken, n), n >= 1
    PROVE  FirstRun(taken, 1) \in Frames \ taken
  <1>1. Frames \ taken # {}
    BY FramesFinite, FS_EmptySet DEF Room
  <1>2. \A b \in Frames \ taken : b \in RunsOf(taken, 1)
    BY AddrSpaceAssumption DEF RunsOf, Frames
  <1>3. FirstRun(taken, 1) \in RunsOf(taken, 1)
    BY <1>1, <1>2, FirstRunGives
  <1>4. ASSUME NEW b \in RunsOf(taken, 1) PROVE b \in Frames \ taken
    <2>1. b \in Nat /\ b + 0 = b /\ 0 \in 0..(1 - 1)
      BY AddrSpaceAssumption DEF RunsOf, Frames
    <2> QED
      BY <2>1 DEF RunsOf
  <1> QED
    BY <1>3, <1>4

\* A frame less is free after one was given, and n less after a call's n.
LEMMA RoomAfterPage ==
    ASSUME NEW taken, NEW n \in Nat, Room(taken, n + 1), NEW f
    PROVE  Room(taken \cup {f}, n)
  <1> DEFINE free == Frames \ taken
  <1>1. Frames \ (taken \cup {f}) = free \ {f}
    OBVIOUS
  <1>2. IsFiniteSet(free) /\ Cardinality(free) \in Nat /\ Cardinality(free) >= n + 1
    BY FramesFinite DEF Room
  <1>3. Cardinality(free \ {f}) >= n
    <2> HIDE DEF free
    <2>1. Cardinality(free \ {f}) = IF f \in free THEN Cardinality(free) - 1 ELSE Cardinality(free)
      BY <1>2, FS_RemoveElement
    <2> QED
      BY <1>2, <2>1
  <1> QED
    BY <1>1, <1>3 DEF Room

LEMMA RoomAfter ==
    ASSUME NEW taken, NEW S, IsFiniteSet(S), NEW n \in Nat,
           Room(taken, Cardinality(S) + n)
    PROVE  Room(taken \cup S, n)
  <1>1. Frames \ (taken \cup S) = (Frames \ taken) \ S
    OBVIOUS
  <1>2. Cardinality((Frames \ taken) \ S)
          = Cardinality(Frames \ taken) - Cardinality((Frames \ taken) \cap S)
    BY FramesFinite, FS_Difference
  <1>3. Cardinality((Frames \ taken) \cap S) <= Cardinality(S)
        /\ Cardinality((Frames \ taken) \cap S) \in Nat
    BY FramesFinite, FS_Intersection, FS_CardinalityType
  <1>4. Cardinality(S) \in Nat
    BY FS_CardinalityType
  <1> QED
    BY <1>1, <1>2, <1>3, <1>4, FramesFinite DEF Room

-----------------------------------------------------------------------------
(* Page tables.                                                            *)

\* The nodes over user pages: finitely many.
UserPages == 0..(Span[Levels] - 1)
Grid == (0..Levels) \X UserPages

\* A node hangs from the one above it.
Closed(nodes) ==
    \A n \in nodes : n = Root \/ <<n[1] + 1, n[2] \div Fan>> \in nodes

LEMMA GridFinite ==
    /\ Grid \subseteq Node
    /\ \A S \in SUBSET Grid : S \in SUBSET Node /\ IsFiniteSet(S) /\ Cardinality(S) \in Nat
  <1>1. IsFiniteSet(0..Levels) /\ IsFiniteSet(UserPages)
    <2>1. 0 \in Int /\ Levels \in Int /\ Span[Levels] - 1 \in Int
      BY AddrSpaceAssumption, SpanType
    <2>2. \A n \in Int : IsFiniteSet(0..n)
      BY FS_Interval
    <2> QED BY <2>1, <2>2 DEF UserPages
  <1>2. IsFiniteSet(Grid)
    BY <1>1, FS_Product DEF Grid
  <1>3. Grid \subseteq Node
    BY DEF Grid, Node, UserPages
  <1> QED
    BY <1>2, <1>3, FS_Subset, FS_CardinalityType

\* Where the tables over a page are.
LEMMA TablePlace ==
    ASSUME NEW v \in UserPages, NEW k \in 0..Levels
    PROVE  /\ v \div Span[k] \in UserPages
           /\ k < Levels => (v \div Span[k]) \div Fan = v \div Span[k + 1]
           /\ v \div Span[0] = v /\ v \div Span[Levels] = 0
  <1>1. Span[k] \in Nat \ {0} /\ Span[Levels] \in Nat \ {0} /\ Span[0] = 1
    BY SpanType, AddrSpaceAssumption
  <1>2. v \in Nat /\ v < Span[Levels]
    BY <1>1 DEF UserPages
  <1>3. \A w \in Nat \ {0} : v \div w \in 0..v
    BY <1>2
  <1>4. v \div Span[k] \in UserPages
    <2>1. v \div Span[k] \in 0..v
      BY <1>1, <1>3
    <2> QED BY <2>1, <1>1, <1>2 DEF UserPages
  <1>5. ASSUME k < Levels
        PROVE  (v \div Span[k]) \div Fan = v \div Span[k + 1]
    <2>1. k + 1 \in 1..Levels /\ (k + 1) - 1 = k
      BY <1>5, AddrSpaceAssumption
    <2>2. Span[k + 1] = Span[k] * Fan
      BY <2>1, AddrSpaceAssumption
    <2>3. Fan \in Nat \ {0}
      BY AddrSpaceAssumption
    <2> QED
      BY <1>1, <1>2, <2>2, <2>3, DivTwice
  <1>6. v \div Span[Levels] = 0
    <2>1. \A w \in Nat \ {0} : v < w => v \div w = 0
      BY <1>2
    <2> QED BY <1>1, <1>2, <2>1
  <1>7. v \div 1 = v
    BY <1>2
  <1> QED
    BY <1>1, <1>4, <1>5, <1>6, <1>7

\* What a call that maps user pages wants frames for: nodes of the grid, and
\* with them the table is still a tree.
LEMMA WantedGrid ==
    ASSUME NEW tree, NEW pages \in SUBSET UserPages
    PROVE  /\ Wanted(tree, pages) \subseteq Grid
           /\ DOMAIN tree \subseteq Grid => DOMAIN tree \cup Wanted(tree, pages) \subseteq Grid
           /\ \A n \in Wanted(tree, pages) : n \in DOMAIN tree => \E v \in pages : n = Leaf(v)
           /\ \A n \in Wanted(tree, pages) : n[1] # 0 => n \notin DOMAIN tree
  <1>1. ASSUME NEW v \in pages PROVE Leaf(v) \in Grid
    BY AddrSpaceAssumption DEF Leaf, Grid
  <1>2. ASSUME NEW v \in pages PROVE TablesTo(v) \subseteq Grid
    <2> SUFFICES ASSUME NEW k \in 1..Levels PROVE <<k, v \div Span[k]>> \in Grid
      BY DEF TablesTo
    <2>1. k \in 0..Levels
      BY AddrSpaceAssumption
    <2> QED BY <2>1, TablePlace DEF Grid
  <1>3. Wanted(tree, pages) \subseteq Grid
    BY <1>1, <1>2 DEF Wanted
  <1>4. \A n \in Wanted(tree, pages) : n \in DOMAIN tree => \E v \in pages : n = Leaf(v)
    BY DEF Wanted
  <1>5. \A v \in pages : Leaf(v)[1] = 0
    BY DEF Leaf
  <1> QED
    BY <1>3, <1>4, <1>5

LEMMA WantedClosed ==
    ASSUME NEW tree, NEW pages \in SUBSET UserPages, Closed(DOMAIN tree)
    PROVE  Closed(DOMAIN tree \cup Wanted(tree, pages))
  <1> DEFINE D == DOMAIN tree \cup Wanted(tree, pages)
  <1>0. Levels \in Nat \ {0}
    BY AddrSpaceAssumption
  <1>1. ASSUME NEW v \in pages, NEW k \in 1..Levels
        PROVE  <<k, v \div Span[k]>> \in D
    BY DEF Wanted, TablesTo
  <1>2. ASSUME NEW v \in pages, NEW k \in 0..Levels,
               NEW n, n = <<k, v \div Span[k]>>
        PROVE  n = Root \/ <<n[1] + 1, n[2] \div Fan>> \in D
    <2>1. CASE k = Levels
      BY <2>1, <1>2, TablePlace DEF Root
    <2>2. CASE k < Levels
      <3>1. k + 1 \in 1..Levels /\ (v \div Span[k]) \div Fan = v \div Span[k + 1]
        BY <1>0, <2>2, TablePlace
      <3>2. <<n[1] + 1, n[2] \div Fan>> = <<k + 1, v \div Span[k + 1]>>
        BY <1>2, <3>1
      <3> QED BY <3>1, <3>2, <1>1
    <2> QED BY <1>0, <2>1, <2>2
  <1>3. ASSUME NEW n \in Wanted(tree, pages)
        PROVE  n = Root \/ <<n[1] + 1, n[2] \div Fan>> \in D
    <2>1. PICK v \in pages : n = Leaf(v) \/ n \in TablesTo(v)
      BY DEF Wanted
    <2>2. CASE n = Leaf(v)
      <3>1. n = <<0, v \div Span[0]>> /\ 0 \in 0..Levels
        BY <1>0, <2>2, TablePlace DEF Leaf
      <3> QED BY <3>1, <1>2
    <2>3. CASE n \in TablesTo(v)
      <3>1. PICK k \in 1..Levels : n = <<k, v \div Span[k]>>
        BY <2>3 DEF TablesTo
      <3>2. k \in 0..Levels
        BY <1>0
      <3> QED BY <3>1, <3>2, <1>2
    <2> QED BY <2>1, <2>2, <2>3
  <1>4. \A n \in DOMAIN tree : n = Root \/ <<n[1] + 1, n[2] \div Fan>> \in D
    BY DEF Closed
  <1> QED
    BY <1>3, <1>4 DEF Closed

\* Taking leaves away leaves a tree.
LEMMA WithoutClosed ==
    ASSUME NEW tree, NEW pages, Closed(DOMAIN tree), DOMAIN tree \subseteq Grid
    PROVE  /\ DOMAIN Without(tree, pages) = DOMAIN tree \ {Leaf(v) : v \in pages}
           /\ \A n \in DOMAIN Without(tree, pages) : Without(tree, pages)[n] = tree[n]
           /\ Closed(DOMAIN Without(tree, pages))
  <1>1. DOMAIN Without(tree, pages) = DOMAIN tree \ {Leaf(v) : v \in pages}
        /\ \A n \in DOMAIN Without(tree, pages) : Without(tree, pages)[n] = tree[n]
    BY DEF Without
  <1>2. ASSUME NEW n \in DOMAIN tree, NEW v \in pages
        PROVE  <<n[1] + 1, n[2] \div Fan>> # Leaf(v)
    <2>1. n[1] \in 0..Levels
      BY DEF Grid
    <2>2. n[1] + 1 # 0
      BY <2>1
    <2> QED BY <2>2 DEF Leaf
  <1> QED
    BY <1>1, <1>2 DEF Closed

LEMMA OverrideDef ==
    ASSUME NEW tree, NEW new
    PROVE  /\ DOMAIN Override(tree, new) = DOMAIN tree \cup DOMAIN new
           /\ \A n \in DOMAIN new : Override(tree, new)[n] = new[n]
           /\ \A n \in DOMAIN tree \ DOMAIN new : Override(tree, new)[n] = tree[n]
  BY DEF Override

-----------------------------------------------------------------------------
(* What tasks hold.                                                        *)

\* A task's page table and the frames beside it have different names.
LEMMA HeldDef ==
    ASSUME NEW t, DOMAIN t.tree \subseteq Grid
    PROVE  /\ DOMAIN Held(t) = DOMAIN t.tree \cup DOMAIN Beside(t)
           /\ \A n \in DOMAIN t.tree : Held(t)[n] = t.tree[n]
           /\ \A x \in DOMAIN Beside(t) : x \notin DOMAIN t.tree /\ Held(t)[x] = Beside(t)[x]
  <1>1. DOMAIN Beside(t) \subseteq {Meta, Kstack, Self}
    BY DEF Beside
  <1>2. \A x \in DOMAIN t.tree : x[1] # -1
    BY DEF Grid
  <1>3. \A x \in DOMAIN Beside(t) : x[1] = -1
    BY <1>1 DEF Meta, Kstack, Self
  <1>4. \A x \in DOMAIN Beside(t) : x \notin DOMAIN t.tree
    BY <1>2, <1>3
  <1>5. /\ DOMAIN Override(t.tree, Beside(t)) = DOMAIN t.tree \cup DOMAIN Beside(t)
        /\ \A n \in DOMAIN Beside(t) : Override(t.tree, Beside(t))[n] = Beside(t)[n]
        /\ \A n \in DOMAIN t.tree \ DOMAIN Beside(t) : Override(t.tree, Beside(t))[n] = t.tree[n]
    BY OverrideDef
  <1> QED
    BY <1>4, <1>5 DEF Held

LEMMA BesideDef ==
    ASSUME NEW t
    PROVE  /\ Meta \in DOMAIN Beside(t) <=> t.state = "live"
           /\ Kstack \in DOMAIN Beside(t) <=> t.state \in {"live", "zombie"}
           /\ Self \in DOMAIN Beside(t) <=> t.state \in {"live", "zombie"} /\ t.self # 0
           /\ DOMAIN Beside(t) \subseteq {Meta, Kstack, Self}
           /\ Meta \in DOMAIN Beside(t) => Beside(t)[Meta] = t.meta
           /\ Kstack \in DOMAIN Beside(t) => Beside(t)[Kstack] = t.kstack
           /\ Self \in DOMAIN Beside(t) => Beside(t)[Self] = t.self
  <1>1. Meta # Kstack /\ Meta # Self /\ Kstack # Self
    BY DEF Meta, Kstack, Self
  <1> QED
    BY <1>1 DEF Beside

\* Tasks with the same frames beside their tables.
LEMMA BesideSame ==
    ASSUME NEW t, NEW s, t.state = s.state, t.meta = s.meta, t.kstack = s.kstack, t.self = s.self
    PROVE  Beside(t) = Beside(s)
  BY DEF Beside

-----------------------------------------------------------------------------
(* The inductive invariant.                                                *)

IsTask(t) ==
    DOMAIN t = {"state", "parent", "tree", "code", "meta", "user_stack", "kstack", "self",
                "brk_start", "brk_current", "mmap_base", "entry"}

\* A task_t: only a live process has a page table, which is a tree; the children
\* of fork, and only they, have a task_t in a frame.
TaskInv(t) ==
    /\ IsTask(t)
    /\ t.state \in {"none", "live", "zombie", "gone"}
    /\ DOMAIN t.tree \subseteq Grid
    /\ Closed(DOMAIN t.tree)
    /\ t.state # "live" => DOMAIN t.tree = {}
    /\ t.brk_start \in Nat /\ t.brk_current \in Nat /\ t.brk_start <= t.brk_current
    /\ t.mmap_base \in Nat
    /\ t.parent \in Tasks \cup {Nobody}
    /\ t.state \in {"live", "zombie"} /\ t.parent # Nobody => t.self # 0

\* Nobody holds a frame that the allocator thinks is free, nor frame 0.
Owned(u, T) ==
    \A t \in Tasks : \A x \in DOMAIN Held(T[t]) : Held(T[t])[x] \in u /\ Held(T[t])[x] # 0

\* A frame has one holder, who holds it for one thing.
Single(T) ==
    \A s, t \in Tasks : \A x \in DOMAIN Held(T[s]), y \in DOMAIN Held(T[t]) :
        Held(T[s])[x] = Held(T[t])[y] => s = t /\ x = y

TasksInv ==
    /\ task = [t \in Tasks |-> task[t]]
    /\ \A t \in Tasks : TaskInv(task[t])
    /\ used \subseteq Frames
    /\ torn \in BOOLEAN /\ calls \in 0..MaxCalls

\* What the first tear-down ends.
FramesInv == 0 \in used /\ Owned(used, task) /\ Single(task)

IInv == TasksInv /\ (~torn => FramesInv)

\* A task holds more: each of its frames it held for the same thing before, or
\* it was free, and no two of these are the same.
LEMMA Grows ==
    ASSUME NEW u, NEW w, NEW T, NEW T2, NEW p \in Tasks,
           Owned(u, T), Single(T), u \subseteq w, 0 \in u,
           \A t \in Tasks \ {p} : T2[t] = T[t],
           \A x \in DOMAIN Held(T2[p]) :
              \/ x \in DOMAIN Held(T[p]) /\ Held(T2[p])[x] = Held(T[p])[x]
              \/ Held(T2[p])[x] \in w \ u,
           \A x, y \in DOMAIN Held(T2[p]) :
              Held(T2[p])[x] = Held(T2[p])[y] /\ Held(T2[p])[x] \notin u => x = y
    PROVE  Owned(w, T2) /\ Single(T2)
  <1>1. ASSUME NEW t \in Tasks, NEW x \in DOMAIN Held(T2[t])
        PROVE  /\ Held(T2[t])[x] \in w /\ Held(T2[t])[x] # 0
               /\ Held(T2[t])[x] \in u => x \in DOMAIN Held(T[t]) /\ Held(T2[t])[x] = Held(T[t])[x]
               /\ Held(T2[t])[x] \notin u => t = p
    <2>1. CASE t = p
      BY <2>1 DEF Owned
    <2>2. CASE t # p
      BY <2>2 DEF Owned
    <2> QED BY <2>1, <2>2
  <1>2. ASSUME NEW s \in Tasks, NEW t \in Tasks,
               NEW x \in DOMAIN Held(T2[s]), NEW y \in DOMAIN Held(T2[t]),
               Held(T2[s])[x] = Held(T2[t])[y]
        PROVE  s = t /\ x = y
    <2>1. CASE Held(T2[s])[x] \in u
      <3>1. /\ x \in DOMAIN Held(T[s]) /\ Held(T2[s])[x] = Held(T[s])[x]
            /\ y \in DOMAIN Held(T[t]) /\ Held(T2[t])[y] = Held(T[t])[y]
        BY <1>1, <1>2, <2>1
      <3>2. Held(T[s])[x] = Held(T[t])[y]
        BY <3>1, <1>2
      <3> HIDE DEF Held
      <3> QED BY <3>1, <3>2 DEF Single
    <2>2. CASE Held(T2[s])[x] \notin u
      <3>1. s = p /\ t = p
        BY <1>1, <1>2, <2>2
      <3> QED BY <3>1, <1>2, <2>2
    <2> QED BY <2>1, <2>2
  <1> QED
    BY <1>1, <1>2 DEF Owned, Single

\* Tasks hold less: what they still hold they held for the same thing before,
\* and what is given back is held no more.
LEMMA Shrinks ==
    ASSUME NEW u, NEW w, NEW T, NEW T2,
           Owned(u, T), Single(T), 0 \in u, w \subseteq u,
           \A t \in Tasks : \A x \in DOMAIN Held(T2[t]) :
              x \in DOMAIN Held(T[t]) /\ Held(T2[t])[x] = Held(T[t])[x],
           \A f \in u \ w : \E t \in Tasks : \E x \in DOMAIN Held(T[t]) :
              Held(T[t])[x] = f /\ x \notin DOMAIN Held(T2[t])
    PROVE  0 \in w /\ Owned(w, T2) /\ Single(T2)
  <1> HIDE DEF Held
  <1>1. 0 \in w
    BY DEF Owned
  <1>2. ASSUME NEW t \in Tasks, NEW x \in DOMAIN Held(T2[t]), Held(T2[t])[x] \notin w
        PROVE  FALSE
    <2>1. x \in DOMAIN Held(T[t]) /\ Held(T[t])[x] = Held(T2[t])[x] /\ Held(T[t])[x] \in u \ w
      BY <1>2 DEF Owned
    <2>2. PICK s \in Tasks : \E y \in DOMAIN Held(T[s]) :
                Held(T[s])[y] = Held(T[t])[x] /\ y \notin DOMAIN Held(T2[s])
      BY <2>1
    <2>3. PICK y \in DOMAIN Held(T[s]) :
                Held(T[s])[y] = Held(T[t])[x] /\ y \notin DOMAIN Held(T2[s])
      BY <2>2
    <2>4. s = t /\ y = x
      BY <2>1, <2>3 DEF Single
    <2> QED BY <2>3, <2>4
  <1>3. Owned(w, T2)
    BY <1>2 DEF Owned
  <1>4. Single(T2)
    BY DEF Single
  <1> QED
    BY <1>1, <1>3, <1>4

-----------------------------------------------------------------------------
(* The actions.                                                            *)

\* New frames for nodes of p's table.
LEMMA MapStep ==
    ASSUME NEW u, NEW T, NEW p \in Tasks, NEW T2, NEW new, NEW w,
           Owned(u, T), Single(T), 0 \in u, u \cup FramesIn(new) \subseteq w,
           DOMAIN T[p].tree \subseteq Grid, DOMAIN new \subseteq Grid,
           Injective(new), \A n \in DOMAIN new : new[n] \notin u,
           T2[p].tree = Override(T[p].tree, new),
           T2[p].state = T[p].state, T2[p].meta = T[p].meta, T2[p].kstack = T[p].kstack,
           T2[p].self = T[p].self,
           \A t \in Tasks \ {p} : T2[t] = T[t]
    PROVE  Owned(w, T2) /\ Single(T2)
  <1>1. Beside(T2[p]) = Beside(T[p])
    BY BesideSame
  <1>2. /\ DOMAIN T2[p].tree = DOMAIN T[p].tree \cup DOMAIN new
        /\ \A n \in DOMAIN new : T2[p].tree[n] = new[n]
        /\ \A n \in DOMAIN T[p].tree \ DOMAIN new : T2[p].tree[n] = T[p].tree[n]
    <2> DEFINE tree == T[p].tree
    <2> HIDE DEF tree
    <2>1. /\ DOMAIN Override(tree, new) = DOMAIN tree \cup DOMAIN new
          /\ \A n \in DOMAIN new : Override(tree, new)[n] = new[n]
          /\ \A n \in DOMAIN tree \ DOMAIN new : Override(tree, new)[n] = tree[n]
      BY OverrideDef
    <2>2. T2[p].tree = Override(tree, new)
      BY DEF tree
    <2> QED BY <2>1, <2>2 DEF tree
  <1>3. /\ DOMAIN Held(T2[p]) = DOMAIN T2[p].tree \cup DOMAIN Beside(T[p])
        /\ \A n \in DOMAIN T2[p].tree : Held(T2[p])[n] = T2[p].tree[n]
        /\ \A x \in DOMAIN Beside(T[p]) : x \notin DOMAIN T2[p].tree /\ Held(T2[p])[x] = Beside(T[p])[x]
    <2>1. DOMAIN T2[p].tree \subseteq Grid
      BY <1>2
    <2>2. /\ DOMAIN Held(T2[p]) = DOMAIN T2[p].tree \cup DOMAIN Beside(T2[p])
          /\ \A n \in DOMAIN T2[p].tree : Held(T2[p])[n] = T2[p].tree[n]
          /\ \A x \in DOMAIN Beside(T2[p]) : x \notin DOMAIN T2[p].tree /\ Held(T2[p])[x] = Beside(T2[p])[x]
      BY <2>1, HeldDef
    <2> QED BY <1>1, <2>2
  <1>4. /\ DOMAIN Held(T[p]) = DOMAIN T[p].tree \cup DOMAIN Beside(T[p])
        /\ \A n \in DOMAIN T[p].tree : Held(T[p])[n] = T[p].tree[n]
        /\ \A x \in DOMAIN Beside(T[p]) : x \notin DOMAIN T[p].tree
                                          /\ Held(T[p])[x] = Beside(T[p])[x]
    BY HeldDef
  <1>5. ASSUME NEW x \in DOMAIN Held(T2[p])
        PROVE  \/ x \in DOMAIN new /\ Held(T2[p])[x] = new[x] /\ new[x] \in w \ u
               \/ /\ x \notin DOMAIN new /\ x \in DOMAIN Held(T[p])
                  /\ Held(T2[p])[x] = Held(T[p])[x] /\ Held(T2[p])[x] \in u
    <2>1. CASE x \in DOMAIN new
      <3>1. new[x] \in FramesIn(new)
        BY <2>1 DEF FramesIn
      <3> QED BY <2>1, <3>1, <1>2, <1>3
    <2>2. CASE x \notin DOMAIN new
      <3>1. x \in DOMAIN Held(T[p]) /\ Held(T2[p])[x] = Held(T[p])[x]
        BY <2>2, <1>2, <1>3, <1>4
      <3> QED BY <2>2, <3>1 DEF Owned
    <2> QED BY <2>1, <2>2
  <1>6. \A x, y \in DOMAIN Held(T2[p]) : Held(T2[p])[x] = Held(T2[p])[y] /\ Held(T2[p])[x] \notin u => x = y
    BY <1>5 DEF Injective
  <1> QED
    BY <1>5, <1>6, Grows

\* What an action does to the table of tasks.
LEMMA TasksStep ==
    ASSUME TasksInv, NEW p \in Tasks, NEW t2, TaskInv(t2),
           task' = [task EXCEPT ![p] = t2],
           used' \subseteq Frames, torn' \in BOOLEAN, calls' \in 0..MaxCalls
    PROVE  /\ TasksInv'
           /\ task'[p] = t2
           /\ \A t \in Tasks \ {p} : task'[t] = task[t]
  <1>1. task'[p] = t2 /\ (\A t \in Tasks \ {p} : task'[t] = task[t])
        /\ task' = [t \in Tasks |-> task'[t]]
    BY DEF TasksInv
  <1>2. \A t \in Tasks : TaskInv(task'[t])
    <2> HIDE DEF TaskInv
    <2> QED BY <1>1 DEF TasksInv
  <1> QED
    BY <1>1, <1>2 DEF TasksInv

\* A task_t with another page table.
LEMMA TreeField ==
    ASSUME NEW t, TaskInv(t), NEW tree
    PROVE  LET s == [t EXCEPT !.tree = tree]
           IN  /\ IsTask(s) /\ s.tree = tree
               /\ s.state = t.state /\ s.meta = t.meta /\ s.kstack = t.kstack /\ s.self = t.self
               /\ t.state = "live" /\ DOMAIN tree \subseteq Grid /\ Closed(DOMAIN tree) => TaskInv(s)
  <1> DEFINE s == [t EXCEPT !.tree = tree]
  <1>1. IsTask(s) /\ s.tree = tree
    BY DEF TaskInv, IsTask
  <1>2. /\ s.state = t.state /\ s.meta = t.meta /\ s.kstack = t.kstack /\ s.self = t.self
        /\ s.parent = t.parent /\ s.brk_start = t.brk_start /\ s.brk_current = t.brk_current
        /\ s.mmap_base = t.mmap_base
    BY DEF TaskInv, IsTask
  <1> HIDE DEF s
  <1>3. t.state = "live" /\ DOMAIN tree \subseteq Grid /\ Closed(DOMAIN tree) => TaskInv(s)
    BY <1>1, <1>2 DEF TaskInv
  <1> QED
    BY <1>1, <1>2, <1>3 DEF s

\* The frames for the nodes that mapping user pages wants.
LEMMA WantedFresh ==
    ASSUME NEW tree, DOMAIN tree \subseteq Grid, NEW pages \in SUBSET UserPages, NEW taken,
           NEW nodes \in SUBSET Wanted(tree, pages), Room(taken, Cardinality(nodes))
    PROVE  /\ nodes \subseteq Grid
           /\ DOMAIN Fresh(taken, nodes) = nodes
           /\ \A n \in nodes : Fresh(taken, nodes)[n] \in Frames \ taken
           /\ FramesIn(Fresh(taken, nodes)) \subseteq Frames \ taken
           /\ Injective(Fresh(taken, nodes))
  <1>1. nodes \subseteq Grid
    BY WantedGrid
  <1>2. nodes \in SUBSET Node /\ IsFiniteSet(nodes)
    BY <1>1, GridFinite
  <1>3. /\ DOMAIN Fresh(taken, nodes) = nodes
        /\ \A n \in nodes : Fresh(taken, nodes)[n] \in Frames \ taken
        /\ Injective(Fresh(taken, nodes))
    BY <1>2, FreshGives
  <1>4. FramesIn(Fresh(taken, nodes)) \subseteq Frames \ taken
    BY <1>3 DEF FramesIn
  <1> QED
    BY <1>1, <1>3, <1>4

\* The frames that get lost are those of pages that were mapped over.
Accounted ==
    \A f \in Lost' \ Lost :
      \E t \in Tasks : \E n \in LeavesOf(task[t].tree) :
        task[t].tree[n] = f /\ n \in DOMAIN task'[t].tree /\ task'[t].tree[n] # f

LEMMA MapAccounts ==
    ASSUME NEW p \in Tasks, NEW new, NEW pages \in SUBSET UserPages,
           DOMAIN task[p].tree \subseteq Grid,
           DOMAIN new = Wanted(task[p].tree, pages), DOMAIN new \subseteq Grid,
           used' = used \cup FramesIn(new),
           task'[p].tree = Override(task[p].tree, new),
           Beside(task'[p]) = Beside(task[p]),
           \A s \in Tasks \ {p} : task'[s] = task[s]
    PROVE  Accounted
  <1> DEFINE tree == task[p].tree
  <1>1. /\ DOMAIN task'[p].tree = DOMAIN tree \cup DOMAIN new
        /\ \A n \in DOMAIN new : task'[p].tree[n] = new[n]
        /\ \A n \in DOMAIN tree \ DOMAIN new : task'[p].tree[n] = tree[n]
    <2> HIDE DEF tree
    <2>1. /\ DOMAIN Override(tree, new) = DOMAIN tree \cup DOMAIN new
          /\ \A n \in DOMAIN new : Override(tree, new)[n] = new[n]
          /\ \A n \in DOMAIN tree \ DOMAIN new : Override(tree, new)[n] = tree[n]
      BY OverrideDef
    <2> QED BY <2>1 DEF tree
  <1>2. DOMAIN task'[p].tree \subseteq Grid
    BY <1>1
  <1>3. /\ DOMAIN Held(task[p]) = DOMAIN task[p].tree \cup DOMAIN Beside(task[p])
        /\ \A n \in DOMAIN task[p].tree : Held(task[p])[n] = task[p].tree[n]
        /\ \A x \in DOMAIN Beside(task[p]) : Held(task[p])[x] = Beside(task[p])[x]
    BY HeldDef
  <1>4. /\ DOMAIN Held(task'[p]) = DOMAIN task'[p].tree \cup DOMAIN Beside(task'[p])
        /\ \A n \in DOMAIN task'[p].tree : Held(task'[p])[n] = task'[p].tree[n]
        /\ \A x \in DOMAIN Beside(task'[p]) : Held(task'[p])[x] = Beside(task'[p])[x]
    BY <1>2, HeldDef
  <1>5. \A n \in DOMAIN new : n \in DOMAIN tree => n[1] = 0
    BY WantedGrid DEF Leaf
  <1> HIDE DEF Held
  <1> SUFFICES ASSUME NEW f \in Lost' \ Lost
               PROVE  \E t \in Tasks : \E n \in LeavesOf(task[t].tree) :
                        task[t].tree[n] = f /\ n \in DOMAIN task'[t].tree /\ task'[t].tree[n] # f
    BY DEF Accounted
  <1>6. \A s \in Tasks : \A x \in DOMAIN Held(task'[s]) : f # Held(task'[s])[x]
    BY DEF Lost, FramesIn
  <1>7. f \in used /\ f # 0
    <2>1. f \in used \cup FramesIn(new) /\ f # 0
      BY DEF Lost
    <2>2. ASSUME NEW n \in DOMAIN new, f = new[n] PROVE FALSE
      BY <1>1, <1>4, <1>6, <2>2
    <2> QED BY <2>1, <2>2 DEF FramesIn
  <1>8. PICK s \in Tasks : \E x \in DOMAIN Held(task[s]) : f = Held(task[s])[x]
    BY <1>7 DEF Lost, FramesIn
  <1>9. PICK x \in DOMAIN Held(task[s]) : f = Held(task[s])[x]
    BY <1>8
  <1>10. s = p
    BY <1>6, <1>9
  <1>11. x \in DOMAIN tree /\ x \in DOMAIN new
    <2>1. x \notin DOMAIN Beside(task[p])
      BY <1>3, <1>4, <1>6, <1>9, <1>10
    <2>2. x \in DOMAIN tree
      BY <1>3, <1>9, <1>10, <2>1
    <2>3. CASE x \notin DOMAIN new
      <3>1. x \in DOMAIN task'[p].tree /\ task'[p].tree[x] = tree[x]
        BY <1>1, <2>2, <2>3
      <3>2. x \in DOMAIN Held(task'[p]) /\ Held(task'[p])[x] = f
        BY <1>3, <1>4, <1>9, <1>10, <2>2, <3>1
      <3> QED BY <1>6, <3>2
    <2> QED BY <2>2, <2>3
  <1>12. x \in LeavesOf(task[p].tree) /\ task[p].tree[x] = f
    BY <1>3, <1>5, <1>9, <1>10, <1>11 DEF LeavesOf
  <1>13. x \in DOMAIN task'[p].tree /\ task'[p].tree[x] # f
    BY <1>1, <1>4, <1>6, <1>11
  <1> QED
    BY <1>12, <1>13

\* MapPages with frames that are not in taken.
MapsFrom(taken, p, t, pages) ==
    LET new == Fresh(taken, Wanted(t.tree, pages))
    IN  /\ Room(taken, Cardinality(Wanted(t.tree, pages)))
        /\ used' = used \cup FramesIn(new)
        /\ task' = [task EXCEPT ![p] = [t EXCEPT !.tree = Override(t.tree, new)]]

\* A call that maps new frames for pages keeps the invariant, and what it loses
\* is accounted for.
LEMMA MapKeeps ==
    ASSUME IInv, ~torn, torn' = torn, calls' \in 0..MaxCalls,
           NEW p \in Tasks, NEW t, TaskInv(t), t.state = "live",
           t.tree = task[p].tree, task[p].state = "live", t.meta = task[p].meta,
           t.kstack = task[p].kstack, t.self = task[p].self,
           NEW pages \in SUBSET UserPages, NEW taken, used \subseteq taken,
           MapsFrom(taken, p, t, pages)
    PROVE  IInv' /\ Accounted
  <1> DEFINE W   == Wanted(t.tree, pages)
             new == Fresh(taken, W)
             t2  == [t EXCEPT !.tree = Override(t.tree, new)]
  <1>1. /\ Room(taken, Cardinality(W))
        /\ used' = used \cup FramesIn(new)
        /\ task' = [task EXCEPT ![p] = t2]
    BY DEF MapsFrom
  <1>2. DOMAIN t.tree \subseteq Grid /\ Closed(DOMAIN t.tree)
    BY DEF TaskInv
  <1>3. /\ DOMAIN new = W /\ W \subseteq Grid /\ Injective(new)
        /\ \A n \in DOMAIN new : new[n] \notin used
        /\ FramesIn(new) \subseteq Frames
    <2>0. W = Wanted(t.tree, pages)
      OBVIOUS
    <2> HIDE DEF W
    <2>1. W \subseteq Wanted(t.tree, pages)
      BY <2>0
    <2> QED BY <1>1, <1>2, <2>1, WantedFresh
  <1>4. DOMAIN Override(t.tree, new) = DOMAIN t.tree \cup W
    <2> HIDE DEF new
    <2> QED BY <1>3 DEF Override
  <1>5. /\ DOMAIN Override(t.tree, new) \subseteq Grid
        /\ Closed(DOMAIN Override(t.tree, new))
    BY <1>2, <1>3, <1>4, WantedClosed
  <1>6. /\ TaskInv(t2) /\ t2.tree = Override(t.tree, new)
        /\ t2.state = t.state /\ t2.meta = t.meta /\ t2.kstack = t.kstack /\ t2.self = t.self
    <2> HIDE DEF new
    <2> QED BY <1>5, TreeField
  <1>7. used \subseteq Frames /\ TasksInv /\ FramesInv
    BY DEF IInv, TasksInv
  <1>8. DOMAIN new = Wanted(task[p].tree, pages)
    BY <1>3
  <1> HIDE DEF W, new, t2
  <1>9. /\ TasksInv' /\ task'[p] = t2
        /\ \A s \in Tasks \ {p} : task'[s] = task[s]
    BY <1>1, <1>3, <1>6, <1>7, TasksStep DEF TasksInv
  <1>10. /\ DOMAIN task[p].tree \subseteq Grid
         /\ t2.tree = Override(task[p].tree, new) /\ t2.state = task[p].state
         /\ t2.meta = task[p].meta /\ t2.kstack = task[p].kstack /\ t2.self = task[p].self
    BY <1>2, <1>6
  <1>11. Owned(used', task') /\ Single(task')
    <2>1. Owned(used, task) /\ Single(task) /\ 0 \in used
      BY <1>7 DEF FramesInv
    <2>2. used \cup FramesIn(new) \subseteq used'
      BY <1>1
    <2>3. /\ task'[p].tree = Override(task[p].tree, new) /\ task'[p].state = task[p].state
          /\ task'[p].meta = task[p].meta /\ task'[p].kstack = task[p].kstack
          /\ task'[p].self = task[p].self
      BY <1>9, <1>10
    <2>4. /\ DOMAIN new \subseteq Grid /\ Injective(new)
          /\ \A n \in DOMAIN new : new[n] \notin used
          /\ \A s \in Tasks \ {p} : task'[s] = task[s]
      BY <1>3, <1>9
    <2> QED
      BY <1>10, <2>1, <2>2, <2>3, <2>4, MapStep
  <1>12. 0 \in used'
    BY <1>1, <1>7 DEF FramesInv
  <1>13. Beside(task'[p]) = Beside(task[p])
    BY <1>9, <1>10, BesideSame
  <1>14. Accounted
    BY <1>1, <1>3, <1>8, <1>9, <1>10, <1>13, MapAccounts
  <1> QED
    BY <1>9, <1>11, <1>12, <1>14 DEF IInv, FramesInv

\* map_pages.
LEMMA MapPagesKeeps ==
    ASSUME IInv, ~torn, torn' = torn, calls' \in 0..MaxCalls,
           NEW p \in Tasks, NEW t, TaskInv(t), t.state = "live",
           t.tree = task[p].tree, task[p].state = "live", t.meta = task[p].meta,
           t.kstack = task[p].kstack, t.self = task[p].self,
           NEW pages \in SUBSET UserPages, MapPages(p, t, pages)
    PROVE  IInv' /\ Accounted
  <1>1. MapsFrom(used, p, t, pages)
    BY DEF MapPages, MapsFrom
  <1>2. used \subseteq used
    OBVIOUS
  <1> QED
    BY <1>1, <1>2, MapKeeps

\* What a task holds once pages are unmapped, and what it has given back.
LEMMA UnmapStep ==
    ASSUME NEW t, NEW s, NEW pages, DOMAIN t.tree \subseteq Grid, Closed(DOMAIN t.tree),
           s.tree = Without(t.tree, pages),
           s.state = t.state, s.meta = t.meta, s.kstack = t.kstack, s.self = t.self
    PROVE  /\ \A x \in DOMAIN Held(s) : x \in DOMAIN Held(t) /\ Held(s)[x] = Held(t)[x]
           /\ \A x \in DOMAIN Held(t) :
                x \notin DOMAIN Held(s) => Held(t)[x] \in Unmapped(t.tree, pages)
           /\ \A f \in Unmapped(t.tree, pages) :
                \E x \in DOMAIN Held(t) : Held(t)[x] = f /\ x \notin DOMAIN Held(s)
  <1> DEFINE L == {Leaf(v) : v \in pages}
  <1>0. /\ DOMAIN s.tree = DOMAIN t.tree \ L
        /\ \A n \in DOMAIN s.tree : s.tree[n] = t.tree[n]
        /\ DOMAIN s.tree \subseteq Grid
    <2> DEFINE tree == t.tree
    <2>1. Closed(DOMAIN tree) /\ DOMAIN tree \subseteq Grid
      OBVIOUS
    <2> HIDE DEF tree
    <2>2. /\ DOMAIN Without(tree, pages) = DOMAIN tree \ L
          /\ \A n \in DOMAIN Without(tree, pages) : Without(tree, pages)[n] = tree[n]
      BY DEF Without
    <2> QED BY <2>2 DEF tree
  <1>1. Beside(s) = Beside(t)
    BY BesideSame
  <1>2. /\ DOMAIN Held(s) = DOMAIN s.tree \cup DOMAIN Beside(t)
        /\ \A n \in DOMAIN s.tree : Held(s)[n] = s.tree[n]
        /\ \A x \in DOMAIN Beside(t) : x \notin DOMAIN s.tree /\ Held(s)[x] = Beside(t)[x]
    <2>2. /\ DOMAIN Held(s) = DOMAIN s.tree \cup DOMAIN Beside(s)
          /\ \A n \in DOMAIN s.tree : Held(s)[n] = s.tree[n]
          /\ \A x \in DOMAIN Beside(s) : x \notin DOMAIN s.tree /\ Held(s)[x] = Beside(s)[x]
      BY <1>0, HeldDef
    <2> QED BY <1>1, <2>2
  <1>3. /\ DOMAIN Held(t) = DOMAIN t.tree \cup DOMAIN Beside(t)
        /\ \A n \in DOMAIN t.tree : Held(t)[n] = t.tree[n]
        /\ \A x \in DOMAIN Beside(t) : x \notin DOMAIN t.tree /\ Held(t)[x] = Beside(t)[x]
    BY HeldDef
  <1>4. Unmapped(t.tree, pages) = {t.tree[n] : n \in DOMAIN t.tree \cap L}
    BY DEF Unmapped
  <1> HIDE DEF L
  <1>5. \A x \in DOMAIN Held(s) : x \in DOMAIN Held(t) /\ Held(s)[x] = Held(t)[x]
    BY <1>0, <1>2, <1>3
  <1>6. \A x \in DOMAIN Held(t) :
          x \notin DOMAIN Held(s) => Held(t)[x] \in Unmapped(t.tree, pages)
    BY <1>0, <1>2, <1>3, <1>4
  <1>7. \A f \in Unmapped(t.tree, pages) :
          \E x \in DOMAIN Held(t) : Held(t)[x] = f /\ x \notin DOMAIN Held(s)
    BY <1>0, <1>2, <1>3, <1>4
  <1> QED
    BY <1>5, <1>6, <1>7

\* A call that gives frames back, those of what some tasks hold no more, keeps
\* the invariant and loses no frame.
LEMMA Releases ==
    ASSUME IInv, ~torn, TasksInv', used' \subseteq used,
           \A s \in Tasks : \A x \in DOMAIN Held(task'[s]) :
              x \in DOMAIN Held(task[s]) /\ Held(task'[s])[x] = Held(task[s])[x],
           \A s \in Tasks : \A x \in DOMAIN Held(task[s]) :
              x \notin DOMAIN Held(task'[s]) => Held(task[s])[x] \notin used',
           \A f \in used \ used' : \E s \in Tasks : \E x \in DOMAIN Held(task[s]) :
              Held(task[s])[x] = f /\ x \notin DOMAIN Held(task'[s])
    PROVE  IInv' /\ Lost' \subseteq Lost
  <1> HIDE DEF Held
  <1>1. 0 \in used' /\ Owned(used', task') /\ Single(task')
    <2>1. Owned(used, task) /\ Single(task) /\ 0 \in used
      BY DEF IInv, FramesInv
    <2> QED BY <2>1, Shrinks
  <1>2. ASSUME NEW f \in Lost'
        PROVE  f \in Lost
    <2>1. f \in used /\ f \in used' /\ f # 0
      BY DEF Lost
    <2>2. \A s \in Tasks : \A x \in DOMAIN Held(task'[s]) : f # Held(task'[s])[x]
      BY DEF Lost, FramesIn
    <2>3. ASSUME NEW s \in Tasks, NEW x \in DOMAIN Held(task[s]), f = Held(task[s])[x]
          PROVE  FALSE
      BY <2>1, <2>2, <2>3
    <2> QED BY <2>1, <2>3 DEF Lost, FramesIn
  <1> QED
    BY <1>1, <1>2 DEF IInv, FramesInv

\* unmap_pages keeps the invariant and loses no frame.
LEMMA UnmapPagesKeeps ==
    ASSUME IInv, ~torn, torn' = torn, calls' \in 0..MaxCalls,
           NEW p \in Tasks, NEW t, TaskInv(t), t.state = "live",
           t.tree = task[p].tree, task[p].state = "live", t.meta = task[p].meta,
           t.kstack = task[p].kstack, t.self = task[p].self,
           NEW pages, UnmapPages(p, t, pages)
    PROVE  IInv' /\ Lost' \subseteq Lost
  <1> DEFINE rest == Without(t.tree, pages)
             t2   == [t EXCEPT !.tree = rest]
  <1>1. used' = used \ Unmapped(t.tree, pages) /\ task' = [task EXCEPT ![p] = t2]
    BY DEF UnmapPages
  <1>2. DOMAIN t.tree \subseteq Grid /\ Closed(DOMAIN t.tree)
    BY DEF TaskInv
  <1>3. /\ DOMAIN rest = DOMAIN t.tree \ {Leaf(v) : v \in pages}
        /\ \A n \in DOMAIN rest : rest[n] = t.tree[n]
        /\ Closed(DOMAIN rest)
    BY <1>2, WithoutClosed
  <1> HIDE DEF rest
  <1>4. /\ TaskInv(t2) /\ t2.tree = rest
        /\ t2.state = t.state /\ t2.meta = t.meta /\ t2.kstack = t.kstack /\ t2.self = t.self
    <2>1. DOMAIN rest \subseteq Grid
      BY <1>2, <1>3
    <2> QED BY <2>1, <1>3, TreeField
  <1>5. used \subseteq Frames /\ TasksInv /\ FramesInv
    BY DEF IInv, TasksInv
  <1> HIDE DEF t2
  <1>6. /\ TasksInv' /\ task'[p] = t2
        /\ \A s \in Tasks \ {p} : task'[s] = task[s]
    BY <1>1, <1>4, <1>5, TasksStep DEF TasksInv
  <1> HIDE DEF Held, Leaf
  <1>7. /\ \A s \in Tasks : \A x \in DOMAIN Held(task'[s]) :
             x \in DOMAIN Held(task[s]) /\ Held(task'[s])[x] = Held(task[s])[x]
        /\ \A s \in Tasks : \A x \in DOMAIN Held(task[s]) :
             x \notin DOMAIN Held(task'[s]) => Held(task[s])[x] \in Unmapped(t.tree, pages)
        /\ \A f \in Unmapped(t.tree, pages) :
             \E x \in DOMAIN Held(task[p]) :
                Held(task[p])[x] = f /\ x \notin DOMAIN Held(task'[p])
    <2>1. DOMAIN task[p].tree \subseteq Grid /\ Closed(DOMAIN task[p].tree)
      BY <1>2
    <2>2. task'[p].tree = Without(task[p].tree, pages)
      BY <1>4, <1>6 DEF rest
    <2>3. /\ task'[p].state = task[p].state /\ task'[p].meta = task[p].meta
          /\ task'[p].kstack = task[p].kstack /\ task'[p].self = task[p].self
      BY <1>4, <1>6
    <2>4. /\ \A x \in DOMAIN Held(task'[p]) :
                x \in DOMAIN Held(task[p]) /\ Held(task'[p])[x] = Held(task[p])[x]
          /\ \A x \in DOMAIN Held(task[p]) :
                x \notin DOMAIN Held(task'[p]) => Held(task[p])[x] \in Unmapped(task[p].tree, pages)
          /\ \A f \in Unmapped(task[p].tree, pages) :
                \E x \in DOMAIN Held(task[p]) :
                  Held(task[p])[x] = f /\ x \notin DOMAIN Held(task'[p])
      BY <2>1, <2>2, <2>3, UnmapStep
    <2> QED BY <1>6, <2>4
  <1>8. /\ used' \subseteq used
        /\ \A s \in Tasks : \A x \in DOMAIN Held(task[s]) :
             x \notin DOMAIN Held(task'[s]) => Held(task[s])[x] \notin used'
        /\ \A f \in used \ used' : \E s \in Tasks : \E x \in DOMAIN Held(task[s]) :
             Held(task[s])[x] = f /\ x \notin DOMAIN Held(task'[s])
    BY <1>1, <1>7
  <1> QED
    BY <1>6, <1>7, <1>8, Releases

-----------------------------------------------------------------------------
(* The system calls.                                                       *)

LEMMA CallFacts ==
    ASSUME IInv, NEW p \in Tasks, Call(p)
    PROVE  /\ ~torn /\ TasksInv /\ FramesInv /\ TaskInv(task[p])
           /\ task[p].state = "live" /\ calls' \in 0..MaxCalls
  <1>1. ~torn /\ TasksInv /\ FramesInv /\ TaskInv(task[p]) /\ task[p].state = "live"
    BY DEF IInv, TasksInv, Call
  <1>2. calls' \in 0..MaxCalls
    BY <1>1, AddrSpaceAssumption DEF Call, TasksInv
  <1> QED
    BY <1>1, <1>2

\* Images are loaded over user pages and end at a number.
LEMMA ImagePages ==
    ASSUME NEW img \in Images \cup {Shell}
    PROVE  /\ LoadedPages(img) \in SUBSET UserPages
           /\ Loadable(img) => EndOf(img) \in Nat
  <1> DEFINE pages == UNION {img[i].pages : i \in 1..Len(img)}
             top   == Span[Levels] - 1
  <1>1. Len(img) \in Nat /\ \A i \in 1..Len(img) : img[i].pages \subseteq 1..top
    BY AddressAssumption
  <1>2. top \in Nat /\ UserPages = 0..top
    BY SpanType, AddrSpaceAssumption DEF UserPages
  <1>3. LoadedPages(img) \in SUBSET UserPages
    BY <1>1, <1>2 DEF LoadedPages, LoadedSegments
  <1>4. pages \in SUBSET (0..top)
    BY <1>1, <1>2
  <1>5. ASSUME Loadable(img) PROVE EndOf(img) \in Nat
    <2>1. pages # {}
      BY <1>5 DEF Loadable
    <2>2. EndOf(img) = 2 * ((CHOOSE v \in pages : \A w \in pages : w <= v) + 1)
      BY DEF EndOf
    <2> HIDE DEF pages, top
    <2>3. \E v \in pages : \A w \in pages : w <= v
      BY <1>2, <1>4, <2>1, Maximum
    <2> DEFINE m == CHOOSE v \in pages : \A w \in pages : w <= v
    <2>4. m \in pages
      BY <2>3
    <2>5. EndOf(img) = 2 * (m + 1)
      BY <2>2
    <2> HIDE DEF m
    <2>6. m \in Nat
      BY <1>2, <1>4, <2>4
    <2> QED BY <2>5, <2>6
  <1> QED
    BY <1>3, <1>5

\* A range of pages below the end of the address space.
LEMMA PageRange ==
    ASSUME NEW v \in Nat, NEW n \in Nat, v + n <= Span[Levels]
    PROVE  v..(v + n - 1) \in SUBSET UserPages
  <1>1. Span[Levels] \in Nat
    BY SpanType, AddrSpaceAssumption
  <1>2. ASSUME NEW w \in v..(v + n - 1) PROVE w \in UserPages
    BY <1>1, <1>2 DEF UserPages
  <1> QED
    BY <1>2

LEMMA ExecFailsKeeps ==
    ASSUME IInv, NEW p \in Tasks, NEW img \in Images, NEW prog, ExecFails(p, img, prog)
    PROVE  IInv' /\ Accounted
  <1> DEFINE pages == LoadedPages(img)
             W     == Wanted(task[p].tree, pages)
             map   == FirstRun(used, 1)
             new   == Fresh(used \cup {map}, W)
  <1>1. /\ Call(p) /\ torn' = torn
        /\ Room(used, Cardinality(W) + 1)
        /\ used' = (used \cup {map} \cup FramesIn(new)) \ {map}
        /\ task' = [task EXCEPT ![p].tree = Override(@, new)]
    BY DEF ExecFails, ElfFree
  <1>2. /\ ~torn /\ TaskInv(task[p]) /\ task[p].state = "live" /\ calls' \in 0..MaxCalls
        /\ DOMAIN task[p].tree \subseteq Grid
    BY <1>1, CallFacts DEF TaskInv
  <1>3. pages \in SUBSET UserPages
    BY ImagePages
  <1> HIDE DEF pages
  <1>4. W \subseteq Grid /\ Cardinality(W) \in Nat
    BY <1>3, WantedGrid, GridFinite
  <1>5. map \in Frames \ used /\ Room(used \cup {map}, Cardinality(W))
    <2> DEFINE n == Cardinality(W)
    <2>1. n \in Nat /\ Room(used, n + 1)
      BY <1>1, <1>4
    <2> HIDE DEF n
    <2>2. n + 1 \in Nat /\ n + 1 >= 1
      BY <2>1
    <2>3. FirstRun(used, 1) \in Frames \ used
      BY <2>1, <2>2, FirstPageGives
    <2>4. Room(used \cup {map}, n)
      BY <2>1, RoomAfterPage
    <2> QED BY <2>3, <2>4 DEF n
  <1>6. FramesIn(new) \subseteq Frames \ (used \cup {map})
    <2> HIDE DEF W, map
    <2>1. W \subseteq Wanted(task[p].tree, pages)
      BY DEF W
    <2> QED BY <1>2, <1>3, <1>5, <2>1, WantedFresh
  <1>7. used' = used \cup FramesIn(new)
    <2> HIDE DEF new, map
    <2> QED BY <1>1, <1>5, <1>6
  <1>8. MapsFrom(used \cup {map}, p, task[p], pages)
    BY <1>1, <1>5, <1>7 DEF MapsFrom
  <1> HIDE DEF W, new, map
  <1>9. used \subseteq used \cup {map}
    OBVIOUS
  <1> QED
    BY <1>1, <1>2, <1>3, <1>8, <1>9, MapKeeps

LEMMA MmapAtKeeps ==
    ASSUME IInv, NEW p \in Tasks, NEW v \in Places, NEW n \in Lengths, MmapAt(p, v, n)
    PROVE  IInv' /\ Accounted
  <1>1. /\ ~torn /\ TaskInv(task[p]) /\ task[p].state = "live" /\ calls' \in 0..MaxCalls
        /\ torn' = torn /\ MapPages(p, task[p], v..(v + n - 1))
    BY CallFacts DEF MmapAt
  <1>2. v \in Nat /\ n \in Nat /\ v + n <= Span[Levels]
    BY AddressAssumption
  <1>3. v..(v + n - 1) \in SUBSET UserPages
    BY <1>2, PageRange
  <1> QED
    BY <1>1, <1>3, MapPagesKeeps

LEMMA MmapAnywhereKeeps ==
    ASSUME IInv, NEW p \in Tasks, NEW n \in Lengths, MmapAnywhere(p, n)
    PROVE  IInv' /\ Accounted
  <1> DEFINE base == IF task[p].mmap_base = 0 THEN MmapBase ELSE task[p].mmap_base
             t    == [task[p] EXCEPT !.mmap_base = base + n]
             pages == base..(base + n - 1)
  <1>1. /\ ~torn /\ TaskInv(task[p]) /\ task[p].state = "live" /\ calls' \in 0..MaxCalls
        /\ torn' = torn /\ base + n <= MmapEnd /\ MapPages(p, t, pages)
    BY CallFacts DEF MmapAnywhere
  <1>2. base \in Nat /\ n \in Nat
    BY <1>1, AddrSpaceAssumption, AddressAssumption DEF TaskInv
  <1>3. pages \in SUBSET UserPages
    <2>1. base + n <= Span[Levels]
      <3>1. MmapEnd \in Nat /\ MmapEnd <= Span[Levels] /\ Span[Levels] \in Nat
        BY AddressAssumption, SpanType, AddrSpaceAssumption
      <3> HIDE DEF base
      <3> QED BY <1>1, <1>2, <3>1
    <2> HIDE DEF base
    <2> QED BY <1>2, <2>1, PageRange
  <1>4. /\ TaskInv(t) /\ t.state = "live" /\ t.tree = task[p].tree /\ t.meta = task[p].meta
        /\ t.kstack = task[p].kstack /\ t.self = task[p].self
    <2>1. base + n \in Nat
      BY <1>2
    <2> HIDE DEF base
    <2> QED BY <1>1, <2>1 DEF TaskInv, IsTask
  <1> HIDE DEF t, pages
  <1> QED
    BY <1>1, <1>3, <1>4, MapPagesKeeps

LEMMA MunmapKeeps ==
    ASSUME IInv, NEW p \in Tasks, NEW v, NEW n, Munmap(p, v, n)
    PROVE  IInv' /\ Lost' \subseteq Lost
  <1>1. /\ ~torn /\ TaskInv(task[p]) /\ task[p].state = "live" /\ calls' \in 0..MaxCalls
        /\ torn' = torn /\ UnmapPages(p, task[p], v..(v + n - 1))
    BY CallFacts DEF Munmap
  <1> DEFINE pages == v..(v + n - 1)
  <1>2. UnmapPages(p, task[p], pages)
    BY <1>1
  <1> HIDE DEF pages
  <1> QED
    BY <1>1, <1>2, UnmapPagesKeeps

LEMMA BrkKeeps ==
    ASSUME IInv, NEW p \in Tasks, NEW addr \in Breaks, Brk(p, addr)
    PROVE  IInv' /\ Accounted
  <1> DEFINE old == task[p].brk_current
             t   == [task[p] EXCEPT !.brk_current = addr]
  <1>1. /\ ~torn /\ TaskInv(task[p]) /\ task[p].state = "live" /\ calls' \in 0..MaxCalls
        /\ torn' = torn /\ addr >= task[p].brk_start
        /\ \/ addr > old /\ MapPages(p, t, PagesBetween(old, addr))
           \/ addr < old /\ UnmapPages(p, t, PagesBetween(addr, old))
    BY CallFacts DEF Brk
  <1>2. addr \in Nat /\ addr <= 2 * Span[Levels] /\ old \in Nat
    BY <1>1, AddressAssumption, AddrSpaceAssumption, SpanType DEF TaskInv
  <1>3. /\ TaskInv(t) /\ t.state = "live" /\ t.tree = task[p].tree /\ t.meta = task[p].meta
        /\ t.kstack = task[p].kstack /\ t.self = task[p].self
    BY <1>1, <1>2 DEF TaskInv, IsTask
  <1> HIDE DEF t
  <1>4. CASE MapPages(p, t, PagesBetween(old, addr))
    <2>1. PagesBetween(old, addr) \in SUBSET UserPages
      <3>1. AlignUp(old) \in Nat /\ AlignUp(addr) \in Nat /\ AlignUp(addr) <= Span[Levels]
        <4>1. Span[Levels] \in Nat
          BY SpanType, AddrSpaceAssumption
        <4> QED BY <1>2, <4>1 DEF AlignUp
      <3>2. Span[Levels] \in Nat
        BY SpanType, AddrSpaceAssumption
      <3> QED BY <3>1, <3>2 DEF PagesBetween, UserPages
    <2> DEFINE pages == PagesBetween(old, addr)
    <2>2. pages \in SUBSET UserPages /\ MapPages(p, t, pages)
      BY <1>4, <2>1
    <2> HIDE DEF pages
    <2> QED BY <1>1, <1>3, <2>2, MapPagesKeeps
  <1>5. CASE UnmapPages(p, t, PagesBetween(addr, old))
    <2>1. IInv' /\ Lost' \subseteq Lost
      BY <1>1, <1>3, <1>5, UnmapPagesKeeps
    <2> QED BY <2>1 DEF Accounted
  <1> QED
    BY <1>1, <1>4, <1>5

LEMMA ExitKeeps ==
    ASSUME IInv, NEW p \in Tasks, Exit(p)
    PROVE  IInv' /\ Lost' \subseteq Lost
  <1> DEFINE t  == task[p]
             t2 == [t EXCEPT !.state = "zombie", !.tree = <<>>, !.code = <<>>, !.user_stack = 0]
  <1>1. /\ ~torn /\ TasksInv /\ TaskInv(t) /\ t.state = "live" /\ calls' \in 0..MaxCalls
        /\ torn' = torn /\ used' = used \ ({t.meta} \cup FramesIn(t.tree))
    BY CallFacts DEF Exit, ExitFrames, TreeFrames
  <1>2. task' = [task EXCEPT ![p] = t2]
    BY <1>1 DEF Exit, TasksInv
  <1>3. DOMAIN <<>> = {}
    OBVIOUS
  <1>4. /\ t2.tree = <<>> /\ t2.state = "zombie" /\ t2.self = t.self /\ t2.kstack = t.kstack
        /\ t2.parent = t.parent /\ t2.brk_start = t.brk_start /\ t2.brk_current = t.brk_current
        /\ t2.mmap_base = t.mmap_base /\ IsTask(t2)
    <2>1. IsTask(t)
      BY <1>1 DEF TaskInv
    <2>2. IsTask(t2)
      BY <2>1 DEF IsTask
    <2>3. t2.tree = <<>> /\ t2.state = "zombie"
      BY <2>1 DEF IsTask
    <2>4. t2.self = t.self /\ t2.kstack = t.kstack /\ t2.parent = t.parent
      BY <2>1 DEF IsTask
    <2>5. t2.brk_start = t.brk_start /\ t2.brk_current = t.brk_current
          /\ t2.mmap_base = t.mmap_base
      BY <2>1 DEF IsTask
    <2> HIDE DEF t2
    <2> QED BY <2>2, <2>3, <2>4, <2>5
  <1>5. DOMAIN t.tree \subseteq Grid /\ Closed({})
    BY <1>1 DEF TaskInv, Closed
  <1> HIDE DEF t2, t
  <1>6. TaskInv(t2)
    <2>1. DOMAIN t2.tree = {}
      BY <1>3, <1>4
    <2>2. DOMAIN t2.tree \subseteq Grid /\ Closed(DOMAIN t2.tree)
      BY <1>5, <2>1
    <2>3. /\ t2.brk_start \in Nat /\ t2.brk_current \in Nat /\ t2.brk_start <= t2.brk_current
          /\ t2.mmap_base \in Nat /\ t2.parent \in Tasks \cup {Nobody}
          /\ t2.parent # Nobody => t2.self # 0
      BY <1>1, <1>4 DEF TaskInv
    <2> QED BY <1>4, <2>1, <2>2, <2>3 DEF TaskInv
  <1>7. /\ TasksInv' /\ task'[p] = t2 /\ \A s \in Tasks \ {p} : task'[s] = task[s]
    BY <1>1, <1>2, <1>6, TasksStep DEF TasksInv
  <1>8. DOMAIN Held(t2) = DOMAIN Beside(t2) /\ \A x \in DOMAIN Beside(t2) : Held(t2)[x] = Beside(t2)[x]
    <2>1. DOMAIN t2.tree = {} /\ DOMAIN t2.tree \subseteq Grid
      BY <1>3, <1>4
    <2> QED BY <2>1, HeldDef
  <1>9. /\ DOMAIN Held(t) = DOMAIN t.tree \cup DOMAIN Beside(t)
        /\ \A n \in DOMAIN t.tree : Held(t)[n] = t.tree[n]
        /\ \A x \in DOMAIN Beside(t) : x \notin DOMAIN t.tree /\ Held(t)[x] = Beside(t)[x]
    BY <1>5, HeldDef
  <1>10. /\ DOMAIN Beside(t2) = DOMAIN Beside(t) \ {Meta}
         /\ \A x \in DOMAIN Beside(t2) : Beside(t2)[x] = Beside(t)[x]
         /\ Meta \in DOMAIN Beside(t) /\ Beside(t)[Meta] = t.meta
    BY <1>1, <1>4, BesideDef DEF Meta, Kstack, Self
  <1> HIDE DEF Held, Beside
  <1>11. \A x \in DOMAIN Held(t2) : x \in DOMAIN Held(t) /\ Held(t2)[x] = Held(t)[x]
    BY <1>8, <1>9, <1>10
  <1>12. \A x \in DOMAIN Held(t) : x \notin DOMAIN Held(t2) => Held(t)[x] \notin used'
    <2> SUFFICES ASSUME NEW x \in DOMAIN Held(t), x \notin DOMAIN Held(t2)
                 PROVE  Held(t)[x] \in {t.meta} \cup FramesIn(t.tree)
      BY <1>1
    <2>1. CASE x \in DOMAIN t.tree
      BY <1>9, <2>1 DEF FramesIn
    <2>2. CASE x \notin DOMAIN t.tree
      BY <1>8, <1>9, <1>10, <2>2
    <2> QED BY <2>1, <2>2
  <1>13. \A f \in used \ used' : \E x \in DOMAIN Held(t) : Held(t)[x] = f /\ x \notin DOMAIN Held(t2)
    <2> SUFFICES ASSUME NEW f \in {t.meta} \cup FramesIn(t.tree)
                 PROVE  \E x \in DOMAIN Held(t) : Held(t)[x] = f /\ x \notin DOMAIN Held(t2)
      BY <1>1
    <2>1. CASE f = t.meta
      BY <1>8, <1>9, <1>10, <2>1
    <2>2. CASE f \in FramesIn(t.tree)
      <3>1. PICK n \in DOMAIN t.tree : f = t.tree[n]
        BY <2>2 DEF FramesIn
      <3> QED BY <1>8, <1>9, <1>10, <3>1
    <2> QED BY <2>1, <2>2
  <1>14. /\ used' \subseteq used
         /\ \A s \in Tasks : \A x \in DOMAIN Held(task'[s]) :
              x \in DOMAIN Held(task[s]) /\ Held(task'[s])[x] = Held(task[s])[x]
         /\ \A s \in Tasks : \A x \in DOMAIN Held(task[s]) :
              x \notin DOMAIN Held(task'[s]) => Held(task[s])[x] \notin used'
         /\ \A f \in used \ used' : \E s \in Tasks : \E x \in DOMAIN Held(task[s]) :
              Held(task[s])[x] = f /\ x \notin DOMAIN Held(task'[s])
    BY <1>1, <1>7, <1>11, <1>12, <1>13 DEF t
  <1> QED
    BY <1>1, <1>7, <1>14, Releases

LEMMA CollectKeeps ==
    ASSUME IInv, NEW p \in Tasks, NEW c \in Tasks, Collect(p, c)
    PROVE  IInv' /\ Lost' \subseteq Lost
  <1> DEFINE t  == task[c]
             t2 == [t EXCEPT !.state = "gone"]
  <1>1. /\ ~torn /\ TasksInv /\ TaskInv(t) /\ calls' \in 0..MaxCalls /\ torn' = torn
        /\ t.state = "zombie" /\ t.parent = p /\ used' = used \ {t.kstack, t.self}
    BY CallFacts DEF Collect, TasksInv
  <1>2. task' = [task EXCEPT ![c] = t2]
    BY <1>1 DEF Collect, TasksInv
  <1>3. /\ t2.tree = t.tree /\ t2.state = "gone" /\ t2.self = t.self /\ t2.kstack = t.kstack
        /\ t2.parent = t.parent /\ t2.brk_start = t.brk_start /\ t2.brk_current = t.brk_current
        /\ t2.mmap_base = t.mmap_base /\ IsTask(t2)
    BY <1>1 DEF TaskInv, IsTask
  <1>4. DOMAIN t.tree = {} /\ t.self # 0
    <2>1. p # Nobody
      BY DEF Tasks, Nobody
    <2> QED BY <1>1, <2>1 DEF TaskInv
  <1> HIDE DEF t2, t
  <1>5. TaskInv(t2)
    BY <1>1, <1>3, <1>4 DEF TaskInv
  <1>6. /\ TasksInv' /\ task'[c] = t2 /\ \A s \in Tasks \ {c} : task'[s] = task[s]
    BY <1>1, <1>2, <1>5, TasksStep DEF TasksInv
  <1>7. DOMAIN Held(t2) = {}
    <2>1. DOMAIN t2.tree = {} /\ DOMAIN t2.tree \subseteq Grid
      BY <1>3, <1>4
    <2>2. DOMAIN Held(t2) = DOMAIN t2.tree \cup DOMAIN Beside(t2)
      BY <2>1, HeldDef
    <2>3. DOMAIN Beside(t2) = {}
      BY <1>3, BesideDef
    <2> QED BY <2>1, <2>2, <2>3
  <1>8. /\ DOMAIN Held(t) = DOMAIN t.tree \cup DOMAIN Beside(t)
        /\ \A x \in DOMAIN Beside(t) : Held(t)[x] = Beside(t)[x]
    <2>1. DOMAIN t.tree \subseteq Grid
      BY <1>4
    <2> QED BY <2>1, HeldDef
  <1>9. /\ DOMAIN Beside(t) = {Kstack, Self}
        /\ Beside(t)[Kstack] = t.kstack /\ Beside(t)[Self] = t.self
    BY <1>1, <1>4, BesideDef
  <1> HIDE DEF Held, Beside
  <1>10. DOMAIN Held(t) = {Kstack, Self} /\ Held(t)[Kstack] = t.kstack /\ Held(t)[Self] = t.self
    BY <1>4, <1>8, <1>9
  <1>11. /\ used' \subseteq used
         /\ \A s \in Tasks : \A x \in DOMAIN Held(task'[s]) :
              x \in DOMAIN Held(task[s]) /\ Held(task'[s])[x] = Held(task[s])[x]
         /\ \A s \in Tasks : \A x \in DOMAIN Held(task[s]) :
              x \notin DOMAIN Held(task'[s]) => Held(task[s])[x] \notin used'
    BY <1>1, <1>6, <1>7, <1>10 DEF t
  <1>12. \A f \in used \ used' : \E s \in Tasks : \E x \in DOMAIN Held(task[s]) :
              Held(task[s])[x] = f /\ x \notin DOMAIN Held(task'[s])
    <2>1. ASSUME NEW f \in used \ used'
          PROVE  \E x \in DOMAIN Held(task[c]) : Held(task[c])[x] = f /\ x \notin DOMAIN Held(task'[c])
      <3>1. f = t.kstack \/ f = t.self
        BY <1>1
      <3> QED BY <3>1, <1>6, <1>7, <1>10 DEF t
    <2> QED BY <2>1
  <1> QED
    BY <1>1, <1>6, <1>11, <1>12, Releases

\* After the frames for some nodes, single pages.
LEMMA RoomAfterFresh ==
    ASSUME NEW taken, NEW nodes \in SUBSET Grid, NEW n \in Nat,
           Room(taken, Cardinality(nodes) + n)
    PROVE  /\ Room(taken, Cardinality(nodes))
           /\ Room(taken \cup FramesIn(Fresh(taken, nodes)), n)
           /\ DOMAIN Fresh(taken, nodes) = nodes
           /\ \A x \in nodes : Fresh(taken, nodes)[x] \in Frames \ taken
           /\ Injective(Fresh(taken, nodes))
           /\ FramesIn(Fresh(taken, nodes)) \subseteq Frames \ taken
  <1> DEFINE F == Fresh(taken, nodes)
             S == FramesIn(F)
  <1>1. nodes \in SUBSET Node /\ IsFiniteSet(nodes) /\ Cardinality(nodes) \in Nat
    BY GridFinite
  <1>2. Cardinality(Frames \ taken) \in Nat
    BY FramesFinite
  <1>3. Room(taken, Cardinality(nodes))
    BY <1>1, <1>2 DEF Room
  <1>4. /\ DOMAIN F = nodes
        /\ \A x \in nodes : F[x] \in Frames \ taken
        /\ Injective(F)
    BY <1>1, <1>3, FreshGives
  <1>5. S = {F[x] : x \in nodes}
    BY <1>4 DEF FramesIn
  <1>6. S \subseteq Frames \ taken
    BY <1>4, <1>5
  <1> HIDE DEF F
  <1>7. IsFiniteSet(S) /\ Cardinality(S) <= Cardinality(nodes)
    <2>2. [x \in nodes |-> F[x]] \in Surjection(nodes, S)
      BY <1>5 DEF Surjection
    <2> HIDE DEF S
    <2> QED BY <1>1, <2>2, FS_Surjection DEF ExistsSurjection
  <1>8. Cardinality(S) \in Nat
    BY <1>7, FS_CardinalityType
  <1>9. Room(taken, Cardinality(S) + n)
    BY <1>1, <1>2, <1>7, <1>8 DEF Room
  <1> HIDE DEF S
  <1>10. Room(taken \cup S, n)
    BY <1>7, <1>9, RoomAfter
  <1> QED
    BY <1>3, <1>4, <1>6, <1>10 DEF F, S

LEMMA ForkKeeps ==
    ASSUME IInv, NEW p \in Tasks, Fork(p)
    PROVE  IInv' /\ Lost' \subseteq Lost
  <1>0. /\ ~torn /\ TasksInv /\ FramesInv /\ TaskInv(task[p]) /\ task[p].state = "live"
        /\ calls' \in 0..MaxCalls /\ torn' = torn
    BY CallFacts DEF Fork
  <1> DEFINE D    == DOMAIN task[p].tree
             tree == Fresh(used, D)
             u1   == used \cup FramesIn(tree)
             self == FirstRun(u1, 1)
             kst  == FirstRun(u1 \cup {self}, 1)
             meta == FirstRun(u1 \cup {self, kst}, 1)
             code == [v \in DOMAIN task[p].code |-> FrameAt(tree, v)]
             stack == FrameAt(tree, Top)
             t2   == [task[p] EXCEPT !.parent = p, !.tree = tree, !.self = self,
                        !.kstack = kst, !.meta = meta, !.code = code, !.user_stack = stack]
  <1>1. PICK c \in Tasks :
           /\ task[c].state = "none"
           /\ used' = u1 \cup {self, kst, meta}
           /\ task' = [task EXCEPT ![c] = t2]
    BY Zenon DEF Fork, Clone
  <1>2. D \subseteq Grid /\ Closed(D)
    BY <1>0 DEF TaskInv
  <1>3. Room(used, Cardinality(D) + 3)
    BY DEF Fork
  <1> HIDE DEF D
  <1>4. /\ DOMAIN tree = D
        /\ \A x \in D : tree[x] \in Frames \ used
        /\ Injective(tree)
        /\ FramesIn(tree) \subseteq Frames \ used
        /\ Room(u1, 3)
    BY <1>2, <1>3, RoomAfterFresh
  <1> HIDE DEF tree, u1
  <1>5. self \in Frames \ u1 /\ Room(u1 \cup {self}, 2)
    <2>1. Room(u1, 2 + 1) /\ 3 >= 1
      BY <1>4
    <2> QED BY <1>4, <2>1, FirstPageGives, RoomAfterPage
  <1> HIDE DEF self
  <1>6. kst \in Frames \ (u1 \cup {self}) /\ Room(u1 \cup {self, kst}, 1)
    <2>1. Room(u1 \cup {self}, 1 + 1) /\ 2 >= 1
      BY <1>5
    <2>2. kst \in Frames \ (u1 \cup {self})
      BY <1>5, <2>1, FirstPageGives
    <2>3. Room((u1 \cup {self}) \cup {kst}, 1)
      BY <2>1, RoomAfterPage
    <2>4. (u1 \cup {self}) \cup {kst} = u1 \cup {self, kst}
      OBVIOUS
    <2> QED BY <2>2, <2>3, <2>4
  <1> HIDE DEF kst
  <1>7. meta \in Frames \ (u1 \cup {self, kst})
    <2>1. 1 >= 1
      OBVIOUS
    <2> QED BY <1>6, <2>1, FirstPageGives
  <1> HIDE DEF meta, code, stack
  <1>8. 0 \in used /\ used \subseteq Frames /\ used \subseteq u1 /\ u1 \subseteq Frames
    BY <1>0, <1>4 DEF FramesInv, TasksInv, u1
  <1>9. IsTask(task[p]) /\ TaskInv(task[p])
    BY <1>0 DEF TaskInv
  <1>10. /\ IsTask(t2) /\ t2.state = "live" /\ t2.parent = p /\ t2.tree = tree /\ t2.self = self
         /\ t2.kstack = kst /\ t2.meta = meta
    <2>1. IsTask(t2) /\ t2.state = "live"
      BY <1>0, <1>9 DEF IsTask
    <2>2. t2.parent = p /\ t2.tree = tree
      BY <1>9 DEF IsTask
    <2>3. t2.self = self /\ t2.kstack = kst /\ t2.meta = meta
      BY <1>9 DEF IsTask
    <2> HIDE DEF t2
    <2> QED BY <2>1, <2>2, <2>3
  <1>11. /\ t2.brk_start = task[p].brk_start /\ t2.brk_current = task[p].brk_current
         /\ t2.mmap_base = task[p].mmap_base
    BY <1>9 DEF IsTask
  <1> HIDE DEF t2
  <1>12. TaskInv(t2)
    <2>1. self # 0
      BY <1>5, <1>8
    <2>2. /\ t2.brk_start \in Nat /\ t2.brk_current \in Nat /\ t2.brk_start <= t2.brk_current
          /\ t2.mmap_base \in Nat
      BY <1>9, <1>11 DEF TaskInv
    <2> QED BY <1>2, <1>4, <1>10, <2>1, <2>2 DEF TaskInv
  <1>13. used' \subseteq Frames
    BY <1>1, <1>5, <1>6, <1>7, <1>8
  <1>14. /\ TasksInv' /\ task'[c] = t2 /\ \A s \in Tasks \ {c} : task'[s] = task[s]
    BY <1>0, <1>1, <1>12, <1>13, TasksStep DEF TasksInv
  <1>15. DOMAIN Held(task[c]) = {}
    <2>1. DOMAIN task[c].tree = {} /\ DOMAIN task[c].tree \subseteq Grid
      BY <1>0, <1>1 DEF TasksInv, TaskInv
    <2>2. DOMAIN Held(task[c]) = DOMAIN task[c].tree \cup DOMAIN Beside(task[c])
      BY <2>1, HeldDef
    <2>3. DOMAIN Beside(task[c]) = {}
      BY <1>1, BesideDef
    <2> QED BY <2>1, <2>2, <2>3
  <1>16. /\ DOMAIN Held(t2) = D \cup {Meta, Kstack, Self}
         /\ \A x \in D : Held(t2)[x] = tree[x]
         /\ Meta \notin D /\ Kstack \notin D /\ Self \notin D
         /\ Held(t2)[Meta] = meta /\ Held(t2)[Kstack] = kst /\ Held(t2)[Self] = self
    <2>1. /\ DOMAIN Beside(t2) = {Meta, Kstack, Self}
          /\ Beside(t2)[Meta] = meta /\ Beside(t2)[Kstack] = kst /\ Beside(t2)[Self] = self
      <3>1. self # 0
        BY <1>5, <1>8
      <3> QED BY <1>10, <3>1, BesideDef
    <2>2. DOMAIN t2.tree \subseteq Grid
      BY <1>2, <1>4, <1>10
    <2>3. /\ DOMAIN Held(t2) = DOMAIN t2.tree \cup DOMAIN Beside(t2)
          /\ \A n \in DOMAIN t2.tree : Held(t2)[n] = t2.tree[n]
          /\ \A x \in DOMAIN Beside(t2) : x \notin DOMAIN t2.tree /\ Held(t2)[x] = Beside(t2)[x]
      BY <2>2, HeldDef
    <2> QED BY <1>4, <1>10, <2>1, <2>3
  <1> HIDE DEF Held, Meta, Kstack, Self
  <1>17. \A x \in DOMAIN Held(t2) : Held(t2)[x] \in used' \ used
    <2>1. \A x \in D : tree[x] \in u1 /\ tree[x] \notin used
      BY <1>4 DEF FramesIn, u1
    <2> QED BY <1>1, <1>5, <1>6, <1>7, <1>8, <1>16, <2>1
  <1>18. \A x, y \in DOMAIN Held(t2) : Held(t2)[x] = Held(t2)[y] => x = y
    <2>1. \A x \in D : tree[x] \in u1
      BY <1>4 DEF FramesIn, u1
    <2>2. \A x, y \in D : tree[x] = tree[y] => x = y
      BY <1>4 DEF Injective
    <2> QED BY <1>5, <1>6, <1>7, <1>16, <2>1, <2>2
  <1>19. Owned(used', task') /\ Single(task')
    <2>1. Owned(used, task) /\ Single(task) /\ used \subseteq used'
      BY <1>0, <1>1, <1>8 DEF FramesInv
    <2>2. /\ \A x \in DOMAIN Held(task'[c]) :
                \/ x \in DOMAIN Held(task[c]) /\ Held(task'[c])[x] = Held(task[c])[x]
                \/ Held(task'[c])[x] \in used' \ used
          /\ \A x, y \in DOMAIN Held(task'[c]) :
                Held(task'[c])[x] = Held(task'[c])[y] /\ Held(task'[c])[x] \notin used => x = y
      BY <1>14, <1>17, <1>18
    <2> QED BY <1>8, <1>14, <2>1, <2>2, Grows
  <1>20. 0 \in used'
    BY <1>1, <1>8
  <1>21. ASSUME NEW f \in Lost' PROVE f \in Lost
    <2>1. \A s \in Tasks : \A x \in DOMAIN Held(task'[s]) : f # Held(task'[s])[x]
      BY DEF Lost, FramesIn
    <2>2. f \in used' /\ f # 0
      BY DEF Lost
    <2>3. CASE f \in used' \ used
      <3>1. f \in FramesIn(tree) \/ f \in {self, kst, meta}
        BY <1>1, <2>3 DEF u1
      <3>2. \E x \in DOMAIN Held(t2) : f = Held(t2)[x]
        BY <1>4, <1>16, <3>1 DEF FramesIn
      <3> QED BY <1>14, <2>1, <3>2
    <2>4. CASE f \in used
      <3>1. \A s \in Tasks : \A x \in DOMAIN Held(task[s]) : f # Held(task[s])[x]
        BY <1>14, <1>15, <2>1
      <3> QED BY <2>2, <2>4, <3>1 DEF Lost, FramesIn
    <2> QED BY <2>2, <2>3, <2>4
  <1> QED
    BY <1>14, <1>19, <1>20, <1>21 DEF IInv, FramesInv

\* A stack of two pages from page v and frame b on, and the tables to it.
LEMMA StackMapped ==
    ASSUME NEW tree, DOMAIN tree \subseteq Grid, Closed(DOMAIN tree),
           NEW v \in Nat, v + 1 < Span[Levels], NEW b \in Nat, NEW taken,
           Room(taken, Cardinality(StackTables(tree, v)))
    PROVE  LET way == Fresh(taken, StackTables(tree, v))
               all == Override(Override(tree, way), StackLeaves(v, b))
           IN  /\ DOMAIN all \subseteq Grid /\ Closed(DOMAIN all)
               /\ FramesIn(way) \subseteq Frames \ taken
               /\ Injective(way)
               /\ Leaf(v) \in DOMAIN all /\ Leaf(v + 1) \in DOMAIN all
               /\ Leaf(v) # Leaf(v + 1)
               /\ \A n \in DOMAIN all :
                    \/ n = Leaf(v) /\ all[n] = b
                    \/ n = Leaf(v + 1) /\ all[n] = b + 1
                    \/ n \in DOMAIN way /\ all[n] = way[n] /\ way[n] \in Frames \ taken
                    \/ n \notin DOMAIN way /\ n \in DOMAIN tree /\ all[n] = tree[n]
  <1> DEFINE pages == {v, v + 1}
             S     == StackTables(tree, v)
             way   == Fresh(taken, S)
             lvs   == StackLeaves(v, b)
             mid   == Override(tree, way)
             all   == Override(mid, lvs)
  <1>1. pages \in SUBSET UserPages
    <2>1. Span[Levels] \in Nat
      BY SpanType, AddrSpaceAssumption
    <2> QED BY <2>1 DEF UserPages
  <1>2. S = Wanted(tree, pages) \ {Leaf(v), Leaf(v + 1)}
    BY DEF StackTables
  <1>3. S \subseteq Grid /\ Cardinality(S) + 0 = Cardinality(S)
    <2>1. S \subseteq Grid
      BY <1>1, <1>2, WantedGrid
    <2> HIDE DEF S
    <2> QED BY <2>1, GridFinite
  <1>4. /\ DOMAIN way = S
        /\ \A n \in S : way[n] \in Frames \ taken
        /\ Injective(way)
        /\ FramesIn(way) \subseteq Frames \ taken
    <2>1. Room(taken, Cardinality(S) + 0)
      BY <1>3
    <2> HIDE DEF S
    <2> QED BY <1>3, <2>1, RoomAfterFresh
  <1>5. DOMAIN lvs = {Leaf(v), Leaf(v + 1)} /\ lvs[Leaf(v)] = b /\ lvs[Leaf(v + 1)] = b + 1
    <2>1. DOMAIN lvs = {Leaf(v), Leaf(v + 1)}
      BY DEF StackLeaves
    <2>2. lvs[Leaf(v)] = b + v - v /\ lvs[Leaf(v + 1)] = b + (v + 1) - v
      BY DEF StackLeaves, Leaf
    <2>3. b + v - v = b /\ b + (v + 1) - v = b + 1
      OBVIOUS
    <2> QED BY <2>1, <2>2, <2>3
  <1>6. Leaf(v) # Leaf(v + 1)
    BY DEF Leaf
  <1>7. {Leaf(v), Leaf(v + 1)} \subseteq Wanted(tree, pages)
    BY DEF Wanted
  <1> HIDE DEF way, S, lvs
  <1>8. /\ DOMAIN mid = DOMAIN tree \cup DOMAIN way
        /\ \A n \in DOMAIN way : mid[n] = way[n]
        /\ \A n \in DOMAIN tree \ DOMAIN way : mid[n] = tree[n]
    BY OverrideDef
  <1> HIDE DEF mid
  <1>9. /\ DOMAIN all = DOMAIN mid \cup DOMAIN lvs
        /\ \A n \in DOMAIN lvs : all[n] = lvs[n]
        /\ \A n \in DOMAIN mid \ DOMAIN lvs : all[n] = mid[n]
    BY OverrideDef
  <1> HIDE DEF all
  <1>10. DOMAIN all = DOMAIN tree \cup Wanted(tree, pages)
    BY <1>2, <1>4, <1>5, <1>7, <1>8, <1>9
  <1> HIDE DEF pages
  <1>11. DOMAIN all \subseteq Grid /\ Closed(DOMAIN all)
    BY <1>1, <1>10, WantedGrid, WantedClosed
  <1>12. Leaf(v) \in DOMAIN all /\ Leaf(v + 1) \in DOMAIN all
    BY <1>5, <1>9
  <1>13. ASSUME NEW n \in DOMAIN all
         PROVE  \/ n = Leaf(v) /\ all[n] = b
                \/ n = Leaf(v + 1) /\ all[n] = b + 1
                \/ n \in DOMAIN way /\ all[n] = way[n] /\ way[n] \in Frames \ taken
                \/ n \notin DOMAIN way /\ n \in DOMAIN tree /\ all[n] = tree[n]
    <2>1. CASE n \in DOMAIN lvs
      BY <1>5, <1>9, <2>1
    <2>2. CASE n \notin DOMAIN lvs
      <3>1. n \in DOMAIN mid /\ all[n] = mid[n]
        BY <1>9, <2>2
      <3>2. CASE n \in DOMAIN way
        BY <1>4, <1>8, <3>1, <3>2
      <3>3. CASE n \notin DOMAIN way
        BY <1>8, <3>1, <3>3
      <3> QED BY <3>2, <3>3
    <2> QED BY <2>1, <2>2
  <1> QED
    BY <1>4, <1>6, <1>11, <1>12, <1>13 DEF way, all, mid, lvs, S

\* A run of two pages.
LEMMA TwoPages ==
    ASSUME NEW taken, RunsOf(taken, 2) # {}
    PROVE  LET b == FirstRun(taken, 2)
           IN  /\ b \in Nat /\ b \in Frames \ taken /\ b + 1 \in Frames \ taken
               /\ Run(b, 2) = {b, b + 1}
  <1> DEFINE b == FirstRun(taken, 2)
  <1>1. b \in RunsOf(taken, 2)
    BY FirstRunGives
  <1> HIDE DEF b
  <1>2. b \in Nat /\ b + 0 \in Frames \ taken /\ b + 1 \in Frames \ taken
    BY <1>1, AddrSpaceAssumption DEF RunsOf, Frames
  <1>3. b + 0 = b /\ Run(b, 2) = {b, b + 1}
    BY <1>2 DEF Run
  <1> QED
    BY <1>2, <1>3 DEF b

LEMMA ExecCommitsKeeps ==
    ASSUME IInv, NEW p \in Tasks, NEW img \in Images, NEW prog, ExecCommits(p, img, prog)
    PROVE  /\ IInv' /\ torn'
           /\ \A s \in Tasks \ {p} : task'[s] = task[s]
           /\ TrueFields(task[p]) =>
                /\ \A s \in Tasks \ {p} : FramesIn(Held(task[s])) \subseteq used'
                /\ FramesIn(task'[p].code) \cup {task'[p].meta} \subseteq used'
                /\ Run(task'[p].user_stack, 2) \subseteq used'
                /\ \A n \in DOMAIN task'[p].tree \ LeavesOf(task'[p].tree) :
                     task'[p].tree[n] \in used'
  <1> DEFINE pages == LoadedPages(img)
             W     == Wanted(task[p].tree, pages)
             map   == FirstRun(used, 1)
             new   == Fresh(used \cup {map}, W)
             tree  == Override(task[p].tree, new)
             u1    == used \cup {map} \cup FramesIn(new)
             stk   == FirstRun(u1, 2)
             u2    == u1 \cup Run(stk, 2)
             S     == StackTables(tree, Top - 2)
             way   == Fresh(u2, S)
             all   == Override(Override(tree, way), StackLeaves(Top - 2, stk))
             code  == PageMap(new, pages)
             end   == EndOf(img)
             entry == UserStackOf(prog.argv, prog.envp)
             t2    == [task[p] EXCEPT !.tree = all, !.code = code, !.meta = map,
                         !.user_stack = stk, !.brk_start = end, !.brk_current = end,
                         !.entry = entry]
             TD    == TornDown(task[p], map)
  <1>1. /\ Call(p) /\ torn' = TRUE /\ Loadable(img)
        /\ Room(used, Cardinality(W) + 1)
        /\ RunsOf(u1, 2) # {} /\ Room(u2, Cardinality(S))
        /\ used' = (u2 \cup FramesIn(way)) \ TD
        /\ task' = [task EXCEPT ![p] = t2]
    BY Zenon DEF ExecCommits
  <1>2. /\ ~torn /\ TasksInv /\ FramesInv /\ TaskInv(task[p]) /\ IsTask(task[p])
        /\ task[p].state = "live" /\ calls' \in 0..MaxCalls
        /\ DOMAIN task[p].tree \subseteq Grid /\ Closed(DOMAIN task[p].tree)
        /\ used \subseteq Frames
    BY <1>1, CallFacts DEF TaskInv, TasksInv
  <1>3. pages \in SUBSET UserPages /\ end \in Nat
    BY <1>1, ImagePages
  <1> HIDE DEF pages, end, TD
  <1>4. W \subseteq Grid /\ Cardinality(W) \in Nat
    BY <1>3, WantedGrid, GridFinite
  <1>5. W = Wanted(task[p].tree, pages) /\ \A v \in pages : Leaf(v) \in W
    BY DEF Wanted
  <1> HIDE DEF W
  <1>6. map \in Frames \ used /\ Room(used \cup {map}, Cardinality(W) + 0)
    <2>1. Cardinality(W) + 1 \in Nat /\ Cardinality(W) + 1 >= 1 /\ Cardinality(W) + 0 = Cardinality(W)
      BY <1>4
    <2>2. map \in Frames \ used
      BY <1>1, <2>1, FirstPageGives
    <2>3. Room(used \cup {map}, Cardinality(W))
      BY <1>1, <1>4, RoomAfterPage
    <2> QED BY <2>1, <2>2, <2>3
  <1> HIDE DEF map
  <1>7. /\ DOMAIN new = W /\ \A n \in W : new[n] \in Frames \ (used \cup {map})
        /\ FramesIn(new) \subseteq Frames \ (used \cup {map})
    BY <1>4, <1>6, RoomAfterFresh
  <1> HIDE DEF new
  <1>8. /\ DOMAIN tree = DOMAIN task[p].tree \cup W
        /\ \A n \in W : tree[n] = new[n]
        /\ \A n \in DOMAIN task[p].tree \ W : tree[n] = task[p].tree[n]
    BY <1>7 DEF Override
  <1>9. DOMAIN tree \subseteq Grid /\ Closed(DOMAIN tree)
    BY <1>2, <1>3, <1>4, <1>5, <1>8, WantedClosed
  <1> HIDE DEF tree, u1
  <1>10. stk \in Nat /\ stk \in Frames \ u1 /\ stk + 1 \in Frames \ u1 /\ Run(stk, 2) = {stk, stk + 1}
    BY <1>1, TwoPages
  <1> HIDE DEF stk, u2
  <1>11. Top - 2 \in Nat /\ (Top - 2) + 1 < Span[Levels]
    <2>1. Span[Levels] \in Nat
      BY SpanType, AddrSpaceAssumption
    <2> QED BY <2>1, AddressAssumption
  <1>12. /\ DOMAIN all \subseteq Grid /\ Closed(DOMAIN all)
         /\ FramesIn(way) \subseteq Frames \ u2
         /\ \A n \in DOMAIN all :
              \/ n = Leaf(Top - 2) /\ all[n] = stk
              \/ n = Leaf((Top - 2) + 1) /\ all[n] = stk + 1
              \/ n \in DOMAIN way /\ all[n] = way[n] /\ way[n] \in Frames \ u2
              \/ n \notin DOMAIN way /\ n \in DOMAIN tree /\ all[n] = tree[n]
    BY <1>1, <1>9, <1>10, <1>11, StackMapped
  <1> HIDE DEF way, S, all, code, entry
  <1>13. /\ IsTask(t2) /\ t2.tree = all /\ t2.code = code /\ t2.meta = map /\ t2.user_stack = stk
         /\ t2.state = "live" /\ t2.self = task[p].self /\ t2.parent = task[p].parent
         /\ t2.brk_start = end /\ t2.brk_current = end /\ t2.mmap_base = task[p].mmap_base
    <2>1. IsTask(t2) /\ t2.tree = all /\ t2.code = code
      BY <1>2 DEF IsTask
    <2>2. t2.meta = map /\ t2.user_stack = stk
      BY <1>2 DEF IsTask
    <2>3. t2.state = "live" /\ t2.self = task[p].self /\ t2.parent = task[p].parent
      BY <1>2 DEF IsTask
    <2>4. t2.brk_start = end /\ t2.brk_current = end /\ t2.mmap_base = task[p].mmap_base
      BY <1>2 DEF IsTask
    <2> HIDE DEF t2
    <2> QED BY <2>1, <2>2, <2>3, <2>4
  <1> HIDE DEF t2
  <1>14. TaskInv(t2)
    <2>1. /\ t2.mmap_base \in Nat /\ t2.parent \in Tasks \cup {Nobody}
          /\ t2.parent # Nobody => t2.self # 0
      BY <1>2, <1>13 DEF TaskInv
    <2>2. t2.brk_start \in Nat /\ t2.brk_current \in Nat /\ t2.brk_start <= t2.brk_current
      BY <1>3, <1>13
    <2> QED BY <1>12, <1>13, <2>1, <2>2 DEF TaskInv
  <1>15. /\ u2 \subseteq Frames /\ u2 = used \cup {map} \cup FramesIn(new) \cup {stk, stk + 1}
         /\ stk \notin used /\ stk + 1 \notin used
    BY <1>2, <1>6, <1>7, <1>10 DEF u1, u2
  <1>16. /\ TasksInv' /\ task'[p] = t2 /\ \A s \in Tasks \ {p} : task'[s] = task[s]
    <2>1. used' \subseteq Frames /\ torn' \in BOOLEAN
      BY <1>1, <1>12, <1>15
    <2> QED BY <1>1, <1>2, <1>14, <2>1, TasksStep
  <1>17. IInv' /\ torn'
    BY <1>1, <1>16 DEF IInv
  <1>18. ASSUME TrueFields(task[p])
         PROVE  /\ \A s \in Tasks \ {p} : FramesIn(Held(task[s])) \subseteq used'
                /\ FramesIn(task'[p].code) \cup {task'[p].meta} \subseteq used'
                /\ Run(task'[p].user_stack, 2) \subseteq used'
                /\ \A n \in DOMAIN task'[p].tree \ LeavesOf(task'[p].tree) :
                     task'[p].tree[n] \in used'
    <2> DEFINE t == task[p]
    <2>1. /\ DOMAIN Held(t) = DOMAIN t.tree \cup DOMAIN Beside(t)
          /\ \A n \in DOMAIN t.tree : Held(t)[n] = t.tree[n]
          /\ \A x \in DOMAIN Beside(t) : x \notin DOMAIN t.tree /\ Held(t)[x] = Beside(t)[x]
      BY <1>2, HeldDef
    <2>2. Meta \in DOMAIN Held(t) /\ Meta \notin DOMAIN t.tree /\ Held(t)[Meta] = t.meta
      BY <1>2, <2>1, BesideDef
    <2>3. Owned(used, task) /\ Single(task)
      BY <1>2 DEF FramesInv
    <2> HIDE DEF t, Held, Beside, Meta
    \* Every frame that is torn down is the page_map's or a leaf's.
    <2>4. ASSUME NEW f \in TD
          PROVE  \E x \in DOMAIN Held(t) : Held(t)[x] = f /\ (x = Meta \/ x \in LeavesOf(t.tree))
      <3>1. \A n \in DOMAIN t.tree : t.tree[n] \in Nat
        <4>1. used \subseteq Nat
          BY <1>2, AddrSpaceAssumption DEF Frames
        <4> QED BY <2>1, <2>3, <4>1 DEF Owned, t
      <3>2. {t.user_stack, t.user_stack + 1} \subseteq {t.tree[n] : n \in LeavesOf(t.tree)}
        BY <1>18 DEF TrueFields, t
      <3>3. t.user_stack \in Nat
        BY <3>1, <3>2 DEF LeavesOf
      <3>4. f \in FramesIn(t.code) \/ f = t.meta \/ f = t.user_stack \/ f = t.user_stack + 1
        <4>1. TD = FramesIn(t.code) \cup {t.meta} \cup (t.user_stack..(t.user_stack + 2 - 1))
          BY DEF TD, TornDown, Run, t
        <4> QED BY <3>3, <4>1
      <3>5. CASE f = t.meta
        BY <2>2, <3>5
      <3>6. CASE f = t.user_stack \/ f = t.user_stack + 1
        BY <2>1, <3>2, <3>6 DEF LeavesOf
      <3>7. CASE f \in FramesIn(t.code)
        <4>1. PICK v \in DOMAIN t.code : f = t.code[v]
          BY <3>7 DEF FramesIn
        <4>2. Leaf(v) \in DOMAIN t.tree /\ t.tree[Leaf(v)] = f
          BY <1>18, <4>1 DEF TrueFields, t
        <4>3. Leaf(v) \in LeavesOf(t.tree)
          BY <4>2 DEF LeavesOf, Leaf
        <4> QED BY <2>1, <4>2, <4>3
      <3> QED BY <3>4, <3>5, <3>6, <3>7
    <2>5. TD \subseteq used
      BY <2>3, <2>4 DEF Owned, t
    <2>6. \A f \in (u2 \cup FramesIn(way)) \ used : f \in used'
      BY <1>1, <2>5
    <2>7. FramesIn(new) \cup {map, stk, stk + 1} \cup FramesIn(way) \subseteq used'
      <3>1. used \subseteq u2 /\ FramesIn(new) \cap used = {}
        BY <1>7, <1>15
      <3> QED BY <1>6, <1>12, <1>15, <2>6, <3>1
    <2>8. ASSUME NEW s \in Tasks \ {p}, NEW f \in FramesIn(Held(task[s]))
          PROVE  f \in used'
      <3>1. PICK x \in DOMAIN Held(task[s]) : f = Held(task[s])[x]
        BY DEF FramesIn
      <3>2. f \in used
        BY <2>3, <3>1 DEF Owned
      <3>3. f \notin TD
        <4> SUFFICES ASSUME f \in TD PROVE FALSE
          OBVIOUS
        <4>1. PICK y \in DOMAIN Held(t) : Held(t)[y] = f
          BY <2>4
        <4> QED BY <2>3, <3>1, <4>1 DEF Single, t
      <3> QED BY <1>1, <1>15, <3>2, <3>3
    <2>9. FramesIn(task'[p].code) \cup {task'[p].meta} \subseteq used'
      <3>1. task'[p].code = [v \in pages |-> new[Leaf(v)]] /\ task'[p].meta = map
        BY <1>13, <1>16 DEF code, PageMap
      <3>2. \A v \in pages : new[Leaf(v)] \in FramesIn(new)
        BY <1>5, <1>7 DEF FramesIn
      <3>3. FramesIn(task'[p].code) \subseteq FramesIn(new)
        BY <3>1, <3>2 DEF FramesIn
      <3> QED BY <2>7, <3>1, <3>3
    <2>10. Run(task'[p].user_stack, 2) \subseteq used'
      BY <1>10, <1>13, <1>16, <2>7
    <2>11. ASSUME NEW n \in DOMAIN task'[p].tree \ LeavesOf(task'[p].tree)
           PROVE  task'[p].tree[n] \in used'
      <3>1. n \in DOMAIN all /\ n[1] # 0 /\ task'[p].tree[n] = all[n]
        BY <1>13, <1>16 DEF LeavesOf
      <3>2. n # Leaf(Top - 2) /\ n # Leaf((Top - 2) + 1)
        BY <3>1 DEF Leaf
      <3>3. CASE n \in DOMAIN way /\ all[n] = way[n]
        <4>1. way[n] \in FramesIn(way)
          BY <3>3 DEF FramesIn
        <4> QED BY <2>7, <3>1, <3>3, <4>1
      <3>4. CASE n \in DOMAIN tree /\ all[n] = tree[n]
        <4>1. CASE n \in W
          <5>1. new[n] \in FramesIn(new)
            BY <1>7, <4>1 DEF FramesIn
          <5> QED BY <1>8, <2>7, <3>1, <3>4, <4>1, <5>1
        <4>2. CASE n \notin W
          <5>1. n \in DOMAIN t.tree /\ all[n] = t.tree[n] /\ n \notin LeavesOf(t.tree)
            BY <1>8, <3>1, <3>4, <4>2 DEF t, LeavesOf
          <5>2. n \in DOMAIN Held(t) /\ Held(t)[n] = all[n] /\ all[n] \in used /\ n # Meta
            BY <2>1, <2>2, <2>3, <5>1 DEF Owned, t
          <5>3. all[n] \notin TD
            <6> SUFFICES ASSUME all[n] \in TD PROVE FALSE
              OBVIOUS
            <6>1. PICK y \in DOMAIN Held(t) :
                     Held(t)[y] = all[n] /\ (y = Meta \/ y \in LeavesOf(t.tree))
              BY <2>4
            <6>2. y = n
              BY <2>3, <5>2, <6>1 DEF Single, t
            <6> QED BY <5>1, <5>2, <6>1, <6>2
          <5> QED BY <1>1, <1>15, <3>1, <5>2, <5>3
        <4> QED BY <4>1, <4>2
      <3> QED BY <1>12, <3>1, <3>2, <3>3, <3>4
    <2> QED
      BY <2>8, <2>9, <2>10, <2>11
  <1> QED
    BY <1>16, <1>17, <1>18

-----------------------------------------------------------------------------
(* The start.                                                              *)

LEMMA NoTaskFacts ==
    /\ IsTask(NoTask) /\ NoTask.state = "none" /\ NoTask.parent = Nobody
    /\ NoTask.tree = <<>> /\ NoTask.self = 0 /\ NoTask.mmap_base = 0
    /\ NoTask.brk_start = 0 /\ NoTask.brk_current = 0
    /\ DOMAIN NoTask.tree = {} /\ TaskInv(NoTask) /\ DOMAIN Held(NoTask) = {}
  <1>1. IsTask(NoTask)
    BY DEF IsTask, NoTask
  <1>2. /\ NoTask.state = "none" /\ NoTask.parent = Nobody
        /\ NoTask.tree = <<>> /\ NoTask.self = 0 /\ NoTask.mmap_base = 0
        /\ NoTask.brk_start = 0 /\ NoTask.brk_current = 0
    BY DEF NoTask
  <1>3. DOMAIN <<>> = {}
    OBVIOUS
  <1>4. DOMAIN NoTask.tree = {}
    BY <1>2, <1>3
  <1>5. TaskInv(NoTask)
    BY <1>1, <1>2, <1>4 DEF TaskInv, Closed
  <1>6. DOMAIN Held(NoTask) = {}
    <2>1. DOMAIN NoTask.tree \subseteq Grid
      BY <1>4
    <2>2. DOMAIN Held(NoTask) = DOMAIN NoTask.tree \cup DOMAIN Beside(NoTask)
      BY <2>1, HeldDef
    <2>3. DOMAIN Beside(NoTask) = {}
      BY <1>2, BesideDef
    <2> QED BY <1>4, <2>2, <2>3
  <1> QED
    BY <1>1, <1>2, <1>4, <1>5, <1>6

LEMMA InitInv == Init => IInv
  <1> SUFFICES ASSUME Init PROVE IInv
    OBVIOUS
  <1> DEFINE pages == LoadedPages(Shell)
             W     == Wanted(<<>>, pages)
             meta  == FirstRun({0}, 1)
             u0    == {0, meta}
             image == Fresh(u0, W)
             kst   == FirstRun(u0 \cup FramesIn(image), 1)
             u1    == {0, meta, kst} \cup FramesIn(image)
             stk   == FirstRun(u1, 2)
             u2    == u1 \cup Run(stk, 2)
             S     == StackTables(image, Top)
             way   == Fresh(u2, S)
             all   == Override(Override(image, way), StackLeaves(Top, stk))
             code  == PageMap(image, pages)
             end   == EndOf(Shell)
             sh    == [NoTask EXCEPT !.state = "live", !.meta = meta, !.tree = all,
                         !.code = code, !.user_stack = stk, !.kstack = kst,
                         !.brk_start = end, !.brk_current = end]
  <1>1. /\ Loadable(Shell)
        /\ Room({0}, Cardinality(W) + 2)
        /\ RunsOf(u1, 2) # {} /\ Room(u2, Cardinality(S))
        /\ used = u2 \cup FramesIn(way)
        /\ task = [t \in Tasks |-> IF t # 1 THEN NoTask ELSE sh]
        /\ torn = FALSE /\ calls = 0
    BY Zenon DEF Init
  <1>2. 1 \in Tasks /\ 0 \in Frames /\ 0 \in 0..MaxCalls
    BY AddrSpaceAssumption DEF Tasks, Frames
  <1>3. pages \in SUBSET UserPages /\ end \in Nat
    BY <1>1, ImagePages
  <1> HIDE DEF pages, end
  <1>4. W \subseteq Grid /\ Closed(W) /\ Cardinality(W) \in Nat
    <2> DEFINE none == <<>>
    <2>1. DOMAIN none = {}
      OBVIOUS
    <2>2. Closed(DOMAIN none)
      BY <2>1 DEF Closed
    <2> HIDE DEF none
    <2>3. Wanted(none, pages) \subseteq Grid /\ Closed(DOMAIN none \cup Wanted(none, pages))
      BY <1>3, <2>2, WantedGrid, WantedClosed
    <2>4. DOMAIN none \cup Wanted(none, pages) = Wanted(none, pages)
      BY <2>1
    <2>5. W = Wanted(none, pages)
      BY DEF none
    <2> HIDE DEF W
    <2> QED BY <2>3, <2>4, <2>5, GridFinite
  <1> HIDE DEF W
  <1>5. meta \in Frames \ {0} /\ Room(u0, Cardinality(W) + 1)
    <2> DEFINE n == Cardinality(W) + 1
    <2>1. n \in Nat /\ Room({0}, n + 1) /\ n + 1 \in Nat /\ n + 1 >= 1
      <3>1. Cardinality(W) + 2 = n + 1
        BY <1>4
      <3> QED BY <1>1, <1>4, <3>1
    <2> HIDE DEF n
    <2>2. meta \in Frames \ {0}
      BY <2>1, FirstPageGives
    <2>3. Room({0} \cup {meta}, n)
      BY <2>1, RoomAfterPage
    <2>4. {0} \cup {meta} = u0
      OBVIOUS
    <2> QED BY <2>2, <2>3, <2>4 DEF n
  <1> HIDE DEF meta
  <1>6. /\ DOMAIN image = W /\ \A n \in W : image[n] \in Frames \ u0
        /\ FramesIn(image) \subseteq Frames \ u0 /\ Injective(image)
        /\ Room(u0 \cup FramesIn(image), 1)
    <2> HIDE DEF u0
    <2> QED BY <1>4, <1>5, RoomAfterFresh
  <1>7. \A n \in W : image[n] \in FramesIn(image)
    BY <1>6 DEF FramesIn
  <1> HIDE DEF image
  <1>8. kst \in Frames \ (u0 \cup FramesIn(image))
    <2>1. 1 >= 1
      OBVIOUS
    <2> QED BY <1>6, <2>1, FirstPageGives
  <1> HIDE DEF kst, u1
  <1>9. stk \in Nat /\ stk \in Frames \ u1 /\ stk + 1 \in Frames \ u1 /\ Run(stk, 2) = {stk, stk + 1}
    BY <1>1, TwoPages
  <1> HIDE DEF stk, u2
  <1>10. Top \in Nat /\ Top + 1 < Span[Levels]
    BY AddressAssumption
  <1>11. DOMAIN image \subseteq Grid /\ Closed(DOMAIN image)
    BY <1>4, <1>6
  <1>12. /\ DOMAIN all \subseteq Grid /\ Closed(DOMAIN all)
         /\ FramesIn(way) \subseteq Frames \ u2
         /\ Injective(way)
         /\ Leaf(Top) # Leaf(Top + 1)
         /\ \A n \in DOMAIN all :
              \/ n = Leaf(Top) /\ all[n] = stk
              \/ n = Leaf(Top + 1) /\ all[n] = stk + 1
              \/ n \in DOMAIN way /\ all[n] = way[n] /\ way[n] \in Frames \ u2
              \/ n \notin DOMAIN way /\ n \in DOMAIN image /\ all[n] = image[n]
    BY <1>1, <1>9, <1>10, <1>11, StackMapped
  <1>13. \A n \in DOMAIN way : way[n] \in FramesIn(way)
    BY DEF FramesIn
  <1> HIDE DEF way, S, all, code
  <1>14. /\ IsTask(sh) /\ sh.tree = all /\ sh.meta = meta /\ sh.kstack = kst
         /\ sh.state = "live" /\ sh.self = 0 /\ sh.parent = Nobody
         /\ sh.brk_start = end /\ sh.brk_current = end /\ sh.mmap_base = 0
    <2>0. IsTask(NoTask)
      BY NoTaskFacts
    <2>1. IsTask(sh) /\ sh.tree = all /\ sh.state = "live"
      BY <2>0 DEF IsTask
    <2>2. sh.meta = meta /\ sh.kstack = kst
      BY <2>0 DEF IsTask
    <2>3. sh.self = NoTask.self /\ sh.parent = NoTask.parent /\ sh.mmap_base = NoTask.mmap_base
      BY <2>0 DEF IsTask
    <2>4. sh.brk_start = end /\ sh.brk_current = end
      BY <2>0 DEF IsTask
    <2> HIDE DEF sh
    <2> QED BY <2>1, <2>2, <2>3, <2>4, NoTaskFacts
  <1> HIDE DEF sh
  <1>15. TaskInv(sh)
    BY <1>3, <1>12, <1>14 DEF TaskInv
  <1>16. /\ \A t \in Tasks : task[t] = IF t # 1 THEN NoTask ELSE sh
         /\ task = [t \in Tasks |-> task[t]] /\ task[1] = sh
         /\ \A t \in Tasks \ {1} : task[t] = NoTask
    BY <1>1, <1>2
  <1>17. /\ 0 \in u1 /\ u2 = u1 \cup {stk, stk + 1} /\ u2 \subseteq Frames
         /\ u1 = {0, meta, kst} \cup FramesIn(image)
    BY <1>2, <1>5, <1>6, <1>8, <1>9 DEF u1, u2
  <1>18. TasksInv
    <2>1. \A t \in Tasks : TaskInv(task[t])
      BY <1>15, <1>16, NoTaskFacts
    <2>2. used \subseteq Frames
      BY <1>1, <1>12, <1>17
    <2> QED BY <1>1, <1>2, <1>16, <2>1, <2>2 DEF TasksInv
  <1>19. /\ DOMAIN Held(sh) = DOMAIN all \cup {Meta, Kstack}
         /\ \A n \in DOMAIN all : Held(sh)[n] = all[n]
         /\ Meta \notin DOMAIN all /\ Kstack \notin DOMAIN all
         /\ Held(sh)[Meta] = meta /\ Held(sh)[Kstack] = kst
    <2>1. /\ DOMAIN Beside(sh) = {Meta, Kstack}
          /\ Beside(sh)[Meta] = meta /\ Beside(sh)[Kstack] = kst
      BY <1>14, BesideDef
    <2>2. DOMAIN sh.tree \subseteq Grid
      BY <1>12, <1>14
    <2>3. /\ DOMAIN Held(sh) = DOMAIN sh.tree \cup DOMAIN Beside(sh)
          /\ \A n \in DOMAIN sh.tree : Held(sh)[n] = sh.tree[n]
          /\ \A x \in DOMAIN Beside(sh) : x \notin DOMAIN sh.tree /\ Held(sh)[x] = Beside(sh)[x]
      BY <2>2, HeldDef
    <2> QED BY <1>14, <2>1, <2>3
  <1> HIDE DEF Held, Meta, Kstack, Leaf
  \* The classes of frames sh holds, which have none in common.
  <1>20. ASSUME NEW x \in DOMAIN Held(sh)
         PROVE  \/ x = Meta /\ Held(sh)[x] = meta
                \/ x = Kstack /\ Held(sh)[x] = kst
                \/ x = Leaf(Top) /\ Held(sh)[x] = stk
                \/ x = Leaf(Top + 1) /\ Held(sh)[x] = stk + 1
                \/ x \in DOMAIN way /\ Held(sh)[x] = way[x] /\ way[x] \in Frames \ u2
                \/ x \in W /\ Held(sh)[x] = image[x] /\ image[x] \in FramesIn(image)
    BY <1>6, <1>7, <1>12, <1>19
  <1>21. \A x \in DOMAIN Held(sh) : Held(sh)[x] \in used /\ Held(sh)[x] # 0
    <2>1. \A x \in DOMAIN way : way[x] \in used
      BY <1>1, <1>13
    <2>2. meta # 0 /\ kst # 0 /\ stk # 0 /\ stk + 1 # 0 /\ 0 \notin FramesIn(image) /\ 0 \in u2
      BY <1>5, <1>6, <1>8, <1>9, <1>17
    <2>3. {meta, kst, stk, stk + 1} \cup FramesIn(image) \subseteq used
      BY <1>1, <1>17
    <2> QED BY <1>20, <2>1, <2>2, <2>3
  <1>22. ASSUME NEW x \in DOMAIN Held(sh), NEW y \in DOMAIN Held(sh), Held(sh)[x] = Held(sh)[y]
         PROVE  x = y
    <2>1. {meta, kst, stk, stk + 1} \cup FramesIn(image) \subseteq u2
      BY <1>17
    <2>2. /\ meta # kst /\ meta # stk /\ meta # stk + 1 /\ kst # stk /\ kst # stk + 1
          /\ stk # stk + 1
          /\ {meta, kst, stk, stk + 1} \cap FramesIn(image) = {}
      BY <1>6, <1>8, <1>9, <1>17
    <2>3. \A m, n \in DOMAIN way : way[m] = way[n] => m = n
      BY <1>12 DEF Injective
    <2>4. \A m, n \in W : image[m] = image[n] => m = n
      BY <1>6 DEF Injective
    <2> QED BY <1>20, <1>22, <2>1, <2>2, <2>3, <2>4
  <1>23. Owned(used, task)
    <2>1. ASSUME NEW t \in Tasks, NEW x \in DOMAIN Held(task[t])
          PROVE  Held(task[t])[x] \in used /\ Held(task[t])[x] # 0
      BY <1>16, <1>21, <2>1, NoTaskFacts
    <2> QED BY <2>1 DEF Owned
  <1>24. Single(task)
    <2>1. ASSUME NEW s \in Tasks, NEW t \in Tasks,
                 NEW x \in DOMAIN Held(task[s]), NEW y \in DOMAIN Held(task[t]),
                 Held(task[s])[x] = Held(task[t])[y]
          PROVE  s = t /\ x = y
      <3>1. s = 1 /\ t = 1
        BY <1>16, NoTaskFacts
      <3> QED BY <1>16, <1>22, <2>1, <3>1
    <2> QED BY <2>1 DEF Single
  <1> QED
    BY <1>1, <1>17, <1>18, <1>23, <1>24 DEF IInv, FramesInv

-----------------------------------------------------------------------------
(* The invariant is inductive, and what follows from it.                   *)

LEMMA StutterKeeps ==
    ASSUME IInv, UNCHANGED vars
    PROVE  IInv' /\ Lost' = Lost /\ task' = task /\ torn' = torn
  <1>1. used' = used /\ task' = task /\ torn' = torn /\ calls' = calls
    BY DEF vars
  <1>2. TasksInv'
    BY <1>1 DEF IInv, TasksInv
  <1>3. FramesInv => FramesInv'
    BY <1>1 DEF FramesInv, Owned, Single
  <1>4. Lost' = Lost
    BY <1>1 DEF Lost
  <1> QED
    BY <1>1, <1>2, <1>3, <1>4 DEF IInv

\* A step keeps the invariant; an exec apart, it loses only what it maps over.
LEMMA StepKeeps ==
    ASSUME IInv, [Next]_vars
    PROVE  IInv' /\ (~torn' => Accounted)
  <1>1. CASE UNCHANGED vars
    BY <1>1, StutterKeeps DEF Accounted
  <1>2. CASE Next
    <2> USE DEF Accounted
    <2>1. ASSUME NEW p \in Tasks, Fork(p) PROVE IInv' /\ Accounted
      BY <2>1, ForkKeeps
    <2>2. ASSUME NEW p \in Tasks, NEW img \in Images, NEW prog \in Programs,
                 ExecFails(p, img, prog)
          PROVE  IInv' /\ Accounted
      <3> HIDE DEF Accounted
      <3> QED BY <2>2, ExecFailsKeeps
    <2>3. ASSUME NEW p \in Tasks, NEW img \in Images, NEW prog \in Programs,
                 ExecCommits(p, img, prog)
          PROVE  IInv' /\ torn'
      BY <2>3, ExecCommitsKeeps
    <2>4. ASSUME NEW p \in Tasks, NEW addr \in Breaks, Brk(p, addr) PROVE IInv' /\ Accounted
      <3> HIDE DEF Accounted
      <3> QED BY <2>4, BrkKeeps
    <2>5. ASSUME NEW p \in Tasks, NEW v \in Places, NEW n \in Lengths, MmapAt(p, v, n)
          PROVE  IInv' /\ Accounted
      <3> HIDE DEF Accounted
      <3> QED BY <2>5, MmapAtKeeps
    <2>6. ASSUME NEW p \in Tasks, NEW n \in Lengths, MmapAnywhere(p, n) PROVE IInv' /\ Accounted
      <3> HIDE DEF Accounted
      <3> QED BY <2>6, MmapAnywhereKeeps
    <2>7. ASSUME NEW p \in Tasks, NEW v \in Places, NEW n \in Lengths, Munmap(p, v, n)
          PROVE  IInv' /\ Accounted
      BY <2>7, MunmapKeeps
    <2>8. ASSUME NEW p \in Tasks, Exit(p) PROVE IInv' /\ Accounted
      BY <2>8, ExitKeeps
    <2>9. ASSUME NEW p \in Tasks, NEW c \in Tasks, Collect(p, c) PROVE IInv' /\ Accounted
      BY <2>9, CollectKeeps
    <2> HIDE DEF Accounted
    <2> QED
      BY <1>2, <2>1, <2>2, <2>3, <2>4, <2>5, <2>6, <2>7, <2>8, <2>9 DEF Next
  <1> QED
    BY <1>1, <1>2

\* Every reachable state satisfies the invariant.
THEOREM Invariance == Spec => []IInv
  <1>1. Init => IInv
    BY InitInv
  <1>2. IInv /\ [Next]_vars => IInv'
    BY StepKeeps
  <1> QED
    BY <1>1, <1>2, PTL DEF Spec

\* The page tables of sys_fork, elf_load_into, sys_brk, sys_mmap and sys_munmap
\* are trees of page table nodes, with any number of levels and entries, and a
\* break is never below its start: Spec => []TypeOK.
THEOREM TypeCorrect == Spec => []TypeOK
  <1>1. IInv => TypeOK
    <2>1. Grid \subseteq Node
      BY GridFinite
    <2> QED BY <2>1 DEF IInv, TasksInv, TaskInv, TypeOK, Closed
  <1> QED
    BY <1>1, Invariance, PTL

\* Until a first exec has torn an image down, no process, ended or not, names a
\* frame that the page allocator has free.
THEOREM NothingDangles == Spec => []NoDangling
  <1>1. IInv => NoDangling
    BY DEF IInv, FramesInv, Owned, NoDangling, TearDownSafe, FramesIn
  <1> QED
    BY <1>1, Invariance, PTL

LEMMA HeldFinite ==
    ASSUME NEW t, TaskInv(t)
    PROVE  IsFiniteSet(DOMAIN Held(t))
  <1>1. DOMAIN t.tree \subseteq Grid
    BY DEF TaskInv
  <1>2. IsFiniteSet(DOMAIN t.tree)
    BY <1>1, GridFinite
  <1>3. IsFiniteSet({Meta, Kstack, Self})
    <2>1. IsFiniteSet({}) /\ IsFiniteSet({} \cup {Meta}) /\ IsFiniteSet({} \cup {Meta} \cup {Kstack})
          /\ IsFiniteSet({} \cup {Meta} \cup {Kstack} \cup {Self})
      BY FS_EmptySet, FS_AddElement
    <2>2. {} \cup {Meta} \cup {Kstack} \cup {Self} = {Meta, Kstack, Self}
      OBVIOUS
    <2> QED BY <2>1, <2>2
  <1>4. DOMAIN Beside(t) \subseteq {Meta, Kstack, Self}
    BY BesideDef
  <1>5. IsFiniteSet(DOMAIN Beside(t))
    BY <1>3, <1>4, FS_Subset
  <1>6. DOMAIN Held(t) = DOMAIN t.tree \cup DOMAIN Beside(t)
    BY <1>1, HeldDef
  <1> QED
    BY <1>2, <1>5, <1>6, FS_Union

\* Until then no frame stands in two page tables, twice in one, or in a page
\* table and beside it.
THEOREM NoFrameTwice == Spec => []NothingShared
  <1>1. IInv => NothingShared
    <2> SUFFICES ASSUME IInv, ~torn, NEW t \in Tasks
                 PROVE  /\ Cardinality(FramesIn(Held(task[t]))) = Cardinality(DOMAIN Held(task[t]))
                        /\ \A u \in Tasks \ {t} :
                             FramesIn(Held(task[t])) \cap FramesIn(Held(task[u])) = {}
      BY Zenon DEF NothingShared
    <2>1. Single(task) /\ TaskInv(task[t])
      BY DEF IInv, FramesInv, TasksInv
    <2>2. \A u \in Tasks \ {t} : FramesIn(Held(task[t])) \cap FramesIn(Held(task[u])) = {}
      BY <2>1 DEF Single, FramesIn
    <2> DEFINE h == Held(task[t])
               S == DOMAIN h
               g == [x \in S |-> h[x]]
    <2>3. IsFiniteSet(S)
      BY <2>1, HeldFinite
    <2>4. \A x, y \in S : h[x] = h[y] => x = y
      BY <2>1 DEF Single
    <2> HIDE DEF h
    <2>5. g \in Surjection(S, FramesIn(h)) /\ g \in Injection(S, FramesIn(h))
      BY <2>4 DEF Surjection, Injection, IsInjective, FramesIn
    <2>6. Cardinality(FramesIn(h)) = Cardinality(S)
      <3> HIDE DEF g, S
      <3> QED BY <2>3, <2>5, FS_Surjection
    <2> QED BY <2>2, <2>6 DEF h
  <1> QED
    BY <1>1, Invariance, PTL

\* fork, exit, waitpid and munmap account for every frame, and mmap, brk and a
\* failed exec for all but those of pages that were mapped already.
THEOREM LossesAccounted == Spec => OnlyOverwritingLoses
  <1>1. IInv /\ [Next]_vars =>
          [~torn' =>
             \A f \in Lost' \ Lost :
               \E t \in Tasks : \E n \in LeavesOf(task[t].tree) :
                 /\ task[t].tree[n] = f
                 /\ n \in DOMAIN task'[t].tree /\ task'[t].tree[n] # f]_vars
    BY StepKeeps DEF Accounted
  <1> QED
    BY <1>1, Invariance, PTL DEF Spec, OnlyOverwritingLoses

LEMMA TornByExec ==
    ASSUME IInv, Next, ~torn, torn'
    PROVE  \E p \in Tasks, img \in Images, prog \in Programs : ExecCommits(p, img, prog)
  <1>1. ASSUME NEW p \in Tasks, Fork(p) PROVE FALSE
    <2>1. torn' = torn
      BY <1>1, Zenon DEF Fork
    <2> QED BY <2>1
  <1>2. ASSUME NEW p \in Tasks, NEW img, NEW prog PROVE ~ExecFails(p, img, prog)
    BY DEF ExecFails
  <1>3. ASSUME NEW p \in Tasks, NEW addr PROVE ~Brk(p, addr)
    BY DEF Brk
  <1>4. ASSUME NEW p \in Tasks, NEW v, NEW n
        PROVE  ~MmapAt(p, v, n) /\ ~MmapAnywhere(p, n) /\ ~Munmap(p, v, n)
    BY DEF MmapAt, MmapAnywhere, Munmap
  <1>5. ASSUME NEW p \in Tasks, NEW c PROVE ~Exit(p) /\ ~Collect(p, c)
    BY DEF Exit, Collect
  <1> QED
    BY <1>1, <1>2, <1>3, <1>4, <1>5 DEF Next

\* The tear-down of sys_exec, for a process whose page_map and user_stack say
\* what its page table says: it frees no frame of another process, none of its
\* own tables, and none of the image it has just loaded.
THEOREM TearDownTakesOwn == Spec => CommitFreesOwn
  <1> DEFINE Safe(p) ==
               torn' /\ ~torn /\ task'[p] # task[p] /\ TrueFields(task[p]) =>
                 /\ \A t \in Tasks \ {p} : FramesIn(Held(task[t])) \subseteq used'
                 /\ FramesIn(task'[p].code) \cup {task'[p].meta} \subseteq used'
                 /\ Run(task'[p].user_stack, 2) \subseteq used'
                 /\ \A n \in DOMAIN task'[p].tree \ LeavesOf(task'[p].tree) :
                      task'[p].tree[n] \in used'
  <1>1. ASSUME IInv, Next, NEW p \in Tasks PROVE Safe(p)
    <2> SUFFICES ASSUME torn', ~torn, task'[p] # task[p], TrueFields(task[p])
                 PROVE  /\ \A t \in Tasks \ {p} : FramesIn(Held(task[t])) \subseteq used'
                        /\ FramesIn(task'[p].code) \cup {task'[p].meta} \subseteq used'
                        /\ Run(task'[p].user_stack, 2) \subseteq used'
                        /\ \A n \in DOMAIN task'[p].tree \ LeavesOf(task'[p].tree) :
                             task'[p].tree[n] \in used'
      OBVIOUS
    <2>1. PICK q \in Tasks, img \in Images, prog \in Programs : ExecCommits(q, img, prog)
      BY <1>1, TornByExec
    <2>2. q = p
      BY <1>1, <2>1, ExecCommitsKeeps
    <2> QED
      BY <1>1, <2>1, <2>2, ExecCommitsKeeps
  <1>2. IInv /\ [Next]_vars => [\A p \in Tasks : Safe(p)]_vars
    BY <1>1
  <1> QED
    BY <1>2, Invariance, PTL DEF Spec, CommitFreesOwn
-----------------------------------------------------------------------------
(* The first stack of a program.                                           *)

IsSum(f, n, s) == f = [i \in 0..n |-> IF i = 0 THEN 0 ELSE f[i - 1] + s[i]]

\* The sums along a sequence are defined, and numbers.
LEMMA SumIs ==
    ASSUME NEW s \in Seq(Nat), NEW n \in 0..Len(s)
    PROVE  \E f \in [0..n -> Nat] : IsSum(f, n, s)
  <1> DEFINE Bad == {m \in 0..Len(s) : ~ \E f \in [0..m -> Nat] : IsSum(f, m, s)}
  <1>1. Len(s) \in Nat /\ \A i \in 1..Len(s) : s[i] \in Nat
    OBVIOUS
  <1>2. SUFFICES ASSUME Bad # {}
                 PROVE  FALSE
    OBVIOUS
  <1>3. PICK m \in Bad : \A j \in Bad : m <= j
    <2>1. Bad \in SUBSET Nat
      BY <1>1
    <2> HIDE DEF Bad
    <2> QED
      BY <1>2, <2>1, Minimum
  <1>4. m # 0
    <2>1. \A i \in 0..0 : i = 0
      OBVIOUS
    <2>2. [i \in 0..0 |-> 0] \in [0..0 -> Nat] /\ IsSum([i \in 0..0 |-> 0], 0, s)
      BY <2>1 DEF IsSum
    <2> QED
      BY <1>3, <2>2
  <1>5. m \in 1..Len(s) /\ m - 1 \in 0..Len(s) /\ m - 1 \in Nat /\ m - 1 \notin Bad
    <2>1. m \in 0..Len(s)
      BY <1>3
    <2>2. m \in 1..Len(s) /\ m - 1 \in 0..Len(s) /\ m - 1 \in Nat /\ ~(m <= m - 1)
      BY <1>1, <1>4, <2>1
    <2>3. m - 1 \notin Bad
      BY <1>3, <2>2, Zenon
    <2> QED
      BY <2>2, <2>3
  <1>6. PICK g \in [0..(m - 1) -> Nat] : IsSum(g, m - 1, s)
    BY <1>5
  <1> DEFINE h == [i \in 0..m |-> IF i = m THEN g[m - 1] + s[m] ELSE g[i]]
  <1>7. \A i \in 0..(m - 1) : g[i] = IF i = 0 THEN 0 ELSE g[i - 1] + s[i]
    BY <1>6 DEF IsSum
  <1>8. h \in [0..m -> Nat]
    <2>1. g[m - 1] + s[m] \in Nat
      <3>1. m - 1 \in 0..(m - 1)
        BY <1>5
      <3>2. g[m - 1] \in Nat /\ s[m] \in Nat
        BY <1>1, <1>5, <3>1
      <3> QED
        BY <3>2
    <2>2. \A i \in 0..m : i # m => i \in 0..(m - 1)
      BY <1>5
    <2> QED
      BY <2>1, <2>2
  <1>9. \A i \in 0..m : h[i] = IF i = 0 THEN 0 ELSE h[i - 1] + s[i]
    <2> TAKE i \in 0..m
    <2>1. h[i] = IF i = m THEN g[m - 1] + s[m] ELSE g[i]
      OBVIOUS
    <2>2. i # 0 => i - 1 \in 0..m /\ i - 1 # m
      BY <1>5
    <2>3. i # 0 => h[i - 1] = g[i - 1]
      BY <2>2
    <2> HIDE DEF h
    <2>4. i # m => i \in 0..(m - 1)
      BY <1>5
    <2> QED
      BY <1>4, <1>7, <2>1, <2>3, <2>4
  <1> HIDE DEF h
  <1>10. IsSum(h, m, s)
    <2>1. h = [i \in 0..m |-> h[i]]
      BY <1>8
    <2> QED
      BY <1>9, <2>1 DEF IsSum
  <1> QED
    BY <1>3, <1>8, <1>10

LEMMA TotalIsNat ==
    ASSUME NEW s \in Seq(Nat)
    PROVE  Total(s) \in Nat
  <1> DEFINE n == Len(s)
             sum == CHOOSE f : f = [i \in 0..n |-> IF i = 0 THEN 0 ELSE f[i - 1] + s[i]]
  <1>1. Total(s) = sum[n]
    BY Zenon DEF Total
  <1>2. n \in Nat /\ n \in 0..n /\ \A i \in 1..n : s[i] \in Nat
    OBVIOUS
  <1>3. PICK f \in [0..n -> Nat] : IsSum(f, n, s)
    BY <1>2, SumIs
  <1>4. sum = [i \in 0..n |-> IF i = 0 THEN 0 ELSE sum[i - 1] + s[i]]
    BY <1>3, Zenon DEF IsSum
  <1> HIDE DEF sum
  <1> DEFINE Bad == {i \in 0..n : sum[i] # f[i]}
  <1>5. Bad = {}
    <2>1. SUFFICES ASSUME Bad # {}
                   PROVE  FALSE
      OBVIOUS
    <2>2. PICK i \in Bad : \A j \in Bad : i <= j
      <3>1. Bad \in SUBSET Nat
        BY <1>2
      <3> HIDE DEF Bad
      <3> QED
        BY <2>1, <3>1, Minimum
    <2>3. i \in 0..n /\ sum[i] # f[i]
      BY <2>2
    <2>4. /\ sum[i] = IF i = 0 THEN 0 ELSE sum[i - 1] + s[i]
          /\ f[i] = IF i = 0 THEN 0 ELSE f[i - 1] + s[i]
      <3>1. \A j \in 0..n : f[j] = IF j = 0 THEN 0 ELSE f[j - 1] + s[j]
        BY <1>3, Zenon DEF IsSum
      <3>2. \A j \in 0..n : sum[j] = IF j = 0 THEN 0 ELSE sum[j - 1] + s[j]
        BY <1>4, Zenon
      <3> QED
        BY <2>3, <3>1, <3>2, Zenon
    <2>5. i # 0 => sum[i - 1] = f[i - 1]
      <3>1. i # 0 => i - 1 \in 0..n /\ ~(i <= i - 1)
        BY <1>2, <2>3
      <3> QED
        BY <2>2, <3>1
    <2> QED
      BY <2>3, <2>4, <2>5
  <1> QED
    BY <1>1, <1>2, <1>5

\* What EntrySound says of one program.
SoundEntry(e) ==
    /\ e.rsp % 16 = 0 /\ e.rsp >= 0 /\ e.argv = e.rsp + 8
    /\ e.envp >= e.argv + 8 * e.argc + 8
    /\ e.envp + 8 <= e.strings /\ e.strings <= StackBytes

\* Rounding down to a multiple of 16.
LEMMA AlignedIs ==
    ASSUME NEW x \in Nat
    PROVE  /\ (x \div 16) * 16 \in Nat /\ (x \div 16) * 16 <= x
           /\ ((x \div 16) * 16) % 16 = 0
  OBVIOUS

\* Whatever build_user_stack accepts is laid out as it should be.
LEMMA StackSound ==
    ASSUME NEW argv \in Seq(Nat), NEW envp \in Seq(Nat),
           ArrayBytes(argv, envp) <= StringsAt(argv, envp)
    PROVE  SoundEntry(UserStackOf(argv, envp))
  <1> DEFINE a    == Total(argv)
             b    == Total(envp)
             m    == Len(argv)
             n    == Len(envp)
             top  == StringsAt(argv, envp)
             size == ArrayBytes(argv, envp)
             rsp  == ((top - size) \div 16) * 16
             e    == UserStackOf(argv, envp)
  <1>1. a \in Nat /\ b \in Nat
    BY TotalIsNat
  <1>2. m \in Nat /\ n \in Nat /\ StackBytes \in Nat
    BY UserStackAssumption
  <1>3. top = StackBytes - a - b /\ size = 24 + 8 * m + 8 * n
    BY DEF StringsAt, ArrayBytes
  <1>4. size <= top
    OBVIOUS
  <1>5. /\ e.rsp = rsp /\ e.argc = m /\ e.argv = rsp + 8
        /\ e.envp = (rsp + 8) + 8 * m + 8 /\ e.strings = top
    BY DEF UserStackOf
  <1> HIDE DEF a, b, m, n, top, size, e
  <1>6. top \in Int /\ size \in Nat /\ top <= StackBytes
    BY <1>1, <1>2, <1>3
  <1>7. top - size \in Nat
    BY <1>4, <1>6
  <1>8. rsp \in Nat /\ rsp <= top - size /\ rsp % 16 = 0
    BY <1>7, AlignedIs
  <1> HIDE DEF rsp
  <1>9. (rsp + 8) + 8 * m + 8 + 8 <= top
    BY <1>2, <1>3, <1>6, <1>8
  <1>10. SoundEntry(e)
    BY <1>2, <1>5, <1>6, <1>8, <1>9 DEF SoundEntry
  <1> QED
    BY <1>10 DEF e

\* sh starts with an empty argument list.
LEMMA EmptyStack == SoundEntry(UserStackOf(<<>>, <<>>))
  <1>1. <<>> \in Seq(Nat) /\ Len(<<>>) = 0
    OBVIOUS
  <1>2. Total(<<>>) = 0
    <2> DEFINE sum == CHOOSE f : f = [i \in 0..0 |-> IF i = 0 THEN 0 ELSE f[i - 1] + <<>>[i]]
    <2>1. Total(<<>>) = sum[0]
      BY <1>1 DEF Total
    <2>2. \E f : IsSum(f, 0, <<>>)
      <3>1. 0 \in 0..Len(<<>>)
        BY <1>1
      <3> QED
        BY <1>1, <3>1, SumIs
    <2>3. sum = [i \in 0..0 |-> IF i = 0 THEN 0 ELSE sum[i - 1] + <<>>[i]]
      BY <2>2, Zenon DEF IsSum
    <2> HIDE DEF sum
    <2>4. 0 \in 0..0
      OBVIOUS
    <2> QED
      BY <2>1, <2>3, <2>4
  <1>3. ArrayBytes(<<>>, <<>>) <= StringsAt(<<>>, <<>>)
    BY <1>1, <1>2, UserStackAssumption DEF ArrayBytes, StringsAt
  <1> QED
    BY <1>1, <1>3, StackSound

\* One task's fields become t, and its program stays.
LEMMA EntryKept ==
    ASSUME TasksInv, EntrySound, NEW p \in Tasks, NEW t, task' = [task EXCEPT ![p] = t],
           SoundEntry(t.entry)
    PROVE  EntrySound'
  <1>1. \A s \in Tasks : task'[s] = IF s = p THEN t ELSE task[s]
    BY DEF TasksInv
  <1>2. \A s \in Tasks : SoundEntry(task[s].entry)
    BY DEF EntrySound, SoundEntry
  <1>3. \A s \in Tasks : SoundEntry(task'[s].entry)
    BY <1>1, <1>2
  <1> QED
    BY <1>3 DEF EntrySound, SoundEntry

\* A program starts with an aligned stack pointer inside its stack, argc, argv and
\* envp in their places, and all of them below the strings, whatever arguments and
\* sizes sys_exec is given and however processes fork: Spec => []EntrySound.
THEOREM StacksSound == Spec => []EntrySound
  <1>1. Init => EntrySound
    <2> SUFFICES ASSUME Init PROVE EntrySound
      OBVIOUS
    <2>1. NoTask.entry = UserStackOf(<<>>, <<>>) /\ IsTask(NoTask)
      <3> HIDE DEF UserStackOf
      <3> QED
        BY DEF NoTask, IsTask
    <2>2. ASSUME NEW t \in Tasks PROVE task[t].entry = NoTask.entry
      <3>1. CASE t # 1
        BY <3>1 DEF Init
      <3>2. CASE t = 1
        <4>1. \E meta, tree, code, stk, kst, end :
                task[t] = [NoTask EXCEPT !.state = "live", !.meta = meta, !.tree = tree,
                             !.code = code, !.user_stack = stk, !.kstack = kst,
                             !.brk_start = end, !.brk_current = end]
          BY <3>2 DEF Init
        <4> QED
          BY <2>1, <4>1 DEF IsTask
      <3> QED
        BY <3>1, <3>2
    <2>3. \A t \in Tasks : SoundEntry(task[t].entry)
      BY <2>1, <2>2, EmptyStack
    <2> QED
      BY <2>3 DEF EntrySound, SoundEntry
  <1>2. IInv /\ EntrySound /\ [Next]_vars => EntrySound'
    <2> SUFFICES ASSUME IInv, EntrySound, [Next]_vars PROVE EntrySound'
      OBVIOUS
    <2>1. /\ TasksInv /\ \A t \in Tasks : IsTask(task[t]) /\ SoundEntry(task[t].entry)
      BY DEF IInv, TasksInv, TaskInv, EntrySound, SoundEntry
    <2>2. CASE UNCHANGED vars
      BY <2>2 DEF vars, EntrySound
    <2>3. ASSUME NEW p \in Tasks, Fork(p) PROVE EntrySound'
      <3> DEFINE tree == Clone(used, task[p].tree)
                 u1   == used \cup FramesIn(tree)
                 self == FirstRun(u1, 1)
                 kst  == FirstRun(u1 \cup {self}, 1)
                 meta == FirstRun(u1 \cup {self, kst}, 1)
                 code == [v \in DOMAIN task[p].code |-> FrameAt(tree, v)]
                 stk  == FrameAt(tree, Top)
      <3>1. PICK c \in Tasks :
              task' = [task EXCEPT ![c] =
                         [task[p] EXCEPT !.parent = p, !.tree = tree, !.self = self,
                            !.kstack = kst, !.meta = meta, !.code = code, !.user_stack = stk]]
        BY <2>3, Zenon DEF Fork
      <3> HIDE DEF tree, u1, self, kst, meta, code, stk
      <3> DEFINE t == [task[p] EXCEPT !.parent = p, !.tree = tree, !.self = self,
                         !.kstack = kst, !.meta = meta, !.code = code, !.user_stack = stk]
      <3>3. t.entry = task[p].entry
        BY <2>1 DEF IsTask
      <3>4. task' = [task EXCEPT ![c] = t]
        BY <3>1
      <3> HIDE DEF t
      <3> QED
        BY <2>1, <3>3, <3>4, EntryKept
    <2>4. ASSUME NEW p \in Tasks, NEW img \in Images, NEW prog \in Programs,
                 ExecFails(p, img, prog)
          PROVE  EntrySound'
      <3>1. PICK tree : task' = [task EXCEPT ![p].tree = tree]
        BY <2>4, Zenon DEF ExecFails
      <3> DEFINE t == [task[p] EXCEPT !.tree = tree]
      <3>2. t.entry = task[p].entry
        BY <2>1 DEF IsTask
      <3>3. task' = [task EXCEPT ![p] = t]
        BY <3>1
      <3> HIDE DEF t
      <3> QED
        BY <2>1, <3>2, <3>3, EntryKept
    <2>5. ASSUME NEW p \in Tasks, NEW img \in Images, NEW prog \in Programs,
                 ExecCommits(p, img, prog)
          PROVE  EntrySound'
      <3> DEFINE entry == UserStackOf(prog.argv, prog.envp)
      <3>1. PICK tree, code, map, stk, end :
              task' = [task EXCEPT ![p] =
                         [@ EXCEPT !.tree = tree, !.code = code, !.meta = map,
                            !.user_stack = stk, !.brk_start = end, !.brk_current = end,
                            !.entry = entry]]
        BY <2>5, Zenon DEF ExecCommits
      <3>2. SoundEntry(entry)
        <4>1. prog.argv \in Seq(Nat) /\ prog.envp \in Seq(Nat)
          BY AddressAssumption
        <4>2. StackFits(prog.argv, prog.envp)
          BY <2>5 DEF ExecCommits
        <4> QED
          BY <4>1, <4>2, StackSound DEF StackFits
      <3> HIDE DEF entry
      <3> DEFINE t == [task[p] EXCEPT !.tree = tree, !.code = code, !.meta = map,
                         !.user_stack = stk, !.brk_start = end, !.brk_current = end,
                         !.entry = entry]
      <3>3. t.entry = entry
        BY <2>1 DEF IsTask
      <3>4. task' = [task EXCEPT ![p] = t]
        BY <3>1
      <3> HIDE DEF t
      <3> QED
        BY <2>1, <3>2, <3>3, <3>4, EntryKept
    <2>6. ASSUME NEW p \in Tasks, NEW t, NEW tree, SoundEntry(t.entry), IsTask(t),
                 task' = [task EXCEPT ![p] = [t EXCEPT !.tree = tree]]
          PROVE  EntrySound'
      <3> DEFINE s == [t EXCEPT !.tree = tree]
      <3>1. s.entry = t.entry /\ task' = [task EXCEPT ![p] = s]
        BY <2>6 DEF IsTask
      <3> HIDE DEF s
      <3> QED
        BY <2>1, <2>6, <3>1, EntryKept
    <2>7. ASSUME NEW p \in Tasks, NEW t, NEW pages, SoundEntry(t.entry), IsTask(t),
                 MapPages(p, t, pages) \/ UnmapPages(p, t, pages)
          PROVE  EntrySound'
      <3>1. \E tree : task' = [task EXCEPT ![p] = [t EXCEPT !.tree = tree]]
        BY <2>7, Zenon DEF MapPages, UnmapPages
      <3> QED
        BY <2>6, <2>7, <3>1
    <2>8. ASSUME NEW p \in Tasks, NEW addr \in Breaks, Brk(p, addr) PROVE EntrySound'
      <3> DEFINE t == [task[p] EXCEPT !.brk_current = addr]
      <3>1. \E pages : MapPages(p, t, pages) \/ UnmapPages(p, t, pages)
        BY <2>8, Zenon DEF Brk
      <3>2. t.entry = task[p].entry /\ IsTask(t)
        BY <2>1 DEF IsTask
      <3> HIDE DEF t
      <3> QED
        BY <2>1, <2>7, <3>1, <3>2
    <2>9. ASSUME NEW p \in Tasks, NEW v, NEW n, MmapAt(p, v, n) \/ Munmap(p, v, n)
          PROVE  EntrySound'
      BY <2>1, <2>7, <2>9 DEF MmapAt, Munmap
    <2>10. ASSUME NEW p \in Tasks, NEW n, MmapAnywhere(p, n) PROVE EntrySound'
      <3>1. PICK base, pages : MapPages(p, [task[p] EXCEPT !.mmap_base = base], pages)
        BY <2>10, Zenon DEF MmapAnywhere
      <3> DEFINE t == [task[p] EXCEPT !.mmap_base = base]
      <3>2. t.entry = task[p].entry /\ IsTask(t)
        BY <2>1 DEF IsTask
      <3>3. MapPages(p, t, pages)
        BY <3>1
      <3> HIDE DEF t
      <3> QED
        BY <2>1, <2>7, <3>2, <3>3
    <2>11. ASSUME NEW p \in Tasks, Exit(p) PROVE EntrySound'
      <3> DEFINE t == [task[p] EXCEPT !.state = "zombie", !.tree = <<>>, !.code = <<>>,
                                      !.user_stack = 0]
      <3>1. task' = [task EXCEPT ![p] = t]
        BY <2>1, <2>11 DEF Exit, TasksInv
      <3>2. t.entry = task[p].entry
        BY <2>1 DEF IsTask
      <3> HIDE DEF t
      <3> QED
        BY <2>1, <3>1, <3>2, EntryKept
    <2>12. ASSUME NEW p \in Tasks, NEW c \in Tasks, Collect(p, c) PROVE EntrySound'
      <3> DEFINE t == [task[c] EXCEPT !.state = "gone"]
      <3>1. task' = [task EXCEPT ![c] = t]
        BY <2>12 DEF Collect
      <3>2. t.entry = task[c].entry
        BY <2>1 DEF IsTask
      <3> HIDE DEF t
      <3> QED
        BY <2>1, <3>1, <3>2, EntryKept
    <2> QED
      BY <2>2, <2>3, <2>4, <2>5, <2>8, <2>9, <2>10, <2>11, <2>12 DEF Next
  <1> QED
    BY <1>1, <1>2, Invariance, PTL DEF Spec
=============================================================================
