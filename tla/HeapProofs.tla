----------------------------- MODULE HeapProofs -----------------------------
(***************************************************************************)
(* Proofs about Heap, for any memory, any sizes of pages and headers, any  *)
(* alignment and any number of blocks.                                     *)
(***************************************************************************)
EXTENDS Heap, SequenceTheorems, WellFoundedInduction, TLAPS

-----------------------------------------------------------------------------
(* The invariant.                                                          *)

MinorSet == [at : Nat, size : Nat, req : Nat, shift : Nat]
MajorSet == [page : Nat, pages : Nat, usage : Nat, minors : Seq(MinorSet)]

End(m)   == Start(m) + Bytes(m)
Behind(x) == x.at + MinorHead + x.size

\* A block has its padding, and its pointer is aligned.
MinorSound(x) == x.size >= Padded(x.req) /\ x.shift = ShiftAt(x.at)

\* The minors of a major lie in it by rising address and do not overlap, and
\* `usage` counts them.
InOrder(m) ==
    /\ m.pages >= 1
    /\ \A k \in 1..Len(m.minors) :
         /\ MinorSound(m.minors[k])
         /\ Start(m) + MajorHead <= m.minors[k].at /\ Behind(m.minors[k]) <= End(m)
    /\ \A j, k \in 1..Len(m.minors) : j < k => Behind(m.minors[j]) <= m.minors[k].at
    /\ m.usage = MajorHead + Total(Spans(m))

Sound(m) == m \in MajorSet /\ m.page # Null /\ InOrder(m)

\* What callers hold are the blocks of the minors: nothing else, and all of them.
Block(x) == [ptr |-> Pointer(x), size |-> x.req]
BlocksOf(list) ==
    UNION {{Block(list[i].minors[k]) : k \in 1..Len(list[i].minors)} : i \in 1..Len(list)}

PagesApart(list) ==
    \A i, j \in 1..Len(list) : i # j => PagesOf(list[i]) \cap PagesOf(list[j]) = {}

IsBet(list, bet) == bet \in {Null} \cup {list[i].page : i \in 1..Len(list)}

\* A list of majors.
SoundList(list) ==
    /\ list \in Seq(MajorSet)
    /\ \A i \in 1..Len(list) : Sound(list[i])
    /\ PagesApart(list)

\* The heap between two steps, and between the two halves of krealloc.
HeapInv(list, bet, blocks, inuse, allocated, other) ==
    /\ SoundList(list)
    /\ \A i \in 1..Len(list) : list[i].minors # <<>>
    /\ \A i \in 1..Len(list) : PagesOf(list[i]) \cap other = {}
    /\ IsBet(list, bet)
    /\ blocks = BlocksOf(list)
    /\ inuse = InUse(list) /\ allocated = AllBytes(list)

IInv == HeapInv(majors, l_bestBet, held, l_inuse, l_allocated, others)

-----------------------------------------------------------------------------
(* Numbers.                                                                *)

LEMMA ConstFacts ==
    /\ Pages \subseteq Nat /\ 0 \notin Pages
    /\ PageSize \in Nat /\ PageSize >= 1 /\ PageCount \in Nat /\ PageCount >= 1
    /\ Alignment \in Nat /\ Alignment >= 1
    /\ MajorHead \in Nat /\ MinorHead \in Nat /\ Requests \subseteq Nat
  BY HeapAssumption

\* A nonempty set of numbers has a least one.
LEMMA MinIs ==
    ASSUME NEW T \in SUBSET Nat, T # {}
    PROVE  Min(T) \in T /\ \A t \in T : Min(T) <= t
  <1> DEFINE R == {ss \in Nat \X Nat : ss[1] < ss[2]}
  <1>1. IsWellFoundedOn(R, Nat)
    BY NatLessThanWellFounded DEF OpToRel
  <1>2. PICK x \in T : \A y \in T : ~(<<y, x>> \in R)
    <2> HIDE DEF R
    <2> QED BY <1>1, WFMin
  <1>3. \A y \in T : x <= y
    <2> TAKE y \in T
    <2>1. x \in Nat /\ y \in Nat
      OBVIOUS
    <2>2. y < x => <<y, x>> \in R
      BY <2>1
    <2> HIDE DEF R
    <2> QED BY <1>2, <2>1, <2>2
  <1>4. \E z \in T : \A y \in T : z <= y
    BY <1>3
  <1> QED
    BY <1>4 DEF Min

LEMMA MaxPair ==
    ASSUME NEW a \in Int, NEW b \in Int
    PROVE  Max({a, b}) \in {a, b} /\ Max({a, b}) >= a /\ Max({a, b}) >= b
  <1>1. \E z \in {a, b} : \A y \in {a, b} : z >= y
    <2>1. CASE a >= b
      BY <2>1
    <2>2. CASE ~(a >= b)
      BY <2>2
    <2> QED
      BY <2>1, <2>2
  <1> QED
    BY <1>1 DEF Max

\* What holds of a number and with every one of the next, up to n.
LEMMA UpTo ==
    ASSUME NEW a \in Nat, NEW n \in Nat, NEW G, a \in G,
           \A i \in a..(n - 1) : i \in G => i + 1 \in G
    PROVE  a..n \subseteq G
  <1> DEFINE Bad == {i \in a..n : i \notin G}
             m == Min(Bad)
  <1>1. SUFFICES ASSUME Bad # {} PROVE FALSE
    OBVIOUS
  <1>2. m \in Bad /\ \A t \in Bad : m <= t
    <2>1. Bad \in SUBSET Nat
      OBVIOUS
    <2> HIDE DEF Bad
    <2> QED BY <1>1, <2>1, MinIs
  <1> HIDE DEF m
  <1>3. m \in a..n /\ m # a /\ m - 1 \in a..(n - 1)
    BY <1>2
  <1>4. m - 1 \in G
    BY <1>2, <1>3
  <1>5. (m - 1) + 1 = m
    BY <1>3
  <1> QED
    BY <1>2, <1>3, <1>4, <1>5

LEMMA DivMod ==
    ASSUME NEW w \in Nat \ {0}, NEW x \in Int
    PROVE  x \div w \in Int /\ x % w \in 0..(w - 1) /\ x = w * (x \div w) + (x % w)
  OBVIOUS

LEMMA MulLow ==
    ASSUME NEW w \in Nat \ {0}, NEW e \in Int, e >= 1
    PROVE  w * e >= w
  OBVIOUS

LEMMA MulMonotone ==
    ASSUME NEW w \in Nat, NEW a \in Int, NEW b \in Int, a <= b
    PROVE  a * w \in Int /\ b * w \in Int /\ a * w <= b * w
  <1>1. (b - a) * w >= 0 /\ (b - a) * w = b * w - a * w
    OBVIOUS
  <1> QED
    BY <1>1

\* A remainder is the only one.
LEMMA RemainderUnique ==
    ASSUME NEW w \in Nat \ {0}, NEW q \in Int, NEW r \in 0..(w - 1)
    PROVE  (w * q + r) % w = r
  <1> DEFINE x == w * q + r
             d == x \div w
             m == x % w
  <1>1. d \in Int /\ m \in 0..(w - 1) /\ x = w * d + m
    BY DivMod
  <1>2. w * (d - q) = r - m /\ w * (q - d) = m - r
    <2> HIDE DEF d, m
    <2>1. w * (d - q) = w * d - w * q /\ w * (q - d) = w * q - w * d
      BY <1>1
    <2>2. w * d + m = w * q + r /\ w * d \in Int /\ w * q \in Int
      BY <1>1
    <2> HIDE DEF x
    <2> QED
      BY <1>1, <2>1, <2>2
  <1> HIDE DEF d, m
  <1>3. ~(d - q >= 1) /\ ~(q - d >= 1)
    BY <1>1, <1>2, MulLow
  <1>4. d = q
    BY <1>1, <1>3
  <1> QED
    BY <1>1, <1>4 DEF m

\* ALIGN: the shift has room in the padding, and what it leads to is aligned.
LEMMA ShiftIs ==
    ASSUME NEW at \in Nat
    PROVE  /\ ShiftAt(at) \in Nat
           /\ Alignment <= ShiftAt(at) /\ ShiftAt(at) < 2 * Alignment
           /\ (at + MinorHead + ShiftAt(at)) % Alignment = 0
  <1> DEFINE A == Alignment
             p == at + MinorHead + A
             q == p \div A
             r == p % A
             s == (A - r) % A
  <1>1. A \in Nat \ {0} /\ p \in Nat
    BY ConstFacts
  <1>2. q \in Int /\ r \in 0..(A - 1) /\ p = A * q + r
    <2> HIDE DEF A, p
    <2> QED BY <1>1, DivMod DEF q, r
  <1>3. s \in 0..(A - 1) /\ (p + s) % A = 0
    <2> HIDE DEF A, p, q, r
    <2>1. CASE r = 0
      <3>1. A * 1 + 0 = A - r /\ 0 \in 0..(A - 1)
        BY <1>1, <2>1
      <3>2. s = 0
        BY <1>1, <3>1, RemainderUnique
      <3>3. (A * q + 0) % A = 0
        BY <1>1, <1>2, <3>1, RemainderUnique
      <3>4. p + s = A * q + 0
        BY <1>2, <2>1, <3>2
      <3> QED
        BY <3>1, <3>2, <3>3, <3>4
    <2>2. CASE r # 0
      <3>1. A - r \in 0..(A - 1) /\ A * 0 + (A - r) = A - r /\ 0 \in Int
        BY <1>1, <1>2, <2>2
      <3>2. s = A - r
        BY <1>1, <3>1, RemainderUnique
      <3>3. A * (q + 1) = A * q + A /\ A * q \in Int /\ q + 1 \in Int /\ 0 \in 0..(A - 1)
        BY <1>1, <1>2
      <3>4. p + s = A * (q + 1) + 0
        BY <1>1, <1>2, <3>2, <3>3
      <3>5. (A * (q + 1) + 0) % A = 0
        BY <1>1, <3>3, RemainderUnique
      <3> QED
        BY <3>1, <3>2, <3>4, <3>5
    <2> QED
      BY <2>1, <2>2
  <1>4. ShiftAt(at) = A + s
    BY DEF ShiftAt
  <1>5. at + MinorHead + (A + s) = p + s
    <2> HIDE DEF s
    <2> QED BY <1>3, ConstFacts
  <1> HIDE DEF s, p
  <1> QED
    BY <1>1, <1>3, <1>4, <1>5 DEF A

-----------------------------------------------------------------------------
(* Totals.                                                                 *)

IsSum(f, n, s) == f = [i \in 0..n |-> IF i = 0 THEN 0 ELSE f[i - 1] + s[i]]

LEMMA SumDefined ==
    ASSUME NEW n \in Nat, NEW s
    PROVE  \E f : IsSum(f, n, s)
  <1> DEFINE G == {m \in Nat : \E f : IsSum(f, m, s)}
  <1>1. 0 \in G
    <2>1. \A i \in 0..0 : i = 0
      OBVIOUS
    <2>2. IsSum([i \in 0..0 |-> 0], 0, s)
      BY <2>1 DEF IsSum
    <2> QED
      BY <2>2
  <1>2. ASSUME NEW k \in 0..(n - 1), k \in G
        PROVE  k + 1 \in G
    <2>1. PICK g : IsSum(g, k, s)
      BY <1>2
    <2> DEFINE m == k + 1
               h == [i \in 0..m |-> IF i = m THEN g[k] + s[m] ELSE g[i]]
    <2>2. \A i \in 0..k : g[i] = IF i = 0 THEN 0 ELSE g[i - 1] + s[i]
      BY <2>1 DEF IsSum
    <2>3. \A i \in 0..m : h[i] = IF i = 0 THEN 0 ELSE h[i - 1] + s[i]
      <3> TAKE i \in 0..m
      <3>1. h[i] = IF i = m THEN g[k] + s[m] ELSE g[i]
        OBVIOUS
      <3>2. i # 0 => i - 1 \in 0..m /\ i - 1 # m
        OBVIOUS
      <3>3. i # 0 => h[i - 1] = g[i - 1]
        BY <3>2
      <3> HIDE DEF h
      <3>4. i # m => i \in 0..k
        OBVIOUS
      <3>5. i = m => i # 0 /\ i - 1 = k
        OBVIOUS
      <3> QED
        BY <2>2, <3>1, <3>3, <3>4, <3>5
    <2>4. IsSum(h, m, s)
      BY <2>3 DEF IsSum
    <2> QED
      BY <2>4
  <1>3. n \in G
    <2> HIDE DEF G
    <2>1. 0..n \subseteq G
      BY <1>1, <1>2, UpTo
    <2> QED
      BY <2>1
  <1> QED
    BY <1>3

\* A total is the last of the sums of what comes first.
LEMMA TotalIs ==
    ASSUME NEW s \in Seq(Int)
    PROVE  \E f \in [0..Len(s) -> Int] :
             /\ f[0] = 0 /\ Total(s) = f[Len(s)]
             /\ \A i \in 1..Len(s) : f[i] = f[i - 1] + s[i]
  <1> DEFINE n == Len(s)
             sum == CHOOSE f : f = [i \in 0..n |-> IF i = 0 THEN 0 ELSE f[i - 1] + s[i]]
  <1>0. n \in Nat /\ \A i \in 1..n : s[i] \in Int
    OBVIOUS
  <1>1. Total(s) = sum[n]
    BY Zenon DEF Total
  <1>2. sum = [i \in 0..n |-> IF i = 0 THEN 0 ELSE sum[i - 1] + s[i]]
    <2>1. \E f : IsSum(f, n, s)
      BY <1>0, SumDefined
    <2> QED
      BY <2>1, Zenon DEF IsSum
  <1> HIDE DEF sum
  <1>3. sum[0] = 0 /\ \A i \in 1..n : sum[i] = sum[i - 1] + s[i]
    <2>1. 0 \in 0..n /\ \A i \in 1..n : i \in 0..n /\ i # 0
      BY <1>0
    <2> QED
      BY <1>2, <2>1
  <1>4. \A i \in 0..n : sum[i] \in Int
    <2> DEFINE G == {i \in 0..n : sum[i] \in Int}
    <2>1. 0 \in G
      BY <1>0, <1>3
    <2>2. ASSUME NEW i \in 0..(n - 1), i \in G
          PROVE  i + 1 \in G
      <3>1. i + 1 \in 1..n /\ (i + 1) - 1 = i
        BY <1>0
      <3> QED
        BY <1>0, <1>3, <2>2, <3>1
    <2> HIDE DEF G
    <2>3. 0..n \subseteq G
      BY <1>0, <2>1, <2>2, UpTo
    <2> QED
      BY <2>3 DEF G
  <1>5. sum \in [0..n -> Int]
    BY <1>2, <1>4
  <1> QED
    BY <1>1, <1>3, <1>5

LEMMA TotalEmpty == Total(<<>>) = 0
  <1>1. <<>> \in Seq(Int) /\ Len(<<>>) = 0
    OBVIOUS
  <1> QED
    BY <1>1, TotalIs

\* One element more, in any place.
LEMMA TotalInsert ==
    ASSUME NEW s \in Seq(Int), NEW t \in Seq(Int), NEW k \in 0..Len(s), NEW x \in Int,
           Len(t) = Len(s) + 1,
           \A i \in 1..Len(t) : t[i] = IF i <= k THEN s[i] ELSE IF i = k + 1 THEN x ELSE s[i - 1]
    PROVE  Total(t) = Total(s) + x
  <1> DEFINE n == Len(s)
  <1>0. n \in Nat /\ k \in Nat /\ Len(t) = n + 1
    OBVIOUS
  <1>1. PICK f \in [0..n -> Int] :
          /\ f[0] = 0 /\ Total(s) = f[n] /\ \A i \in 1..n : f[i] = f[i - 1] + s[i]
    BY TotalIs
  <1>2. PICK g \in [0..(n + 1) -> Int] :
          /\ g[0] = 0 /\ Total(t) = g[n + 1]
          /\ \A i \in 1..(n + 1) : g[i] = g[i - 1] + t[i]
    <2>1. \E g \in [0..Len(t) -> Int] :
            /\ g[0] = 0 /\ Total(t) = g[Len(t)]
            /\ \A i \in 1..Len(t) : g[i] = g[i - 1] + t[i]
      BY TotalIs
    <2> HIDE DEF n
    <2> QED
      BY <1>0, <2>1, Zenon
  <1>3. \A i \in 0..k : g[i] = f[i]
    <2> DEFINE G == {i \in 0..k : g[i] = f[i]}
    <2>1. 0 \in G
      BY <1>0, <1>1, <1>2
    <2>2. ASSUME NEW i \in 0..(k - 1), i \in G
          PROVE  i + 1 \in G
      <3>1. i + 1 \in 1..n /\ i + 1 \in 1..(n + 1) /\ (i + 1) - 1 = i /\ i + 1 \in 0..k
        BY <1>0
      <3>2. t[i + 1] = s[i + 1]
        BY <1>0, <3>1
      <3> QED
        BY <1>1, <1>2, <2>2, <3>1, <3>2
    <2> HIDE DEF G
    <2>3. 0..k \subseteq G
      BY <1>0, <2>1, <2>2, UpTo
    <2> QED
      BY <2>3 DEF G
  <1>4. \A i \in (k + 1)..(n + 1) : g[i] = f[i - 1] + x
    <2> DEFINE G == {i \in (k + 1)..(n + 1) : g[i] = f[i - 1] + x}
    <2>1. k + 1 \in G
      <3>1. k + 1 \in 1..(n + 1) /\ (k + 1) - 1 = k /\ k \in 0..k /\ k + 1 \in (k + 1)..(n + 1)
        BY <1>0
      <3>2. t[k + 1] = x /\ g[k] = f[k]
        BY <1>0, <1>3, <3>1
      <3> QED
        BY <1>2, <3>1, <3>2
    <2>2. ASSUME NEW i \in (k + 1)..((n + 1) - 1), i \in G
          PROVE  i + 1 \in G
      <3>1. i + 1 \in 1..(n + 1) /\ (i + 1) - 1 = i /\ i \in 1..n /\ i + 1 \in (k + 1)..(n + 1)
        BY <1>0
      <3>2. ~(i + 1 <= k) /\ i + 1 # k + 1
        BY <1>0
      <3>3. t[i + 1] = s[i]
        BY <1>0, <3>1, <3>2
      <3>4. g[i + 1] = g[i] + s[i] /\ g[i] = f[i - 1] + x /\ f[i] = f[i - 1] + s[i]
        BY <1>1, <1>2, <2>2, <3>1, <3>3
      <3>5. s[i] \in Int /\ f[i - 1] \in Int
        BY <1>1, <3>1, SMTT(30)
      <3> QED
        BY <3>1, <3>4, <3>5, SMTT(30)
    <2> HIDE DEF G
    <2>3. (k + 1)..(n + 1) \subseteq G
      <3>1. k + 1 \in Nat /\ n + 1 \in Nat
        BY <1>0
      <3> DEFINE a == k + 1
                 b == n + 1
      <3>2. a \in Nat /\ b \in Nat /\ a \in G /\ \A i \in a..(b - 1) : i \in G => i + 1 \in G
        BY <2>1, <2>2, <3>1
      <3> HIDE DEF a, b
      <3>3. a..b \subseteq G
        BY <3>2, UpTo
      <3> QED
        BY <3>3 DEF a, b
    <2> QED
      BY <2>3 DEF G
  <1>5. n + 1 \in (k + 1)..(n + 1) /\ (n + 1) - 1 = n
    BY <1>0
  <1> QED
    BY <1>1, <1>2, <1>4, <1>5

\* An element replaced.
LEMMA TotalReplace ==
    ASSUME NEW s \in Seq(Int), NEW t \in Seq(Int), NEW k \in 1..Len(s), Len(t) = Len(s),
           \A i \in 1..Len(s) : i # k => t[i] = s[i]
    PROVE  Total(t) = Total(s) - s[k] + t[k]
  <1> DEFINE n == Len(s)
  <1>0. /\ n \in Nat /\ k \in 1..n /\ Len(t) = n /\ s[k] \in Int /\ t[k] \in Int
        /\ \A i \in 1..n : s[i] \in Int /\ t[i] \in Int
    OBVIOUS
  <1>1. PICK f \in [0..n -> Int] :
          /\ f[0] = 0 /\ Total(s) = f[n] /\ \A i \in 1..n : f[i] = f[i - 1] + s[i]
    BY TotalIs
  <1>2. PICK g \in [0..n -> Int] :
          /\ g[0] = 0 /\ Total(t) = g[n] /\ \A i \in 1..n : g[i] = g[i - 1] + t[i]
    <2>1. \E g \in [0..Len(t) -> Int] :
            /\ g[0] = 0 /\ Total(t) = g[Len(t)]
            /\ \A i \in 1..Len(t) : g[i] = g[i - 1] + t[i]
      BY TotalIs
    <2> HIDE DEF n
    <2> QED
      BY <1>0, <2>1, Zenon
  <1> DEFINE G == {i \in 0..n : g[i] = IF i < k THEN f[i] ELSE f[i] - s[k] + t[k]}
  <1>3. 0 \in G
    BY <1>0, <1>1, <1>2
  <1>4. ASSUME NEW i \in 0..(n - 1), i \in G
        PROVE  i + 1 \in G
    <2>1. i + 1 \in 1..n /\ (i + 1) - 1 = i /\ i + 1 \in 0..n /\ i \in 0..n
      BY <1>0
    <2>2. g[i + 1] = g[i] + t[i + 1] /\ f[i + 1] = f[i] + s[i + 1]
      BY <1>1, <1>2, <2>1
    <2>3. f[i] \in Int /\ s[i + 1] \in Int /\ t[i + 1] \in Int /\ k \in Int
      <3> HIDE DEF n, G
      <3>1. f[i] \in Int
        BY <2>1
      <3>2. s[i + 1] \in Int /\ t[i + 1] \in Int
        BY <1>0, <2>1
      <3>3. k \in Int
        BY <1>0
      <3> QED
        BY <3>1, <3>2, <3>3
    <2>4. g[i] = IF i < k THEN f[i] ELSE f[i] - s[k] + t[k]
      BY <1>4
    <2>5. CASE i + 1 = k
      BY <1>0, <2>1, <2>2, <2>3, <2>4, <2>5
    <2>6. CASE i + 1 # k
      <3>1. t[i + 1] = s[i + 1] /\ (i + 1 < k <=> i < k)
        BY <1>0, <2>1, <2>6
      <3> QED
        BY <1>0, <2>1, <2>2, <2>3, <2>4, <3>1, SMTT(30)
    <2> QED
      BY <2>5, <2>6
  <1>5. n \in G
    <2> HIDE DEF G
    <2>1. 0..n \subseteq G
      BY <1>0, <1>3, <1>4, UpTo
    <2> QED
      BY <1>0, <2>1
  <1> QED
    BY <1>0, <1>1, <1>2, <1>5

-----------------------------------------------------------------------------
(* Sequences with one element more or less.                                *)

\* s with x behind its first k elements.
Insertion(s, k, x) == SubSeq(s, 1, k) \o <<x>> \o SubSeq(s, k + 1, Len(s))

HasInserted(t, s, k, x) ==
    /\ Len(t) = Len(s) + 1
    /\ \A i \in 1..(Len(s) + 1) :
         t[i] = IF i <= k THEN s[i] ELSE IF i = k + 1 THEN x ELSE s[i - 1]

LEMMA InsertSeq ==
    ASSUME NEW S, NEW s \in Seq(S), NEW k \in 0..Len(s), NEW x \in S
    PROVE  /\ Insertion(s, k, x) \in Seq(S)
           /\ HasInserted(Insertion(s, k, x), s, k, x)
  <1> DEFINE n == Len(s)
             t == Insertion(s, k, x)
             a == SubSeq(s, 1, k)
             b == SubSeq(s, k + 1, n)
             c == a \o <<x>>
  <1>0. n \in Nat /\ k \in Nat /\ k <= n /\ \A i \in 1..n : s[i] \in S
    OBVIOUS
  <1>1. a \in Seq(S) /\ Len(a) = k /\ \A i \in 1..k : a[i] = s[i]
    <2>1. \A i \in 1..k : s[i] \in S
      BY <1>0
    <2>2. /\ a \in Seq(S) /\ Len(a) = IF 1 <= k THEN k - 1 + 1 ELSE 0
          /\ \A i \in 1..(k - 1 + 1) : a[i] = s[1 + i - 1]
      <3> HIDE DEF n
      <3> QED
        BY <1>0, <2>1, SubSeqProperties
    <2> HIDE DEF a, n
    <2> QED
      BY <1>0, <2>2
  <1>2. b \in Seq(S) /\ Len(b) = n - k /\ \A i \in 1..(n - k) : b[i] = s[k + i]
    <2>1. \A i \in (k + 1)..n : s[i] \in S
      BY <1>0
    <2>2. k + 1 \in Int /\ n \in Int
      BY <1>0
    <2>3. /\ b \in Seq(S) /\ Len(b) = IF k + 1 <= n THEN n - (k + 1) + 1 ELSE 0
          /\ \A i \in 1..(n - (k + 1) + 1) : b[i] = s[(k + 1) + i - 1]
      <3> HIDE DEF n
      <3> QED
        BY <2>1, <2>2, SubSeqProperties
    <2> HIDE DEF b, n
    <2> QED
      BY <1>0, <2>3
  <1>3. <<x>> \in Seq(S) /\ Len(<<x>>) = 1 /\ <<x>>[1] = x
    OBVIOUS
  <1>4. /\ c \in Seq(S) /\ Len(c) = k + 1
        /\ \A i \in 1..(k + 1) : c[i] = IF i <= k THEN s[i] ELSE x
    <2>1. /\ c \in Seq(S) /\ Len(c) = Len(a) + Len(<<x>>)
          /\ \A i \in 1..(Len(a) + Len(<<x>>)) :
               c[i] = IF i <= Len(a) THEN a[i] ELSE <<x>>[i - Len(a)]
      <3> HIDE DEF a
      <3> QED
        BY <1>1, <1>3, ConcatProperties
    <2> HIDE DEF a, c
    <2> QED
      BY <1>0, <1>1, <1>3, <2>1
  <1>5. /\ t \in Seq(S) /\ Len(t) = Len(c) + Len(b)
        /\ \A i \in 1..(Len(c) + Len(b)) : t[i] = IF i <= Len(c) THEN c[i] ELSE b[i - Len(c)]
    <2>1. t = c \o b
      BY DEF Insertion
    <2>2. c \in Seq(S) /\ b \in Seq(S)
      BY <1>2, <1>4
    <2> DEFINE u == c \o b
    <2>3. /\ u \in Seq(S) /\ Len(u) = Len(c) + Len(b)
          /\ \A i \in 1..(Len(c) + Len(b)) : u[i] = IF i <= Len(c) THEN c[i] ELSE b[i - Len(c)]
      <3> HIDE DEF c, b
      <3> QED
        BY <2>2, ConcatProperties
    <2>4. t = u
      BY <2>1
    <2> HIDE DEF c, b, u, t
    <2> QED
      BY <2>3, <2>4
  <1> HIDE DEF c, b, a, t
  <1>6. ASSUME NEW i \in 1..(n + 1)
        PROVE  t[i] = IF i <= k THEN s[i] ELSE IF i = k + 1 THEN x ELSE s[i - 1]
    <2> HIDE DEF n
    <2>0. t[i] = IF i <= k + 1 THEN c[i] ELSE b[i - (k + 1)]
      <3>1. Len(c) + Len(b) = n + 1 /\ Len(c) = k + 1
        BY <1>0, <1>2, <1>4
      <3> QED
        BY <1>5, <3>1
    <2>1. CASE i <= k + 1
      <3>1. i \in 1..(k + 1) /\ (~(i <= k) => i = k + 1)
        BY <1>0, <2>1
      <3> QED
        BY <1>4, <2>0, <2>1, <3>1
    <2>2. CASE ~(i <= k + 1)
      <3>1. i - (k + 1) \in 1..(n - k) /\ k + (i - (k + 1)) = i - 1 /\ ~(i <= k) /\ i # k + 1
        BY <1>0, <2>2
      <3> QED
        BY <1>2, <2>0, <2>2, <3>1
    <2> QED
      BY <2>1, <2>2
  <1>7. Len(t) = n + 1
    <2> HIDE DEF n
    <2> QED
      BY <1>0, <1>2, <1>4, <1>5
  <1> QED
    BY <1>5, <1>6, <1>7 DEF HasInserted, t

\* s without its element k.
Removal(s, k) == SubSeq(s, 1, k - 1) \o SubSeq(s, k + 1, Len(s))

LEMMA RemoveSeq ==
    ASSUME NEW S, NEW s \in Seq(S), NEW k \in 1..Len(s)
    PROVE  /\ Removal(s, k) \in Seq(S) /\ Len(Removal(s, k)) = Len(s) - 1
           /\ \A i \in 1..(Len(s) - 1) :
                Removal(s, k)[i] = IF i < k THEN s[i] ELSE s[i + 1]
  <1> DEFINE n == Len(s)
             t == Removal(s, k)
             a == SubSeq(s, 1, k - 1)
             b == SubSeq(s, k + 1, n)
  <1>0. n \in Nat /\ k \in Nat /\ 1 <= k /\ k <= n /\ \A i \in 1..n : s[i] \in S
    OBVIOUS
  <1>1. a \in Seq(S) /\ Len(a) = k - 1 /\ \A i \in 1..(k - 1) : a[i] = s[i]
    <2>1. \A i \in 1..(k - 1) : s[i] \in S
      BY <1>0
    <2>2. /\ a \in Seq(S) /\ Len(a) = IF 1 <= k - 1 THEN (k - 1) - 1 + 1 ELSE 0
          /\ \A i \in 1..((k - 1) - 1 + 1) : a[i] = s[1 + i - 1]
      <3>1. k - 1 \in Int /\ 1 \in Int
        BY <1>0
      <3> QED
        BY <2>1, <3>1, SubSeqProperties
    <2> HIDE DEF a, n
    <2> QED
      BY <1>0, <2>2
  <1>2. b \in Seq(S) /\ Len(b) = n - k /\ \A i \in 1..(n - k) : b[i] = s[k + i]
    <2>1. \A i \in (k + 1)..n : s[i] \in S
      BY <1>0
    <2>2. k + 1 \in Int /\ n \in Int
      BY <1>0
    <2>3. /\ b \in Seq(S) /\ Len(b) = IF k + 1 <= n THEN n - (k + 1) + 1 ELSE 0
          /\ \A i \in 1..(n - (k + 1) + 1) : b[i] = s[(k + 1) + i - 1]
      <3> HIDE DEF n
      <3> QED
        BY <2>1, <2>2, SubSeqProperties
    <2> HIDE DEF b, n
    <2> QED
      BY <1>0, <2>3
  <1>3. /\ t \in Seq(S) /\ Len(t) = Len(a) + Len(b)
        /\ \A i \in 1..(Len(a) + Len(b)) : t[i] = IF i <= Len(a) THEN a[i] ELSE b[i - Len(a)]
    <2>1. t = a \o b
      BY DEF Removal
    <2>2. a \in Seq(S) /\ b \in Seq(S)
      BY <1>1, <1>2
    <2> DEFINE u == a \o b
    <2>3. /\ u \in Seq(S) /\ Len(u) = Len(a) + Len(b)
          /\ \A i \in 1..(Len(a) + Len(b)) : u[i] = IF i <= Len(a) THEN a[i] ELSE b[i - Len(a)]
      <3> HIDE DEF a, b
      <3> QED
        BY <2>2, ConcatProperties
    <2>4. t = u
      BY <2>1
    <2> HIDE DEF a, b, u, t
    <2> QED
      BY <2>3, <2>4
  <1> HIDE DEF n, a, b, t
  <1>4. Len(t) = n - 1
    BY <1>0, <1>1, <1>2, <1>3
  <1>5. ASSUME NEW i \in 1..(n - 1)
        PROVE  t[i] = IF i < k THEN s[i] ELSE s[i + 1]
    <2>1. t[i] = IF i <= k - 1 THEN a[i] ELSE b[i - (k - 1)]
      <3>1. Len(a) + Len(b) = n - 1 /\ Len(a) = k - 1
        BY <1>0, <1>1, <1>2
      <3> QED
        BY <1>3, <3>1
    <2>2. CASE i < k
      <3>1. i \in 1..(k - 1) /\ i <= k - 1
        BY <1>0, <2>2
      <3> QED
        BY <1>1, <2>1, <2>2, <3>1
    <2>3. CASE ~(i < k)
      <3>1. i - (k - 1) \in 1..(n - k) /\ k + (i - (k - 1)) = i + 1 /\ ~(i <= k - 1)
        BY <1>0, <2>3
      <3> QED
        BY <1>1, <1>2, <2>1, <2>3, <3>1
    <2> QED
      BY <2>2, <2>3
  <1> QED
    BY <1>3, <1>4, <1>5 DEF n, t

-----------------------------------------------------------------------------
(* Majors.                                                                 *)

LEMMA MinorFacts ==
    ASSUME NEW x \in MinorSet
    PROVE  /\ x.at \in Nat /\ x.size \in Nat /\ x.req \in Nat /\ x.shift \in Nat
           /\ Behind(x) \in Nat /\ Behind(x) = x.at + MinorHead + x.size
           /\ Pointer(x) \in Nat /\ Pointer(x) = x.at + MinorHead + x.shift
  BY ConstFacts DEF MinorSet, Behind, Pointer

LEMMA MajorFacts ==
    ASSUME NEW m \in MajorSet
    PROVE  /\ m.page \in Nat /\ m.pages \in Nat /\ m.usage \in Nat
           /\ m.minors \in Seq(MinorSet) /\ Len(m.minors) \in Nat
           /\ \A k \in 1..Len(m.minors) : m.minors[k] \in MinorSet
           /\ Start(m) \in Nat /\ Bytes(m) \in Nat /\ End(m) \in Nat
           /\ End(m) = Start(m) + Bytes(m) /\ FreeIn(m) = Bytes(m) - m.usage
  <1>1. m.page \in Nat /\ m.pages \in Nat /\ m.usage \in Nat /\ m.minors \in Seq(MinorSet)
    BY DEF MajorSet
  <1>2. m.page * PageSize \in Nat /\ m.pages * PageSize \in Nat
    BY <1>1, ConstFacts
  <1>3. Start(m) \in Nat /\ Bytes(m) \in Nat
    BY <1>2 DEF Start, Bytes
  <1>4. Len(m.minors) \in Nat /\ \A k \in 1..Len(m.minors) : m.minors[k] \in MinorSet
    BY <1>1
  <1> QED
    BY <1>1, <1>3, <1>4 DEF End, FreeIn

LEMMA SumsFacts ==
    ASSUME NEW m \in MajorSet
    PROVE  /\ Spans(m) \in Seq(Int) /\ Len(Spans(m)) = Len(m.minors)
           /\ Sizes(m) \in Seq(Int) /\ Len(Sizes(m)) = Len(m.minors)
           /\ \A k \in 1..Len(m.minors) : /\ Spans(m)[k] = m.minors[k].size + MinorHead
                                          /\ Sizes(m)[k] = m.minors[k].size
  <1>1. /\ Len(m.minors) \in Nat
        /\ \A k \in 1..Len(m.minors) : m.minors[k].size \in Int /\ m.minors[k].size + MinorHead \in Int
    BY MajorFacts, MinorFacts, ConstFacts, SMTT(30)
  <1> QED
    BY <1>1 DEF Spans, Sizes

\* What lies in a major is in front of one of its gaps or behind it.
LEMMA GapIs ==
    ASSUME NEW m, Sound(m), NEW k \in 0..Len(m.minors)
    PROVE  /\ GapStart(m, k) \in Nat /\ GapEnd(m, k) \in Nat
           /\ Start(m) + MajorHead <= GapStart(m, k)
           /\ k = 0 => GapStart(m, k) = Start(m) + MajorHead
           /\ GapEnd(m, k) <= End(m)
           /\ \A j \in 1..Len(m.minors) : j <= k => Behind(m.minors[j]) <= GapStart(m, k)
           /\ \A j \in 1..Len(m.minors) : j > k => GapEnd(m, k) <= m.minors[j].at
  <1> DEFINE n == Len(m.minors)
  <1>1. /\ m \in MajorSet /\ n \in Nat /\ Start(m) \in Nat /\ Bytes(m) \in Nat
        /\ End(m) = Start(m) + Bytes(m) /\ End(m) \in Nat /\ MajorHead \in Nat /\ MinorHead \in Nat
    BY MajorFacts, ConstFacts DEF Sound
  <1>2. \A j \in 1..n : /\ m.minors[j].at \in Nat /\ Behind(m.minors[j]) \in Nat
                        /\ m.minors[j].at <= Behind(m.minors[j])
    <2> TAKE j \in 1..n
    <2>1. m.minors[j] \in MinorSet
      BY <1>1, MajorFacts
    <2>2. /\ m.minors[j].at \in Nat /\ m.minors[j].size \in Nat /\ Behind(m.minors[j]) \in Nat
          /\ Behind(m.minors[j]) = m.minors[j].at + MinorHead + m.minors[j].size
      BY <2>1, MinorFacts
    <2> QED
      BY <1>1, <2>2, SMTT(30)
  <1>3. /\ \A j \in 1..n : /\ Start(m) + MajorHead <= m.minors[j].at
                           /\ Behind(m.minors[j]) <= End(m)
        /\ \A i, j \in 1..n : i < j => Behind(m.minors[i]) <= m.minors[j].at
    BY DEF Sound, InOrder
  <1> HIDE DEF n
  <1>4. k \in 0..n
    BY DEF n
  <1>5. /\ k = 0 => GapStart(m, k) = Start(m) + MajorHead
        /\ k # 0 => GapStart(m, k) = Behind(m.minors[k])
    BY DEF GapStart, Behind
  <1>6. /\ k = n => GapEnd(m, k) = End(m)
        /\ k # n => GapEnd(m, k) = m.minors[k + 1].at
    BY <1>1 DEF GapEnd, n
  <1>7. k # 0 => k \in 1..n
    BY <1>1, <1>4
  <1>8. k # n => k + 1 \in 1..n
    BY <1>1, <1>4
  <1>9. GapStart(m, k) \in Nat /\ Start(m) + MajorHead <= GapStart(m, k)
    <2>1. CASE k = 0
      BY <1>1, <1>5, <2>1
    <2>2. CASE k # 0
      <3>1. /\ m.minors[k].at \in Nat /\ Behind(m.minors[k]) \in Nat
            /\ m.minors[k].at <= Behind(m.minors[k]) /\ Start(m) + MajorHead <= m.minors[k].at
            /\ GapStart(m, k) = Behind(m.minors[k])
        BY <1>2, <1>3, <1>5, <1>7, <2>2
      <3> QED
        BY <1>1, <3>1
    <2> QED
      BY <2>1, <2>2
  <1>10. GapEnd(m, k) \in Nat /\ GapEnd(m, k) <= End(m)
    <2>1. CASE k = n
      BY <1>1, <1>6, <2>1
    <2>2. CASE k # n
      <3>1. /\ m.minors[k + 1].at \in Nat /\ Behind(m.minors[k + 1]) \in Nat
            /\ m.minors[k + 1].at <= Behind(m.minors[k + 1]) /\ Behind(m.minors[k + 1]) <= End(m)
            /\ GapEnd(m, k) = m.minors[k + 1].at
        BY <1>2, <1>3, <1>6, <1>8, <2>2
      <3> QED
        BY <1>1, <3>1
    <2> QED
      BY <2>1, <2>2
  <1>11. ASSUME NEW j \in 1..n, j <= k
         PROVE  Behind(m.minors[j]) <= GapStart(m, k)
    <2>1. k # 0 /\ k \in 1..n
      BY <1>1, <1>4, <1>11
    <2>2. CASE j = k
      <3>1. GapStart(m, k) = Behind(m.minors[j]) /\ Behind(m.minors[j]) \in Nat
        BY <1>2, <1>5, <2>1, <2>2
      <3> QED
        BY <3>1
    <2>3. CASE j # k
      <3>1. j < k
        BY <1>1, <1>4, <1>11, <2>3
      <3>2. /\ Behind(m.minors[j]) <= m.minors[k].at /\ m.minors[k].at <= Behind(m.minors[k])
            /\ Behind(m.minors[j]) \in Nat /\ m.minors[k].at \in Nat
            /\ Behind(m.minors[k]) \in Nat /\ GapStart(m, k) = Behind(m.minors[k])
        BY <1>2, <1>3, <1>5, <2>1, <3>1
      <3> QED
        BY <3>2
    <2> QED
      BY <2>2, <2>3
  <1>12. ASSUME NEW j \in 1..n, j > k
         PROVE  GapEnd(m, k) <= m.minors[j].at
    <2>1. k # n /\ k + 1 \in 1..n
      BY <1>1, <1>4, <1>12
    <2>2. CASE j = k + 1
      <3>1. GapEnd(m, k) = m.minors[j].at /\ m.minors[j].at \in Nat
        BY <1>2, <1>6, <2>1, <2>2
      <3> QED
        BY <3>1
    <2>3. CASE j # k + 1
      <3>1. Behind(m.minors[k + 1]) <= m.minors[j].at
        <4>1. k + 1 < j
          BY <1>1, <1>4, <1>12, <2>3
        <4> QED
          BY <1>3, <2>1, <4>1
      <3>2. /\ m.minors[k + 1].at <= Behind(m.minors[k + 1]) /\ m.minors[j].at \in Nat
            /\ Behind(m.minors[k + 1]) \in Nat /\ m.minors[k + 1].at \in Nat
            /\ GapEnd(m, k) = m.minors[k + 1].at
        BY <1>2, <1>6, <2>1
      <3> QED
        BY <3>1, <3>2
    <2> QED
      BY <2>2, <2>3
  <1> QED
    BY <1>5, <1>9, <1>10, <1>11, <1>12 DEF n

\* The blocks in front of a gap, and those behind it, fill no more than the bytes
\* there: what is free in all is at least what is free in one piece.
LEMMA GapFits ==
    ASSUME NEW m, Sound(m), NEW k \in 0..Len(m.minors)
    PROVE  GapEnd(m, k) - GapStart(m, k) <= FreeIn(m)
  <1> DEFINE n == Len(m.minors)
             s == Spans(m)
             base == Start(m) + MajorHead
  <1>1. /\ m \in MajorSet /\ n \in Nat /\ Start(m) \in Nat /\ Bytes(m) \in Nat
        /\ End(m) = Start(m) + Bytes(m) /\ MajorHead \in Nat /\ MinorHead \in Nat
        /\ FreeIn(m) = Bytes(m) - m.usage /\ m.usage = MajorHead + Total(s)
    BY MajorFacts, ConstFacts DEF Sound, InOrder
  <1>2. \A j \in 1..n : /\ m.minors[j].at \in Nat /\ s[j] \in Nat
                        /\ Behind(m.minors[j]) = m.minors[j].at + s[j]
                        /\ Behind(m.minors[j]) \in Nat
    <2> TAKE j \in 1..n
    <2>1. m.minors[j] \in MinorSet
      BY <1>1, MajorFacts
    <2>2. /\ m.minors[j].at \in Nat /\ m.minors[j].size \in Nat /\ Behind(m.minors[j]) \in Nat
          /\ Behind(m.minors[j]) = m.minors[j].at + MinorHead + m.minors[j].size
      BY <2>1, MinorFacts
    <2>3. s[j] = m.minors[j].size + MinorHead
      BY <1>1, SumsFacts
    <2>4. MinorHead \in Nat
      BY <1>1
    <2> DEFINE a == m.minors[j].at
               z == m.minors[j].size
    <2>5. a \in Nat /\ z \in Nat /\ Behind(m.minors[j]) = a + MinorHead + z /\ s[j] = z + MinorHead
      BY <2>2, <2>3
    <2> HIDE DEF s, n, a, z
    <2>6. s[j] \in Nat /\ Behind(m.minors[j]) = a + s[j]
      BY <2>4, <2>5
    <2> QED
      BY <2>2, <2>6 DEF a
  <1>3. /\ \A j \in 1..n : /\ Start(m) + MajorHead <= m.minors[j].at
                           /\ Behind(m.minors[j]) <= End(m)
        /\ \A i, j \in 1..n : i < j => Behind(m.minors[i]) <= m.minors[j].at
    BY DEF Sound, InOrder
  <1>4. s \in Seq(Int) /\ Len(s) = n
    BY <1>1, SumsFacts
  <1>5. PICK f \in [0..n -> Int] :
          /\ f[0] = 0 /\ Total(s) = f[n] /\ \A i \in 1..n : f[i] = f[i - 1] + s[i]
    <2> HIDE DEF s
    <2>1. \E f \in [0..Len(s) -> Int] :
            /\ f[0] = 0 /\ Total(s) = f[Len(s)] /\ \A i \in 1..Len(s) : f[i] = f[i - 1] + s[i]
      BY <1>4, TotalIs
    <2> HIDE DEF n
    <2> QED
      BY <1>4, <2>1, Zenon
  <1>6. k \in 0..n
    OBVIOUS
  <1>7. /\ GapStart(m, k) \in Nat /\ GapEnd(m, k) \in Nat /\ GapEnd(m, k) <= End(m)
        /\ k = 0 => GapStart(m, k) = Start(m) + MajorHead
        /\ \A j \in 1..n : j <= k => Behind(m.minors[j]) <= GapStart(m, k)
        /\ \A j \in 1..n : j > k => GapEnd(m, k) <= m.minors[j].at
    BY GapIs
  <1>0. base \in Nat /\ base = Start(m) + MajorHead
    BY <1>1
  <1> HIDE DEF n, s, base
  <1>8. \A i \in 0..n : i # 0 => base + f[i] <= Behind(m.minors[i])
    <2> DEFINE G == {i \in 0..n : i # 0 => base + f[i] <= Behind(m.minors[i])}
    <2>1. 0 \in G
      BY <1>1
    <2>2. ASSUME NEW i \in 0..(n - 1), i \in G
          PROVE  i + 1 \in G
      <3>1. i + 1 \in 1..n /\ (i + 1) - 1 = i /\ i \in 0..n
        BY <1>1
      <3>2. f[i + 1] = f[i] + s[i + 1] /\ f[i] \in Int /\ s[i + 1] \in Nat
        BY <1>2, <1>5, <3>1
      <3>3. Behind(m.minors[i + 1]) = m.minors[i + 1].at + s[i + 1] /\ m.minors[i + 1].at \in Nat
        BY <1>2, <3>1
      <3>4. base + f[i] <= m.minors[i + 1].at
        <4>1. CASE i = 0
          BY <1>0, <1>3, <1>5, <3>1, <3>3, <4>1
        <4>2. CASE i # 0
          <5>1. i \in 1..n /\ i < i + 1
            BY <1>1, <4>2
          <5>2. /\ Behind(m.minors[i]) <= m.minors[i + 1].at /\ Behind(m.minors[i]) \in Nat
                /\ base + f[i] <= Behind(m.minors[i])
            BY <1>2, <1>3, <2>2, <3>1, <5>1, <4>2
          <5> HIDE DEF G
          <5> QED
            BY <1>0, <3>2, <3>3, <5>2
        <4> QED
          BY <4>1, <4>2
      <3>5. base + f[i + 1] <= Behind(m.minors[i + 1])
        <4> HIDE DEF G
        <4> QED
          BY <1>0, <3>2, <3>3, <3>4
      <3> QED
        BY <3>1, <3>5
    <2> HIDE DEF G
    <2>3. 0..n \subseteq G
      BY <1>1, <2>1, <2>2, UpTo
    <2> QED
      BY <2>3 DEF G
  <1>9. \A i \in k..n : i # k => GapEnd(m, k) + (f[i] - f[k]) <= Behind(m.minors[i])
    <2> DEFINE G == {i \in k..n : i # k => GapEnd(m, k) + (f[i] - f[k]) <= Behind(m.minors[i])}
    <2>0. k \in Nat /\ k <= n /\ f[k] \in Int
      BY <1>1, <1>6
    <2>1. k \in G
      BY <1>1, <2>0
    <2>2. ASSUME NEW i \in k..(n - 1), i \in G
          PROVE  i + 1 \in G
      <3>1. i + 1 \in 1..n /\ (i + 1) - 1 = i /\ i \in 0..n /\ i + 1 \in k..n /\ i + 1 > k
        BY <1>1, <2>0
      <3>2. f[i + 1] = f[i] + s[i + 1] /\ f[i] \in Int /\ s[i + 1] \in Nat
        BY <1>2, <1>5, <3>1
      <3>3. Behind(m.minors[i + 1]) = m.minors[i + 1].at + s[i + 1] /\ m.minors[i + 1].at \in Nat
        BY <1>2, <3>1
      <3>4. GapEnd(m, k) + (f[i] - f[k]) <= m.minors[i + 1].at
        <4>1. CASE i = k
          <5>1. GapEnd(m, k) <= m.minors[i + 1].at
            BY <1>7, <3>1
          <5> HIDE DEF G
          <5> QED
            BY <1>7, <2>0, <3>2, <3>3, <4>1, <5>1
        <4>2. CASE i # k
          <5>1. i \in 1..n /\ i < i + 1
            BY <1>1, <2>0, <4>2
          <5>2. /\ Behind(m.minors[i]) <= m.minors[i + 1].at /\ Behind(m.minors[i]) \in Nat
                /\ GapEnd(m, k) + (f[i] - f[k]) <= Behind(m.minors[i])
            BY <1>2, <1>3, <2>2, <3>1, <5>1, <4>2
          <5> HIDE DEF G
          <5> QED
            BY <1>7, <2>0, <3>2, <3>3, <5>2, SMTT(30)
        <4> QED
          BY <4>1, <4>2
      <3>5. GapEnd(m, k) + (f[i + 1] - f[k]) <= Behind(m.minors[i + 1])
        <4>1. GapEnd(m, k) \in Nat
          BY <1>7
        <4> DEFINE e == GapEnd(m, k)
                   z == s[i + 1]
                   y == m.minors[i + 1].at
        <4>2. /\ e \in Nat /\ z \in Nat /\ y \in Nat /\ f[i] \in Int /\ f[k] \in Int
              /\ e + (f[i] - f[k]) <= y
          BY <2>0, <3>2, <3>3, <3>4, <4>1
        <4>3. f[i + 1] = f[i] + z /\ Behind(m.minors[i + 1]) = y + z
          BY <3>2, <3>3
        <4> HIDE DEF G, e, z, y
        <4>4. e + ((f[i] + z) - f[k]) <= y + z
          BY <4>2
        <4> QED
          BY <4>3, <4>4 DEF e
      <3> QED
        BY <3>1, <3>5
    <2> HIDE DEF G
    <2>3. k..n \subseteq G
      BY <1>1, <2>0, <2>1, <2>2, UpTo
    <2> QED
      BY <2>3 DEF G
  <1>10. f[k] \in Int /\ f[n] \in Int /\ k \in Int
    BY <1>1, <1>6
  <1>11. base + f[k] <= GapStart(m, k)
    <2>1. CASE k = 0
      BY <1>0, <1>5, <1>7, <2>1
    <2>2. CASE k # 0
      <3>1. k \in 1..n /\ k <= k
        BY <1>1, <1>6, <2>2
      <3>2. /\ Behind(m.minors[k]) <= GapStart(m, k) /\ Behind(m.minors[k]) \in Nat
            /\ base + f[k] <= Behind(m.minors[k])
        BY <1>2, <1>6, <1>7, <1>8, <2>2, <3>1
      <3> QED
        BY <1>0, <1>1, <1>7, <1>10, <3>2, SMTT(30)
    <2> QED
      BY <2>1, <2>2
  <1>12. GapEnd(m, k) + (f[n] - f[k]) <= End(m)
    <2>1. CASE k = n
      BY <1>1, <1>7, <1>10, <2>1
    <2>2. CASE k # n
      <3>1. n \in k..n /\ n \in 1..n
        BY <1>1, <1>6, <2>2
      <3>2. /\ GapEnd(m, k) + (f[n] - f[k]) <= Behind(m.minors[n]) /\ Behind(m.minors[n]) <= End(m)
            /\ Behind(m.minors[n]) \in Nat
        BY <1>2, <1>3, <1>9, <2>2, <3>1
      <3> QED
        BY <1>0, <1>1, <1>7, <1>10, <3>2, SMTT(30)
    <2> QED
      BY <2>1, <2>2
  <1> QED
    BY <1>0, <1>1, <1>5, <1>7, <1>10, <1>11, <1>12, SMTT(30)

LEMMA NewMinorIs ==
    ASSUME NEW at \in Nat, NEW req \in Nat
    PROVE  /\ Padded(req) \in Nat /\ Minor(at, req) \in MinorSet /\ MinorSound(Minor(at, req))
           /\ Minor(at, req).at = at /\ Minor(at, req).req = req
           /\ Minor(at, req).size = Padded(req)
           /\ Behind(Minor(at, req)) = at + MinorHead + Padded(req)
  <1>1. ShiftAt(at) \in Nat /\ Padded(req) \in Nat
    BY ShiftIs, ConstFacts DEF Padded
  <1> QED
    BY <1>1 DEF Minor, MinorSet, MinorSound, Behind

LEMMA TotalInt ==
    ASSUME NEW s \in Seq(Int)
    PROVE  Total(s) \in Int
  <1>1. PICK f \in [0..Len(s) -> Int] : Total(s) = f[Len(s)]
    BY TotalIs
  <1>2. Len(s) \in 0..Len(s)
    OBVIOUS
  <1> QED
    BY <1>1, <1>2

LEMMA TotalNat ==
    ASSUME NEW s \in Seq(Int), \A i \in 1..Len(s) : s[i] >= 0
    PROVE  Total(s) >= 0
  <1> DEFINE n == Len(s)
  <1>0. n \in Nat /\ \A i \in 1..n : s[i] \in Int
    OBVIOUS
  <1>1. PICK f \in [0..n -> Int] :
          /\ f[0] = 0 /\ Total(s) = f[n] /\ \A i \in 1..n : f[i] = f[i - 1] + s[i]
    BY TotalIs
  <1> DEFINE G == {i \in 0..n : f[i] >= 0}
  <1>2. 0 \in G
    BY <1>0, <1>1
  <1>3. ASSUME NEW i \in 0..(n - 1), i \in G
        PROVE  i + 1 \in G
    <2>1. i + 1 \in 1..n /\ (i + 1) - 1 = i /\ i + 1 \in 0..n /\ i \in 0..n
      BY <1>0
    <2>2. f[i + 1] = f[i] + s[i + 1] /\ f[i] \in Int /\ s[i + 1] \in Int /\ s[i + 1] >= 0
      BY <1>0, <1>1, <2>1
    <2> QED
      BY <1>3, <2>1, <2>2
  <1> HIDE DEF G
  <1>4. 0..n \subseteq G
    BY <1>0, <1>2, <1>3, UpTo
  <1> QED
    BY <1>0, <1>1, <1>4 DEF G

\* A block in a gap that is large enough.
LEMMA InsertedIs ==
    ASSUME NEW m, Sound(m), NEW req \in Nat, NEW k \in Gaps(m, Padded(req)),
           NEW x, x = Minor(GapStart(m, k), req), NEW o, o = Inserted(m, k, req)
    PROVE  /\ Sound(o) /\ o.page = m.page /\ o.pages = m.pages
           /\ k \in 0..Len(m.minors) /\ GapStart(m, k) \in Nat
           /\ Len(o.minors) = Len(m.minors) + 1
           /\ \A i \in 1..(Len(m.minors) + 1) :
                o.minors[i] = IF i <= k THEN m.minors[i] ELSE IF i = k + 1 THEN x ELSE m.minors[i - 1]
  <1> DEFINE n == Len(m.minors)
             p == Padded(req)
             t == o.minors
  <1>1. /\ m \in MajorSet /\ n \in Nat /\ Start(m) \in Nat /\ End(m) \in Nat
        /\ m.minors \in Seq(MinorSet) /\ m.usage \in Nat /\ m.page \in Nat /\ m.pages \in Nat
        /\ MajorHead \in Nat /\ MinorHead \in Nat
    BY MajorFacts, ConstFacts DEF Sound
  <1>2. k \in 0..n /\ GapEnd(m, k) - GapStart(m, k) >= p + MinorHead
    BY DEF Gaps
  <1>3. /\ GapStart(m, k) \in Nat /\ GapEnd(m, k) \in Nat
        /\ Start(m) + MajorHead <= GapStart(m, k) /\ GapEnd(m, k) <= End(m)
        /\ \A j \in 1..n : j <= k => Behind(m.minors[j]) <= GapStart(m, k)
        /\ \A j \in 1..n : j > k => GapEnd(m, k) <= m.minors[j].at
    BY <1>2, GapIs
  <1>4. /\ p \in Nat /\ x \in MinorSet /\ MinorSound(x) /\ x.at = GapStart(m, k) /\ x.size = p
        /\ Behind(x) = GapStart(m, k) + MinorHead + p
    BY <1>3, NewMinorIs
  <1>5. /\ DOMAIN m = {"page", "pages", "usage", "minors"}
        /\ m = [page |-> m.page, pages |-> m.pages, usage |-> m.usage, minors |-> m.minors]
    BY <1>1 DEF MajorSet
  <1>6. /\ o.page = m.page /\ o.pages = m.pages /\ o.usage = m.usage + p + MinorHead
        /\ t = SubSeq(m.minors, 1, k) \o <<x>> \o SubSeq(m.minors, k + 1, n)
        /\ o = [page |-> m.page, pages |-> m.pages, usage |-> m.usage + p + MinorHead, minors |-> t]
    BY <1>5 DEF Inserted
  <1> HIDE DEF n, p
  <1>7. /\ t \in Seq(MinorSet) /\ Len(t) = n + 1
        /\ \A i \in 1..(n + 1) :
             t[i] = IF i <= k THEN m.minors[i] ELSE IF i = k + 1 THEN x ELSE m.minors[i - 1]
    <2>1. t = Insertion(m.minors, k, x)
      BY <1>6 DEF n, Insertion
    <2>2. k \in 0..Len(m.minors)
      BY <1>2 DEF n
    <2> HIDE DEF t
    <2>3. t \in Seq(MinorSet) /\ HasInserted(t, m.minors, k, x)
      BY <1>1, <1>4, <2>1, <2>2, InsertSeq
    <2> QED
      BY <2>3 DEF HasInserted, n
  <1> HIDE DEF t
  <1>8. o \in MajorSet
    <2>1. m.usage + p + MinorHead \in Nat
      BY <1>1, <1>4
    <2> QED
      BY <1>1, <1>6, <1>7, <2>1 DEF MajorSet
  <1>9. Start(o) = Start(m) /\ End(o) = End(m)
    BY <1>6 DEF Start, Bytes, End
  <1>10. \A j \in 1..n : /\ MinorSound(m.minors[j]) /\ Start(m) + MajorHead <= m.minors[j].at
                         /\ Behind(m.minors[j]) <= End(m)
                         /\ m.minors[j].at \in Nat /\ Behind(m.minors[j]) \in Nat
    <2>1. \A j \in 1..n : m.minors[j] \in MinorSet
      BY <1>1, MajorFacts DEF n
    <2> QED
      BY <2>1, MinorFacts DEF Sound, InOrder, n
  <1>11. \A i, j \in 1..n : i < j => Behind(m.minors[i]) <= m.minors[j].at
    BY DEF Sound, InOrder, n
  <1>12. Behind(x) \in Nat /\ Behind(x) <= GapEnd(m, k)
    BY <1>1, <1>2, <1>3, <1>4, SMTT(30)
  <1>13. \A i \in 1..(n + 1) : /\ i <= k => i \in 1..n
                               /\ i > k + 1 => i - 1 \in 1..n /\ i - 1 > k
    BY <1>1, <1>2
  <1>14. ASSUME NEW i \in 1..(n + 1)
         PROVE  /\ MinorSound(t[i]) /\ Start(m) + MajorHead <= t[i].at /\ Behind(t[i]) <= End(m)
    <2>1. CASE i <= k
      BY <1>7, <1>10, <1>13, <2>1
    <2>2. CASE i = k + 1
      <3>1. t[i] = x
        BY <1>2, <1>7, <2>2
      <3>2. Behind(x) <= End(m)
        BY <1>1, <1>3, <1>12
      <3> QED
        BY <1>3, <1>4, <3>1, <3>2
    <2>3. CASE i > k + 1
      <3>1. t[i] = m.minors[i - 1]
        BY <1>2, <1>7, <2>3
      <3> QED
        BY <1>10, <1>13, <2>3, <3>1
    <2> QED
      BY <1>2, <2>1, <2>2, <2>3
  <1>15. ASSUME NEW i \in 1..(n + 1), NEW j \in 1..(n + 1), i < j
         PROVE  Behind(t[i]) <= t[j].at
    <2>0. k \in Int /\ i \in Int /\ j \in Int
      BY <1>2
    <2>1. CASE j <= k
      <3>1. i <= k
        BY <1>15, <2>0, <2>1
      <3>2. t[i] = m.minors[i] /\ t[j] = m.minors[j] /\ i \in 1..n /\ j \in 1..n
        BY <1>7, <1>13, <2>1, <3>1
      <3> QED
        BY <1>11, <1>15, <3>2
    <2>2. CASE j = k + 1
      <3>1. i <= k /\ ~(j <= k)
        BY <1>15, <2>0, <2>2
      <3>2. t[i] = m.minors[i] /\ t[j] = x /\ i \in 1..n
        BY <1>7, <1>13, <2>2, <3>1
      <3> QED
        BY <1>3, <1>4, <3>1, <3>2
    <2>3. CASE j > k + 1
      <3>1. ~(j <= k) /\ j # k + 1
        BY <2>0, <2>3
      <3>2. t[j] = m.minors[j - 1] /\ j - 1 \in 1..n /\ j - 1 > k
        BY <1>7, <1>13, <2>3, <3>1
      <3>3. CASE i <= k
        <4>1. t[i] = m.minors[i] /\ i \in 1..n
          BY <1>7, <1>13, <3>3
        <4>2. i < j - 1
          BY <2>0, <3>2, <3>3
        <4> QED
          BY <1>11, <3>2, <4>1, <4>2
      <3>4. CASE i = k + 1
        <4>1. t[i] = x
          BY <1>7, <2>0, <3>4
        <4>2. GapEnd(m, k) <= m.minors[j - 1].at /\ m.minors[j - 1].at \in Nat
          BY <1>3, <1>10, <3>2
        <4> QED
          BY <1>3, <1>12, <3>2, <4>1, <4>2
      <3>5. CASE i > k + 1
        <4>1. ~(i <= k) /\ i # k + 1
          BY <2>0, <3>5
        <4>2. t[i] = m.minors[i - 1] /\ i - 1 \in 1..n /\ i - 1 < j - 1
          BY <1>7, <1>13, <1>15, <2>0, <3>5, <4>1
        <4> QED
          BY <1>11, <3>2, <4>2
      <3> QED
        BY <2>0, <3>3, <3>4, <3>5
    <2> QED
      BY <2>0, <2>1, <2>2, <2>3
  <1>16. o.usage = MajorHead + Total(Spans(o))
    <2> DEFINE a == Spans(m)
               b == Spans(o)
    <2>1. /\ a \in Seq(Int) /\ Len(a) = n /\ b \in Seq(Int) /\ Len(b) = n + 1
          /\ \A i \in 1..n : a[i] = m.minors[i].size + MinorHead
          /\ \A i \in 1..(n + 1) : b[i] = t[i].size + MinorHead
      BY <1>1, <1>7, <1>8, SumsFacts DEF n, t
    <2>2. x.size + MinorHead \in Int /\ x.size + MinorHead = p + MinorHead
      BY <1>1, <1>4
    <2> DEFINE y == x.size + MinorHead
    <2> HIDE DEF a, b, y
    <2>3. \A i \in 1..(n + 1) : b[i] = IF i <= k THEN a[i] ELSE IF i = k + 1 THEN y ELSE a[i - 1]
      <3> TAKE i \in 1..(n + 1)
      <3>1. CASE i <= k
        <4>1. i \in 1..n /\ t[i] = m.minors[i]
          BY <1>7, <1>13, <3>1
        <4>2. a[i] = m.minors[i].size + MinorHead /\ b[i] = t[i].size + MinorHead
          BY <2>1, <4>1
        <4> QED
          BY <3>1, <4>1, <4>2
      <3>2. CASE i = k + 1
        <4>1. ~(i <= k)
          BY <1>2, <3>2
        <4> QED
          BY <1>7, <2>1, <3>2, <4>1 DEF y
      <3>3. CASE i > k + 1
        <4>1. ~(i <= k) /\ i # k + 1
          BY <1>2, <3>3
        <4>2. i - 1 \in 1..n /\ t[i] = m.minors[i - 1]
          BY <1>7, <1>13, <3>3, <4>1
        <4>3. a[i - 1] = m.minors[i - 1].size + MinorHead /\ b[i] = t[i].size + MinorHead
          BY <2>1, <4>2
        <4> QED
          BY <4>1, <4>2, <4>3
      <3> QED
        BY <1>2, <3>1, <3>2, <3>3
    <2>4. Total(b) = Total(a) + y
      <3>1. k \in 0..Len(a) /\ Len(b) = Len(a) + 1 /\ y \in Int
        BY <1>2, <2>1, <2>2 DEF y
      <3>2. \A i \in 1..Len(b) : b[i] = IF i <= k THEN a[i] ELSE IF i = k + 1 THEN y ELSE a[i - 1]
        BY <2>1, <2>3
      <3> QED
        BY <2>1, <3>1, <3>2, TotalInsert
    <2>5. m.usage = MajorHead + Total(a) /\ Total(a) \in Int
      BY <2>1, TotalInt DEF Sound, InOrder, a
    <2>6. o.usage = m.usage + p + MinorHead
      BY <1>6
    <2>7. y = p + MinorHead
      BY <2>2 DEF y
    <2>8. o.usage = MajorHead + Total(b)
      BY <1>1, <1>4, <2>4, <2>5, <2>6, <2>7
    <2> QED
      BY <2>8 DEF b
  <1>17. Sound(o)
    <2>1. m.pages >= 1 /\ m.page # Null
      BY DEF Sound, InOrder
    <2>2. InOrder(o)
      BY <1>6, <1>7, <1>9, <1>14, <1>15, <1>16, <2>1 DEF InOrder, t
    <2> QED
      BY <1>6, <1>8, <2>1, <2>2 DEF Sound
  <1> QED
    BY <1>2, <1>3, <1>6, <1>7, <1>17 DEF n, t

\* A major without one of its blocks.
LEMMA WithoutIs ==
    ASSUME NEW m, Sound(m), NEW k \in 1..Len(m.minors), NEW o, o = Without(m, k)
    PROVE  /\ Sound(o) /\ o.page = m.page /\ o.pages = m.pages
           /\ o.usage = m.usage - (m.minors[k].size + MinorHead)
           /\ Len(o.minors) = Len(m.minors) - 1
           /\ \A i \in 1..(Len(m.minors) - 1) :
                o.minors[i] = IF i < k THEN m.minors[i] ELSE m.minors[i + 1]
  <1> DEFINE n == Len(m.minors)
             t == o.minors
             x == m.minors[k]
  <1>1. /\ m \in MajorSet /\ n \in Nat /\ Start(m) \in Nat /\ End(m) \in Nat
        /\ m.minors \in Seq(MinorSet) /\ m.usage \in Nat /\ m.page \in Nat /\ m.pages \in Nat
        /\ MajorHead \in Nat /\ MinorHead \in Nat
    BY MajorFacts, ConstFacts DEF Sound
  <1>2. k \in 1..n
    OBVIOUS
  <1>3. x \in MinorSet /\ x.size \in Nat
    BY <1>1, MajorFacts, MinorFacts
  <1>4. /\ DOMAIN m = {"page", "pages", "usage", "minors"}
        /\ m = [page |-> m.page, pages |-> m.pages, usage |-> m.usage, minors |-> m.minors]
    BY <1>1 DEF MajorSet
  <1>5. /\ o.page = m.page /\ o.pages = m.pages /\ o.usage = m.usage - (x.size + MinorHead)
        /\ t = SubSeq(m.minors, 1, k - 1) \o SubSeq(m.minors, k + 1, n)
        /\ o = [page |-> m.page, pages |-> m.pages, usage |-> m.usage - (x.size + MinorHead),
                minors |-> t]
    BY <1>4 DEF Without
  <1> HIDE DEF n, x
  <1>6. /\ t \in Seq(MinorSet) /\ Len(t) = n - 1
        /\ \A i \in 1..(n - 1) : t[i] = IF i < k THEN m.minors[i] ELSE m.minors[i + 1]
    <2>1. t = Removal(m.minors, k)
      BY <1>5 DEF n, Removal
    <2> HIDE DEF t
    <2> QED
      BY <1>1, <1>2, <2>1, RemoveSeq DEF n
  <1> HIDE DEF t
  <1>7. o.usage = MajorHead + Total(Spans(o)) /\ o.usage \in Nat /\ o \in MajorSet
    <2> DEFINE a == Spans(m)
               b == [i \in 1..Len(t) |-> t[i].size + MinorHead]
               y == x.size + MinorHead
    <2>1. /\ a \in Seq(Int) /\ Len(a) = n /\ \A i \in 1..n : a[i] = m.minors[i].size + MinorHead
      BY <1>1, SumsFacts DEF n
    <2>2. /\ b \in Seq(Int) /\ Len(b) = n - 1 /\ \A i \in 1..(n - 1) : b[i] = t[i].size + MinorHead
          /\ \A i \in 1..Len(b) : b[i] >= 0
      <3>1. n - 1 \in Nat /\ \A i \in 1..(n - 1) : t[i] \in MinorSet
        BY <1>1, <1>2, <1>6
      <3>2. \A i \in 1..(n - 1) : t[i].size + MinorHead \in Nat
        <4> TAKE i \in 1..(n - 1)
        <4>1. t[i].size \in Nat
          BY <3>1, MinorFacts
        <4> QED
          BY <1>1, <4>1
      <3>3. Len(t) = n - 1
        BY <1>6
      <3> QED
        BY <3>1, <3>2, <3>3
    <2>3. b = Spans(o)
      BY DEF Spans, t
    <2> HIDE DEF a, b
    <2>4. y \in Int
      BY <1>1, <1>3
    <2>5. Total(a) = Total(b) + y
      <3> DEFINE j == k - 1
      <3>1. j \in 0..Len(b) /\ Len(a) = Len(b) + 1 /\ j + 1 = k
        BY <1>1, <1>2, <2>1, <2>2
      <3>2. ASSUME NEW i \in 1..Len(a)
            PROVE  a[i] = IF i <= j THEN b[i] ELSE IF i = j + 1 THEN y ELSE b[i - 1]
        <4>1. CASE i <= j
          <5>1. i < k /\ i \in 1..(n - 1)
            BY <1>1, <1>2, <2>1, <4>1
          <5> QED
            BY <1>6, <2>1, <2>2, <3>2, <4>1, <5>1
        <4>2. CASE i = k
          <5>1. ~(i <= j) /\ i = j + 1 /\ i \in 1..n
            BY <1>2, <4>2
          <5>2. a[i] = y
            BY <2>1, <4>2, <5>1 DEF x
          <5> HIDE DEF j, y
          <5> QED
            BY <5>1, <5>2
        <4>3. CASE i > k
          <5>1. ~(i <= j) /\ i # j + 1 /\ i - 1 \in 1..(n - 1) /\ ~(i - 1 < k) /\ (i - 1) + 1 = i
            BY <1>1, <1>2, <2>1, <4>3
          <5>2. t[i - 1] = m.minors[i]
            BY <1>6, <5>1
          <5>3. a[i] = b[i - 1]
            BY <2>1, <2>2, <3>2, <5>1, <5>2
          <5> HIDE DEF j, y
          <5> QED
            BY <5>1, <5>3
        <4> QED
          BY <1>1, <1>2, <2>1, <4>1, <4>2, <4>3
      <3> HIDE DEF j, y
      <3> QED
        BY <2>1, <2>2, <2>4, <3>1, <3>2, TotalInsert
    <2>6. m.usage = MajorHead + Total(a) /\ Total(b) \in Int
      BY <2>2, TotalInt DEF Sound, InOrder, a
    <2>7. Total(b) >= 0
      BY <2>2, TotalNat
    <2>8. o.usage = m.usage - y
      BY <1>5
    <2> HIDE DEF y
    <2>9. o.usage = MajorHead + Total(b) /\ o.usage \in Nat
      BY <1>1, <2>4, <2>5, <2>6, <2>7, <2>8
    <2>10. o \in MajorSet
      BY <1>1, <1>5, <1>6, <2>9 DEF MajorSet
    <2> QED
      BY <2>3, <2>9, <2>10
  <1>8. Start(o) = Start(m) /\ End(o) = End(m)
    BY <1>5 DEF Start, Bytes, End
  <1> DEFINE from(i) == IF i < k THEN i ELSE i + 1
  <1>9. \A i \in 1..(n - 1) : from(i) \in 1..n /\ t[i] = m.minors[from(i)]
    BY <1>1, <1>2, <1>6
  <1>10. \A i, j \in 1..(n - 1) : i < j => from(i) < from(j)
    BY <1>1, <1>2
  <1> HIDE DEF from
  <1>11. /\ \A j \in 1..n : /\ MinorSound(m.minors[j]) /\ Start(m) + MajorHead <= m.minors[j].at
                            /\ Behind(m.minors[j]) <= End(m)
         /\ \A i, j \in 1..n : i < j => Behind(m.minors[i]) <= m.minors[j].at
         /\ m.pages >= 1 /\ m.page # Null
    BY DEF Sound, InOrder, n
  <1>12. InOrder(o)
    <2>1. \A i \in 1..Len(t) : /\ MinorSound(t[i]) /\ Start(o) + MajorHead <= t[i].at
                                /\ Behind(t[i]) <= End(o)
      BY <1>6, <1>8, <1>9, <1>11
    <2>2. \A i, j \in 1..Len(t) : i < j => Behind(t[i]) <= t[j].at
      BY <1>6, <1>9, <1>10, <1>11
    <2> QED
      BY <1>5, <1>7, <1>11, <2>1, <2>2 DEF InOrder, t
  <1> QED
    BY <1>5, <1>6, <1>7, <1>11, <1>12 DEF Sound, n, t, x

-----------------------------------------------------------------------------
(* Lists of majors, and the blocks in them.                                *)

\* Pages apart are bytes apart.
LEMMA BytesApart ==
    ASSUME NEW m \in MajorSet, NEW o \in MajorSet, m.pages >= 1, o.pages >= 1,
           PagesOf(m) \cap PagesOf(o) = {}
    PROVE  End(m) <= Start(o) \/ End(o) <= Start(m)
  <1> DEFINE P == m.page
             Q == o.page
             a == m.pages
             b == o.pages
  <1>1. P \in Nat /\ Q \in Nat /\ a \in Nat /\ b \in Nat /\ a >= 1 /\ b >= 1 /\ PageSize \in Nat
    BY MajorFacts, ConstFacts
  <1>2. PagesOf(m) = P..(P + a - 1) /\ PagesOf(o) = Q..(Q + b - 1)
    BY DEF PagesOf
  <1>3. /\ Start(m) = P * PageSize /\ Bytes(m) = a * PageSize /\ End(m) = Start(m) + Bytes(m)
        /\ Start(o) = Q * PageSize /\ Bytes(o) = b * PageSize /\ End(o) = Start(o) + Bytes(o)
    BY DEF Start, Bytes, End
  <1> HIDE DEF P, Q, a, b
  <1>4. /\ (P + a) * PageSize = P * PageSize + a * PageSize
        /\ (Q + b) * PageSize = Q * PageSize + b * PageSize
    BY <1>1
  <1>5. P + a <= Q \/ Q + b <= P
    <2>1. P <= Q => Q \notin P..(P + a - 1)
      <3>1. Q \in Q..(Q + b - 1)
        BY <1>1
      <3> QED
        BY <1>2, <3>1
    <2>2. Q <= P => P \notin Q..(Q + b - 1)
      <3>1. P \in P..(P + a - 1)
        BY <1>1
      <3> QED
        BY <1>2, <3>1
    <2> QED
      BY <1>1, <2>1, <2>2
  <1>6. CASE P + a <= Q
    <2>1. P + a \in Int /\ Q \in Int
      BY <1>1
    <2>2. (P + a) * PageSize <= Q * PageSize
      BY <1>1, <1>6, <2>1, MulMonotone
    <2> QED
      BY <1>3, <1>4, <2>2
  <1>7. CASE Q + b <= P
    <2>1. Q + b \in Int /\ P \in Int
      BY <1>1
    <2>2. (Q + b) * PageSize <= P * PageSize
      BY <1>1, <1>7, <2>1, MulMonotone
    <2> QED
      BY <1>3, <1>4, <2>2
  <1> QED
    BY <1>5, <1>6, <1>7

\* A pointer is aligned, and its bytes lie between the header and the next block.
LEMMA PointerIs ==
    ASSUME NEW x \in MinorSet, MinorSound(x)
    PROVE  /\ Pointer(x) \in Nat /\ x.req \in Nat /\ x.at \in Nat /\ Behind(x) \in Nat
           /\ Pointer(x) % Alignment = 0
           /\ x.at + MinorHead <= Pointer(x) - Alignment
           /\ Pointer(x) + x.req < Behind(x)
  <1> DEFINE s == ShiftAt(x.at)
             p == Pointer(x)
             e == Behind(x)
             r == x.req
             z == x.size
             a == x.at
  <1>1. /\ a \in Nat /\ z \in Nat /\ r \in Nat /\ e = a + MinorHead + z
        /\ p \in Nat /\ p = a + MinorHead + x.shift /\ e \in Nat
    BY MinorFacts
  <1>2. s \in Nat /\ Alignment <= s /\ s < 2 * Alignment /\ (a + MinorHead + s) % Alignment = 0
    BY <1>1, ShiftIs
  <1>3. x.shift = s /\ z >= r + 2 * Alignment
    BY DEF MinorSound, Padded
  <1>4. p = a + MinorHead + s
    BY <1>1, <1>3
  <1>5. p % Alignment = 0
    BY <1>2, <1>4
  <1> HIDE DEF s, p, e, r, z, a
  <1>6. a + MinorHead <= p - Alignment /\ p + r < e
    BY <1>1, <1>2, <1>3, <1>4, ConstFacts
  <1> QED
    BY <1>1, <1>5, <1>6 DEF p, e, r, a

LEMMA ListFacts ==
    ASSUME NEW list, SoundList(list)
    PROVE  /\ list \in Seq(MajorSet) /\ Len(list) \in Nat
           /\ \A i \in 1..Len(list) :
                /\ list[i] \in MajorSet /\ Sound(list[i]) /\ Len(list[i].minors) \in Nat
                /\ list[i].minors \in Seq(MinorSet)
                /\ \A k \in 1..Len(list[i].minors) :
                     list[i].minors[k] \in MinorSet /\ MinorSound(list[i].minors[k])
  <1>1. list \in Seq(MajorSet) /\ Len(list) \in Nat /\ \A i \in 1..Len(list) : Sound(list[i])
    BY DEF SoundList
  <1>2. ASSUME NEW i \in 1..Len(list)
        PROVE  /\ list[i] \in MajorSet /\ Sound(list[i]) /\ Len(list[i].minors) \in Nat
               /\ list[i].minors \in Seq(MinorSet)
               /\ \A k \in 1..Len(list[i].minors) :
                    list[i].minors[k] \in MinorSet /\ MinorSound(list[i].minors[k])
    <2>1. Sound(list[i]) /\ list[i] \in MajorSet
      BY <1>1 DEF Sound
    <2>2. \A k \in 1..Len(list[i].minors) : MinorSound(list[i].minors[k])
      BY <2>1 DEF Sound, InOrder
    <2> QED
      BY <2>1, <2>2, MajorFacts
  <1> QED
    BY <1>1, <1>2

\* Where a block of a list lies.
LEMMA BlockIs ==
    ASSUME NEW list, SoundList(list), NEW i \in 1..Len(list), NEW k \in 1..Len(list[i].minors),
           NEW x, x = list[i].minors[k]
    PROVE  /\ Pointer(x) \in Nat /\ x.req \in Nat /\ x.at \in Nat /\ Behind(x) \in Nat
           /\ Start(list[i]) \in Nat /\ End(list[i]) \in Nat
           /\ Pointer(x) % Alignment = 0
           /\ Start(list[i]) + MajorHead <= x.at /\ x.at + MinorHead <= Pointer(x) - Alignment
           /\ Pointer(x) + x.req < Behind(x) /\ Behind(x) <= End(list[i])
  <1>1. list[i] \in MajorSet /\ Sound(list[i]) /\ x \in MinorSet /\ MinorSound(x)
    BY ListFacts
  <1>2. Start(list[i]) + MajorHead <= x.at /\ Behind(x) <= End(list[i])
    BY <1>1 DEF Sound, InOrder
  <1>3. Start(list[i]) \in Nat /\ End(list[i]) \in Nat
    BY <1>1, MajorFacts
  <1> QED
    BY <1>1, <1>2, <1>3, PointerIs

\* Two blocks, whether in one major or in two, do not overlap.
LEMMA BlocksApart ==
    ASSUME NEW list, SoundList(list),
           NEW i \in 1..Len(list), NEW k \in 1..Len(list[i].minors),
           NEW j \in 1..Len(list), NEW l \in 1..Len(list[j].minors),
           i # j \/ k # l,
           NEW x, x = list[i].minors[k], NEW y, y = list[j].minors[l]
    PROVE  Behind(x) <= y.at \/ Behind(y) <= x.at
  <1>1. /\ list[i] \in MajorSet /\ Sound(list[i]) /\ list[j] \in MajorSet /\ Sound(list[j])
    BY ListFacts
  <1>2. CASE i # j
    <2>1. End(list[i]) <= Start(list[j]) \/ End(list[j]) <= Start(list[i])
      <3>1. PagesOf(list[i]) \cap PagesOf(list[j]) = {}
        BY <1>2 DEF SoundList, PagesApart
      <3>2. list[i].pages >= 1 /\ list[j].pages >= 1
        BY <1>1 DEF Sound, InOrder
      <3> QED
        BY <1>1, <3>1, <3>2, BytesApart
    <2>2. /\ x.at \in Nat /\ Behind(x) \in Nat /\ Start(list[i]) \in Nat /\ End(list[i]) \in Nat
          /\ Start(list[i]) + MajorHead <= x.at /\ Behind(x) <= End(list[i])
      BY BlockIs
    <2>3. /\ y.at \in Nat /\ Behind(y) \in Nat /\ Start(list[j]) \in Nat /\ End(list[j]) \in Nat
          /\ Start(list[j]) + MajorHead <= y.at /\ Behind(y) <= End(list[j])
      BY BlockIs
    <2>4. MajorHead \in Nat
      BY ConstFacts
    <2> DEFINE bx == Behind(x)
               by == Behind(y)
               ax == x.at
               ay == y.at
               sx == Start(list[i])
               sy == Start(list[j])
               ex == End(list[i])
               ey == End(list[j])
    <2>5. /\ ax \in Nat /\ bx \in Nat /\ sx \in Nat /\ ex \in Nat
          /\ ay \in Nat /\ by \in Nat /\ sy \in Nat /\ ey \in Nat
          /\ sx + MajorHead <= ax /\ bx <= ex /\ sy + MajorHead <= ay /\ by <= ey
          /\ ex <= sy \/ ey <= sx
      BY <2>1, <2>2, <2>3
    <2> HIDE DEF bx, by, ax, ay, sx, sy, ex, ey
    <2>6. bx <= ay \/ by <= ax
      BY <2>4, <2>5
    <2> QED
      BY <2>6 DEF bx, by, ax, ay
  <1>3. CASE i = j
    <2>1. \A p, q \in 1..Len(list[i].minors) :
            p < q => Behind(list[i].minors[p]) <= list[i].minors[q].at
      BY <1>1 DEF Sound, InOrder
    <2>2. k \in Int /\ l \in Int /\ k # l /\ l \in 1..Len(list[i].minors)
      BY <1>3
    <2>3. CASE k < l
      BY <1>3, <2>1, <2>2, <2>3
    <2>4. CASE l < k
      BY <1>3, <2>1, <2>2, <2>4
    <2> QED
      BY <2>2, <2>3, <2>4
  <1> QED
    BY <1>2, <1>3

LEMMA PointersDiffer ==
    ASSUME NEW list, SoundList(list),
           NEW i \in 1..Len(list), NEW k \in 1..Len(list[i].minors),
           NEW j \in 1..Len(list), NEW l \in 1..Len(list[j].minors),
           Pointer(list[i].minors[k]) = Pointer(list[j].minors[l])
    PROVE  i = j /\ k = l
  <1> SUFFICES ASSUME i # j \/ k # l PROVE FALSE
    OBVIOUS
  <1> DEFINE x == list[i].minors[k]
             y == list[j].minors[l]
  <1>1. /\ Pointer(x) \in Nat /\ x.req \in Nat /\ x.at \in Nat /\ Behind(x) \in Nat
        /\ x.at + MinorHead <= Pointer(x) - Alignment /\ Pointer(x) + x.req < Behind(x)
    BY BlockIs
  <1>2. /\ Pointer(y) \in Nat /\ y.req \in Nat /\ y.at \in Nat /\ Behind(y) \in Nat
        /\ y.at + MinorHead <= Pointer(y) - Alignment /\ Pointer(y) + y.req < Behind(y)
    BY BlockIs
  <1>3. Behind(x) <= y.at \/ Behind(y) <= x.at
    BY BlocksApart
  <1>4. Pointer(x) = Pointer(y)
    OBVIOUS
  <1>5. Alignment \in Nat /\ Alignment >= 1 /\ MinorHead \in Nat
    BY ConstFacts
  <1> DEFINE p == Pointer(x)
             bx == Behind(x)
             by == Behind(y)
             ax == x.at
             ay == y.at
             rx == x.req
             ry == y.req
  <1>6. /\ p \in Nat /\ rx \in Nat /\ ry \in Nat /\ ax \in Nat /\ ay \in Nat
        /\ bx \in Nat /\ by \in Nat
        /\ ax + MinorHead <= p - Alignment /\ p + rx < bx
        /\ ay + MinorHead <= p - Alignment /\ p + ry < by
    <2> HIDE DEF x, y
    <2> QED
      BY <1>1, <1>2, <1>4, Zenon
  <1>7. bx <= ay \/ by <= ax
    BY <1>3
  <1> HIDE DEF p, bx, by, ax, ay, rx, ry
  <1> QED
    BY <1>5, <1>6, <1>7

\* UNALIGN finds the block that the pointer belongs to.
LEMMA PlaceIs ==
    ASSUME NEW list, SoundList(list), NEW i \in 1..Len(list), NEW k \in 1..Len(list[i].minors)
    PROVE  Place(list, Pointer(list[i].minors[k])) = <<i, k>>
  <1> DEFINE Q == UNION {{j} \X (1..Len(list[j].minors)) : j \in 1..Len(list)}
             ptr == Pointer(list[i].minors[k])
  <1>1. <<i, k>> \in Q /\ Pointer(list[<<i, k>>[1]].minors[<<i, k>>[2]]) = ptr
    OBVIOUS
  <1>2. ASSUME NEW p \in Q, Pointer(list[p[1]].minors[p[2]]) = ptr
        PROVE  p = <<i, k>>
    <2>1. PICK j \in 1..Len(list) : p \in {j} \X (1..Len(list[j].minors))
      OBVIOUS
    <2>2. p = <<p[1], p[2]>> /\ p[1] = j /\ p[2] \in 1..Len(list[j].minors)
      BY <2>1
    <2>3. j = i /\ p[2] = k
      <3> DEFINE l == p[2]
      <3>1. l \in 1..Len(list[j].minors) /\ Pointer(list[j].minors[l]) = ptr
        BY <1>2, <2>2
      <3> HIDE DEF l
      <3>2. i = j /\ k = l
        BY <3>1, PointersDiffer
      <3> QED
        BY <3>2 DEF l
    <2> QED
      BY <2>2, <2>3
  <1> HIDE DEF Q, ptr
  <1>3. Place(list, ptr) = CHOOSE p \in Q : Pointer(list[p[1]].minors[p[2]]) = ptr
    BY DEF Place, Q
  <1> QED
    BY <1>1, <1>2, <1>3 DEF ptr

-----------------------------------------------------------------------------
(* Two lists that differ in one block, or in one empty major.              *)

\* b is a with the block x behind minor k of its major i.
Grown(a, b, i, k, x) ==
    /\ Len(b) = Len(a) /\ i \in 1..Len(a) /\ k \in 0..Len(a[i].minors)
    /\ \A j \in 1..Len(a) : j # i => b[j] = a[j]
    /\ b[i].page = a[i].page /\ b[i].pages = a[i].pages
    /\ HasInserted(b[i].minors, a[i].minors, k, x)

\* Every block of a is one of b.
Kept(a, b) ==
    \A i \in 1..Len(a) : \A k \in 1..Len(a[i].minors) :
      \E j \in 1..Len(b) : \E l \in 1..Len(b[j].minors) : b[j].minors[l] = a[i].minors[k]

LEMMA BlocksOfIs ==
    ASSUME NEW list, NEW b
    PROVE  b \in BlocksOf(list) <=> \E i \in 1..Len(list) : \E k \in 1..Len(list[i].minors) :
                                      b = Block(list[i].minors[k])
  BY DEF BlocksOf

LEMMA SizesInserted ==
    ASSUME NEW m \in MajorSet, NEW o \in MajorSet, NEW k \in 0..Len(m.minors),
           NEW x \in MinorSet, HasInserted(o.minors, m.minors, k, x)
    PROVE  Total(Sizes(o)) = Total(Sizes(m)) + x.size
  <1> DEFINE s == Sizes(m)
             t == Sizes(o)
             n == Len(m.minors)
  <1>1. s \in Seq(Int) /\ Len(s) = n /\ \A l \in 1..n : s[l] = m.minors[l].size
    BY SumsFacts
  <1>2. /\ t \in Seq(Int) /\ Len(t) = Len(o.minors)
        /\ \A l \in 1..Len(o.minors) : t[l] = o.minors[l].size
    BY SumsFacts
  <1>3. /\ Len(o.minors) = n + 1
        /\ \A l \in 1..(n + 1) : o.minors[l] = IF l <= k THEN m.minors[l]
                                               ELSE IF l = k + 1 THEN x ELSE m.minors[l - 1]
    BY DEF HasInserted
  <1>4. n \in Nat /\ k \in 0..n /\ x.size \in Int
    BY MajorFacts, MinorFacts
  <1> HIDE DEF s, t, n
  <1>5. ASSUME NEW l \in 1..(n + 1)
        PROVE  t[l] = IF l <= k THEN s[l] ELSE IF l = k + 1 THEN x.size ELSE s[l - 1]
    <2>1. t[l] = o.minors[l].size
      BY <1>2, <1>3
    <2>2. CASE l <= k
      <3>1. l \in 1..n
        BY <1>4, <2>2
      <3> QED
        BY <1>1, <1>3, <2>1, <2>2, <3>1
    <2>3. CASE l = k + 1
      <3>1. ~(l <= k)
        BY <1>4, <2>3
      <3> QED
        BY <1>3, <2>1, <2>3, <3>1
    <2>4. CASE l > k + 1
      <3>1. l - 1 \in 1..n /\ ~(l <= k) /\ l # k + 1
        BY <1>4, <2>4
      <3> QED
        BY <1>1, <1>3, <2>1, <3>1
    <2> QED
      BY <1>4, <2>2, <2>3, <2>4
  <1>6. Total(t) = Total(s) + x.size
    <2>1. k \in 0..Len(s) /\ Len(t) = Len(s) + 1
      BY <1>1, <1>2, <1>3, <1>4
    <2>2. \A l \in 1..Len(t) :
            t[l] = IF l <= k THEN s[l] ELSE IF l = k + 1 THEN x.size ELSE s[l - 1]
      BY <1>2, <1>3, <1>5
    <2> QED
      BY <1>1, <1>2, <1>4, <2>1, <2>2, TotalInsert
  <1> QED
    BY <1>6 DEF s, t

\* The sums over a list that InUse and AllBytes are.
PerMajor(list) == [i \in 1..Len(list) |-> Total(Sizes(list[i]))]
PerRun(list)   == [i \in 1..Len(list) |-> Bytes(list[i])]

LEMMA PerMajorIs ==
    ASSUME NEW list \in Seq(MajorSet)
    PROVE  /\ PerMajor(list) \in Seq(Int) /\ Len(PerMajor(list)) = Len(list)
           /\ PerRun(list) \in Seq(Int) /\ Len(PerRun(list)) = Len(list)
           /\ \A i \in 1..Len(list) : /\ PerMajor(list)[i] = Total(Sizes(list[i]))
                                      /\ PerRun(list)[i] = Bytes(list[i])
                                      /\ Total(Sizes(list[i])) \in Int /\ Bytes(list[i]) \in Int
           /\ InUse(list) = Total(PerMajor(list)) /\ AllBytes(list) = Total(PerRun(list))
  <1>1. Len(list) \in Nat /\ \A i \in 1..Len(list) : list[i] \in MajorSet
    OBVIOUS
  <1>2. \A i \in 1..Len(list) : Total(Sizes(list[i])) \in Int /\ Bytes(list[i]) \in Int
    <2> TAKE i \in 1..Len(list)
    <2>1. list[i] \in MajorSet
      BY <1>1
    <2>2. Sizes(list[i]) \in Seq(Int) /\ Bytes(list[i]) \in Nat
      BY <2>1, SumsFacts, MajorFacts
    <2>3. Total(Sizes(list[i])) \in Int
      BY <2>2, TotalInt
    <2> QED
      BY <2>2, <2>3
  <1> QED
    BY <1>1, <1>2 DEF PerMajor, PerRun, InUse, AllBytes

LEMMA GrownSums ==
    ASSUME NEW a \in Seq(MajorSet), NEW b \in Seq(MajorSet), NEW i, NEW k, NEW x \in MinorSet,
           Grown(a, b, i, k, x)
    PROVE  /\ InUse(b) = InUse(a) + x.size /\ AllBytes(b) = AllBytes(a)
           /\ InUse(a) \in Int /\ AllBytes(a) \in Int
  <1> DEFINE n == Len(a)
             s == PerMajor(a)
             t == PerMajor(b)
  <1>1. /\ Len(b) = n /\ i \in 1..n /\ k \in 0..Len(a[i].minors)
        /\ \A j \in 1..n : j # i => b[j] = a[j]
        /\ b[i].pages = a[i].pages /\ HasInserted(b[i].minors, a[i].minors, k, x)
    BY DEF Grown
  <1>2. /\ s \in Seq(Int) /\ Len(s) = n /\ InUse(a) = Total(s) /\ AllBytes(a) = Total(PerRun(a))
        /\ \A j \in 1..n : s[j] = Total(Sizes(a[j])) /\ s[j] \in Int
    BY PerMajorIs
  <1>3. /\ t \in Seq(Int) /\ Len(t) = n /\ InUse(b) = Total(t) /\ AllBytes(b) = Total(PerRun(b))
        /\ \A j \in 1..n : t[j] = Total(Sizes(b[j])) /\ t[j] \in Int
    BY <1>1, PerMajorIs
  <1>4. t[i] = s[i] + x.size
    <2>1. a[i] \in MajorSet /\ b[i] \in MajorSet
      BY <1>1
    <2>2. Total(Sizes(b[i])) = Total(Sizes(a[i])) + x.size
      BY <1>1, <2>1, SizesInserted
    <2> QED
      BY <1>1, <1>2, <1>3, <2>2
  <1>5. \A j \in 1..n : j # i => t[j] = s[j]
    BY <1>1, <1>2, <1>3
  <1>6. PerRun(b) = PerRun(a)
    <2>1. \A j \in 1..n : Bytes(b[j]) = Bytes(a[j])
      BY <1>1 DEF Bytes
    <2> QED
      BY <1>1, <2>1 DEF PerRun
  <1> HIDE DEF s, t, n
  <1>7. Total(t) = Total(s) - s[i] + t[i]
    BY <1>1, <1>2, <1>3, <1>5, TotalReplace
  <1>8. Total(s) \in Int /\ s[i] \in Int /\ x.size \in Int /\ Total(PerRun(a)) \in Int
    <2>1. PerRun(a) \in Seq(Int)
      BY PerMajorIs
    <2>2. Total(s) \in Int /\ Total(PerRun(a)) \in Int
      BY <1>2, <2>1, TotalInt
    <2>3. x.size \in Int
      BY MinorFacts
    <2> QED
      BY <1>1, <1>2, <2>2, <2>3
  <1> QED
    BY <1>2, <1>3, <1>4, <1>6, <1>7, <1>8

LEMMA GrownPages ==
    ASSUME NEW a, NEW b, NEW i, NEW k, NEW x, Grown(a, b, i, k, x)
    PROVE  /\ Len(b) = Len(a)
           /\ \A j \in 1..Len(a) : b[j].page = a[j].page /\ PagesOf(b[j]) = PagesOf(a[j])
           /\ PagesApart(b) <=> PagesApart(a)
           /\ \A bet : IsBet(b, bet) <=> IsBet(a, bet)
  <1>1. Len(b) = Len(a) /\ \A j \in 1..Len(a) : b[j].page = a[j].page /\ b[j].pages = a[j].pages
    BY DEF Grown
  <1>2. \A j \in 1..Len(a) : PagesOf(b[j]) = PagesOf(a[j])
    BY <1>1 DEF PagesOf
  <1>3. PagesApart(b) <=> PagesApart(a)
    BY <1>1, <1>2 DEF PagesApart
  <1>4. \A bet : IsBet(b, bet) <=> IsBet(a, bet)
    BY <1>1 DEF IsBet
  <1> QED
    BY <1>1, <1>2, <1>3, <1>4

\* Where the blocks of a are in b: not where the new one is.
LEMMA GrownMinors ==
    ASSUME NEW a \in Seq(MajorSet), NEW b \in Seq(MajorSet), NEW i, NEW k, NEW x,
           Grown(a, b, i, k, x), NEW j \in 1..Len(a), NEW l \in 1..Len(a[j].minors)
    PROVE  \E h \in 1..Len(b[j].minors) :
             b[j].minors[h] = a[j].minors[l] /\ (j # i \/ h # k + 1)
  <1>1. CASE j # i
    BY <1>1 DEF Grown
  <1>2. CASE j = i
    <2>1. /\ k \in 0..Len(a[i].minors) /\ Len(b[i].minors) = Len(a[i].minors) + 1
          /\ \A h \in 1..(Len(a[i].minors) + 1) :
               b[i].minors[h] = IF h <= k THEN a[i].minors[h]
                                ELSE IF h = k + 1 THEN x ELSE a[i].minors[h - 1]
      BY DEF Grown, HasInserted
    <2>2. Len(a[i].minors) \in Nat
      BY <1>2, MajorFacts
    <2> DEFINE n == Len(a[i].minors)
    <2>3. /\ l \in 1..n /\ n \in Nat /\ k \in 0..n /\ Len(b[i].minors) = n + 1
          /\ \A h \in 1..(n + 1) :
               b[i].minors[h] = IF h <= k THEN a[i].minors[h]
                                ELSE IF h = k + 1 THEN x ELSE a[i].minors[h - 1]
      BY <1>2, <2>1, <2>2
    <2> HIDE DEF n
    <2>4. CASE l <= k
      <3>1. l \in 1..(n + 1) /\ l # k + 1
        BY <2>3, <2>4
      <3> QED
        BY <1>2, <2>3, <2>4, <3>1
    <2>5. CASE ~(l <= k)
      <3>1. l + 1 \in 1..(n + 1) /\ l + 1 # k + 1 /\ ~(l + 1 <= k) /\ (l + 1) - 1 = l
        BY <2>3, <2>5
      <3>2. b[i].minors[l + 1] = IF l + 1 <= k THEN a[i].minors[l + 1]
                                 ELSE IF l + 1 = k + 1 THEN x ELSE a[i].minors[(l + 1) - 1]
        BY <2>3, <3>1, Zenon
      <3>3. b[i].minors[l + 1] = a[i].minors[l]
        BY <3>1, <3>2, SMTT(30)
      <3> QED
        BY <1>2, <2>3, <3>1, <3>3
    <2> QED
      BY <2>4, <2>5
  <1> QED
    BY <1>1, <1>2

LEMMA GrownBlocks ==
    ASSUME NEW a \in Seq(MajorSet), NEW b \in Seq(MajorSet), NEW i, NEW k, NEW x,
           Grown(a, b, i, k, x)
    PROVE  /\ BlocksOf(b) = BlocksOf(a) \cup {Block(x)} /\ Kept(a, b)
           /\ SoundList(b) => \A c \in BlocksOf(a) : c.ptr # Pointer(x)
  <1>1. /\ Len(b) = Len(a) /\ i \in 1..Len(a) /\ k \in 0..Len(a[i].minors)
        /\ \A j \in 1..Len(a) : j # i => b[j] = a[j]
        /\ Len(b[i].minors) = Len(a[i].minors) + 1
        /\ \A h \in 1..(Len(a[i].minors) + 1) :
             b[i].minors[h] = IF h <= k THEN a[i].minors[h]
                              ELSE IF h = k + 1 THEN x ELSE a[i].minors[h - 1]
    BY DEF Grown, HasInserted
  <1>2. \A j \in 1..Len(a) : Len(a[j].minors) \in Nat
    BY MajorFacts
  <1>3. ASSUME NEW j \in 1..Len(a), NEW l \in 1..Len(a[j].minors)
         PROVE  \E h \in 1..Len(b[j].minors) :
                  b[j].minors[h] = a[j].minors[l] /\ (j # i \/ h # k + 1)
    BY GrownMinors, SMTT(30)
  <1>4. Kept(a, b)
    BY <1>1, <1>3 DEF Kept
  <1> DEFINE n == Len(a[i].minors)
  <1>0. n \in Nat /\ k \in 0..n
    BY <1>1, <1>2
  <1>5. k + 1 \in 1..Len(b[i].minors) /\ b[i].minors[k + 1] = x
    <2>1. k + 1 \in 1..(n + 1) /\ ~(k + 1 <= k)
      BY <1>0
    <2> QED
      BY <1>1, <2>1
  <1>6. ASSUME NEW c \in BlocksOf(a)
        PROVE  c \in BlocksOf(b)
    <2>1. PICK j \in 1..Len(a) : \E l \in 1..Len(a[j].minors) : c = Block(a[j].minors[l])
      BY <1>6, BlocksOfIs
    <2>2. PICK l \in 1..Len(a[j].minors) : c = Block(a[j].minors[l])
      BY <2>1
    <2>3. PICK h \in 1..Len(b[j].minors) : b[j].minors[h] = a[j].minors[l]
      BY <1>3
    <2> QED
      BY <1>1, <2>2, <2>3, BlocksOfIs
  <1>7. Block(x) \in BlocksOf(b)
    BY <1>1, <1>5, BlocksOfIs
  <1>8. ASSUME NEW c \in BlocksOf(b)
        PROVE  c \in BlocksOf(a) \cup {Block(x)}
    <2>1. PICK j \in 1..Len(b) : \E h \in 1..Len(b[j].minors) : c = Block(b[j].minors[h])
      BY BlocksOfIs
    <2>2. PICK h \in 1..Len(b[j].minors) : c = Block(b[j].minors[h])
      BY <2>1
    <2>3. CASE j # i
      BY <1>1, <2>2, <2>3, BlocksOfIs
    <2>4. CASE j = i
      <3>1. h \in 1..(n + 1)
        BY <1>1, <2>4
      <3>2. CASE h <= k
        <4>1. h \in 1..n
          BY <1>0, <3>1, <3>2
        <4> QED
          BY <1>1, <2>2, <2>4, <3>1, <3>2, <4>1, BlocksOfIs
      <3>3. CASE h = k + 1
        BY <1>5, <2>2, <2>4, <3>3
      <3>4. CASE h > k + 1
        <4>1. h - 1 \in 1..n /\ ~(h <= k) /\ h # k + 1
          BY <1>0, <3>1, <3>4
        <4>2. b[i].minors[h] = a[i].minors[h - 1]
          BY <1>1, <3>1, <4>1
        <4> QED
          BY <1>1, <2>2, <2>4, <4>1, <4>2, BlocksOfIs
      <3> QED
        BY <1>0, <3>1, <3>2, <3>3, <3>4
    <2> QED
      BY <2>3, <2>4
  <1>9. ASSUME SoundList(b), NEW c \in BlocksOf(a), c.ptr = Pointer(x)
        PROVE  FALSE
    <2>1. PICK j \in 1..Len(a) : \E l \in 1..Len(a[j].minors) : c = Block(a[j].minors[l])
      BY BlocksOfIs
    <2>2. PICK l \in 1..Len(a[j].minors) : c = Block(a[j].minors[l])
      BY <2>1
    <2>3. PICK h \in 1..Len(b[j].minors) :
            b[j].minors[h] = a[j].minors[l] /\ (j # i \/ h # k + 1)
      BY <1>3
    <2>4. Pointer(b[j].minors[h]) = Pointer(b[i].minors[k + 1])
      BY <1>5, <1>9, <2>2, <2>3 DEF Block
    <2>5. j = i /\ h = k + 1
      BY <1>1, <1>5, <1>9, <2>4, PointersDiffer, SMTT(30)
    <2> QED
      BY <2>3, <2>5
  <1> QED
    BY <1>4, <1>6, <1>7, <1>8, <1>9

\* Where the elements of s are in t, which has one more, and the other way about.
LEMMA Elsewhere ==
    ASSUME NEW s, NEW t, NEW k \in 0..Len(s), NEW x, Len(s) \in Nat, HasInserted(t, s, k, x)
    PROVE  /\ Len(t) = Len(s) + 1 /\ k + 1 \in 1..Len(t) /\ t[k + 1] = x
           /\ \A j \in 1..Len(s) : \E h \in 1..Len(t) : h # k + 1 /\ t[h] = s[j]
           /\ \A h \in 1..Len(t) : h # k + 1 => \E j \in 1..Len(s) : t[h] = s[j]
           /\ \A i, j \in 1..Len(s) : i # j =>
                \E g, h \in 1..Len(t) : g # h /\ t[g] = s[i] /\ t[h] = s[j]
           /\ \A g, h \in 1..Len(t) : g # h /\ g # k + 1 /\ h # k + 1 =>
                \E i, j \in 1..Len(s) : i # j /\ t[g] = s[i] /\ t[h] = s[j]
  <1> DEFINE n == Len(s)
             to(j) == IF j <= k THEN j ELSE j + 1
             from(h) == IF h <= k THEN h ELSE h - 1
  <1>1. /\ Len(t) = n + 1 /\ n \in Nat /\ k \in 0..n
        /\ \A h \in 1..(n + 1) : t[h] = IF h <= k THEN s[h] ELSE IF h = k + 1 THEN x ELSE s[h - 1]
    BY DEF HasInserted
  <1>2. k + 1 \in 1..(n + 1) /\ ~(k + 1 <= k)
    BY <1>1
  <1>3. ASSUME NEW j \in 1..n
        PROVE  to(j) \in 1..(n + 1) /\ to(j) # k + 1 /\ t[to(j)] = s[j]
    <2>1. CASE j <= k
      <3>1. to(j) = j /\ j \in 1..(n + 1) /\ j # k + 1
        BY <1>1, <2>1
      <3> HIDE DEF to, n
      <3> QED
        BY <1>1, <2>1, <3>1
    <2>2. CASE ~(j <= k)
      <3>1. /\ to(j) = j + 1 /\ j + 1 \in 1..(n + 1) /\ j + 1 # k + 1 /\ ~(j + 1 <= k)
            /\ (j + 1) - 1 = j
        BY <1>1, <2>2
      <3> HIDE DEF to, n
      <3> QED
        BY <1>1, <3>1
    <2> QED
      BY <2>1, <2>2
  <1>4. ASSUME NEW h \in 1..(n + 1), h # k + 1
        PROVE  from(h) \in 1..n /\ t[h] = s[from(h)]
    <2>1. CASE h <= k
      <3>1. from(h) = h /\ h \in 1..n
        BY <1>1, <2>1
      <3> HIDE DEF from, n
      <3> QED
        BY <1>1, <2>1, <3>1
    <2>2. CASE ~(h <= k)
      <3>1. from(h) = h - 1 /\ h - 1 \in 1..n
        BY <1>1, <1>4, <2>2
      <3> HIDE DEF from, n
      <3> QED
        BY <1>1, <1>4, <2>2, <3>1
    <2> QED
      BY <2>1, <2>2
  <1>5. \A i, j \in 1..n : i # j => to(i) # to(j)
    BY <1>1
  <1>6. \A g, h \in 1..(n + 1) : g # h /\ g # k + 1 /\ h # k + 1 => from(g) # from(h)
    BY <1>1
  <1> HIDE DEF to, from, n
  <1>7. t[k + 1] = x
    BY <1>1, <1>2
  <1>8. \A j \in 1..n : \E h \in 1..(n + 1) : h # k + 1 /\ t[h] = s[j]
    BY <1>3
  <1>9. \A h \in 1..(n + 1) : h # k + 1 => \E j \in 1..n : t[h] = s[j]
    BY <1>4
  <1>10. \A i, j \in 1..n : i # j =>
            \E g, h \in 1..(n + 1) : g # h /\ t[g] = s[i] /\ t[h] = s[j]
    BY <1>3, <1>5
  <1>11. \A g, h \in 1..(n + 1) : g # h /\ g # k + 1 /\ h # k + 1 =>
            \E i, j \in 1..n : i # j /\ t[g] = s[i] /\ t[h] = s[j]
    BY <1>4, <1>6
  <1>12. Len(t) = n + 1 /\ Len(s) = n
    BY <1>1 DEF n
  <1>13. /\ Len(t) = Len(s) + 1 /\ k + 1 \in 1..Len(t) /\ t[k + 1] = x
         /\ \A j \in 1..Len(s) : \E h \in 1..Len(t) : h # k + 1 /\ t[h] = s[j]
         /\ \A h \in 1..Len(t) : h # k + 1 => \E j \in 1..Len(s) : t[h] = s[j]
    BY <1>2, <1>7, <1>8, <1>9, <1>12
  <1>14. \A i, j \in 1..Len(s) : i # j =>
            \E g, h \in 1..Len(t) : g # h /\ t[g] = s[i] /\ t[h] = s[j]
    BY <1>10, <1>12
  <1>15. \A g, h \in 1..Len(t) : g # h /\ g # k + 1 /\ h # k + 1 =>
            \E i, j \in 1..Len(s) : i # j /\ t[g] = s[i] /\ t[h] = s[j]
    BY <1>11, <1>12
  <1> QED
    BY <1>13, <1>14, <1>15

LEMMA TakenOut ==
    ASSUME NEW s, NEW t, NEW k \in 0..Len(s), NEW x, Len(s) \in Nat, HasInserted(t, s, k, x),
           NEW h \in 1..Len(t), h # k + 1
    PROVE  \E j \in 1..Len(s) : t[h] = s[j]
  BY Elsewhere

LEMMA EmptySums ==
    ASSUME NEW a \in Seq(MajorSet), NEW b \in Seq(MajorSet), NEW k \in 0..Len(a),
           NEW m \in MajorSet, m.minors = <<>>, HasInserted(b, a, k, m)
    PROVE  /\ InUse(b) = InUse(a) /\ AllBytes(b) = AllBytes(a) + Bytes(m)
           /\ InUse(a) \in Int /\ AllBytes(a) \in Int /\ Bytes(m) \in Int
  <1> DEFINE n == Len(a)
  <1>1. /\ Len(b) = n + 1 /\ n \in Nat /\ k \in 0..n
        /\ \A h \in 1..(n + 1) : b[h] = IF h <= k THEN a[h] ELSE IF h = k + 1 THEN m ELSE a[h - 1]
    BY DEF HasInserted
  <1>2. Total(Sizes(m)) = 0
    <2>1. Sizes(m) \in Seq(Int) /\ Len(Sizes(m)) = 0
      BY SumsFacts
    <2>2. Sizes(m) = <<>>
      BY <2>1
    <2> QED
      BY <2>2, TotalEmpty
  <1>3. /\ PerMajor(a) \in Seq(Int) /\ Len(PerMajor(a)) = n
        /\ PerRun(a) \in Seq(Int) /\ Len(PerRun(a)) = n
        /\ \A j \in 1..n : PerMajor(a)[j] = Total(Sizes(a[j])) /\ PerRun(a)[j] = Bytes(a[j])
        /\ InUse(a) = Total(PerMajor(a)) /\ AllBytes(a) = Total(PerRun(a))
    BY PerMajorIs
  <1>4. /\ PerMajor(b) \in Seq(Int) /\ Len(PerMajor(b)) = n + 1
        /\ PerRun(b) \in Seq(Int) /\ Len(PerRun(b)) = n + 1
        /\ \A j \in 1..(n + 1) : PerMajor(b)[j] = Total(Sizes(b[j])) /\ PerRun(b)[j] = Bytes(b[j])
        /\ InUse(b) = Total(PerMajor(b)) /\ AllBytes(b) = Total(PerRun(b))
    BY <1>1, PerMajorIs
  <1>5. Bytes(m) \in Int
    BY MajorFacts
  <1> DEFINE s == PerMajor(a)
             t == PerMajor(b)
             u == PerRun(a)
             v == PerRun(b)
  <1> HIDE DEF n, s, t, u, v
  <1>6. ASSUME NEW h \in 1..(n + 1)
        PROVE  /\ t[h] = IF h <= k THEN s[h] ELSE IF h = k + 1 THEN 0 ELSE s[h - 1]
               /\ v[h] = IF h <= k THEN u[h] ELSE IF h = k + 1 THEN Bytes(m) ELSE u[h - 1]
    <2>0. t[h] = Total(Sizes(b[h])) /\ v[h] = Bytes(b[h])
      BY <1>4 DEF t, v
    <2>1. CASE h <= k
      <3>1. h \in 1..n
        BY <1>1, <2>1
      <3> QED
        BY <1>1, <1>3, <2>0, <2>1, <3>1 DEF s, u
    <2>2. CASE h = k + 1
      <3>1. ~(h <= k)
        BY <1>1, <2>2
      <3> QED
        BY <1>1, <1>2, <2>0, <2>2, <3>1
    <2>3. CASE h > k + 1
      <3>1. h - 1 \in 1..n /\ ~(h <= k) /\ h # k + 1
        BY <1>1, <2>3
      <3>2. b[h] = a[h - 1]
        BY <1>1, <3>1
      <3> QED
        BY <1>3, <2>0, <3>1, <3>2 DEF s, u
    <2> QED
      BY <1>1, <2>1, <2>2, <2>3
  <1>7. Total(t) = Total(s) + 0
    <2>1. s \in Seq(Int) /\ t \in Seq(Int) /\ k \in 0..Len(s) /\ Len(t) = Len(s) + 1 /\ 0 \in Int
      BY <1>1, <1>3, <1>4 DEF s, t
    <2>2. \A h \in 1..Len(t) : t[h] = IF h <= k THEN s[h] ELSE IF h = k + 1 THEN 0 ELSE s[h - 1]
      BY <1>4, <1>6 DEF t
    <2> QED
      BY <2>1, <2>2, TotalInsert
  <1>8. Total(v) = Total(u) + Bytes(m)
    <2>1. u \in Seq(Int) /\ v \in Seq(Int) /\ k \in 0..Len(u) /\ Len(v) = Len(u) + 1
      BY <1>1, <1>3, <1>4 DEF u, v
    <2>2. \A h \in 1..Len(v) :
            v[h] = IF h <= k THEN u[h] ELSE IF h = k + 1 THEN Bytes(m) ELSE u[h - 1]
      BY <1>4, <1>6 DEF v
    <2> QED
      BY <1>5, <2>1, <2>2, TotalInsert
  <1>9. Total(s) \in Int /\ Total(u) \in Int
    BY <1>3, TotalInt DEF s, u
  <1> QED
    BY <1>3, <1>4, <1>5, <1>7, <1>8, <1>9 DEF s, t, u, v

LEMMA EmptyBlocks ==
    ASSUME NEW a \in Seq(MajorSet), NEW b \in Seq(MajorSet), NEW k \in 0..Len(a),
           NEW m \in MajorSet, m.minors = <<>>, HasInserted(b, a, k, m)
    PROVE  BlocksOf(b) = BlocksOf(a) /\ Kept(a, b)
  <1>1. /\ b[k + 1] = m
        /\ \A j \in 1..Len(a) : \E h \in 1..Len(b) : b[h] = a[j]
        /\ \A h \in 1..Len(b) : h # k + 1 => \E j \in 1..Len(a) : b[h] = a[j]
    <2>1. /\ Len(b) = Len(a) + 1 /\ k + 1 \in 1..Len(b) /\ b[k + 1] = m
          /\ \A j \in 1..Len(a) : \E h \in 1..Len(b) : h # k + 1 /\ b[h] = a[j]
          /\ \A h \in 1..Len(b) : h # k + 1 => \E j \in 1..Len(a) : b[h] = a[j]
      BY Elsewhere
    <2> QED
      BY <2>1
  <1>2. ASSUME NEW c \in BlocksOf(a)
        PROVE  c \in BlocksOf(b)
    <2>1. PICK j \in 1..Len(a) : \E l \in 1..Len(a[j].minors) : c = Block(a[j].minors[l])
      BY <1>2, BlocksOfIs
    <2>2. PICK h \in 1..Len(b) : b[h] = a[j]
      BY <1>1
    <2> QED
      BY <2>1, <2>2, BlocksOfIs
  <1>3. ASSUME NEW c \in BlocksOf(b)
        PROVE  c \in BlocksOf(a)
    <2>1. PICK h \in 1..Len(b) : \E l \in 1..Len(b[h].minors) : c = Block(b[h].minors[l])
      BY <1>3, BlocksOfIs
    <2>2. h # k + 1
      <3>1. Len(m.minors) = 0
        OBVIOUS
      <3> QED
        BY <1>1, <2>1, <3>1
    <2>3. PICK j \in 1..Len(a) : b[h] = a[j]
      BY <1>1, <2>2
    <2> QED
      BY <2>1, <2>3, BlocksOfIs
  <1>4. Kept(a, b)
    <2>1. ASSUME NEW j \in 1..Len(a), NEW l \in 1..Len(a[j].minors)
          PROVE  \E h \in 1..Len(b) : \E g \in 1..Len(b[h].minors) : b[h].minors[g] = a[j].minors[l]
      <3>1. PICK h \in 1..Len(b) : b[h] = a[j]
        BY <1>1
      <3> QED
        BY <3>1
    <2> QED
      BY <2>1 DEF Kept
  <1> QED
    BY <1>2, <1>3, <1>4

\* An empty major taken out of a list, or put into it.
LEMMA EmptySound ==
    ASSUME NEW a \in Seq(MajorSet), NEW b \in Seq(MajorSet), NEW k \in 0..Len(a),
           NEW m \in MajorSet, HasInserted(b, a, k, m)
    PROVE  /\ SoundList(b) => SoundList(a)
           /\ SoundList(a) /\ Sound(m) /\ (\A j \in 1..Len(a) : PagesOf(a[j]) \cap PagesOf(m) = {})
                => SoundList(b)
  <1>1. /\ b[k + 1] = m
        /\ \A j \in 1..Len(a) : \E h \in 1..Len(b) : b[h] = a[j]
        /\ \A h \in 1..Len(b) : h # k + 1 => \E j \in 1..Len(a) : b[h] = a[j]
        /\ \A i, j \in 1..Len(a) : i # j =>
             \E g, h \in 1..Len(b) : g # h /\ b[g] = a[i] /\ b[h] = a[j]
        /\ \A g, h \in 1..Len(b) : g # h /\ g # k + 1 /\ h # k + 1 =>
             \E i, j \in 1..Len(a) : i # j /\ b[g] = a[i] /\ b[h] = a[j]
    BY Elsewhere
  <1>2. ASSUME SoundList(b)
        PROVE  SoundList(a)
    <2>1. \A j \in 1..Len(a) : Sound(a[j])
      <3> TAKE j \in 1..Len(a)
      <3>1. PICK h \in 1..Len(b) : b[h] = a[j]
        BY <1>1
      <3> QED
        BY <1>2, <3>1 DEF SoundList
    <2>2. ASSUME NEW i \in 1..Len(a), NEW j \in 1..Len(a), i # j
          PROVE  PagesOf(a[i]) \cap PagesOf(a[j]) = {}
      <3>1. PICK g, h \in 1..Len(b) : g # h /\ b[g] = a[i] /\ b[h] = a[j]
        BY <1>1, <2>2
      <3>2. PagesOf(b[g]) \cap PagesOf(b[h]) = {}
        BY <1>2, <3>1 DEF SoundList, PagesApart
      <3> QED
        BY <3>1, <3>2
    <2> QED
      BY <2>1, <2>2 DEF SoundList, PagesApart
  <1>3. ASSUME SoundList(a), Sound(m), \A j \in 1..Len(a) : PagesOf(a[j]) \cap PagesOf(m) = {}
        PROVE  SoundList(b)
    <2>1. \A h \in 1..Len(b) : Sound(b[h])
      <3> TAKE h \in 1..Len(b)
      <3>1. CASE h = k + 1
        BY <1>1, <1>3, <3>1
      <3>2. CASE h # k + 1
        <4>1. PICK j \in 1..Len(a) : b[h] = a[j]
          BY <1>1, <3>2
        <4> QED
          BY <1>3, <4>1 DEF SoundList
      <3> QED
        BY <3>1, <3>2
    <2>2. ASSUME NEW g \in 1..Len(b), NEW h \in 1..Len(b), g # h
          PROVE  PagesOf(b[g]) \cap PagesOf(b[h]) = {}
      <3>1. CASE g = k + 1
        <4>1. PICK j \in 1..Len(a) : b[h] = a[j]
          BY <1>1, <2>2, <3>1
        <4>2. PagesOf(a[j]) \cap PagesOf(m) = {}
          BY <1>3
        <4> QED
          BY <1>1, <3>1, <4>1, <4>2
      <3>2. CASE h = k + 1
        <4>1. PICK j \in 1..Len(a) : b[g] = a[j]
          BY <1>1, <2>2, <3>2
        <4>2. PagesOf(a[j]) \cap PagesOf(m) = {}
          BY <1>3
        <4> QED
          BY <1>1, <3>2, <4>1, <4>2
      <3>3. CASE g # k + 1 /\ h # k + 1
        <4>1. PICK i, j \in 1..Len(a) : i # j /\ b[g] = a[i] /\ b[h] = a[j]
          BY <1>1, <2>2, <3>3
        <4>2. PagesOf(a[i]) \cap PagesOf(a[j]) = {}
          BY <1>3, <4>1 DEF SoundList, PagesApart
        <4> QED
          BY <4>1, <4>2
      <3> QED
        BY <3>1, <3>2, <3>3
    <2> QED
      BY <2>1, <2>2 DEF SoundList, PagesApart
  <1> QED
    BY <1>2, <1>3

\* A major in a list replaced by another one of the same pages.
LEMMA ReplaceSound ==
    ASSUME NEW list, SoundList(list), NEW i \in 1..Len(list), NEW o, Sound(o),
           o.page = list[i].page, o.pages = list[i].pages
    PROVE  /\ [list EXCEPT ![i] = o] \in Seq(MajorSet) /\ Len([list EXCEPT ![i] = o]) = Len(list)
           /\ [list EXCEPT ![i] = o][i] = o
           /\ \A j \in 1..Len(list) : j # i => [list EXCEPT ![i] = o][j] = list[j]
           /\ SoundList([list EXCEPT ![i] = o])
  <1> DEFINE new == [list EXCEPT ![i] = o]
  <1>1. list \in Seq(MajorSet) /\ o \in MajorSet
    BY DEF SoundList, Sound
  <1>2. /\ new \in Seq(MajorSet) /\ Len(new) = Len(list) /\ new[i] = o
        /\ \A j \in 1..Len(list) : j # i => new[j] = list[j]
    BY <1>1
  <1> HIDE DEF new
  <1>3. \A j \in 1..Len(list) : Sound(new[j])
    BY <1>2 DEF SoundList
  <1>4. \A j \in 1..Len(list) : PagesOf(new[j]) = PagesOf(list[j])
    <2>1. PagesOf(o) = PagesOf(list[i])
      BY DEF PagesOf
    <2> QED
      BY <1>2, <2>1
  <1>5. PagesApart(new)
    BY <1>2, <1>4 DEF SoundList, PagesApart
  <1>6. SoundList(new)
    BY <1>2, <1>3, <1>5 DEF SoundList
  <1> QED
    BY <1>2, <1>6 DEF new

\* kmalloc puts a block into a gap of a major of the list.
GapMinor(m, k, req) == Minor(GapStart(m, k), req)
Put(list, i, k, req) == [list EXCEPT ![i] = Inserted(list[i], k, req)]

LEMMA PutIs ==
    ASSUME NEW list, SoundList(list), NEW i \in 1..Len(list), NEW req \in Nat,
           NEW k \in Gaps(list[i], Padded(req))
    PROVE  /\ SoundList(Put(list, i, k, req))
           /\ Grown(list, Put(list, i, k, req), i, k, GapMinor(list[i], k, req))
           /\ GapMinor(list[i], k, req) \in MinorSet
           /\ GapMinor(list[i], k, req).size = Padded(req)
           /\ Block(GapMinor(list[i], k, req))
                = [ptr |-> Pointer(GapMinor(list[i], k, req)), size |-> req]
           /\ Put(list, i, k, req)[i].minors # <<>>
           /\ \A j \in 1..Len(list) : j # i => Put(list, i, k, req)[j] = list[j]
  <1> DEFINE m == list[i]
             o == Inserted(m, k, req)
             x == GapMinor(m, k, req)
             new == Put(list, i, k, req)
  <1>1. Sound(m) /\ list \in Seq(MajorSet)
    BY DEF SoundList
  <1>2. /\ Sound(o) /\ o.page = m.page /\ o.pages = m.pages
        /\ k \in 0..Len(m.minors) /\ GapStart(m, k) \in Nat
        /\ Len(o.minors) = Len(m.minors) + 1
        /\ \A j \in 1..(Len(m.minors) + 1) :
             o.minors[j] = IF j <= k THEN m.minors[j] ELSE IF j = k + 1 THEN x ELSE m.minors[j - 1]
    <2>1. k \in Gaps(m, Padded(req)) /\ x = Minor(GapStart(m, k), req)
      BY DEF GapMinor
    <2> HIDE DEF m, x
    <2> QED
      BY <1>1, <2>1, InsertedIs
  <1>3. HasInserted(o.minors, m.minors, k, x)
    BY <1>2 DEF HasInserted
  <1>4. x \in MinorSet /\ x.size = Padded(req) /\ x.req = req
    BY <1>2, NewMinorIs DEF GapMinor
  <1>5. /\ Len(new) = Len(list) /\ new[i] = o /\ SoundList(new)
        /\ \A j \in 1..Len(list) : j # i => new[j] = list[j]
    <2> HIDE DEF o
    <2>1. o.page = list[i].page /\ o.pages = list[i].pages /\ Sound(o)
      BY <1>2
    <2>2. new = [list EXCEPT ![i] = o]
      BY DEF o, Put
    <2>3. /\ [list EXCEPT ![i] = o] \in Seq(MajorSet) /\ Len([list EXCEPT ![i] = o]) = Len(list)
          /\ [list EXCEPT ![i] = o][i] = o
          /\ \A j \in 1..Len(list) : j # i => [list EXCEPT ![i] = o][j] = list[j]
          /\ SoundList([list EXCEPT ![i] = o])
      BY <2>1, ReplaceSound
    <2> HIDE DEF new
    <2> QED
      BY <2>2, <2>3
  <1>6. Grown(list, new, i, k, x)
    <2> HIDE DEF o
    <2> QED
      BY <1>2, <1>3, <1>5 DEF Grown, m
  <1>7. o.minors # <<>>
    <2>1. Len(m.minors) \in Nat
      BY <1>1, MajorFacts DEF Sound
    <2>2. Len(o.minors) # 0
      BY <1>2, <2>1
    <2> HIDE DEF o, m
    <2> QED
      BY <2>2
  <1> QED
    BY <1>4, <1>5, <1>6, <1>7 DEF Block

\* kfree takes a block out of a major of the list.
LEMMA DropIs ==
    ASSUME NEW list, SoundList(list), NEW i \in 1..Len(list), NEW k \in 1..Len(list[i].minors),
           NEW new, new = [list EXCEPT ![i] = Without(list[i], k)]
    PROVE  /\ SoundList(new) /\ Grown(new, list, i, k - 1, list[i].minors[k])
           /\ new \in Seq(MajorSet) /\ new[i] = Without(list[i], k)
           /\ Len(new[i].minors) = Len(list[i].minors) - 1
           /\ \A j \in 1..Len(list) : j # i => new[j] = list[j]
  <1> DEFINE m == list[i]
             o == Without(m, k)
             x == m.minors[k]
             n == Len(m.minors)
  <1>1. Sound(m) /\ list \in Seq(MajorSet) /\ n \in Nat
    <2>1. Sound(m) /\ list \in Seq(MajorSet)
      BY DEF SoundList
    <2> QED
      BY <2>1, MajorFacts DEF Sound
  <1>2. /\ Sound(o) /\ o.page = m.page /\ o.pages = m.pages
        /\ Len(o.minors) = n - 1
        /\ \A j \in 1..(n - 1) : o.minors[j] = IF j < k THEN m.minors[j] ELSE m.minors[j + 1]
    <2>1. k \in 1..Len(m.minors)
      OBVIOUS
    <2> HIDE DEF m
    <2> QED
      BY <1>1, <2>1, WithoutIs
  <1>3. /\ Len(new) = Len(list) /\ new[i] = o /\ SoundList(new) /\ new \in Seq(MajorSet)
        /\ \A j \in 1..Len(list) : j # i => new[j] = list[j]
    <2> HIDE DEF o
    <2>1. o.page = list[i].page /\ o.pages = list[i].pages /\ Sound(o)
      BY <1>2
    <2>2. new = [list EXCEPT ![i] = o]
      BY DEF o
    <2>3. /\ [list EXCEPT ![i] = o] \in Seq(MajorSet) /\ Len([list EXCEPT ![i] = o]) = Len(list)
          /\ [list EXCEPT ![i] = o][i] = o
          /\ \A j \in 1..Len(list) : j # i => [list EXCEPT ![i] = o][j] = list[j]
          /\ SoundList([list EXCEPT ![i] = o])
      BY <2>1, ReplaceSound
    <2> QED
      BY <2>2, <2>3
  <1>4. k \in 1..n
    OBVIOUS
  <1>5. HasInserted(m.minors, o.minors, k - 1, x)
    <2> HIDE DEF o, n
    <2>1. ASSUME NEW j \in 1..((n - 1) + 1)
          PROVE  m.minors[j] = IF j <= k - 1 THEN o.minors[j]
                               ELSE IF j = (k - 1) + 1 THEN x ELSE o.minors[j - 1]
      <3> HIDE DEF m
      <3>1. CASE j < k
        <4>1. j \in 1..(n - 1) /\ j <= k - 1
          BY <1>1, <1>4, <3>1
        <4> QED
          BY <1>2, <3>1, <4>1
      <3>2. CASE j = k
        <4>1. ~(j <= k - 1) /\ j = (k - 1) + 1
          BY <1>4, <3>2
        <4> QED
          BY <3>2, <4>1
      <3>3. CASE j > k
        <4>1. ~(j <= k - 1) /\ j # (k - 1) + 1 /\ j - 1 \in 1..(n - 1) /\ ~(j - 1 < k)
              /\ (j - 1) + 1 = j
          BY <1>1, <1>4, <3>3
        <4>2. o.minors[j - 1] = m.minors[j]
          BY <1>2, <4>1
        <4> QED
          BY <4>1, <4>2
      <3> QED
        BY <1>4, <3>1, <3>2, <3>3
    <2>2. Len(m.minors) = (n - 1) + 1
      BY <1>1 DEF n
    <2> QED
      BY <1>2, <2>1, <2>2 DEF HasInserted
  <1>6. k - 1 \in 0..Len(o.minors)
    BY <1>1, <1>2, <1>4
  <1> HIDE DEF o, n, x, m
  <1>7. Grown(new, list, i, k - 1, x)
    <2>1. list[i] = m /\ new[i] = o /\ Len(list) = Len(new) /\ i \in 1..Len(new)
      BY <1>3 DEF m
    <2> QED
      BY <1>2, <1>3, <1>5, <1>6, <2>1 DEF Grown
  <1> QED
    BY <1>2, <1>3, <1>7 DEF o, n, x, m

\* Two ways to write the list with one element more.
LEMMA AppendHas ==
    ASSUME NEW S, NEW s \in Seq(S), NEW x \in S
    PROVE  /\ HasInserted(Append(s, x), s, Len(s), x) /\ Append(s, x) \in Seq(S)
           /\ Len(s) \in 0..Len(s)
           /\ \A y \in S : [Append(s, x) EXCEPT ![Len(s) + 1] = y] = Append(s, y)
  <1>1. /\ Len(Append(s, x)) = Len(s) + 1 /\ Append(s, x) \in Seq(S) /\ Len(s) \in Nat
        /\ \A i \in 1..(Len(s) + 1) : Append(s, x)[i] = IF i <= Len(s) THEN s[i] ELSE x
    OBVIOUS
  <1>2. HasInserted(Append(s, x), s, Len(s), x)
    <2>1. \A i \in 1..(Len(s) + 1) : i <= Len(s) \/ i = Len(s) + 1
      BY <1>1
    <2> QED
      BY <1>1, <2>1 DEF HasInserted
  <1>3. ASSUME NEW y \in S
        PROVE  [Append(s, x) EXCEPT ![Len(s) + 1] = y] = Append(s, y)
    <2> DEFINE n == Len(s)
               t == Append(s, x)
               u == [t EXCEPT ![n + 1] = y]
               v == Append(s, y)
    <2>1. /\ v \in Seq(S) /\ Len(v) = n + 1 /\ n \in Nat
          /\ \A i \in 1..(n + 1) : v[i] = IF i <= n THEN s[i] ELSE y
      OBVIOUS
    <2>2. t \in Seq(S) /\ Len(t) = n + 1 /\ \A i \in 1..(n + 1) : i <= n => t[i] = s[i]
      BY <1>1
    <2> HIDE DEF n, t, v
    <2>3. n + 1 \in 1..Len(t) /\ \A i \in 1..(n + 1) : i <= n <=> i # n + 1
      BY <2>1, <2>2
    <2>4. /\ u \in Seq(S) /\ Len(u) = Len(t)
          /\ \A i \in 1..Len(t) : u[i] = IF i = n + 1 THEN y ELSE t[i]
      BY <2>2, <2>3
    <2> HIDE DEF u
    <2>5. \A i \in 1..Len(u) : u[i] = v[i]
      BY <2>1, <2>2, <2>3, <2>4
    <2>6. Len(u) = Len(v)
      BY <2>1, <2>2, <2>4
    <2>7. u = v
      BY <2>1, <2>4, <2>5, <2>6, SeqEqual
    <2> QED
      BY <2>7 DEF u, v, t, n
  <1> QED
    BY <1>1, <1>2, <1>3

LEMMA RemoveHas ==
    ASSUME NEW S, NEW s \in Seq(S), NEW i \in 1..Len(s), NEW t \in Seq(S), Len(t) = Len(s),
           \A j \in 1..Len(s) : j # i => t[j] = s[j]
    PROVE  /\ HasInserted(t, Removal(s, i), i - 1, t[i]) /\ Removal(s, i) \in Seq(S)
           /\ i - 1 \in 0..Len(Removal(s, i)) /\ Len(Removal(s, i)) = Len(s) - 1
           /\ \A j \in 1..Len(Removal(s, i)) : \E h \in 1..Len(s) :
                h # i /\ Removal(s, i)[j] = s[h]
  <1> DEFINE n == Len(s)
             r == Removal(s, i)
  <1>1. n \in Nat /\ i \in 1..n
    OBVIOUS
  <1>2. /\ r \in Seq(S) /\ Len(r) = n - 1
        /\ \A j \in 1..(n - 1) : r[j] = IF j < i THEN s[j] ELSE s[j + 1]
    BY RemoveSeq
  <1> HIDE DEF n, r
  <1>3. ASSUME NEW j \in 1..((n - 1) + 1)
        PROVE  t[j] = IF j <= i - 1 THEN r[j] ELSE IF j = (i - 1) + 1 THEN t[i] ELSE r[j - 1]
    <2>0. j \in 1..n /\ j \in 1..Len(s)
      BY <1>1 DEF n
    <2>1. CASE j < i
      <3>1. j \in 1..(n - 1) /\ j <= i - 1
        BY <1>1, <2>1
      <3>2. r[j] = s[j]
        BY <1>2, <2>1, <3>1
      <3>3. t[j] = s[j]
        <4>1. j # i
          BY <1>1, <2>1
        <4> QED
          BY <2>0, <4>1
      <3> QED
        BY <3>1, <3>2, <3>3
    <2>2. CASE j = i
      <3>1. ~(j <= i - 1) /\ j = (i - 1) + 1
        BY <1>1, <2>2
      <3> QED
        BY <2>2, <3>1
    <2>3. CASE j > i
      <3>1. ~(j <= i - 1) /\ j # (i - 1) + 1 /\ j - 1 \in 1..(n - 1) /\ ~(j - 1 < i)
            /\ (j - 1) + 1 = j /\ j # i
        BY <1>1, <2>3
      <3>2. r[j - 1] = s[j]
        BY <1>2, <3>1
      <3>3. t[j] = s[j]
        BY <2>0, <3>1
      <3> QED
        BY <3>1, <3>2, <3>3
    <2> QED
      BY <1>1, <2>1, <2>2, <2>3
  <1>4. Len(t) = (n - 1) + 1
    BY <1>1 DEF n
  <1>5. HasInserted(t, r, i - 1, t[i])
    BY <1>2, <1>3, <1>4 DEF HasInserted
  <1>6. i - 1 \in 0..(n - 1)
    BY <1>1
  <1>7. \A j \in 1..(n - 1) : \E h \in 1..n : h # i /\ r[j] = s[h]
    <2> TAKE j \in 1..(n - 1)
    <2>1. CASE j < i
      <3>1. j \in 1..n /\ j # i
        BY <1>1, <2>1
      <3> QED
        BY <1>2, <2>1, <3>1
    <2>2. CASE ~(j < i)
      <3>1. j + 1 \in 1..n /\ j + 1 # i
        BY <1>1, <2>2
      <3> QED
        BY <1>2, <2>2, <3>1
    <2> QED
      BY <2>1, <2>2
  <1> QED
    BY <1>2, <1>5, <1>6, <1>7 DEF n, r

-----------------------------------------------------------------------------
(* What kmalloc looks at, and the best bet it leaves.                      *)

IsBest(f, n, s) ==
    f = [i \in 0..n |-> IF i = 0 THEN [page |-> l_bestBet, free |-> BestFree]
                        ELSE Better(f[i - 1], s[i])]

LEMMA BestDefined ==
    ASSUME NEW n \in Nat, NEW s
    PROVE  \E f : IsBest(f, n, s)
  <1> DEFINE none == [page |-> l_bestBet, free |-> BestFree]
             step(b, x) == Better(b, x)
             G == {m \in Nat : \E f : IsBest(f, m, s)}
  <1>1. 0 \in G
    <2>1. \A i \in 0..0 : i = 0
      OBVIOUS
    <2>2. IsBest([i \in 0..0 |-> none], 0, s)
      BY <2>1 DEF IsBest
    <2> QED
      BY <2>2
  <1>2. ASSUME NEW k \in 0..(n - 1), k \in G
        PROVE  k + 1 \in G
    <2>1. PICK g : IsBest(g, k, s)
      BY <1>2
    <2> DEFINE m == k + 1
               h == [i \in 0..m |-> IF i = m THEN step(g[k], s[m]) ELSE g[i]]
    <2>2. \A i \in 0..k : g[i] = IF i = 0 THEN none ELSE step(g[i - 1], s[i])
      BY <2>1 DEF IsBest
    <2> HIDE DEF step, none
    <2>3. \A i \in 0..m : h[i] = IF i = 0 THEN none ELSE step(h[i - 1], s[i])
      <3> TAKE i \in 0..m
      <3>1. h[i] = IF i = m THEN step(g[k], s[m]) ELSE g[i]
        OBVIOUS
      <3>2. i # 0 => i - 1 \in 0..m /\ i - 1 # m
        OBVIOUS
      <3>3. i # 0 => h[i - 1] = g[i - 1]
        BY <3>2
      <3> HIDE DEF h
      <3>4. i # m => i \in 0..k
        OBVIOUS
      <3>5. i = m => i # 0 /\ i - 1 = k
        OBVIOUS
      <3> QED
        BY <2>2, <3>1, <3>3, <3>4, <3>5
    <2>4. h = [i \in 0..m |-> IF i = 0 THEN none ELSE step(h[i - 1], s[i])]
      BY <2>3
    <2>5. IsBest(h, m, s)
      <3> HIDE DEF h
      <3> QED
        BY <2>4, Zenon DEF IsBest, step, none
    <2> QED
      BY <2>5
  <1>3. n \in G
    <2> HIDE DEF G
    <2>1. 0..n \subseteq G
      BY <1>1, <1>2, UpTo
    <2> QED
      BY <2>1
  <1> QED
    BY <1>3

\* The best bet stays, or becomes one of the majors that were looked at.
LEMMA BetAfterIs ==
    ASSUME NEW seen, Len(seen) \in Nat
    PROVE  BetAfter(seen) \in {l_bestBet} \cup {seen[i].page : i \in 1..Len(seen)}
  <1> DEFINE n == Len(seen)
             best == CHOOSE f : f = [i \in 0..n |->
                       IF i = 0 THEN [page |-> l_bestBet, free |-> BestFree]
                       ELSE Better(f[i - 1], seen[i])]
             P == {l_bestBet} \cup {seen[i].page : i \in 1..n}
  <1>1. BetAfter(seen) = best[n].page
    BY Zenon DEF BetAfter
  <1>2. best = [i \in 0..n |-> IF i = 0 THEN [page |-> l_bestBet, free |-> BestFree]
                               ELSE Better(best[i - 1], seen[i])]
    <2>1. \E f : IsBest(f, n, seen)
      BY BestDefined
    <2> QED
      BY <2>1, Zenon DEF IsBest
  <1> HIDE DEF best
  <1>3. /\ best[0] = [page |-> l_bestBet, free |-> BestFree]
        /\ \A i \in 1..n : best[i] = Better(best[i - 1], seen[i])
    <2>1. 0 \in 0..n /\ \A i \in 1..n : i \in 0..n /\ i # 0
      OBVIOUS
    <2> QED
      BY <1>2, <2>1
  <1> DEFINE G == {i \in 0..n : best[i].page \in P}
  <1>4. 0 \in G
    <2>1. best[0].page = l_bestBet
      BY <1>3
    <2> QED
      BY <2>1
  <1>5. ASSUME NEW i \in 0..(n - 1), i \in G
        PROVE  i + 1 \in G
    <2>1. i + 1 \in 1..n /\ (i + 1) - 1 = i /\ i + 1 \in 0..n
      OBVIOUS
    <2>2. best[i + 1] = Better(best[i], seen[i + 1])
      BY <1>3, <2>1
    <2>3. best[i + 1].page \in {best[i].page, seen[i + 1].page}
      BY <2>2 DEF Better
    <2>4. seen[i + 1].page \in P
      BY <2>1
    <2> HIDE DEF P, n
    <2> QED
      BY <1>5, <2>1, <2>3, <2>4
  <1>6. n \in 0..n
    OBVIOUS
  <1> HIDE DEF G
  <1>7. 0..n \subseteq G
    BY <1>4, <1>5, UpTo
  <1>8. n \in G
    BY <1>6, <1>7
  <1> QED
    BY <1>1, <1>8 DEF G

\* kmalloc looks at majors of the list, and at every one of them.
LEMMA OrderIs ==
    ASSUME SoundList(majors), IsBet(majors, l_bestBet), NEW size \in Nat
    PROVE  /\ Order(size) \in Seq(1..Len(majors)) /\ Len(Order(size)) \in Nat
           /\ \A k \in 1..Len(Order(size)) : Order(size)[k] \in 1..Len(majors)
           /\ \A i \in 1..Len(majors) : \E k \in 1..Len(Order(size)) : Order(size)[k] = i
  <1> DEFINE n == Len(majors)
             all == [i \in 1..n |-> i]
             first == SubSeq(all, BestBetAt, n)
  <1>1. n \in Nat
    BY ListFacts
  <1>2. all \in Seq(1..n) /\ Len(all) = n /\ \A i \in 1..n : all[i] = i
    BY <1>1
  <1>3. CASE FromBest(size)
    <2>1. l_bestBet # Null
      <3>1. SUFFICES ASSUME l_bestBet = Null PROVE FALSE
        OBVIOUS
      <3>2. BestFree = 0
        BY <3>1 DEF BestFree
      <3>3. 0 > size + MinorHead
        BY <1>3, <3>2 DEF FromBest
      <3>4. MinorHead \in Nat
        BY ConstFacts
      <3> QED
        BY <3>3, <3>4
    <2>2. BestBetAt \in 1..n
      <3>1. \E i \in 1..n : majors[i].page = l_bestBet
        BY <2>1 DEF IsBet
      <3> QED
        BY <3>1 DEF BestBetAt
    <2>3. first \in Seq(1..n)
      <3>1. BestBetAt \in Int /\ n \in Int /\ \A i \in BestBetAt..n : all[i] \in 1..n
        BY <1>1, <1>2, <2>2
      <3> HIDE DEF n, all
      <3> QED
        BY <3>1, SubSeqProperties
    <2>4. Order(size) = first \o all
      BY <1>2, <1>3 DEF Order
    <2> DEFINE o == first \o all
               f == Len(first)
    <2>5. /\ o \in Seq(1..n) /\ Len(o) = f + n /\ f \in Nat
          /\ \A k \in 1..(f + n) : o[k] = IF k <= f THEN first[k] ELSE all[k - f]
      <3> HIDE DEF first, n, all
      <3> QED
        BY <1>2, <2>3, ConcatProperties
    <2> HIDE DEF o, first, f
    <2>6. \A k \in 1..Len(o) : o[k] \in 1..n
      <3> DEFINE S == 1..n
      <3>1. o \in Seq(S)
        BY <2>5
      <3> HIDE DEF S, n
      <3>2. \A k \in 1..Len(o) : o[k] \in S
        BY <3>1
      <3> QED
        BY <3>2 DEF S
    <2>7. \A i \in 1..n : \E k \in 1..Len(o) : o[k] = i
      <3> TAKE i \in 1..n
      <3> HIDE DEF n, all
      <3>1. f + i \in 1..(f + n) /\ ~(f + i <= f) /\ (f + i) - f = i
        BY <1>1, <2>5
      <3>2. o[f + i] = i
        BY <1>2, <2>5, <3>1
      <3> QED
        BY <2>5, <3>1, <3>2
    <2> QED
      BY <1>1, <2>4, <2>5, <2>6, <2>7 DEF o
  <1>4. CASE ~FromBest(size)
    <2>1. Order(size) = all
      BY <1>4 DEF Order
    <2> QED
      BY <1>1, <1>2, <2>1
  <1> QED
    BY <1>3, <1>4

\* allocate_new_page: the pages are free, and there is room for the block.
LEMMA NewMajorIs ==
    ASSUME NEW req \in Nat, RunsOf(PagesFor(Padded(req))) # {},
           NEW m, m = NewMajor(Padded(req))
    PROVE  /\ Sound(m) /\ m.minors = <<>> /\ 0 \in Gaps(m, Padded(req))
           /\ PagesOf(m) \subseteq Pages \ Taken
           /\ Bytes(m) \in Nat
  <1> DEFINE size == Padded(req)
             need == size + MajorHead + MinorHead
             c == (need + PageSize - 1) \div PageSize
             n == PagesFor(size)
             R == RunsOf(n)
  <1>1. size \in Nat /\ MajorHead \in Nat /\ MinorHead \in Nat /\ need \in Nat
    BY ConstFacts DEF Padded
  <1>2. PageSize \in Nat \ {0} /\ PageSize \in Nat /\ PageSize >= 1
        /\ PageCount \in Nat /\ PageCount >= 1
    BY ConstFacts
  <1>3. c \in Int /\ c * PageSize >= need
    <2> DEFINE z == need + PageSize - 1
               r == z % PageSize
    <2>1. z \in Int
      BY <1>1, <1>2
    <2> HIDE DEF z, need
    <2>2. z \div PageSize \in Int /\ r \in 0..(PageSize - 1) /\ z = PageSize * (z \div PageSize) + r
      BY <1>2, <2>1, DivMod
    <2>3. c = z \div PageSize
      BY DEF z
    <2> HIDE DEF c, r
    <2>4. z = need + PageSize - 1
      BY DEF z
    <2>5. c \in Int /\ PageSize * c = c * PageSize /\ c * PageSize \in Int
      BY <1>2, <2>2, <2>3
    <2>6. z = c * PageSize + r
      BY <2>2, <2>3, <2>5
    <2> QED
      BY <1>1, <1>2, <2>2, <2>4, <2>5, <2>6
  <1>4. n \in Nat /\ n >= 1 /\ n >= c
    <2>1. n = Max({PageCount, c})
      BY DEF PagesFor
    <2> HIDE DEF c, n
    <2>2. n \in {PageCount, c} /\ n >= PageCount /\ n >= c
      <3>1. PageCount \in Int /\ c \in Int
        BY <1>2, <1>3
      <3>2. /\ Max({PageCount, c}) \in {PageCount, c}
            /\ Max({PageCount, c}) >= PageCount /\ Max({PageCount, c}) >= c
        BY <3>1, MaxPair
      <3> QED
        BY <2>1, <3>2
    <2> QED
      BY <1>2, <1>3, <2>2
  <1>5. n * PageSize \in Nat /\ n * PageSize >= need
    <2> HIDE DEF n, c, need
    <2>1. c * PageSize <= n * PageSize /\ c * PageSize \in Int /\ n * PageSize \in Int
      BY <1>2, <1>3, <1>4, MulMonotone
    <2> QED
      BY <1>1, <1>3, <2>1
  <1>6. Min(R) \in R /\ R \subseteq Pages
    <2>1. R \subseteq Pages
      BY DEF RunsOf
    <2>2. R \in SUBSET Nat /\ R # {}
      BY <2>1, ConstFacts
    <2> HIDE DEF R
    <2> QED
      BY <2>1, <2>2, MinIs
  <1> DEFINE p == Min(R)
  <1>7. p \in Nat /\ p # Null /\ p..(p + n - 1) \subseteq Pages \ Taken
    <2>1. p \in Pages /\ p..(p + n - 1) \subseteq Pages \ Taken
      BY <1>6 DEF RunsOf
    <2> HIDE DEF p
    <2> QED
      BY <2>1, ConstFacts DEF Null
  <1>8. m = [page |-> p, pages |-> n, usage |-> MajorHead, minors |-> <<>>]
    BY DEF NewMajor
  <1> HIDE DEF p, n, size, c
  <1>9. m.page = p /\ m.pages = n /\ m.usage = MajorHead /\ m.minors = <<>>
    BY <1>8
  <1>10. m \in MajorSet
    <2>1. <<>> \in Seq(MinorSet)
      OBVIOUS
    <2> QED
      BY <1>1, <1>4, <1>7, <1>8, <2>1 DEF MajorSet
  <1>11. Total(Spans(m)) = 0
    <2>1. Len(m.minors) = 0
      BY <1>9
    <2>2. Spans(m) \in Seq(Int) /\ Len(Spans(m)) = 0
      BY <1>10, <2>1, SumsFacts
    <2>3. Spans(m) = <<>>
      BY <2>2
    <2> QED
      BY <2>3, TotalEmpty
  <1>12. Sound(m)
    <2>1. 1..Len(m.minors) = {}
      BY <1>9
    <2>2. m.usage = MajorHead + Total(Spans(m))
      BY <1>1, <1>9, <1>11
    <2>3. InOrder(m)
      BY <1>4, <1>9, <2>1, <2>2 DEF InOrder
    <2> QED
      BY <1>7, <1>9, <1>10, <2>3 DEF Sound
  <1>13. Bytes(m) = n * PageSize /\ Start(m) \in Nat
    BY <1>9, <1>10, MajorFacts DEF Bytes
  <1>14. 0 \in Gaps(m, size)
    <2>1. Len(m.minors) = 0
      BY <1>9
    <2>2. GapEnd(m, 0) = Start(m) + Bytes(m) /\ GapStart(m, 0) = Start(m) + MajorHead
      BY <2>1 DEF GapEnd, GapStart
    <2> DEFINE b == Bytes(m)
               a == Start(m)
    <2>3. a \in Nat /\ b \in Nat /\ b >= need
      BY <1>5, <1>13
    <2> HIDE DEF a, b
    <2>4. (a + b) - (a + MajorHead) >= size + MinorHead
      BY <1>1, <2>3
    <2>5. GapEnd(m, 0) - GapStart(m, 0) >= size + MinorHead
      BY <2>2, <2>4 DEF a, b
    <2>6. 0 \in 0..Len(m.minors)
      BY <2>1
    <2> QED
      BY <2>5, <2>6 DEF Gaps
  <1>15. PagesOf(m) \subseteq Pages \ Taken
    BY <1>7, <1>9 DEF PagesOf
  <1> QED
    BY <1>5, <1>9, <1>12, <1>13, <1>14, <1>15 DEF size

-----------------------------------------------------------------------------
(* kmalloc.                                                                *)

\* The places in the order of the search at which the search can end.
Hits(size) == {k \in 1..Len(Order(size)) : HasRoom(majors[Order(size)[k]], size)}

\* The block goes into a major that was there.
LEMMA PlacedHit ==
    ASSUME SoundList(majors), IsBet(majors, l_bestBet), NEW req \in Nat, Hits(Padded(req)) # {}
    PROVE  \E i \in 1..Len(majors) : \E k \in Gaps(majors[i], Padded(req)) :
             /\ Placed(req).list = [majors EXCEPT ![i] = Inserted(majors[i], k, req)]
             /\ Placed(req).at = GapStart(majors[i], k) /\ Placed(req).more = 0
             /\ IsBet(majors, Placed(req).bet)
  <1> DEFINE size == Padded(req)
             order == Order(size)
             hits == {k \in 1..Len(order) : HasRoom(majors[order[k]], size)}
             h == Min(hits)
             i == order[h]
             k == Min(Gaps(majors[i], size))
             looks == [l \in 1..Len(order) |-> majors[order[l]]]
             seen == SubSeq(looks, 1, h)
  <1>0. hits = Hits(size)
    BY DEF Hits
  <1>1. Placed(req) = [list |-> [majors EXCEPT ![i] = Inserted(majors[i], k, req)],
                       bet |-> BetAfter(seen), at |-> GapStart(majors[i], k), more |-> 0]
    <2>1. hits # {}
      BY <1>0
    <2> QED
      BY <2>1 DEF Placed
  <1>2. h \in hits
    <2>1. hits \in SUBSET Nat /\ hits # {}
      BY <1>0
    <2> HIDE DEF hits
    <2> QED
      BY <2>1, MinIs
  <1>3. size \in Nat
    BY ConstFacts DEF Padded
  <1>4. /\ Len(order) \in Nat
        /\ \A l \in 1..Len(order) : order[l] \in 1..Len(majors)
    <2> HIDE DEF size
    <2> QED
      BY <1>3, OrderIs
  <1>5. h \in 1..Len(order) /\ HasRoom(majors[i], size) /\ i \in 1..Len(majors)
    <2>1. h \in 1..Len(order) /\ HasRoom(majors[order[h]], size)
      <3> HIDE DEF h, order
      <3> QED
        BY <1>2
    <2> HIDE DEF h, order
    <2> QED
      BY <1>4, <2>1
  <1> HIDE DEF size, order, hits, h, i
  <1>6. k \in Gaps(majors[i], size)
    <2> DEFINE g == Gaps(majors[i], size)
    <2>1. g # {}
      BY <1>5 DEF HasRoom
    <2>2. g \in SUBSET Nat
      BY DEF Gaps
    <2> HIDE DEF g
    <2>3. Min(g) \in g
      BY <2>1, <2>2, MinIs
    <2> QED
      BY <2>3 DEF g
  <1>7. IsBet(majors, BetAfter(seen))
    <2>1. looks \in Seq(MajorSet)
      <3>1. \A l \in 1..Len(order) : majors[order[l]] \in MajorSet
        BY <1>4, ListFacts
      <3> QED
        BY <1>4, <3>1
    <2>2. Len(looks) = Len(order) /\ \A l \in 1..Len(order) : looks[l] = majors[order[l]]
      BY <1>4
    <2>3. h \in Nat /\ h >= 1 /\ h <= Len(order)
      BY <1>4, <1>5
    <2> HIDE DEF looks, seen
    <2>4. /\ seen \in Seq(MajorSet) /\ Len(seen) = h
          /\ \A l \in 1..h : seen[l] = looks[l]
      <3>1. 1 \in Int /\ h \in Int /\ \A l \in 1..h : looks[l] \in MajorSet
        BY <1>4, <2>1, <2>2, <2>3
      <3>2. /\ seen \in Seq(MajorSet) /\ Len(seen) = IF 1 <= h THEN h - 1 + 1 ELSE 0
            /\ \A l \in 1..(h - 1 + 1) : seen[l] = looks[1 + l - 1]
        BY <2>1, <3>1, SubSeqProperties DEF seen
      <3> QED
        BY <2>3, <3>2
    <2>5. \A l \in 1..h : \E j \in 1..Len(majors) : seen[l].page = majors[j].page
      <3> TAKE l \in 1..h
      <3>1. l \in 1..Len(order)
        BY <1>4, <2>3
      <3> QED
        BY <1>4, <2>2, <2>4, <3>1
    <2>6. BetAfter(seen) \in {l_bestBet} \cup {seen[l].page : l \in 1..Len(seen)}
      BY <2>3, <2>4, BetAfterIs
    <2> QED
      BY <2>4, <2>5, <2>6 DEF IsBet
  <1> HIDE DEF k, seen
  <1>8. /\ Placed(req).list = [majors EXCEPT ![i] = Inserted(majors[i], k, req)]
        /\ Placed(req).at = GapStart(majors[i], k) /\ Placed(req).more = 0
        /\ Placed(req).bet = BetAfter(seen)
    BY <1>1
  <1> QED
    BY <1>5, <1>6, <1>7, <1>8 DEF size

\* No major has room: the block goes into a new one.
LEMMA PlacedNew ==
    ASSUME SoundList(majors), IsBet(majors, l_bestBet), NEW req \in Nat, Hits(Padded(req)) = {},
           NEW m \in MajorSet, m = NewMajor(Padded(req))
    PROVE  /\ Placed(req).list = Append(majors, Inserted(m, 0, req))
           /\ Placed(req).at = GapStart(m, 0) /\ Placed(req).more = Bytes(m)
           /\ Placed(req).bet = m.page \/ IsBet(majors, Placed(req).bet)
  <1> DEFINE size == Padded(req)
             order == Order(size)
             hits == {k \in 1..Len(order) : HasRoom(majors[order[k]], size)}
             looks == [l \in 1..Len(order) |-> majors[order[l]]]
             last == majors[Len(majors)]
             sees == IF majors = <<>> \/ FreeIn(last) >= size + MinorHead
                     THEN Append(looks, m) ELSE looks
  <1>0. hits = {}
    BY DEF Hits
  <1>1. Placed(req) = [list |-> Append(majors, Inserted(m, 0, req)), bet |-> BetAfter(sees),
                       at |-> GapStart(m, 0), more |-> Bytes(m)]
    BY <1>0 DEF Placed
  <1>3. size \in Nat
    BY ConstFacts DEF Padded
  <1>4. /\ Len(order) \in Nat
        /\ \A l \in 1..Len(order) : order[l] \in 1..Len(majors)
    <2> HIDE DEF size
    <2> QED
      BY <1>3, OrderIs
  <1> HIDE DEF size, order, hits
  <1>5. looks \in Seq(MajorSet)
    <2>1. \A l \in 1..Len(order) : majors[order[l]] \in MajorSet
      BY <1>4, ListFacts
    <2> QED
      BY <1>4, <2>1
  <1>6. Len(looks) = Len(order) /\ \A l \in 1..Len(order) : looks[l] = majors[order[l]]
    BY <1>4
  <1> HIDE DEF looks
  <1>7. /\ Len(sees) \in Nat
        /\ \A l \in 1..Len(sees) : sees[l] = m \/ \E j \in 1..Len(majors) : sees[l] = majors[j]
    <2>1. CASE sees = looks
      BY <1>4, <1>6, <2>1
    <2>2. CASE sees = Append(looks, m)
      <3> DEFINE a == Append(looks, m)
      <3>1. /\ Len(a) = Len(looks) + 1
            /\ \A l \in 1..(Len(looks) + 1) : a[l] = IF l <= Len(looks) THEN looks[l] ELSE m
        BY <1>5
      <3> HIDE DEF a
      <3>2. \A l \in 1..Len(a) : a[l] = m \/ \E j \in 1..Len(majors) : a[l] = majors[j]
        <4> TAKE l \in 1..Len(a)
        <4>1. CASE l <= Len(looks)
          <5>1. l \in 1..Len(order)
            BY <1>4, <1>6, <3>1, <4>1
          <5> QED
            BY <1>4, <1>6, <3>1, <4>1, <5>1
        <4>2. CASE ~(l <= Len(looks))
          BY <3>1, <4>2
        <4> QED
          BY <4>1, <4>2
      <3>3. Len(a) \in Nat
        BY <1>4, <1>6, <3>1
      <3>4. sees = a
        BY <2>2 DEF a
      <3> HIDE DEF sees
      <3> QED
        BY <3>2, <3>3, <3>4
    <2> QED
      BY <2>1, <2>2
  <1> HIDE DEF sees
  <1>8. BetAfter(sees) \in {l_bestBet} \cup {sees[l].page : l \in 1..Len(sees)}
    BY <1>7, BetAfterIs
  <1>9. BetAfter(sees) = m.page \/ IsBet(majors, BetAfter(sees))
    BY <1>7, <1>8 DEF IsBet
  <1>10. /\ Placed(req).list = Append(majors, Inserted(m, 0, req))
         /\ Placed(req).at = GapStart(m, 0) /\ Placed(req).more = Bytes(m)
         /\ Placed(req).bet = BetAfter(sees)
    BY <1>1
  <1> QED
    BY <1>9, <1>10

\* The block that kmalloc(req) hands out.
NewBlock(req) == [ptr |-> Pointer(Minor(Placed(req).at, req)), size |-> req]

\* What HeapInv says of the heap after one block more.
LEMMA HeapGrown ==
    ASSUME NEW a, NEW bet, NEW other, SoundList(a), IsBet(a, bet),
           \A j \in 1..Len(a) : PagesOf(a[j]) \cap other = {},
           NEW b, NEW i, NEW k, NEW x \in MinorSet, Grown(a, b, i, k, x), SoundList(b),
           b[i].minors # <<>>, \A j \in 1..Len(a) : j # i => a[j].minors # <<>>
    PROVE  /\ HeapInv(b, bet, BlocksOf(a) \cup {Block(x)}, InUse(a) + x.size, AllBytes(a), other)
           /\ Kept(a, b) /\ \A c \in BlocksOf(a) : c.ptr # Pointer(x)
  <1>1. a \in Seq(MajorSet) /\ b \in Seq(MajorSet)
    BY DEF SoundList
  <1>2. InUse(b) = InUse(a) + x.size /\ AllBytes(b) = AllBytes(a)
    BY <1>1, GrownSums
  <1>3. /\ Len(b) = Len(a) /\ \A j \in 1..Len(a) : PagesOf(b[j]) = PagesOf(a[j])
        /\ IsBet(b, bet)
    BY GrownPages
  <1>4. /\ BlocksOf(b) = BlocksOf(a) \cup {Block(x)} /\ Kept(a, b)
        /\ \A c \in BlocksOf(a) : c.ptr # Pointer(x)
    BY <1>1, GrownBlocks
  <1>5. \A j \in 1..Len(b) : b[j].minors # <<>>
    <2>1. \A j \in 1..Len(a) : j # i => b[j] = a[j]
      BY DEF Grown
    <2> QED
      BY <1>3, <2>1
  <1>6. \A j \in 1..Len(b) : PagesOf(b[j]) \cap other = {}
    BY <1>3
  <1> QED
    BY <1>2, <1>3, <1>4, <1>5, <1>6 DEF HeapInv

\* The heap after kmalloc(req): a block more, and no other block has moved.
LEMMA PlacedIs ==
    ASSUME IInv, NEW req \in Nat, CanPlace(req)
    PROVE  /\ HeapInv(Placed(req).list, Placed(req).bet, held \cup {NewBlock(req)},
                      l_inuse + Padded(req), l_allocated + Placed(req).more, others)
           /\ Kept(majors, Placed(req).list)
           /\ \A b \in held : b.ptr # NewBlock(req).ptr
  <1> DEFINE list == Placed(req).list
             bet == Placed(req).bet
  <1>1. /\ SoundList(majors) /\ IsBet(majors, l_bestBet) /\ majors \in Seq(MajorSet)
        /\ \A i \in 1..Len(majors) : majors[i].minors # <<>>
        /\ \A i \in 1..Len(majors) : PagesOf(majors[i]) \cap others = {}
        /\ held = BlocksOf(majors) /\ l_inuse = InUse(majors) /\ l_allocated = AllBytes(majors)
    BY DEF IInv, HeapInv, SoundList
  <1>2. InUse(majors) \in Int /\ AllBytes(majors) \in Int
    <2>1. /\ PerMajor(majors) \in Seq(Int) /\ PerRun(majors) \in Seq(Int)
          /\ InUse(majors) = Total(PerMajor(majors)) /\ AllBytes(majors) = Total(PerRun(majors))
      BY <1>1, PerMajorIs
    <2> QED
      BY <2>1, TotalInt
  <1>3. CASE Hits(Padded(req)) # {}
    <2>1. PICK i \in 1..Len(majors) : \E k \in Gaps(majors[i], Padded(req)) :
            /\ list = [majors EXCEPT ![i] = Inserted(majors[i], k, req)]
            /\ Placed(req).at = GapStart(majors[i], k) /\ Placed(req).more = 0
            /\ IsBet(majors, bet)
      BY <1>1, <1>3, PlacedHit
    <2>2. PICK k \in Gaps(majors[i], Padded(req)) :
            /\ list = [majors EXCEPT ![i] = Inserted(majors[i], k, req)]
            /\ Placed(req).at = GapStart(majors[i], k) /\ Placed(req).more = 0
            /\ IsBet(majors, bet)
      BY <2>1
    <2> DEFINE x == GapMinor(majors[i], k, req)
    <2>3. /\ SoundList(list) /\ Grown(majors, list, i, k, x) /\ x \in MinorSet
          /\ x.size = Padded(req) /\ Block(x) = [ptr |-> Pointer(x), size |-> req]
          /\ list[i].minors # <<>> /\ \A j \in 1..Len(majors) : j # i => list[j] = majors[j]
      <3>1. list = Put(majors, i, k, req)
        BY <2>2 DEF Put
      <3> HIDE DEF list
      <3> QED
        BY <1>1, <3>1, PutIs
    <2>4. NewBlock(req) = Block(x) /\ NewBlock(req).ptr = Pointer(x)
      BY <2>2, <2>3 DEF NewBlock, GapMinor
    <2> HIDE DEF list, bet, x
    <2>5. /\ HeapInv(list, bet, BlocksOf(majors) \cup {Block(x)}, InUse(majors) + x.size,
                     AllBytes(majors), others)
          /\ Kept(majors, list) /\ \A c \in BlocksOf(majors) : c.ptr # Pointer(x)
      <3>1. /\ IsBet(majors, bet) /\ \A j \in 1..Len(majors) : PagesOf(majors[j]) \cap others = {}
            /\ \A j \in 1..Len(majors) : j # i => majors[j].minors # <<>>
        BY <1>1, <2>2
      <3>2. /\ SoundList(majors) /\ x \in MinorSet /\ Grown(majors, list, i, k, x)
            /\ SoundList(list) /\ list[i].minors # <<>>
        BY <1>1, <2>3
      <3> QED
        BY <3>1, <3>2, HeapGrown
    <2>6. l_allocated + Placed(req).more = l_allocated
      BY <1>1, <1>2, <2>2
    <2> QED
      BY <1>1, <2>3, <2>4, <2>5, <2>6 DEF list, bet
  <1>4. CASE Hits(Padded(req)) = {}
    <2> DEFINE m == NewMajor(Padded(req))
               n == Len(majors)
               b == Append(majors, m)
               x == GapMinor(m, 0, req)
    <2>1. RunsOf(PagesFor(Padded(req))) # {}
      BY <1>4 DEF CanPlace, Hits
    <2>2. /\ Sound(m) /\ m.minors = <<>> /\ 0 \in Gaps(m, Padded(req))
          /\ PagesOf(m) \subseteq Pages \ Taken /\ Bytes(m) \in Nat
      BY <2>1, NewMajorIs
    <2>3. m \in MajorSet
      BY <2>2 DEF Sound
    <2>4. /\ list = Append(majors, Inserted(m, 0, req))
          /\ Placed(req).at = GapStart(m, 0) /\ Placed(req).more = Bytes(m)
          /\ bet = m.page \/ IsBet(majors, bet)
      <3> HIDE DEF m
      <3>1. m = NewMajor(Padded(req))
        BY DEF m
      <3> QED
        BY <1>1, <1>4, <2>3, <3>1, PlacedNew
    <2> HIDE DEF m
    <2>5. /\ HasInserted(b, majors, n, m) /\ b \in Seq(MajorSet) /\ n \in 0..n
          /\ \A y \in MajorSet : [b EXCEPT ![n + 1] = y] = Append(majors, y)
      BY <1>1, <2>3, AppendHas
    <2>6. n \in Nat /\ Len(b) = n + 1 /\ b[n + 1] = m /\ \A j \in 1..n : b[j] = majors[j]
      BY <1>1, <2>3
    <2>7. \A j \in 1..n : PagesOf(majors[j]) \cap PagesOf(m) = {}
      BY <2>2 DEF Taken
    <2>8. PagesOf(m) \cap others = {}
      BY <2>2 DEF Taken
    <2> HIDE DEF b, n
    <2>9. SoundList(b)
      BY <1>1, <2>2, <2>3, <2>5, <2>7, EmptySound DEF n
    <2>10. InUse(b) = InUse(majors) /\ AllBytes(b) = AllBytes(majors) + Bytes(m)
      BY <1>1, <2>2, <2>3, <2>5, EmptySums DEF n
    <2>11. BlocksOf(b) = BlocksOf(majors) /\ Kept(majors, b)
      BY <1>1, <2>2, <2>3, <2>5, EmptyBlocks DEF n
    <2>12. n + 1 \in 1..Len(b)
      BY <2>6
    <2>13. Inserted(m, 0, req) \in MajorSet
      <3>1. Sound(Inserted(m, 0, req))
        BY <2>2, InsertedIs
      <3> QED
        BY <3>1 DEF Sound
    <2>14. list = [b EXCEPT ![n + 1] = Inserted(b[n + 1], 0, req)]
      BY <2>4, <2>5, <2>6, <2>13
    <2>15. /\ SoundList(list) /\ Grown(b, list, n + 1, 0, x) /\ x \in MinorSet
           /\ x.size = Padded(req) /\ Block(x) = [ptr |-> Pointer(x), size |-> req]
           /\ list[n + 1].minors # <<>>
      <3> DEFINE i == n + 1
      <3>1. i \in 1..Len(b) /\ 0 \in Gaps(b[i], Padded(req)) /\ x = GapMinor(b[i], 0, req)
            /\ list = Put(b, i, 0, req)
        BY <2>2, <2>6, <2>12, <2>14 DEF Put
      <3> HIDE DEF i, x, list
      <3>2. /\ SoundList(list) /\ Grown(b, list, i, 0, x) /\ x \in MinorSet
            /\ x.size = Padded(req) /\ Block(x) = [ptr |-> Pointer(x), size |-> req]
            /\ list[i].minors # <<>>
        BY <2>9, <3>1, PutIs
      <3> QED
        BY <3>2 DEF i
    <2>16. NewBlock(req) = Block(x) /\ NewBlock(req).ptr = Pointer(x)
      BY <2>4, <2>15 DEF NewBlock, GapMinor
    <2>17. IsBet(b, bet)
      <3>1. \A j \in 1..n : j \in 1..(n + 1)
        BY <2>6
      <3> QED
        BY <2>4, <2>6, <2>12, <3>1 DEF IsBet, n
    <2>18. \A j \in 1..Len(b) : PagesOf(b[j]) \cap others = {}
      <3>1. \A j \in 1..Len(b) : j \in 1..n \/ j = n + 1
        BY <2>6
      <3> QED
        BY <1>1, <2>6, <2>8, <3>1 DEF n
    <2>19. \A j \in 1..Len(b) : j # n + 1 => b[j].minors # <<>>
      <3>1. \A j \in 1..Len(b) : j \in 1..n \/ j = n + 1
        BY <2>6
      <3> QED
        BY <1>1, <2>6, <3>1 DEF n
    <2> HIDE DEF list, bet, x
    <2>20. /\ held = BlocksOf(b) /\ l_inuse = InUse(b) /\ l_allocated + Bytes(m) = AllBytes(b)
      BY <1>1, <2>10, <2>11
    <2>21. /\ HeapInv(list, bet, BlocksOf(b) \cup {Block(x)}, InUse(b) + x.size,
                      AllBytes(b), others)
           /\ Kept(b, list) /\ \A c \in BlocksOf(b) : c.ptr # Pointer(x)
      BY <2>9, <2>15, <2>17, <2>18, <2>19, <2>20, HeapGrown
    <2>22. Kept(majors, list)
      <3>1. ASSUME NEW j \in 1..Len(majors), NEW l \in 1..Len(majors[j].minors)
            PROVE  \E h \in 1..Len(list) : \E g \in 1..Len(list[h].minors) :
                     list[h].minors[g] = majors[j].minors[l]
        <4>1. PICK h \in 1..Len(b) : \E g \in 1..Len(b[h].minors) :
                b[h].minors[g] = majors[j].minors[l]
          BY <2>11 DEF Kept
        <4>2. PICK g \in 1..Len(b[h].minors) : b[h].minors[g] = majors[j].minors[l]
          BY <4>1
        <4> QED
          BY <2>21, <4>2 DEF Kept
      <3> QED
        BY <3>1 DEF Kept
    <2> QED
      BY <2>4, <2>15, <2>16, <2>20, <2>21, <2>22 DEF list, bet
  <1> QED
    BY <1>3, <1>4

-----------------------------------------------------------------------------
(* kfree.                                                                  *)

LEMMA FreedIs ==
    ASSUME NEW list, NEW bet, NEW blocks, NEW inuse, NEW allocated, NEW other,
           HeapInv(list, bet, blocks, inuse, allocated, other), NEW b \in blocks
    PROVE  HeapInv(Freed(list, bet, b.ptr).list, Freed(list, bet, b.ptr).bet, blocks \ {b},
                   inuse - MinorOf(list, b.ptr).size, allocated - Returned(list, b.ptr), other)
  <1>1. /\ SoundList(list) /\ IsBet(list, bet) /\ list \in Seq(MajorSet)
        /\ \A i \in 1..Len(list) : list[i].minors # <<>>
        /\ \A i \in 1..Len(list) : PagesOf(list[i]) \cap other = {}
        /\ blocks = BlocksOf(list) /\ inuse = InUse(list) /\ allocated = AllBytes(list)
    BY DEF HeapInv, SoundList
  <1>2. PICK i \in 1..Len(list) : \E k \in 1..Len(list[i].minors) : b = Block(list[i].minors[k])
    BY <1>1, BlocksOfIs
  <1>3. PICK k \in 1..Len(list[i].minors) : b = Block(list[i].minors[k])
    BY <1>2
  <1> DEFINE x == list[i].minors[k]
             m == Without(list[i], k)
             after == [list EXCEPT ![i] = m]
             gone == Removal(list, i)
             better == \E j \in 1..Len(after) : after[j].page = bet /\ FreeIn(m) > FreeIn(after[j])
             f == Freed(list, bet, b.ptr)
  <1>4. b.ptr = Pointer(x) /\ Place(list, b.ptr) = <<i, k>>
    <2>1. b.ptr = Pointer(x)
      BY <1>3 DEF Block
    <2> QED
      BY <1>1, <2>1, PlaceIs
  <1>5. Place(list, b.ptr)[1] = i /\ Place(list, b.ptr)[2] = k
    BY <1>4
  <1>6. MinorOf(list, b.ptr) = x
    BY <1>5 DEF MinorOf
  <1>7. /\ m.minors = <<>> => f.list = gone /\ f.bet = IF bet = m.page THEN Null ELSE bet
        /\ m.minors # <<>> => f.list = after /\ f.bet = IF better THEN m.page ELSE bet
    <2>1. Place(list, b.ptr)[1] = i /\ Place(list, b.ptr)[2] = k
      BY <1>5
    <2> QED
      BY <2>1 DEF Freed, Removal
  <1>8. Returned(list, b.ptr) = IF Len(list[i].minors) = 1 THEN Bytes(list[i]) ELSE 0
    BY <1>5 DEF Returned
  <1> HIDE DEF f, better
  <1>9. /\ SoundList(after) /\ Grown(after, list, i, k - 1, x) /\ after \in Seq(MajorSet)
        /\ after[i] = m /\ Len(m.minors) = Len(list[i].minors) - 1
        /\ \A j \in 1..Len(list) : j # i => after[j] = list[j]
    BY <1>1, DropIs
  <1>10. x \in MinorSet /\ x.size \in Int /\ Len(list[i].minors) \in Nat
    <2>1. x \in MinorSet /\ Len(list[i].minors) \in Nat
      BY <1>1, ListFacts
    <2> HIDE DEF x
    <2> QED
      BY <2>1, MinorFacts
  <1> HIDE DEF after, m, x, gone
  <1>11. /\ InUse(list) = InUse(after) + x.size /\ AllBytes(list) = AllBytes(after)
         /\ InUse(after) \in Int /\ AllBytes(after) \in Int
    BY <1>1, <1>9, <1>10, GrownSums
  <1>12. InUse(after) = inuse - x.size /\ AllBytes(after) = allocated
    BY <1>1, <1>10, <1>11
  <1>13. BlocksOf(after) = blocks \ {b}
    <2>1. BlocksOf(list) = BlocksOf(after) \cup {Block(x)}
      BY <1>1, <1>9, GrownBlocks
    <2>2. \A c \in BlocksOf(after) : c.ptr # Pointer(x)
      BY <1>1, <1>9, GrownBlocks
    <2>3. b = Block(x) /\ b \notin BlocksOf(after)
      BY <1>3, <1>4, <2>2 DEF x
    <2> QED
      BY <1>1, <2>1, <2>3
  <1>14. /\ Len(list) = Len(after)
         /\ \A j \in 1..Len(list) : /\ list[j].page = after[j].page
                                    /\ PagesOf(list[j]) = PagesOf(after[j])
         /\ IsBet(after, bet)
    <2>1. /\ Len(list) = Len(after)
          /\ \A j \in 1..Len(after) : /\ list[j].page = after[j].page
                                      /\ PagesOf(list[j]) = PagesOf(after[j])
          /\ \A any : IsBet(list, any) <=> IsBet(after, any)
      BY <1>9, GrownPages
    <2> QED
      BY <1>1, <2>1
  <1>15. CASE m.minors # <<>>
    <2>1. Returned(list, b.ptr) = 0
      <3>1. Len(m.minors) # 0
        <4>1. m.minors \in Seq(MinorSet)
          BY <1>9, <1>14, MajorFacts
        <4> QED
          BY <1>15, <4>1
      <3> QED
        BY <1>8, <1>9, <1>10, <3>1
    <2>2. allocated - Returned(list, b.ptr) = allocated
      BY <1>11, <1>12, <2>1
    <2>3. IsBet(after, f.bet)
      <3>1. IsBet(after, m.page)
        BY <1>9, <1>14 DEF IsBet
      <3> QED
        BY <1>7, <1>14, <1>15, <3>1
    <2>4. \A j \in 1..Len(after) : after[j].minors # <<>>
      BY <1>1, <1>9, <1>14, <1>15
    <2>5. \A j \in 1..Len(after) : PagesOf(after[j]) \cap other = {}
      BY <1>1, <1>14
    <2> QED
      BY <1>6, <1>7, <1>9, <1>12, <1>13, <1>15, <2>2, <2>3, <2>4, <2>5 DEF HeapInv, f
  <1>16. CASE m.minors = <<>>
    <2>1. /\ HasInserted(after, gone, i - 1, m) /\ gone \in Seq(MajorSet)
          /\ i - 1 \in 0..Len(gone)
          /\ \A j \in 1..Len(gone) : \E h \in 1..Len(list) : h # i /\ gone[j] = list[h]
      <3>1. /\ HasInserted(after, Removal(list, i), i - 1, after[i])
            /\ Removal(list, i) \in Seq(MajorSet) /\ i - 1 \in 0..Len(Removal(list, i))
            /\ \A j \in 1..Len(Removal(list, i)) :
                 \E h \in 1..Len(list) : h # i /\ Removal(list, i)[j] = list[h]
        BY <1>1, <1>9, <1>14, RemoveHas, SMTT(30)
      <3> QED
        BY <1>9, <3>1 DEF gone
    <2>2. m \in MajorSet
      BY <1>9, <1>14
    <2>3. Returned(list, b.ptr) = Bytes(m)
      <3>1. Len(list[i].minors) = 1
        BY <1>9, <1>10, <1>16
      <3>2. Bytes(list[i]) = Bytes(m)
        <4>1. list[i].pages = after[i].pages
          BY <1>9 DEF Grown
        <4> QED
          BY <1>9, <4>1 DEF Bytes
      <3> QED
        BY <1>8, <3>1, <3>2
    <2>4. /\ InUse(after) = InUse(gone) /\ AllBytes(after) = AllBytes(gone) + Bytes(m)
          /\ AllBytes(gone) \in Int /\ Bytes(m) \in Int
      BY <1>9, <1>16, <2>1, <2>2, EmptySums
    <2>5. AllBytes(gone) = allocated - Returned(list, b.ptr)
      BY <1>12, <2>3, <2>4
    <2>6. BlocksOf(gone) = blocks \ {b}
      BY <1>9, <1>13, <1>16, <2>1, <2>2, EmptyBlocks
    <2>7. SoundList(gone)
      BY <1>9, <2>1, <2>2, EmptySound
    <2>8. IsBet(gone, f.bet)
      <3>1. CASE bet = m.page \/ bet = Null
        BY <1>7, <1>16, <3>1 DEF IsBet
      <3>2. CASE bet # m.page /\ bet # Null
        <4>1. PICK j \in 1..Len(list) : list[j].page = bet
          BY <1>1, <3>2 DEF IsBet
        <4>2. j # i /\ after[j] = list[j]
          BY <1>9, <1>14, <3>2, <4>1
        <4>4. j # (i - 1) + 1 /\ j \in 1..Len(after)
          BY <1>14, <4>2
        <4>5. PICK g \in 1..Len(gone) : after[j] = gone[g]
          <5>1. i - 1 \in 0..Len(gone) /\ Len(gone) \in Nat /\ HasInserted(after, gone, i - 1, m)
            BY <2>1
          <5>2. \E g \in 1..Len(gone) : after[j] = gone[g]
            BY <4>4, <5>1, TakenOut
          <5> QED
            BY <5>2
        <4>6. gone[g].page = bet
          BY <4>1, <4>2, <4>5
        <4>7. f.bet = bet
          BY <1>7, <1>16, <3>2
        <4> QED
          BY <4>6, <4>7 DEF IsBet
      <3> QED
        BY <3>1, <3>2
    <2>9. \A j \in 1..Len(gone) : gone[j].minors # <<>> /\ PagesOf(gone[j]) \cap other = {}
      BY <1>1, <2>1
    <2> QED
      BY <1>6, <1>7, <1>12, <1>16, <2>4, <2>5, <2>6, <2>7, <2>8, <2>9 DEF HeapInv, f
  <1> QED
    BY <1>15, <1>16

-----------------------------------------------------------------------------
(* krealloc in place.                                                      *)

Resized(list, i, k, req) == [list EXCEPT ![i].minors[k].req = req]

\* A block that counts as smaller than it was.
LEMMA ResizedIs ==
    ASSUME NEW list, NEW bet, NEW blocks, NEW inuse, NEW allocated, NEW other,
           HeapInv(list, bet, blocks, inuse, allocated, other),
           NEW i \in 1..Len(list), NEW k \in 1..Len(list[i].minors),
           NEW req \in Nat, req <= list[i].minors[k].req
    PROVE  HeapInv(Resized(list, i, k, req), bet,
                   (blocks \ {Block(list[i].minors[k])})
                     \cup {[Block(list[i].minors[k]) EXCEPT !.size = req]},
                   inuse, allocated, other)
  <1> DEFINE x == list[i].minors[k]
             y == [x EXCEPT !.req = req]
             m == list[i]
             t == [m.minors EXCEPT ![k] = y]
             o == [m EXCEPT !.minors = t]
             new == [list EXCEPT ![i] = o]
             n == Len(m.minors)
  <1>1. /\ SoundList(list) /\ IsBet(list, bet) /\ list \in Seq(MajorSet)
        /\ \A j \in 1..Len(list) : list[j].minors # <<>>
        /\ \A j \in 1..Len(list) : PagesOf(list[j]) \cap other = {}
        /\ blocks = BlocksOf(list) /\ inuse = InUse(list) /\ allocated = AllBytes(list)
    BY DEF HeapInv, SoundList
  <1>2. Resized(list, i, k, req) = new
    BY DEF Resized
  <1>3. /\ m \in MajorSet /\ Sound(m) /\ n \in Nat /\ m.minors \in Seq(MinorSet)
        /\ x \in MinorSet /\ MinorSound(x) /\ k \in 1..n
    BY <1>1, ListFacts
  <1>4. /\ y \in MinorSet /\ y.at = x.at /\ y.size = x.size /\ y.shift = x.shift /\ y.req = req
    <2>1. x \in MinorSet
      BY <1>3
    <2> HIDE DEF x
    <2> QED
      BY <2>1 DEF MinorSet
  <1>5. Behind(y) = Behind(x) /\ Pointer(y) = Pointer(x)
    <2> HIDE DEF y
    <2> QED
      BY <1>4 DEF Behind, Pointer
  <1>6. MinorSound(y)
    <2>1. x.size >= x.req + 2 * Alignment /\ x.shift = ShiftAt(x.at)
      BY <1>3 DEF MinorSound, Padded
    <2>2. x.size \in Nat /\ x.req \in Nat /\ Alignment \in Nat /\ req <= x.req
      BY <1>3, MinorFacts, ConstFacts
    <2> HIDE DEF x, y
    <2>3. x.size >= req + 2 * Alignment
      BY <2>1, <2>2
    <2> QED
      BY <1>4, <2>1, <2>3 DEF MinorSound, Padded
  <1> HIDE DEF y, x
  <1>7. /\ t \in Seq(MinorSet) /\ Len(t) = n /\ t[k] = y
        /\ \A l \in 1..n : l # k => t[l] = m.minors[l]
    BY <1>3, <1>4
  <1>8. /\ o.page = m.page /\ o.pages = m.pages /\ o.usage = m.usage /\ o.minors = t
        /\ o \in MajorSet
    <2>1. m \in MajorSet /\ t \in Seq(MinorSet)
      BY <1>3, <1>7
    <2> HIDE DEF m, t
    <2> QED
      BY <2>1 DEF MajorSet
  <1>9. m.minors[k] = x
    BY DEF x
  <1> HIDE DEF t, o
  <1>10. /\ \A l \in 1..n : t[l].at = m.minors[l].at /\ t[l].size = m.minors[l].size
         /\ \A l \in 1..n : Behind(t[l]) = Behind(m.minors[l]) /\ MinorSound(t[l])
         /\ \A l \in 1..n : Pointer(t[l]) = Pointer(m.minors[l])
    <2> HIDE DEF m, n
    <2>1. \A l \in 1..n : MinorSound(m.minors[l])
      BY <1>3 DEF Sound, InOrder, n
    <2> QED
      BY <1>4, <1>5, <1>6, <1>7, <1>9, <2>1
  <1>11. Sizes(o) = Sizes(m) /\ Spans(o) = Spans(m)
    BY <1>7, <1>8, <1>10 DEF Sizes, Spans
  <1>12. Sound(o)
    <2> HIDE DEF m
    <2>1. Start(o) = Start(m) /\ End(o) = End(m)
      BY <1>8 DEF Start, End, Bytes
    <2>2. /\ m.pages >= 1 /\ m.page # Null /\ m.usage = MajorHead + Total(Spans(m))
          /\ \A l \in 1..n : Start(m) + MajorHead <= m.minors[l].at /\ Behind(m.minors[l]) <= End(m)
          /\ \A j, l \in 1..n : j < l => Behind(m.minors[j]) <= m.minors[l].at
      BY <1>3 DEF Sound, InOrder
    <2> HIDE DEF n
    <2>3. Len(o.minors) = n
      BY <1>7, <1>8
    <2>4. InOrder(o)
      BY <1>8, <1>10, <1>11, <2>1, <2>2, <2>3 DEF InOrder
    <2> QED
      BY <1>8, <2>2, <2>4 DEF Sound
  <1>13. /\ new \in Seq(MajorSet) /\ Len(new) = Len(list) /\ new[i] = o /\ SoundList(new)
         /\ \A j \in 1..Len(list) : j # i => new[j] = list[j]
    BY <1>1, <1>8, <1>12, ReplaceSound
  <1> HIDE DEF new
  <1>14. \A j \in 1..Len(list) : /\ new[j].page = list[j].page /\ PagesOf(new[j]) = PagesOf(list[j])
                                 /\ Bytes(new[j]) = Bytes(list[j]) /\ Sizes(new[j]) = Sizes(list[j])
                                 /\ Len(new[j].minors) = Len(list[j].minors)
    <2>1. /\ PagesOf(o) = PagesOf(m) /\ Bytes(o) = Bytes(m) /\ Len(o.minors) = Len(m.minors)
      BY <1>7, <1>8 DEF PagesOf, Bytes
    <2> QED
      BY <1>8, <1>11, <1>13, <2>1
  <1>15. InUse(new) = InUse(list) /\ AllBytes(new) = AllBytes(list)
    BY <1>13, <1>14 DEF InUse, AllBytes
  <1>16. \A j \in 1..Len(list) : new[j].minors # <<>>
    <2>1. n # 0
      BY <1>1, <1>3
    <2>2. t # <<>>
      BY <1>7, <2>1
    <2> QED
      BY <1>1, <1>8, <1>13, <2>2
  <1>17. \A j \in 1..Len(list) : \A l \in 1..Len(list[j].minors) :
           new[j].minors[l] = IF j = i /\ l = k THEN y ELSE list[j].minors[l]
    BY <1>7, <1>8, <1>13
  <1>18. Block(y) = [Block(x) EXCEPT !.size = req]
    BY <1>4, <1>5 DEF Block
  <1>19. BlocksOf(new) = (BlocksOf(list) \ {Block(x)}) \cup {Block(y)}
    <2>1. ASSUME NEW c \in BlocksOf(list), c # Block(x)
          PROVE  c \in BlocksOf(new)
      <3>1. PICK j \in 1..Len(list) : \E l \in 1..Len(list[j].minors) : c = Block(list[j].minors[l])
        BY <2>1, BlocksOfIs
      <3>2. PICK l \in 1..Len(list[j].minors) : c = Block(list[j].minors[l])
        BY <3>1
      <3>3. ~(j = i /\ l = k)
        BY <2>1, <3>2 DEF x
      <3>4. new[j].minors[l] = list[j].minors[l]
        BY <1>17, <3>3
      <3>5. j \in 1..Len(new) /\ l \in 1..Len(new[j].minors)
        BY <1>13, <1>14
      <3> QED
        BY <3>2, <3>4, <3>5, BlocksOfIs
    <2>2. Block(y) \in BlocksOf(new)
      <3>1. i \in 1..Len(new) /\ k \in 1..Len(new[i].minors) /\ new[i].minors[k] = y
        BY <1>13, <1>14, <1>17
      <3> QED
        BY <3>1, BlocksOfIs
    <2>3. ASSUME NEW c \in BlocksOf(new), c # Block(y)
          PROVE  c \in BlocksOf(list) /\ c # Block(x)
      <3>1. PICK j \in 1..Len(new) : \E l \in 1..Len(new[j].minors) : c = Block(new[j].minors[l])
        BY <2>3, BlocksOfIs
      <3>2. PICK l \in 1..Len(new[j].minors) : c = Block(new[j].minors[l])
        BY <3>1
      <3>3. j \in 1..Len(list) /\ l \in 1..Len(list[j].minors)
        BY <1>13, <1>14
      <3>4. ~(j = i /\ l = k)
        BY <1>17, <2>3, <3>2, <3>3
      <3>5. c = Block(list[j].minors[l])
        BY <1>17, <3>2, <3>3, <3>4
      <3>6. c # Block(x)
        <4>1. SUFFICES ASSUME c = Block(x) PROVE FALSE
          OBVIOUS
        <4>2. Pointer(list[j].minors[l]) = Pointer(list[i].minors[k])
          BY <3>5, <4>1 DEF Block, x
        <4> QED
          BY <1>1, <3>3, <3>4, <4>2, PointersDiffer
      <3> QED
        BY <3>3, <3>5, <3>6, BlocksOfIs
    <2> QED
      BY <2>1, <2>2, <2>3
  <1>20. IsBet(new, bet)
    BY <1>1, <1>13, <1>14 DEF IsBet
  <1>21. HeapInv(new, bet, (blocks \ {Block(x)}) \cup {[Block(x) EXCEPT !.size = req]},
                 inuse, allocated, other)
    BY <1>1, <1>13, <1>14, <1>15, <1>16, <1>18, <1>19, <1>20 DEF HeapInv
  <1> QED
    BY <1>2, <1>21 DEF x

-----------------------------------------------------------------------------
(* Every step keeps the invariant.                                         *)

LEMMA InitInv == Init => IInv
  <1> SUFFICES ASSUME Init PROVE IInv
    OBVIOUS
  <1>1. majors = <<>> /\ l_bestBet = Null /\ l_inuse = 0 /\ l_allocated = 0 /\ held = {}
    BY DEF Init
  <1>2. Len(<<>>) = 0 /\ 1..0 = {} /\ <<>> \in Seq(MajorSet)
    OBVIOUS
  <1>3. SoundList(<<>>)
    BY <1>2 DEF SoundList, PagesApart
  <1>4. BlocksOf(<<>>) = {}
    BY <1>2 DEF BlocksOf
  <1>5. InUse(<<>>) = 0 /\ AllBytes(<<>>) = 0
    <2>1. /\ PerMajor(<<>>) \in Seq(Int) /\ Len(PerMajor(<<>>)) = 0
          /\ PerRun(<<>>) \in Seq(Int) /\ Len(PerRun(<<>>)) = 0
          /\ InUse(<<>>) = Total(PerMajor(<<>>)) /\ AllBytes(<<>>) = Total(PerRun(<<>>))
      BY <1>2, PerMajorIs
    <2>2. PerMajor(<<>>) = <<>> /\ PerRun(<<>>) = <<>>
      BY <2>1
    <2> QED
      BY <2>1, <2>2, TotalEmpty
  <1>6. HeapInv(<<>>, Null, {}, 0, 0, others)
    BY <1>2, <1>3, <1>4, <1>5 DEF HeapInv, IsBet
  <1> QED
    BY <1>1, <1>6 DEF IInv

\* The blocks are those of the minors, and UNALIGN finds them.
LEMMA HeldIs ==
    ASSUME NEW list, NEW bet, NEW blocks, NEW inuse, NEW allocated, NEW other,
           HeapInv(list, bet, blocks, inuse, allocated, other), NEW b \in blocks
    PROVE  \E i \in 1..Len(list) : \E k \in 1..Len(list[i].minors) :
             /\ b = Block(list[i].minors[k]) /\ b.ptr = Pointer(list[i].minors[k])
             /\ Place(list, b.ptr) = <<i, k>> /\ MinorOf(list, b.ptr) = list[i].minors[k]
  <1>1. SoundList(list) /\ blocks = BlocksOf(list)
    BY DEF HeapInv
  <1>2. PICK i \in 1..Len(list) : \E k \in 1..Len(list[i].minors) : b = Block(list[i].minors[k])
    BY <1>1, BlocksOfIs
  <1>3. PICK k \in 1..Len(list[i].minors) : b = Block(list[i].minors[k])
    BY <1>2
  <1>4. b.ptr = Pointer(list[i].minors[k])
    BY <1>3 DEF Block
  <1>5. Place(list, b.ptr) = <<i, k>>
    BY <1>1, <1>4, PlaceIs
  <1>6. MinorOf(list, b.ptr) = list[i].minors[k]
    BY <1>5 DEF MinorOf
  <1> QED
    BY <1>3, <1>4, <1>5, <1>6

LEMMA MallocInv ==
    ASSUME IInv, NEW req \in Requests, Malloc(req)
    PROVE  IInv'
  <1>1. req \in Nat /\ CanPlace(req)
    BY ConstFacts DEF Malloc
  <1>2. HeapInv(Placed(req).list, Placed(req).bet, held \cup {NewBlock(req)},
                l_inuse + Padded(req), l_allocated + Placed(req).more, others)
    BY <1>1, PlacedIs
  <1>3. /\ majors' = Placed(req).list /\ l_bestBet' = Placed(req).bet
        /\ l_inuse' = l_inuse + Padded(req) /\ l_allocated' = l_allocated + Placed(req).more
        /\ held' = held \cup {NewBlock(req)} /\ others' = others
    BY DEF Malloc, NewBlock
  <1> QED
    BY <1>2, <1>3 DEF IInv

LEMMA FreeInv ==
    ASSUME IInv, NEW b \in held, Free(b)
    PROVE  IInv'
  <1>1. HeapInv(Freed(majors, l_bestBet, b.ptr).list, Freed(majors, l_bestBet, b.ptr).bet,
                held \ {b}, l_inuse - MinorOf(majors, b.ptr).size,
                l_allocated - Returned(majors, b.ptr), others)
    BY FreedIs DEF IInv
  <1>2. /\ majors' = Freed(majors, l_bestBet, b.ptr).list
        /\ l_bestBet' = Freed(majors, l_bestBet, b.ptr).bet
        /\ l_inuse' = l_inuse - MinorOf(majors, b.ptr).size
        /\ l_allocated' = l_allocated - Returned(majors, b.ptr)
        /\ held' = held \ {b} /\ others' = others
    BY DEF Free
  <1> QED
    BY <1>1, <1>2 DEF IInv

LEMMA ReallocInPlaceInv ==
    ASSUME IInv, NEW b \in held, NEW size \in Requests, ReallocInPlace(b, size)
    PROVE  IInv'
  <1>1. PICK i \in 1..Len(majors) : \E k \in 1..Len(majors[i].minors) :
          /\ b = Block(majors[i].minors[k])
          /\ Place(majors, b.ptr) = <<i, k>> /\ MinorOf(majors, b.ptr) = majors[i].minors[k]
    BY HeldIs DEF IInv
  <1>2. PICK k \in 1..Len(majors[i].minors) :
          /\ b = Block(majors[i].minors[k])
          /\ Place(majors, b.ptr) = <<i, k>> /\ MinorOf(majors, b.ptr) = majors[i].minors[k]
    BY <1>1
  <1>3. size \in Nat /\ size <= majors[i].minors[k].req
    BY <1>2, ConstFacts DEF ReallocInPlace
  <1>4. /\ majors' = Resized(majors, i, k, size)
        /\ held' = (held \ {b}) \cup {[b EXCEPT !.size = size]}
        /\ l_bestBet' = l_bestBet /\ l_inuse' = l_inuse /\ l_allocated' = l_allocated
        /\ others' = others
    <2>1. Place(majors, b.ptr)[1] = i /\ Place(majors, b.ptr)[2] = k
      BY <1>2
    <2> QED
      BY <2>1 DEF ReallocInPlace, Resized
  <1>5. HeapInv(Resized(majors, i, k, size), l_bestBet,
                (held \ {b}) \cup {[b EXCEPT !.size = size]}, l_inuse, l_allocated, others)
    <2>1. HeapInv(Resized(majors, i, k, size), l_bestBet,
                  (held \ {Block(majors[i].minors[k])})
                    \cup {[Block(majors[i].minors[k]) EXCEPT !.size = size]},
                  l_inuse, l_allocated, others)
      BY <1>3, ResizedIs DEF IInv
    <2> QED
      BY <1>2, <2>1
  <1> QED
    BY <1>4, <1>5 DEF IInv

LEMMA PlacedMore ==
    ASSUME IInv, NEW req \in Nat, CanPlace(req)
    PROVE  Placed(req).more \in Nat
  <1>1. SoundList(majors) /\ IsBet(majors, l_bestBet)
    BY DEF IInv, HeapInv
  <1>2. CASE Hits(Padded(req)) # {}
    <2>1. Placed(req).more = 0
      BY <1>1, <1>2, PlacedHit
    <2> QED
      BY <2>1
  <1>3. CASE Hits(Padded(req)) = {}
    <2> DEFINE m == NewMajor(Padded(req))
    <2>1. RunsOf(PagesFor(Padded(req))) # {}
      BY <1>3 DEF CanPlace, Hits
    <2>2. Sound(m) /\ Bytes(m) \in Nat
      BY <2>1, NewMajorIs
    <2>3. m \in MajorSet /\ m = NewMajor(Padded(req))
      BY <2>2 DEF Sound
    <2> HIDE DEF m
    <2>4. Placed(req).more = Bytes(m)
      BY <1>1, <1>3, <2>3, PlacedNew
    <2> QED
      BY <2>2, <2>4
  <1> QED
    BY <1>2, <1>3

LEMMA ReallocMovesInv ==
    ASSUME IInv, NEW b \in held, NEW size \in Requests, ReallocMoves(b, size)
    PROVE  IInv'
  <1> DEFINE p == Placed(size)
             f == Freed(p.list, p.bet, b.ptr)
             c == NewBlock(size)
  <1>1. size \in Nat /\ CanPlace(size)
    BY ConstFacts DEF ReallocMoves
  <1>2. /\ HeapInv(p.list, p.bet, held \cup {c}, l_inuse + Padded(size), l_allocated + p.more, others)
        /\ Kept(majors, p.list) /\ \A d \in held : d.ptr # c.ptr
    BY <1>1, PlacedIs
  <1>3. /\ majors' = f.list /\ l_bestBet' = f.bet
        /\ l_inuse' = l_inuse + Padded(size) - MinorOf(majors, b.ptr).size
        /\ l_allocated' = l_allocated + p.more - Returned(p.list, b.ptr)
        /\ held' = (held \ {b}) \cup {c} /\ others' = others
    BY DEF ReallocMoves, NewBlock
  <1> HIDE DEF p, c
  <1>4. HeapInv(f.list, f.bet, (held \cup {c}) \ {b},
                (l_inuse + Padded(size)) - MinorOf(p.list, b.ptr).size,
                (l_allocated + p.more) - Returned(p.list, b.ptr), others)
    <2>1. b \in held \cup {c}
      OBVIOUS
    <2> QED
      BY <1>2, <2>1, FreedIs
  <1>5. MinorOf(p.list, b.ptr) = MinorOf(majors, b.ptr)
    <2>1. PICK i \in 1..Len(majors) : \E k \in 1..Len(majors[i].minors) :
            /\ b.ptr = Pointer(majors[i].minors[k])
            /\ MinorOf(majors, b.ptr) = majors[i].minors[k]
      BY HeldIs DEF IInv
    <2>2. PICK k \in 1..Len(majors[i].minors) :
            /\ b.ptr = Pointer(majors[i].minors[k])
            /\ MinorOf(majors, b.ptr) = majors[i].minors[k]
      BY <2>1
    <2>3. PICK j \in 1..Len(p.list) : \E l \in 1..Len(p.list[j].minors) :
            p.list[j].minors[l] = majors[i].minors[k]
      BY <1>2 DEF Kept
    <2>4. PICK l \in 1..Len(p.list[j].minors) : p.list[j].minors[l] = majors[i].minors[k]
      BY <2>3
    <2>5. SoundList(p.list)
      BY <1>2 DEF HeapInv
    <2>6. Place(p.list, Pointer(p.list[j].minors[l])) = <<j, l>>
      BY <2>5, PlaceIs
    <2>7. MinorOf(p.list, b.ptr) = p.list[j].minors[l]
      BY <2>2, <2>4, <2>6 DEF MinorOf
    <2> QED
      BY <2>2, <2>4, <2>7
  <1>6. (held \cup {c}) \ {b} = (held \ {b}) \cup {c}
    <2>1. b # c
      BY <1>2
    <2> QED
      BY <2>1
  <1> HIDE DEF f
  <1>7. held' = (held \cup {c}) \ {b}
    BY <1>3, <1>6
  <1>8. l_inuse' = (l_inuse + Padded(size)) - MinorOf(p.list, b.ptr).size
    <2> DEFINE z == MinorOf(majors, b.ptr).size
               u == Padded(size)
    <2>1. z \in Int
      <3>1. PICK i \in 1..Len(majors) : \E k \in 1..Len(majors[i].minors) :
              MinorOf(majors, b.ptr) = majors[i].minors[k]
        BY HeldIs DEF IInv
      <3>2. PICK k \in 1..Len(majors[i].minors) : MinorOf(majors, b.ptr) = majors[i].minors[k]
        BY <3>1
      <3>3. majors[i].minors[k] \in MinorSet
        BY ListFacts DEF IInv, HeapInv
      <3> QED
        BY <3>2, <3>3, MinorFacts
    <2>2. l_inuse \in Int /\ u \in Int
      <3>1. majors \in Seq(MajorSet) /\ l_inuse = InUse(majors)
        BY DEF IInv, HeapInv, SoundList
      <3>2. PerMajor(majors) \in Seq(Int) /\ InUse(majors) = Total(PerMajor(majors))
        BY <3>1, PerMajorIs
      <3> QED
        BY <1>1, <3>1, <3>2, TotalInt, ConstFacts DEF Padded
    <2>3. l_inuse' = l_inuse + (u - z) /\ MinorOf(p.list, b.ptr).size = z
      BY <1>3, <1>5
    <2> HIDE DEF u, z
    <2>4. l_inuse' = (l_inuse + u) - z
      BY <2>1, <2>2, <2>3
    <2> QED
      BY <2>3, <2>4 DEF u
  <1>9. l_allocated' = (l_allocated + p.more) - Returned(p.list, b.ptr)
    <2> DEFINE z == Returned(p.list, b.ptr)
               u == p.more
    <2>1. z \in Int
      <3>1. PICK i \in 1..Len(p.list) : \E k \in 1..Len(p.list[i].minors) :
              Place(p.list, b.ptr) = <<i, k>>
        <4>1. b \in held \cup {c}
          OBVIOUS
        <4> QED
          BY <1>2, <4>1, HeldIs
      <3>2. Place(p.list, b.ptr)[1] = i
        BY <3>1
      <3>3. Bytes(p.list[i]) \in Nat
        <4>1. p.list[i] \in MajorSet
          BY <1>2, ListFacts DEF HeapInv
        <4> QED
          BY <4>1, MajorFacts
      <3> QED
        BY <3>2, <3>3 DEF Returned
    <2>2. l_allocated \in Int /\ l_allocated + u \in Int
      <3>1. majors \in Seq(MajorSet) /\ l_allocated = AllBytes(majors)
        BY DEF IInv, HeapInv, SoundList
      <3>2. PerRun(majors) \in Seq(Int) /\ AllBytes(majors) = Total(PerRun(majors))
        BY <3>1, PerMajorIs
      <3>3. p.list \in Seq(MajorSet) /\ l_allocated + u = AllBytes(p.list)
        BY <1>2 DEF HeapInv, SoundList
      <3>4. PerRun(p.list) \in Seq(Int) /\ AllBytes(p.list) = Total(PerRun(p.list))
        BY <3>3, PerMajorIs
      <3> QED
        BY <3>1, <3>2, <3>3, <3>4, TotalInt
    <2>3. u \in Int
      <3>1. Placed(size).more \in Nat
        BY <1>1, PlacedMore
      <3> QED
        BY <3>1 DEF p
    <2>4. l_allocated' = l_allocated + (u - z)
      BY <1>3
    <2> HIDE DEF u, z
    <2>5. l_allocated' = (l_allocated + u) - z
      BY <2>1, <2>2, <2>3, <2>4
    <2> QED
      BY <2>5 DEF u, z
  <1>10. HeapInv(majors', l_bestBet', held', l_inuse', l_allocated', others')
    BY <1>3, <1>4, <1>7, <1>8, <1>9, Zenon
  <1> QED
    BY <1>10 DEF IInv

LEMMA OtherTakesInv ==
    ASSUME IInv, OtherTakes
    PROVE  IInv'
  <1>1. /\ others' = {Min(RunsOf(1))} /\ RunsOf(1) # {}
        /\ majors' = majors /\ l_bestBet' = l_bestBet /\ l_inuse' = l_inuse
        /\ l_allocated' = l_allocated /\ held' = held
    BY DEF OtherTakes
  <1> DEFINE R == RunsOf(1)
             p == Min(R)
  <1>2. p \in R
    <2>1. R \in SUBSET Nat /\ R # {}
      BY <1>1, ConstFacts DEF RunsOf
    <2> HIDE DEF R
    <2> QED
      BY <2>1, MinIs
  <1>3. p \notin Taken
    <2>1. p \in Pages /\ p..(p + 1 - 1) \subseteq Pages \ Taken
      BY <1>2 DEF RunsOf
    <2> HIDE DEF p
    <2>2. p \in p..(p + 1 - 1)
      BY <2>1, ConstFacts
    <2> QED
      BY <2>1, <2>2
  <1>4. \A i \in 1..Len(majors) : PagesOf(majors[i]) \cap {p} = {}
    <2> HIDE DEF p
    <2> QED
      BY <1>3 DEF Taken
  <1>5. HeapInv(majors, l_bestBet, held, l_inuse, l_allocated, {p})
    <2> HIDE DEF p
    <2> QED
      BY <1>4 DEF IInv, HeapInv
  <1> QED
    BY <1>1, <1>5 DEF IInv

LEMMA OtherGivesInv ==
    ASSUME IInv, OtherGives
    PROVE  IInv'
  <1>1. /\ others' = {} /\ majors' = majors /\ l_bestBet' = l_bestBet /\ l_inuse' = l_inuse
        /\ l_allocated' = l_allocated /\ held' = held
    BY DEF OtherGives
  <1>2. HeapInv(majors, l_bestBet, held, l_inuse, l_allocated, {})
    BY DEF IInv, HeapInv
  <1> QED
    BY <1>1, <1>2 DEF IInv

\* The invariant is inductive.
LEMMA Inductive == Spec => []IInv
  <1>1. ASSUME IInv, [Next]_vars
        PROVE  IInv'
    <2>1. ASSUME NEW req \in Requests, Malloc(req)
          PROVE  IInv'
      BY <1>1, <2>1, MallocInv
    <2>2. ASSUME NEW b \in held, Free(b)
          PROVE  IInv'
      BY <1>1, <2>2, FreeInv
    <2>3. ASSUME NEW b \in held, NEW size \in Requests, ReallocInPlace(b, size)
          PROVE  IInv'
      BY <1>1, <2>3, ReallocInPlaceInv
    <2>4. ASSUME NEW b \in held, NEW size \in Requests, ReallocMoves(b, size)
          PROVE  IInv'
      BY <1>1, <2>4, ReallocMovesInv
    <2>5. CASE OtherTakes
      BY <1>1, <2>5, OtherTakesInv
    <2>6. CASE OtherGives
      BY <1>1, <2>6, OtherGivesInv
    <2>7. CASE UNCHANGED vars
      BY <1>1, <2>7 DEF vars, IInv
    <2> QED
      BY <1>1, <2>1, <2>2, <2>3, <2>4, <2>5, <2>6, <2>7 DEF Next
  <1> QED
    BY <1>1, InitInv, PTL DEF Spec

-----------------------------------------------------------------------------
(* What the invariant says to a caller.                                    *)

\* What a caller may write lies in its block, behind the header.
LEMMA CallersIn ==
    ASSUME NEW x \in MinorSet, MinorSound(x)
    PROVE  CallersBytes(Block(x)) \subseteq (x.at + MinorHead)..(Behind(x) - 1)
  <1> DEFINE p == Pointer(x)
             a == x.at
             e == Behind(x)
             r == x.req
  <1>1. /\ p \in Nat /\ r \in Nat /\ a \in Nat /\ e \in Nat
        /\ a + MinorHead <= p - Alignment /\ p + r < e
    BY PointerIs
  <1>2. CallersBytes(Block(x)) = {p - Alignment} \cup p..(p + r - 1)
    BY DEF CallersBytes, Block
  <1>3. Alignment \in Nat /\ MinorHead \in Nat
    BY ConstFacts
  <1> HIDE DEF p, a, e, r
  <1>4. {p - Alignment} \cup p..(p + r - 1) \subseteq (a + MinorHead)..(e - 1)
    BY <1>1, <1>3
  <1> QED
    BY <1>2, <1>4 DEF a, e

LEMMA MajorHeaders ==
    ASSUME NEW list, SoundList(list), NEW i \in 1..Len(list), NEW k \in 1..Len(list[i].minors),
           NEW j \in 1..Len(list), list[j].minors # <<>>
    PROVE  CallersBytes(Block(list[i].minors[k]))
             \cap Start(list[j])..(Start(list[j]) + MajorHead - 1) = {}
  <1> DEFINE x == list[i].minors[k]
             y == list[j].minors[1]
             a == x.at
             e == Behind(x)
             si == Start(list[i])
             ei == End(list[i])
             sj == Start(list[j])
             ej == End(list[j])
  <1>1. /\ a \in Nat /\ e \in Nat /\ si \in Nat /\ ei \in Nat
        /\ si + MajorHead <= a /\ e <= ei
    BY BlockIs
  <1>2. 1 \in 1..Len(list[j].minors)
    <2>1. list[j].minors \in Seq(MinorSet)
      BY ListFacts
    <2> QED
      BY <2>1
  <1>3. /\ sj \in Nat /\ ej \in Nat /\ sj + MajorHead <= ej
    <2>1. /\ Pointer(y) \in Nat /\ y.req \in Nat /\ y.at \in Nat /\ Behind(y) \in Nat
          /\ sj \in Nat /\ ej \in Nat /\ sj + MajorHead <= y.at
          /\ y.at + MinorHead <= Pointer(y) - Alignment
          /\ Pointer(y) + y.req < Behind(y) /\ Behind(y) <= ej
      BY <1>2, BlockIs
    <2> DEFINE ay == y.at
               py == Pointer(y)
               ry == y.req
               ey == Behind(y)
    <2>2. /\ py \in Nat /\ ry \in Nat /\ ay \in Nat /\ ey \in Nat
          /\ sj \in Nat /\ ej \in Nat /\ sj + MajorHead <= ay
          /\ ay + MinorHead <= py - Alignment
          /\ py + ry < ey /\ ey <= ej
      BY <2>1
    <2>3. Alignment \in Nat /\ MinorHead \in Nat /\ MajorHead \in Nat
      BY <1>2, ConstFacts
    <2> HIDE DEF ay, py, ry, ey, sj, ej
    <2> QED
      BY <2>2, <2>3
  <1>4. i = j \/ ei <= sj \/ ej <= si
    <2>1. SUFFICES ASSUME i # j PROVE ei <= sj \/ ej <= si
      OBVIOUS
    <2>2. PagesOf(list[i]) \cap PagesOf(list[j]) = {}
      BY <2>1 DEF SoundList, PagesApart
    <2>3. /\ list[i] \in MajorSet /\ Sound(list[i]) /\ list[j] \in MajorSet /\ Sound(list[j])
      BY ListFacts
    <2>4. list[i].pages >= 1 /\ list[j].pages >= 1
      BY <2>3 DEF Sound, InOrder
    <2> QED
      BY <2>2, <2>3, <2>4, BytesApart
  <1>5. i = j => si = sj
    OBVIOUS
  <1>6. CallersBytes(Block(x)) \subseteq (a + MinorHead)..(e - 1)
    <2>1. x \in MinorSet /\ MinorSound(x)
      BY ListFacts
    <2> HIDE DEF x
    <2> QED
      BY <2>1, CallersIn
  <1>7. MajorHead \in Nat /\ MinorHead \in Nat
    BY ConstFacts
  <1> HIDE DEF a, e, si, ei, sj, ej
  <1>8. (a + MinorHead)..(e - 1) \cap sj..(sj + MajorHead - 1) = {}
    BY <1>1, <1>3, <1>4, <1>5, <1>7
  <1> HIDE DEF x
  <1> QED
    BY <1>6, <1>8 DEF x, sj

LEMMA MinorHeaders ==
    ASSUME NEW list, SoundList(list), NEW i \in 1..Len(list), NEW k \in 1..Len(list[i].minors),
           NEW j \in 1..Len(list), NEW l \in 1..Len(list[j].minors)
    PROVE  /\ CallersBytes(Block(list[i].minors[k]))
                \cap list[j].minors[l].at..(list[j].minors[l].at + MinorHead - 1) = {}
           /\ i # j \/ k # l => CallersBytes(Block(list[i].minors[k]))
                                  \cap CallersBytes(Block(list[j].minors[l])) = {}
  <1> DEFINE x == list[i].minors[k]
             y == list[j].minors[l]
             ax == x.at
             ex == Behind(x)
             ay == y.at
             ey == Behind(y)
  <1>1. x \in MinorSet /\ MinorSound(x) /\ y \in MinorSet /\ MinorSound(y)
    BY ListFacts
  <1>2. (i = j /\ k = l) \/ ex <= ay \/ ey <= ax
    <2>1. SUFFICES ASSUME i # j \/ k # l PROVE ex <= ay \/ ey <= ax
      OBVIOUS
    <2> QED
      BY <2>1, BlocksApart
  <1>3. i = j /\ k = l => x = y /\ ax = ay /\ ex = ey
    OBVIOUS
  <1> HIDE DEF x, y
  <1>4. /\ CallersBytes(Block(x)) \subseteq (ax + MinorHead)..(ex - 1)
        /\ CallersBytes(Block(y)) \subseteq (ay + MinorHead)..(ey - 1)
    BY <1>1, CallersIn
  <1>5. /\ ax \in Nat /\ ex \in Nat /\ ay \in Nat /\ ey \in Nat
        /\ ex = ax + MinorHead + x.size /\ ey = ay + MinorHead + y.size
        /\ x.size \in Nat /\ y.size \in Nat
    BY <1>1, MinorFacts
  <1>6. MinorHead \in Nat
    BY ConstFacts
  <1>7. ax + MinorHead <= ex /\ ay + MinorHead <= ey
    <2> DEFINE zx == x.size
               zy == y.size
    <2>1. /\ ax \in Nat /\ ex \in Nat /\ ay \in Nat /\ ey \in Nat
          /\ ex = ax + MinorHead + zx /\ ey = ay + MinorHead + zy
          /\ zx \in Nat /\ zy \in Nat
      BY <1>5
    <2> HIDE DEF ax, ay, ex, ey, zx, zy
    <2> QED
      BY <1>6, <2>1
  <1> HIDE DEF ax, ay, ex, ey
  <1>8. (ax + MinorHead)..(ex - 1) \cap ay..(ay + MinorHead - 1) = {}
    BY <1>2, <1>3, <1>5, <1>6, <1>7, SMTT(30)
  <1>9. i # j \/ k # l => (ax + MinorHead)..(ex - 1) \cap (ay + MinorHead)..(ey - 1) = {}
    <2>1. ASSUME i # j \/ k # l
          PROVE  (ax + MinorHead)..(ex - 1) \cap (ay + MinorHead)..(ey - 1) = {}
      <3>1. CASE ex <= ay
        BY <1>5, <1>6, <1>7, <3>1
      <3>2. CASE ey <= ax
        BY <1>5, <1>6, <1>7, <3>2
      <3> QED
        BY <1>2, <2>1, <3>1, <3>2
    <2> QED
      BY <2>1
  <1>10. CallersBytes(Block(x)) \cap ay..(ay + MinorHead - 1) = {}
    BY <1>4, <1>8
  <1>11. i # j \/ k # l => CallersBytes(Block(x)) \cap CallersBytes(Block(y)) = {}
    BY <1>4, <1>9
  <1> QED
    BY <1>10, <1>11 DEF x, y, ay

LEMMA DisjointNow == IInv => BlocksDisjoint
  <1> SUFFICES ASSUME IInv PROVE BlocksDisjoint
    OBVIOUS
  <1>1. SoundList(majors) /\ \A j \in 1..Len(majors) : majors[j].minors # <<>>
    BY DEF IInv, HeapInv
  <1>2. ASSUME NEW b \in held
        PROVE  /\ b.ptr % Alignment = 0 /\ CallersBytes(b) \cap HeadersBytes = {}
               /\ \E i \in 1..Len(majors) :
                    CallersBytes(b) \subseteq
                      Start(majors[i])..(Start(majors[i]) + Bytes(majors[i]) - 1)
    <2>1. PICK i \in 1..Len(majors) : \E k \in 1..Len(majors[i].minors) :
            b = Block(majors[i].minors[k]) /\ b.ptr = Pointer(majors[i].minors[k])
      BY HeldIs DEF IInv
    <2>2. PICK k \in 1..Len(majors[i].minors) :
            b = Block(majors[i].minors[k]) /\ b.ptr = Pointer(majors[i].minors[k])
      BY <2>1
    <2> DEFINE x == majors[i].minors[k]
               a == x.at
               e == Behind(x)
               s == Start(majors[i])
               t == End(majors[i])
    <2>3. /\ a \in Nat /\ e \in Nat /\ s \in Nat /\ t \in Nat /\ Pointer(x) % Alignment = 0
          /\ s + MajorHead <= a /\ e <= t
      BY <1>1, BlockIs
    <2>4. CallersBytes(b) \subseteq (a + MinorHead)..(e - 1)
      <3>1. x \in MinorSet /\ MinorSound(x)
        BY <1>1, ListFacts
      <3> HIDE DEF x
      <3>2. CallersBytes(Block(x)) \subseteq (a + MinorHead)..(e - 1)
        BY <3>1, CallersIn
      <3> QED
        BY <2>2, <3>2 DEF x
    <2>5. MinorHead \in Nat /\ MajorHead \in Nat
      BY ConstFacts
    <2>6. CallersBytes(b) \subseteq Start(majors[i])..(Start(majors[i]) + Bytes(majors[i]) - 1)
      <3> DEFINE n == Bytes(majors[i])
      <3>0. n \in Nat
        <4>1. majors[i] \in MajorSet
          BY <1>1, ListFacts
        <4> QED
          BY <4>1, MajorFacts
      <3>1. t = s + n
        BY DEF End
      <3> HIDE DEF a, e, s, t, n
      <3>2. (a + MinorHead)..(e - 1) \subseteq s..(t - 1)
        BY <2>3, <2>5
      <3>3. s..(t - 1) = s..(s + n - 1)
        BY <2>3, <3>0, <3>1
      <3> QED
        BY <2>4, <3>2, <3>3 DEF s, n
    <2>7. ASSUME NEW j \in 1..Len(majors)
          PROVE  CallersBytes(b) \cap Start(majors[j])..(Start(majors[j]) + MajorHead - 1) = {}
      BY <1>1, <2>2, MajorHeaders
    <2>8. ASSUME NEW h \in Minors
          PROVE  CallersBytes(b) \cap h.minor.at..(h.minor.at + MinorHead - 1) = {}
      <3>1. PICK j \in 1..Len(majors) : \E l \in 1..Len(majors[j].minors) :
              h = [major |-> majors[j], minor |-> majors[j].minors[l]]
        BY DEF Minors
      <3>2. PICK l \in 1..Len(majors[j].minors) :
              h = [major |-> majors[j], minor |-> majors[j].minors[l]]
        BY <3>1
      <3>3. h.minor = majors[j].minors[l]
        BY <3>2
      <3>4. CallersBytes(Block(majors[i].minors[k]))
              \cap majors[j].minors[l].at..(majors[j].minors[l].at + MinorHead - 1) = {}
        BY <1>1, MinorHeaders
      <3> QED
        BY <2>2, <3>3, <3>4
    <2>9. CallersBytes(b) \cap HeadersBytes = {}
      <3>1. SUFFICES ASSUME NEW z \in CallersBytes(b), z \in HeadersBytes PROVE FALSE
        OBVIOUS
      <3>2. CASE \E j \in 1..Len(majors) :
                   z \in Start(majors[j])..(Start(majors[j]) + MajorHead - 1)
        BY <2>7, <3>2
      <3>3. CASE \E h \in Minors : z \in h.minor.at..(h.minor.at + MinorHead - 1)
        BY <2>8, <3>3
      <3> DEFINE ofMajors == UNION {Start(majors[j])..(Start(majors[j]) + MajorHead - 1) :
                                      j \in 1..Len(majors)}
                 ofMinors == UNION {h.minor.at..(h.minor.at + MinorHead - 1) : h \in Minors}
      <3>4. z \in ofMajors \/ z \in ofMinors
        <4>1. HeadersBytes = ofMajors \cup ofMinors
          BY Zenon DEF HeadersBytes
        <4> HIDE DEF ofMajors, ofMinors
        <4> QED
          BY <3>1, <4>1
      <3>5. z \in ofMajors => \E j \in 1..Len(majors) :
                               z \in Start(majors[j])..(Start(majors[j]) + MajorHead - 1)
        OBVIOUS
      <3>6. z \in ofMinors => \E h \in Minors : z \in h.minor.at..(h.minor.at + MinorHead - 1)
        OBVIOUS
      <3> HIDE DEF ofMajors, ofMinors
      <3> QED
        BY <3>2, <3>3, <3>4, <3>5, <3>6
    <2>10. b.ptr % Alignment = 0
      BY <2>2, <2>3
    <2> QED
      BY <2>6, <2>9, <2>10
  <1>3. ASSUME NEW b \in held, NEW c \in held, b # c
        PROVE  CallersBytes(b) \cap CallersBytes(c) = {}
    <2>1. PICK i \in 1..Len(majors) : \E k \in 1..Len(majors[i].minors) :
            b = Block(majors[i].minors[k])
      BY HeldIs DEF IInv
    <2>2. PICK k \in 1..Len(majors[i].minors) : b = Block(majors[i].minors[k])
      BY <2>1
    <2>3. PICK j \in 1..Len(majors) : \E l \in 1..Len(majors[j].minors) :
            c = Block(majors[j].minors[l])
      BY HeldIs, SMTT(30) DEF IInv
    <2>4. PICK l \in 1..Len(majors[j].minors) : c = Block(majors[j].minors[l])
      BY <2>3
    <2>5. i # j \/ k # l
      BY <1>3, <2>2, <2>4
    <2> QED
      BY <1>1, <2>2, <2>4, <2>5, MinorHeaders
  <1> QED
    BY <1>2, <1>3 DEF BlocksDisjoint

LEMMA BooksNow == IInv => BooksRight
  <1> SUFFICES ASSUME IInv PROVE BooksRight
    OBVIOUS
  <1>1. /\ SoundList(majors) /\ \A j \in 1..Len(majors) : majors[j].minors # <<>>
        /\ \A j \in 1..Len(majors) : PagesOf(majors[j]) \cap others = {}
        /\ IsBet(majors, l_bestBet) /\ held = BlocksOf(majors)
        /\ l_inuse = InUse(majors) /\ l_allocated = AllBytes(majors)
    BY DEF IInv, HeapInv
  <1>2. ASSUME NEW h \in Minors
        PROVE  \E b \in held : b.ptr = Pointer(h.minor)
    <2>1. PICK j \in 1..Len(majors) : \E l \in 1..Len(majors[j].minors) :
            h = [major |-> majors[j], minor |-> majors[j].minors[l]]
      BY DEF Minors
    <2>2. PICK l \in 1..Len(majors[j].minors) :
            h = [major |-> majors[j], minor |-> majors[j].minors[l]]
      BY <2>1
    <2>3. Block(majors[j].minors[l]) \in held
      BY <1>1, BlocksOfIs
    <2>4. h.minor = majors[j].minors[l]
      BY <2>2
    <2>5. Block(majors[j].minors[l]).ptr = Pointer(h.minor)
      BY <2>4 DEF Block
    <2> QED
      BY <2>3, <2>5
  <1>3. ASSUME NEW b \in held
        PROVE  \E h \in Minors : b.ptr = Pointer(h.minor)
    <2>1. PICK j \in 1..Len(majors) : \E l \in 1..Len(majors[j].minors) :
            b.ptr = Pointer(majors[j].minors[l])
      BY HeldIs DEF IInv
    <2>2. PICK l \in 1..Len(majors[j].minors) : b.ptr = Pointer(majors[j].minors[l])
      BY <2>1
    <2> DEFINE h == [major |-> majors[j], minor |-> majors[j].minors[l]]
    <2>3. h \in Minors /\ h.minor = majors[j].minors[l]
      BY DEF Minors
    <2> QED
      BY <2>2, <2>3
  <1>4. {Pointer(x.minor) : x \in Minors} = {b.ptr : b \in held}
    BY <1>2, <1>3
  <1>5. \A i \in 1..Len(majors) : majors[i].usage = MajorHead + Total(Spans(majors[i]))
    BY <1>1 DEF SoundList, Sound, InOrder
  <1> QED
    BY <1>1, <1>4, <1>5 DEF BooksRight, SoundList, PagesApart, IsBet

\* A call that takes pages found no gap for its block, in any major.
LEMMA GrowsNow ==
    ASSUME IInv, NEW req \in Requests, l_allocated' > l_allocated, Malloc(req),
           NEW i \in 1..Len(majors), NEW k \in 0..Len(majors[i].minors)
    PROVE  GapEnd(majors[i], k) - GapStart(majors[i], k) < Padded(req) + MinorHead
  <1> DEFINE size == Padded(req)
             m == majors[i]
             gap == GapEnd(m, k) - GapStart(m, k)
             need == size + MinorHead
             free == FreeIn(m)
  <1>1. req \in Nat /\ size \in Nat /\ MinorHead \in Nat /\ need \in Nat
    BY ConstFacts DEF Padded
  <1>2. /\ SoundList(majors) /\ IsBet(majors, l_bestBet) /\ l_allocated = AllBytes(majors)
        /\ majors \in Seq(MajorSet)
    BY DEF IInv, HeapInv, SoundList
  <1>3. l_allocated \in Int
    <2>1. PerRun(majors) \in Seq(Int) /\ AllBytes(majors) = Total(PerRun(majors))
      BY <1>2, PerMajorIs
    <2> QED
      BY <1>2, <2>1, TotalInt
  <1>4. Hits(size) = {}
    <2>1. SUFFICES ASSUME Hits(size) # {} PROVE FALSE
      OBVIOUS
    <2>2. Placed(req).more = 0
      BY <1>1, <1>2, <2>1, PlacedHit
    <2>3. l_allocated' = l_allocated + 0
      BY <2>2 DEF Malloc
    <2> QED
      BY <1>3, <2>3
  <1>5. ~HasRoom(m, size)
    <2> HIDE DEF size
    <2>1. PICK h \in 1..Len(Order(size)) : Order(size)[h] = i
      BY <1>1, <1>2, OrderIs
    <2> QED
      BY <1>4, <2>1 DEF Hits
  <1>6. Sound(m)
    BY <1>2 DEF SoundList
  <1>7. gap <= free /\ gap \in Int /\ free \in Int
    <2>1. k \in 0..Len(m.minors)
      OBVIOUS
    <2> HIDE DEF m
    <2>2. GapStart(m, k) \in Nat /\ GapEnd(m, k) \in Nat
      BY <1>6, <2>1, GapIs
    <2>3. free \in Int
      <3>1. m \in MajorSet
        BY <1>6 DEF Sound
      <3>2. Bytes(m) \in Nat /\ m.usage \in Nat /\ free = Bytes(m) - m.usage
        BY <3>1, MajorFacts
      <3> QED
        BY <3>2
    <2> QED
      BY <1>6, <2>1, <2>2, <2>3, GapFits
  <1>8. ~(free >= need /\ gap >= need)
    <2>1. SUFFICES ASSUME free >= need, gap >= need PROVE FALSE
      OBVIOUS
    <2>2. k \in Gaps(m, size)
      BY <2>1 DEF Gaps
    <2> QED
      BY <1>5, <2>1, <2>2 DEF HasRoom
  <1> HIDE DEF gap, free, need
  <1>9. gap < need
    BY <1>1, <1>7, <1>8
  <1> QED
    BY <1>9 DEF gap, need

-----------------------------------------------------------------------------
(* Theorems.                                                               *)

\* The blocks that kmalloc and krealloc have handed out are aligned, lie in the
\* heap's pages, and share no byte with each other nor with a header.
THEOREM Disjoint == Spec => []BlocksDisjoint
  BY Inductive, DisjointNow, PTL

\* The heap's books are right after every call: usage, l_inuse, l_allocated and
\* l_bestBet, and no major is kept that has no block (mm/liballoc.c).
THEOREM Books == Spec => []BooksRight
  BY Inductive, BooksNow, PTL

\* kmalloc calls allocate_new_page only if no gap in any major holds the block,
\* wherever the best bet made it begin.
THEOREM GrowsOnlyFull == Spec => GrowsOnlyWhenFull
  <1>1. ASSUME IInv
        PROVE  [\A req \in Requests :
                  l_allocated' > l_allocated /\ Malloc(req) =>
                    \A i \in 1..Len(majors) : \A k \in 0..Len(majors[i].minors) :
                      GapEnd(majors[i], k) - GapStart(majors[i], k) < Padded(req) + MinorHead]_vars
    BY <1>1, GrowsNow
  <1> QED
    BY <1>1, Inductive, PTL DEF GrowsOnlyWhenFull
=============================================================================
