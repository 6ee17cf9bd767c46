----------------------------- MODULE TermProofs -----------------------------
(***************************************************************************)
(* Proofs about Term, for any number of terminals, any screen, any texts   *)
(* and any lines.                                                          *)
(***************************************************************************)
EXTENDS Term, SequenceTheorems, WellFoundedInduction, TLAPS

-----------------------------------------------------------------------------
(* Numbers.                                                                *)

LEMMA MinPair ==
    ASSUME NEW a \in Int, NEW b \in Int
    PROVE  Min({a, b}) = IF a <= b THEN a ELSE b
  <1>1. \E x \in {a, b} : \A y \in {a, b} : x <= y
    OBVIOUS
  <1>2. Min({a, b}) \in {a, b} /\ \A y \in {a, b} : Min({a, b}) <= y
    BY <1>1 DEF Min
  <1> QED
    BY <1>2

LEMMA MaxPair ==
    ASSUME NEW a \in Int, NEW b \in Int
    PROVE  Max({a, b}) = IF a <= b THEN b ELSE a
  <1>1. \E x \in {a, b} : \A y \in {a, b} : x >= y
    OBVIOUS
  <1>2. Max({a, b}) \in {a, b} /\ \A y \in {a, b} : Max({a, b}) >= y
    BY <1>1 DEF Max
  <1> QED
    BY <1>2

LEMMA DivMod ==
    ASSUME NEW w \in Nat \ {0}, NEW x \in Int
    PROVE  x \div w \in Int /\ x % w \in 0..(w - 1) /\ x = w * (x \div w) + (x % w)
  OBVIOUS

LEMMA MulLow ==
    ASSUME NEW w \in Nat \ {0}, NEW e \in Int, e >= 1
    PROVE  w * e >= w
  OBVIOUS

\* A remainder is the only one.
LEMMA RemainderUnique ==
    ASSUME NEW w \in Nat \ {0}, NEW q \in Int, NEW r \in 0..(w - 1)
    PROVE  (w * q + r) % w = r
  <1> DEFINE x == w * q + r
             d == x \div w
             m == x % w
  <1>1. d \in Int /\ m \in 0..(w - 1) /\ x = w * d + m
    BY DivMod
  <1>2. w * (d - q) = r - m /\ w * (q - d) = m - r
    <2> HIDE DEF d, m
    <2>1. w * (d - q) = w * d - w * q /\ w * (q - d) = w * q - w * d
      BY <1>1
    <2>2. w * d + m = w * q + r /\ w * d \in Int /\ w * q \in Int
      BY <1>1
    <2> HIDE DEF x
    <2> QED
      BY <1>1, <2>1, <2>2
  <1> HIDE DEF d, m
  <1>3. ~(d - q >= 1) /\ ~(q - d >= 1)
    BY <1>1, <1>2, MulLow
  <1>4. d = q
    BY <1>1, <1>3
  <1> QED
    BY <1>1, <1>4 DEF m

LEMMA SmallRemainder ==
    ASSUME NEW w \in Nat \ {0}, NEW r \in 0..(w - 1)
    PROVE  r % w = r
  <1>1. 0 \in Int /\ w * 0 + r = r
    OBVIOUS
  <1> QED
    BY <1>1, RemainderUnique

\* A cursor that moves back by a number that is not larger modulo w.
LEMMA BackRemainder ==
    ASSUME NEW w \in Nat \ {0}, NEW a \in 0..(w - 1), NEW n \in Nat, a >= n % w
    PROVE  (a - n) % w \in 0..a
  <1> DEFINE q == n \div w
             r == n % w
  <1>1. q \in Int /\ r \in 0..(w - 1) /\ n = w * q + r
    BY DivMod
  <1>2. a >= r
    OBVIOUS
  <1> HIDE DEF q, r
  <1>3. -q \in Int /\ a - r \in 0..(w - 1)
    BY <1>1, <1>2
  <1>4. a - n = w * (-q) + (a - r)
    <2>1. w * (-q) = -(w * q) /\ w * q \in Int
      BY <1>1
    <2> QED
      BY <1>1, <2>1
  <1>5. (a - n) % w = a - r
    BY <1>3, <1>4, RemainderUnique
  <1> QED
    BY <1>1, <1>2, <1>5

\* What holds of 0 and with every number of the next, up to n.
LEMMA UpTo ==
    ASSUME NEW n \in Nat, NEW G, 0 \in G,
           \A i \in 0..(n - 1) : i \in G => i + 1 \in G
    PROVE  0..n \subseteq G
  <1> DEFINE Bad == {i \in 0..n : i \notin G}
             R == {ss \in Nat \X Nat : ss[1] < ss[2]}
  <1>1. SUFFICES ASSUME Bad # {} PROVE FALSE
    OBVIOUS
  <1>2. IsWellFoundedOn(R, Nat)
    BY NatLessThanWellFounded DEF OpToRel
  <1>3. Bad \in SUBSET Nat
    OBVIOUS
  <1>4. PICK i \in Bad : \A j \in Bad : ~(<<j, i>> \in R)
    <2> HIDE DEF R, Bad
    <2> QED
      BY <1>1, <1>2, <1>3, WFMin
  <1>5. i # 0 /\ i - 1 \in 0..(n - 1) /\ i - 1 \in Nat
    OBVIOUS
  <1>6. i - 1 \notin Bad
    <2>1. i \in Nat /\ i - 1 < i
      OBVIOUS
    <2>2. <<i - 1, i>> \in R
      BY <1>5, <2>1
    <2> HIDE DEF R, Bad
    <2> QED
      BY <1>4, <2>2
  <1>7. i - 1 \in G /\ (i - 1) + 1 = i
    BY <1>5, <1>6
  <1> QED
    BY <1>5, <1>7

-----------------------------------------------------------------------------
(* Screens.                                                                *)

\* The cells of a screen and a cursor on one of them.
IsScreen(t) ==
    /\ DOMAIN t = {"cells", "x", "y"}
    /\ DOMAIN t.cells = Rows /\ \A y \in Rows : DOMAIN t.cells[y] = Columns
    /\ t.x \in Columns /\ t.y \in Rows

LEMMA SizeFacts ==
    /\ Width \in Nat \ {0} /\ Height \in Nat \ {0} /\ TabStop \in Nat \ {0}
    /\ MaxArgs \in Nat /\ MaxArgs > 1
    /\ Wrap \in Nat \ {0} /\ Width < Wrap /\ Height < Wrap
  BY TermAssumption

LEMMA ClearIs == IsScreen(Clear)
  BY SizeFacts DEF IsScreen, Clear, Row, Rows, Columns

\* What is printed with the cursor on the screen leaves it at most one column or
\* one row beside it.
LEMMA MovedIs ==
    ASSUME NEW t, IsScreen(t), NEW c
    PROVE  LET u == Moved(t, c) IN
           /\ DOMAIN u = {"cells", "x", "y"}
           /\ DOMAIN u.cells = Rows /\ \A y \in Rows : DOMAIN u.cells[y] = Columns
           /\ u.x \in 0..Width /\ u.y \in 0..Height
           /\ u.y = Height => u.x = 0
  <1> DEFINE u == Moved(t, c)
  <1>1. ASSUME NEW s, IsScreen(s), NEW a, NEW b
        PROVE  /\ DOMAIN Filled(s, a, b) = {"cells", "x", "y"}
               /\ DOMAIN Filled(s, a, b).cells = Rows
               /\ \A y \in Rows : DOMAIN Filled(s, a, b).cells[y] = Columns
               /\ Filled(s, a, b).x = s.x /\ Filled(s, a, b).y = s.y
    BY <1>1 DEF Filled, IsScreen
  <1>2. t.x \in 0..(Width - 1) /\ t.y \in 0..(Height - 1)
    BY DEF IsScreen, Columns, Rows
  <1>3. CASE c = NL
    <2>1. u = [Filled(t, t.x, Width - 1) EXCEPT !.x = 0, !.y = @ + 1]
      BY <1>3 DEF Moved, CR, NL, TAB, BS
    <2> QED
      BY <1>1, <1>2, <2>1, SizeFacts
  <1>4. CASE c = CR
    <2>1. u = [t EXCEPT !.x = 0]
      BY <1>4 DEF Moved, CR, NL, TAB, BS
    <2> QED
      BY <1>2, <2>1, SizeFacts DEF IsScreen
  <1>5. CASE c = TAB
    <2> DEFINE s  == t.x - (t.x % TabStop) + TabStop
               to == Min({s, Width})
    <2>1. u = [Filled(t, t.x, to - 1) EXCEPT !.x = to]
      BY <1>5 DEF Moved, CR, NL, TAB, BS
    <2>2. \A x \in Nat : x % TabStop \in 0..(TabStop - 1)
      BY SizeFacts, DivMod
    <2>3. s \in Nat
      <3> DEFINE m == t.x % TabStop
      <3>1. t.x \in Nat /\ TabStop \in Nat /\ m \in 0..(TabStop - 1)
        BY <1>2, <2>2, SizeFacts
      <3> HIDE DEF m
      <3>2. t.x - m + TabStop \in Nat
        BY <3>1
      <3> QED
        BY <3>2 DEF m
    <2> HIDE DEF s
    <2>4. to \in 0..Width
      BY <2>3, SizeFacts, MinPair
    <2> HIDE DEF to
    <2> QED
      BY <1>1, <1>2, <2>1, <2>4, SizeFacts
  <1>6. CASE c = BS
    <2> DEFINE s == IF t.x > 0 THEN [t EXCEPT !.x = @ - 1]
                    ELSE IF t.y > 0 THEN [t EXCEPT !.y = @ - 1, !.x = Width - 1]
                    ELSE t
    <2>1. u = Filled(s, s.x, s.x)
      BY <1>6 DEF Moved, CR, NL, TAB, BS
    <2>2. IsScreen(s)
      BY <1>2, SizeFacts DEF IsScreen, Columns, Rows
    <2>3. s.x \in 0..(Width - 1) /\ s.y \in 0..(Height - 1)
      BY <2>2 DEF IsScreen, Columns, Rows
    <2> HIDE DEF s
    <2> QED
      BY <1>1, <2>1, <2>2, <2>3, SizeFacts
  <1>7. CASE c \notin {NL, CR, TAB, BS}
    <2>1. u = [t EXCEPT !.cells[t.y][t.x] = c, !.x = @ + 1]
      BY <1>7 DEF Moved, CR, NL, TAB, BS
    <2> QED
      BY <1>2, <2>1, SizeFacts DEF IsScreen
  <1> QED
    BY <1>3, <1>4, <1>5, <1>6, <1>7

LEMMA RawIs ==
    ASSUME NEW t, IsScreen(t), NEW c
    PROVE  IsScreen(Raw(t, c))
  <1> DEFINE u == Moved(t, c)
             w == Wrapped(u)
  <1>1. /\ DOMAIN u = {"cells", "x", "y"}
        /\ DOMAIN u.cells = Rows /\ \A y \in Rows : DOMAIN u.cells[y] = Columns
        /\ u.x \in 0..Width /\ u.y \in 0..Height
        /\ u.y = Height => u.x = 0
    BY MovedIs
  <1> HIDE DEF u
  <1>2. /\ DOMAIN w = {"cells", "x", "y"}
        /\ DOMAIN w.cells = Rows /\ \A y \in Rows : DOMAIN w.cells[y] = Columns
        /\ w.x \in 0..(Width - 1) /\ w.y \in 0..Height
    BY <1>1, SizeFacts DEF Wrapped
  <1> HIDE DEF w
  <1>3. IsScreen(Scrolled(w))
    <2>1. CASE w.y < Height
      BY <1>2, <2>1, SizeFacts DEF Scrolled, IsScreen, Columns, Rows
    <2>2. CASE ~(w.y < Height)
      <3>1. \A y \in Rows : y + 1 \in Rows => DOMAIN w.cells[y + 1] = Columns
        BY <1>2
      <3> QED
        BY <1>2, <2>2, <3>1, SizeFacts DEF Scrolled, IsScreen, Columns, Rows, Row
    <2> QED
      BY <2>1, <2>2
  <1> QED
    BY <1>3 DEF Raw, u, w

-----------------------------------------------------------------------------
(* The parser.                                                             *)

States == {"ESC", "BRACKET", "ARGS"}

\* In a sequence index is the number of the last argument, or stands behind the
\* array, and what the array holds are the numbers as they were written.
IsParser(p) ==
    /\ DOMAIN p = {"state", "index", "args", "given"}
    /\ p.state \in States
    /\ p.index \in 0..MaxArgs
    /\ p.args \in [0..MaxArgs -> Int]
    /\ p.given \in Seq(Int)
    /\ p.state # "ESC" =>
         /\ Len(p.given) >= 1
         /\ p.index = IF Len(p.given) <= MaxArgs THEN Len(p.given) - 1 ELSE MaxArgs
         /\ \A i \in 1..Len(p.given) : i <= MaxArgs => p.given[i] = p.args[i - 1]

LEMMA IdleIs == IsParser(Idle)
  BY SizeFacts DEF IsParser, Idle, States

LEMMA BegunIs ==
    ASSUME NEW p, IsParser(p)
    PROVE  IsParser(Begun(p))
  <1> DEFINE q == Begun(p)
  <1>1. q = [p EXCEPT !.state = "BRACKET", !.index = 0, !.args[0] = Empty, !.given = <<Empty>>]
    BY DEF Begun
  <1>2. Empty \in Int /\ <<Empty>> \in Seq(Int) /\ Len(<<Empty>>) = 1 /\ <<Empty>>[1] = Empty
    BY DEF Empty
  <1>3. 0 \in 0..MaxArgs
    BY SizeFacts
  <1>4. /\ DOMAIN q = {"state", "index", "args", "given"} /\ q.state = "BRACKET" /\ q.index = 0
        /\ q.args = [p.args EXCEPT ![0] = Empty] /\ q.given = <<Empty>>
    BY <1>1 DEF IsParser
  <1> HIDE DEF q
  <1>5. q.args \in [0..MaxArgs -> Int] /\ q.args[0] = Empty
    BY <1>2, <1>3, <1>4 DEF IsParser
  <1>6. IsParser(q)
    BY <1>2, <1>3, <1>4, <1>5, SizeFacts DEF IsParser, States
  <1> QED
    BY <1>6 DEF q

LEMMA LongerIs ==
    ASSUME NEW v \in Int, NEW c \in DOMAIN Digit
    PROVE  Longer(v, c) \in Int
  <1>1. c \in {"0", "1", "2", "9"}
    BY DEF Digit
  <1>2. Digit[c] \in Int
    BY <1>1 DEF Digit
  <1> QED
    BY <1>2 DEF Longer

LEMMA DigitsIs ==
    ASSUME NEW p, IsParser(p), p.state = "ARGS", NEW c \in DOMAIN Digit
    PROVE  IsParser(Digits(p, c))
  <1> DEFINE q == Digits(p, c)
             n == Len(p.given)
             j == p.index
  <1>1. n \in Nat /\ n >= 1 /\ j \in 0..MaxArgs
    BY DEF IsParser
  <1>2. p.args[j] \in Int /\ p.given[n] \in Int
    BY <1>1 DEF IsParser
  <1>3. Longer(p.args[j], c) \in Int /\ Longer(p.given[n], c) \in Int
    BY <1>2, LongerIs
  <1>4. q = [p EXCEPT !.args[j] = Longer(p.args[j], c), !.given[n] = Longer(p.given[n], c)]
    BY DEF Digits
  <1>5. /\ DOMAIN q = {"state", "index", "args", "given"} /\ q.state = "ARGS" /\ q.index = j
        /\ q.args = [p.args EXCEPT ![j] = Longer(p.args[j], c)]
        /\ q.given = [p.given EXCEPT ![n] = Longer(p.given[n], c)]
    BY <1>4 DEF IsParser
  <1> HIDE DEF q
  <1>6. q.args \in [0..MaxArgs -> Int] /\ q.given \in Seq(Int) /\ Len(q.given) = n
    BY <1>1, <1>3, <1>5 DEF IsParser
  <1>7. j = IF n <= MaxArgs THEN n - 1 ELSE MaxArgs
    BY DEF IsParser
  <1>8. ASSUME NEW i \in 1..n, i <= MaxArgs
        PROVE  q.given[i] = q.args[i - 1]
    <2>1. p.given[i] = p.args[i - 1] /\ i - 1 \in 0..MaxArgs
      BY <1>1, <1>8, SizeFacts DEF IsParser
    <2>2. i = n <=> i - 1 = j
      BY <1>1, <1>7, <1>8, SizeFacts
    <2>3. CASE i = n
      <3>1. DOMAIN p.given = 1..n /\ DOMAIN p.args = 0..MaxArgs
        BY DEF IsParser
      <3> HIDE DEF n, j
      <3>2. q.given[i] = Longer(p.given[n], c)
        BY <1>5, <2>3, <3>1
      <3>3. q.args[i - 1] = Longer(p.args[j], c)
        BY <1>5, <2>1, <2>2, <2>3, <3>1
      <3> QED
        BY <2>1, <2>2, <2>3, <3>2, <3>3
    <2>4. CASE i # n
      BY <1>1, <1>5, <2>1, <2>2, <2>4 DEF IsParser
    <2> QED
      BY <2>3, <2>4
  <1>9. IsParser(q)
    <2> HIDE DEF n
    <2>1. q.state # "ESC" /\ q.state \in States /\ q.index \in 0..MaxArgs
      BY <1>1, <1>5 DEF States
    <2> HIDE DEF j
    <2> QED
      BY <1>1, <1>5, <1>6, <1>7, <1>8, <2>1 DEF IsParser
  <1> QED
    BY <1>9 DEF q

LEMMA EndedIs ==
    ASSUME NEW p, IsParser(p)
    PROVE  LET next == IF p.index < MaxArgs THEN p.index + 1 ELSE p.index
           IN  /\ DOMAIN Ended(p) = {"state", "index", "args", "given"}
               /\ next \in 1..MaxArgs
               /\ Ended(p).state = p.state /\ Ended(p).given = p.given /\ Ended(p).index = next
               /\ Ended(p).args = [p.args EXCEPT ![next] = Empty]
               /\ Ended(p).args \in [0..MaxArgs -> Int]
  <1> DEFINE next == IF p.index < MaxArgs THEN p.index + 1 ELSE p.index
             q == Ended(p)
  <1>1. next \in 1..MaxArgs
    BY SizeFacts DEF IsParser
  <1>2. q = [p EXCEPT !.index = next, !.args[next] = Empty]
    BY DEF Ended
  <1> HIDE DEF next, q
  <1>3. Empty \in Int
    BY DEF Empty
  <1>4. /\ DOMAIN q = {"state", "index", "args", "given"}
        /\ q.state = p.state /\ q.given = p.given /\ q.index = next
        /\ q.args = [p.args EXCEPT ![next] = Empty]
    BY <1>2 DEF IsParser
  <1>5. q.args \in [0..MaxArgs -> Int]
    BY <1>1, <1>3, <1>4 DEF IsParser
  <1> QED
    BY <1>1, <1>4, <1>5 DEF q, next

\* A semicolon begins the next number.
LEMMA FurtherIs ==
    ASSUME NEW p, IsParser(p), p.state = "ARGS"
    PROVE  IsParser([Ended(p) EXCEPT !.given = Append(@, Empty)])
  <1>1. PICK e : e = Ended(p)
    OBVIOUS
  <1> DEFINE next == IF p.index < MaxArgs THEN p.index + 1 ELSE p.index
             q == [e EXCEPT !.given = Append(@, Empty)]
             n == Len(p.given)
  <1>2. /\ DOMAIN e = {"state", "index", "args", "given"}
        /\ next \in 1..MaxArgs
        /\ e.state = p.state /\ e.given = p.given /\ e.index = next
        /\ e.args = [p.args EXCEPT ![next] = Empty]
        /\ e.args \in [0..MaxArgs -> Int]
    BY <1>1, EndedIs
  <1>3. n \in Nat /\ n >= 1 /\ p.given \in Seq(Int) /\ p.args \in [0..MaxArgs -> Int]
    BY DEF IsParser
  <1>4. p.index = IF n <= MaxArgs THEN n - 1 ELSE MaxArgs
    BY DEF IsParser
  <1>5. /\ DOMAIN q = {"state", "index", "args", "given"} /\ q.state = "ARGS" /\ q.index = next
        /\ q.args = [p.args EXCEPT ![next] = Empty] /\ q.args \in [0..MaxArgs -> Int]
        /\ q.given = Append(p.given, Empty)
    BY <1>2
  <1> HIDE DEF q
  <1>6. next = IF n + 1 <= MaxArgs THEN n ELSE MaxArgs
    BY <1>3, <1>4, SizeFacts
  <1> HIDE DEF next
  <1>7. Empty \in Int
    BY DEF Empty
  <1>8. q.given \in Seq(Int) /\ Len(q.given) = n + 1 /\ q.given[n + 1] = Empty
        /\ \A i \in 1..n : q.given[i] = p.given[i]
    BY <1>3, <1>5, <1>7
  <1>9. ASSUME NEW i \in 1..(n + 1), i <= MaxArgs
        PROVE  q.given[i] = q.args[i - 1]
    <2>1. i - 1 \in 0..MaxArgs
      BY <1>3, <1>9, SizeFacts
    <2>2. CASE i = n + 1
      <3>1. i - 1 = next
        BY <1>3, <1>6, <1>9, <2>2, SizeFacts
      <3> QED
        BY <1>3, <1>5, <1>8, <2>1, <2>2, <3>1
    <2>3. CASE i # n + 1
      <3>1. i \in 1..n /\ i - 1 # next
        BY <1>3, <1>6, <1>9, <2>3, SizeFacts
      <3>2. p.given[i] = p.args[i - 1]
        BY <1>9, <3>1 DEF IsParser
      <3> QED
        BY <1>3, <1>5, <1>8, <2>1, <3>1, <3>2
    <2> QED
      BY <2>2, <2>3
  <1>10. IsParser(q)
    <2> HIDE DEF n
    <2>1. next \in 0..MaxArgs
      BY <1>2, <1>6, SizeFacts DEF next
    <2>2. q.index = IF Len(q.given) <= MaxArgs THEN Len(q.given) - 1 ELSE MaxArgs
      BY <1>3, <1>5, <1>6, <1>8
    <2>3. \A i \in 1..Len(q.given) : i <= MaxArgs => q.given[i] = q.args[i - 1]
      BY <1>8, <1>9
    <2>4. Len(q.given) >= 1
      BY <1>3, <1>8
    <2> QED
      BY <1>5, <1>8, <2>1, <2>2, <2>3, <2>4 DEF IsParser, States
  <1> QED
    BY <1>1, <1>10 DEF q

\* Any last character of a sequence leaves the cursor on the screen.
LEMMA CountIs ==
    ASSUME NEW p, p.args \in [0..MaxArgs -> Int], NEW i \in 0..MaxArgs
    PROVE  Count(p, i) \in Nat /\ Count(p, i) = IF p.args[i] > 0 THEN p.args[i] ELSE 1
  <1>1. PICK a : a = p.args[i]
    OBVIOUS
  <1>2. a \in Int
    BY <1>1
  <1>3. Max({1, a}) = IF 1 <= a THEN a ELSE 1
    BY <1>2, MaxPair
  <1> QED
    BY <1>1, <1>2, <1>3 DEF Count

LEMMA UpOrLeft ==
    ASSUME NEW a \in Nat, a < Wrap, NEW n \in Nat
    PROVE  (IF a >= n % Wrap THEN (a - n) % Wrap ELSE 0) \in 0..a
  <1>1. a \in 0..(Wrap - 1)
    BY SizeFacts
  <1>2. a >= n % Wrap => (a - n) % Wrap \in 0..a
    BY <1>1, BackRemainder, SizeFacts
  <1> QED
    BY <1>2

LEMMA CutTo ==
    ASSUME NEW a \in Int, NEW size \in Nat \ {0}
    PROVE  Min({a % Wrap, size - 1}) \in 0..(size - 1)
  <1>1. a % Wrap \in Nat
    BY DivMod, SizeFacts
  <1> QED
    BY <1>1, MinPair

LEMMA PerformedIs ==
    ASSUME NEW p, p.args \in [0..MaxArgs -> Int], NEW t, IsScreen(t), NEW c
    PROVE  IsScreen(Performed(p, t, c))
  <1> DEFINE n == Count(p, 0)
             m == Count(p, 1)
             u == Performed(p, t, c)
  <1>1. n \in Nat /\ m \in Nat
    BY CountIs, SizeFacts
  <1>2. t.x \in 0..(Width - 1) /\ t.y \in 0..(Height - 1)
    BY DEF IsScreen, Columns, Rows
  <1> HIDE DEF n, m
  <1>3. u = CASE c = "A" -> [t EXCEPT !.y = IF @ >= n % Wrap THEN (@ - n) % Wrap ELSE 0]
              [] c = "B" -> [t EXCEPT !.y = Min({(@ + n) % Wrap, Height - 1})]
              [] c = "C" -> [t EXCEPT !.x = Min({(@ + n) % Wrap, Width - 1})]
              [] c = "D" -> [t EXCEPT !.x = IF @ >= n % Wrap THEN (@ - n) % Wrap ELSE 0]
              [] c = "H" -> [t EXCEPT !.y = Min({(n - 1) % Wrap, Height - 1}),
                                      !.x = Min({(m - 1) % Wrap, Width - 1})]
              [] c = "J" -> IF p.args[0] = 2 THEN Clear ELSE t
              [] OTHER   -> t
    BY DEF Performed, n, m
  <1> HIDE DEF u
  <1>4. PICK x, y : x = t.x /\ y = t.y
    OBVIOUS
  <1>5. x \in Nat /\ x < Width /\ x < Wrap /\ y \in Nat /\ y < Height /\ y < Wrap
    BY <1>2, <1>4, SizeFacts
  <1> DEFINE up   == IF y >= n % Wrap THEN (y - n) % Wrap ELSE 0
             left == IF x >= n % Wrap THEN (x - n) % Wrap ELSE 0
             down == Min({(y + n) % Wrap, Height - 1})
             rgt  == Min({(x + n) % Wrap, Width - 1})
             ay   == Min({(n - 1) % Wrap, Height - 1})
             ax   == Min({(m - 1) % Wrap, Width - 1})
  <1>6. up \in 0..y /\ left \in 0..x
    BY <1>1, <1>5, UpOrLeft
  <1>7. down \in 0..(Height - 1) /\ ay \in 0..(Height - 1)
    <2>1. y + n \in Int /\ n - 1 \in Int
      BY <1>1, <1>5
    <2> QED
      BY <2>1, CutTo, SizeFacts
  <1>8. rgt \in 0..(Width - 1) /\ ax \in 0..(Width - 1)
    <2>1. x + n \in Int /\ m - 1 \in Int
      BY <1>1, <1>5
    <2> QED
      BY <2>1, CutTo, SizeFacts
  <1>9. \/ u = [t EXCEPT !.y = up] \/ u = [t EXCEPT !.y = down] \/ u = [t EXCEPT !.x = rgt]
        \/ u = [t EXCEPT !.x = left] \/ u = [t EXCEPT !.y = ay, !.x = ax]
        \/ u = Clear \/ u = t
    <2> HIDE DEF ay, ax
    <2> QED
      BY <1>3, <1>4 DEF ay, ax
  <1> HIDE DEF up, left, down, rgt, ax, ay
  <1>10. ASSUME NEW a \in Columns, NEW b \in Rows
         PROVE  IsScreen([t EXCEPT !.x = a]) /\ IsScreen([t EXCEPT !.y = b])
                /\ IsScreen([t EXCEPT !.y = b, !.x = a])
    BY <1>10 DEF IsScreen
  <1>11. up \in Rows /\ down \in Rows /\ ay \in Rows /\ left \in Columns /\ rgt \in Columns /\ ax \in Columns
    BY <1>5, <1>6, <1>7, <1>8, SizeFacts DEF Rows, Columns
  <1>12. IsScreen(u)
    BY <1>9, <1>10, <1>11, ClearIs
  <1> QED
    BY <1>12 DEF u

-----------------------------------------------------------------------------
(* Texts.                                                                  *)

\* A parser and the terminal shown.
IsShow(o) == DOMAIN o = {"p", "t"} /\ IsParser(o.p) /\ IsScreen(o.t)

\* The cases of the handler exclude each other.
LEMMA HandledCases ==
    ASSUME NEW o, o.p.state \in States, NEW c
    PROVE  LET p == o.p
               v == Handled(o, c)
           IN
           /\ p.state = "ESC" /\ c = ESC => v = [o EXCEPT !.p = Begun(p)]
           /\ p.state = "ESC" /\ c # ESC => v = [o EXCEPT !.t = Raw(o.t, c)]
           /\ p.state = "BRACKET" /\ c = "[" => v = [o EXCEPT !.p.state = "ARGS"]
           /\ p.state = "BRACKET" /\ c # "[" => v = [p |-> [p EXCEPT !.state = "ESC"], t |-> Raw(o.t, c)]
           /\ p.state = "ARGS" /\ c \in DOMAIN Digit => v = [o EXCEPT !.p = Digits(p, c)]
           /\ p.state = "ARGS" /\ c = ";" =>
                v = [o EXCEPT !.p = [Ended(p) EXCEPT !.given = Append(@, Empty)]]
           /\ p.state = "ARGS" /\ c \notin DOMAIN Digit /\ c # ";" =>
                v = [p |-> [Ended(p) EXCEPT !.state = "ESC"], t |-> Performed(Ended(p), o.t, c)]
  <1>1. DOMAIN Digit = {"0", "1", "2", "9"}
    BY DEF Digit
  <1>2. PICK D : D = DOMAIN Digit
    OBVIOUS
  <1>3. D = {"0", "1", "2", "9"}
    BY <1>1, <1>2
  <1> DEFINE p == o.p
             a1 == [o EXCEPT !.p = Begun(p)]
             a2 == [o EXCEPT !.t = Raw(o.t, c)]
             a3 == [o EXCEPT !.p.state = "ARGS"]
             a4 == [p |-> [p EXCEPT !.state = "ESC"], t |-> Raw(o.t, c)]
             a5 == [o EXCEPT !.p = Digits(p, c)]
             a6 == [o EXCEPT !.p = [Ended(p) EXCEPT !.given = Append(@, Empty)]]
             a7 == [p |-> [Ended(p) EXCEPT !.state = "ESC"], t |-> Performed(Ended(p), o.t, c)]
             v == Handled(o, c)
  <1>4. v = CASE p.state = "ESC" /\ c = ESC   -> a1
              [] p.state = "ESC" /\ c # ESC   -> a2
              [] p.state = "BRACKET" /\ c = "[" -> a3
              [] p.state = "BRACKET" /\ c # "[" -> a4
              [] p.state = "ARGS" /\ c \in D -> a5
              [] p.state = "ARGS" /\ c = ";"  -> a6
              [] OTHER -> a7
    BY <1>2, Zenon DEF Handled
  <1>5. PICK s : s = p.state
    OBVIOUS
  <1>6. s \in {"ESC", "BRACKET", "ARGS"}
    BY <1>5 DEF States
  <1> HIDE DEF v, a1, a2, a3, a4, a5, a6, a7, p
  <1>7. /\ s = "ESC" /\ c = ESC => v = a1
        /\ s = "ESC" /\ c # ESC => v = a2
        /\ s = "BRACKET" /\ c = "[" => v = a3
        /\ s = "BRACKET" /\ c # "[" => v = a4
        /\ s = "ARGS" /\ c \in D => v = a5
        /\ s = "ARGS" /\ c = ";" => v = a6
        /\ s = "ARGS" /\ c \notin D /\ c # ";" => v = a7
    BY <1>3, <1>4, <1>5, <1>6
  <1> QED
    BY <1>2, <1>5, <1>7 DEF v, a1, a2, a3, a4, a5, a6, a7, p

LEMMA HandledIs ==
    ASSUME NEW o, IsShow(o), NEW c
    PROVE  IsShow(Handled(o, c))
  <1>1. PICK p, t : p = o.p /\ t = o.t
    OBVIOUS
  <1>2. IsParser(p) /\ IsScreen(t) /\ DOMAIN o = {"p", "t"} /\ p.state \in States
    BY <1>1 DEF IsShow, IsParser
  <1> DEFINE v == Handled(o, c)
  <1>3. \/ v = [o EXCEPT !.p = Begun(p)]
        \/ v = [o EXCEPT !.t = Raw(t, c)]
        \/ p.state = "BRACKET" /\ v = [o EXCEPT !.p.state = "ARGS"]
        \/ v = [p |-> [p EXCEPT !.state = "ESC"], t |-> Raw(t, c)]
        \/ p.state = "ARGS" /\ c \in DOMAIN Digit /\ v = [o EXCEPT !.p = Digits(p, c)]
        \/ p.state = "ARGS" /\ v = [o EXCEPT !.p = [Ended(p) EXCEPT !.given = Append(@, Empty)]]
        \/ v = [p |-> [Ended(p) EXCEPT !.state = "ESC"], t |-> Performed(Ended(p), t, c)]
    <2>1. p.state \in {"ESC", "BRACKET", "ARGS"}
      BY <1>2 DEF States
    <2>2. o.p.state \in States
      BY <1>1, <1>2
    <2> HIDE DEF v
    <2> QED
      BY <1>1, <2>1, <2>2, HandledCases DEF v
  <1> HIDE DEF v
  <1>4. CASE v = [o EXCEPT !.p = Begun(p)]
    <2>1. IsShow(v)
      BY <1>1, <1>2, <1>4, BegunIs DEF IsShow
    <2> QED
      BY <2>1 DEF v
  <1>5. CASE v = [o EXCEPT !.t = Raw(t, c)]
    <2>1. IsShow(v)
      BY <1>1, <1>2, <1>5, RawIs DEF IsShow
    <2> QED
      BY <2>1 DEF v
  <1>6. CASE p.state = "BRACKET" /\ v = [o EXCEPT !.p.state = "ARGS"]
    <2>1. DOMAIN v = {"p", "t"} /\ v.t = t /\ v.p = [p EXCEPT !.state = "ARGS"]
      BY <1>1, <1>2, <1>6
    <2>2. IsParser([p EXCEPT !.state = "ARGS"])
      BY <1>2, <1>6 DEF IsParser, States
    <2>3. IsShow(v)
      BY <1>2, <2>1, <2>2 DEF IsShow
    <2> QED
      BY <2>3 DEF v
  <1>7. CASE v = [p |-> [p EXCEPT !.state = "ESC"], t |-> Raw(t, c)]
    <2>1. IsParser([p EXCEPT !.state = "ESC"])
      BY <1>2 DEF IsParser, States
    <2>2. IsShow(v)
      BY <1>2, <1>7, <2>1, RawIs DEF IsShow
    <2> QED
      BY <2>2 DEF v
  <1>8. CASE p.state = "ARGS" /\ c \in DOMAIN Digit /\ v = [o EXCEPT !.p = Digits(p, c)]
    <2>1. IsShow(v)
      BY <1>1, <1>2, <1>8, DigitsIs DEF IsShow
    <2> QED
      BY <2>1 DEF v
  <1>9. CASE p.state = "ARGS" /\ v = [o EXCEPT !.p = [Ended(p) EXCEPT !.given = Append(@, Empty)]]
    <2>1. IsShow(v)
      BY <1>1, <1>2, <1>9, FurtherIs DEF IsShow
    <2> QED
      BY <2>1 DEF v
  <1>10. CASE v = [p |-> [Ended(p) EXCEPT !.state = "ESC"], t |-> Performed(Ended(p), t, c)]
    <2>1. PICK e : e = Ended(p)
      OBVIOUS
    <2>2. PICK next : next = IF p.index < MaxArgs THEN p.index + 1 ELSE p.index
      OBVIOUS
    <2>3. /\ DOMAIN e = {"state", "index", "args", "given"} /\ e.given = p.given
          /\ e.index = next /\ next \in 1..MaxArgs /\ e.args \in [0..MaxArgs -> Int]
      BY <1>2, <2>1, <2>2, EndedIs
    <2>4. e.index \in 0..MaxArgs /\ p.given \in Seq(Int)
      BY <1>2, <2>3, SizeFacts DEF IsParser
    <2>5. IsParser([e EXCEPT !.state = "ESC"])
      BY <2>3, <2>4 DEF IsParser, States
    <2>6. IsScreen(Performed(e, t, c))
      BY <1>2, <2>3, PerformedIs
    <2>7. IsShow(v)
      BY <1>10, <2>1, <2>5, <2>6 DEF IsShow
    <2> QED
      BY <2>7 DEF v
  <1> QED
    BY <1>3, <1>4, <1>5, <1>6, <1>7, <1>8, <1>9, <1>10

\* f holds what is shown after each of the first n characters.
IsShown(f, n, o, text) ==
    f = [i \in 0..n |-> IF i = 0 THEN o ELSE Handled(f[i - 1], text[i])]

\* Characters are handled one after the other.
LEMMA ShownDefined ==
    ASSUME NEW n \in Nat, NEW o, NEW text
    PROVE  \E f : IsShown(f, n, o, text)
  <1> DEFINE G == {m \in Nat : \E f : IsShown(f, m, o, text)}
  <1>1. 0 \in G
    <2>1. \A i \in 0..0 : i = 0
      OBVIOUS
    <2>2. IsShown([i \in 0..0 |-> o], 0, o, text)
      BY <2>1 DEF IsShown
    <2> QED
      BY <2>2
  <1>2. ASSUME NEW k \in 0..(n - 1), k \in G
        PROVE  k + 1 \in G
    <2>1. PICK g : IsShown(g, k, o, text)
      BY <1>2
    <2> DEFINE m == k + 1
               h == [i \in 0..m |-> IF i = m THEN Handled(g[k], text[m]) ELSE g[i]]
    <2>2. \A i \in 0..k : g[i] = IF i = 0 THEN o ELSE Handled(g[i - 1], text[i])
      BY <2>1 DEF IsShown
    <2>3. \A i \in 0..m : h[i] = IF i = 0 THEN o ELSE Handled(h[i - 1], text[i])
      <3> TAKE i \in 0..m
      <3>1. h[i] = IF i = m THEN Handled(g[k], text[m]) ELSE g[i]
        OBVIOUS
      <3>2. i # 0 => i - 1 \in 0..m /\ i - 1 # m
        OBVIOUS
      <3>3. i # 0 => h[i - 1] = g[i - 1]
        BY <3>2
      <3> HIDE DEF h
      <3>4. i # m => i \in 0..k
        OBVIOUS
      <3>5. i = m => i # 0 /\ i - 1 = k
        OBVIOUS
      <3> QED
        BY <2>2, <3>1, <3>3, <3>4, <3>5
    <2>4. IsShown(h, m, o, text)
      BY <2>3 DEF IsShown
    <2> QED
      BY <2>4
  <1>3. n \in G
    <2> HIDE DEF G
    <2>1. 0..n \subseteq G
      BY <1>1, <1>2, UpTo
    <2> QED
      BY <2>1
  <1> QED
    BY <1>3

\* What tty_putchar makes of a text, character by character.
Now == [p |-> parser, t |-> tty[current_tty]]

LEMMA PutIs ==
    ASSUME NEW text, Len(text) \in Nat
    PROVE  \E f : /\ f[0] = Now /\ Put(text) = f[Len(text)]
                  /\ \A i \in 1..Len(text) : f[i] = Handled(f[i - 1], text[i])
  <1> DEFINE n == Len(text)
             shown == CHOOSE f : f = [i \in 0..n |-> IF i = 0 THEN Now ELSE Handled(f[i - 1], text[i])]
  <1>1. Put(text) = shown[n]
    BY Zenon DEF Put, Now
  <1>2. shown = [i \in 0..n |-> IF i = 0 THEN Now ELSE Handled(shown[i - 1], text[i])]
    <2>1. PICK o : o = Now
      OBVIOUS
    <2>2. \E f : IsShown(f, n, o, text)
      BY ShownDefined
    <2>3. \E f : IsShown(f, n, Now, text)
      BY <2>1, <2>2
    <2> QED
      BY <2>3, Zenon DEF IsShown
  <1> HIDE DEF shown
  <1>3. 0 \in 0..n /\ \A i \in 1..n : i \in 0..n /\ i # 0
    OBVIOUS
  <1> QED
    BY <1>1, <1>2, <1>3

LEMMA PutShows ==
    ASSUME NEW text, Len(text) \in Nat, IsShow(Now)
    PROVE  IsShow(Put(text))
  <1>1. PICK f : /\ f[0] = Now /\ Put(text) = f[Len(text)]
                 /\ \A i \in 1..Len(text) : f[i] = Handled(f[i - 1], text[i])
    BY PutIs
  <1> DEFINE n == Len(text)
             G == {i \in 0..n : IsShow(f[i])}
  <1>2. 0 \in G
    BY <1>1
  <1>3. ASSUME NEW i \in 0..(n - 1), i \in G
        PROVE  i + 1 \in G
    <2>1. i + 1 \in 1..n /\ (i + 1) - 1 = i
      OBVIOUS
    <2>2. f[i + 1] = Handled(f[i], text[i + 1])
      BY <1>1, <2>1
    <2> QED
      BY <1>3, <2>1, <2>2, HandledIs
  <1>4. n \in 0..n
    OBVIOUS
  <1>5. 0..n \subseteq G
    <2> HIDE DEF G
    <2> QED
      BY <1>2, <1>3, UpTo
  <1> QED
    BY <1>1, <1>4, <1>5

-----------------------------------------------------------------------------
(* What the echo of a line is made of, on the row of the cursor.           *)

\* Between two sequences, with the cursor at column x of row y, which holds row.
At(o, y, x, row) ==
    /\ IsShow(o) /\ o.p.state = "ESC"
    /\ o.t.y = y /\ o.t.x = x
    /\ DOMAIN row = Columns /\ \A k \in Columns : o.t.cells[y][k] = row[k]

Special == {ESC, NL, CR, TAB, BS}

LEMMA AtFacts ==
    ASSUME NEW o, NEW y, NEW x, NEW row, At(o, y, x, row)
    PROVE  /\ DOMAIN row = Columns /\ x \in Columns /\ y \in Rows
           /\ x \in 0..(Width - 1) /\ y \in 0..(Height - 1)
           /\ x \in Nat /\ IsScreen(o.t) /\ IsParser(o.p) /\ DOMAIN o = {"p", "t"}
  BY SizeFacts DEF At, IsShow, IsScreen, Columns, Rows

\* Three of the handler's cases.
LEMMA OnRaw ==
    ASSUME NEW o, o.p.state = "ESC", NEW c, c # ESC, NEW u, u = Raw(o.t, c)
    PROVE  Handled(o, c) = [o EXCEPT !.t = u]
  <1>1. o.p.state \in States
    BY DEF States
  <1> QED
    BY <1>1, HandledCases

LEMMA OnEscape ==
    ASSUME NEW o, o.p.state = "ESC", NEW q, q = Begun(o.p)
    PROVE  Handled(o, ESC) = [o EXCEPT !.p = q]
  <1>1. o.p.state \in States
    BY DEF States
  <1>2. PICK c : c = ESC
    OBVIOUS
  <1> QED
    BY <1>1, <1>2, HandledCases

LEMMA OnBracket ==
    ASSUME NEW o, o.p.state = "BRACKET"
    PROVE  Handled(o, "[") = [o EXCEPT !.p.state = "ARGS"]
  <1>1. o.p.state \in States
    BY DEF States
  <1>2. PICK c : c = "["
    OBVIOUS
  <1> QED
    BY <1>1, <1>2, HandledCases

LEMMA OnLast ==
    ASSUME NEW o, o.p.state = "ARGS", NEW c \in {"C", "D", "H"}, NEW e, e = Ended(o.p)
    PROVE  Handled(o, c) = [p |-> [e EXCEPT !.state = "ESC"], t |-> Performed(e, o.t, c)]
  <1>1. o.p.state \in States
    BY DEF States
  <1>2. c \notin DOMAIN Digit /\ c # ";"
    BY DEF Digit
  <1> QED
    BY <1>1, <1>2, HandledCases

\* A character that is no control character.
LEMMA PrintStep ==
    ASSUME NEW o, NEW y, NEW x, NEW row, At(o, y, x, row),
           NEW c, c \notin Special, x + 1 < Width
    PROVE  At(Handled(o, c), y, x + 1, [row EXCEPT ![x] = c])
  <1>1. PICK t : t = o.t
    OBVIOUS
  <1>2. /\ IsScreen(t) /\ t.x = x /\ t.y = y /\ (\A k \in Columns : t.cells[y][k] = row[k]) /\ o.p.state = "ESC"
        /\ x \in Columns /\ y \in Rows /\ DOMAIN o = {"p", "t"}
    BY <1>1, AtFacts DEF At
  <1>3. x \in Nat /\ y \in 0..(Height - 1)
    BY AtFacts
  <1> DEFINE u == Moved(t, c)
  <1>4. u = [t EXCEPT !.cells[t.y][t.x] = c, !.x = @ + 1]
    BY DEF Moved, Special, NL, CR, TAB, BS
  <1>5. u.x = x + 1 /\ u.y = y /\ u.cells[y] = [t.cells[y] EXCEPT ![x] = c]
                 /\ DOMAIN t.cells[y] = Columns
    BY <1>2, <1>4 DEF IsScreen
  <1> HIDE DEF u
  <1>6. Raw(t, c) = u
    BY <1>3, <1>5, SizeFacts DEF Raw, u, Wrapped, Scrolled
  <1>7. Handled(o, c) = [o EXCEPT !.t = u]
    <2>1. c # ESC
      BY DEF Special
    <2> QED
      BY <1>1, <1>2, <1>6, <2>1, OnRaw
  <1>8. IsShow(Handled(o, c))
    BY HandledIs DEF At
  <1>9. PICK v : v = Handled(o, c)
    OBVIOUS
  <1>10. v.p = o.p /\ v.t = u
    BY <1>2, <1>7, <1>9
  <1> QED
    BY <1>2, <1>5, <1>8, <1>9, <1>10 DEF At

LEMMA EraseStep ==
    ASSUME NEW o, NEW y, NEW x, NEW row, At(o, y, x, row), x > 0
    PROVE  At(Handled(o, BS), y, x - 1, [row EXCEPT ![x - 1] = Blank])
  <1>1. PICK t : t = o.t
    OBVIOUS
  <1>2. /\ IsScreen(t) /\ t.x = x /\ t.y = y /\ (\A k \in Columns : t.cells[y][k] = row[k]) /\ o.p.state = "ESC"
        /\ x \in Columns /\ y \in Rows /\ DOMAIN o = {"p", "t"} /\ DOMAIN row = Columns
    BY <1>1, AtFacts DEF At
  <1>3. x \in Nat /\ y \in 0..(Height - 1) /\ x < Width
    BY AtFacts, SizeFacts
  <1> DEFINE s == [t EXCEPT !.x = @ - 1]
             u == Moved(t, BS)
             m == [k \in Columns |-> IF k \in (x - 1)..(x - 1) THEN Blank ELSE t.cells[y][k]]
  <1>4. u = Filled(s, s.x, s.x)
    BY <1>2 DEF Moved, NL, CR, TAB, BS
  <1>5. s.x = x - 1 /\ s.y = y /\ s.cells = t.cells /\ DOMAIN s = DOMAIN t
    BY <1>2 DEF IsScreen
  <1> HIDE DEF s
  <1>6. u.x = x - 1 /\ u.y = y /\ u.cells[y] = m
    BY <1>2, <1>4, <1>5 DEF IsScreen, Filled
  <1> HIDE DEF u
  <1>7. \A k \in Columns : m[k] = [row EXCEPT ![x - 1] = Blank][k]
    <2>1. \A k \in Columns : k \in (x - 1)..(x - 1) <=> k = x - 1
      BY <1>3 DEF Columns
    <2> QED
      BY <1>2, <2>1
  <1> HIDE DEF m
  <1>8. Raw(t, BS) = u
    BY <1>3, <1>6, SizeFacts DEF Raw, u, Wrapped, Scrolled
  <1>9. Handled(o, BS) = [o EXCEPT !.t = u]
    <2>1. BS # ESC
      BY DEF BS, ESC
    <2>2. PICK c : c = BS
      OBVIOUS
    <2> QED
      BY <1>1, <1>2, <1>8, <2>1, <2>2, OnRaw
  <1>10. IsShow(Handled(o, BS))
    BY HandledIs DEF At
  <1>11. PICK v : v = Handled(o, BS)
    OBVIOUS
  <1>12. v.p = o.p /\ v.t = u
    BY <1>2, <1>9, <1>11
  <1> QED
    BY <1>2, <1>6, <1>7, <1>10, <1>11, <1>12 DEF At

\* An arrow: one column to the left or the right.
LEMMA ShiftStep ==
    ASSUME NEW o, NEW y, NEW x, NEW row, At(o, y, x, row)
    PROVE  LET v(c) == Handled(Handled(Handled(o, ESC), "["), c) IN
           /\ x > 0 => At(v("D"), y, x - 1, row)
           /\ x + 1 < Width => At(v("C"), y, x + 1, row)
  <1>1. PICK p, t : p = o.p /\ t = o.t
    OBVIOUS
  <1>2. /\ IsParser(p) /\ IsScreen(t) /\ t.x = x /\ t.y = y /\ (\A k \in Columns : t.cells[y][k] = row[k])
        /\ p.state = "ESC" /\ DOMAIN o = {"p", "t"}
        /\ x \in Nat /\ x < Width /\ y \in Rows
    BY <1>1, AtFacts, SizeFacts DEF At, Rows
  <1>3. PICK o1 : o1 = Handled(o, ESC)
    OBVIOUS
  <1>4. IsShow(o1) /\ o1.p = Begun(p) /\ o1.t = t
    <2>1. o1 = [o EXCEPT !.p = Begun(p)]
      BY <1>1, <1>2, <1>3, OnEscape
    <2>2. IsShow(o1)
      BY <1>3, HandledIs DEF At
    <2> QED
      BY <1>1, <1>2, <2>1, <2>2
  <1>5. o1.p.state = "BRACKET" /\ o1.p.index = 0 /\ o1.p.args[0] = Empty /\ DOMAIN o1.p = DOMAIN p
    <2>1. DOMAIN p = {"state", "index", "args", "given"} /\ DOMAIN p.args = 0..MaxArgs /\ 0 \in 0..MaxArgs
      BY <1>2, SizeFacts DEF IsParser
    <2>2. PICK q : q = Begun(p)
      OBVIOUS
    <2>3. q = [p EXCEPT !.state = "BRACKET", !.index = 0, !.args[0] = Empty, !.given = <<Empty>>]
      BY <2>2 DEF Begun
    <2>4. q.state = "BRACKET" /\ q.index = 0 /\ q.args[0] = Empty /\ DOMAIN q = DOMAIN p
      BY <2>1, <2>3
    <2> QED
      BY <1>4, <2>2, <2>4
  <1>6. PICK o2 : o2 = Handled(o1, "[")
    OBVIOUS
  <1>7. IsShow(o2) /\ o2 = [o1 EXCEPT !.p.state = "ARGS"]
    <2>1. IsShow(o2)
      BY <1>4, <1>6, HandledIs
    <2> QED
      BY <1>5, <1>6, <2>1, OnBracket
  <1>8. o2.p.state = "ARGS" /\ o2.p.index = 0 /\ o2.p.args[0] = Empty /\ o2.t = t /\ IsParser(o2.p)
    BY <1>4, <1>5, <1>7 DEF IsShow, IsParser
  <1>9. PICK e : e = Ended(o2.p)
    OBVIOUS
  <1>10. e.args \in [0..MaxArgs -> Int] /\ e.args[0] = Empty
    <2>1. PICK q : q = o2.p
      OBVIOUS
    <2>2. PICK next : next = IF q.index < MaxArgs THEN q.index + 1 ELSE q.index
      OBVIOUS
    <2>3. e.args = [q.args EXCEPT ![next] = Empty] /\ e.args \in [0..MaxArgs -> Int]
      BY <1>8, <1>9, <2>1, <2>2, EndedIs
    <2>4. next = 1
      BY <1>8, <2>1, <2>2, SizeFacts
    <2> QED
      BY <1>8, <2>1, <2>3, <2>4
  <1>11. Count(e, 0) = 1
    <2>1. 0 \in 0..MaxArgs /\ ~(e.args[0] > 0)
      BY <1>10, SizeFacts DEF Empty
    <2> QED
      BY <1>10, <2>1, CountIs
  <1>12. \A k \in Nat : k < Wrap => k % Wrap = k
    BY SmallRemainder, SizeFacts
  <1>13. 1 % Wrap = 1 /\ 1 < Wrap
    BY <1>12, SizeFacts
  <1>14. ASSUME NEW c \in {"C", "D"}
         PROVE  LET v == Handled(o2, c)
                IN  IsShow(v) /\ v.p.state = "ESC" /\ v.t = Performed(e, t, c)
    <2>1. PICK v : v = Handled(o2, c)
      OBVIOUS
    <2>2. c \in {"C", "D", "H"} /\ o2.t = t
      BY <1>8
    <2>3. v = [p |-> [e EXCEPT !.state = "ESC"], t |-> Performed(e, t, c)]
      BY <1>8, <1>9, <2>1, <2>2, OnLast
    <2>4. IsShow(v)
      BY <1>7, <2>1, HandledIs
    <2>5. v.p = [e EXCEPT !.state = "ESC"] /\ v.t = Performed(e, t, c)
      BY <2>3
    <2>6. v.p.state = "ESC"
      <3>1. DOMAIN v.p = {"state", "index", "args", "given"}
        BY <2>4 DEF IsShow, IsParser
      <3> QED
        BY <2>5, <3>1
    <2> QED
      BY <2>1, <2>4, <2>5, <2>6
  <1>15. ASSUME x > 0
         PROVE  At(Handled(o2, "D"), y, x - 1, row)
    <2>1. Performed(e, t, "D") = [t EXCEPT !.x = IF @ >= 1 % Wrap THEN (@ - 1) % Wrap ELSE 0]
      BY <1>11 DEF Performed
    <2>2. (x - 1) % Wrap = x - 1
      BY <1>2, <1>12, <1>15, SizeFacts
    <2>3. PICK u : u = Performed(e, t, "D")
      OBVIOUS
    <2>4. u.x = x - 1 /\ u.y = y /\ (\A k \in Columns : u.cells[y][k] = row[k])
      BY <1>2, <1>13, <1>15, <2>1, <2>2, <2>3 DEF IsScreen
    <2>5. PICK v : v = Handled(o2, "D")
      OBVIOUS
    <2>6. IsShow(v) /\ v.p.state = "ESC" /\ v.t = u
      BY <1>14, <2>3, <2>5
    <2> QED
      BY <2>4, <2>5, <2>6 DEF At
  <1>16. ASSUME x + 1 < Width
         PROVE  At(Handled(o2, "C"), y, x + 1, row)
    <2>1. Performed(e, t, "C") = [t EXCEPT !.x = Min({(@ + 1) % Wrap, Width - 1})]
      BY <1>11 DEF Performed
    <2>2. (x + 1) % Wrap = x + 1
      BY <1>2, <1>12, <1>16, SizeFacts
    <2>3. PICK u : u = Performed(e, t, "C")
      OBVIOUS
    <2>4. Min({x + 1, Width - 1}) = x + 1
      BY <1>2, <1>16, SizeFacts, MinPair
    <2>5. u = [t EXCEPT !.x = x + 1]
      BY <1>2, <2>1, <2>2, <2>3, <2>4
    <2>6. u.x = x + 1 /\ u.y = y /\ (\A k \in Columns : u.cells[y][k] = row[k])
      BY <1>2, <2>5 DEF IsScreen
    <2>7. PICK v : v = Handled(o2, "C")
      OBVIOUS
    <2>8. IsShow(v) /\ v.p.state = "ESC" /\ v.t = u
      BY <1>14, <2>3, <2>7
    <2> QED
      BY <2>6, <2>7, <2>8 DEF At
  <1> QED
    BY <1>3, <1>6, <1>15, <1>16

\* f holds what is shown after each character of a text.
IsTrace(f, text) ==
    Len(text) \in Nat /\ \A i \in 1..Len(text) : f[i] = Handled(f[i - 1], text[i])

\* What the m characters after the j-th of a text are, and what they make of a row.
Plain(text, j, m) == \A i \in 1..m : text[j + i] \notin Special
Backs(text, j, m) == \A i \in 1..m : text[j + i] = BS

Wrote(row1, row, text, j, m, x) ==
    /\ \A i \in 1..m : row1[x + i - 1] = text[j + i]
    /\ \A k \in Columns : k < x \/ k >= x + m => row1[k] = row[k]

Erased(row1, row, m, x) ==
    \A k \in Columns : row1[k] = IF k >= x - m /\ k < x THEN Blank ELSE row[k]

\* The m characters after the j-th of a text are printed one after the other.
LEMMA Prints ==
    ASSUME NEW f, NEW text, IsTrace(f, text),
           NEW j \in Nat, NEW m \in Nat, NEW e, e = j + m, e <= Len(text),
           Plain(text, j, m),
           NEW y, NEW x, NEW row, At(f[j], y, x, row),
           NEW x1, x1 = x + m, x1 < Width
    PROVE  \E row1 : At(f[e], y, x1, row1) /\ Wrote(row1, row, text, j, m, x)
  <1> DEFINE r(i) == [k \in Columns |-> IF k \in x..(x + i - 1) THEN text[j + 1 + k - x] ELSE row[k]]
             G == {i \in 0..m : At(f[j + i], y, x + i, r(i))}
  <1>1. x \in Nat /\ \A i \in 1..Len(text) : f[i] = Handled(f[i - 1], text[i])
    BY AtFacts DEF IsTrace
  <1>0. Len(text) \in Nat
    BY DEF IsTrace
  <1>2. 0 \in G
    <2>1. \A k \in Columns : r(0)[k] = row[k]
      BY <1>1 DEF Columns
    <2>2. j + 0 = j /\ x + 0 = x /\ DOMAIN r(0) = Columns
      BY <1>1
    <2> HIDE DEF r
    <2> QED
      BY <2>1, <2>2 DEF At
  <1>3. ASSUME NEW i \in 0..(m - 1), i \in G
        PROVE  i + 1 \in G
    <2>1. At(f[j + i], y, x + i, r(i))
      BY <1>3
    <2>2. /\ j + (i + 1) \in 1..Len(text) /\ (j + (i + 1)) - 1 = j + i
          /\ i + 1 \in 1..m /\ x + (i + 1) = (x + i) + 1 /\ (x + i) + 1 < Width
      BY <1>0, <1>1, SizeFacts
    <2>3. f[j + (i + 1)] = Handled(f[j + i], text[j + (i + 1)]) /\ text[j + (i + 1)] \notin Special
      <3>1. j + (i + 1) \in 1..Len(text) /\ f[j + (i + 1)] = Handled(f[j + i], text[j + (i + 1)])
        BY <1>1, <2>2
      <3> QED
        BY <2>2, <3>1 DEF Plain
    <2>4. PICK c, a, b : c = text[j + (i + 1)] /\ a = f[j + i] /\ b = x + i
      OBVIOUS
    <2>5. r(i + 1) = [r(i) EXCEPT ![x + i] = c]
      <3>1. \A k \in Columns : (k \in x..(x + (i + 1) - 1) <=> (k \in x..(x + i - 1) \/ k = x + i))
                               /\ (k = x + i => j + 1 + k - x = j + (i + 1))
        BY <1>1 DEF Columns
      <3> QED
        BY <2>4, <3>1
    <2> HIDE DEF r
    <2>6. At(Handled(a, c), y, b + 1, [r(i) EXCEPT ![b] = c])
      <3>1. PICK q : q = r(i)
        OBVIOUS
      <3> QED
        BY <2>1, <2>2, <2>3, <2>4, <3>1, PrintStep
    <2>7. At(f[j + (i + 1)], y, x + (i + 1), r(i + 1))
      BY <2>2, <2>3, <2>4, <2>5, <2>6
    <2> QED
      BY <2>7
  <1>4. m \in G
    <2> HIDE DEF G
    <2>1. 0..m \subseteq G
      BY <1>2, <1>3, UpTo
    <2> QED
      BY <2>1
  <1>5. At(f[e], y, x1, r(m))
    BY <1>4
  <1>6. ASSUME NEW i \in 1..m
        PROVE  r(m)[x + i - 1] = text[j + i]
    <2>1. /\ x + i - 1 \in Columns /\ x + i - 1 \in x..(x + m - 1)
          /\ j + 1 + (x + i - 1) - x = j + i
      BY <1>1, SizeFacts DEF Columns
    <2> QED
      BY <2>1
  <1>7. ASSUME NEW k \in Columns, k < x \/ k >= x + m
        PROVE  r(m)[k] = row[k]
    <2>1. k \notin x..(x + m - 1)
      BY <1>1, <1>7 DEF Columns
    <2> QED
      BY <2>1
  <1> HIDE DEF r
  <1>8. Wrote(r(m), row, text, j, m, x)
    BY <1>6, <1>7 DEF Wrote
  <1> QED
    BY <1>5, <1>8

\* The m backspaces after the j-th character of a text erase one cell each.
LEMMA Erases ==
    ASSUME NEW f, NEW text, IsTrace(f, text),
           NEW j \in Nat, NEW m \in Nat, NEW e, e = j + m, e <= Len(text),
           Backs(text, j, m),
           NEW y, NEW x, NEW row, At(f[j], y, x, row),
           NEW x1, x1 = x - m, m <= x
    PROVE  \E row1 : At(f[e], y, x1, row1) /\ Erased(row1, row, m, x)
  <1> DEFINE r(i) == [k \in Columns |-> IF k \in (x - i)..(x - 1) THEN Blank ELSE row[k]]
             G == {i \in 0..m : At(f[j + i], y, x - i, r(i))}
  <1>1. x \in Nat /\ \A i \in 1..Len(text) : f[i] = Handled(f[i - 1], text[i])
    BY AtFacts DEF IsTrace
  <1>0. Len(text) \in Nat
    BY DEF IsTrace
  <1>2. 0 \in G
    <2>1. \A k \in Columns : r(0)[k] = row[k]
      BY <1>1 DEF Columns
    <2>2. j + 0 = j /\ x - 0 = x /\ DOMAIN r(0) = Columns
      BY <1>1
    <2> HIDE DEF r
    <2> QED
      BY <2>1, <2>2 DEF At
  <1>3. ASSUME NEW i \in 0..(m - 1), i \in G
        PROVE  i + 1 \in G
    <2>1. At(f[j + i], y, x - i, r(i))
      BY <1>3
    <2>2. /\ j + (i + 1) \in 1..Len(text) /\ (j + (i + 1)) - 1 = j + i
          /\ i + 1 \in 1..m /\ x - (i + 1) = (x - i) - 1 /\ x - i > 0
      BY <1>0, <1>1
    <2>3. f[j + (i + 1)] = Handled(f[j + i], BS)
      <3>1. f[j + (i + 1)] = Handled(f[j + i], text[j + (i + 1)])
        BY <1>1, <2>2
      <3> QED
        BY <2>2, <3>1 DEF Backs
    <2>4. PICK a, b : a = f[j + i] /\ b = x - i
      OBVIOUS
    <2>5. r(i + 1) = [r(i) EXCEPT ![(x - i) - 1] = Blank]
      <3>1. \A k \in Columns : k \in (x - (i + 1))..(x - 1) <=> (k \in (x - i)..(x - 1) \/ k = (x - i) - 1)
        BY <1>1 DEF Columns
      <3> QED
        BY <3>1
    <2> HIDE DEF r
    <2>6. At(Handled(a, BS), y, b - 1, [r(i) EXCEPT ![b - 1] = Blank])
      <3>1. PICK q : q = r(i)
        OBVIOUS
      <3> QED
        BY <2>1, <2>2, <2>4, <3>1, EraseStep
    <2>7. At(f[j + (i + 1)], y, x - (i + 1), r(i + 1))
      BY <2>2, <2>3, <2>4, <2>5, <2>6
    <2> QED
      BY <2>7
  <1>4. m \in G
    <2> HIDE DEF G
    <2>1. 0..m \subseteq G
      BY <1>2, <1>3, UpTo
    <2> QED
      BY <2>1
  <1>5. At(f[e], y, x1, r(m))
    BY <1>4
  <1>6. ASSUME NEW k \in Columns
        PROVE  r(m)[k] = IF k >= x - m /\ k < x THEN Blank ELSE row[k]
    <2>1. k \in (x - m)..(x - 1) <=> k >= x - m /\ k < x
      BY <1>1 DEF Columns
    <2> QED
      BY <2>1
  <1> HIDE DEF r
  <1>7. Erased(r(m), row, m, x)
    BY <1>6 DEF Erased
  <1> QED
    BY <1>5, <1>7

\* n times a text of one character, or an arrow.
LEMMA TimesOne ==
    ASSUME NEW n \in Nat, NEW c
    PROVE  Times(n, <<c>>) = [i \in 1..n |-> c]
  <1>1. \A i \in Int : i % 1 \in 0..0
    BY DivMod
  <1>2. \A i \in 1..n : ((i - 1) % 1) + 1 = 1
    BY <1>1
  <1>3. Len(<<c>>) = 1 /\ n * 1 = n /\ <<c>>[1] = c
    OBVIOUS
  <1>4. Times(n, <<c>>) = [i \in 1..n |-> <<c>>[((i - 1) % 1) + 1]]
    BY <1>3 DEF Times
  <1> QED
    BY <1>2, <1>3, <1>4

IsArrows(v, n, c) ==
    /\ Len(v) = 3 * n
    /\ \A k \in 0..(n - 1) : v[3 * k + 1] = ESC /\ v[3 * k + 2] = "[" /\ v[3 * k + 3] = c

LEMMA ArrowsText ==
    ASSUME NEW n \in Nat, NEW c, NEW v, v = Times(n, <<ESC, "[", c>>)
    PROVE  IsArrows(v, n, c)
  <1> PICK a, b : a = ESC /\ b = "["
    OBVIOUS
  <1>0. PICK s : s = <<a, b, c>> /\ v = Times(n, s)
    OBVIOUS
  <1>1. Len(s) = 3 /\ n * 3 = 3 * n /\ s[1] = a /\ s[2] = b /\ s[3] = c
    BY <1>0
  <1>2. v = [i \in 1..(3 * n) |-> s[((i - 1) % 3) + 1]]
    BY <1>0, <1>1 DEF Times
  <1>3. \A k \in Int, r \in 0..2 : (3 * k + r) % 3 = r
    BY RemainderUnique
  <1>4. ASSUME NEW k \in 0..(n - 1), NEW r \in 0..2
        PROVE  v[3 * k + (r + 1)] = s[r + 1]
    <2>1. 3 * k + (r + 1) \in 1..(3 * n) /\ (3 * k + (r + 1)) - 1 = 3 * k + r
      OBVIOUS
    <2>2. (3 * k + r) % 3 = r
      BY <1>3
    <2> QED
      BY <1>2, <2>1, <2>2
  <1>5. \A k \in 0..(n - 1) : v[3 * k + 1] = s[1] /\ v[3 * k + 2] = s[2] /\ v[3 * k + 3] = s[3]
    <2> TAKE k \in 0..(n - 1)
    <2>1. v[3 * k + (0 + 1)] = s[0 + 1] /\ v[3 * k + (1 + 1)] = s[1 + 1] /\ v[3 * k + (2 + 1)] = s[2 + 1]
      BY <1>4
    <2> QED
      BY <2>1
  <1>6. Len(v) = 3 * n
    <2>1. 3 * n \in Nat /\ DOMAIN v = 1..(3 * n)
      BY <1>2
    <2>2. PICK S : \A i \in 1..3 : s[i] \in S
      <3>1. \A i \in 1..3 : s[i] \in {a, b, c}
        BY <1>1
      <3> QED
        BY <3>1
    <2>3. \A i \in 1..(3 * n) : ((i - 1) % 3) + 1 \in 1..3
      BY DivMod
    <2>4. v \in [1..(3 * n) -> S]
      BY <1>2, <2>2, <2>3
    <2> QED
      BY <2>1, <2>4
  <1> QED
    BY <1>1, <1>5, <1>6 DEF IsArrows

-----------------------------------------------------------------------------
(* The line and its echo.                                                  *)

\* What EchoInStep says of a kept line, whose row is `row` with the cursor in column
\* x, and that it fits the row.
InStep(row, x, col, left, right) ==
    /\ x = col + Len(left)
    /\ col + Len(left) + Len(right) < Width
    /\ \A i \in 1..(Len(left) + Len(right)) :
          row[col + i - 1] \in {(left \o right)[i], Blank}

IsConcat(v, s, u) ==
    /\ Len(s) \in Nat /\ Len(u) \in Nat /\ Len(v) = Len(s) + Len(u)
    /\ \A i \in 1..Len(s) : v[i] = s[i]
    /\ \A i \in 1..Len(u) : v[Len(s) + i] = u[i]

LEMMA ConcatIs ==
    ASSUME NEW S, NEW s \in Seq(S), NEW u \in Seq(S)
    PROVE  s \o u \in Seq(S) /\ IsConcat(s \o u, s, u)
  BY DEF IsConcat

LEMMA LineIs ==
    ASSUME NEW left \in Seq(Typed), NEW right \in Seq(Typed),
           NEW i \in 1..(Len(left) + Len(right))
    PROVE  (left \o right)[i] = IF i <= Len(left) THEN left[i] ELSE right[i - Len(left)]
  OBVIOUS

LEMMA WiderSeq ==
    ASSUME NEW S, NEW T, S \subseteq T, NEW s \in Seq(S)
    PROVE  s \in Seq(T)
  OBVIOUS

LEMMA TypedIs ==
    /\ \A c \in Typed \union {Blank} : c \notin Special
  BY TypedAssumption DEF Special, Blank, ESC, NL, CR, TAB, BS, NUL

LEMMA BackIs ==
    ASSUME NEW n \in Nat, NEW S, BS \in S
    PROVE  /\ Times(n, <<BS>>) \in Seq(S) /\ Len(Times(n, <<BS>>)) = n
           /\ \A i \in 1..n : Times(n, <<BS>>)[i] = BS
  <1>1. PICK b : b = BS
    OBVIOUS
  <1>2. PICK v : v = Times(n, <<b>>)
    OBVIOUS
  <1>3. v = [i \in 1..n |-> b]
    BY <1>2, TimesOne
  <1>4. v \in [1..n -> S]
    BY <1>1, <1>3
  <1>5. v \in Seq(S) /\ Len(v) = n /\ \A i \in 1..n : v[i] = b
    BY <1>3, <1>4
  <1> QED
    BY <1>1, <1>2, <1>5

\* The cells of a row are those of the terminal.
LEMMA AtInStep ==
    ASSUME NEW o, NEW y, NEW x, NEW row, At(o, y, x, row),
           NEW col \in Nat, NEW left \in Seq(Typed), NEW right \in Seq(Typed)
    PROVE  InStep(row, x, col, left, right) <=>
             InStep(o.t.cells[o.t.y], o.t.x, col, left, right)
  <1>1. PICK w : w = o.t.cells[o.t.y]
    OBVIOUS
  <1>2. o.t.x = x /\ \A k \in Columns : w[k] = row[k]
    BY <1>1 DEF At
  <1>3. ASSUME col + Len(left) + Len(right) < Width, NEW i \in 1..(Len(left) + Len(right))
        PROVE  w[col + i - 1] = row[col + i - 1]
    <2>1. col + i - 1 \in Columns
      BY <1>3, SizeFacts DEF Columns
    <2> QED
      BY <1>2, <2>1
  <1> QED
    BY <1>1, <1>2, <1>3 DEF InStep

\* Put's characters, one after the other.
LEMMA PutTrace ==
    ASSUME NEW text, Len(text) \in Nat
    PROVE  \E f : f[0] = Now /\ Put(text) = f[Len(text)] /\ IsTrace(f, text)
  BY PutIs DEF IsTrace

\* n arrows go n columns to the left or the right.
LEMMA Shifts ==
    ASSUME NEW n \in Nat, NEW c \in {"C", "D"},
           NEW y, NEW x, NEW row, At(Now, y, x, row),
           NEW x1, x1 = IF c = "D" THEN x - n ELSE x + n,
           c = "D" => n <= x, c = "C" => x + n < Width
    PROVE  At(Put(Times(n, <<ESC, "[", c>>)), y, x1, row)
  <1>1. PICK text : text = Times(n, <<ESC, "[", c>>)
    OBVIOUS
  <1>2. /\ Len(text) = 3 * n
        /\ \A k \in 0..(n - 1) : text[3 * k + 1] = ESC /\ text[3 * k + 2] = "[" /\ text[3 * k + 3] = c
    <2>1. IsArrows(text, n, c)
      BY <1>1, ArrowsText
    <2> QED
      BY <2>1 DEF IsArrows
  <1>0. Len(text) \in Nat /\ x \in Nat
    BY <1>2, AtFacts
  <1>9. PICK f : f[0] = Now /\ Put(text) = f[Len(text)] /\ IsTrace(f, text)
    BY <1>0, PutTrace
  <1>3. \A i \in 1..(3 * n) : f[i] = Handled(f[i - 1], text[i])
    BY <1>2, <1>9 DEF IsTrace
  <1> DEFINE at(i) == IF c = "D" THEN x - i ELSE x + i
             G == {i \in 0..n : At(f[3 * i], y, at(i), row)}
  <1>4. 0 \in G
    <2>1. 3 * 0 = 0 /\ at(0) = x
      BY <1>0
    <2> HIDE DEF at
    <2> QED
      BY <1>9, <2>1
  <1>5. ASSUME NEW i \in 0..(n - 1), i \in G
        PROVE  i + 1 \in G
    <2>1. /\ 3 * (i + 1) = 3 * i + 3 /\ {3 * i + 1, 3 * i + 2, 3 * i + 3} \subseteq 1..(3 * n)
          /\ (3 * i + 1) - 1 = 3 * i /\ (3 * i + 2) - 1 = 3 * i + 1 /\ (3 * i + 3) - 1 = 3 * i + 2
      OBVIOUS
    <2>2. f[3 * i + 3] = Handled(Handled(Handled(f[3 * i], ESC), "["), c)
      BY <1>2, <1>3, <2>1
    <2>3. PICK o, a : o = f[3 * i] /\ a = at(i)
      OBVIOUS
    <2>4. At(o, y, a, row)
      BY <1>5, <2>3
    <2>5. at(i + 1) = (IF c = "D" THEN a - 1 ELSE a + 1) /\ (c = "D" => a > 0) /\ (c = "C" => a + 1 < Width)
      BY <1>0, <2>3, SizeFacts
    <2>6. At(f[3 * i + 3], y, IF c = "D" THEN a - 1 ELSE a + 1, row)
      BY <2>2, <2>3, <2>4, <2>5, ShiftStep
    <2>7. At(f[3 * (i + 1)], y, at(i + 1), row)
      BY <2>1, <2>5, <2>6
    <2> QED
      BY <2>7
  <1>6. n \in G
    <2> HIDE DEF G
    <2>1. 0..n \subseteq G /\ n \in 0..n
      BY <1>4, <1>5, UpTo
    <2> QED
      BY <2>1
  <1>7. At(f[3 * n], y, at(n), row) /\ at(n) = x1
    BY <1>6
  <1> HIDE DEF at
  <1>8. At(f[Len(text)], y, x1, row)
    BY <1>2, <1>7
  <1> QED
    BY <1>1, <1>8, <1>9

\* Insert: the character, what is right of it, and back.
LEMMA InsertText ==
    ASSUME NEW right \in Seq(Typed), NEW c \in Typed, NEW n, n = Len(right),
           NEW text, text = InsertEcho(c, right)
    PROVE  /\ n \in Nat /\ Len(text) = 2 * n + 1 /\ text[1] = c
           /\ Plain(text, 0, n + 1) /\ Backs(text, n + 1, n)
  <1> DEFINE S == Typed \union {BS, Blank}
  <1>1. n \in Nat /\ Typed \subseteq S /\ BS \in S /\ \A i \in 1..n : right[i] \in Typed
    OBVIOUS
  <1>2. PICK one, B : one = <<c>> /\ B = Times(n, <<BS>>)
    OBVIOUS
  <1> HIDE DEF S
  <1>3. B \in Seq(S) /\ Len(B) = n /\ \A i \in 1..n : B[i] = BS
    BY <1>1, <1>2, BackIs
  <1>4. right \in Seq(S) /\ one \in Seq(Typed) /\ one \in Seq(S) /\ Len(one) = 1 /\ one[1] = c
    BY <1>1, <1>2, WiderSeq
  <1>5. PICK h : h = one \o right
    OBVIOUS
  <1>6. /\ h \in Seq(S) /\ Len(h) = 1 + n /\ h[1] = c
        /\ \A i \in 1..n : h[1 + i] = right[i]
    <2>1. h \in Seq(S) /\ IsConcat(h, one, right)
      BY <1>4, <1>5, ConcatIs
    <2> QED
      BY <1>4, <2>1 DEF IsConcat
  <1>7. text = h \o B
    BY <1>2, <1>5 DEF InsertEcho
  <1>8. /\ Len(text) = Len(h) + n /\ \A i \in 1..Len(h) : text[i] = h[i]
        /\ \A i \in 1..n : text[Len(h) + i] = BS
    <2>1. IsConcat(text, h, B)
      BY <1>3, <1>6, <1>7, ConcatIs
    <2> QED
      BY <1>3, <2>1 DEF IsConcat
  <1>9. ASSUME NEW i \in 1..(n + 1)
        PROVE  text[0 + i] \notin Special
    <2>1. i = 1 \/ (i - 1 \in 1..n /\ 1 + (i - 1) = i)
      BY <1>1
    <2>2. i - 1 \in 1..n => h[1 + (i - 1)] = right[i - 1] /\ right[i - 1] \in Typed
      BY <1>1, <1>6
    <2>3. h[i] \in Typed
      BY <1>6, <2>1, <2>2
    <2>4. i \in 1..Len(h) /\ 0 + i = i
      BY <1>1, <1>6
    <2> QED
      BY <1>8, <2>3, <2>4, TypedIs
  <1>10. 1 \in 1..(n + 1) /\ Len(h) = n + 1 /\ Len(h) + n = 2 * n + 1
    BY <1>1, <1>6
  <1> QED
    BY <1>1, <1>6, <1>8, <1>9, <1>10 DEF Plain, Backs

LEMMA InsertShown ==
    ASSUME NEW left \in Seq(Typed), NEW right \in Seq(Typed), NEW c \in Typed, NEW col \in Nat,
           NEW y, NEW x, NEW row, At(Now, y, x, row), InStep(row, x, col, left, right),
           NEW left1, left1 = Append(left, c), col + Len(left1) + Len(right) < Width,
           NEW o, o = Put(InsertEcho(c, right))
    PROVE  InStep(o.t.cells[o.t.y], o.t.x, col, left1, right)
  <1>1. PICK text, n, a : text = InsertEcho(c, right) /\ n = Len(right) /\ a = Len(left)
    OBVIOUS
  <1>2. /\ n \in Nat /\ Len(text) = 2 * n + 1 /\ text[1] = c
        /\ Plain(text, 0, n + 1) /\ Backs(text, n + 1, n)
    BY <1>1, InsertText
  <1>3. a \in Nat /\ x = col + a /\ x \in Nat
    BY <1>1 DEF InStep
  <1>4. /\ left1 \in Seq(Typed) /\ Len(left1) = a + 1 /\ left1[a + 1] = c
        /\ \A i \in 1..a : left1[i] = left[i]
    BY <1>1
  <1>5. PICK f : f[0] = Now /\ Put(text) = f[Len(text)] /\ IsTrace(f, text)
    <2>1. Len(text) \in Nat
      BY <1>2
    <2> QED
      BY <2>1, PutTrace
  <1>6. PICK m, x1, e : m = n + 1 /\ x1 = x + m /\ e = 2 * n + 1
    OBVIOUS
  <1>7. /\ m \in Nat /\ x1 \in Nat /\ x1 < Width /\ m <= Len(text) /\ 0 + m = m /\ 0 \in Nat
        /\ e = m + n /\ e = Len(text) /\ n <= x1 /\ x1 - n = x + 1
    <2>1. col + (a + 1) + n < Width
      BY <1>1, <1>4
    <2>2. x1 = col + a + (n + 1) /\ x1 \in Nat /\ m \in Nat /\ 0 + m = m /\ 0 \in Nat
      BY <1>2, <1>3, <1>6
    <2>3. x1 < Width
      BY <1>2, <1>3, <2>1, <2>2, SizeFacts
    <2>4. m <= Len(text) /\ e = m + n /\ e = Len(text)
      BY <1>2, <1>6
    <2>5. n <= x1 /\ x1 - n = x + 1
      BY <1>2, <1>3, <1>6
    <2> QED
      BY <2>2, <2>3, <2>4, <2>5
  <1>9. PICK row1 : At(f[m], y, x1, row1) /\ Wrote(row1, row, text, 0, m, x)
    <2>1. Plain(text, 0, m) /\ At(f[0], y, x, row)
      BY <1>2, <1>5, <1>6
    <2> QED
      BY <1>5, <1>6, <1>7, <2>1, Prints
  <1>8. /\ \A i \in 1..m : row1[x + i - 1] = text[i]
        /\ \A k \in Columns : k < x \/ k >= x1 => row1[k] = row[k]
    BY <1>6, <1>9 DEF Wrote
  <1>13. PICK x2 : x2 = x1 - n
    OBVIOUS
  <1>10. PICK row2 : At(f[e], y, x2, row2) /\ Erased(row2, row1, n, x1)
    <2>1. Backs(text, m, n) /\ e <= Len(text)
      BY <1>2, <1>6, <1>7
    <2> QED
      BY <1>2, <1>5, <1>7, <1>9, <1>13, <2>1, Erases
  <1>15. \A k \in Columns : row2[k] = IF k >= x1 - n /\ k < x1 THEN Blank ELSE row1[k]
    BY <1>10 DEF Erased
  <1>11. ASSUME NEW i \in 1..(Len(left1) + n)
         PROVE  row2[col + i - 1] \in {(left1 \o right)[i], Blank}
    <2>1. PICK k : k = col + i - 1
      OBVIOUS
    <2>2. k \in Columns /\ k \in Nat /\ i \in Nat /\ i >= 1
      BY <1>1, <1>4, <1>3, <1>2, <2>1, SizeFacts DEF Columns
    <2>3. (left1 \o right)[i] = IF i <= Len(left1) THEN left1[i] ELSE right[i - Len(left1)]
      BY <1>1, <1>4, LineIs
    <2>4. CASE i <= a
      <3>1. k < x /\ ~(k >= x1 - n)
        BY <1>3, <1>7, <2>1, <2>2, <2>4
      <3>2. row2[k] = row[k]
        BY <1>8, <1>15, <2>2, <3>1
      <3>3. i \in 1..(Len(left) + Len(right)) /\ i \in 1..a /\ i <= Len(left1) /\ i <= Len(left)
        BY <1>1, <1>2, <1>3, <1>4, <2>2, <2>4
      <3>4. row[k] \in {(left \o right)[i], Blank}
        BY <2>1, <3>3 DEF InStep
      <3>5. (left \o right)[i] = left[i] /\ (left1 \o right)[i] = left[i]
        BY <1>4, <2>3, <3>3, LineIs
      <3> QED
        BY <2>1, <3>2, <3>4, <3>5
    <2>5. CASE i = a + 1
      <3>1. k = x + 1 - 1 /\ ~(k >= x1 - n) /\ 1 \in 1..m /\ i <= Len(left1)
        BY <1>2, <1>3, <1>4, <1>6, <1>7, <2>1, <2>2, <2>5
      <3>2. row2[k] = text[1]
        BY <1>8, <1>15, <2>2, <3>1
      <3> QED
        BY <1>2, <1>4, <2>1, <2>3, <2>5, <3>1, <3>2
    <2>6. CASE i > a + 1
      <3>1. k >= x1 - n /\ k < x1
        BY <1>2, <1>3, <1>4, <1>6, <1>7, <2>1, <2>2, <2>6
      <3> QED
        BY <1>15, <2>1, <2>2, <3>1
    <2>7. i <= a \/ i = a + 1 \/ i > a + 1
      BY <1>3, <2>2
    <2> QED
      BY <2>4, <2>5, <2>6, <2>7
  <1>12. InStep(row2, x2, col, left1, right)
    <2>1. x2 = col + Len(left1)
      BY <1>3, <1>4, <1>7, <1>13
    <2>2. \A i \in 1..(Len(left1) + Len(right)) : row2[col + i - 1] \in {(left1 \o right)[i], Blank}
      BY <1>1, <1>11
    <2> QED
      BY <2>1, <2>2 DEF InStep
  <1>14. At(o, y, x2, row2)
    BY <1>1, <1>5, <1>7, <1>10
  <1> QED
    BY <1>4, <1>12, <1>14, AtInStep

\* Backspace: back, what is right of the cursor, a blank over its end, and back.
LEMMA BackspaceText ==
    ASSUME NEW right \in Seq(Typed), NEW n, n = Len(right),
           NEW text, text = <<BS>> \o right \o <<Blank>> \o Times(n + 1, <<BS>>)
    PROVE  /\ n \in Nat /\ Len(text) = 2 * n + 3
           /\ Backs(text, 0, 1) /\ Plain(text, 1, n + 1) /\ Backs(text, n + 2, n + 1)
  <1> DEFINE S == Typed \union {BS, Blank}
  <1>1. /\ n \in Nat /\ n + 1 \in Nat /\ Typed \subseteq S /\ BS \in S /\ Blank \in S
        /\ \A i \in 1..n : right[i] \in Typed
    OBVIOUS
  <1>2. PICK one, b, B : one = <<BS>> /\ b = <<Blank>> /\ B = Times(n + 1, <<BS>>)
    OBVIOUS
  <1> HIDE DEF S
  <1>3. B \in Seq(S) /\ Len(B) = n + 1 /\ \A i \in 1..(n + 1) : B[i] = BS
    <2>1. PICK k : k = n + 1
      OBVIOUS
    <2> QED
      BY <1>1, <1>2, <2>1, BackIs
  <1>4. /\ right \in Seq(S) /\ one \in Seq(S) /\ Len(one) = 1 /\ one[1] = BS
        /\ b \in Seq(S) /\ Len(b) = 1 /\ b[1] = Blank
    BY <1>1, <1>2, WiderSeq
  <1>5. PICK h, g : h = one \o right /\ g = h \o b
    OBVIOUS
  <1>6. h \in Seq(S) /\ IsConcat(h, one, right)
    BY <1>4, <1>5, ConcatIs
  <1>7. g \in Seq(S) /\ IsConcat(g, h, b)
    BY <1>4, <1>5, <1>6, ConcatIs
  <1>8. text = g \o B
    BY <1>2, <1>5
  <1>9. IsConcat(text, g, B)
    BY <1>3, <1>7, <1>8, ConcatIs
  <1>10. Len(h) = n + 1 /\ h[1] = BS /\ \A i \in 1..n : h[1 + i] = right[i]
    BY <1>4, <1>6 DEF IsConcat
  <1>11. Len(g) = n + 2 /\ g[n + 2] = Blank /\ \A i \in 1..(n + 1) : g[i] = h[i]
    <2>1. Len(g) = (n + 1) + 1 /\ \A i \in 1..(n + 1) : g[i] = h[i]
      BY <1>4, <1>7, <1>10 DEF IsConcat
    <2>2. g[(n + 1) + 1] = Blank
      BY <1>4, <1>7, <1>10 DEF IsConcat
    <2> QED
      BY <1>1, <2>1, <2>2
  <1>12. /\ Len(text) = (n + 2) + (n + 1) /\ \A i \in 1..(n + 2) : text[i] = g[i]
         /\ \A i \in 1..(n + 1) : text[(n + 2) + i] = BS
    <2>1. Len(text) = Len(g) + Len(B) /\ \A i \in 1..Len(g) : text[i] = g[i]
      BY <1>9 DEF IsConcat
    <2>2. \A i \in 1..Len(B) : text[Len(g) + i] = B[i]
      BY <1>9 DEF IsConcat
    <2>3. PICK p, q : p = n + 2 /\ q = n + 1
      OBVIOUS
    <2>4. Len(g) = p /\ Len(B) = q /\ \A i \in 1..q : B[i] = BS
      BY <1>3, <1>11, <2>3
    <2>5. Len(text) = p + q /\ (\A i \in 1..p : text[i] = g[i]) /\ \A i \in 1..q : text[p + i] = BS
      BY <2>1, <2>2, <2>4
    <2> QED
      BY <2>3, <2>5
  <1>13. text[0 + 1] = BS
    BY <1>1, <1>10, <1>11, <1>12
  <1>14. ASSUME NEW i \in 1..(n + 1)
         PROVE  text[1 + i] \notin Special
    <2>1. CASE i = n + 1
      <3>1. 1 + i = n + 2 /\ n + 2 \in 1..(n + 2)
        BY <1>1, <2>1
      <3>2. text[n + 2] = g[n + 2]
        BY <1>12, <3>1
      <3> QED
        BY <1>11, <3>1, <3>2, TypedIs
    <2>2. CASE i # n + 1
      <3>1. i \in 1..n /\ 1 + i \in 1..(n + 1) /\ 1 + i \in 1..(n + 2)
        BY <1>1, <2>2
      <3>2. text[1 + i] = right[i] /\ right[i] \in Typed
        BY <1>1, <1>10, <1>11, <1>12, <3>1
      <3> QED
        BY <3>2, TypedIs
    <2> QED
      BY <2>1, <2>2
  <1>15. Backs(text, 0, 1)
    <2>1. \A i \in 1..1 : i = 1
      OBVIOUS
    <2> QED
      BY <1>13, <2>1 DEF Backs
  <1>16. Plain(text, 1, n + 1) /\ Backs(text, n + 2, n + 1)
    BY <1>12, <1>14 DEF Plain, Backs
  <1>17. Len(text) = 2 * n + 3
    BY <1>1, <1>12
  <1> QED
    BY <1>1, <1>15, <1>16, <1>17

LEMMA BackspaceShown ==
    ASSUME NEW left \in Seq(Typed), left # <<>>, NEW right \in Seq(Typed), NEW col \in Nat,
           NEW y, NEW x, NEW row, At(Now, y, x, row), InStep(row, x, col, left, right),
           NEW left1, left1 = Front(left),
           NEW o, o = Put(<<BS>> \o right \o <<Blank>> \o Times(Len(right) + 1, <<BS>>))
    PROVE  InStep(o.t.cells[o.t.y], o.t.x, col, left1, right)
  <1>1. PICK text, n, a : /\ text = <<BS>> \o right \o <<Blank>> \o Times(n + 1, <<BS>>)
                          /\ n = Len(right) /\ a = Len(left)
    OBVIOUS
  <1>2. /\ n \in Nat /\ Len(text) = 2 * n + 3
        /\ Backs(text, 0, 1) /\ Plain(text, 1, n + 1) /\ Backs(text, n + 2, n + 1)
    BY <1>1, BackspaceText
  <1>3. a \in Nat /\ a >= 1 /\ x = col + a /\ x \in Nat /\ col + a + n < Width
    BY <1>1 DEF InStep
  <1>4. /\ left1 \in Seq(Typed) /\ Len(left1) = a - 1
        /\ \A i \in 1..(a - 1) : left1[i] = left[i]
    BY <1>1, <1>3 DEF Front
  <1>5. PICK f : f[0] = Now /\ Put(text) = f[Len(text)] /\ IsTrace(f, text)
    <2>1. Len(text) \in Nat
      BY <1>2
    <2> QED
      BY <2>1, PutTrace
  <1>6. PICK m, j, e, x0, x1 : m = n + 1 /\ j = n + 2 /\ e = 2 * n + 3 /\ x0 = x - 1 /\ x1 = x0 + m
    OBVIOUS
  <1>7. /\ m \in Nat /\ j \in Nat /\ x0 \in Nat /\ x1 \in Nat /\ x1 < Width
        /\ 1 <= x /\ m <= x1 /\ 1 = 0 + 1 /\ 1 \in Nat /\ 0 \in Nat
        /\ j = 1 + m /\ e = j + m /\ e = Len(text) /\ x0 = x1 - m
        /\ 1 <= Len(text) /\ j <= Len(text) /\ e <= Len(text)
    BY <1>2, <1>3, <1>6, SizeFacts
  <1>8. PICK row0 : At(f[1], y, x0, row0) /\ Erased(row0, row, 1, x)
    <2>1. At(f[0], y, x, row) /\ Backs(text, 0, 1)
      BY <1>2, <1>5
    <2> QED
      BY <1>5, <1>6, <1>7, <2>1, Erases
  <1>9. PICK row1 : At(f[j], y, x1, row1) /\ Wrote(row1, row0, text, 1, m, x0)
    <2>1. Plain(text, 1, m)
      BY <1>2, <1>6
    <2> QED
      BY <1>5, <1>6, <1>7, <1>8, <2>1, Prints
  <1>10. PICK row2 : At(f[e], y, x0, row2) /\ Erased(row2, row1, m, x1)
    <2>1. Backs(text, j, m)
      BY <1>2, <1>6
    <2> QED
      BY <1>5, <1>6, <1>7, <1>9, <2>1, Erases
  <1>11. ASSUME NEW k \in Columns
         PROVE  /\ k < x0 => row2[k] = row[k]
                /\ k >= x0 /\ k < x1 => row2[k] = Blank
    <2>1. k \in Nat /\ x0 = x - 1 /\ x1 = x0 + m /\ x1 - m = x0
      BY <1>6, <1>7, SizeFacts DEF Columns
    <2>2. row2[k] = IF k >= x1 - m /\ k < x1 THEN Blank ELSE row1[k]
      BY <1>10 DEF Erased
    <2>3. k < x0 => row1[k] = row0[k]
      BY <1>9 DEF Wrote
    <2>4. row0[k] = IF k >= x - 1 /\ k < x THEN Blank ELSE row[k]
      BY <1>8 DEF Erased
    <2> QED
      BY <1>3, <1>7, <2>1, <2>2, <2>3, <2>4
  <1>12. ASSUME NEW i \in 1..(Len(left1) + n)
         PROVE  row2[col + i - 1] \in {(left1 \o right)[i], Blank}
    <2>1. PICK k : k = col + i - 1
      OBVIOUS
    <2>2. k \in Columns /\ k \in Nat /\ i \in Nat /\ i >= 1 /\ i <= a - 1 + n
      BY <1>1, <1>2, <1>3, <1>4, <2>1, SizeFacts DEF Columns
    <2>3. (left1 \o right)[i] = IF i <= Len(left1) THEN left1[i] ELSE right[i - Len(left1)]
      BY <1>1, <1>4, LineIs
    <2>4. CASE i <= a - 1
      <3>1. k < x0
        BY <1>3, <1>6, <2>1, <2>2, <2>4
      <3>2. row2[k] = row[k]
        BY <1>11, <2>2, <3>1
      <3>3. i \in 1..(Len(left) + Len(right)) /\ i \in 1..(a - 1) /\ i <= Len(left1) /\ i <= Len(left)
        BY <1>1, <1>2, <1>3, <1>4, <2>2, <2>4
      <3>4. row[k] \in {(left \o right)[i], Blank}
        BY <2>1, <3>3 DEF InStep
      <3>5. (left \o right)[i] = left[i] /\ (left1 \o right)[i] = left[i]
        BY <1>4, <2>3, <3>3, LineIs
      <3> QED
        BY <2>1, <3>2, <3>4, <3>5
    <2>5. CASE i > a - 1
      <3>1. k >= x0 /\ k < x1
        BY <1>2, <1>3, <1>6, <2>1, <2>2, <2>5
      <3> QED
        BY <1>11, <2>1, <2>2, <3>1
    <2>6. i <= a - 1 \/ i > a - 1
      BY <1>3, <2>2
    <2> QED
      BY <2>4, <2>5, <2>6
  <1>13. InStep(row2, x0, col, left1, right)
    <2>1. x0 = col + Len(left1) /\ col + Len(left1) + Len(right) < Width
      BY <1>1, <1>2, <1>3, <1>4, <1>6, SizeFacts
    <2>2. \A i \in 1..(Len(left1) + Len(right)) : row2[col + i - 1] \in {(left1 \o right)[i], Blank}
      BY <1>1, <1>12
    <2> QED
      BY <2>1, <2>2 DEF InStep
  <1>14. At(o, y, x0, row2)
    BY <1>1, <1>5, <1>7, <1>10
  <1> QED
    BY <1>4, <1>13, <1>14, AtInStep

\* The arrows: the text of the line stays.
SameText(left1, right1, left, right) ==
    /\ Len(left1) + Len(right1) = Len(left) + Len(right)
    /\ \A i \in 1..(Len(left) + Len(right)) : (left1 \o right1)[i] = (left \o right)[i]

\* o is what n arrows make of the screen, and left1 of what is left of the cursor.
Arrows(o, n, c, left, left1) ==
    /\ o = Put(Times(n, <<ESC, "[", c>>))
    /\ Len(left1) = IF c = "D" THEN Len(left) - n ELSE Len(left) + n

LEMMA ArrowShown ==
    ASSUME NEW left \in Seq(Typed), NEW right \in Seq(Typed), NEW col \in Nat,
           NEW left1 \in Seq(Typed), NEW right1 \in Seq(Typed), SameText(left1, right1, left, right),
           NEW y, NEW x, NEW row, At(Now, y, x, row), InStep(row, x, col, left, right),
           NEW n \in Nat, NEW c \in {"C", "D"},
           NEW o, Arrows(o, n, c, left, left1)
    PROVE  InStep(o.t.cells[o.t.y], o.t.x, col, left1, right1)
  <1>1. PICK x1 : x1 = IF c = "D" THEN x - n ELSE x + n
    OBVIOUS
  <1>2. PICK a, b, a1, b1 : a = Len(left) /\ b = Len(right) /\ a1 = Len(left1) /\ b1 = Len(right1)
    OBVIOUS
  <1>3. a \in Nat /\ b \in Nat /\ a1 \in Nat /\ b1 \in Nat
    BY <1>2
  <1>4. x = col + a /\ col + a + b < Width /\ a1 + b1 = a + b
    BY <1>2 DEF InStep, SameText
  <1>7. (c = "D" => a1 = a - n) /\ (c = "C" => a1 = a + n) /\ (c = "C" \/ c = "D")
    BY <1>2 DEF Arrows
  <1>8. col + a1 + b1 < Width
    BY <1>3, <1>4, SizeFacts
  <1>9. x1 = col + a1 /\ (c = "D" => n <= x) /\ (c = "C" => x + n < Width)
    BY <1>1, <1>3, <1>4, <1>7, <1>8, SizeFacts
  <1>5. At(o, y, x1, row)
    BY <1>1, <1>9, Shifts DEF Arrows
  <1>6. InStep(row, x1, col, left1, right1)
    BY <1>2, <1>8, <1>9 DEF InStep, SameText
  <1> QED
    BY <1>5, <1>6, AtInStep

GoneLeft(left1, right1, left, right, n) ==
    LET k == Len(left) - n
    IN  left1 = SubSeq(left, 1, k) /\ right1 = SubSeq(left, k + 1, k + n) \o right

LEMMA LeftText ==
    ASSUME NEW left \in Seq(Typed), NEW right \in Seq(Typed), NEW n \in 1..Len(left),
           NEW left1, NEW right1, GoneLeft(left1, right1, left, right, n)
    PROVE  /\ left1 \in Seq(Typed) /\ right1 \in Seq(Typed) /\ Len(left1) = Len(left) - n
           /\ SameText(left1, right1, left, right)
  <1>0. PICK a, r, k : a = Len(left) /\ r = Len(right) /\ k = Len(left) - n
    OBVIOUS
  <1>10. left1 = SubSeq(left, 1, k) /\ right1 = SubSeq(left, k + 1, k + n) \o right
    BY <1>0 DEF GoneLeft
  <1>1. a \in Nat /\ n \in Nat /\ k \in Nat /\ k + n = a /\ r \in Nat
    BY <1>0
  <1>2. PICK s : s = SubSeq(left, k + 1, k + n)
    OBVIOUS
  <1>3. left1 \in Seq(Typed) /\ Len(left1) = k /\ \A i \in 1..k : left1[i] = left[i]
    BY <1>0, <1>1, <1>10
  <1>4. s \in Seq(Typed) /\ Len(s) = n /\ \A i \in 1..n : s[i] = left[k + i]
    BY <1>0, <1>1, <1>2
  <1>5. right1 \in Seq(Typed) /\ IsConcat(right1, s, right)
    BY <1>2, <1>4, <1>10, ConcatIs
  <1>6. Len(right1) = n + r
    BY <1>0, <1>4, <1>5 DEF IsConcat
  <1>7. ASSUME NEW i \in 1..(Len(left) + Len(right))
        PROVE  (left1 \o right1)[i] = (left \o right)[i]
    <2>0. i \in Nat /\ i >= 1 /\ i <= a + r
      BY <1>0, <1>1
    <2>1. i \in 1..(Len(left1) + Len(right1))
      <3>1. i \in 1..(k + (n + r))
        BY <1>1, <2>0
      <3> QED
        BY <1>3, <1>6, <3>1
    <2>2. (left1 \o right1)[i] = IF i <= k THEN left1[i] ELSE right1[i - k]
      <3>1. (left1 \o right1)[i] = IF i <= Len(left1) THEN left1[i] ELSE right1[i - Len(left1)]
        BY <1>3, <1>5, <2>1, LineIs
      <3> QED
        BY <1>3, <3>1
    <2>3. (left \o right)[i] = IF i <= k + n THEN left[i] ELSE right[i - (k + n)]
      <3>1. (left \o right)[i] = IF i <= Len(left) THEN left[i] ELSE right[i - Len(left)]
        BY LineIs
      <3> QED
        BY <1>0, <1>1, <3>1
    <2>4. CASE i <= k
      <3>1. i \in 1..k /\ i <= k + n
        BY <1>1, <2>0, <2>4
      <3> QED
        BY <1>3, <2>2, <2>3, <2>4, <3>1
    <2>5. CASE i > k /\ i <= k + n
      <3>1. i - k \in 1..n /\ k + (i - k) = i /\ ~(i <= k)
        BY <1>1, <2>0, <2>5
      <3>2. right1[i - k] = s[i - k]
        BY <1>4, <1>5, <3>1 DEF IsConcat
      <3> QED
        BY <1>4, <2>2, <2>3, <2>5, <3>1, <3>2
    <2>6. CASE i > k + n
      <3>1. i - (k + n) \in 1..r /\ n + (i - (k + n)) = i - k /\ ~(i <= k) /\ ~(i <= k + n)
        BY <1>1, <2>0, <2>6
      <3>2. right1[n + (i - (k + n))] = right[i - (k + n)]
        BY <1>0, <1>4, <1>5, <3>1 DEF IsConcat
      <3> QED
        BY <2>2, <2>3, <3>1, <3>2
    <2>7. i <= k \/ (i > k /\ i <= k + n) \/ i > k + n
      BY <1>1, <2>0
    <2> QED
      BY <2>4, <2>5, <2>6, <2>7
  <1>8. Len(left1) + Len(right1) = Len(left) + Len(right)
    <2>1. k + (n + r) = (k + n) + r
      BY <1>1
    <2> QED
      BY <1>0, <1>1, <1>3, <1>6, <2>1
  <1>9. Len(left1) = Len(left) - n
    BY <1>0, <1>3
  <1> QED
    BY <1>3, <1>5, <1>7, <1>8, <1>9 DEF SameText

GoneRight(left1, right1, left, right, n) ==
    left1 = left \o SubSeq(right, 1, n) /\ right1 = SubSeq(right, n + 1, Len(right))

LEMMA RightText ==
    ASSUME NEW left \in Seq(Typed), NEW right \in Seq(Typed), NEW n \in 1..Len(right),
           NEW left1, NEW right1, GoneRight(left1, right1, left, right, n)
    PROVE  /\ left1 \in Seq(Typed) /\ right1 \in Seq(Typed) /\ Len(left1) = Len(left) + n
           /\ SameText(left1, right1, left, right)
  <1>1. PICK a : a = Len(left)
    OBVIOUS
  <1>10. left1 = left \o SubSeq(right, 1, n) /\ right1 = SubSeq(right, n + 1, Len(right))
    BY DEF GoneRight
  <1>2. a \in Nat /\ n \in Nat /\ Len(right) \in Nat /\ n <= Len(right) /\ n >= 1
    BY <1>1
  <1>3. PICK s : s = SubSeq(right, 1, n)
    OBVIOUS
  <1>4. s \in Seq(Typed) /\ Len(s) = n /\ \A i \in 1..n : s[i] = right[i]
    BY <1>2, <1>3
  <1>5. left1 \in Seq(Typed) /\ IsConcat(left1, left, s)
    BY <1>3, <1>4, <1>10, ConcatIs
  <1>6. Len(left1) = a + n
    BY <1>1, <1>4, <1>5 DEF IsConcat
  <1>7. /\ right1 \in Seq(Typed) /\ Len(right1) = Len(right) - n
        /\ \A i \in 1..(Len(right) - n) : right1[i] = right[n + i]
    BY <1>2, <1>10
  <1>8. ASSUME NEW i \in 1..(Len(left) + Len(right))
        PROVE  (left1 \o right1)[i] = (left \o right)[i]
    <2>1. i \in 1..(Len(left1) + Len(right1))
      BY <1>1, <1>2, <1>6, <1>7
    <2>2. (left1 \o right1)[i] = IF i <= a + n THEN left1[i] ELSE right1[i - (a + n)]
      <3>1. (left1 \o right1)[i] = IF i <= Len(left1) THEN left1[i] ELSE right1[i - Len(left1)]
        BY <1>5, <1>7, <2>1, LineIs
      <3> QED
        BY <1>6, <3>1
    <2>3. (left \o right)[i] = IF i <= a THEN left[i] ELSE right[i - a]
      BY <1>1, LineIs
    <2>4. CASE i <= a
      <3>1. i \in 1..a /\ i <= a + n
        BY <1>1, <1>2, <2>4
      <3>2. left1[i] = left[i]
        BY <1>1, <1>5, <3>1 DEF IsConcat
      <3> QED
        BY <2>2, <2>3, <2>4, <3>1, <3>2
    <2>5. CASE i > a /\ i <= a + n
      <3>1. i - a \in 1..n /\ a + (i - a) = i /\ ~(i <= a)
        BY <1>1, <1>2, <2>5
      <3>2. left1[a + (i - a)] = s[i - a]
        BY <1>1, <1>4, <1>5, <3>1 DEF IsConcat
      <3> QED
        BY <1>4, <2>2, <2>3, <2>5, <3>1, <3>2
    <2>6. CASE i > a + n
      <3>1. i - (a + n) \in 1..(Len(right) - n) /\ n + (i - (a + n)) = i - a /\ ~(i <= a) /\ ~(i <= a + n)
        BY <1>1, <1>2, <2>6
      <3> QED
        BY <1>7, <2>2, <2>3, <3>1
    <2>7. i <= a \/ (i > a /\ i <= a + n) \/ i > a + n
      BY <1>1, <1>2
    <2> QED
      BY <2>4, <2>5, <2>6, <2>7
  <1>9. Len(left1) + Len(right1) = Len(left) + Len(right)
    <2>1. PICK r : r = Len(right)
      OBVIOUS
    <2>2. (a + n) + (r - n) = a + r
      BY <1>2, <2>1
    <2> QED
      BY <1>1, <1>6, <1>7, <2>1, <2>2
  <1> QED
    BY <1>1, <1>5, <1>6, <1>7, <1>8, <1>9 DEF SameText

-----------------------------------------------------------------------------
(* The invariant.                                                          *)

IsLine(l) ==
    /\ DOMAIN l = {"left", "right", "col", "kept"}
    /\ l.left \in Seq(Typed) /\ l.right \in Seq(Typed) /\ l.col \in Columns /\ l.kept \in BOOLEAN

\* A line as it is on a terminal.
OnScreen(t, l) == InStep(t.cells[t.y], t.x, l.col, l.left, l.right)

TermInv ==
    /\ current_tty \in Ttys
    /\ DOMAIN tty = Ttys /\ \A t \in Ttys : IsScreen(tty[t])
    /\ IsParser(parser)
    /\ DOMAIN line = Ttys /\ \A t \in Ttys : IsLine(line[t])
    /\ \A t \in Ttys : line[t].kept => OnScreen(tty[t], line[t])

LEMMA NoLineIs ==
    ASSUME NEW t, IsScreen(t)
    PROVE  IsLine(NoLine(t.x)) /\ OnScreen(t, NoLine(t.x))
  <1>1. t.x \in Columns /\ t.x \in Nat /\ t.x < Width
    BY SizeFacts DEF IsScreen, Columns
  <1>2. <<>> \in Seq(Typed) /\ Len(<<>>) = 0
    OBVIOUS
  <1>3. PICK l : l = NoLine(t.x)
    OBVIOUS
  <1>4. DOMAIN l = {"left", "right", "col", "kept"} /\ l.left = <<>> /\ l.right = <<>> /\ l.col = t.x /\ l.kept
    BY <1>3 DEF NoLine
  <1>5. IsLine(l)
    BY <1>1, <1>2, <1>3, <1>4 DEF IsLine, NoLine
  <1>6. PICK x, row : x = t.x /\ row = t.cells[t.y]
    OBVIOUS
  <1>7. InStep(row, x, x, <<>>, <<>>)
    <2>1. x = x + 0 /\ x + 0 + 0 < Width /\ 1..(0 + 0) = {}
      BY <1>1, <1>6, SizeFacts
    <2> QED
      BY <1>2, <2>1 DEF InStep
  <1> QED
    BY <1>3, <1>4, <1>5, <1>6, <1>7 DEF OnScreen

LEMMA InitInv == Init => TermInv
  <1> SUFFICES ASSUME Init PROVE TermInv
    OBVIOUS
  <1>1. current_tty \in Ttys
    BY TermAssumption DEF Init
  <1>2. DOMAIN tty = Ttys /\ \A t \in Ttys : tty[t] = Clear
    BY DEF Init
  <1>3. IsScreen(Clear) /\ IsParser(Idle) /\ Clear.x = 0
    BY ClearIs, IdleIs DEF Clear
  <1>4. DOMAIN line = Ttys /\ \A t \in Ttys : line[t] = NoLine(0)
    BY DEF Init
  <1>5. IsLine(NoLine(0)) /\ OnScreen(Clear, NoLine(0))
    <2>1. PICK t : t = Clear
      OBVIOUS
    <2> QED
      BY <1>3, <2>1, NoLineIs
  <1>6. parser = Idle
    BY DEF Init
  <1> QED
    BY <1>1, <1>2, <1>3, <1>4, <1>5, <1>6 DEF TermInv

\* What is shown on the current terminal, with its line.
LEMMA ShownKeeps ==
    ASSUME TermInv, NEW o, IsShow(o), Show(o), NEW l, IsLine(l), l.kept => OnScreen(o.t, l),
           line' = [line EXCEPT ![current_tty] = l], UNCHANGED current_tty
    PROVE  TermInv'
  <1>1. current_tty \in Ttys /\ DOMAIN tty = Ttys /\ DOMAIN line = Ttys
    BY DEF TermInv
  <1>2. tty' = [tty EXCEPT ![current_tty] = o.t] /\ parser' = o.p
    BY DEF Show
  <1>3. IsScreen(o.t) /\ IsParser(o.p)
    BY DEF IsShow
  <1>4. DOMAIN tty' = Ttys /\ DOMAIN line' = Ttys
    BY <1>1, <1>2
  <1>5. ASSUME NEW t \in Ttys
        PROVE  IsScreen(tty'[t]) /\ IsLine(line'[t]) /\ (line'[t].kept => OnScreen(tty'[t], line'[t]))
    <2>1. CASE t = current_tty
      <3>1. tty'[t] = o.t /\ line'[t] = l
        BY <1>1, <1>2, <2>1
      <3> QED
        BY <1>3, <3>1
    <2>2. CASE t # current_tty
      <3>1. tty'[t] = tty[t] /\ line'[t] = line[t]
        BY <1>1, <1>2, <2>2
      <3> QED
        BY <3>1 DEF TermInv
    <2> QED
      BY <2>1, <2>2
  <1> QED
    BY <1>1, <1>2, <1>3, <1>4, <1>5 DEF TermInv

LEMMA NowIs ==
    ASSUME TermInv
    PROVE  /\ IsShow(Now) /\ IsLine(line[current_tty])
           /\ Now.t = tty[current_tty] /\ Now.p = parser
  BY DEF TermInv, IsShow, Now

LEMMA WriteInv ==
    ASSUME TermInv, NEW text, Len(text) \in Nat, Write(text)
    PROVE  TermInv'
  <1>1. PICK o : o = Put(text)
    OBVIOUS
  <1>2. PICK l : l = line[current_tty]
    OBVIOUS
  <1>3. IsShow(o) /\ IsLine(l)
    BY <1>1, <1>2, NowIs, PutShows
  <1>4. Show(o) /\ UNCHANGED current_tty
    BY <1>1 DEF Write
  <1>5. PICK nl : nl = IF l.left \o l.right = <<>> THEN NoLine(o.t.x) ELSE [l EXCEPT !.kept = FALSE]
    OBVIOUS
  <1>6. line' = [line EXCEPT ![current_tty] = nl]
    BY <1>1, <1>2, <1>5 DEF Write
  <1>7. IsLine(nl) /\ (nl.kept => OnScreen(o.t, nl))
    <2>1. CASE nl = NoLine(o.t.x)
      <3>1. PICK t : t = o.t
        OBVIOUS
      <3> QED
        BY <1>3, <2>1, <3>1, NoLineIs DEF IsShow
    <2>2. CASE nl = [l EXCEPT !.kept = FALSE]
      BY <1>3, <2>2 DEF IsLine
    <2> QED
      BY <1>5, <2>1, <2>2
  <1> QED
    BY <1>3, <1>4, <1>6, <1>7, ShownKeeps

LEMMA EnterInv ==
    ASSUME TermInv, Enter
    PROVE  TermInv'
  <1>1. PICK o : o = Put(<<NL>>)
    OBVIOUS
  <1>2. IsShow(o)
    <2>1. PICK text : text = <<NL>>
      OBVIOUS
    <2>2. Len(text) \in Nat
      BY <2>1
    <2> QED
      BY <1>1, <2>1, <2>2, NowIs, PutShows
  <1>3. Show(o) /\ UNCHANGED current_tty /\ line' = [line EXCEPT ![current_tty] = NoLine(o.t.x)]
    BY <1>1 DEF Enter
  <1>4. PICK nl : nl = NoLine(o.t.x)
    OBVIOUS
  <1>5. IsLine(nl) /\ OnScreen(o.t, nl)
    <2>1. PICK t : t = o.t
      OBVIOUS
    <2> QED
      BY <1>2, <1>4, <2>1, NoLineIs DEF IsShow
  <1> QED
    BY <1>2, <1>3, <1>4, <1>5, ShownKeeps

LEMMA SwitchInv ==
    ASSUME TermInv, NEW t \in Ttys, Switch(t)
    PROVE  TermInv'
  BY DEF TermInv, Switch

\* An echo of a line l1 that is made of the terminal's.
LEMMA EchoInv ==
    ASSUME TermInv, NEW l1, NEW text, Len(text) \in Nat, Echo(l1, text), IsLine(l1),
           NEW l, l = line[current_tty], l1.kept = l.kept, l1.col = l.col,
           NEW y, NEW x, NEW row,
           y = tty[current_tty].y, x = tty[current_tty].x, row = tty[current_tty].cells[y],
           NEW o, o = Put(text),
           At(Now, y, x, row) /\ InStep(row, x, l.col, l.left, l.right)
             /\ l1.col + Len(l1.left) + Len(l1.right) < Width => OnScreen(o.t, l1)
    PROVE  TermInv'
  <1>1. IsShow(o)
    BY NowIs, PutShows
  <1>2. PICK fits : fits = (l1.col + Len(l1.left) + Len(l1.right) < Width)
    OBVIOUS
  <1>3. PICK k : k = (l1.kept /\ fits /\ parser.state = "ESC") /\ k \in BOOLEAN
    OBVIOUS
  <1>4. PICK nl : nl = [l1 EXCEPT !.kept = k]
    OBVIOUS
  <1>5. Show(o) /\ UNCHANGED current_tty /\ line' = [line EXCEPT ![current_tty] = nl]
    BY <1>2, <1>3, <1>4 DEF Echo
  <1>6. IsLine(nl) /\ nl.left = l1.left /\ nl.right = l1.right /\ nl.col = l1.col /\ nl.kept = k
    BY <1>3, <1>4 DEF IsLine
  <1>7. ASSUME k PROVE OnScreen(o.t, nl)
    <2>1. l.kept /\ parser.state = "ESC" /\ l1.col + Len(l1.left) + Len(l1.right) < Width
      BY <1>2, <1>3, <1>7
    <2>2. InStep(row, x, l.col, l.left, l.right)
      BY <2>1 DEF TermInv, OnScreen
    <2>3. At(Now, y, x, row)
      <3>1. /\ IsShow(Now) /\ Now.t = tty[current_tty] /\ Now.p = parser
            /\ IsScreen(tty[current_tty])
        BY NowIs DEF TermInv
      <3>2. PICK t : t = tty[current_tty]
        OBVIOUS
      <3>3. DOMAIN row = Columns
        BY <3>1, <3>2 DEF IsScreen
      <3> QED
        BY <2>1, <3>1, <3>3 DEF At
    <2>4. OnScreen(o.t, l1)
      BY <2>1, <2>2, <2>3
    <2> QED
      BY <1>6, <2>4 DEF OnScreen
  <1> QED
    BY <1>1, <1>5, <1>6, <1>7, ShownKeeps

LEMMA InsertInv ==
    ASSUME TermInv, NEW c \in Typed, Insert(c)
    PROVE  TermInv'
  <1>1. PICK l, y, x, row : /\ l = line[current_tty] /\ y = tty[current_tty].y
                            /\ x = tty[current_tty].x /\ row = tty[current_tty].cells[y]
    OBVIOUS
  <1>2. /\ IsLine(l) /\ l.left \in Seq(Typed) /\ l.right \in Seq(Typed) /\ l.col \in Nat
        /\ DOMAIN l = {"left", "right", "col", "kept"}
    BY <1>1, NowIs, SizeFacts DEF IsLine, Columns
  <1>3. PICK l1, text : l1 = [l EXCEPT !.left = Append(@, c)] /\ text = InsertEcho(c, l.right)
    OBVIOUS
  <1>4. Echo(l1, text)
    BY <1>1, <1>3 DEF Insert
  <1>5. /\ l1.left = Append(l.left, c) /\ l1.right = l.right /\ l1.col = l.col /\ l1.kept = l.kept
        /\ DOMAIN l1 = DOMAIN l
    BY <1>2, <1>3
  <1>6. IsLine(l1)
    BY <1>2, <1>5 DEF IsLine
  <1>7. Len(text) \in Nat
    <2>1. PICK r, n : r = l.right /\ n = Len(r)
      OBVIOUS
    <2>3. r \in Seq(Typed) /\ text = InsertEcho(c, r) /\ n = Len(r)
      BY <1>2, <1>3, <2>1
    <2>2. n \in Nat /\ Len(text) = 2 * n + 1
      BY <2>3, InsertText
    <2> QED
      BY <2>2
  <1>8. PICK o : o = Put(text)
    OBVIOUS
  <1>9. ASSUME At(Now, y, x, row), InStep(row, x, l.col, l.left, l.right),
                l1.col + Len(l1.left) + Len(l1.right) < Width
         PROVE  OnScreen(o.t, l1)
    <2>1. PICK left, right, col, left1 : /\ left = l.left /\ right = l.right /\ col = l.col
                                         /\ left1 = Append(left, c)
      OBVIOUS
    <2>2. o = Put(InsertEcho(c, right)) /\ col + Len(left1) + Len(right) < Width
      BY <1>3, <1>5, <1>8, <1>9, <2>1
    <2>3. InStep(o.t.cells[o.t.y], o.t.x, col, left1, right)
      BY <1>2, <1>9, <2>1, <2>2, InsertShown
    <2> QED
      BY <1>5, <2>1, <2>3 DEF OnScreen
  <1> QED
    BY <1>1, <1>4, <1>5, <1>6, <1>7, <1>8, <1>9, EchoInv

LEMMA BackspaceInv ==
    ASSUME TermInv, Backspace
    PROVE  TermInv'
  <1>1. PICK l, y, x, row : /\ l = line[current_tty] /\ y = tty[current_tty].y
                            /\ x = tty[current_tty].x /\ row = tty[current_tty].cells[y]
    OBVIOUS
  <1>2. /\ IsLine(l) /\ l.left \in Seq(Typed) /\ l.right \in Seq(Typed) /\ l.col \in Nat
        /\ DOMAIN l = {"left", "right", "col", "kept"}
    BY <1>1, NowIs, SizeFacts DEF IsLine, Columns
  <1>3. PICK l1, text : /\ l1 = [l EXCEPT !.left = Front(@)]
                        /\ text = <<BS>> \o l.right \o <<Blank>> \o Times(Len(l.right) + 1, <<BS>>)
    OBVIOUS
  <1>4. Echo(l1, text) /\ l.left # <<>>
    BY <1>1, <1>3 DEF Backspace
  <1>5. /\ l1.left = Front(l.left) /\ l1.right = l.right /\ l1.col = l.col /\ l1.kept = l.kept
        /\ DOMAIN l1 = DOMAIN l
    BY <1>2, <1>3
  <1>6. IsLine(l1)
    <2>1. Front(l.left) \in Seq(Typed)
      BY <1>2, <1>4 DEF Front
    <2> QED
      BY <1>2, <1>5, <2>1 DEF IsLine
  <1>7. Len(text) \in Nat
    <2>1. PICK r, n : r = l.right /\ n = Len(r)
      OBVIOUS
    <2>2. n \in Nat /\ Len(text) = 2 * n + 3
      BY <1>2, <1>3, <2>1, BackspaceText
    <2> QED
      BY <2>2
  <1>8. PICK o : o = Put(text)
    OBVIOUS
  <1>9. ASSUME At(Now, y, x, row), InStep(row, x, l.col, l.left, l.right),
                l1.col + Len(l1.left) + Len(l1.right) < Width
         PROVE  OnScreen(o.t, l1)
    <2>1. PICK left, right, col, left1 : /\ left = l.left /\ right = l.right /\ col = l.col
                                         /\ left1 = Front(left)
      OBVIOUS
    <2>2. o = Put(<<BS>> \o right \o <<Blank>> \o Times(Len(right) + 1, <<BS>>)) /\ left # <<>>
      BY <1>3, <1>4, <1>8, <2>1
    <2>3. InStep(o.t.cells[o.t.y], o.t.x, col, left1, right)
      BY <1>2, <1>9, <2>1, <2>2, BackspaceShown
    <2> QED
      BY <1>5, <2>1, <2>3 DEF OnScreen
  <1> QED
    BY <1>1, <1>4, <1>5, <1>6, <1>7, <1>8, <1>9, EchoInv

LEMMA LeftInv ==
    ASSUME TermInv, NEW n, Left(n)
    PROVE  TermInv'
  <1>1. PICK l, y, x, row : /\ l = line[current_tty] /\ y = tty[current_tty].y
                            /\ x = tty[current_tty].x /\ row = tty[current_tty].cells[y]
    OBVIOUS
  <1>2. /\ IsLine(l) /\ l.left \in Seq(Typed) /\ l.right \in Seq(Typed) /\ l.col \in Nat
        /\ DOMAIN l = {"left", "right", "col", "kept"}
    BY <1>1, NowIs, SizeFacts DEF IsLine, Columns
  <1>3. PICK left, right, k : left = l.left /\ right = l.right /\ k = Len(left) - n
    OBVIOUS
  <1>4. PICK left1, right1 : left1 = SubSeq(left, 1, k) /\ right1 = SubSeq(left, k + 1, k + n) \o right
    OBVIOUS
  <1>5. PICK l1, text : /\ l1 = [l EXCEPT !.left = left1, !.right = right1]
                        /\ text = Times(n, <<ESC, "[", "D">>)
    OBVIOUS
  <1>6. Echo(l1, text) /\ n \in 1..Len(left)
    <2>1. l1 = [l EXCEPT !.left = SubSeq(@, 1, k), !.right = SubSeq(l.left, k + 1, k + n) \o @]
      BY <1>2, <1>3, <1>4, <1>5
    <2> QED
      BY <1>1, <1>3, <1>5, <2>1 DEF Left
  <1>7. /\ left1 \in Seq(Typed) /\ right1 \in Seq(Typed) /\ Len(left1) = Len(left) - n
        /\ SameText(left1, right1, left, right)
    <2>1. /\ left \in Seq(Typed) /\ right \in Seq(Typed)
          /\ n \in 1..Len(left) /\ GoneLeft(left1, right1, left, right, n)
      BY <1>2, <1>3, <1>4, <1>6 DEF GoneLeft
    <2> QED
      BY <2>1, LeftText
  <1>8. /\ l1.left = left1 /\ l1.right = right1 /\ l1.col = l.col /\ l1.kept = l.kept
        /\ IsLine(l1)
    BY <1>2, <1>5, <1>7 DEF IsLine
  <1>9. n \in Nat /\ Len(text) \in Nat
    <2>1. n \in Nat
      BY <1>2, <1>3, <1>6
    <2>2. PICK c : c = "D"
      OBVIOUS
    <2>3. IsArrows(text, n, c)
      BY <1>5, <2>1, <2>2, ArrowsText
    <2> QED
      BY <2>1, <2>3 DEF IsArrows
  <1>10. PICK o : o = Put(text)
    OBVIOUS
  <1>11. ASSUME At(Now, y, x, row), InStep(row, x, l.col, l.left, l.right),
                l1.col + Len(l1.left) + Len(l1.right) < Width
         PROVE  OnScreen(o.t, l1)
    <2>1. PICK col, c : col = l.col /\ c = "D"
      OBVIOUS
    <2>2. c \in {"C", "D"} /\ Arrows(o, n, c, left, left1)
      BY <1>5, <1>7, <1>10, <2>1 DEF Arrows
    <2>3. InStep(o.t.cells[o.t.y], o.t.x, col, left1, right1)
      <3>1. /\ left \in Seq(Typed) /\ right \in Seq(Typed) /\ col \in Nat
            /\ At(Now, y, x, row) /\ InStep(row, x, col, left, right)
        BY <1>2, <1>3, <1>11, <2>1
      <3> QED
        BY <1>7, <1>9, <2>2, <3>1, ArrowShown
    <2> QED
      BY <1>8, <2>1, <2>3 DEF OnScreen
  <1> QED
    BY <1>1, <1>6, <1>8, <1>9, <1>10, <1>11, EchoInv

LEMMA RightInv ==
    ASSUME TermInv, NEW n, Right(n)
    PROVE  TermInv'
  <1>1. PICK l, y, x, row : /\ l = line[current_tty] /\ y = tty[current_tty].y
                            /\ x = tty[current_tty].x /\ row = tty[current_tty].cells[y]
    OBVIOUS
  <1>2. /\ IsLine(l) /\ l.left \in Seq(Typed) /\ l.right \in Seq(Typed) /\ l.col \in Nat
        /\ DOMAIN l = {"left", "right", "col", "kept"}
    BY <1>1, NowIs, SizeFacts DEF IsLine, Columns
  <1>3. PICK left, right, k : left = l.left /\ right = l.right /\ k = Len(left) - n
    OBVIOUS
  <1>4. PICK left1, right1 : left1 = left \o SubSeq(right, 1, n) /\ right1 = SubSeq(right, n + 1, Len(right))
    OBVIOUS
  <1>5. PICK l1, text : /\ l1 = [l EXCEPT !.left = left1, !.right = right1]
                        /\ text = Times(n, <<ESC, "[", "C">>)
    OBVIOUS
  <1>6. Echo(l1, text) /\ n \in 1..Len(right)
    <2>1. l1 = [l EXCEPT !.left = @ \o SubSeq(l.right, 1, n), !.right = SubSeq(@, n + 1, Len(@))]
      BY <1>2, <1>3, <1>4, <1>5
    <2> QED
      BY <1>1, <1>3, <1>5, <2>1 DEF Right
  <1>7. /\ left1 \in Seq(Typed) /\ right1 \in Seq(Typed) /\ Len(left1) = Len(left) + n
        /\ SameText(left1, right1, left, right)
    <2>1. /\ left \in Seq(Typed) /\ right \in Seq(Typed)
          /\ n \in 1..Len(right) /\ GoneRight(left1, right1, left, right, n)
      BY <1>2, <1>3, <1>4, <1>6 DEF GoneRight
    <2> QED
      BY <2>1, RightText
  <1>8. /\ l1.left = left1 /\ l1.right = right1 /\ l1.col = l.col /\ l1.kept = l.kept
        /\ IsLine(l1)
    BY <1>2, <1>5, <1>7 DEF IsLine
  <1>9. n \in Nat /\ Len(text) \in Nat
    <2>1. n \in Nat
      BY <1>2, <1>3, <1>6
    <2>2. PICK c : c = "C"
      OBVIOUS
    <2>3. IsArrows(text, n, c)
      BY <1>5, <2>1, <2>2, ArrowsText
    <2> QED
      BY <2>1, <2>3 DEF IsArrows
  <1>10. PICK o : o = Put(text)
    OBVIOUS
  <1>11. ASSUME At(Now, y, x, row), InStep(row, x, l.col, l.left, l.right),
                l1.col + Len(l1.left) + Len(l1.right) < Width
         PROVE  OnScreen(o.t, l1)
    <2>1. PICK col, c : col = l.col /\ c = "C"
      OBVIOUS
    <2>2. c \in {"C", "D"} /\ Arrows(o, n, c, left, left1)
      BY <1>5, <1>7, <1>10, <2>1 DEF Arrows
    <2>3. InStep(o.t.cells[o.t.y], o.t.x, col, left1, right1)
      <3>1. /\ left \in Seq(Typed) /\ right \in Seq(Typed) /\ col \in Nat
            /\ At(Now, y, x, row) /\ InStep(row, x, col, left, right)
        BY <1>2, <1>3, <1>11, <2>1
      <3> QED
        BY <1>7, <1>9, <2>2, <3>1, ArrowShown
    <2> QED
      BY <1>8, <2>1, <2>3 DEF OnScreen
  <1> QED
    BY <1>1, <1>6, <1>8, <1>9, <1>10, <1>11, EchoInv

LEMMA StepInv == TermInv /\ [Next]_vars => TermInv'
  <1> SUFFICES ASSUME TermInv, [Next]_vars PROVE TermInv'
    OBVIOUS
  <1>1. ASSUME NEW text \in Texts, Write(text) PROVE TermInv'
    <2>1. Len(text) \in Nat
      BY TermAssumption
    <2> QED
      BY <1>1, <2>1, WriteInv
  <1>2. ASSUME NEW c \in Typed, Insert(c) PROVE TermInv'
    BY <1>2, InsertInv
  <1>3. CASE Backspace
    BY <1>3, BackspaceInv
  <1>4. ASSUME NEW n, Left(n) PROVE TermInv'
    BY <1>4, LeftInv
  <1>5. ASSUME NEW n, Right(n) PROVE TermInv'
    BY <1>5, RightInv
  <1>6. CASE Enter
    BY <1>6, EnterInv
  <1>7. ASSUME NEW t \in Ttys, Switch(t) PROVE TermInv'
    BY <1>7, SwitchInv
  <1>8. CASE UNCHANGED vars
    BY <1>8 DEF TermInv, vars
  <1> QED
    BY <1>1, <1>2, <1>3, <1>4, <1>5, <1>6, <1>7, <1>8 DEF Next

-----------------------------------------------------------------------------
(* Theorems.                                                               *)

\* The cursors stay on their screens whatever programs write, with numbers of any size
\* in their sequences, and whatever is typed.
THEOREM TermCursorOnScreen == Spec => []CursorOnScreen
  <1>1. TermInv => CursorOnScreen
    BY DEF TermInv, CursorOnScreen, IsScreen
  <1> QED
    BY <1>1, InitInv, StepInv, PTL DEF Spec

\* Wherever a kept line is edited, the screen's cursor is at the line's and every cell of
\* the line shows its own character or a blank.
THEOREM TermEchoInStep == Spec => []EchoInStep
  <1>1. TermInv => EchoInStep
    <2> SUFFICES ASSUME TermInv, NEW t \in Ttys, line[t].kept
                 PROVE  /\ tty[t].x = line[t].col + Len(line[t].left)
                        /\ \A i \in 1..Len(TextOf(t)) : CellOf(t, i) \in {TextOf(t)[i], Blank}
      BY DEF EchoInStep
    <2>1. PICK left, right : left = line[t].left /\ right = line[t].right
      OBVIOUS
    <2>2. left \in Seq(Typed) /\ right \in Seq(Typed)
      BY <2>1 DEF TermInv, IsLine
    <2>3. Len(left \o right) = Len(left) + Len(right)
      BY <2>2
    <2>4. InStep(tty[t].cells[tty[t].y], tty[t].x, line[t].col, left, right)
      BY <2>1 DEF TermInv, OnScreen
    <2> QED
      BY <2>1, <2>3, <2>4 DEF InStep, CellOf, TextOf
  <1> QED
    BY <1>1, InitInv, StepInv, PTL DEF Spec

LEMMA LastH ==
    ASSUME NEW p, IsParser(p), p.state = "ARGS", NEW t, IsScreen(t),
           NEW u, u = Performed(Ended(p), t, "H")
    PROVE  LET at(i) == IF i <= Len(p.given) /\ p.given[i] > 0 THEN p.given[i] ELSE 1
           IN  u.y = Min({(at(1) - 1) % Wrap, Height - 1}) /\ u.x = Min({(at(2) - 1) % Wrap, Width - 1})
  <1> DEFINE at(i) == IF i <= Len(p.given) /\ p.given[i] > 0 THEN p.given[i] ELSE 1
  <1>1. PICK e, next, n : /\ e = Ended(p) /\ n = Len(p.given)
                          /\ next = IF p.index < MaxArgs THEN p.index + 1 ELSE p.index
    OBVIOUS
  <1>2. /\ next \in 1..MaxArgs
        /\ e.args = [p.args EXCEPT ![next] = Empty] /\ e.args \in [0..MaxArgs -> Int]
    BY <1>1, EndedIs
  <1>3. /\ n \in Nat /\ n >= 1 /\ p.index = IF n <= MaxArgs THEN n - 1 ELSE MaxArgs
        /\ p.args \in [0..MaxArgs -> Int]
        /\ \A i \in 1..n : i <= MaxArgs => p.given[i] = p.args[i - 1]
    BY <1>1 DEF IsParser
  <1>4. 0 \in 0..MaxArgs /\ 1 \in 0..MaxArgs /\ MaxArgs \in Nat /\ MaxArgs > 1
    BY SizeFacts
  <1>5. Count(e, 0) = at(1)
    <2>1. e.args[0] = p.args[0]
      BY <1>2, <1>3, <1>4
    <2>2. p.given[1] = p.args[1 - 1] /\ 1 - 1 = 0
      BY <1>3, <1>4
    <2>3. Count(e, 0) = IF e.args[0] > 0 THEN e.args[0] ELSE 1
      BY <1>2, <1>4, CountIs
    <2> QED
      BY <1>1, <1>3, <2>1, <2>2, <2>3
  <1>6. Count(e, 1) = at(2)
    <2>1. Count(e, 1) = IF e.args[1] > 0 THEN e.args[1] ELSE 1
      BY <1>2, <1>4, CountIs
    <2>2. CASE n = 1
      <3>1. next = 1
        BY <1>1, <1>3, <1>4, <2>2
      <3>2. e.args[1] = Empty
        BY <1>2, <1>3, <1>4, <3>1
      <3> QED
        BY <1>1, <2>1, <2>2, <3>2 DEF Empty
    <2>3. CASE n # 1
      <3>1. next # 1 /\ 2 \in 1..n /\ 2 <= MaxArgs /\ 2 - 1 = 1
        <4>1. n >= 2 /\ 2 - 1 = 1 /\ 2 <= MaxArgs
          BY <1>3, <1>4, <2>3
        <4>2. p.index \in Nat /\ p.index >= 1
          BY <1>3, <1>4, <4>1
        <4>3. next # 1
          BY <1>1, <1>4, <4>2
        <4> QED
          BY <1>3, <4>1, <4>3
      <3>2. e.args[1] = p.args[1] /\ p.given[2] = p.args[1] /\ 2 <= n
        BY <1>2, <1>3, <1>4, <3>1
      <3> QED
        BY <1>1, <2>1, <3>2
    <2> QED
      BY <2>2, <2>3
  <1>7. PICK h, w : h = Min({(at(1) - 1) % Wrap, Height - 1}) /\ w = Min({(at(2) - 1) % Wrap, Width - 1})
    OBVIOUS
  <1> HIDE DEF at
  <1>8. Performed(e, t, "H") = [t EXCEPT !.y = h, !.x = w]
    BY <1>5, <1>6, <1>7 DEF Performed
  <1>9. DOMAIN t = {"cells", "x", "y"}
    BY DEF IsScreen
  <1>10. u.y = h /\ u.x = w
    BY <1>1, <1>8, <1>9
  <1> QED
    BY <1>7, <1>10 DEF at

\* A cursor position obeys its own two numbers, however many writes it came in and
\* whatever came before it: a parser that is in a sequence holds the numbers as they
\* were written.
THEOREM TermPositionObeyed == Spec => PositionObeyed
  <1> DEFINE Obeyed ==
        Write(<<"H">>) /\ parser.state = "ARGS" =>
          LET at(i) == IF i <= Len(parser.given) /\ parser.given[i] > 0 THEN parser.given[i] ELSE 1
          IN  /\ tty'[current_tty].y = Min({(at(1) - 1) % Wrap, Height - 1})
              /\ tty'[current_tty].x = Min({(at(2) - 1) % Wrap, Width - 1})
  <1>1. TermInv => Obeyed
    <2> SUFFICES ASSUME TermInv, Write(<<"H">>), parser.state = "ARGS"
                 PROVE  Obeyed
      OBVIOUS
    <2>1. PICK text, o, p, t : /\ text = <<"H">> /\ o = Put(text)
                               /\ p = parser /\ t = tty[current_tty]
      OBVIOUS
    <2>2. IsParser(p) /\ p.state = "ARGS" /\ IsScreen(t) /\ Now.p = p /\ Now.t = t
      BY <2>1, NowIs DEF TermInv
    <2>3. Len(text) = 1 /\ text[1] = "H"
      BY <2>1
    <2>4. o = Handled(Now, "H")
      <3>1. PICK f : /\ f[0] = Now /\ Put(text) = f[Len(text)]
                     /\ \A i \in 1..Len(text) : f[i] = Handled(f[i - 1], text[i])
        BY <2>3, PutIs
      <3>2. f[1] = Handled(f[1 - 1], text[1]) /\ 1 - 1 = 0
        BY <2>3, <3>1
      <3> QED
        BY <2>1, <2>3, <3>1, <3>2
    <2>5. o.t = Performed(Ended(p), t, "H")
      <3>1. PICK s, c, e : s = Now /\ c = "H" /\ e = Ended(p)
        OBVIOUS
      <3>2. Handled(s, c) = [p |-> [e EXCEPT !.state = "ESC"], t |-> Performed(e, s.t, c)]
        BY <2>2, <3>1, OnLast
      <3> QED
        BY <2>2, <2>4, <3>1, <3>2
    <2>6. tty'[current_tty] = o.t
      <3>1. Show(o)
        BY <2>1 DEF Write
      <3> QED
        BY <3>1 DEF Show, TermInv
    <2> DEFINE at(i) == IF i <= Len(p.given) /\ p.given[i] > 0 THEN p.given[i] ELSE 1
    <2>7. PICK u : u = o.t
      OBVIOUS
    <2>9. u = Performed(Ended(p), t, "H")
      BY <2>5, <2>7
    <2>8. /\ u.y = Min({(at(1) - 1) % Wrap, Height - 1})
          /\ u.x = Min({(at(2) - 1) % Wrap, Width - 1})
      BY <2>2, <2>9, LastH, Zenon
    <2> QED
      BY <2>1, <2>6, <2>7, <2>8
  <1> HIDE DEF Obeyed
  <1>2. TermInv /\ [Next]_vars => [Obeyed]_vars
    BY <1>1
  <1>3. Spec => [][Obeyed]_vars
    BY <1>2, InitInv, StepInv, PTL DEF Spec
  <1> QED
    BY <1>3 DEF PositionObeyed, Obeyed

=============================================================================
