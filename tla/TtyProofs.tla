----------------------------- MODULE TtyProofs -----------------------------
(***************************************************************************)
(* Proofs about Tty, for any number of terminals and readers, any size of  *)
(* the buffers, any keys and any lengths of reads: its properties, and at  *)
(* the end that it implements LineTty.                                     *)
(***************************************************************************)
EXTENDS Tty, SequenceTheorems, TLAPS

-----------------------------------------------------------------------------
(* Numbers: the lesser of two, and indices of a ring.                       *)

LEMMA MinPair ==
    ASSUME NEW a \in Int, NEW b \in Int
    PROVE  Min({a, b}) = IF a <= b THEN a ELSE b
  <1>1. \E x \in {a, b} : \A y \in {a, b} : x <= y
    OBVIOUS
  <1>2. Min({a, b}) \in {a, b} /\ \A y \in {a, b} : Min({a, b}) <= y
    BY <1>1 DEF Min
  <1> QED
    BY <1>2

LEMMA MaxPair ==
    ASSUME NEW a \in Int, NEW b \in Int
    PROVE  Max({a, b}) = IF a >= b THEN a ELSE b
  <1>1. \E x \in {a, b} : \A y \in {a, b} : x >= y
    OBVIOUS
  <1>2. Max({a, b}) \in {a, b} /\ \A y \in {a, b} : Max({a, b}) >= y
    BY <1>1 DEF Max
  <1> QED
    BY <1>2

\* A remainder, where at most one turn has to be added or taken off.
LEMMA Turned ==
    ASSUME NEW w \in Nat \ {0}, NEW x \in Int, -w <= x, x < 2 * w
    PROVE  x % w = IF x < 0 THEN x + w ELSE IF x < w THEN x ELSE x - w
  <1> DEFINE d == x \div w
             m == x % w
  <1>1. d \in Int /\ m \in 0..(w - 1) /\ x = w * d + m
    OBVIOUS
  <1> HIDE DEF d, m
  <1>2. \A e \in Int : e >= 1 => w * e >= w
    OBVIOUS
  <1>3. w * (-1 - d) = (-w) - w * d /\ w * (d - 1) = w * d - w
    BY <1>1
  <1>4. ~(d >= 2) /\ ~(d <= -2)
    BY <1>1, <1>2, <1>3
  <1>5. d = -1 \/ d = 0 \/ d = 1
    BY <1>1, <1>4
  <1>6. m = IF x < 0 THEN x + w ELSE IF x < w THEN x ELSE x - w
    BY <1>1, <1>5
  <1> QED
    BY <1>6 DEF m

LEMMA CellFacts ==
    /\ Size \in Nat /\ Size >= 2
    /\ Cells \subseteq Nat /\ Cells \subseteq 0..Size /\ 0 \in Cells
    /\ Cells = 0..(Size - 1)
  BY TtyAssumption DEF Cells

\* How far a cell is behind another one, in a ring of Size cells.
LEMMA UsedIs ==
    ASSUME NEW a \in Cells, NEW b \in Cells
    PROVE  /\ Used(a, b) = IF a < b THEN a - b + Size ELSE a - b
           /\ Used(a, b) \in Cells
  <1>1. Size \in Nat \ {0} /\ a - b \in Int /\ -Size <= a - b /\ a - b < 2 * Size
    BY TtyAssumption DEF Cells
  <1>2. (a - b) % Size = IF a - b < 0 THEN a - b + Size
                         ELSE IF a - b < Size THEN a - b ELSE a - b - Size
    BY <1>1, Turned
  <1> QED
    BY <1>1, <1>2 DEF Used, Cells

\* The cell n cells further on.
LEMMA StepIs ==
    ASSUME NEW a \in Cells, NEW n \in 0..Size
    PROVE  /\ (a + n) % Size = IF a + n < Size THEN a + n ELSE a + n - Size
           /\ (a + n) % Size \in Cells
  <1> DEFINE x == a + n
  <1>1. Size \in Nat \ {0} /\ x \in Int /\ -Size <= x /\ 0 <= x /\ x < 2 * Size
    BY TtyAssumption DEF Cells
  <1> HIDE DEF x
  <1>2. x % Size = IF x < 0 THEN x + Size ELSE IF x < Size THEN x ELSE x - Size
    BY <1>1, Turned
  <1>3. x % Size = (IF x < Size THEN x ELSE x - Size) /\ x % Size \in Cells
    BY <1>1, <1>2 DEF Cells
  <1> QED
    BY <1>3, CellFacts DEF x

-----------------------------------------------------------------------------
(* The ring as a sequence.                                                  *)

\* The bytes in the ring, counted and one by one.
Count(t) == Used(input_head[t], input_tail[t])

LEMMA QueueIs ==
    ASSUME TypeOK, NEW t \in Ttys
    PROVE  /\ Count(t) \in Cells
           /\ Queue(t) \in Seq(Chars) /\ Len(Queue(t)) = Count(t)
           /\ \A i \in 1..Count(t) :
                Queue(t)[i] = input_buf[t][(input_tail[t] + i - 1) % Size]
           /\ Queue(t) # <<>> <=> Count(t) # 0
  <1>1. input_head[t] \in Cells /\ input_tail[t] \in Cells /\ input_buf[t] \in [Cells -> Chars]
    BY DEF TypeOK
  <1>2. Count(t) \in Cells /\ Count(t) \in 0..Size /\ Count(t) \in Nat
    <2>1. Count(t) \in Cells
      BY <1>1, UsedIs DEF Count
    <2> QED
      BY <2>1, CellFacts
  <1>3. ASSUME NEW i \in 1..Count(t)
        PROVE  input_buf[t][(input_tail[t] + i - 1) % Size] \in Chars
    <2>1. i - 1 \in 0..Size /\ input_tail[t] + i - 1 = input_tail[t] + (i - 1)
      BY <1>1, <1>2, CellFacts
    <2>2. (input_tail[t] + i - 1) % Size \in Cells
      BY <1>1, <2>1, StepIs
    <2> QED
      BY <1>1, <2>2
  <1>4. Queue(t) = [i \in 1..Count(t) |-> input_buf[t][(input_tail[t] + i - 1) % Size]]
    BY DEF Queue, Count
  <1>5. Queue(t) \in Seq(Chars) /\ Len(Queue(t)) = Count(t)
    BY <1>2, <1>3, <1>4
  <1>6. Queue(t) # <<>> <=> Count(t) # 0
    BY <1>2, <1>5
  <1> QED
    BY <1>2, <1>4, <1>5, <1>6

\* The same of the state a step leads to.
LEMMA QueueNext ==
    ASSUME NEW t \in Ttys
    PROVE  TypeOK' =>
             (/\ Count(t) \in Cells
              /\ Queue(t) \in Seq(Chars) /\ Len(Queue(t)) = Count(t)
              /\ \A i \in 1..Count(t) :
                   Queue(t)[i] = input_buf[t][(input_tail[t] + i - 1) % Size]
              /\ Queue(t) # <<>> <=> Count(t) # 0)'
  <1>1. TypeOK =>
             (/\ Count(t) \in Cells
              /\ Queue(t) \in Seq(Chars) /\ Len(Queue(t)) = Count(t)
              /\ \A i \in 1..Count(t) :
                   Queue(t)[i] = input_buf[t][(input_tail[t] + i - 1) % Size]
              /\ Queue(t) # <<>> <=> Count(t) # 0)
    BY QueueIs
  <1> QED
    BY <1>1, PTL

\* The ring of a terminal that a step leaves alone.
LEMMA QueueSame ==
    ASSUME NEW t \in Ttys, input_buf'[t] = input_buf[t],
           input_head'[t] = input_head[t], input_tail'[t] = input_tail[t]
    PROVE  Queue(t)' = Queue(t) /\ Count(t)' = Count(t)
  BY DEF Queue, Count

-----------------------------------------------------------------------------
(* Types.                                                                   *)

IInv == TypeOK /\ ReadyMeansInput

LEMMA InitInv == Init => IInv
  <1> SUFFICES ASSUME Init PROVE IInv
    OBVIOUS
  <1>1. 0 \in Cells /\ 0 \in 0..(Size - 1) /\ NUL \in Chars /\ <<>> \in Seq(Chars)
    BY TtyAssumption DEF Cells, Chars
  <1>2. TypeOK
    <2>1. /\ line_buffer \in [Ttys -> [Cells -> Chars]] /\ input_buf \in [Ttys -> [Cells -> Chars]]
          /\ line_length \in [Ttys -> 0..(Size - 1)] /\ line_cursor \in [Ttys -> 0..(Size - 1)]
          /\ input_head \in [Ttys -> Cells] /\ input_tail \in [Ttys -> Cells]
      BY <1>1 DEF Init
    <2>2. \A t \in Ttys : line_cursor[t] <= line_length[t]
      BY DEF Init
    <2> QED
      BY <1>1, <2>1, <2>2 DEF Init, TypeOK
  <1>3. ASSUME NEW t \in Ttys
        PROVE  line_ready[t] <=> Queue(t) # <<>>
    <2>1. Count(t) = 0
      <3>1. Used(0, 0) = 0
        BY <1>1, UsedIs
      <3> QED
        BY <3>1 DEF Init, Count
    <2> QED
      BY <1>2, <2>1, QueueIs DEF Init
  <1> QED
    BY <1>2, <1>3 DEF IInv, ReadyMeansInput

\* What the extended keys send are characters.
LEMMA SpecialTypes == \A s \in Specials : <<ESC, "[">> \o s \in Seq(Chars)
  <1>1. {ESC, "[", "A", "C", "D", "F", "H", "3", "~"} \subseteq Chars
    BY DEF Chars
  <1>2. <<ESC, "[">> \in Seq(Chars)
    BY <1>1
  <1>3. /\ <<"C">> \in Seq(Chars) /\ <<"D">> \in Seq(Chars) /\ <<"H">> \in Seq(Chars)
        /\ <<"F">> \in Seq(Chars) /\ <<"A">> \in Seq(Chars)
    BY <1>1
  <1>4. <<"3", "~">> \in Seq(Chars)
    BY <1>1
  <1>5. \A s \in Arrows : s \in Seq(Chars)
    BY <1>3, <1>4, Zenon DEF Arrows
  <1>6. \A s \in Seq(Chars) : <<ESC, "[">> \o s \in Seq(Chars)
    <2> DEFINE e == <<ESC, "[">>
    <2>1. e \in Seq(Chars)
      BY <1>2
    <2> HIDE DEF e
    <2>2. \A s \in Seq(Chars) : e \o s \in Seq(Chars)
      BY <2>1
    <2> QED
      BY <2>2 DEF e
  <1> QED
    BY <1>5, <1>6, TtyAssumption

\* A key's press and release, and a switch of terminals, touch neither line nor ring.
LEMMA KeyboardTypes ==
    ASSUME TypeOK, Keyboard
    PROVE  TypeOK' /\ UNCHANGED <<lineVars, ringVars>>
  <1> USE DEF TypeOK, lineVars, ringVars
  <1>1. \A c \in Ordinary : <<c>> \in Seq(Chars)
    BY DEF Chars
  <1>2. \A s \in Specials : <<ESC, "[">> \o s \in Seq(Chars)
    BY SpecialTypes
  <1>3. CASE PressKey
    BY <1>1, <1>3 DEF PressKey, Key
  <1>4. CASE PressCtrl
    BY <1>4 DEF PressCtrl
  <1>5. CASE tty_switch
    BY <1>5 DEF tty_switch
  <1>6. CASE Prefix
    BY <1>6 DEF Prefix
  <1>7. CASE PressExtended
    BY <1>2, <1>7 DEF PressExtended, Key
  <1>8. CASE ReleaseExtended
    BY <1>8 DEF ReleaseExtended, Key
  <1> QED
    BY <1>3, <1>4, <1>5, <1>6, <1>7, <1>8 DEF Keyboard

\* The cursor keys keep the cursor within the line.
LEMMA CursorStays ==
    ASSUME NEW length \in Nat, NEW cursor \in 0..length, NEW c
    PROVE  CursorAfter(c, cursor, length) \in 0..length
  <1>1. /\ Min({cursor + 1, length}) \in 0..length
        /\ Max({cursor - 1, 0}) \in 0..length
    BY MinPair, MaxPair
  <1> QED
    BY <1>1 DEF CursorAfter

\* A character passed to tty_input_char leaves the others to pass.
LEMMA PassTypes ==
    ASSUME TypeOK, NEW c, Passes(c)
    PROVE  /\ c \in Chars /\ pending' \in Seq(Chars)
           /\ UNCHANGED <<kbdVars, reading>>
  BY DEF Passes, TypeOK

LEMMA EscapeTypes ==
    ASSUME TypeOK, StartEscape \/ AfterEscape \/ EndEscape
    PROVE  TypeOK' /\ UNCHANGED <<ringVars, line_buffer, line_length>>
  <1>1. current_tty \in Ttys
    BY DEF TypeOK
  <1>2. CASE StartEscape
    <2>1. pending' \in Seq(Chars) /\ UNCHANGED <<kbdVars, reading, lineVars, ringVars>>
      BY <1>2, PassTypes DEF StartEscape
    <2>2. input_esc_state' \in [Ttys -> {"NORMAL", "ESC", "CSI"}]
      BY <1>1, <1>2 DEF StartEscape, EscState, TypeOK
    <2> QED
      BY <2>1, <2>2 DEF TypeOK, kbdVars, lineVars, ringVars
  <1>3. CASE AfterEscape
    <2>1. pending' \in Seq(Chars) /\ UNCHANGED <<kbdVars, reading, lineVars, ringVars>>
      BY <1>3, PassTypes DEF AfterEscape
    <2>2. input_esc_state' \in [Ttys -> {"NORMAL", "ESC", "CSI"}]
      BY <1>1, <1>3 DEF AfterEscape, EscState, TypeOK
    <2> QED
      BY <2>1, <2>2 DEF TypeOK, kbdVars, lineVars, ringVars
  <1>4. CASE EndEscape
    <2>1. PICK c \in Chars :
              /\ Passes(c)
              /\ line_cursor' = [line_cursor EXCEPT ![current_tty] =
                    CursorAfter(c, line_cursor[current_tty], line_length[current_tty])]
      BY <1>4 DEF EndEscape
    <2>2. /\ pending' \in Seq(Chars)
          /\ UNCHANGED <<kbdVars, reading, line_buffer, line_length, ringVars>>
      BY <1>4, <2>1, PassTypes DEF EndEscape
    <2>3. input_esc_state' \in [Ttys -> {"NORMAL", "ESC", "CSI"}]
      BY <1>1, <1>4 DEF EndEscape, EscState, TypeOK
    <2>4. CursorAfter(c, line_cursor[current_tty], line_length[current_tty])
            \in 0..line_length[current_tty]
      BY <1>1, <2>2, CursorStays DEF TypeOK
    <2>5. /\ line_cursor' \in [Ttys -> 0..(Size - 1)]
          /\ \A t \in Ttys : line_cursor'[t] <= line_length[t]
      <3>1. /\ line_length \in [Ttys -> 0..(Size - 1)] /\ line_cursor \in [Ttys -> 0..(Size - 1)]
            /\ \A t \in Ttys : line_cursor[t] <= line_length[t]
        BY DEF TypeOK
      <3>2. PICK k \in 0..line_length[current_tty] :
                line_cursor' = [line_cursor EXCEPT ![current_tty] = k]
        BY <2>1, <2>4
      <3>3. k \in 0..(Size - 1) /\ k <= line_length[current_tty]
        BY <1>1, <3>1, <3>2, CellFacts
      <3> QED
        BY <1>1, <3>1, <3>2, <3>3
    <2> QED
      BY <2>2, <2>3, <2>5 DEF TypeOK, kbdVars, ringVars
  <1> QED
    BY <1>2, <1>3, <1>4

-----------------------------------------------------------------------------
(* Enter.                                                                   *)

\* What EndLine calls length, line and n.
Entered(t) == Min({line_length[t] + 1, Size - 1})
EnteredLine(t) == [line_buffer[t] EXCEPT
    ![line_length[t]] = IF line_length[t] < Entered(t) THEN NL ELSE @]
Kept(t) == Min({Entered(t), Room(t)})

\* A line is never empty, and what is kept of it leaves one cell empty and
\* the ring not empty.
LEMMA EnteredIs ==
    ASSUME TypeOK, NEW t \in Ttys
    PROVE  /\ Entered(t) \in 1..(Size - 1)
           /\ Entered(t) = IF line_length[t] < Size - 1 THEN line_length[t] + 1 ELSE Size - 1
           /\ EnteredLine(t) \in [Cells -> Chars]
           /\ \A i \in Cells : EnteredLine(t)[i] =
                IF i = line_length[t] /\ i < Size - 1 THEN NL ELSE line_buffer[t][i]
           /\ Room(t) = Size - 1 - Count(t)
           /\ Kept(t) = IF Entered(t) <= Room(t) THEN Entered(t) ELSE Room(t)
           /\ Kept(t) \in 0..Size
           /\ Count(t) + Kept(t) \in 1..(Size - 1)
  <1>1. line_length[t] \in 0..(Size - 1) /\ line_buffer[t] \in [Cells -> Chars]
    BY DEF TypeOK
  <1>2. /\ Entered(t) \in 1..(Size - 1)
        /\ Entered(t) = IF line_length[t] < Size - 1 THEN line_length[t] + 1 ELSE Size - 1
    <2>1. line_length[t] + 1 \in Int /\ Size - 1 \in Int
      BY <1>1, CellFacts
    <2> QED
      BY <1>1, <2>1, CellFacts, MinPair DEF Entered
  <1>3. /\ EnteredLine(t) \in [Cells -> Chars]
        /\ \A i \in Cells : EnteredLine(t)[i] =
                IF i = line_length[t] /\ i < Size - 1 THEN NL ELSE line_buffer[t][i]
    <2>1. NL \in Chars
      BY DEF Chars
    <2>2. line_length[t] \in Cells /\ (line_length[t] < Entered(t) <=> line_length[t] < Size - 1)
      BY <1>1, <1>2, CellFacts
    <2> QED
      BY <1>1, <2>1, <2>2 DEF EnteredLine
  <1>4. Room(t) = Size - 1 - Count(t) /\ Room(t) \in 0..(Size - 1) /\ Count(t) \in 0..(Size - 1)
    BY QueueIs, CellFacts DEF Room, Count
  <1>5. Kept(t) = IF Entered(t) <= Room(t) THEN Entered(t) ELSE Room(t)
    <2>1. Entered(t) \in Int /\ Room(t) \in Int
      BY <1>2, <1>4, CellFacts
    <2> QED
      BY <2>1, MinPair DEF Kept
  <1>6. Kept(t) \in 0..Size /\ Count(t) + Kept(t) \in 1..(Size - 1)
    BY <1>2, <1>4, <1>5, CellFacts
  <1> QED
    BY <1>2, <1>3, <1>4, <1>5, <1>6

LEMMA EndLineIs ==
    ASSUME EndLine
    PROVE  LET t == current_tty IN
           /\ Passes(NL)
           /\ line_buffer' = [line_buffer EXCEPT ![t] = EnteredLine(t)]
           /\ input_buf' = [input_buf EXCEPT ![t] =
                 [i \in Cells |-> IF Used(i, input_head[t]) < Kept(t)
                                  THEN EnteredLine(t)[Used(i, input_head[t])]
                                  ELSE input_buf[t][i]]]
           /\ input_head' = [input_head EXCEPT ![t] = (input_head[t] + Kept(t)) % Size]
           /\ line_length' = [line_length EXCEPT ![t] = 0]
           /\ line_cursor' = [line_cursor EXCEPT ![t] = 0]
           /\ line_ready' = [line_ready EXCEPT ![t] = TRUE]
           /\ UNCHANGED <<input_esc_state, input_tail>>
  BY Zenon DEF EndLine, Entered, EnteredLine, Kept

\* A head that goes on, or a tail that follows.
LEMMA UsedMoves ==
    ASSUME NEW a \in Cells, NEW b \in Cells, NEW n \in 0..Size
    PROVE  /\ Used(a, b) + n < Size => Used((a + n) % Size, b) = Used(a, b) + n
           /\ n <= Used(a, b) => Used(a, (b + n) % Size) = Used(a, b) - n
  <1> DEFINE x == (a + n) % Size
             y == (b + n) % Size
  <1>1. x \in Cells /\ x = IF a + n < Size THEN a + n ELSE a + n - Size
    BY StepIs
  <1>2. y \in Cells /\ y = IF b + n < Size THEN b + n ELSE b + n - Size
    BY StepIs
  <1> HIDE DEF x, y
  <1>3. /\ Used(a, b) = IF a < b THEN a - b + Size ELSE a - b
        /\ Used(x, b) = IF x < b THEN x - b + Size ELSE x - b
        /\ Used(a, y) = IF a < y THEN a - y + Size ELSE a - y
    BY <1>1, <1>2, UsedIs
  <1>4. Used(a, b) + n < Size => Used(x, b) = Used(a, b) + n
    BY <1>1, <1>3, CellFacts
  <1>5. n <= Used(a, b) => Used(a, y) = Used(a, b) - n
    BY <1>2, <1>3, CellFacts
  <1> QED
    BY <1>4, <1>5 DEF x, y

\* Where the k-th cell from the tail on is, seen from the head.
LEMMA UsedFromHead ==
    ASSUME NEW a \in Cells, NEW b \in Cells, NEW k \in Cells
    PROVE  /\ (b + k) % Size \in Cells
           /\ Used((b + k) % Size, a) = IF k < Used(a, b) THEN k - Used(a, b) + Size
                                        ELSE k - Used(a, b)
  <1> DEFINE y == (b + k) % Size
  <1>1. y \in Cells /\ y = IF b + k < Size THEN b + k ELSE b + k - Size
    BY StepIs, CellFacts
  <1> HIDE DEF y
  <1>2. /\ Used(a, b) = IF a < b THEN a - b + Size ELSE a - b
        /\ Used(y, a) = IF y < a THEN y - a + Size ELSE y - a
    BY <1>1, UsedIs
  <1>3. Used(y, a) = IF k < Used(a, b) THEN k - Used(a, b) + Size ELSE k - Used(a, b)
    BY <1>1, <1>2, CellFacts
  <1> QED
    BY <1>1, <1>3 DEF y

LEMMA EndLineTypes ==
    ASSUME TypeOK, EndLine
    PROVE  TypeOK' /\ Count(current_tty)' = Count(current_tty) + Kept(current_tty)
  <1>1. PICK t \in Ttys : t = current_tty
    BY DEF TypeOK
  <1>2. /\ line_buffer' = [line_buffer EXCEPT ![t] = EnteredLine(t)]
        /\ input_buf' = [input_buf EXCEPT ![t] =
                 [i \in Cells |-> IF Used(i, input_head[t]) < Kept(t)
                                  THEN EnteredLine(t)[Used(i, input_head[t])]
                                  ELSE input_buf[t][i]]]
        /\ input_head' = [input_head EXCEPT ![t] = (input_head[t] + Kept(t)) % Size]
        /\ line_length' = [line_length EXCEPT ![t] = 0]
        /\ line_cursor' = [line_cursor EXCEPT ![t] = 0]
        /\ line_ready' = [line_ready EXCEPT ![t] = TRUE]
        /\ UNCHANGED <<input_esc_state, input_tail>>
        /\ pending' \in Seq(Chars) /\ UNCHANGED <<kbdVars, reading>>
    BY <1>1, EndLineIs, PassTypes
  <1>3. EnteredLine(t) \in [Cells -> Chars] /\ Kept(t) \in 0..Size
    BY EnteredIs
  <1>4. input_head[t] \in Cells /\ input_tail[t] \in Cells /\ input_buf[t] \in [Cells -> Chars]
    BY DEF TypeOK
  <1>5. (input_head[t] + Kept(t)) % Size \in Cells
    BY <1>3, <1>4, StepIs
  <1>6. \A i \in Cells : Used(i, input_head[t]) \in Cells
    BY <1>4, UsedIs
  <1>7. line_buffer' \in [Ttys -> [Cells -> Chars]]
    BY <1>2, <1>3 DEF TypeOK
  <1>8. input_buf' \in [Ttys -> [Cells -> Chars]]
    <2> DEFINE cells == [i \in Cells |-> IF Used(i, input_head[t]) < Kept(t)
                                  THEN EnteredLine(t)[Used(i, input_head[t])]
                                  ELSE input_buf[t][i]]
    <2>1. cells \in [Cells -> Chars]
      BY <1>3, <1>4, <1>6
    <2> HIDE DEF cells
    <2>2. input_buf' = [input_buf EXCEPT ![t] = cells]
      BY <1>2 DEF cells
    <2> QED
      BY <2>1, <2>2 DEF TypeOK
  <1>9. input_head' \in [Ttys -> Cells] /\ line_ready' \in [Ttys -> BOOLEAN]
    BY <1>2, <1>5 DEF TypeOK
  <1>10. /\ line_length' \in [Ttys -> 0..(Size - 1)] /\ line_cursor' \in [Ttys -> 0..(Size - 1)]
         /\ \A u \in Ttys : line_cursor'[u] <= line_length'[u]
    BY <1>2, CellFacts DEF TypeOK
  <1>11. TypeOK'
    BY <1>2, <1>7, <1>8, <1>9, <1>10 DEF TypeOK, kbdVars
  <1>12. Count(t)' = Count(t) + Kept(t)
    <2>1. input_head'[t] = (input_head[t] + Kept(t)) % Size /\ input_tail'[t] = input_tail[t]
      BY <1>2 DEF TypeOK
    <2>2. Used(input_head[t], input_tail[t]) + Kept(t) < Size
      BY EnteredIs, QueueIs, CellFacts DEF Count
    <2>3. Used((input_head[t] + Kept(t)) % Size, input_tail[t])
              = Used(input_head[t], input_tail[t]) + Kept(t)
      BY <1>3, <1>4, <2>2, UsedMoves
    <2> QED
      BY <2>1, <2>3 DEF Count
  <1>13. current_tty' = current_tty
    BY <1>2 DEF kbdVars
  <1> QED
    BY <1>1, <1>11, <1>12, <1>13 DEF Count

-----------------------------------------------------------------------------
(* Backspace and the ordinary characters.                                   *)

\* What Backspace makes of a terminal's buffer.
Rubbed(t) == [i \in Cells |->
    IF line_cursor[t] > 0 /\ i \in (line_cursor[t] - 1)..(line_length[t] - 2)
    THEN line_buffer[t][i + 1] ELSE line_buffer[t][i]]

LEMMA BackspaceIs ==
    ASSUME TypeOK, Backspace, NEW t \in Ttys, t = current_tty
    PROVE  /\ line_buffer' = [line_buffer EXCEPT ![t] = Rubbed(t)]
           /\ line_length' = [line_length EXCEPT ![t] =
                 IF line_cursor[t] > 0 THEN line_length[t] - 1 ELSE line_length[t]]
           /\ line_cursor' = [line_cursor EXCEPT ![t] =
                 IF line_cursor[t] > 0 THEN line_cursor[t] - 1 ELSE 0]
           /\ pending' \in Seq(Chars)
           /\ UNCHANGED <<input_esc_state, ringVars, kbdVars, reading>>
  <1>1. line_cursor \in [Ttys -> Nat]
    BY CellFacts DEF TypeOK
  <1>2. Max({line_cursor[t] - 1, 0}) = IF line_cursor[t] > 0 THEN line_cursor[t] - 1 ELSE 0
    <2>1. line_cursor[t] \in Nat /\ line_cursor[t] - 1 \in Int
      BY <1>1
    <2> QED
      BY <2>1, MaxPair
  <1>3. /\ Passes(BS)
        /\ line_buffer' = [line_buffer EXCEPT ![t] = Rubbed(t)]
        /\ line_length' = [line_length EXCEPT ![t] =
                 IF line_cursor[t] > 0 THEN line_length[t] - 1 ELSE line_length[t]]
        /\ line_cursor' = [line_cursor EXCEPT ![t] = Max({line_cursor[t] - 1, 0})]
        /\ UNCHANGED <<input_esc_state, ringVars>>
    BY Zenon DEF Backspace, Rubbed
  <1>4. pending' \in Seq(Chars) /\ UNCHANGED <<kbdVars, reading>>
    BY <1>3, PassTypes
  <1> QED
    BY <1>2, <1>3, <1>4

LEMMA RubbedIs ==
    ASSUME TypeOK, NEW t \in Ttys
    PROVE  /\ Rubbed(t) \in [Cells -> Chars]
           /\ line_cursor[t] = 0 => Rubbed(t) = line_buffer[t]
  <1>1. /\ line_length[t] \in 0..(Size - 1) /\ line_cursor[t] \in 0..(Size - 1)
        /\ line_buffer[t] \in [Cells -> Chars]
    BY DEF TypeOK
  <1>2. ASSUME NEW i \in Cells, i \in (line_cursor[t] - 1)..(line_length[t] - 2)
        PROVE  i + 1 \in Cells
    BY <1>1, <1>2, CellFacts
  <1>3. Rubbed(t) \in [Cells -> Chars]
    BY <1>1, <1>2 DEF Rubbed
  <1>4. line_cursor[t] = 0 => Rubbed(t) = line_buffer[t]
    BY <1>1 DEF Rubbed
  <1> QED
    BY <1>3, <1>4

LEMMA BackspaceTypes ==
    ASSUME TypeOK, Backspace
    PROVE  TypeOK' /\ UNCHANGED ringVars
  <1>1. PICK t \in Ttys : t = current_tty
    BY DEF TypeOK
  <1>2. /\ line_buffer' = [line_buffer EXCEPT ![t] = Rubbed(t)]
        /\ line_length' = [line_length EXCEPT ![t] =
                 IF line_cursor[t] > 0 THEN line_length[t] - 1 ELSE line_length[t]]
        /\ line_cursor' = [line_cursor EXCEPT ![t] =
                 IF line_cursor[t] > 0 THEN line_cursor[t] - 1 ELSE 0]
        /\ pending' \in Seq(Chars)
        /\ UNCHANGED <<input_esc_state, ringVars, kbdVars, reading>>
    BY <1>1, BackspaceIs
  <1>3. line_buffer' \in [Ttys -> [Cells -> Chars]]
    BY <1>2, RubbedIs DEF TypeOK
  <1>4. /\ line_length' \in [Ttys -> 0..(Size - 1)] /\ line_cursor' \in [Ttys -> 0..(Size - 1)]
        /\ \A u \in Ttys : line_cursor'[u] <= line_length'[u]
    <2>1. /\ line_length \in [Ttys -> 0..(Size - 1)] /\ line_cursor \in [Ttys -> 0..(Size - 1)]
          /\ \A u \in Ttys : line_cursor[u] <= line_length[u]
      BY DEF TypeOK
    <2>2. /\ line_cursor[t] > 0 => /\ line_cursor[t] - 1 \in 0..(Size - 1)
                                   /\ line_length[t] - 1 \in 0..(Size - 1)
                                   /\ line_cursor[t] - 1 <= line_length[t] - 1
          /\ 0 \in 0..(Size - 1) /\ 0 <= line_length[t]
      BY <2>1, CellFacts
    <2> QED
      BY <1>2, <2>1, <2>2
  <1> QED
    BY <1>2, <1>3, <1>4 DEF TypeOK, kbdVars, ringVars

LEMMA InsertIs ==
    ASSUME TypeOK, Insert, NEW t \in Ttys, t = current_tty
    PROVE  /\ \E c \in Chars \ {NL, BS, ESC, NUL} :
                line_buffer' = [line_buffer EXCEPT ![t] =
                    IF line_length[t] < Size - 1 THEN Shifted(t, c) ELSE line_buffer[t]]
           /\ line_length' = [line_length EXCEPT ![t] =
                 IF line_length[t] < Size - 1 THEN line_length[t] + 1 ELSE line_length[t]]
           /\ line_cursor' = [line_cursor EXCEPT ![t] =
                 IF line_length[t] < Size - 1 THEN line_cursor[t] + 1 ELSE line_cursor[t]]
           /\ pending' \in Seq(Chars)
           /\ UNCHANGED <<input_esc_state, ringVars, kbdVars, reading>>
  <1>1. PICK c \in Chars \ {NL, BS, ESC, NUL} :
            /\ Passes(c)
            /\ line_buffer' = [line_buffer EXCEPT ![t] =
                    IF line_length[t] < Size - 1 THEN Shifted(t, c) ELSE line_buffer[t]]
    BY Zenon DEF Insert
  <1>2. /\ line_length' = [line_length EXCEPT ![t] =
                 IF line_length[t] < Size - 1 THEN line_length[t] + 1 ELSE line_length[t]]
        /\ line_cursor' = [line_cursor EXCEPT ![t] =
                 IF line_length[t] < Size - 1 THEN line_cursor[t] + 1 ELSE line_cursor[t]]
        /\ UNCHANGED <<input_esc_state, ringVars>>
    BY Zenon DEF Insert
  <1>3. pending' \in Seq(Chars) /\ UNCHANGED <<kbdVars, reading>>
    BY <1>1, PassTypes
  <1> QED
    BY <1>1, <1>2, <1>3

LEMMA ShiftedIs ==
    ASSUME TypeOK, NEW t \in Ttys, NEW c \in Chars, line_length[t] < Size - 1
    PROVE  /\ Shifted(t, c) \in [Cells -> Chars]
           /\ \A i \in Cells :
                Shifted(t, c)[i] = IF i < line_cursor[t] THEN line_buffer[t][i]
                                   ELSE IF i = line_cursor[t] THEN c
                                   ELSE IF i <= line_length[t] THEN line_buffer[t][i - 1]
                                   ELSE line_buffer[t][i]
  <1>1. /\ line_length[t] \in 0..(Size - 1) /\ line_cursor[t] \in 0..(Size - 1)
        /\ line_cursor[t] <= line_length[t]
        /\ line_buffer[t] \in [Cells -> Chars]
    BY DEF TypeOK
  <1>2. ASSUME NEW i \in Cells, i \in (line_cursor[t] + 1)..line_length[t]
        PROVE  i - 1 \in Cells
    BY <1>1, <1>2, CellFacts
  <1>3. ASSUME NEW i \in Cells
        PROVE  /\ Shifted(t, c)[i] \in Chars
               /\ Shifted(t, c)[i] = IF i < line_cursor[t] THEN line_buffer[t][i]
                                     ELSE IF i = line_cursor[t] THEN c
                                     ELSE IF i <= line_length[t] THEN line_buffer[t][i - 1]
                                     ELSE line_buffer[t][i]
    <2>1. i \in Nat
      BY CellFacts
    <2>2. CASE i = line_cursor[t]
      BY <1>1, <2>1, <2>2 DEF Shifted
    <2>3. CASE i \in (line_cursor[t] + 1)..line_length[t]
      BY <1>1, <1>2, <2>1, <2>3 DEF Shifted
    <2>4. CASE i # line_cursor[t] /\ i \notin (line_cursor[t] + 1)..line_length[t]
      BY <1>1, <2>1, <2>4 DEF Shifted
    <2> QED
      BY <2>2, <2>3, <2>4
  <1>4. Shifted(t, c) \in [Cells -> Chars]
    BY <1>3 DEF Shifted
  <1> QED
    BY <1>3, <1>4

LEMMA InsertTypes ==
    ASSUME TypeOK, Insert
    PROVE  TypeOK' /\ UNCHANGED ringVars
  <1>1. PICK t \in Ttys : t = current_tty
    BY DEF TypeOK
  <1>2. /\ \E c \in Chars \ {NL, BS, ESC, NUL} :
                line_buffer' = [line_buffer EXCEPT ![t] =
                    IF line_length[t] < Size - 1 THEN Shifted(t, c) ELSE line_buffer[t]]
        /\ line_length' = [line_length EXCEPT ![t] =
                 IF line_length[t] < Size - 1 THEN line_length[t] + 1 ELSE line_length[t]]
        /\ line_cursor' = [line_cursor EXCEPT ![t] =
                 IF line_length[t] < Size - 1 THEN line_cursor[t] + 1 ELSE line_cursor[t]]
        /\ pending' \in Seq(Chars)
        /\ UNCHANGED <<input_esc_state, ringVars, kbdVars, reading>>
    BY <1>1, InsertIs
  <1>3. line_buffer' \in [Ttys -> [Cells -> Chars]]
    <2>1. PICK new : /\ line_buffer' = [line_buffer EXCEPT ![t] = new]
                     /\ new \in [Cells -> Chars]
      <3>1. line_buffer[t] \in [Cells -> Chars]
        BY DEF TypeOK
      <3>2. \A c \in Chars : line_length[t] < Size - 1 => Shifted(t, c) \in [Cells -> Chars]
        BY ShiftedIs
      <3> QED
        BY <1>2, <3>1, <3>2
    <2> QED
      BY <2>1 DEF TypeOK
  <1>4. /\ line_length' \in [Ttys -> 0..(Size - 1)] /\ line_cursor' \in [Ttys -> 0..(Size - 1)]
        /\ \A u \in Ttys : line_cursor'[u] <= line_length'[u]
    <2>1. /\ line_length \in [Ttys -> 0..(Size - 1)] /\ line_cursor \in [Ttys -> 0..(Size - 1)]
          /\ \A u \in Ttys : line_cursor[u] <= line_length[u]
      BY DEF TypeOK
    <2>2. line_length[t] < Size - 1 => /\ line_cursor[t] + 1 \in 0..(Size - 1)
                                       /\ line_length[t] + 1 \in 0..(Size - 1)
                                       /\ line_cursor[t] + 1 <= line_length[t] + 1
      BY <2>1, CellFacts
    <2> QED
      BY <1>2, <2>1, <2>2
  <1> QED
    BY <1>2, <1>3, <1>4 DEF TypeOK, kbdVars, ringVars

-----------------------------------------------------------------------------
(* The reads.                                                               *)

\* A read that finds the flag set takes n bytes off the ring.
Takes(t, n) ==
    /\ n \in 0..Size
    /\ n <= Count(t)
    /\ \A i \in 1..(n - 1) : Queue(t)[i] # NL
    /\ input_tail' = [input_tail EXCEPT ![t] = (input_tail[t] + n) % Size]
    /\ line_ready' = [line_ready EXCEPT ![t] = line_ready[t] /\ n < Count(t)]
    /\ UNCHANGED <<input_buf, input_head>>

LEMMA TakeIs ==
    ASSUME TypeOK, NEW t \in Ttys, NEW len \in Nat \ {0}, Take(t, len)
    PROVE  \E n \in 0..Size : Takes(t, n) /\ (n = 0 => Count(t) = 0)
  <1>1. Len(Queue(t)) = Count(t) /\ Count(t) \in Nat /\ Count(t) <= Size
    BY QueueIs, CellFacts
  <1>2. PICK n \in 0..Count(t) :
        /\ TakesFrom(Queue(t), len, n)
        /\ input_tail' = [input_tail EXCEPT ![t] = (input_tail[t] + n) % Size]
        /\ line_ready' = [line_ready EXCEPT ![t] = line_ready[t] /\ n < Count(t)]
        /\ UNCHANGED <<input_buf, input_head>>
    BY <1>1 DEF Take
  <1>3. n \in 0..Size /\ n <= Count(t)
    BY <1>1, CellFacts
  <1>4. \A i \in 1..(n - 1) : Queue(t)[i] # NL
    BY <1>2 DEF TakesFrom
  <1>5. n = 0 => Count(t) = 0
    BY <1>1, <1>2 DEF TakesFrom
  <1> QED
    BY <1>2, <1>3, <1>4, <1>5 DEF Takes

LEMMA TakesTypes ==
    ASSUME TypeOK, NEW t \in Ttys, NEW n \in 0..Size, Takes(t, n)
    PROVE  /\ input_tail' \in [Ttys -> Cells] /\ line_ready' \in [Ttys -> BOOLEAN]
           /\ Count(t)' = Count(t) - n
           /\ line_ready'[t] <=> line_ready[t] /\ n < Count(t)
           /\ \A u \in Ttys \ {t} : /\ line_ready'[u] = line_ready[u]
                                    /\ input_tail'[u] = input_tail[u]
  <1>1. /\ input_head[t] \in Cells /\ input_tail \in [Ttys -> Cells]
        /\ line_ready \in [Ttys -> BOOLEAN]
    BY DEF TypeOK
  <1>2. /\ n <= Count(t)
        /\ input_tail' = [input_tail EXCEPT ![t] = (input_tail[t] + n) % Size]
        /\ line_ready' = [line_ready EXCEPT ![t] = line_ready[t] /\ n < Count(t)]
        /\ UNCHANGED <<input_buf, input_head>>
    BY DEF Takes
  <1>3. (input_tail[t] + n) % Size \in Cells
    BY <1>1, StepIs
  <1>4. Count(t)' = Count(t) - n
    <2>1. Used(input_head[t], (input_tail[t] + n) % Size)
              = Used(input_head[t], input_tail[t]) - n
      BY <1>1, <1>2, UsedMoves DEF Count
    <2> QED
      BY <1>1, <1>2, <2>1 DEF Count
  <1>5. /\ input_tail' \in [Ttys -> Cells]
        /\ \A u \in Ttys \ {t} : input_tail'[u] = input_tail[u]
    BY <1>1, <1>2, <1>3
  <1>6. /\ line_ready' \in [Ttys -> BOOLEAN]
        /\ line_ready'[t] <=> line_ready[t] /\ n < Count(t)
        /\ \A u \in Ttys \ {t} : line_ready'[u] = line_ready[u]
    BY <1>1, <1>2
  <1> QED
    BY <1>4, <1>5, <1>6

\* A read takes at least one byte off some ring, or begins to wait.
LEMMA ReadIs ==
    ASSUME IInv, NEW p \in Procs, ReadNow(p) \/ ReadWait(p) \/ ReadWoken(p)
    PROVE  /\ UNCHANGED <<lineVars, input_esc_state, kbdVars, pending>>
           /\ reading' \in [Procs -> Reads \cup {NoRead}]
           /\ \/ UNCHANGED ringVars
              \/ \E t \in Ttys : \E n \in 1..Size : Takes(t, n)
  <1>1. TypeOK /\ ReadyMeansInput
    BY DEF IInv
  <1>2. Lens \subseteq Nat \ {0}
    BY TtyAssumption
  <1>3. ASSUME NEW t \in Ttys, NEW len \in Lens, line_ready[t], Take(t, len)
        PROVE  \E n \in 1..Size : Takes(t, n)
    <2>1. Count(t) # 0
      BY <1>1, <1>3, QueueIs DEF ReadyMeansInput
    <2> QED
      BY <1>1, <1>2, <1>3, <2>1, TakeIs, CellFacts
  <1>4. CASE ReadNow(p)
    <2>1. \E t \in Ttys : \E n \in 1..Size : Takes(t, n)
      BY <1>3, <1>4 DEF ReadNow
    <2>2. UNCHANGED <<lineVars, input_esc_state, kbdVars, pending, reading>>
      BY <1>4 DEF ReadNow
    <2> QED
      BY <1>1, <2>1, <2>2 DEF TypeOK
  <1>5. CASE ReadWait(p)
    <2>1. /\ UNCHANGED <<lineVars, input_esc_state, ringVars, kbdVars, pending>>
          /\ \E r \in Reads : reading' = [reading EXCEPT ![p] = r]
      BY <1>5 DEF ReadWait, Reads
    <2> QED
      BY <1>1, <2>1 DEF TypeOK
  <1>6. CASE ReadWoken(p)
    <2>1. reading[p] \in Reads
      BY <1>1, <1>6 DEF ReadWoken, TypeOK
    <2>2. reading[p].tty \in Ttys /\ reading[p].len \in Lens
      BY <2>1 DEF Reads
    <2>3. PICK t \in Ttys, len \in Lens : t = reading[p].tty /\ len = reading[p].len
      BY <2>2
    <2>4. line_ready[t] /\ Take(t, len)
      BY <1>6, <2>3 DEF ReadWoken
    <2>5. \E n \in 1..Size : Takes(t, n)
      BY <1>3, <2>4
    <2>6. /\ UNCHANGED <<lineVars, input_esc_state, kbdVars, pending>>
          /\ reading' = [reading EXCEPT ![p] = NoRead]
      BY <1>6 DEF ReadWoken
    <2> QED
      BY <1>1, <2>5, <2>6 DEF TypeOK
  <1> QED
    BY <1>4, <1>5, <1>6

-----------------------------------------------------------------------------
(* The invariant.                                                           *)

\* The flag of a terminal whose ring and flag a step leaves alone stays right.
LEMMA ReadySame ==
    ASSUME ReadyMeansInput, NEW t \in Ttys,
           input_buf'[t] = input_buf[t], input_head'[t] = input_head[t],
           input_tail'[t] = input_tail[t], line_ready'[t] = line_ready[t]
    PROVE  line_ready'[t] <=> (Queue(t) # <<>>)'
  BY QueueSame DEF ReadyMeansInput

LEMMA ReadTypes ==
    ASSUME IInv, NEW p \in Procs, ReadNow(p) \/ ReadWait(p) \/ ReadWoken(p)
    PROVE  TypeOK'
  <1>1. /\ UNCHANGED <<lineVars, input_esc_state, kbdVars, pending>>
        /\ reading' \in [Procs -> Reads \cup {NoRead}]
        /\ \/ UNCHANGED ringVars
           \/ \E t \in Ttys : \E n \in 1..Size : Takes(t, n)
    BY ReadIs
  <1>2. TypeOK /\ 1..Size \subseteq 0..Size
    BY CellFacts DEF IInv
  <1>3. /\ UNCHANGED <<input_buf, input_head>>
        /\ input_tail' \in [Ttys -> Cells] /\ line_ready' \in [Ttys -> BOOLEAN]
    <2>1. CASE UNCHANGED ringVars
      BY <1>2, <2>1 DEF TypeOK, ringVars
    <2>2. CASE \E t \in Ttys : \E n \in 1..Size : Takes(t, n)
      <3>1. PICK t \in Ttys, n \in 0..Size : Takes(t, n)
        BY <1>2, <2>2
      <3>2. input_tail' \in [Ttys -> Cells] /\ line_ready' \in [Ttys -> BOOLEAN]
        BY <1>2, <3>1, TakesTypes
      <3> QED
        BY <3>1, <3>2 DEF Takes
    <2> QED
      BY <1>1, <2>1, <2>2
  <1> QED
    BY <1>1, <1>2, <1>3 DEF TypeOK, lineVars, kbdVars

LEMMA StepTypes ==
    ASSUME IInv, Next
    PROVE  TypeOK'
  <1>1. TypeOK
    BY DEF IInv
  <1>2. CASE Keyboard
    BY <1>1, <1>2, KeyboardTypes
  <1>3. CASE InputChar
    BY <1>1, <1>3, EscapeTypes, EndLineTypes, BackspaceTypes, InsertTypes DEF InputChar
  <1>4. CASE \E p \in Procs : ReadNow(p) \/ ReadWait(p) \/ ReadWoken(p)
    BY <1>4, ReadTypes
  <1> QED
    BY <1>2, <1>3, <1>4 DEF Next

\* Every step that leaves the rings alone leaves the flags right.
LEMMA ReadyKept ==
    ASSUME IInv, UNCHANGED ringVars
    PROVE  ReadyMeansInput'
  <1>1. \A t \in Ttys : /\ input_buf'[t] = input_buf[t] /\ input_head'[t] = input_head[t]
                        /\ input_tail'[t] = input_tail[t] /\ line_ready'[t] = line_ready[t]
    BY DEF ringVars
  <1>2. \A t \in Ttys : line_ready'[t] <=> (Queue(t) # <<>>)'
    BY <1>1, ReadySame DEF IInv
  <1> QED
    BY <1>2 DEF ReadyMeansInput

LEMMA EndLineReady ==
    ASSUME IInv, EndLine
    PROVE  ReadyMeansInput'
  <1>1. TypeOK /\ ReadyMeansInput
    BY DEF IInv
  <1>2. TypeOK' /\ Count(current_tty)' = Count(current_tty) + Kept(current_tty)
    BY <1>1, EndLineTypes
  <1>3. PICK t \in Ttys : t = current_tty
    BY <1>1 DEF TypeOK
  <1>4. /\ \E cells : input_buf' = [input_buf EXCEPT ![t] = cells]
        /\ \E head : input_head' = [input_head EXCEPT ![t] = head]
        /\ line_ready' = [line_ready EXCEPT ![t] = TRUE]
        /\ input_tail' = input_tail /\ current_tty' = current_tty
    BY <1>3, EndLineIs DEF Passes, kbdVars
  <1>5. Count(t)' = Count(t) + Kept(t)
    BY <1>2, <1>3, <1>4 DEF Count
  <1>6. ASSUME NEW u \in Ttys
        PROVE  line_ready'[u] <=> (Queue(u) # <<>>)'
    <2>1. CASE u = t
      <3>1. line_ready'[t] = TRUE
        BY <1>1, <1>4 DEF TypeOK
      <3>2. Count(t)' # 0
        BY <1>1, <1>5, EnteredIs, CellFacts
      <3>3. (Queue(t) # <<>>)' <=> Count(t)' # 0
        BY <1>2, QueueNext
      <3> QED
        BY <2>1, <3>1, <3>2, <3>3
    <2>2. CASE u # t
      BY <1>1, <1>4, <2>2, ReadySame DEF TypeOK
    <2> QED
      BY <2>1, <2>2
  <1> QED
    BY <1>6 DEF ReadyMeansInput

LEMMA TakesReady ==
    ASSUME IInv, TypeOK', NEW t \in Ttys, NEW n \in 1..Size, Takes(t, n)
    PROVE  ReadyMeansInput'
  <1>1. TypeOK /\ ReadyMeansInput /\ n \in 0..Size /\ n > 0
    BY CellFacts DEF IInv
  <1>2. /\ Count(t)' = Count(t) - n
        /\ line_ready'[t] <=> line_ready[t] /\ n < Count(t)
        /\ \A u \in Ttys \ {t} : /\ line_ready'[u] = line_ready[u]
                                 /\ input_tail'[u] = input_tail[u]
    BY <1>1, TakesTypes
  <1>3. UNCHANGED <<input_buf, input_head>> /\ n <= Count(t)
    BY DEF Takes
  <1>4. ASSUME NEW u \in Ttys
        PROVE  line_ready'[u] <=> (Queue(u) # <<>>)'
    <2>1. CASE u = t
      <3>1. Count(t) \in Nat /\ (line_ready[t] <=> Count(t) # 0)
        BY <1>1, QueueIs, CellFacts DEF ReadyMeansInput
      <3>2. line_ready'[t] <=> Count(t)' # 0
        BY <1>1, <1>2, <1>3, <3>1
      <3>3. (Queue(t) # <<>>)' <=> Count(t)' # 0
        BY QueueNext
      <3> QED
        BY <2>1, <3>2, <3>3
    <2>2. CASE u # t
      BY <1>1, <1>2, <1>3, <2>2, ReadySame
    <2> QED
      BY <2>1, <2>2
  <1> QED
    BY <1>4 DEF ReadyMeansInput

LEMMA StepInv == IInv /\ [Next]_vars => IInv'
  <1> SUFFICES ASSUME IInv, [Next]_vars PROVE IInv'
    OBVIOUS
  <1>1. CASE UNCHANGED vars
    <2>1. UNCHANGED ringVars
      BY <1>1 DEF vars
    <2>2. TypeOK'
      BY <1>1 DEF IInv, TypeOK, vars, lineVars, ringVars, kbdVars
    <2> QED
      BY <2>1, <2>2, ReadyKept DEF IInv
  <1>2. CASE Next
    <2>1. TypeOK' /\ TypeOK
      BY <1>2, StepTypes DEF IInv
    <2>2. ReadyMeansInput'
      <3>1. CASE Keyboard
        BY <2>1, <3>1, KeyboardTypes, ReadyKept
      <3>2. CASE EndLine
        BY <3>2, EndLineReady
      <3>3. CASE StartEscape \/ AfterEscape \/ EndEscape
        BY <2>1, <3>3, EscapeTypes, ReadyKept
      <3>4. CASE Backspace
        BY <2>1, <3>4, BackspaceTypes, ReadyKept
      <3>5. CASE Insert
        BY <2>1, <3>5, InsertTypes, ReadyKept
      <3>6. CASE \E p \in Procs : ReadNow(p) \/ ReadWait(p) \/ ReadWoken(p)
        <4>1. \/ UNCHANGED ringVars
              \/ \E t \in Ttys : \E n \in 1..Size : Takes(t, n)
          BY <3>6, ReadIs
        <4> QED
          BY <2>1, <4>1, ReadyKept, TakesReady
      <3> QED
        BY <1>2, <3>1, <3>2, <3>3, <3>4, <3>5, <3>6 DEF Next, InputChar
    <2> QED
      BY <2>1, <2>2 DEF IInv
  <1> QED
    BY <1>1, <1>2

\* IInv holds in every reachable state.
THEOREM Invariance == Spec => []IInv
  BY InitInv, StepInv, PTL DEF Spec

\* The cursor stays within the line, the line within its buffer, and the
\* ring's indices within the ring, whatever is typed and read.
THEOREM TypeCorrect == Spec => []TypeOK
  <1>1. IInv => TypeOK
    BY DEF IInv
  <1> QED
    BY <1>1, Invariance, PTL

\* line_ready says whether there is something to read: no reader halts with
\* input in the ring, and no read that starts comes back with nothing.
THEOREM ReadyTellsTruth == Spec => []ReadyMeansInput
  <1>1. IInv => ReadyMeansInput
    BY DEF IInv
  <1> QED
    BY <1>1, Invariance, PTL

-----------------------------------------------------------------------------
(***************************************************************************)
(* Tty implements LineTty: the shifting buffer is the two halves of a      *)
(* line, and the ring the queue of what was entered.                       *)
(***************************************************************************)

(* The abstract state of Lines.                                             *)

Left(t)  == [i \in 1..line_cursor[t] |-> line_buffer[t][i - 1]]
Right(t) == [i \in 1..(line_length[t] - line_cursor[t]) |->
                line_buffer[t][line_cursor[t] + i - 1]]

Lefts  == [t \in Ttys |-> Left(t)]
Rights == [t \in Ttys |-> Right(t)]
Queues == [t \in Ttys |-> Queue(t)]

\* What of s a sequence of at most Size - 1 bytes has room for after q.
Fit(q, s) == SubSeq(s, 1, Min({Len(s), Size - 1 - Len(q)}))

\* The two halves of a terminal's line.
LEMMA HalvesAre ==
    ASSUME TypeOK, NEW t \in Ttys
    PROVE  /\ line_cursor[t] \in Nat /\ line_length[t] \in Nat
           /\ line_cursor[t] <= line_length[t] /\ line_length[t] < Size
           /\ Left(t) \in Seq(Chars) /\ Len(Left(t)) = line_cursor[t]
           /\ \A i \in 1..line_cursor[t] : Left(t)[i] = line_buffer[t][i - 1]
           /\ Right(t) \in Seq(Chars) /\ Len(Right(t)) = line_length[t] - line_cursor[t]
           /\ \A i \in 1..(line_length[t] - line_cursor[t]) :
                Right(t)[i] = line_buffer[t][line_cursor[t] + i - 1]
  <1>1. /\ line_length[t] \in 0..(Size - 1) /\ line_cursor[t] \in 0..(Size - 1)
        /\ line_cursor[t] <= line_length[t]
        /\ line_buffer[t] \in [Cells -> Chars]
    BY DEF TypeOK
  <1>2. /\ line_cursor[t] \in Nat /\ line_length[t] \in Nat
        /\ line_length[t] < Size /\ line_length[t] - line_cursor[t] \in Nat
    BY <1>1, CellFacts
  <1>3. Left(t) \in Seq(Chars) /\ Len(Left(t)) = line_cursor[t]
    <2>1. \A i \in 1..line_cursor[t] : i - 1 \in Cells
      BY <1>1, CellFacts
    <2> QED
      BY <1>1, <1>2, <2>1 DEF Left
  <1>4. Right(t) \in Seq(Chars) /\ Len(Right(t)) = line_length[t] - line_cursor[t]
    <2>1. \A i \in 1..(line_length[t] - line_cursor[t]) : line_cursor[t] + i - 1 \in Cells
      BY <1>1, CellFacts
    <2> QED
      BY <1>1, <1>2, <2>1 DEF Right
  <1> QED
    BY <1>1, <1>2, <1>3, <1>4 DEF Left, Right

\* The same of the state a step leads to.
LEMMA HalvesNext ==
    ASSUME NEW t \in Ttys
    PROVE  TypeOK' =>
           (/\ line_cursor[t] \in Nat /\ line_length[t] \in Nat
            /\ line_cursor[t] <= line_length[t] /\ line_length[t] < Size
            /\ Left(t) \in Seq(Chars) /\ Len(Left(t)) = line_cursor[t]
            /\ \A i \in 1..line_cursor[t] : Left(t)[i] = line_buffer[t][i - 1]
            /\ Right(t) \in Seq(Chars) /\ Len(Right(t)) = line_length[t] - line_cursor[t]
            /\ \A i \in 1..(line_length[t] - line_cursor[t]) :
                 Right(t)[i] = line_buffer[t][line_cursor[t] + i - 1])'
  <1>1. TypeOK =>
           (/\ line_cursor[t] \in Nat /\ line_length[t] \in Nat
            /\ line_cursor[t] <= line_length[t] /\ line_length[t] < Size
            /\ Left(t) \in Seq(Chars) /\ Len(Left(t)) = line_cursor[t]
            /\ \A i \in 1..line_cursor[t] : Left(t)[i] = line_buffer[t][i - 1]
            /\ Right(t) \in Seq(Chars) /\ Len(Right(t)) = line_length[t] - line_cursor[t]
            /\ \A i \in 1..(line_length[t] - line_cursor[t]) :
                 Right(t)[i] = line_buffer[t][line_cursor[t] + i - 1])
    BY HalvesAre
  <1> QED
    BY <1>1, PTL

\* The actions of LineTty, said of the terminals' state.
LEMMA InsertMeans ==
    ASSUME NEW t \in Ttys,
           Len(Lefts[t]) + Len(Rights[t]) < Size - 1,
           Len(Lefts'[t]) = Len(Lefts[t]) + 1,
           Lefts' = [Lefts EXCEPT ![t] = Append(Lefts[t], Last(Lefts'[t]))],
           Rights' = Rights, Queues' = Queues
    PROVE  LT!Insert(t)
  BY Zenon DEF LT!Insert, Lefts, Rights, Queues, Left, Right, Last, LT!Last

LEMMA RubMeans ==
    ASSUME NEW t \in Ttys, Lefts[t] # <<>>,
           Lefts' = [Lefts EXCEPT ![t] = Front(Lefts[t])],
           Rights' = Rights, Queues' = Queues
    PROVE  LT!Rub(t)
  BY Zenon DEF LT!Rub, Lefts, Rights, Queues, Left, Right, Front, LT!Front

LEMMA MoveMeans ==
    ASSUME NEW t \in Ttys,
           Lefts'[t] \o Rights'[t] = Lefts[t] \o Rights[t],
           \A u \in Ttys \ {t} : Lefts'[u] = Lefts[u] /\ Rights'[u] = Rights[u],
           Queues' = Queues
    PROVE  LT!Move(t)
  BY Zenon DEF LT!Move, Lefts, Rights, Queues, Left, Right

LEMMA SubmitMeans ==
    ASSUME NEW t \in Ttys,
           Queues' = [Queues EXCEPT ![t] = Queues[t] \o
                Fit(Queues[t], Fit(<<>>, Lefts[t] \o Rights[t] \o <<NL>>))],
           Lefts' = [Lefts EXCEPT ![t] = <<>>],
           Rights' = [Rights EXCEPT ![t] = <<>>]
    PROVE  LT!Submit(t)
  BY Zenon DEF LT!Submit, LT!Fitting, Fit, Lefts, Rights, Queues, Left, Right, Min, LT!Min

LEMMA ReadMeans ==
    ASSUME NEW t \in Ttys, NEW n \in 1..Len(Queues[t]),
           \A i \in 1..(n - 1) : Queues[t][i] # NL,
           Queues' = [Queues EXCEPT ![t] = SubSeq(Queues[t], n + 1, Len(Queues[t]))],
           Lefts' = Lefts, Rights' = Rights
    PROVE  LT!Read(t)
  BY Zenon DEF LT!Read, Lefts, Rights, Queues, Left, Right

-----------------------------------------------------------------------------
(* Steps that leave lines or queues alone.                                  *)

LEMMA LinesSame ==
    ASSUME UNCHANGED lineVars
    PROVE  Lefts' = Lefts /\ Rights' = Rights
  BY DEF lineVars, Lefts, Rights, Left, Right

LEMMA QueuesSame ==
    ASSUME UNCHANGED ringVars
    PROVE  Queues' = Queues
  BY DEF ringVars, Queues, Queue

\* The halves of a terminal that a step leaves alone.
LEMMA HalvesSame ==
    ASSUME NEW t \in Ttys, line_buffer'[t] = line_buffer[t],
           line_length'[t] = line_length[t], line_cursor'[t] = line_cursor[t]
    PROVE  Left(t)' = Left(t) /\ Right(t)' = Right(t)
  BY DEF Left, Right

LEMMA StutterMeans ==
    ASSUME Lefts' = Lefts, Rights' = Rights, Queues' = Queues
    PROVE  UNCHANGED LT!vars
  BY Zenon DEF LT!vars, Lefts, Rights, Queues, Left, Right

LEMMA InitMaps == Init => LT!LineInit
  <1> SUFFICES ASSUME Init PROVE LT!LineInit
    OBVIOUS
  <1>1. TypeOK
    BY InitInv DEF IInv
  <1>2. ASSUME NEW t \in Ttys
        PROVE  Left(t) = <<>> /\ Right(t) = <<>> /\ Queue(t) = <<>>
    <2>1. Left(t) = <<>> /\ Right(t) = <<>>
      BY <1>1, HalvesAre DEF Init
    <2>2. Queue(t) = <<>>
      BY <1>1, InitInv DEF Init, IInv, ReadyMeansInput
    <2> QED
      BY <2>1, <2>2
  <1>3. /\ Lefts = [t \in Ttys |-> <<>>] /\ Rights = [t \in Ttys |-> <<>>]
        /\ Queues = [t \in Ttys |-> <<>>]
    BY <1>2 DEF Lefts, Rights, Queues
  <1> QED
    BY <1>3, Zenon DEF LT!LineInit, Lefts, Rights, Queues, Left, Right

-----------------------------------------------------------------------------
(* Backspace is Rub, or nothing at the beginning of the line.               *)

LEMMA BackspaceRubs ==
    ASSUME TypeOK, Backspace
    PROVE  (\E t \in Ttys : LT!Rub(t)) \/ UNCHANGED LT!vars
  <1>1. PICK t \in Ttys : t = current_tty
    BY DEF TypeOK
  <1>2. /\ line_buffer' = [line_buffer EXCEPT ![t] = Rubbed(t)]
        /\ line_length' = [line_length EXCEPT ![t] =
                 IF line_cursor[t] > 0 THEN line_length[t] - 1 ELSE line_length[t]]
        /\ line_cursor' = [line_cursor EXCEPT ![t] =
                 IF line_cursor[t] > 0 THEN line_cursor[t] - 1 ELSE 0]
        /\ UNCHANGED ringVars
    BY <1>1, BackspaceIs
  <1>3. TypeOK' /\ Queues' = Queues
    BY <1>2, BackspaceTypes, QueuesSame
  <1>4. /\ line_buffer'[t] = Rubbed(t)
        /\ line_length'[t] = IF line_cursor[t] > 0 THEN line_length[t] - 1 ELSE line_length[t]
        /\ line_cursor'[t] = IF line_cursor[t] > 0 THEN line_cursor[t] - 1 ELSE 0
        /\ \A u \in Ttys \ {t} : /\ line_buffer'[u] = line_buffer[u]
                                 /\ line_length'[u] = line_length[u]
                                 /\ line_cursor'[u] = line_cursor[u]
    BY <1>2 DEF TypeOK
  <1>5. \A u \in Ttys \ {t} : Left(u)' = Left(u) /\ Right(u)' = Right(u)
    BY <1>4, HalvesSame
  <1>6. /\ line_cursor[t] \in Nat /\ line_length[t] \in Nat
        /\ line_cursor[t] <= line_length[t] /\ line_length[t] < Size
        /\ Left(t) \in Seq(Chars) /\ Len(Left(t)) = line_cursor[t]
        /\ Right(t) \in Seq(Chars) /\ Len(Right(t)) = line_length[t] - line_cursor[t]
    BY HalvesAre
  <1>7. CASE line_cursor[t] = 0
    <2>1. Left(t)' = Left(t) /\ Right(t)' = Right(t)
      BY <1>4, <1>6, <1>7, RubbedIs, HalvesSame
    <2>2. Lefts' = Lefts /\ Rights' = Rights
      BY <1>5, <2>1 DEF Lefts, Rights
    <2> QED
      BY <1>3, <2>2, StutterMeans
  <1>8. CASE line_cursor[t] > 0
    <2>1. line_cursor'[t] = line_cursor[t] - 1 /\ line_length'[t] = line_length[t] - 1
      BY <1>4, <1>8
    <2>2. \A i \in Cells : line_buffer'[t][i] =
              IF i \in (line_cursor[t] - 1)..(line_length[t] - 2)
              THEN line_buffer[t][i + 1] ELSE line_buffer[t][i]
      BY <1>4, <1>8 DEF Rubbed
    <2>3. Right(t)' = Right(t)
      <3>1. Right(t)' \in Seq(Chars) /\ Len(Right(t)') = Len(Right(t))
        BY <1>3, <1>6, <2>1, HalvesNext
      <3>2. ASSUME NEW i \in 1..(line_length[t] - line_cursor[t])
            PROVE  Right(t)'[i] = Right(t)[i]
        <4> DEFINE cell == line_cursor[t] + i - 2
        <4>1. /\ cell \in Cells /\ cell \in (line_cursor[t] - 1)..(line_length[t] - 2)
              /\ cell + 1 = line_cursor[t] + i - 1
              /\ line_cursor'[t] + i - 1 = cell
          <5>1. /\ i \in Nat /\ 1 <= i /\ i <= line_length[t] - line_cursor[t]
                /\ line_cursor'[t] = line_cursor[t] - 1
            BY <1>6, <2>1
          <5>2. /\ cell \in Nat /\ cell >= line_cursor[t] - 1 /\ cell <= line_length[t] - 2
                /\ cell + 1 = line_cursor[t] + i - 1 /\ line_cursor'[t] + i - 1 = cell
            <6>1. /\ line_cursor[t] \in Nat /\ line_length[t] \in Nat
                  /\ 1 <= line_cursor[t] /\ line_cursor[t] <= line_length[t]
              BY <1>6, <1>8
            <6>2. /\ cell \in Nat /\ cell >= line_cursor[t] - 1
                  /\ cell <= line_length[t] - 2
              BY <5>1, <6>1
            <6>3. cell + 1 = line_cursor[t] + i - 1
              BY <5>1, <6>1
            <6>4. line_cursor'[t] + i - 1 = cell
              BY <5>1, <6>1
            <6> QED
              BY <6>2, <6>3, <6>4
          <5>3. cell \in Cells
            BY <1>6, <5>2, CellFacts
          <5> QED
            BY <1>6, <5>2, <5>3
        <4>0. i \in 1..(line_length'[t] - line_cursor'[t])
          BY <1>6, <1>8, <2>1
        <4> HIDE DEF cell
        <4>2. Right(t)'[i] = line_buffer'[t][cell]
          BY <1>3, <4>0, <4>1, HalvesNext
        <4>3. Right(t)[i] = line_buffer[t][cell + 1]
          BY <4>1, HalvesAre
        <4> QED
          BY <2>2, <4>1, <4>2, <4>3
      <3> QED
        BY <1>6, <3>1, <3>2, SeqEqual
    <2>4. Left(t)' = Front(Left(t))
      <3>1. /\ Front(Left(t)) \in Seq(Chars) /\ Len(Front(Left(t))) = line_cursor[t] - 1
            /\ \A i \in 1..(line_cursor[t] - 1) : Front(Left(t))[i] = Left(t)[i]
        BY <1>6, <1>8 DEF Front
      <3>2. Left(t)' \in Seq(Chars) /\ Len(Left(t)') = line_cursor[t] - 1
        BY <1>3, <2>1, HalvesNext
      <3>3. ASSUME NEW i \in 1..(line_cursor[t] - 1)
            PROVE  Left(t)'[i] = Left(t)[i]
        <4>1. /\ i - 1 \in Cells /\ i - 1 \notin (line_cursor[t] - 1)..(line_length[t] - 2)
              /\ i \in 1..line_cursor[t]
          BY <1>6, CellFacts
        <4>2. Left(t)'[i] = line_buffer'[t][i - 1]
          BY <1>3, <2>1, HalvesNext
        <4>3. Left(t)[i] = line_buffer[t][i - 1]
          BY <4>1, HalvesAre
        <4> QED
          BY <2>2, <4>1, <4>2, <4>3
      <3> QED
        BY <3>1, <3>2, <3>3, SeqEqual
    <2>5. /\ Lefts[t] # <<>> /\ Lefts' = [Lefts EXCEPT ![t] = Front(Lefts[t])]
          /\ Rights' = Rights
      <3>1. Lefts[t] = Left(t) /\ Left(t) # <<>>
        BY <1>6, <1>8 DEF Lefts
      <3>2. Lefts' = [Lefts EXCEPT ![t] = Left(t)']
        BY <1>5 DEF Lefts
      <3>3. Rights' = Rights
        BY <1>5, <2>3 DEF Rights
      <3> QED
        BY <2>4, <3>1, <3>2, <3>3
    <2>6. LT!Rub(t)
      BY <1>3, <2>5, RubMeans
    <2> QED
      BY <2>6
  <1> QED
    BY <1>6, <1>7, <1>8

-----------------------------------------------------------------------------
(* A character typed is Insert, or nothing in a full line.                  *)

LEMMA InsertInserts ==
    ASSUME TypeOK, Insert
    PROVE  (\E t \in Ttys : LT!Insert(t)) \/ UNCHANGED LT!vars
  <1>1. PICK t \in Ttys : t = current_tty
    BY DEF TypeOK
  <1>2. PICK c \in Chars : line_buffer' = [line_buffer EXCEPT ![t] =
                    IF line_length[t] < Size - 1 THEN Shifted(t, c) ELSE line_buffer[t]]
    BY <1>1, InsertIs
  <1>3. /\ line_length' = [line_length EXCEPT ![t] =
                 IF line_length[t] < Size - 1 THEN line_length[t] + 1 ELSE line_length[t]]
        /\ line_cursor' = [line_cursor EXCEPT ![t] =
                 IF line_length[t] < Size - 1 THEN line_cursor[t] + 1 ELSE line_cursor[t]]
        /\ UNCHANGED ringVars
    BY <1>1, InsertIs
  <1>4. TypeOK' /\ Queues' = Queues
    BY <1>3, InsertTypes, QueuesSame
  <1>5. /\ line_buffer'[t] = IF line_length[t] < Size - 1 THEN Shifted(t, c) ELSE line_buffer[t]
        /\ line_length'[t] =
              IF line_length[t] < Size - 1 THEN line_length[t] + 1 ELSE line_length[t]
        /\ line_cursor'[t] =
              IF line_length[t] < Size - 1 THEN line_cursor[t] + 1 ELSE line_cursor[t]
        /\ \A u \in Ttys \ {t} : /\ line_buffer'[u] = line_buffer[u]
                                 /\ line_length'[u] = line_length[u]
                                 /\ line_cursor'[u] = line_cursor[u]
    BY <1>2, <1>3 DEF TypeOK
  <1>6. \A u \in Ttys \ {t} : Left(u)' = Left(u) /\ Right(u)' = Right(u)
    BY <1>5, HalvesSame
  <1>7. /\ line_cursor[t] \in Nat /\ line_length[t] \in Nat
        /\ line_cursor[t] <= line_length[t] /\ line_length[t] < Size
        /\ Left(t) \in Seq(Chars) /\ Len(Left(t)) = line_cursor[t]
        /\ Right(t) \in Seq(Chars) /\ Len(Right(t)) = line_length[t] - line_cursor[t]
    BY HalvesAre
  <1>8. CASE ~(line_length[t] < Size - 1)
    <2>1. Left(t)' = Left(t) /\ Right(t)' = Right(t)
      BY <1>5, <1>8, HalvesSame
    <2>2. Lefts' = Lefts /\ Rights' = Rights
      BY <1>6, <2>1 DEF Lefts, Rights
    <2> QED
      BY <1>4, <2>2, StutterMeans
  <1>9. CASE line_length[t] < Size - 1
    <2>1. line_cursor'[t] = line_cursor[t] + 1 /\ line_length'[t] = line_length[t] + 1
      BY <1>5, <1>9
    <2>2. \A i \in Cells : line_buffer'[t][i] =
              IF i < line_cursor[t] THEN line_buffer[t][i]
              ELSE IF i = line_cursor[t] THEN c
              ELSE IF i <= line_length[t] THEN line_buffer[t][i - 1]
              ELSE line_buffer[t][i]
      BY <1>5, <1>9, ShiftedIs
    <2>3. Right(t)' = Right(t)
      <3>1. Right(t)' \in Seq(Chars) /\ Len(Right(t)') = Len(Right(t))
        BY <1>4, <1>7, <2>1, HalvesNext
      <3>2. ASSUME NEW i \in 1..(line_length[t] - line_cursor[t])
            PROVE  Right(t)'[i] = Right(t)[i]
        <4> DEFINE cell == line_cursor[t] + i
        <4>1. /\ cell \in Cells /\ cell > line_cursor[t] /\ cell <= line_length[t]
              /\ cell - 1 = line_cursor[t] + i - 1
              /\ line_cursor'[t] + i - 1 = cell
              /\ i \in 1..(line_length'[t] - line_cursor'[t])
          <5>1. /\ i \in Nat /\ 1 <= i /\ i <= line_length[t] - line_cursor[t]
                /\ line_cursor'[t] = line_cursor[t] + 1 /\ line_length'[t] = line_length[t] + 1
            BY <1>7, <2>1
          <5>2. /\ cell \in Nat /\ cell > line_cursor[t] /\ cell <= line_length[t]
                /\ cell - 1 = line_cursor[t] + i - 1 /\ line_cursor'[t] + i - 1 = cell
            BY <1>7, <5>1
          <5>3. cell \in Cells
            BY <1>7, <1>9, <5>2, CellFacts
          <5>4. i \in 1..(line_length'[t] - line_cursor'[t])
            BY <1>7, <5>1
          <5> QED
            BY <5>2, <5>3, <5>4
        <4>0. cell \in Nat
          BY <4>1, CellFacts
        <4> HIDE DEF cell
        <4>2. Right(t)'[i] = line_buffer'[t][cell]
          BY <1>4, <4>1, HalvesNext
        <4>3. Right(t)[i] = line_buffer[t][cell - 1]
          BY <4>1, HalvesAre
        <4>4. ~(cell < line_cursor[t]) /\ cell # line_cursor[t]
          BY <1>7, <4>0, <4>1
        <4> QED
          BY <2>2, <4>1, <4>2, <4>3, <4>4
      <3> QED
        BY <1>7, <3>1, <3>2, SeqEqual
    <2>4. /\ Left(t)' \in Seq(Chars) /\ Len(Left(t)') = line_cursor[t] + 1
          /\ \A i \in 1..(line_cursor[t] + 1) : Left(t)'[i] = line_buffer'[t][i - 1]
      BY <1>4, <2>1, HalvesNext
    <2>5. Left(t)' = Append(Left(t), Last(Left(t)'))
      <3> DEFINE last == Last(Left(t)')
      <3>1. last \in Chars /\ last = Left(t)'[line_cursor[t] + 1]
        BY <1>7, <2>4 DEF Last
      <3> HIDE DEF last
      <3>2. /\ Append(Left(t), last) \in Seq(Chars)
            /\ Len(Append(Left(t), last)) = line_cursor[t] + 1
            /\ \A i \in 1..line_cursor[t] : Append(Left(t), last)[i] = Left(t)[i]
            /\ Append(Left(t), last)[line_cursor[t] + 1] = last
        BY <1>7, <3>1, AppendProperties
      <3>3. ASSUME NEW i \in 1..(line_cursor[t] + 1)
            PROVE  Left(t)'[i] = Append(Left(t), last)[i]
        <4>1. CASE i = line_cursor[t] + 1
          BY <3>1, <3>2, <4>1
        <4>2. CASE i \in 1..line_cursor[t]
          <5>1. i - 1 \in Cells /\ i - 1 < line_cursor[t]
            BY <1>7, <4>2, CellFacts
          <5>2. Left(t)'[i] = line_buffer[t][i - 1]
            BY <2>2, <2>4, <5>1
          <5>3. Left(t)[i] = line_buffer[t][i - 1]
            BY <4>2, HalvesAre
          <5> QED
            BY <3>2, <4>2, <5>2, <5>3
        <4> QED
          BY <1>7, <4>1, <4>2
      <3>4. Left(t)' = Append(Left(t), last)
        BY <2>4, <3>2, <3>3, SeqEqual
      <3> QED
        BY <3>4 DEF last
    <2>6. /\ Len(Lefts[t]) + Len(Rights[t]) < Size - 1
          /\ Len(Lefts'[t]) = Len(Lefts[t]) + 1
          /\ Lefts' = [Lefts EXCEPT ![t] = Append(Lefts[t], Last(Lefts'[t]))]
          /\ Rights' = Rights
      <3>1. Lefts[t] = Left(t) /\ Rights[t] = Right(t) /\ Lefts'[t] = Left(t)'
        BY DEF Lefts, Rights
      <3>2. /\ Len(Lefts[t]) + Len(Rights[t]) < Size - 1
            /\ Len(Lefts'[t]) = Len(Lefts[t]) + 1
        <4>1. Len(Left(t)') = Len(Left(t)) + 1
          BY <1>7, <2>4
        <4>2. Len(Left(t)) + Len(Right(t)) < Size - 1
          BY <1>7, <1>9, CellFacts
        <4> QED
          BY <3>1, <4>1, <4>2
      <3>3. Lefts' = [Lefts EXCEPT ![t] = Append(Lefts[t], Last(Lefts'[t]))]
        <4>1. Lefts' = [Lefts EXCEPT ![t] = Left(t)']
          BY <1>6 DEF Lefts
        <4> QED
          BY <2>5, <3>1, <4>1
      <3>4. Rights' = Rights
        BY <1>6, <2>3 DEF Rights
      <3> QED
        BY <3>2, <3>3, <3>4
    <2>7. LT!Insert(t)
      BY <1>4, <2>6, InsertMeans
    <2> QED
      BY <2>7
  <1> QED
    BY <1>8, <1>9

-----------------------------------------------------------------------------
(* The end of an escape sequence is Move: the line stays as it is.          *)

\* The halves of a line put together are the line, wherever the cursor is.
LEMMA WholeIs ==
    ASSUME TypeOK, NEW t \in Ttys
    PROVE  /\ Left(t) \o Right(t) \in Seq(Chars)
           /\ Len(Left(t) \o Right(t)) = line_length[t]
           /\ \A i \in 1..line_length[t] : (Left(t) \o Right(t))[i] = line_buffer[t][i - 1]
  <1>1. /\ line_cursor[t] \in Nat /\ line_length[t] \in Nat
        /\ line_cursor[t] <= line_length[t]
        /\ Left(t) \in Seq(Chars) /\ Len(Left(t)) = line_cursor[t]
        /\ \A i \in 1..line_cursor[t] : Left(t)[i] = line_buffer[t][i - 1]
        /\ Right(t) \in Seq(Chars) /\ Len(Right(t)) = line_length[t] - line_cursor[t]
        /\ \A i \in 1..(line_length[t] - line_cursor[t]) :
                Right(t)[i] = line_buffer[t][line_cursor[t] + i - 1]
    BY HalvesAre
  <1>2. /\ Left(t) \o Right(t) \in Seq(Chars)
        /\ Len(Left(t) \o Right(t)) = Len(Left(t)) + Len(Right(t))
        /\ \A i \in 1..Len(Left(t)) + Len(Right(t)) : (Left(t) \o Right(t))[i] =
              IF i <= Len(Left(t)) THEN Left(t)[i] ELSE Right(t)[i - Len(Left(t))]
    BY <1>1, ConcatProperties
  <1>3. Len(Left(t)) + Len(Right(t)) = line_length[t]
    BY <1>1
  <1>4. ASSUME NEW i \in 1..line_length[t]
        PROVE  (Left(t) \o Right(t))[i] = line_buffer[t][i - 1]
    <2>1. CASE i <= line_cursor[t]
      <3>1. i \in 1..line_cursor[t]
        BY <1>1, <2>1
      <3> QED
        BY <1>1, <1>2, <1>3, <2>1, <3>1
    <2>2. CASE ~(i <= line_cursor[t])
      <3>1. /\ i - line_cursor[t] \in 1..(line_length[t] - line_cursor[t])
            /\ line_cursor[t] + (i - line_cursor[t]) - 1 = i - 1
        BY <1>1, <2>2
      <3>2. Right(t)[i - line_cursor[t]] = line_buffer[t][i - 1]
        BY <1>1, <3>1
      <3>3. (Left(t) \o Right(t))[i] = Right(t)[i - line_cursor[t]]
        BY <1>1, <1>2, <1>3, <2>2
      <3> QED
        BY <3>2, <3>3
    <2> QED
      BY <2>1, <2>2
  <1> QED
    BY <1>2, <1>3, <1>4

LEMMA WholeNext ==
    ASSUME NEW t \in Ttys
    PROVE  TypeOK' =>
           (/\ Left(t) \o Right(t) \in Seq(Chars)
            /\ Len(Left(t) \o Right(t)) = line_length[t]
            /\ \A i \in 1..line_length[t] :
                 (Left(t) \o Right(t))[i] = line_buffer[t][i - 1])'
  <1>1. TypeOK =>
           (/\ Left(t) \o Right(t) \in Seq(Chars)
            /\ Len(Left(t) \o Right(t)) = line_length[t]
            /\ \A i \in 1..line_length[t] :
                 (Left(t) \o Right(t))[i] = line_buffer[t][i - 1])
    BY WholeIs
  <1> QED
    BY <1>1, PTL

LEMMA EndEscapeMoves ==
    ASSUME TypeOK, EndEscape
    PROVE  \E t \in Ttys : LT!Move(t)
  <1>1. PICK t \in Ttys : t = current_tty
    BY DEF TypeOK
  <1>2. TypeOK' /\ UNCHANGED <<ringVars, line_buffer, line_length>>
    BY EscapeTypes
  <1>3. \E k : line_cursor' = [line_cursor EXCEPT ![t] = k]
    BY <1>1 DEF EndEscape
  <1>4. \A u \in Ttys \ {t} : line_cursor'[u] = line_cursor[u]
    BY <1>3 DEF TypeOK
  <1>5. \A u \in Ttys \ {t} : Left(u)' = Left(u) /\ Right(u)' = Right(u)
    BY <1>2, <1>4, HalvesSame
  <1>6. Left(t)' \o Right(t)' = Left(t) \o Right(t)
    <2>1. /\ Left(t) \o Right(t) \in Seq(Chars)
          /\ Len(Left(t) \o Right(t)) = line_length[t]
          /\ \A i \in 1..line_length[t] : (Left(t) \o Right(t))[i] = line_buffer[t][i - 1]
      BY WholeIs
    <2>2. /\ Left(t)' \o Right(t)' \in Seq(Chars)
          /\ Len(Left(t)' \o Right(t)') = line_length[t]
          /\ \A i \in 1..line_length[t] : (Left(t)' \o Right(t)')[i] = line_buffer[t][i - 1]
      BY <1>2, WholeNext
    <2> QED
      BY <2>1, <2>2, SeqEqual
  <1>7. Queues' = Queues
    BY <1>2, QueuesSame
  <1>8. /\ Lefts'[t] \o Rights'[t] = Lefts[t] \o Rights[t]
        /\ \A u \in Ttys \ {t} : Lefts'[u] = Lefts[u] /\ Rights'[u] = Rights[u]
    BY <1>5, <1>6 DEF Lefts, Rights
  <1>9. LT!Move(t)
    BY <1>7, <1>8, MoveMeans
  <1> QED
    BY <1>9

-----------------------------------------------------------------------------
(* Enter is Submit.                                                         *)

\* The bytes that fit.
LEMMA FitIs ==
    ASSUME NEW q \in Seq(Chars), NEW s \in Seq(Chars), Len(q) < Size
    PROVE  LET n == IF Len(s) <= Size - 1 - Len(q) THEN Len(s) ELSE Size - 1 - Len(q)
           IN  /\ Fit(q, s) \in Seq(Chars)
               /\ Len(Fit(q, s)) = n
               /\ \A i \in 1..n : Fit(q, s)[i] = s[i]
  <1> DEFINE n == IF Len(s) <= Size - 1 - Len(q) THEN Len(s) ELSE Size - 1 - Len(q)
  <1>1. Len(q) \in Nat /\ Len(s) \in Nat /\ Size \in Nat
    BY CellFacts
  <1>2. Len(s) \in Int /\ Size - 1 - Len(q) \in Int
    BY <1>1
  <1>3. n \in Nat /\ n <= Len(s)
    BY <1>1
  <1>4. Fit(q, s) = SubSeq(s, 1, n)
    BY <1>2, MinPair DEF Fit
  <1> HIDE DEF n
  <1>5. /\ SubSeq(s, 1, n) \in Seq(Chars) /\ Len(SubSeq(s, 1, n)) = n
        /\ \A i \in 1..n : SubSeq(s, 1, n)[i] = s[i]
    BY <1>1, <1>3
  <1> QED
    BY <1>4, <1>5 DEF n

\* What Enter queues, byte for byte.
LEMMA SubmittedIs ==
    ASSUME TypeOK, NEW t \in Ttys
    PROVE  LET s == Fit(Queue(t), Fit(<<>>, Left(t) \o Right(t) \o <<NL>>))
           IN  /\ s \in Seq(Chars) /\ Len(s) = Kept(t)
               /\ \A i \in 1..Kept(t) : s[i] = EnteredLine(t)[i - 1]
  <1> DEFINE w == Left(t) \o Right(t)
             x == Left(t) \o Right(t) \o <<NL>>
             y == Fit(<<>>, x)
             s == Fit(Queue(t), y)
             n == line_length[t]
  <1>1. n \in Nat /\ n < Size /\ Size \in Nat /\ Size >= 2
    BY HalvesAre, CellFacts
  <1>2. w \in Seq(Chars) /\ Len(w) = n /\ \A i \in 1..n : w[i] = line_buffer[t][i - 1]
    BY WholeIs
  <1>3. NL \in Chars
    BY DEF Chars
  <1>4. /\ x \in Seq(Chars) /\ Len(x) = n + 1
        /\ \A i \in 1..(n + 1) : x[i] = IF i = n + 1 THEN NL ELSE line_buffer[t][i - 1]
    <2>1. x = w \o <<NL>>
      OBVIOUS
    <2> HIDE DEF w, x, n
    <2>2. <<NL>> \in Seq(Chars) /\ Len(<<NL>>) = 1 /\ <<NL>>[1] = NL
      BY <1>3
    <2>3. /\ w \o <<NL>> \in Seq(Chars) /\ Len(w \o <<NL>>) = n + 1
          /\ \A i \in 1..(n + 1) :
                (w \o <<NL>>)[i] = IF i <= n THEN w[i] ELSE <<NL>>[i - n]
      BY <1>2, <2>2, ConcatProperties
    <2>4. ASSUME NEW i \in 1..(n + 1)
          PROVE  x[i] = IF i = n + 1 THEN NL ELSE line_buffer[t][i - 1]
      <3>1. CASE i = n + 1
        BY <1>1, <2>1, <2>2, <2>3, <3>1
      <3>2. CASE i \in 1..n
        BY <1>1, <1>2, <2>1, <2>3, <3>2
      <3> QED
        BY <1>1, <3>1, <3>2
    <2> QED
      BY <2>1, <2>3, <2>4
  <1>5. /\ Entered(t) \in 1..(Size - 1)
        /\ Entered(t) = IF n < Size - 1 THEN n + 1 ELSE Size - 1
        /\ \A i \in Cells : EnteredLine(t)[i] =
                IF i = n /\ i < Size - 1 THEN NL ELSE line_buffer[t][i]
        /\ Room(t) = Size - 1 - Count(t)
        /\ Kept(t) = IF Entered(t) <= Room(t) THEN Entered(t) ELSE Room(t)
    BY EnteredIs
  <1>6. Queue(t) \in Seq(Chars) /\ Len(Queue(t)) = Count(t) /\ Count(t) \in Nat /\ Count(t) < Size
    BY QueueIs, CellFacts
  <1> HIDE DEF w, x, n
  <1>7. /\ y \in Seq(Chars) /\ Len(y) = Entered(t)
        /\ \A i \in 1..Entered(t) : y[i] = x[i]
    <2>1. <<>> \in Seq(Chars) /\ Len(<<>>) = 0 /\ Len(<<>>) < Size
      BY <1>1
    <2>2. LET m == IF Len(x) <= Size - 1 - Len(<<>>) THEN Len(x) ELSE Size - 1 - Len(<<>>)
          IN  y \in Seq(Chars) /\ Len(y) = m /\ \A i \in 1..m : y[i] = x[i]
      BY <1>4, <2>1, FitIs
    <2>3. (IF Len(x) <= Size - 1 - Len(<<>>) THEN Len(x) ELSE Size - 1 - Len(<<>>)) = Entered(t)
      BY <1>1, <1>4, <1>5, <2>1
    <2> QED
      BY <2>2, <2>3
  <1> HIDE DEF y
  <1>8. s \in Seq(Chars) /\ Len(s) = Kept(t) /\ \A i \in 1..Kept(t) : s[i] = y[i]
    <2>1. LET m == IF Len(y) <= Size - 1 - Len(Queue(t)) THEN Len(y)
                   ELSE Size - 1 - Len(Queue(t))
          IN  s \in Seq(Chars) /\ Len(s) = m /\ \A i \in 1..m : s[i] = y[i]
      BY <1>6, <1>7, FitIs
    <2>2. (IF Len(y) <= Size - 1 - Len(Queue(t)) THEN Len(y) ELSE Size - 1 - Len(Queue(t)))
            = Kept(t)
      BY <1>5, <1>6, <1>7
    <2> QED
      BY <2>1, <2>2
  <1> HIDE DEF s
  <1>9. ASSUME NEW i \in 1..Kept(t)
        PROVE  s[i] = EnteredLine(t)[i - 1]
    <2>1. i \in 1..Entered(t) /\ i \in 1..(n + 1) /\ i - 1 \in Cells /\ i \in Nat
      BY <1>1, <1>5, <1>6, CellFacts
    <2>2. s[i] = IF i = n + 1 THEN NL ELSE line_buffer[t][i - 1]
      BY <1>4, <1>7, <1>8, <2>1
    <2>3. EnteredLine(t)[i - 1] =
              IF i - 1 = n /\ i - 1 < Size - 1 THEN NL ELSE line_buffer[t][i - 1]
      BY <1>5, <2>1
    <2>4. i - 1 = n <=> i = n + 1
      BY <1>1, <2>1
    <2>5. i - 1 < Size - 1
      BY <1>1, <1>5, <2>1
    <2> QED
      BY <2>2, <2>3, <2>4, <2>5
  <1> QED
    BY <1>8, <1>9 DEF s, y, x

\* The ring after Enter: what it held, and the bytes kept behind that.
LEMMA RingGrows ==
    ASSUME TypeOK, EndLine, NEW t \in Ttys, t = current_tty
    PROVE  /\ Queue(t)' \in Seq(Chars) /\ Len(Queue(t)') = Count(t) + Kept(t)
           /\ \A i \in 1..(Count(t) + Kept(t)) :
                Queue(t)'[i] = IF i <= Count(t) THEN Queue(t)[i]
                               ELSE EnteredLine(t)[i - Count(t) - 1]
  <1>1. TypeOK' /\ Count(t)' = Count(t) + Kept(t)
    <2>1. TypeOK' /\ Count(current_tty)' = Count(current_tty) + Kept(current_tty)
      BY EndLineTypes
    <2>2. current_tty' = current_tty
      BY EndLineIs DEF Passes, kbdVars
    <2> QED
      BY <2>1, <2>2 DEF Count
  <1>2. /\ input_buf' = [input_buf EXCEPT ![t] =
                 [i \in Cells |-> IF Used(i, input_head[t]) < Kept(t)
                                  THEN EnteredLine(t)[Used(i, input_head[t])]
                                  ELSE input_buf[t][i]]]
        /\ input_tail' = input_tail
    BY EndLineIs
  <1>3. /\ \A c \in Cells : input_buf'[t][c] =
              IF Used(c, input_head[t]) < Kept(t)
              THEN EnteredLine(t)[Used(c, input_head[t])] ELSE input_buf[t][c]
        /\ input_tail'[t] = input_tail[t]
    BY <1>2 DEF TypeOK
  <1>4. input_head[t] \in Cells /\ input_tail[t] \in Cells
    BY DEF TypeOK
  <1>5. /\ Kept(t) \in Nat /\ Count(t) \in Nat /\ Count(t) + Kept(t) <= Size - 1 /\ Size \in Nat
        /\ Count(t) = Used(input_head[t], input_tail[t])
    BY EnteredIs, QueueIs, CellFacts DEF Count
  <1>6. Queue(t)' \in Seq(Chars) /\ Len(Queue(t)') = Count(t) + Kept(t)
    BY <1>1, QueueNext
  <1>7. ASSUME NEW i \in 1..(Count(t) + Kept(t))
        PROVE  Queue(t)'[i] = IF i <= Count(t) THEN Queue(t)[i]
                              ELSE EnteredLine(t)[i - Count(t) - 1]
    <2> DEFINE k    == i - 1
               cell == (input_tail[t] + k) % Size
               far  == Used(cell, input_head[t])
    <2>1. k \in Cells /\ k \in Nat /\ input_tail[t] + i - 1 = input_tail[t] + k
      BY <1>4, <1>5, CellFacts
    <2>2. /\ cell \in Cells
          /\ far = IF k < Count(t) THEN k - Count(t) + Size ELSE k - Count(t)
      <3> HIDE DEF k
      <3> QED
        BY <1>4, <1>5, <2>1, UsedFromHead
    <2>3. Queue(t)'[i] = input_buf'[t][cell]
      BY <1>1, <1>3, <2>1, QueueNext
    <2> HIDE DEF cell, far
    <2>4. CASE i <= Count(t)
      <3>1. ~(far < Kept(t))
        BY <1>5, <2>1, <2>2, <2>4
      <3>2. Queue(t)'[i] = input_buf[t][cell]
        BY <1>3, <2>2, <2>3, <3>1 DEF far
      <3>3. Queue(t)[i] = input_buf[t][cell]
        BY <1>5, <2>1, <2>4, QueueIs DEF cell
      <3> QED
        BY <2>4, <3>2, <3>3
    <2>5. CASE ~(i <= Count(t))
      <3>1. far = i - Count(t) - 1 /\ far < Kept(t)
        BY <1>5, <2>1, <2>2, <2>5
      <3>2. Queue(t)'[i] = EnteredLine(t)[far]
        BY <1>3, <2>2, <2>3, <3>1 DEF far
      <3> QED
        BY <2>5, <3>1, <3>2
    <2> QED
      BY <2>4, <2>5
  <1> QED
    BY <1>6, <1>7

LEMMA EndLineSubmits ==
    ASSUME TypeOK, EndLine
    PROVE  \E t \in Ttys : LT!Submit(t)
  <1>1. PICK t \in Ttys : t = current_tty
    BY DEF TypeOK
  <1> DEFINE s == Fit(Queue(t), Fit(<<>>, Left(t) \o Right(t) \o <<NL>>))
  <1>2. s \in Seq(Chars) /\ Len(s) = Kept(t) /\ \A i \in 1..Kept(t) : s[i] = EnteredLine(t)[i - 1]
    BY SubmittedIs
  <1>3. Queue(t) \in Seq(Chars) /\ Len(Queue(t)) = Count(t) /\ Count(t) \in Nat /\ Kept(t) \in Nat
    BY QueueIs, EnteredIs, CellFacts
  <1>4. /\ Queue(t)' \in Seq(Chars) /\ Len(Queue(t)') = Count(t) + Kept(t)
        /\ \A i \in 1..(Count(t) + Kept(t)) :
                Queue(t)'[i] = IF i <= Count(t) THEN Queue(t)[i]
                               ELSE EnteredLine(t)[i - Count(t) - 1]
    BY <1>1, RingGrows
  <1>5. Queue(t)' = Queue(t) \o s
    <2> HIDE DEF s
    <2>1. /\ Queue(t) \o s \in Seq(Chars) /\ Len(Queue(t) \o s) = Count(t) + Kept(t)
          /\ \A i \in 1..(Count(t) + Kept(t)) :
                (Queue(t) \o s)[i] = IF i <= Count(t) THEN Queue(t)[i] ELSE s[i - Count(t)]
      <3>1. /\ Queue(t) \o s \in Seq(Chars) /\ Len(Queue(t) \o s) = Len(Queue(t)) + Len(s)
            /\ \A i \in 1..Len(Queue(t)) + Len(s) : (Queue(t) \o s)[i] =
                  IF i <= Len(Queue(t)) THEN Queue(t)[i] ELSE s[i - Len(Queue(t))]
        BY <1>2, <1>3, ConcatProperties
      <3>2. Len(Queue(t)) = Count(t) /\ Len(s) = Kept(t)
        BY <1>2, <1>3
      <3> QED
        BY <3>1, <3>2
    <2>2. ASSUME NEW i \in 1..(Count(t) + Kept(t))
          PROVE  Queue(t)'[i] = (Queue(t) \o s)[i]
      <3>1. CASE i <= Count(t)
        BY <1>4, <2>1, <3>1
      <3>2. CASE ~(i <= Count(t))
        <4>1. i - Count(t) \in 1..Kept(t)
          BY <1>3, <3>2
        <4>2. s[i - Count(t)] = EnteredLine(t)[i - Count(t) - 1]
          BY <1>2, <4>1
        <4> QED
          BY <1>4, <2>1, <3>2, <4>2
      <3> QED
        BY <3>1, <3>2
    <2> QED
      BY <1>4, <2>1, <2>2, SeqEqual
  <1>6. /\ \E b : line_buffer' = [line_buffer EXCEPT ![t] = b]
        /\ \E b : input_buf' = [input_buf EXCEPT ![t] = b]
        /\ \E h : input_head' = [input_head EXCEPT ![t] = h]
        /\ line_length' = [line_length EXCEPT ![t] = 0]
        /\ line_cursor' = [line_cursor EXCEPT ![t] = 0]
        /\ input_tail' = input_tail
    BY <1>1, EndLineIs
  <1>7. /\ line_length'[t] = 0 /\ line_cursor'[t] = 0
        /\ \A u \in Ttys \ {t} : /\ line_buffer'[u] = line_buffer[u]
                                 /\ line_length'[u] = line_length[u]
                                 /\ line_cursor'[u] = line_cursor[u]
                                 /\ input_buf'[u] = input_buf[u]
                                 /\ input_head'[u] = input_head[u]
                                 /\ input_tail'[u] = input_tail[u]
    BY <1>6 DEF TypeOK
  <1>8. TypeOK'
    BY EndLineTypes
  <1>9. Left(t)' = <<>> /\ Right(t)' = <<>>
    BY <1>7, <1>8, HalvesNext
  <1>10. \A u \in Ttys \ {t} : /\ Left(u)' = Left(u) /\ Right(u)' = Right(u)
                               /\ Queue(u)' = Queue(u)
    BY <1>7, HalvesSame, QueueSame
  <1>11. /\ Lefts' = [Lefts EXCEPT ![t] = <<>>] /\ Rights' = [Rights EXCEPT ![t] = <<>>]
    BY <1>9, <1>10 DEF Lefts, Rights
  <1>12. Queues' = [Queues EXCEPT ![t] = Queues[t] \o
                Fit(Queues[t], Fit(<<>>, Lefts[t] \o Rights[t] \o <<NL>>))]
    <2>1. Queues' = [Queues EXCEPT ![t] = Queue(t)']
      BY <1>10 DEF Queues
    <2>2. Queues[t] = Queue(t) /\ Lefts[t] = Left(t) /\ Rights[t] = Right(t)
      BY DEF Queues, Lefts, Rights
    <2> QED
      BY <1>5, <2>1, <2>2
  <1>13. LT!Submit(t)
    BY <1>11, <1>12, SubmitMeans
  <1> QED
    BY <1>13

-----------------------------------------------------------------------------
(* A read is Read.                                                          *)

LEMMA TakesReads ==
    ASSUME TypeOK, TypeOK', UNCHANGED lineVars, NEW t \in Ttys, NEW n \in 1..Size, Takes(t, n)
    PROVE  LT!Read(t)
  <1>1. n \in 0..Size /\ n \in Nat /\ n >= 1
    BY CellFacts
  <1>2. /\ Count(t)' = Count(t) - n
        /\ \A u \in Ttys \ {t} : input_tail'[u] = input_tail[u]
    BY <1>1, TakesTypes
  <1>3. /\ n <= Count(t)
        /\ \A i \in 1..(n - 1) : Queue(t)[i] # NL
        /\ input_tail' = [input_tail EXCEPT ![t] = (input_tail[t] + n) % Size]
        /\ UNCHANGED <<input_buf, input_head>>
    BY DEF Takes
  <1>4. input_tail'[t] = (input_tail[t] + n) % Size /\ input_tail[t] \in Cells
    BY <1>3 DEF TypeOK
  <1>5. /\ Count(t) \in Cells /\ Count(t) \in Nat /\ Count(t) < Size /\ Size \in Nat
        /\ Queue(t) \in Seq(Chars) /\ Len(Queue(t)) = Count(t)
    BY QueueIs, CellFacts
  <1>6. /\ Queue(t)' \in Seq(Chars) /\ Len(Queue(t)') = Count(t) - n
        /\ \A i \in 1..(Count(t) - n) :
              Queue(t)'[i] = input_buf[t][(input_tail'[t] + i - 1) % Size]
    BY <1>2, <1>3, QueueNext
  <1>7. Queue(t)' = SubSeq(Queue(t), n + 1, Count(t))
    <2>1. /\ SubSeq(Queue(t), n + 1, Count(t)) \in Seq(Chars)
          /\ Len(SubSeq(Queue(t), n + 1, Count(t))) = Count(t) - n
          /\ \A i \in 1..(Count(t) - n) :
                SubSeq(Queue(t), n + 1, Count(t))[i] = Queue(t)[n + i]
      BY <1>1, <1>3, <1>5
    <2>2. ASSUME NEW i \in 1..(Count(t) - n)
          PROVE  Queue(t)'[i] = Queue(t)[n + i]
      <3>1. n + i \in 1..Count(t) /\ i \in Nat
        BY <1>1, <1>5
      <3>2. (input_tail'[t] + i - 1) % Size = (input_tail[t] + (n + i) - 1) % Size
        <4> DEFINE a == input_tail[t]
                   b == (a + n) % Size
        <4>1. b \in Cells /\ b = IF a + n < Size THEN a + n ELSE a + n - Size
          BY <1>1, <1>4, StepIs
        <4>2. i - 1 \in 0..Size /\ (n + i) - 1 \in 0..Size
          BY <1>1, <1>5, <3>1
        <4>3. (b + (i - 1)) % Size =
                  IF b + (i - 1) < Size THEN b + (i - 1) ELSE b + (i - 1) - Size
          <5> HIDE DEF b
          <5> QED
            BY <4>1, <4>2, StepIs
        <4>4. (a + ((n + i) - 1)) % Size =
                  IF a + ((n + i) - 1) < Size THEN a + ((n + i) - 1)
                  ELSE a + ((n + i) - 1) - Size
          BY <1>4, <4>2, StepIs
        <4> HIDE DEF b
        <4>5. b \in Nat /\ a \in Nat /\ b < Size /\ a < Size
          BY <1>4, <4>1, CellFacts
        <4>6. (b + (i - 1)) % Size = (a + ((n + i) - 1)) % Size
          <5> HIDE DEF a
          <5>1. b + (i - 1) = IF a + n < Size THEN a + ((n + i) - 1)
                              ELSE a + ((n + i) - 1) - Size
            BY <1>1, <1>5, <3>1, <4>1, <4>5
          <5>2. (IF b + (i - 1) < Size THEN b + (i - 1) ELSE b + (i - 1) - Size)
                = (IF a + ((n + i) - 1) < Size THEN a + ((n + i) - 1)
                   ELSE a + ((n + i) - 1) - Size)
            BY <1>1, <1>5, <3>1, <4>2, <4>5, <5>1
          <5> QED
            BY <4>3, <4>4, <5>2
        <4>7. /\ b + (i - 1) = input_tail'[t] + i - 1
              /\ a + ((n + i) - 1) = input_tail[t] + (n + i) - 1
          BY <1>1, <1>4, <3>1, <4>5 DEF b
        <4> QED
          BY <4>6, <4>7
      <3> QED
        BY <1>6, <3>1, <3>2, QueueIs
    <2> QED
      BY <1>5, <1>6, <2>1, <2>2, SeqEqual
  <1>8. \A u \in Ttys \ {t} : Queue(u)' = Queue(u)
    BY <1>2, <1>3, QueueSame
  <1>9. Queues' = [Queues EXCEPT ![t] = SubSeq(Queues[t], n + 1, Len(Queues[t]))]
    <2>1. Queues' = [Queues EXCEPT ![t] = Queue(t)']
      BY <1>8 DEF Queues
    <2> QED
      BY <1>5, <1>7, <2>1 DEF Queues
  <1>10. n \in 1..Len(Queues[t]) /\ \A i \in 1..(n - 1) : Queues[t][i] # NL
    <2>1. Queues[t] = Queue(t)
      BY DEF Queues
    <2> QED
      BY <1>1, <1>3, <1>5, <2>1
  <1> QED
    BY <1>9, <1>10, LinesSame, ReadMeans

LEMMA ReadReads ==
    ASSUME IInv, NEW p \in Procs, ReadNow(p) \/ ReadWait(p) \/ ReadWoken(p)
    PROVE  (\E t \in Ttys : LT!Read(t)) \/ UNCHANGED LT!vars
  <1>1. TypeOK /\ TypeOK'
    BY ReadTypes DEF IInv
  <1>2. UNCHANGED lineVars
    BY ReadIs
  <1>3. CASE UNCHANGED ringVars
    BY <1>2, <1>3, LinesSame, QueuesSame, StutterMeans
  <1>4. ASSUME NEW t \in Ttys, NEW n \in 1..Size, Takes(t, n)
        PROVE  LT!Read(t)
    BY <1>1, <1>2, <1>4, TakesReads
  <1> QED
    BY <1>3, <1>4, ReadIs

-----------------------------------------------------------------------------
LEMMA StepMaps == IInv /\ [Next]_vars => [LT!LineNext]_LT!vars
  <1> SUFFICES ASSUME IInv, [Next]_vars
               PROVE  LT!LineNext \/ UNCHANGED LT!vars
    OBVIOUS
  <1>1. TypeOK
    BY DEF IInv
  <1>2. ASSUME UNCHANGED lineVars, UNCHANGED ringVars
        PROVE  UNCHANGED LT!vars
    BY <1>2, LinesSame, QueuesSame, StutterMeans
  <1>3. CASE UNCHANGED vars
    BY <1>2, <1>3 DEF vars
  <1>4. CASE Keyboard
    BY <1>1, <1>2, <1>4, KeyboardTypes
  <1>5. CASE StartEscape \/ AfterEscape
    BY <1>2, <1>5 DEF StartEscape, AfterEscape
  <1>6. CASE EndEscape
    BY <1>1, <1>6, EndEscapeMoves DEF LT!LineNext
  <1>7. CASE EndLine
    BY <1>1, <1>7, EndLineSubmits DEF LT!LineNext
  <1>8. CASE Backspace
    BY <1>1, <1>8, BackspaceRubs DEF LT!LineNext
  <1>9. CASE Insert
    BY <1>1, <1>9, InsertInserts DEF LT!LineNext
  <1>10. CASE \E p \in Procs : ReadNow(p) \/ ReadWait(p) \/ ReadWoken(p)
    BY <1>10, ReadReads DEF LT!LineNext
  <1> QED
    BY <1>3, <1>4, <1>5, <1>6, <1>7, <1>8, <1>9, <1>10 DEF Next, InputChar

\* The terminals' input is LineTty: the shifts in the line's buffer, the
\* ring's indices and the copy between them lose nothing but what LineTty's
\* Submit drops, and a read takes the oldest bytes of the queue and never
\* more than one line.
THEOREM LinesImplemented == Spec => Lines
  BY InitMaps, StepMaps, Invariance, PTL DEF Spec, Lines, LT!LineSpec
=============================================================================
