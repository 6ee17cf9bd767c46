-------------------------------- MODULE Term --------------------------------
(***************************************************************************)
(* The terminals' output side: the parser of escape sequences that all     *)
(* terminals share (drivers/tty/hansi_parser.c), the cells and the cursor  *)
(* of each terminal (drivers/tty/tty.c), and who writes to them: programs, *)
(* through descriptors 1 and 2, and the echo of the line being edited      *)
(* (drivers/tty/tty_input.c).                                              *)
(*                                                                         *)
(* sys_write and the keyboard interrupt run with interrupts off, so a      *)
(* program's text and the echo of a key are one action each; a sequence of *)
(* a program may be split over several texts.  The line is module          *)
(* LineTty's, of which Tty's buffer is an implementation.  Colours, pixels *)
(* and the blinking cursor are left out.                                   *)
(***************************************************************************)
EXTENDS Integers, Sequences, SequencesExt, FiniteSetsExt

CONSTANTS
    Ttys,
    Width, Height,  \* of the screen, in cells
    TabStop,        \* 8
    Wrap,           \* 2^16: the cursor is two uint16_t
    MaxArgs,        \* MAX_ARGS
    Texts,          \* what programs write in one call
    Typed,          \* the printable characters that are typed
    LineSize,       \* TTY_MAX_BUF
    MaxSteps        \* bound: writes, keys and switches of a run

ASSUME TermAssumption ==
    /\ Ttys # {} /\ {Width, Height, TabStop, MaxArgs, LineSize} \subseteq Nat \ {0}
    /\ MaxArgs > 1 /\ Wrap \in Nat /\ Width < Wrap /\ Height < Wrap /\ MaxSteps \in Nat
    /\ Texts \subseteq Seq(STRING)

VARIABLES
    tty,        \* of each terminal its cells, row by row, and the cursor x, y
    parser,     \* g_parser
    line,       \* of each terminal, the line under way (see below)
    current_tty,
    steps

vars == <<tty, parser, line, current_tty, steps>>

ESC == "escape"
NL  == "newline"
CR  == "return"
TAB == "tab"
BS  == "backspace"
NUL == "nul"
Blank == " "

\* tty_input_char inserts characters from the blank to the tilde.
ASSUME TypedAssumption == Typed \cap {ESC, NL, CR, TAB, BS, NUL} = {}

Digit  == [c \in {"0", "1", "2", "9"} |-> CASE c = "0" -> 0 [] c = "1" -> 1
                                            [] c = "2" -> 2 [] c = "9" -> 9]

Columns == 0..(Width - 1)
Rows    == 0..(Height - 1)

Row(c) == [x \in Columns |-> c]
Clear  == [cells |-> [y \in Rows |-> Row(NUL)], x |-> 0, y |-> 0]

-----------------------------------------------------------------------------
(* tty_putchar_raw.                                                        *)

Filled(t, from, to) ==
    [t EXCEPT !.cells[t.y] = [x \in Columns |-> IF x \in from..to THEN Blank ELSE @[x]]]

\* What the character itself does.
Moved(t, c) ==
    CASE c = NL  -> [Filled(t, t.x, Width - 1) EXCEPT !.x = 0, !.y = @ + 1]
      [] c = CR  -> [t EXCEPT !.x = 0]
      [] c = TAB -> LET to == Min({t.x - (t.x % TabStop) + TabStop, Width})
                    IN  [Filled(t, t.x, to - 1) EXCEPT !.x = to]
      [] c = BS  -> LET u == IF t.x > 0 THEN [t EXCEPT !.x = @ - 1]
                             ELSE IF t.y > 0 THEN [t EXCEPT !.y = @ - 1, !.x = Width - 1]
                             ELSE t
                    IN  Filled(u, u.x, u.x)
      [] OTHER   -> [t EXCEPT !.cells[t.y][t.x] = c, !.x = @ + 1]

\* Mutant: the cursor may stand behind the last column.
WrappedLate(t) == IF t.x > Width THEN [t EXCEPT !.x = 0, !.y = @ + 1] ELSE t

Wrapped(t) == IF t.x >= Width THEN [t EXCEPT !.x = 0, !.y = @ + 1] ELSE t

Scrolled(t) ==
    IF t.y < Height THEN t
    ELSE [cells |-> [y \in Rows |-> IF y + 1 \in Rows THEN t.cells[y + 1] ELSE Row(Blank)],
          x |-> 0, y |-> Height - 1]

Raw(t, c) == Scrolled(Wrapped(Moved(t, c)))

-----------------------------------------------------------------------------
(* hansi_handler.                                                          *)

Empty == -1

\* A number that has not been given is Empty; args has one cell more than
\* g_parser.args, for what lies behind the array.  `given` is a ghost: the numbers
\* of the sequence as they were written.
Idle == [state |-> "ESC", index |-> 0, args |-> [i \in 0..MaxArgs |-> 0], given |-> <<>>]

\* Mutant: a sequence goes on from the number where the last one ended.
BegunStale(p) == [p EXCEPT !.state = "BRACKET", !.args[p.index] = Empty, !.given = <<Empty>>]

Begun(p) == [p EXCEPT !.state = "BRACKET", !.index = 0, !.args[0] = Empty, !.given = <<Empty>>]

\* A further digit.
Longer(value, c) == (IF value = Empty THEN 0 ELSE value) * 10 + Digit[c]
Digits(p, c) == [p EXCEPT !.args[p.index] = Longer(@, c),
                          !.given[Len(p.given)] = Longer(@, c)]

\* A number ends; the index stays when the array is full, which it exceeds by one.
Ended(p) ==
    LET next == IF p.index < MaxArgs THEN p.index + 1 ELSE p.index
    IN  [p EXCEPT !.index = next, !.args[next] = Empty]

\* Number i of a sequence as a count or a position.
Count(p, i) == Max({1, p.args[i]})

\* The last character of a sequence; (uint16_t)n and the sums are modulo Wrap.
Performed(p, t, c) ==
    LET n == Count(p, 0) IN
    CASE c = "A" -> [t EXCEPT !.y = IF @ >= n % Wrap THEN (@ - n) % Wrap ELSE 0]
      [] c = "B" -> [t EXCEPT !.y = Min({(@ + n) % Wrap, Height - 1})]
      [] c = "C" -> [t EXCEPT !.x = Min({(@ + n) % Wrap, Width - 1})]
      [] c = "D" -> [t EXCEPT !.x = IF @ >= n % Wrap THEN (@ - n) % Wrap ELSE 0]
      [] c = "H" -> [t EXCEPT !.y = Min({(n - 1) % Wrap, Height - 1}),
                              !.x = Min({(Count(p, 1) - 1) % Wrap, Width - 1})]
      [] c = "J" -> IF p.args[0] = 2 THEN Clear ELSE t
      [] OTHER   -> t

\* hansi_handler(c), on the parser p and the terminal shown t.
Handled(o, c) ==
    LET p == o.p IN
    CASE p.state = "ESC" /\ c = ESC   -> [o EXCEPT !.p = Begun(p)]
      [] p.state = "ESC" /\ c # ESC   -> [o EXCEPT !.t = Raw(@, c)]
      [] p.state = "BRACKET" /\ c = "[" -> [o EXCEPT !.p.state = "ARGS"]
      [] p.state = "BRACKET" /\ c # "[" -> [p |-> [p EXCEPT !.state = "ESC"], t |-> Raw(o.t, c)]
      [] p.state = "ARGS" /\ c \in DOMAIN Digit -> [o EXCEPT !.p = Digits(p, c)]
      [] p.state = "ARGS" /\ c = ";"  -> [o EXCEPT !.p = [Ended(p) EXCEPT !.given = Append(@, Empty)]]
      [] OTHER -> [p |-> [Ended(p) EXCEPT !.state = "ESC"], t |-> Performed(Ended(p), o.t, c)]

\* tty_putchar for each character of a text.
Put(text) ==
    LET shown[i \in 0..Len(text)] ==
          IF i = 0 THEN [p |-> parser, t |-> tty[current_tty]] ELSE Handled(shown[i - 1], text[i])
    IN  shown[Len(text)]

-----------------------------------------------------------------------------
\* A line: what is left and right of its cursor, and two ghosts: the column it
\* starts in, and whether it is `kept`, that is, nothing but its echo has come on
\* its terminal, none of it inside another sequence, and it fits the row.
NoLine(x) == [left |-> <<>>, right |-> <<>>, col |-> x, kept |-> TRUE]

Init ==
    /\ tty = [t \in Ttys |-> Clear]
    /\ parser = Idle
    /\ line = [t \in Ttys |-> NoLine(0)]
    /\ current_tty = CHOOSE t \in Ttys : TRUE
    /\ steps = 0

Step == steps < MaxSteps /\ steps' = steps + 1

Show(o) == tty' = [tty EXCEPT ![current_tty] = o.t] /\ parser' = o.p

\* sys_write on descriptor 1 or 2.
Write(text) ==
    LET o == Put(text)
        l == line[current_tty]
    IN
    /\ Step
    /\ Show(o)
    /\ line' = [line EXCEPT ![current_tty] = IF l.left \o l.right = <<>> THEN NoLine(o.t.x)
                                             ELSE [l EXCEPT !.kept = FALSE]]
    /\ UNCHANGED current_tty

\* tty_input_char has made the line l of it, and echoes.
Echo(l, text) ==
    LET o    == Put(text)
        fits == l.col + Len(l.left) + Len(l.right) < Width
    IN
    /\ Step
    /\ Show(o)
    /\ line' = [line EXCEPT ![current_tty] = [l EXCEPT !.kept = @ /\ fits /\ parser.state = "ESC"]]
    /\ UNCHANGED current_tty

Times(n, text) == [i \in 1..(n * Len(text)) |-> text[((i - 1) % Len(text)) + 1]]

\* Mutant: the cursor stays behind what was right of it.
InsertEchoStays(c, right) == <<c>> \o right

\* The character and what is right of the cursor, and back.
InsertEcho(c, right) == <<c>> \o right \o Times(Len(right), <<BS>>)

Insert(c) ==
    LET l == line[current_tty] IN
    /\ Len(l.left) + Len(l.right) < LineSize - 1
    /\ Echo([l EXCEPT !.left = Append(@, c)], InsertEcho(c, l.right))

\* Back, what is right of the cursor again, a blank over its old end, and back.
Backspace ==
    LET l == line[current_tty] IN
    /\ l.left # <<>>
    /\ Echo([l EXCEPT !.left = Front(@)],
            <<BS>> \o l.right \o <<Blank>> \o Times(Len(l.right) + 1, <<BS>>))

\* The left and the right arrow, Home and End.
Left(n) ==
    LET l == line[current_tty]
        k == Len(l.left) - n
    IN
    /\ n \in 1..Len(l.left)
    /\ Echo([l EXCEPT !.left = SubSeq(@, 1, k), !.right = SubSeq(l.left, k + 1, k + n) \o @],
            Times(n, <<ESC, "[", "D">>))

Right(n) ==
    LET l == line[current_tty] IN
    /\ n \in 1..Len(l.right)
    /\ Echo([l EXCEPT !.left = @ \o SubSeq(l.right, 1, n), !.right = SubSeq(@, n + 1, Len(@))],
            Times(n, <<ESC, "[", "C">>))

\* The line goes to the readers.
Enter ==
    /\ Step
    /\ Show(Put(<<NL>>))
    /\ line' = [line EXCEPT ![current_tty] = NoLine(Put(<<NL>>).t.x)]
    /\ UNCHANGED current_tty

\* tty_switch paints the other terminal's cells; the parser stays as it is.
Switch(t) ==
    /\ Step
    /\ t # current_tty /\ current_tty' = t
    /\ UNCHANGED <<tty, parser, line>>

Next ==
    \/ \E text \in Texts : Write(text)
    \/ \E c \in Typed : Insert(c)
    \/ Backspace
    \/ \E n \in {1, Len(line[current_tty].left)} : Left(n)
    \/ \E n \in {1, Len(line[current_tty].right)} : Right(n)
    \/ Enter
    \/ \E t \in Ttys : Switch(t)

Spec == Init /\ [][Next]_vars

-----------------------------------------------------------------------------
(* Properties.                                                             *)

\* Every cursor is on its screen after whatever was written, so that the cell
\* that is read or written there (tty_hide_cursor, tty_putchar_raw) exists: with
\* numbers of any size, whose sums wrap around, and with scrolling.
CursorOnScreen == \A t \in Ttys : tty[t].x \in Columns /\ tty[t].y \in Rows

\* A cursor position goes where its own two numbers say, cut to the screen, in
\* however many writes the sequence came, whatever sequences, numbers too many or
\* none came before it, and on whatever terminal it began.
PositionObeyed ==
    [][Write(<<"H">>) /\ parser.state = "ARGS" =>
         LET at(i) == IF i <= Len(parser.given) /\ parser.given[i] > 0 THEN parser.given[i] ELSE 1
         IN  /\ tty'[current_tty].y = Min({(at(1) - 1) % Wrap, Height - 1})
             /\ tty'[current_tty].x = Min({(at(2) - 1) % Wrap, Width - 1})]_vars

\* The cell of a line's i-th character.
CellOf(t, i) == tty[t].cells[tty[t].y][line[t].col + i - 1]
TextOf(t) == line[t].left \o line[t].right

\* The cursor on the screen is where the line's cursor is, and no cell of the line
\* shows a character that is not there: after any editing, as long as the line is
\* kept, each shows its own or a blank.
EchoInStep ==
    \A t \in Ttys : line[t].kept =>
      /\ tty[t].x = line[t].col + Len(line[t].left)
      /\ \A i \in 1..Len(TextOf(t)) : CellOf(t, i) \in {TextOf(t)[i], Blank}

\* "Echo: move back, redraw rest of line, clear last char, move cursor back"
\* (tty_input.c:129): what is right of the cursor is on the screen, as is the rest.
EchoShowsLine ==
    \A t \in Ttys : line[t].kept => \A i \in 1..Len(TextOf(t)) : CellOf(t, i) = TextOf(t)[i]
=============================================================================
