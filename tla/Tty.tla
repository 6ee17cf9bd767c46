-------------------------------- MODULE Tty --------------------------------
(***************************************************************************)
(* The terminals' input side: the keyboard interrupt (drivers/keyboard.c), *)
(* the canonical line discipline it feeds and the reads that wait for its  *)
(* lines (drivers/tty/tty_input.c).                                        *)
(*                                                                         *)
(* A key's interrupt handler passes its characters to tty_input_char one   *)
(* by one with interrupts off: while `pending` holds characters nothing    *)
(* else happens.  A read runs with interrupts off except in its sti;hlt    *)
(* loop, so it is one action before the loop and one after it.             *)
(*                                                                         *)
(* No caller ever leaves canonical mode (tty_set_ldisc is not called), and *)
(* the keyboard's maps hold no control characters for Ctrl-C and Ctrl-L.   *)
(***************************************************************************)
EXTENDS Integers, Sequences, SequencesExt, FiniteSetsExt

CONSTANTS
    Ttys,       \* the terminals tty_switch can show
    Procs,      \* the processes that read
    Size,       \* TTY_MAX_BUF
    Ordinary,   \* the ordinary keys, by the character they stand for
    Specials,   \* the extended keys, by the characters they send
    Lens        \* the lengths that reads ask for

NL  == "newline"
BS  == "backspace"
ESC == "escape"
NUL == "nul"

\* The characters that extended keys send after ESC [.
Arrows == {<<"C">>, <<"D">>, <<"H">>, <<"F">>, <<"A">>, <<"3", "~">>}

ASSUME TtyAssumption ==
    /\ Ttys # {} /\ Ttys \subseteq Nat
    /\ Size \in Nat /\ Size >= 2
    /\ Specials \subseteq Arrows
    /\ Lens \subseteq Nat \ {0}

VARIABLES
    line_buffer, line_length, line_cursor,
    input_esc_state,
    input_buf, input_head, input_tail,
    line_ready,
    current_tty,
    isCtrl, isExtended, \* the keyboard's flags
    pending,            \* the characters the key's handler has yet to pass
    reading             \* per process: the read that waits in tty_read

lineVars == <<line_buffer, line_length, line_cursor>>
ringVars == <<input_buf, input_head, input_tail, line_ready>>
kbdVars  == <<current_tty, isCtrl, isExtended>>
vars == <<lineVars, input_esc_state, ringVars, kbdVars, pending, reading>>

Cells  == 0..(Size - 1)
Chars  == Ordinary \cup {NL, ESC, NUL, "[", "A", "C", "D", "F", "H", "3", "~"}
NoRead == [tty |-> -1, len |-> 0]
Reads  == [tty : Ttys, len : Lens]

\* Types; cursor and indices are within the buffers.
TypeOK ==
    /\ line_buffer \in [Ttys -> [Cells -> Chars]]
    /\ line_length \in [Ttys -> 0..(Size - 1)]
    /\ line_cursor \in [Ttys -> 0..(Size - 1)]
    /\ \A t \in Ttys : line_cursor[t] <= line_length[t]
    /\ input_esc_state \in [Ttys -> {"NORMAL", "ESC", "CSI"}]
    /\ input_buf \in [Ttys -> [Cells -> Chars]]
    /\ input_head \in [Ttys -> Cells]
    /\ input_tail \in [Ttys -> Cells]
    /\ line_ready \in [Ttys -> BOOLEAN]
    /\ current_tty \in Ttys
    /\ isCtrl \in BOOLEAN /\ isExtended \in BOOLEAN
    /\ pending \in Seq(Chars)
    /\ reading \in [Procs -> Reads \cup {NoRead}]

Init ==
    /\ line_buffer = [t \in Ttys |-> [i \in Cells |-> NUL]]
    /\ line_length = [t \in Ttys |-> 0]
    /\ line_cursor = [t \in Ttys |-> 0]
    /\ input_esc_state = [t \in Ttys |-> "NORMAL"]
    /\ input_buf = [t \in Ttys |-> [i \in Cells |-> NUL]]
    /\ input_head = [t \in Ttys |-> 0]
    /\ input_tail = [t \in Ttys |-> 0]
    /\ line_ready = [t \in Ttys |-> FALSE]
    /\ current_tty \in Ttys
    /\ isCtrl = FALSE /\ isExtended = FALSE
    /\ pending = <<>>
    /\ reading = [p \in Procs |-> NoRead]

-----------------------------------------------------------------------------
(* keyboard_handler, handleKey_normal: one scancode per interrupt.          *)

Key(chars) ==
    /\ pending = <<>>
    /\ pending' = chars
    /\ UNCHANGED <<lineVars, input_esc_state, ringVars, current_tty, isCtrl,
                   reading>>

\* An ordinary key; Ctrl changes only what the digits do.
PressKey ==
    /\ ~isExtended
    /\ \E c \in Ordinary : Key(<<c>>)
    /\ UNCHANGED isExtended

PressCtrl ==
    /\ pending = <<>> /\ ~isExtended
    /\ isCtrl' = ~isCtrl
    /\ UNCHANGED <<lineVars, input_esc_state, ringVars, current_tty,
                   isExtended, pending, reading>>

\* Ctrl and a digit show another terminal.
tty_switch ==
    /\ pending = <<>> /\ ~isExtended /\ isCtrl
    /\ current_tty' \in Ttys
    /\ UNCHANGED <<lineVars, input_esc_state, ringVars, isCtrl, isExtended,
                   pending, reading>>

\* The 0xE0 prefix, then the key's own scancode or its release.
Prefix ==
    /\ pending = <<>> /\ ~isExtended
    /\ isExtended' = TRUE
    /\ UNCHANGED <<lineVars, input_esc_state, ringVars, current_tty, isCtrl,
                   pending, reading>>

PressExtended ==
    /\ isExtended
    /\ isExtended' = FALSE
    /\ \E s \in Specials : Key(<<ESC, "[">> \o s)

ReleaseExtended ==
    /\ isExtended
    /\ isExtended' = FALSE
    /\ Key(<<>>)

-----------------------------------------------------------------------------
(* tty_input_char in canonical mode, on the terminal shown.                 *)

\* The handler passes character c next.
Passes(c) ==
    /\ pending # <<>> /\ c = Head(pending)
    /\ pending' = Tail(pending)
    /\ UNCHANGED <<kbdVars, reading>>

EscState(s) == input_esc_state' = [input_esc_state EXCEPT ![current_tty] = s]

Normal == input_esc_state[current_tty] = "NORMAL"

StartEscape ==
    /\ Passes(ESC) /\ Normal
    /\ EscState("ESC")
    /\ UNCHANGED <<lineVars, ringVars>>

\* The character after ESC starts a sequence or is dropped.
AfterEscape ==
    /\ input_esc_state[current_tty] = "ESC"
    /\ \E c \in Chars : Passes(c) /\ EscState(IF c = "[" THEN "CSI" ELSE "NORMAL")
    /\ UNCHANGED <<lineVars, ringVars>>

\* Mutant: the right arrow does not stop at the end of the line.
CursorAfterPast(c, cursor, length) ==
    CASE c = "C" -> Min({cursor + 1, Size - 1})
      [] c = "D" -> Max({cursor - 1, 0})
      [] c = "H" -> 0
      [] c = "F" -> length
      [] OTHER   -> cursor

CursorAfter(c, cursor, length) ==
    CASE c = "C" -> Min({cursor + 1, length})
      [] c = "D" -> Max({cursor - 1, 0})
      [] c = "H" -> 0
      [] c = "F" -> length
      [] OTHER   -> cursor

\* The last character of a sequence moves the cursor or does nothing.
EndEscape ==
    LET t == current_tty IN
    /\ input_esc_state[t] = "CSI"
    /\ \E c \in Chars :
        /\ Passes(c)
        /\ line_cursor' = [line_cursor EXCEPT
                               ![t] = CursorAfter(c, @, line_length[t])]
    /\ EscState("NORMAL")
    /\ UNCHANGED <<line_buffer, line_length, ringVars>>

\* The number of bytes in a ring, and the bytes from the oldest on.
Used(head, tail) == (head - tail) % Size
Queue(t) == [i \in 1..Used(input_head[t], input_tail[t]) |->
                input_buf[t][(input_tail[t] + i - 1) % Size]]

\* Mutant: the ring is filled up until its head meets its tail.
RoomFull(t) == Size - Used(input_head[t], input_tail[t])

\* One cell stays empty, to tell a full ring from an empty one.
Room(t) == Size - 1 - Used(input_head[t], input_tail[t])

\* Mutant: line_ready is set only when the whole line fitted.
EndLineUnlessFull ==
    LET t      == current_tty
        length == Min({line_length[t] + 1, Size - 1})
        line   == [line_buffer[t] EXCEPT
                      ![line_length[t]] = IF line_length[t] < length THEN NL ELSE @]
        n      == Min({length, Room(t)})
    IN
    /\ Passes(NL) /\ Normal
    /\ line_buffer' = [line_buffer EXCEPT ![t] = line]
    /\ input_buf' = [input_buf EXCEPT ![t] =
            [i \in Cells |-> IF Used(i, input_head[t]) < n
                             THEN line[Used(i, input_head[t])] ELSE @[i]]]
    /\ input_head' = [input_head EXCEPT ![t] = (@ + n) % Size]
    /\ line_length' = [line_length EXCEPT ![t] = 0]
    /\ line_cursor' = [line_cursor EXCEPT ![t] = 0]
    /\ line_ready' = [line_ready EXCEPT ![t] = (n = length)]
    /\ UNCHANGED <<input_esc_state, input_tail>>

\* Enter: a newline if there is room for it, then the copy to the ring,
\* which drops what does not fit.
EndLine ==
    LET t      == current_tty
        length == Min({line_length[t] + 1, Size - 1})
        line   == [line_buffer[t] EXCEPT
                      ![line_length[t]] = IF line_length[t] < length THEN NL ELSE @]
        n      == Min({length, Room(t)})
    IN
    /\ Passes(NL) /\ Normal
    /\ line_buffer' = [line_buffer EXCEPT ![t] = line]
    /\ input_buf' = [input_buf EXCEPT ![t] =
            [i \in Cells |-> IF Used(i, input_head[t]) < n
                             THEN line[Used(i, input_head[t])] ELSE @[i]]]
    /\ input_head' = [input_head EXCEPT ![t] = (@ + n) % Size]
    /\ line_length' = [line_length EXCEPT ![t] = 0]
    /\ line_cursor' = [line_cursor EXCEPT ![t] = 0]
    /\ line_ready' = [line_ready EXCEPT ![t] = TRUE]
    /\ UNCHANGED <<input_esc_state, input_tail>>

\* Backspace: the characters from the cursor on move one place left.
Backspace ==
    LET t == current_tty
        cursor == line_cursor[t]
    IN
    /\ Passes(BS) /\ Normal
    /\ line_buffer' = [line_buffer EXCEPT ![t] =
            [i \in Cells |-> IF cursor > 0 /\ i \in (cursor - 1)..(line_length[t] - 2)
                             THEN @[i + 1] ELSE @[i]]]
    /\ line_length' = [line_length EXCEPT ![t] = IF cursor > 0 THEN @ - 1 ELSE @]
    /\ line_cursor' = [line_cursor EXCEPT ![t] = Max({@ - 1, 0})]
    /\ UNCHANGED <<input_esc_state, ringVars>>

\* Mutant: the characters after the cursor are overwritten, not moved.
ShiftedOver(t, c) ==
    [i \in Cells |-> IF i = line_cursor[t] THEN c ELSE line_buffer[t][i]]

\* The line with c inserted at the cursor.
Shifted(t, c) ==
    [i \in Cells |->
        CASE i = line_cursor[t] -> c
          [] i \in (line_cursor[t] + 1)..line_length[t] -> line_buffer[t][i - 1]
          [] OTHER -> line_buffer[t][i]]

\* A printable character goes in at the cursor if the line is not full.
Insert ==
    LET t == current_tty
        fits == line_length[t] < Size - 1
    IN
    /\ Normal
    /\ \E c \in Chars \ {NL, BS, ESC, NUL} :
        /\ Passes(c)
        /\ line_buffer' = [line_buffer EXCEPT ![t] = IF fits THEN Shifted(t, c) ELSE @]
    /\ line_length' = [line_length EXCEPT ![t] = IF fits THEN @ + 1 ELSE @]
    /\ line_cursor' = [line_cursor EXCEPT ![t] = IF fits THEN @ + 1 ELSE @]
    /\ UNCHANGED <<input_esc_state, ringVars>>

-----------------------------------------------------------------------------
(* tty_read in canonical mode.                                              *)

\* A read of len bytes ends after a newline, at len or with the last byte.
TakesFrom(q, len, n) ==
    /\ n <= len
    /\ \A i \in 1..(n - 1) : q[i] # NL
    /\ n = len \/ n = Len(q) \/ (n > 0 /\ q[n] = NL)

Take(t, len) ==
    \E n \in 0..Len(Queue(t)) :
        /\ TakesFrom(Queue(t), len, n)
        /\ input_tail' = [input_tail EXCEPT ![t] = (@ + n) % Size]
        /\ line_ready' = [line_ready EXCEPT ![t] = @ /\ n < Len(Queue(t))]
        /\ UNCHANGED <<input_buf, input_head>>

\* A line is there: the read does not wait.
ReadNow(p) ==
    /\ pending = <<>>
    /\ reading[p] = NoRead
    /\ \E t \in Ttys, len \in Lens : line_ready[t] /\ Take(t, len)
    /\ UNCHANGED <<lineVars, input_esc_state, kbdVars, pending, reading>>

ReadWait(p) ==
    /\ pending = <<>>
    /\ reading[p] = NoRead
    /\ \E t \in Ttys, len \in Lens :
        /\ ~line_ready[t]
        /\ reading' = [reading EXCEPT ![p] = [tty |-> t, len |-> len]]
    /\ UNCHANGED <<lineVars, input_esc_state, ringVars, kbdVars, pending>>

\* The sti;hlt loop finds the flag set; other readers may have been faster.
ReadWoken(p) ==
    /\ pending = <<>>
    /\ reading[p] # NoRead
    /\ line_ready[reading[p].tty]
    /\ Take(reading[p].tty, reading[p].len)
    /\ reading' = [reading EXCEPT ![p] = NoRead]
    /\ UNCHANGED <<lineVars, input_esc_state, kbdVars, pending>>

-----------------------------------------------------------------------------
Keyboard == PressKey \/ PressCtrl \/ tty_switch \/ Prefix \/ PressExtended
            \/ ReleaseExtended

InputChar == StartEscape \/ AfterEscape \/ EndEscape \/ EndLine \/ Backspace
             \/ Insert

Next ==
    \/ Keyboard
    \/ InputChar
    \/ \E p \in Procs : ReadNow(p) \/ ReadWait(p) \/ ReadWoken(p)

Spec == Init /\ [][Next]_vars

-----------------------------------------------------------------------------
\* line_ready is set exactly while the ring holds input: no reader sleeps
\* although there is something to read, and no read returns nothing.
ReadyMeansInput ==
    \A t \in Ttys : line_ready[t] <=> Queue(t) # <<>>

\* The ring and the shifting buffer behave as the lines of LineTty: the
\* cursor keys and the readers neither lose, reorder nor repeat a byte.
LT == INSTANCE LineTty WITH
        Capacity <- Size - 1,
        Newline  <- NL,
        left  <- [t \in Ttys |-> [i \in 1..line_cursor[t] |-> line_buffer[t][i - 1]]],
        right <- [t \in Ttys |-> [i \in 1..(line_length[t] - line_cursor[t]) |->
                                      line_buffer[t][line_cursor[t] + i - 1]]],
        queue <- [t \in Ttys |-> Queue(t)]

Lines == LT!LineSpec

\* tty_read "wait[s] for a complete line": what line_ready announces ends.
ReadyIsWholeLine ==
    \A t \in Ttys : line_ready[t] => NL \in Range(Queue(t))

\* The Delete key "just reset[s] state": it puts nothing into the line.
DeleteInsertsNothing ==
    \A t \in Ttys : \A i \in 0..(line_length[t] - 1) : line_buffer[t][i] # "~"
=============================================================================
