------------------------------ MODULE LineTty ------------------------------
(***************************************************************************)
(* What the terminals promise in canonical mode: on each of them a line is *)
(* edited at a cursor, Enter queues it behind the lines entered before,    *)
(* and a read takes the oldest bytes, never past the end of a line.        *)
(***************************************************************************)
EXTENDS Integers, Sequences, SequencesExt, FiniteSetsExt

CONSTANTS Ttys, Capacity, Newline

VARIABLES
    left, right,    \* the edited line, before and after the cursor
    queue           \* the entered bytes that nobody has read

vars == <<left, right, queue>>

LineInit ==
    /\ left  = [t \in Ttys |-> <<>>]
    /\ right = [t \in Ttys |-> <<>>]
    /\ queue = [t \in Ttys |-> <<>>]

\* The bytes of s that a sequence limited to Capacity has room for after q.
Fitting(q, s) == SubSeq(s, 1, Min({Len(s), Capacity - Len(q)}))

Insert(t) ==
    /\ Len(left[t]) + Len(right[t]) < Capacity
    /\ Len(left'[t]) = Len(left[t]) + 1
    /\ left' = [left EXCEPT ![t] = Append(left[t], Last(left'[t]))]
    /\ UNCHANGED <<right, queue>>

Rub(t) ==
    /\ left[t] # <<>>
    /\ left' = [left EXCEPT ![t] = Front(left[t])]
    /\ UNCHANGED <<right, queue>>

Move(t) ==
    /\ left'[t] \o right'[t] = left[t] \o right[t]
    /\ \A u \in Ttys \ {t} : left'[u] = left[u] /\ right'[u] = right[u]
    /\ UNCHANGED queue

\* Enter.  A line of full length loses its newline, and a full queue the
\* rest of the line.
Submit(t) ==
    /\ queue' = [queue EXCEPT ![t] =
            queue[t] \o Fitting(queue[t],
                         Fitting(<<>>, left[t] \o right[t] \o <<Newline>>))]
    /\ left' = [left EXCEPT ![t] = <<>>]
    /\ right' = [right EXCEPT ![t] = <<>>]

Read(t) ==
    /\ \E n \in 1..Len(queue[t]) :
        /\ \A i \in 1..(n - 1) : queue[t][i] # Newline
        /\ queue' = [queue EXCEPT ![t] = SubSeq(@, n + 1, Len(@))]
    /\ UNCHANGED <<left, right>>

LineNext ==
    \E t \in Ttys : Insert(t) \/ Rub(t) \/ Move(t) \/ Submit(t) \/ Read(t)

LineSpec == LineInit /\ [][LineNext]_vars
=============================================================================
