------------------------------- MODULE MCVfs -------------------------------
EXTENDS Vfs

Abs(steps) == [abs |-> TRUE, steps |-> steps]
Rel(steps) == [abs |-> FALSE, steps |-> steps]

\* Files and directories of the same names, one below the other, seen from the
\* root, from a directory and from its child; /dev, and a name below a device; /.
MCPaths == {Abs(<<"a">>), Abs(<<"a", "b">>), Rel(<<"b">>), Rel(<<"..", "a">>),
            Abs(<<"dev">>), Abs(<<"dev", "tty", "b">>), Abs(<<>>)}

MCMoves == {-1, 2}

\* Every entry answers to its own name only.
MCOwnName == [n \in {"a", "b"} |-> {n}]

\* An upper-case 8.3 name answers to both cases.
MCBothCases == [n \in {"a", "A"} |-> IF n = "A" THEN {"a", "A"} ELSE {"a"}]
MCCasePaths == {Abs(<<"a">>), Abs(<<"A">>)}
=============================================================================
