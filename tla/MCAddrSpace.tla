---------------------------- MODULE MCAddrSpace ----------------------------
EXTENDS AddrSpace

MCSpan == [k \in 0..2 |-> 4^k]

Text(pages)  == [pages |-> pages, whole |-> TRUE]
Short(pages) == [pages |-> pages, whole |-> FALSE]

\* sh has a text and a data segment, which overlap in a page; one program is
\* larger, and the file of the other is cut short.  Of the argument lists one
\* just fits the stack; of the other only the strings fit.
MCShell    == <<Text({1, 2}), Text({2})>>
MCImages   == {<<Text({1, 2}), Text({3})>>, <<Text({1, 2}), Short({2})>>}
MCPrograms == {[argv |-> <<3, 4000>>, envp |-> <<4120>>], [argv |-> <<3, 4000>>, envp |-> <<4170>>]}
=============================================================================
