------------------------------- MODULE MCTerm -------------------------------
EXTENDS Term

\* Sequences come in pieces, between which anything else may be written.
MCTexts == {<<"x">>, <<NL>>, <<CR>>, <<TAB>>, <<BS>>, <<ESC, "[">>, <<"9">>, <<"2">>, <<";">>,
            <<"H">>, <<"J">>, <<ESC, "[", "A">>, <<"9", "B">>, <<"2", "C">>, <<"9", "D">>}
=============================================================================
