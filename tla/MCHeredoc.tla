------------------------------ MODULE MCHeredoc ------------------------------
(* Physical lines for Heredoc.  A and \tA end a body.                        *)
EXTENDS Heredoc

\* quotes, comments, parentheses, pipes and continuations around operators
ReaderLines ==
    {<<"A">>, <<"\t", "A">>, <<"w", "<<", "A">>, <<"(", "w", "<<-", "A">>,
     <<"w", "sq", "<<", "A">>, <<"w", "sq", ")">>, <<"w", "#", "<<", "B">>,
     <<")", "|", "w">>, <<"w", "<<", "A", "\\">>, <<"B", "semi", "w", "<<-", "A">>,
     <<"w", "dq", "<<", "A">>, <<"(", "w", "#">>}

\* lines that make the collector read the input itself or leave bodies behind
MixedLines ==
    {<<"A">>, <<"alias", "semi", "w", "<<", "B">>, <<"B">>, <<"x#", "<<", "A">>,
     <<"w", "$(", "w", "<<", "A">>, <<")">>, <<"semi", "<<", "A">>, <<"(", "w", "<<", "B", "\\">>}
===============================================================================
