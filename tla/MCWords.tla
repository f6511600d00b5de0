-------------------------------- MODULE MCWords --------------------------------
(* Small instances of Words for TLC.                                         *)
EXTENDS Phrases, Expressions

Piece(kind, dq, text) == [kind |-> kind, dq |-> dq, text |-> text, tree |-> Num(0)]
Sum(dq, tree)         == [kind |-> "sum", dq |-> dq, text |-> <<>>, tree |-> tree]

\* pieces of a word: each way to quote, each way to expand
Pieces ==
    {Piece("plain", FALSE, <<"a">>), Piece("plain", FALSE, <<":">>),
     Piece("plain", TRUE, <<":", " ">>), Piece("plain", TRUE, <<>>),
     Piece("plain", TRUE, <<"'">>),
     Piece("single", FALSE, <<"$", "X", "\\">>), Piece("single", FALSE, <<>>),
     Piece("escape", FALSE, <<"'">>), Piece("escape", FALSE, <<" ">>),
     Piece("escape", TRUE, <<Backtick>>),
     Piece("var", FALSE, <<>>), Piece("var", TRUE, <<>>),
     Piece("status", FALSE, <<>>), Piece("status", TRUE, <<>>),
     Piece("sub", FALSE, <<"(", "a", ")">>), Piece("sub", TRUE, <<"\"", ")", "\"">>),
     Sum(FALSE, Neg(Num(3)))}

\* two, or three of which the last is an expansion
Phrases == {<<p>> : p \in Pieces} \cup (Pieces \X Pieces)
           \cup {<<p, q, r>> : p \in Pieces, q \in Pieces,
                               r \in {Piece("bare", FALSE, <<>>), Piece("status", TRUE, <<>>)}}

ByZero == Bin("/", Num(1), Num(0))
Leaves == {Num(0), Num(1), Num(3), Num(16)}
Ops    == {"+", "-", "*", "/", "%"}
Small  == Leaves \cup {Neg(l) : l \in Leaves} \cup {Bin(o, l, r) : o \in Ops, l \in Leaves, r \in Leaves}
Trees  == Small \cup {Bin(o, l, r) : o \in Ops, l \in Small, r \in {Num(3), Neg(Num(1))}}
                \cup {Bin(o, Num(3), r) : o \in Ops, r \in Small}
                \cup {Neg(t) : t \in Small}
                \cup {Bin("/", Neg(Num(16)), Bin("+", Neg(Num(1)), ByZero))}

Word(pieces)  == [text |-> WriteWord(pieces), means |-> pieces]
Unmeant(text) == [text |-> text, means |-> <<>>]

\* texts nobody meant: every string of up to four of these characters
Raw == UNION {[1..n -> {"'", "\"", "\\", "$", "{", "}", "~", "X", "(", ")", "\n"}] : n \in 1..4}

\* an expression in which an expansion fails: "$(($((1/0))+1))" and "$(($(+))"
Nested == {<<"\"", "$", "(", "(">> \o s \o <<")", ")", "\"">> :
              s \in {<<"$", "(", "(", "1", "/", "0", ")", ")", "+", "1">>, <<"$", "(", "+">>}}

Values == {Unset, <<>>, <<" ">>, <<":">>, <<" ", "a", " ", ":">>, <<":", ":", "a", " ", " ", "b">>}
IfsSet == {Unset, <<>>, <<":">>, <<" ", ":">>}

Command(launch, av, vv, rv) == [launch |-> launch, argv |-> av, values |-> vv, redirs |-> rv]
With(c, x, ifs, home) == [launch |-> c.launch, argv |-> c.argv, values |-> c.values,
                          redirs |-> c.redirs, x |-> x, ifs |-> ifs, home |-> home]
To(w)   == [heredoc |-> FALSE, target |-> w]
Here0   == [heredoc |-> TRUE, target |-> Unmeant(<<"'", "a", "'">>)]
Bare    == Word(<<Piece("bare", FALSE, <<>>)>>)
Quoted  == Word(<<Piece("bare", TRUE, <<>>)>>)
Home(s) == Unmeant(<<"~">> \o s)
Plain   == Word(<<Piece("plain", FALSE, <<"a">>)>>)

Whole == {Command(l, <<Bare, Plain, Quoted>>, <<Bare>>, <<To(t), Here0, To(Bare)>>) :
             l \in {"simple", "background", "pipeline"}, t \in {Quoted, Plain}}
         \cup {Command("simple", <<>>, <<Home(<<"/", "u">>), Home(<<"u">>), Home(<<"b">>)>>,
                       <<>>)}

One(l, w) == Command(l, <<w>>, <<>>, <<>>)

MCCases ==
    {With(One("simple", Word(s)), x, <<" ", ":">>, Unset) :
        s \in Phrases, x \in {<<" ", "a", " ", ":">>, Unset}}
    \cup {With(One("simple", Word(<<Sum(FALSE, t)>>)), Unset, Unset, Unset) : t \in Trees}
    \cup {With(One("background", Unmeant(t)), <<"a">>, Unset, <<"u">>) : t \in Raw}
    \cup {With(One(l, w), Unset, Unset, Unset) :
              l \in {"simple", "pipeline"},
              w \in {Unmeant(t) : t \in Nested} \cup {Word(<<Sum(FALSE, ByZero)>>)}}
    \cup {With(c, x, i, h) : c \in Whole, x \in Values, i \in IfsSet, h \in {Unset, <<"u">>}}

MCChar == STRING \ {End}
MCOutputs == {<<>>, <<"a", " ", "\n", "\n">>}
MCUserDirs == LET names == {<<>>, <<"u">>} IN [n \in names |-> <<"/", " ">>]
===============================================================================
