------------------------------- MODULE MCControl -------------------------------
(* Programs for Control: short lines of every shape, and files to source.    *)
EXTENDS Control

Cmd(words) == Command(<<>>, words, <<>>)

Line(tree, sep) == [line |-> Append(Show(tree, sep), "eof"), tree |-> tree]
Typed(tokens)   == [line |-> Append(tokens, "eof"), tree |-> Parse(Append(tokens, "eof"))]
Wrong(tokens)   == [line |-> Append(tokens, "eof"), tree |-> NoTree]

MCExternal == [c \in {"t", "f"} |-> IF c = "t" THEN 0 ELSE 1]
MCNumber   == [w \in {"3", "-1"} |-> IF w = "3" THEN 3 ELSE -1]

\* lib goes on after a line with an error; quit ends the shell from two levels
MCFiles ==
    [n \in {"lib", "quit", "deep", "rc"} |->
        CASE n = "lib"  -> <<Wrong(<<"t", "&&">>), Line(Cmd(<<"f">>), ";")>>
          [] n = "quit" -> <<Line(Binary("||", Cmd(<<".", "deep">>), Cmd(<<"t">>)), ";"),
                             Line(Cmd(<<"t">>), ";")>>
          [] n = "deep" -> <<Line(Cmd(<<"exit", "3">>), ";"), Line(Cmd(<<"t">>), ";")>>
          [] n = "rc"   -> <<Line(Cmd(<<"f">>), ";")>>]

MCDefinitions ==
    [w \in {"a=b x", "b=a", "a=t;b", "b=a|a", "a=", "b=>o"} |->
        [name  |-> IF w \in {"a=b x", "a=t;b", "a="} THEN "a" ELSE "b",
         value |-> CASE w = "a=b x" -> <<"b", "x">>
                     [] w = "b=a"   -> <<"a">>
                     [] w = "a=t;b" -> <<"t", ";", "b">>
                     [] w = "b=a|a" -> <<"a", "|", "a">>
                     [] w = "a="    -> <<>>
                     [] w = "b=>o"  -> <<">", "o">>]]

Plain == {Cmd(<<"t">>), Cmd(<<"f">>), Cmd(<<"exit", "3">>)}
Others == {Cmd(<<"exit">>), Cmd(<<"exit", "-1">>), Cmd(<<"exit", "x">>),
           Cmd(<<"exit", "3", "3">>), Cmd(<<"none">>),
           Cmd(<<".">>), Cmd(<<".", "none">>), Cmd(<<".", "lib">>), Cmd(<<".", "quit">>),
           Command(<<>>, <<"t">>, << <<">", "/">> >>),
           Command(<<>>, <<"exit", "3">>, << <<">", "o">> >>),
           Command(<<"A=1">>, <<>>, <<>>), Command(<<"A=1">>, <<"f">>, <<>>)}

Pairs(ops, left, right) == {Binary(op, l, r) : op \in ops, l \in left, r \in right}
Groups(trees) == {Group(op, t, <<>>) : op \in {"sub", "block"}, t \in trees}
              \cup {Group("block", t, << <<">", "/">> >>) : t \in trees}

AndOrs == Pairs({"&&", "||"}, Plain \cup Others, Plain)
Both   == Pairs({"&&", "||", ";", "|"}, Plain, Plain)

Trees ==
    Others \cup AndOrs \cup Both \cup Pairs({"|"}, Plain, Others) \cup Groups(Both)
    \cup Pairs({"&&", "||"}, Pairs({"&&", "||", "|"}, Plain, Plain), Plain)
    \cup Pairs({"&&", "||", "|"}, Groups(Both), Plain)
    \cup Pairs({"&&", "||"}, Plain, Groups(Both) \cup Pairs({"|"}, Plain, Plain))
    \cup {Binary("|", l, r) : l \in Pairs({"|"}, Plain, Plain), r \in Plain}
    \cup {Group("&", t, <<>>) : t \in Plain \cup Others \cup Groups(Plain)
                                               \cup Pairs({"&&", "|"}, Plain, Plain)}
    \cup {Binary(";", Group("&", l, <<>>), r) : l \in Plain, r \in Plain}

Errors == {<<"t", "&&">>, <<"(", "t">>, <<"t", ")">>, <<";">>, <<"t", ">">>, <<"{", "t", "}">>,
           <<"t", "|", "|", "t">>, <<">", "o">>, <<"(", "t", ")", "t">>, <<"t", "&", ";">>}

After == Line(Cmd(<<"t">>), ";")

\* a line of each shape, then a command that sees its status
Shapes == {<<Line(t, sep), After>> : t \in Trees, sep \in {";", "nl"}}
     \cup {<<Line(Cmd(<<"f">>), ";"), Wrong(e), After>> : e \in Errors}

AliasLine(ds) == Line(Cmd(<<"alias">> \o ds), ";")
Uses == {<<"a">>, <<"b", ";", "a">>, <<"a", "a">>, <<"q'", "||", "a">>, <<"t", ">", "a", "&&", "b">>,
         <<"(", "a", ")">>, <<"a", "|", "b">>}

Aliasing ==
    {<<AliasLine(<<d, e>>), Typed(u)>> : d \in DOMAIN MCDefinitions, e \in DOMAIN MCDefinitions, u \in Uses}
    \cup {<<AliasLine(<<"a=b x", "b">>), Line(Cmd(<<"unalias">> \o ws), ";"), Typed(<<"a">>)>> :
             ws \in {<<>>, <<"-a">>, <<"a">>, <<"a", "a">>, <<"b">>}}
    \cup {<<Line(Group(g, Cmd(<<"alias", "a=">>), <<>>), ";"), Typed(<<"a">>)>> :
             g \in {"sub", "block", "&"}}

\* what a terminal and a rc file add
Exits == {Cmd(<<"exit">>), Group("sub", Cmd(<<"exit">>), <<>>)}
Sessions ==
    {<<Line(t, ";"), After>> : t \in Plain \cup Others \cup Groups(Plain)
                                    \cup Pairs({";"}, {Cmd(<<"t">>)} \cup Groups({Cmd(<<"t">>)}), Exits)}

MCPrograms ==
    {[mode |-> "script", lines |-> ls] : ls \in Shapes \cup Aliasing}
    \cup {[mode |-> m, lines |-> ls] : m \in {"repl", "interactive"}, ls \in Sessions}
    \cup {[mode |-> "missing", lines |-> <<>>]}

RECURSIVE Parts(_)
Parts(t) ==
    {t} \cup CASE t.op = "cmd"                   -> {}
               [] t.op \in {"block", "sub", "&"} -> Parts(t.child)
               [] OTHER                          -> Parts(t.left) \cup Parts(t.right)

\* the parser is one for which the meaning of these programs is defined: trees
\* are all that it finds under every table there can be, with their parts
ASSUME MCGrammar ==
    LET lines == LinesOf(MCPrograms)
        found == {Parse(AliasExpandTokens(l.line, table).line) : l \in lines, table \in Tables}
        trees == UNION {Parts(t) : t \in found \ {NoTree}}
    IN  Grammar(trees, lines)

\* what the newline run reads: commands on lines of their own, in a group
Bodies == Pairs({";"}, Plain \cup {Command(<<"A=1">>, <<>>, <<>>)}, Plain)
MCGrouped == {[mode |-> "script", lines |-> <<Line(t, "nl")>>] : t \in Groups(Bodies)}
===============================================================================
