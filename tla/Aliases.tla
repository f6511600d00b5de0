-------------------------------- MODULE Aliases --------------------------------
(***************************************************************************)
(* Alias expansion (srcs/aliases/alias_expand.c): between the lexer and    *)
(* the parser, words in command position are replaced by the tokens of     *)
(* their alias.                                                            *)
(***************************************************************************)
EXTENDS Parser, FiniteSets

CONSTANTS Quoted,       \* the words that hold a quote or a backslash
          AliasSeenMax, \* ALIAS_SEEN_MAX
          AliasBudget   \* ALIAS_BUDGET

\* The scan, t_alias_scan.  from is history: for each token, the aliases whose
\* values it was part of.
NewScan(line) ==
    [line |-> line, from |-> [i \in DOMAIN line |-> {}], at |-> 1, seen |-> {},
     cmd |-> TRUE, skip |-> FALSE, budget |-> 0]

\* slip: the value is not looked at again
BadSplice(s, value) ==
    LET tokens(seq, new) == SubSeq(seq, 1, s.at - 1) \o new
                              \o SubSeq(seq, s.at + 1, Len(seq))
        name   == s.line[s.at]
        source == s.from[s.at] \cup {name}
    IN  [s EXCEPT !.line = tokens(@, value),
                  !.from = tokens(@, [i \in DOMAIN value |-> source]),
                  !.seen = @ \cup {name}, !.budget = @ + 1,
                  !.at = @ + Len(value)]

\* the value takes the place of the word, and is looked at again
Splice(s, value) ==
    LET tokens(seq, new) == SubSeq(seq, 1, s.at - 1) \o new
                              \o SubSeq(seq, s.at + 1, Len(seq))
        name   == s.line[s.at]
        source == s.from[s.at] \cup {name}
    IN  [s EXCEPT !.line = tokens(@, value),
                  !.from = tokens(@, [i \in DOMAIN value |-> source]),
                  !.seen = @ \cup {name}, !.budget = @ + 1]

\* a word that stays ends the command position
NextWord(s) == [s EXCEPT !.cmd = FALSE, !.seen = {}, !.at = @ + 1]

AliasScanStep(s, table) ==
    LET w == s.line[s.at]
    IN  CASE IsWord(w) /\ s.skip -> [s EXCEPT !.skip = FALSE, !.at = @ + 1]
          [] IsWord(w) /\ ~s.skip /\ s.cmd ->
                 IF /\ s.budget < AliasBudget /\ Cardinality(s.seen) < AliasSeenMax
                    /\ w \notin Quoted /\ w \notin s.seen
                    /\ AliasValue(table, w) # NoAlias
                 THEN Splice(s, table[w])
                 ELSE NextWord(s)
          [] w \in Redirs   -> [s EXCEPT !.skip = TRUE, !.at = @ + 1]
          [] w \in Starters -> [s EXCEPT !.cmd = TRUE, !.seen = {}, !.at = @ + 1]
          [] w = ")"        -> [s EXCEPT !.cmd = FALSE, !.at = @ + 1]
          [] OTHER          -> [s EXCEPT !.at = @ + 1]

RECURSIVE AliasScan(_, _)
AliasScan(s, table) ==
    IF s.at > Len(s.line) THEN s ELSE AliasScan(AliasScanStep(s, table), table)

AliasExpandTokens(line, table) == AliasScan(NewScan(line), table)
===============================================================================
