-------------------------------- MODULE Control --------------------------------
(***************************************************************************)
(* Shell with the parser (Parser) and alias expansion (Aliases).  A model  *)
(* of it assigns the parameters of Language:                               *)
(*   ParseTokens <- Parse              Wanted <- MeaningByParts            *)
(*   ExpandAliases <- AliasExpandTokens   WantedOfLines <- LinesByParts    *)
(***************************************************************************)
EXTENDS Shell, Aliases

-------------------------------------------------------------------------------
(* Properties.                                                               *)

\* the members of a sequence at some places
Pick(seq, at) ==
    LET places == SelectSeq([k \in DOMAIN seq |-> k], LAMBDA k : k \in at)
    IN  [k \in DOMAIN places |-> seq[places[k]]]

\* an alias whose value gives the command no word
Wordless(table) ==
    \E n \in AliasNames :
        table[n] # NoAlias /\ (table[n] = <<>> \/ table[n][1] \in Redirs)

\* Alias expansion leaves no command word that has an alias, but one that came
\* out of that alias or out of too long a chain, or for want of budget; and it
\* replaces nothing else: what the user typed stays, in order.
AliasesResolved ==
    \A i \in DOMAIN procs : procs[i].do.what = "scan" =>
        LET s == procs[i].do.scan
            table == procs[i].aliases
            typed == Stream(procs[i]).lines[Stream(procs[i]).at - 1].line
            kept == {k \in DOMAIN s.line : s.from[k] = {}}
            command(k) == k = 1 \/ s.line[k - 1] \in Starters
            aliased(w) == w \notin Quoted /\ AliasValue(table, w) # NoAlias
        IN  /\ \A k \in DOMAIN s.line :
                   command(k) /\ aliased(s.line[k]) =>
                       \/ s.line[k] \in s.from[k] \/ Wordless(table)
                       \/ Cardinality(s.from[k]) >= AliasSeenMax
                       \/ s.budget = AliasBudget
            /\ \E gone \in SUBSET {k \in DOMAIN typed : aliased(typed[k])} :
                   Pick(s.line, kept) = Pick(typed, DOMAIN typed \ gone)

\* parser_list.c: "Newlines act as command terminators (POSIX 2.10) so `;` and
\* a literal `\n` between commands are equivalent": wherever semicolons would
\* do, newlines give the same tree.  Refuted by a run of its own.
NewlineIsSemicolon ==
    \A i \in DOMAIN procs : procs[i].do.what = "scan" =>
        LET line  == procs[i].do.scan.line
            semis == [k \in DOMAIN line |-> IF line[k] = "nl" THEN ";" ELSE line[k]]
        IN  Parse(semis) # NoTree => Parse(line) = Parse(semis)
===============================================================================
