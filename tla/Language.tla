-------------------------------- MODULE Language --------------------------------
(***************************************************************************)
(* The language 42sh runs: what its builtins leave behind, and what a line *)
(* or a tree should do, said without processes, stacks or streams.         *)
(*                                                                         *)
(* The meaning is given one level at a time: MeaningByParts says what a    *)
(* tree does in terms of what its parts do, which is the parameter Wanted. *)
(* A model that assigns Wanted <- MeaningByParts (and so for lines) has    *)
(* the recursive definition; a proof takes the equation as a hypothesis.   *)
(***************************************************************************)
EXTENDS Syntax, Integers, FiniteSetsExt

CONSTANTS
    Files,       \* the files that exist: a sequence of lines each
    External,    \* the exit status of each external command
    Number,      \* the value of each word is_numeric accepts
    Definitions, \* the words NAME=VALUE that alias accepts: [name, value]
    AliasNames,  \* the names that may have an alias
    Unopenable,  \* targets of redirections that fail
    MaxPipeline, \* the stages a pipeline may have (MAX_PIPELINE)
    ParseTokens(_),      \* parser_parse: the tree of a line, or NoTree
    ExpandAliases(_, _), \* alias_expand_tokens: a line, an alias table
    Wanted(_, _),        \* what a tree does to a state
    WantedOfLines(_, _)  \* what a sequence of lines does to a state

\* A line is [line, tree]: its tokens and the tree it was written from.

ASSUME LanguageAssumption ==
    /\ \A c \in DOMAIN External : External[c] \in 0..255
    /\ \A w \in DOMAIN Number : Number[w] \in Int
    /\ \A f \in DOMAIN Files : Files[f] \in Seq(Range(Files[f]))
    /\ MaxPipeline \in Nat /\ MaxPipeline >= 2

NoAliases == [n \in AliasNames |-> NoAlias]

\* the tables that definitions can make
Tables == [AliasNames -> {NoAlias} \cup {Definitions[w].value : w \in DOMAIN Definitions}]

-------------------------------------------------------------------------------
(* Builtins.                                                               *)

\* the arguments of a command, and whether its redirections fail
Args(cmd) == Tail(cmd.argv)
CannotOpen(redirs) == \E i \in DOMAIN redirs : redirs[i][2] \in Unopenable

\* alias_arg for each argument: the last definition of a name stays
AliasAll(table, ws) ==
    LET of(n) == {i \in DOMAIN ws : ws[i] \in DOMAIN Definitions
                                       /\ Definitions[ws[i]].name = n}
    IN  [n \in DOMAIN table |-> IF of(n) = {} THEN table[n]
                                ELSE Definitions[ws[Max(of(n))]].value]

\* a query fails for a name with no alias at that moment
AliasFails(table, ws) ==
    \E i \in DOMAIN ws : /\ ws[i] \notin DOMAIN Definitions
                         /\ AliasValue(AliasAll(table, SubSeq(ws, 1, i - 1)), ws[i])
                                = NoAlias

\* the table and status unalias leaves
Unaliased(table, ws) ==
    CASE ws = <<>>                    -> [table |-> table, code |-> 2]
      [] ws # <<>> /\ ws[1] = "-a"    -> [table |-> NoAliases, code |-> 0]
      [] OTHER ->
           [table |-> [n \in DOMAIN table |-> IF \E i \in DOMAIN ws : ws[i] = n
                                              THEN NoAlias ELSE table[n]],
            code  |-> IF \E i \in DOMAIN ws :
                             \/ AliasValue(table, ws[i]) = NoAlias
                             \/ \E j \in 1..(i - 1) : ws[j] = ws[i]
                      THEN 1 ELSE 0]

\* (unsigned char); slip: the value as it is
BadExitCode(n) == n
ExitCode(n)    == n % 256

-------------------------------------------------------------------------------
(* Meaning.  A state st holds status, running, aliases, and the external     *)
(* commands ran, each with the $? it saw.                                    *)

MeaningOfExit(args, st) ==
    CASE args = <<>> -> [st EXCEPT !.running = FALSE]
      [] args # <<>> /\ args[1] \notin DOMAIN Number ->
             [st EXCEPT !.running = FALSE, !.status = 2]
      [] Len(args) > 1 /\ args[1] \in DOMAIN Number -> [st EXCEPT !.status = 1]
      [] OTHER -> [st EXCEPT !.running = FALSE, !.status = ExitCode(Number[args[1]])]

MeaningOfSource(args, st) ==
    CASE args = <<>>                                -> [st EXCEPT !.status = 2]
      [] args # <<>> /\ args[1] \notin DOMAIN Files -> [st EXCEPT !.status = 1]
      [] OTHER                                      -> WantedOfLines(Files[args[1]], st)

MeaningOfCall(name, args, st) ==
    CASE name = "exit"    -> MeaningOfExit(args, st)
      [] name = "."       -> MeaningOfSource(args, st)
      [] name = "alias"   ->
             [st EXCEPT !.status = IF AliasFails(st.aliases, args) THEN 1 ELSE 0,
                        !.aliases = AliasAll(@, args)]
      [] name = "unalias" ->
             [st EXCEPT !.status = Unaliased(st.aliases, args).code,
                        !.aliases = Unaliased(@, args).table]
      [] OTHER ->
             [st EXCEPT !.ran = Append(@, <<name, st.status>>),
                        !.status = IF name \in DOMAIN External THEN External[name]
                                   ELSE 127]

MeaningOfCommand(cmd, st) ==
    IF CannotOpen(cmd.redirs) THEN [st EXCEPT !.status = 1]
    ELSE IF cmd.argv = <<>>   THEN [st EXCEPT !.status = 0]
    ELSE MeaningOfCall(cmd.argv[1], Args(cmd), st)

\* a copy of the shell: only its status comes back, as a byte
InCopy(t, st) == [st EXCEPT !.status = Wanted(t, [st EXCEPT !.ran = <<>>]).status % 256]

\* the right side of && || ; after a left side that left a state
MeaningOfRight(op, right, left) ==
    IF \/ ~left.running
       \/ op = "&&" /\ left.status # 0
       \/ op = "||" /\ left.status = 0
    THEN left ELSE Wanted(right, left)

MeaningByParts(t, st) ==
    LET left == Wanted(t.left, st)
    IN  CASE t.op = "cmd" -> MeaningOfCommand(t, st)
          [] t.op \in {"&&", "||", ";"} -> MeaningOfRight(t.op, t.right, left)
          [] t.op = "block" -> IF CannotOpen(t.redirs) THEN [st EXCEPT !.status = 1]
                               ELSE Wanted(t.child, st)
          [] t.op = "sub"   -> IF CannotOpen(t.redirs) THEN [st EXCEPT !.status = 1]
                               ELSE InCopy(t.child, st)
          [] t.op = "|"     -> InCopy(t.right, st)
          [] t.op = "&"     -> [st EXCEPT !.status = 0]

MeaningOfTree(t, st) == IF t = NoTree THEN [st EXCEPT !.status = 2] ELSE Wanted(t, st)

\* a line that the aliases leave alone means the tree it was written from
Intended(l, expanded) == IF expanded = l.line THEN l.tree ELSE ParseTokens(expanded)

MeaningOfLine(l, st) ==
    MeaningOfTree(Intended(l, ExpandAliases(l.line, st.aliases).line), st)

LinesByParts(ls, st) ==
    LET first == MeaningOfLine(Head(ls), st)
    IN  IF ls = <<>> \/ ~st.running THEN st ELSE WantedOfLines(Tail(ls), first)

-------------------------------------------------------------------------------
(* What the meaning and the grammar are taken to be.                       *)

\* the left sides of a pipeline, one inside the other, down to its first stage
Lefts(t) ==
    LET left[k \in Nat] == IF k = 0 THEN t
                           ELSE IF left[k - 1].op = "|" THEN left[k - 1].left
                           ELSE left[k - 1]
    IN  left

\* trees holds the parts of each tree it holds, and what the parser finds in
\* the lines under any table; it finds in a line the tree it was written from;
\* no pipeline has more stages than the shell runs
Grammar(trees, lines) ==
    /\ \A t \in trees :
          /\ t.op = "cmd" => t.argv \in Seq(Range(t.argv))
          /\ t.op \in {"&&", "||", "|", ";"} => t.left \in trees /\ t.right \in trees
          /\ t.op \in {"block", "sub", "&"} => t.child \in trees
          /\ t.op = "|" => Lefts(t)[MaxPipeline - 1].op # "|"
    /\ \A l \in lines :
          /\ ParseTokens(l.line) = l.tree
          /\ \A table \in Tables :
                ParseTokens(ExpandAliases(l.line, table).line) \in trees \cup {NoTree}

\* of these trees and lines, Wanted and WantedOfLines are the meaning
Means(trees, lines) ==
    \A st : st.aliases \in Tables =>
        /\ \A t \in trees : Wanted(t, st) = MeaningByParts(t, st)
        /\ \A ls \in Seq(lines) : WantedOfLines(ls, st) = LinesByParts(ls, st)
===============================================================================
