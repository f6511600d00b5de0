-------------------------------- MODULE Parser --------------------------------
(***************************************************************************)
(* The parser of 42sh (srcs/parser): a line of tokens to a tree.           *)
(*                                                                         *)
(* A token is a string: an operator, or a word.  A line ends with "eof".   *)
(* A parse function takes the line and the place of p->current and returns *)
(* the tree, the place after it, and whether p->error is still NULL.       *)
(***************************************************************************)
EXTENDS Syntax

CONSTANT Assignments   \* the words is_assignment accepts

Redirs    == {">", "<<"}
Starters  == {"|", "&&", "||", ";", "&", "nl", "("}
Operators == Redirs \cup Starters \cup {")", "eof"}

IsWord(tok) == tok \notin Operators

Got(tree, at) == [tree |-> tree, at |-> at, ok |-> TRUE]
Error(at)     == [tree |-> NoTree, at |-> at, ok |-> FALSE]

\* the first place from at on that is outside a set of tokens
Past(line, at, set) ==
    CHOOSE i \in at..Len(line) :
        line[i] \notin set /\ \A j \in at..(i - 1) : line[j] \in set

Newlines(line, at) == Past(line, at, {"nl"})

-------------------------------------------------------------------------------

RECURSIVE RedirsFrom(_, _, _)
\* the redirections of a group: each needs a word for its target
RedirsFrom(line, at, found) ==
    IF line[at] \notin Redirs THEN Got(found, at)
    ELSE IF ~IsWord(line[at + 1]) THEN Error(at)
    ELSE RedirsFrom(line, at + 2, Append(found, <<line[at], line[at + 1]>>))

RECURSIVE CommandBuild(_, _, _)
\* words and redirections in any order
CommandBuild(line, at, cmd) ==
    CASE IsWord(line[at]) ->
             CommandBuild(line, at + 1, [cmd EXCEPT !.argv = Append(@, line[at])])
      [] line[at] \in Redirs /\ IsWord(line[at + 1]) ->
             CommandBuild(line, at + 2, [cmd EXCEPT !.redirs =
                                           Append(@, <<line[at], line[at + 1]>>)])
      [] line[at] \in Redirs /\ ~IsWord(line[at + 1]) -> Error(at)
      [] OTHER -> Got(cmd, at)

RECURSIVE ParseList(_, _)

WithRedirs(op, child, rs) ==
    IF rs.ok THEN Got(Group(op, child.tree, rs.tree), rs.at) ELSE rs

CloseGroup(line, op, close, child, end) ==
    IF ~child.ok \/ line[end] # close THEN Error(end)
    ELSE WithRedirs(op, child, RedirsFrom(line, end + 1, <<>>))

ParseGroup(line, op, close, child) ==
    CloseGroup(line, op, close, child, Newlines(line, child.at))

ParseSubshell(line, at) ==
    ParseGroup(line, "sub", ")", ParseList(line, Newlines(line, at + 1)))

ParseBlock(line, at) ==
    ParseGroup(line, "block", "}", ParseList(line, Newlines(line, at + 1)))

\* without a word only a here-document or an assignment stands alone
Standing(line, start, built) ==
    IF built.ok /\ built.tree.argv = <<>> /\ built.tree.assigns = <<>> /\ line[start] # "<<"
    THEN Error(start) ELSE built

CommandAt(line, start, assigns) ==
    Standing(line, start, CommandBuild(line, start, Command(assigns, <<>>, <<>>)))

\* newlines after the assignments are skipped too; assignments before a
\* parenthesis are dropped
AfterAssignments(line, at, from) ==
    IF line[from] = "(" THEN ParseSubshell(line, from)
    ELSE CommandAt(line, Newlines(line, from), SubSeq(line, at, from - 1))

ParseSimpleCommand(line, at) == AfterAssignments(line, at, Past(line, at, Assignments))

ParseCommand(line, at) ==
    CASE line[at] = "(" -> ParseSubshell(line, at)
      [] line[at] = "{" -> ParseBlock(line, at)
      [] OTHER          -> ParseSimpleCommand(line, at)

\* a tree with two subtrees, if both were parsed
Join(op, left, right) ==
    IF right.ok THEN Got(Binary(op, left.tree, right.tree), right.at) ELSE right

RECURSIVE PipelineRest(_, _)
PipelineRest(line, left) ==
    IF ~left.ok \/ line[left.at] # "|" THEN left
    ELSE PipelineRest(line, Join("|", left, ParseCommand(line, left.at + 1)))

ParsePipeline(line, at) == PipelineRest(line, ParseCommand(line, at))

\* && and || group to the left, with one precedence
RECURSIVE AndOrRest(_, _)
AndOrRest(line, left) ==
    IF ~left.ok \/ line[left.at] \notin {"&&", "||"} THEN left
    ELSE AndOrRest(line, Join(line[left.at], left, ParsePipeline(line, left.at + 1)))

ParseAndOr(line, at) == AndOrRest(line, ParsePipeline(line, at))

\* newlines, with a semicolon or without, are one separator
SeparatorAt(line, at, past) ==
    CASE line[past] = ";"                -> [op |-> ";", at |-> Newlines(line, past + 1)]
      [] line[past] # ";" /\ past > at   -> [op |-> ";", at |-> past]
      [] line[at] = "&"                  -> [op |-> "&", at |-> Newlines(line, at + 1)]
      [] OTHER                           -> [op |-> "none", at |-> at]

DetectSeparator(line, at) == SeparatorAt(line, at, Newlines(line, at))

Separated(r, sep) ==
    Got(IF sep.op = "&" THEN Group("&", r.tree, <<>>) ELSE r.tree, sep.at)

RECURSIVE ListRest(_, _)
ListFrom(line, r, sep) ==
    IF sep.op = "none" THEN r
    ELSE IF line[sep.at] \in {"eof", ")", "}"} THEN Separated(r, sep)
    ELSE ListRest(line, Join(";", Separated(r, sep), ParseList(line, sep.at)))

ListRest(line, r) ==
    IF r.ok THEN ListFrom(line, r, DetectSeparator(line, r.at)) ELSE r

ParseList(line, at) == ListRest(line, ParseAndOr(line, at))

\* parser_parse: NoTree for a syntax error
AtEof(line, r) == IF r.ok /\ line[Newlines(line, r.at)] = "eof" THEN r.tree ELSE NoTree
Parse(line)    == AtEof(line, ParseList(line, Newlines(line, 1)))

-------------------------------------------------------------------------------
(* Reference: the tokens of a tree, with sep between the commands of a list. *)

ShowRedirs(rs) == FlattenSeq(rs)

RECURSIVE Show(_, _)
Show(t, sep) ==
    CASE t.op = "cmd"   -> t.assigns \o t.argv \o ShowRedirs(t.redirs)
      [] t.op = "sub"   -> <<"(">> \o Show(t.child, sep) \o <<")">> \o ShowRedirs(t.redirs)
      [] t.op = "block" -> <<"{">> \o Show(t.child, sep)
                             \o (IF t.child.op = "&" THEN <<>> ELSE <<sep>>)
                             \o <<"}">> \o ShowRedirs(t.redirs)
      [] t.op = "&"     -> Show(t.child, sep) \o <<"&">>
      [] t.op = ";"     -> Show(t.left, sep) \o (IF t.left.op = "&" THEN <<>> ELSE <<sep>>)
                             \o Show(t.right, sep)
      [] OTHER          -> Show(t.left, sep) \o <<t.op>> \o Show(t.right, sep)
===============================================================================
