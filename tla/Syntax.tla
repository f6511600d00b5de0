-------------------------------- MODULE Syntax --------------------------------
(***************************************************************************)
(* What the parser, the aliases and the executor of 42sh share: the tree   *)
(* of a line (includes/ast.h) and the alias table.                         *)
(***************************************************************************)
EXTENDS Naturals, Sequences, SequencesExt

CONSTANT NoAlias     \* a name that has none

NoTree == [op |-> "none"]

Binary(op, left, right) == [op |-> op, left |-> left, right |-> right]
Group(op, child, redirs) == [op |-> op, child |-> child, redirs |-> redirs]
Command(assigns, argv, redirs) ==
    [op |-> "cmd", assigns |-> assigns, argv |-> argv, redirs |-> redirs]

AliasValue(table, w) == IF w \in DOMAIN table THEN table[w] ELSE NoAlias
===============================================================================
