------------------------------ MODULE Expressions ------------------------------
(***************************************************************************)
(* The reference of Arithmetic: expressions as trees, what one is worth    *)
(* and how it is written.                                                  *)
(***************************************************************************)
EXTENDS Arithmetic

Num(n)        == [op |-> "num", n |-> n]
Neg(e)        == [op |-> "neg", l |-> e]
Bin(op, l, r) == [op |-> op, l |-> l, r |-> r]

RECURSIVE TreeWorth(_), TreeText(_, _)

TreeWorth(t) ==
    CASE t.op = "num" -> [err |-> "none", val |-> Wrap(t.n)]
      [] t.op = "neg" -> LET e == TreeWorth(t.l) IN [e EXCEPT !.val = Wrap(-@)]
      [] OTHER -> LET l == TreeWorth(t.l)
                      r == TreeWorth(t.r)
                  IN  IF l.err # "none" THEN l
                      ELSE IF r.err # "none" THEN r ELSE Operate(t.op, l.val, r.val)

Level(t) == CASE t.op \in {"num", "neg"} -> 3 [] t.op \in {"+", "-"} -> 1 [] OTHER -> 2

\* the tree as one writes it: parentheses where precedence asks for them, and a
\* blank inside each (two that touch end the substitution)
TreeText(t, level) ==
    LET text == CASE t.op = "num" -> Decimal(t.n)
                  [] t.op = "neg" -> <<"-">> \o TreeText(t.l, 4)
                  [] OTHER -> TreeText(t.l, Level(t)) \o <<t.op>> \o TreeText(t.r, Level(t) + 1)
    IN  IF Level(t) < level /\ t.op # "num" THEN <<"(", " ">> \o text \o <<" ", ")">>
        ELSE text
===============================================================================
