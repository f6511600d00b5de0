------------------------------- MODULE Arithmetic -------------------------------
(***************************************************************************)
(* $(( )): the evaluator of expand_arithmetic.c, a recursive descent over  *)
(* text.  What an expression is worth is in Expressions.                   *)
(*                                                                         *)
(* A long long has Width bits.  Its overflow is undefined in C; the build  *)
(* wraps, and stops the program on the one quotient that does not fit.     *)
(***************************************************************************)
EXTENDS Integers, Sequences, Functions

CONSTANT Width

\* the powers are spelled out for the provers, which have no rule for ^
ASSUME ArithmeticAssumption ==
    Width \in Nat \ {0, 1} /\ 2 ^ Width \in Nat \ {0} /\ 2 ^ (Width - 1) \in Nat \ {0}

\* isspace; TLA+ has no way to write the vertical tab
Blank == {" ", "\t", "\n", "VT", "\f", "\r"}
Digit == <<"0", "1", "2", "3", "4", "5", "6", "7", "8", "9">>
End   == ""        \* the byte that ends a string

At(s, i) == IF i \in DOMAIN s THEN s[i] ELSE End

IsDigit(c)  == c \in Range(Digit)
DigitOf(c)  == (CHOOSE d \in DOMAIN Digit : Digit[d] = c) - 1

-------------------------------------------------------------------------------
(* Machine integers.                                                         *)

Least   == -(2 ^ (Width - 1))
Wrap(v) == ((v - Least) % (2 ^ Width)) + Least

Abs(v)  == IF v < 0 THEN -v ELSE v
Sign(v) == IF v < 0 THEN -1 ELSE 1

\* C divides towards zero
Quotient(a, b)  == Sign(a) * Sign(b) * (Abs(a) \div Abs(b))
Remainder(a, b) == a - b * Quotient(a, b)

\* one operation: its value, or why there is none
Operate(op, a, b) ==
    IF op \in {"/", "%"} /\ b = 0 THEN [err |-> "zero", val |-> 0]
    ELSE IF op \in {"/", "%"} /\ a = Least /\ b = -1 THEN [err |-> "trap", val |-> 0]
    ELSE [err |-> "none",
          val |-> CASE op = "+" -> Wrap(a + b)
                    [] op = "-" -> Wrap(a - b)
                    [] op = "*" -> Wrap(a * b)
                    [] op = "/" -> Quotient(a, b)
                    [] op = "%" -> Remainder(a, b)]

-------------------------------------------------------------------------------
(* The evaluator.  A result is a value, the position after it, an error.     *)

Result(val, i, err) == [val |-> val, i |-> i, err |-> err]
Results(s) == [val : Int, i : 1..(Len(s) + 1),
               err : {"start", "none", "syntax", "zero", "trap"}]

\* the first position from i on whose byte is not in the set
After(s, i, set) ==
    CHOOSE j \in i..(Len(s) + 1) :
        (j > Len(s) \/ s[j] \notin set) /\ \A k \in i..(j - 1) : s[k] \in set

SkipSpaces(s, i) == After(s, i, Blank)

Literal(s, i) ==
    LET j == After(s, i, Range(Digit))
        val[k \in (i - 1)..(j - 1)] ==
            IF k < i THEN 0 ELSE Wrap(val[k - 1] * 10 + DigitOf(s[k]))
    IN  Result(val[j - 1], j, "none")

\* What an operation on two results is.  It is carried out even if the right one
\* is an error, so the signal of a division may still follow.
Combine(op, l, r) ==
    LET o == Operate(op, l.val, r.val)
    IN  IF r.err = "trap" THEN r
        ELSE Result(o.val, r.i, IF o.err = "none" THEN r.err ELSE o.err)

\* parse_factor, given what an expression is from each position on;
\* no blank is skipped between the sign and its operand
ParseFactor(s, i, Inside) ==
    LET i0   == SkipSpaces(s, i)
        sign == IF At(s, i0) = "-" THEN -1 ELSE 1
        i1   == IF sign = -1 THEN i0 + 1 ELSE i0
    IN  CASE At(s, i1) = "(" ->
               LET e == Inside[i1 + 1]
                   j == SkipSpaces(s, e.i)
               IN  IF e.err = "trap" THEN e
                   ELSE IF At(s, j) = ")" THEN Result(Wrap(sign * e.val), j + 1, e.err)
                   ELSE Result(0, j, "syntax")
          [] IsDigit(At(s, i1)) ->
               LET n == Literal(s, i1) IN Result(Wrap(sign * n.val), n.i, "none")
          [] OTHER -> Result(0, i1, "syntax")

\* the levels of the descent: what each loops over, and what its operands are
Levels == [expr |-> {"+", "-"}, term |-> {"*", "/", "%"}, factor |-> {}]
Below  == [expr |-> "term", term |-> "factor"]

\* parse[t]: the loop of a level with the result t so far; at the start, all of it
Parse(s) ==
    LET Start(level, i) == [level |-> level, res |-> Result(0, i, "start")]
        parse[t \in [level : DOMAIN Levels, res : Results(s)]] ==
            LET inside     == [i \in 1..(Len(s) + 1) |-> parse[Start("expr", i)]]
                operand(i) == parse[Start(Below[t.level], i)]
                i          == SkipSpaces(s, t.res.i)
            IN  CASE t.level = "factor" -> ParseFactor(s, t.res.i, inside)
                  [] t.level # "factor" /\ t.res.err = "start" ->
                       parse[[t EXCEPT !.res = operand(t.res.i)]]
                  [] t.level # "factor" /\ t.res.err = "none" /\ At(s, i) \in Levels[t.level] ->
                       parse[[t EXCEPT !.res = Combine(s[i], t.res, operand(i + 1))]]
                  [] OTHER -> [t.res EXCEPT !.i = i]
    IN  parse[Start("expr", 1)]

\* text after the expression is an error too
ArithEval(s) ==
    LET r == Parse(s)
    IN  IF r.err = "none" /\ SkipSpaces(s, r.i) <= Len(s)
        THEN [r EXCEPT !.err = "syntax"] ELSE r

\* ft_lltoa
Decimal(v) ==
    LET text[n \in 0..Abs(v)] == IF n < 10 THEN <<Digit[n + 1]>>
                           ELSE Append(text[n \div 10], Digit[(n % 10) + 1])
    IN  IF v < 0 THEN <<"-">> \o text[-v] ELSE text[v]
===============================================================================
